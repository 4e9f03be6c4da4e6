-------------------------- MODULE SchemeGeneration --------------------------
(***************************************************************************)
(* The paid generation of a scheme of work for one subject, term and class *)
(* level: the setup that spends AI credits and queues a job, the worker    *)
(* that generates, the failure listener that refunds, and the cancel.      *)
(* src/src/schools/curriculum/curriculum.service.ts,                       *)
(* src/src/schools/curriculum/scheme-of-work.processor.ts,                 *)
(* src/src/ai/ai-curriculum-pipeline.service.ts, and the AI credits of     *)
(* src/src/subscriptions/subscriptions.service.ts.                         *)
(*                                                                         *)
(* A handler is one action per await.  BullMQ: one job at a time, Attempts *)
(* attempts, a stalled job is taken again after a restart, and 'failed' is *)
(* emitted when the retry is already scheduled, so that job.discard() in   *)
(* its listener stops nothing.  The backoff of ten seconds outlasts the    *)
(* listener and the five seconds a Prisma transaction may take.            *)
(*                                                                         *)
(* Bounds: Schemes, MaxFaults, MaxRequests.  Left out: the yearly batch, the free    *)
(* snapshot of a library curriculum, and the approval of a DRAFT.          *)
(***************************************************************************)
EXTENDS Integers, FiniteSets

CONSTANTS
  Requests,
  Schemes,         \* ids; 0 is none of them
  Attempts,        \* attempts of a job: 3 (src/src/ai/vector-queue.module.ts:145)
  Total, Verification,   \* TOTAL_COST, and VERIFICATION_COST of it
  Pool,            \* aiCredits of the subscription
  MaxFaults, MaxRequests

ASSUME SchemeAssumption ==
  /\ IsFiniteSet(Schemes) /\ Schemes \subseteq Nat \ {0}
  /\ Attempts \in Nat /\ Attempts >= 2
  /\ Pool \in Nat /\ MaxFaults \in Nat /\ MaxRequests \in Nat
  /\ Verification \in Nat /\ Total \in Nat /\ Verification <= Total

VARIABLES
  status,    \* SchemeOfWork.status, "none" before the row exists
  key,       \* the schemes whose activeKey is set
  job,       \* per scheme: its state in the queue, and attemptsMade
  used,      \* aiCreditsUsed
  req,       \* the setup or cancel each request is at
  work,      \* the attempt the worker is at
  fail,      \* per scheme: its failure listener
  faults, begun,   \* counted for the bounds
  refunded,  \* history: credits given back for each scheme
  returned,  \* history: credits given back in all
  racy,      \* history: schemes cancelled during an attempt, a failure or
             \* another cancel, or attempted again after a refund
  early,     \* history: schemes archived before their job was dealt with
  clean      \* history: no two requests overlapped

table == <<status, key>>
flags == <<racy, early, clean>>
giveBacks == <<refunded, returned>>
vars == <<status, key, job, used, req, work, fail, faults, begun, refunded, returned,
          racy, early, clean>>

InProgress == {"QUEUED", "VERIFYING", "GENERATING"}
Statuses == InProgress \cup {"none", "DRAFT", "FAILED", "CANCELLED", "ARCHIVED"}

\* amount: what to refund; take: what refundAiCredits found it can.
Idle == [op |-> "idle", id |-> 0, amount |-> 0, take |-> 0]
Handler(ops) == [op : ops \cup {"idle"}, id : Schemes \cup {0}, amount : 0..Total, take : Int]

RefundOps == {"refundRead", "refundWrite"}
CancelOps == {"cancelWrite"} \cup RefundOps
SetupOps == {"archive", "freeKey", "useRead", "useWrite", "create", "commit"}

TypeOK ==
  /\ status \in [Schemes -> Statuses] /\ key \subseteq Schemes
  /\ job \in [Schemes -> [state : {"none", "waiting", "active", "completed", "failed"},
                          made : 0..Attempts]]
  /\ used \in Int
  /\ req \in [Requests -> Handler(CancelOps \cup SetupOps)]
  /\ work \in Handler({"read", "verifying", "verify", "generating", "generate"})
  /\ fail \in [Schemes -> Handler({"read", "mark"} \cup RefundOps)]
  /\ faults \in 0..MaxFaults /\ begun \in 0..MaxRequests
  /\ refunded \in [Schemes -> Int] /\ returned \in Int
  /\ racy \subseteq Schemes /\ early \subseteq Schemes /\ clean \in BOOLEAN

Init ==
  /\ status = [s \in Schemes |-> "none"] /\ key = {}
  /\ job = [s \in Schemes |-> [state |-> "none", made |-> 0]]
  /\ used = 0
  /\ req = [p \in Requests |-> Idle] /\ work = Idle /\ fail = [s \in Schemes |-> Idle]
  /\ faults = 0 /\ begun = 0
  /\ refunded = [s \in Schemes |-> 0] /\ returned = 0 /\ racy = {} /\ early = {} /\ clean = TRUE
-----------------------------------------------------------------------------
Quiet == \A p \in Requests : req[p].op = "idle"
Live == {s \in Schemes : status[s] \notin {"none", "ARCHIVED"}}
Cancelling(s) == \E p \in Requests : req[p].op \in CancelOps /\ req[p].id = s
Attempting(s) == work.op # "idle" /\ work.id = s
Unfinished(s) == job[s].state \in {"waiting", "active"}

Begin(p, r) ==
  /\ req[p].op = "idle" /\ begun < MaxRequests
  /\ req' = [req EXCEPT ![p] = r]
  /\ begun' = begun + 1
  /\ clean' = (clean /\ Quiet)
  /\ UNCHANGED <<work, fail, faults>>

Goto(p, from, r) ==
  /\ req[p].op = from
  /\ req' = [req EXCEPT ![p] = r]
  /\ UNCHANGED <<work, fail, faults, begun, clean>>

Go(p, from, to) == Goto(p, from, [req[p] EXCEPT !.op = to])
Finish(p, from) == Goto(p, from, Idle)
-----------------------------------------------------------------------------
(* setupSchemeOfWork, with forceOverwrite: without it, it may refuse.      *)

\* The ids no setup has used.
Unused == {s \in Schemes : status[s] = "none" /\ job[s].state = "none"}

SetupRead(p) ==
  /\ Unused # {}
  /\ IF Live = {} THEN Begin(p, [Idle EXCEPT !.op = "freeKey"])
     ELSE \E s \in Live : Begin(p, [Idle EXCEPT !.op = "archive", !.id = s])
  /\ UNCHANGED <<table, job, used, giveBacks, racy, early>>

\* Mutant: the old scheme only gives up its key.
MutantSetupKeep(p) ==
  /\ Goto(p, "archive", [Idle EXCEPT !.op = "freeKey"])
  /\ key' = key \ {req[p].id}
  /\ UNCHANGED <<status, job, used, giveBacks, racy, early>>

SetupArchive(p) ==
  /\ Goto(p, "archive", [Idle EXCEPT !.op = "freeKey"])
  /\ status' = [status EXCEPT ![req[p].id] = "ARCHIVED"]
  /\ key' = key \ {req[p].id}
  /\ early' = IF Unfinished(req[p].id) \/ fail[req[p].id].op # "idle"
              THEN early \cup {req[p].id} ELSE early
  /\ UNCHANGED <<job, used, giveBacks, racy>>

SetupFreeKey(p) ==
  /\ Go(p, "freeKey", "useRead")
  /\ key' = {}
  /\ UNCHANGED <<status, job, used, giveBacks, racy, early>>

\* useAiCredits, on a connection outside the transaction of the setup.
Affordable == Total <= Pool - used

UseRead(p) ==
  /\ IF Affordable THEN Go(p, "useRead", "useWrite") ELSE Finish(p, "useRead")
  /\ UNCHANGED <<table, job, used, giveBacks, racy, early>>

UseWrite(p) ==
  /\ Go(p, "useWrite", "create")
  /\ used' = used + Total
  /\ UNCHANGED <<table, job, giveBacks, racy, early>>

\* activeKey is unique: an insert waits for one that is not committed, and
\* fails against one that is.  The job is queued before the row is visible.
SetupCreate(p) ==
  /\ \A q \in Requests : req[q].op # "commit"
  /\ LET new == CHOOSE s \in Unused : TRUE
     IN  IF key # {} \/ Unused = {}
         THEN Finish(p, "create") /\ UNCHANGED job
         ELSE /\ Goto(p, "create", [Idle EXCEPT !.op = "commit", !.id = new])
              /\ job' = [job EXCEPT ![new].state = "waiting"]
  /\ UNCHANGED <<table, used, giveBacks, racy, early>>

SetupCommit(p) ==
  /\ Finish(p, "commit")
  /\ status' = [status EXCEPT ![req[p].id] = "QUEUED"]
  /\ key' = key \cup {req[p].id}
  /\ UNCHANGED <<job, used, giveBacks, racy, early>>

Setup(p) ==
  \/ SetupArchive(p) \/ SetupFreeKey(p) \/ UseRead(p) \/ UseWrite(p)
  \/ SetupCreate(p) \/ SetupCommit(p)
-----------------------------------------------------------------------------
(* refundAiCredits                                                         *)

Takes(amount) == IF used < amount THEN used ELSE amount

\* Mutant: the counter is reset.
MutantGiveBackAll(s, take) ==
  /\ used' = 0
  /\ refunded' = [refunded EXCEPT ![s] = @ + take]
  /\ returned' = returned + take

GiveBack(s, take) ==
  /\ used' = used - take
  /\ refunded' = [refunded EXCEPT ![s] = @ + take]
  /\ returned' = returned + take
-----------------------------------------------------------------------------
(* cancelSchemeGeneration                                                  *)

CancelRefund(st) ==
  CASE st = "QUEUED" -> Total
    [] st = "VERIFYING" -> Total - Verification
    [] st = "GENERATING" -> 0

CancelRead(p, s) ==
  /\ status[s] \in InProgress
  /\ Begin(p, [Idle EXCEPT !.op = "cancelWrite", !.id = s,
                           !.amount = CancelRefund(status[s])])
  /\ racy' = IF Cancelling(s) \/ Attempting(s) \/ fail[s].op # "idle"
             THEN racy \cup {s} ELSE racy
  /\ UNCHANGED <<table, job, used, giveBacks, early>>

CancelWrite(p) ==
  /\ IF req[p].amount > 0 THEN Go(p, "cancelWrite", "refundRead")
     ELSE Finish(p, "cancelWrite")
  /\ status' = [status EXCEPT ![req[p].id] = "CANCELLED"]
  /\ UNCHANGED <<key, job, used, giveBacks, racy, early>>

CancelRefundRead(p) ==
  /\ Goto(p, "refundRead",
          [req[p] EXCEPT !.op = "refundWrite", !.take = Takes(req[p].amount)])
  /\ UNCHANGED <<table, job, used, giveBacks, racy, early>>

CancelRefundWrite(p) ==
  /\ Finish(p, "refundWrite")
  /\ GiveBack(req[p].id, req[p].take)
  /\ UNCHANGED <<table, job, racy, early>>

Cancel(p) == CancelWrite(p) \/ CancelRefundRead(p) \/ CancelRefundWrite(p)
-----------------------------------------------------------------------------
(* The worker: process and generateSchemeOfWork.                           *)

BackedOff(s) ==
  /\ fail[s].op = "idle"
  /\ \A p \in Requests : ~(req[p].op = "commit" /\ req[p].id = s)

WorkTake(s) ==
  /\ work.op = "idle" /\ job[s].state = "waiting"
  /\ job[s].made > 0 => BackedOff(s)
  /\ job' = [job EXCEPT ![s].state = "active"]
  /\ work' = [Idle EXCEPT !.op = "read", !.id = s]
  /\ racy' = IF Cancelling(s) \/ (refunded[s] > 0 /\ status[s] # "CANCELLED")
             THEN racy \cup {s} ELSE racy
  /\ UNCHANGED <<table, used, req, fail, faults, begun, giveBacks, early, clean>>

Worker(from, to) ==
  /\ work.op = from
  /\ work' = [work EXCEPT !.op = to]
  /\ UNCHANGED <<key, job, used, req, fail, faults, begun, giveBacks, flags>>

JobOver(from) ==
  /\ work.op = from
  /\ work' = Idle
  /\ job' = [job EXCEPT ![work.id].state = "completed"]
  /\ UNCHANGED <<key, used, req, fail, faults, begun, giveBacks, flags>>

Final(s) == job[s].made + 1 = Attempts

\* What onFailed gives back: nothing while attempts are left.
FailRefund(s, refused) ==
  IF refused THEN Total - Verification ELSE Total

\* The attempt throws.  refused: VERIFICATION_FAILED.
AttemptFails(from, refused) ==
  LET s == work.id IN
  /\ work.op = from
  /\ work' = Idle
  /\ job' = [job EXCEPT ![s] = [state |-> IF Final(s) THEN "failed" ELSE "waiting",
                                made |-> @.made + 1]]
  /\ fail' = IF refused \/ Final(s)
             THEN [fail EXCEPT ![s] = [Idle EXCEPT !.op = "read", !.id = s,
                                         !.amount = FailRefund(s, refused)]]
             ELSE fail
  /\ UNCHANGED <<key, used, req, faults, begun, giveBacks, flags>>

SetStatus(st) == status' = [status EXCEPT ![work.id] = st]

\* Mutant: a cancelled scheme is generated all the same.
MutantIgnoreCancel ==
  /\ work.op = "read" /\ UNCHANGED status
  /\ \/ status[work.id] = "none" /\ AttemptFails("read", FALSE)
     \/ status[work.id] # "none" /\ Worker("read", "verifying")

\* Before the setup commits, the row is not found and the attempt fails.
WorkRead ==
  /\ work.op = "read" /\ UNCHANGED status
  /\ \/ status[work.id] = "none" /\ AttemptFails("read", FALSE)
     \/ status[work.id] = "CANCELLED" /\ JobOver("read")
     \/ status[work.id] \notin {"none", "CANCELLED"} /\ Worker("read", "verifying")

WorkVerifying == Worker("verifying", "verify") /\ SetStatus("VERIFYING")

\* The model accepts the document, and the scheme is read again; or it
\* refuses it; or the call fails.
WorkVerify ==
  \/ /\ work.op = "verify" /\ UNCHANGED status
     /\ IF status[work.id] = "CANCELLED" THEN JobOver("verify")
        ELSE Worker("verify", "generating")
  \/ \E refused \in BOOLEAN : AttemptFails("verify", refused) /\ SetStatus("FAILED")

WorkGenerating == Worker("generating", "generate") /\ SetStatus("GENERATING")

\* The model may answer without content or without weeks.  The block that stores
\* the weeks and sets the status is skipped, and the job completes.
NoWeeks == JobOver("generate") /\ UNCHANGED status

\* Mutant: the catch block leaves the status alone.
MutantGenerateNoFail ==
  \/ JobOver("generate") /\ SetStatus("DRAFT")
  \/ NoWeeks
  \/ AttemptFails("generate", FALSE) /\ UNCHANGED status

WorkGenerate ==
  \/ JobOver("generate") /\ SetStatus("DRAFT")
  \/ NoWeeks
  \/ AttemptFails("generate", FALSE) /\ SetStatus("FAILED")

Work == WorkRead \/ WorkVerifying \/ WorkVerify \/ WorkGenerating \/ WorkGenerate
-----------------------------------------------------------------------------
(* onFailed                                                                *)

Listener(s, from, r) ==
  /\ fail[s].op = from
  /\ fail' = [fail EXCEPT ![s] = r]
  /\ UNCHANGED <<key, job, req, work, faults, begun, flags>>

MayRefund(st) == st \notin {"none", "CANCELLED"}

FailRead(s) ==
  /\ IF ~MayRefund(status[s]) THEN Listener(s, "read", Idle)
     ELSE Listener(s, "read",
            [fail[s] EXCEPT !.op = IF fail[s].amount > 0 THEN "refundRead" ELSE "mark"])
  /\ UNCHANGED <<status, used, giveBacks>>

FailRefundRead(s) ==
  /\ Listener(s, "refundRead",
       [fail[s] EXCEPT !.op = "refundWrite", !.take = Takes(fail[s].amount)])
  /\ UNCHANGED <<status, used, giveBacks>>

FailRefundWrite(s) ==
  /\ Listener(s, "refundWrite", [fail[s] EXCEPT !.op = "mark"])
  /\ GiveBack(s, fail[s].take)
  /\ UNCHANGED status

FailMark(s) ==
  /\ Listener(s, "mark", Idle)
  /\ status' = [status EXCEPT ![s] = "FAILED"]
  /\ UNCHANGED <<used, giveBacks>>

Fail(s) == FailRead(s) \/ FailRefundRead(s) \/ FailRefundWrite(s) \/ FailMark(s)
-----------------------------------------------------------------------------
\* A query of a request fails: a transaction is rolled back, its job is not.
Fault(p) ==
  /\ faults < MaxFaults /\ req[p].op # "idle"
  /\ faults' = faults + 1
  /\ req' = [req EXCEPT ![p] = Idle]
  /\ UNCHANGED <<table, job, used, work, fail, begun, giveBacks, flags>>

\* The process restarts: the handlers are gone, the active job has stalled.
Restart ==
  /\ faults < MaxFaults
  /\ faults' = faults + 1
  /\ req' = [p \in Requests |-> Idle] /\ work' = Idle /\ fail' = [s \in Schemes |-> Idle]
  /\ job' = [s \in Schemes |-> IF job[s].state = "active"
                               THEN [job[s] EXCEPT !.state = "waiting"] ELSE job[s]]
  /\ UNCHANGED <<table, used, begun, giveBacks, flags>>

\* Handlers, listener and worker share one event loop, which is not idle while
\* any of them has a step; each of them is finite, so no more is needed.
EventLoop ==
  \/ Work
  \/ \E p \in Requests : Setup(p) \/ Cancel(p)
  \/ \E s \in Schemes : WorkTake(s) \/ Fail(s)

Next ==
  \/ EventLoop
  \/ \E p \in Requests : SetupRead(p) \/ Fault(p) \/ \E s \in Schemes : CancelRead(p, s)
  \/ Restart

Spec == Init /\ [][Next]_vars

FairSpec == Spec /\ WF_vars(EventLoop)
-----------------------------------------------------------------------------
\* The credits used are those of the schemes, less the refunds: no charge
\* without a scheme, when requests do not overlap and no query fails.
CreditsAccounted ==
  clean /\ Quiet /\ faults = 0 =>
    used = Total * Cardinality({s \in Schemes : status[s] # "none"}) - returned

\* "Re-check current status to avoid double-refunding if manually cancelled"
\* (scheme-of-work.processor.ts:85), for a cancel that met no attempt and no
\* failure, of a scheme that was not replaced before its job was dealt with.
RefundedOnce ==
  \A s \in Schemes \ (racy \cup early) : refunded[s] <= Total

\* One scheme is live in the slot, as long as setups do not overlap and no
\* scheme is replaced before its job was dealt with: its worker would make it
\* live again, and the next setup would take it for the one to replace.
OneLiveScheme == clean /\ early = {} => Cardinality(Live) <= 1

\* "The BullMQ processor will see this and skip work"
\* (curriculum.service.ts:2168): a cancel that did not meet an attempt or a
\* failure is final, until the scheme is replaced.
CancelIsFinal ==
  [][\A s \in Schemes \ racy :
       status[s] = "CANCELLED" => status'[s] \in {"CANCELLED", "ARCHIVED"}]_vars

\* Its job completed and left it in progress: only an answer without weeks does.
\* It keeps its slot and its credits, and is offered a cancel without a refund.
Unanswered(s) == status[s] = "GENERATING" /\ job[s].state = "completed"

\* Every generation ends, also after a restart, whatever fails, unless the model
\* answers without weeks ("Final status DRAFT, or FAILED with credit refund",
\* docs/architecture.md:343, says so of that answer too).
SchemeSettles ==
  \A s \in Schemes :
    status[s] \in InProgress ~> status[s] \notin InProgress \/ Unanswered(s)
=============================================================================
