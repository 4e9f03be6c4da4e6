-------------------------- MODULE SchoolLifecycle --------------------------
(***************************************************************************)
(* Closing and reopening a school:                                         *)
(* src/src/schools/lifecycle/school-lifecycle.{service,processor}.ts, over *)
(* the lifecycle columns of the School table and the BullMQ queue          *)
(* school-lifecycle-queue.  Everything is keyed by the school's id (the    *)
(* row, the job id, the hourly query), so the module is about one school.  *)
(*                                                                         *)
(* A handler is one action per await.  The delayed job is known to the     *)
(* queue by its id: BullMQ ignores an add while a job with that id exists, *)
(* in whatever state, and refuses to remove one a worker has locked.       *)
(*                                                                         *)
(* Bounds: MaxNow, MaxCrashes and MaxIssues.                               *)
(***************************************************************************)
EXTENDS Naturals, FiniteSets

CONSTANTS
  Requests,        \* HTTP requests that may be in flight together
  Worker, Cron,    \* the queue's worker, the hourly job
  School,          \* the id of the school
  Delay,           \* CLOSE_DELAY_MS, in ticks
  MaxNow, MaxCrashes, MaxIssues

ASSUME LifecycleAssumption ==
  /\ Worker \notin Requests /\ Cron \notin Requests /\ Worker # Cron
  /\ Delay \in Nat \ {0} /\ MaxNow \in Nat /\ MaxCrashes \in Nat
  /\ MaxIssues \in Nat

VARIABLES
  life,      \* lifecycleStatus
  isActive,
  closesAt,  \* deactivatesAt, 0 for null
  now,
  job,       \* the job apply-deactivation-<school>: its state and its time
  issues,    \* the issue-closure-tacs jobs queued
  pc,        \* what each handler does next
  date,      \* the deactivatesAt a scheduleClose has in hand
  late,      \* the handlers in flight since before the last tick
  crashes,
  taken,     \* history: a worker took the issuing job since the deactivation
  clean      \* history: no two handlers overlapped and no remove failed

row == <<life, isActive, closesAt>>
vars == <<life, isActive, closesAt, now, job, issues, pc, date, late, crashes,
          taken, clean>>

Procs == Requests \cup {Worker, Cron}

PCs == {"idle", "scheduleWrite", "scheduleAdd", "cancelRemove", "cancelWrite",
        "applyRead", "applyWrite", "applyAdd", "reopenRemove", "reopenWrite"}

NoJob == [state |-> "absent", due |-> 0]

TypeOK ==
  /\ life \in {"ACTIVE", "CLOSING", "DEACTIVATED"}
  /\ isActive \in BOOLEAN
  /\ closesAt \in 0..(MaxNow + Delay)
  /\ now \in 0..MaxNow
  /\ job \in [state : {"absent", "delayed", "active", "kept"},
              due : 0..(MaxNow + Delay)]
  /\ issues \in 0..MaxIssues
  /\ pc \in [Procs -> PCs]
  /\ date \in [Requests -> 0..(MaxNow + Delay)]
  /\ late \subseteq Procs
  /\ crashes \in 0..MaxCrashes
  /\ taken \in BOOLEAN
  /\ clean \in BOOLEAN

\* A verified school; only those can be scheduled for close.
Init ==
  /\ life = "ACTIVE"
  /\ isActive = TRUE
  /\ closesAt = 0
  /\ now = 0
  /\ job = NoJob
  /\ issues = 0
  /\ pc = [p \in Procs |-> "idle"]
  /\ date = [r \in Requests |-> 0]
  /\ late = {}
  /\ crashes = 0
  /\ taken = FALSE
  /\ clean = TRUE
-----------------------------------------------------------------------------
Start(p, step) ==
  /\ pc[p] = "idle"
  /\ clean' = (clean /\ \A q \in Procs : pc[q] = "idle")
  /\ pc' = [pc EXCEPT ![p] = step]
  /\ UNCHANGED <<date, late, crashes>>

Go(p, from, to) ==
  /\ pc[p] = from
  /\ pc' = [pc EXCEPT ![p] = to]
  /\ late' = IF to = "idle" THEN late \ {p} ELSE late
  /\ UNCHANGED crashes

\* A step of a handler that keeps no date and removes no job.
Step(p, from, to) == Go(p, from, to) /\ UNCHANGED <<date, clean>>

SetRow(l, a, c) == life' = l /\ isActive' = a /\ closesAt' = c

\* queue.remove(...).catch(() => undefined)
RemoveJob ==
  \/ job.state # "active" /\ job' = NoJob /\ UNCHANGED clean
  \/ job' = job /\ clean' = FALSE
-----------------------------------------------------------------------------
(* scheduleClose                                                           *)

ScheduleRead(r) ==
  /\ life = "ACTIVE" /\ isActive
  /\ Start(r, "scheduleWrite")
  /\ UNCHANGED <<row, now, job, issues, taken>>

ScheduleWrite(r) ==
  /\ Go(r, "scheduleWrite", "scheduleAdd")
  /\ SetRow("CLOSING", TRUE, now + Delay)
  /\ date' = [date EXCEPT ![r] = now + Delay]
  /\ UNCHANGED <<now, job, issues, taken, clean>>

AddJob(due) ==
  job' = IF job.state = "absent" THEN [state |-> "delayed", due |-> due] ELSE job

ScheduleAdd(r) ==
  /\ Go(r, "scheduleAdd", "idle")
  /\ AddJob(date[r])
  /\ date' = [date EXCEPT ![r] = 0]
  /\ UNCHANGED <<row, now, issues, taken, clean>>
-----------------------------------------------------------------------------
(* cancelClose                                                             *)

MayCancel == life = "CLOSING"

CancelRead(r) ==
  /\ MayCancel
  /\ Start(r, "cancelRemove")
  /\ UNCHANGED <<row, now, job, issues, taken>>

CancelRemove(r) ==
  /\ Go(r, "cancelRemove", "cancelWrite")
  /\ RemoveJob
  /\ UNCHANGED <<row, now, issues, date, taken>>

CancelWrite(r) ==
  /\ Step(r, "cancelWrite", "idle")
  /\ SetRow("ACTIVE", TRUE, 0)
  /\ UNCHANGED <<now, job, issues, taken>>
-----------------------------------------------------------------------------
(* applyDeactivation, called by the worker with the delayed job and by the *)
(* hourly applyOverdueCloses for a school it found overdue.                *)

JobStart ==
  /\ job.state = "delayed" /\ job.due <= now
  /\ Start(Worker, "applyRead")
  /\ job' = [job EXCEPT !.state = "active"]
  /\ UNCHANGED <<row, now, issues, taken>>

Overdue == life = "CLOSING" /\ closesAt <= now

MutantNoSweep == FALSE /\ UNCHANGED vars

MutantSweepAll ==
  /\ life = "CLOSING"
  /\ Start(Cron, "applyRead")
  /\ UNCHANGED <<row, now, job, issues, taken>>

CronStart ==
  /\ Overdue
  /\ Start(Cron, "applyRead")
  /\ UNCHANGED <<row, now, job, issues, taken>>

\* The handler is over; a finished job is kept by its id (removeOnComplete).
JobOver(p) == IF p = Worker THEN [job EXCEPT !.state = "kept"] ELSE job

MayApply == life = "CLOSING"

ApplyRead(p) ==
  /\ IF MayApply
     THEN Step(p, "applyRead", "applyWrite") /\ job' = job
     ELSE Step(p, "applyRead", "idle") /\ job' = JobOver(p)
  /\ UNCHANGED <<row, now, issues, taken>>

MutantQueueFirst(p) ==
  /\ Step(p, "applyWrite", "applyAdd")
  /\ issues < MaxIssues /\ issues' = issues + 1
  /\ UNCHANGED <<row, now, job, taken>>

ApplyWrite(p) ==
  /\ Step(p, "applyWrite", "applyAdd")
  /\ SetRow("DEACTIVATED", FALSE, closesAt)
  /\ taken' = FALSE
  /\ UNCHANGED <<now, job, issues>>

MutantApplyNoAdd(p) ==
  /\ Step(p, "applyAdd", "idle")
  /\ job' = JobOver(p)
  /\ UNCHANGED <<row, now, issues, taken>>

ApplyAdd(p) ==
  /\ issues < MaxIssues
  /\ Step(p, "applyAdd", "idle")
  /\ issues' = issues + 1
  /\ job' = JobOver(p)
  /\ UNCHANGED <<row, now, taken>>

\* The worker takes an issue-closure-tacs job: see Transfers, IssueStart.
IssueStart ==
  /\ issues > 0
  /\ issues' = issues - 1
  /\ taken' = TRUE
  /\ UNCHANGED <<row, now, job, pc, date, late, crashes, clean>>
-----------------------------------------------------------------------------
(* reactivate                                                              *)

ReactivateRead(r) ==
  /\ life = "DEACTIVATED" \/ ~isActive
  /\ Start(r, "reopenRemove")
  /\ UNCHANGED <<row, now, job, issues, taken>>

ReactivateRemove(r) ==
  /\ Go(r, "reopenRemove", "reopenWrite")
  /\ RemoveJob
  /\ UNCHANGED <<row, now, issues, date, taken>>

ReactivateWrite(r) ==
  /\ Step(r, "reopenWrite", "idle")
  /\ SetRow("ACTIVE", TRUE, 0)
  /\ UNCHANGED <<now, job, issues, taken>>
-----------------------------------------------------------------------------
\* A tick is a good part of the delay of a week, and no handler lasts that
\* long: each sees at most one tick go by.
Tick ==
  /\ now < MaxNow
  /\ late = {}
  /\ now' = now + 1
  /\ late' = {p \in Procs : pc[p] # "idle"}
  /\ UNCHANGED <<row, job, issues, pc, date, crashes, taken, clean>>

\* The process restarts.  A job a worker held is found stalled and run again,
\* or, when it has failed too often, is kept as failed.
Crash ==
  /\ crashes < MaxCrashes
  /\ \E p \in Procs : pc[p] # "idle"
  /\ crashes' = crashes + 1
  /\ pc' = [p \in Procs |-> "idle"]
  /\ date' = [r \in Requests |-> 0]
  /\ late' = {}
  /\ job' \in IF job.state = "active"
              THEN {[job EXCEPT !.state = "delayed"], [job EXCEPT !.state = "kept"]}
              ELSE {job}
  /\ UNCHANGED <<row, now, issues, taken, clean>>

Begin(r) == ScheduleRead(r) \/ CancelRead(r) \/ ReactivateRead(r)

Continue(r) ==
  \/ ScheduleWrite(r) \/ ScheduleAdd(r)
  \/ CancelRemove(r) \/ CancelWrite(r)
  \/ ReactivateRemove(r) \/ ReactivateWrite(r)

Apply(p) == ApplyRead(p) \/ ApplyWrite(p) \/ ApplyAdd(p)

Next ==
  \/ \E r \in Requests : Begin(r) \/ Continue(r)
  \/ JobStart \/ CronStart \/ IssueStart
  \/ \E p \in {Worker, Cron} : Apply(p)
  \/ Tick \/ Crash

Spec == Init /\ [][Next]_vars

\* Node's event loop goes on with every handler it started, BullMQ's worker
\* takes due jobs and the hourly job fires: none of them depends on a user.
Fairness ==
  /\ WF_vars(JobStart) /\ WF_vars(CronStart) /\ WF_vars(IssueStart)
  /\ \A p \in {Worker, Cron} : WF_vars(Apply(p))
  /\ \A r \in Requests : WF_vars(Continue(r))

FairSpec == Spec /\ Fairness
-----------------------------------------------------------------------------
\* The announced closing keeps its promise as long as handlers do not overlap
\* and the queue removes jobs when told to, whatever crashes: the school does
\* not close before its date, nor after the close was cancelled.
P == INSTANCE CloseProtocol
KeepsCloseProtocol == P!Init /\ [][clean' => [P!Next]_(P!vars)]_vars

\* What the transfer service relies on.
C == INSTANCE SchoolClosure WITH
  Schools <- {School},
  deactivated <- IF life = "DEACTIVATED" THEN {School} ELSE {},
  owed <- IF \E p \in Procs : pc[p] = "applyAdd" THEN {School} ELSE {},
  issueJobs <- IF issues > 0 THEN {School} ELSE {}
ImplementsSchoolClosure == C!Spec

\* A close that is due is carried out or withdrawn, even when the process
\* died before the delayed job was queued or while it ran: the hourly sweep.
OverdueCloseSettles == Overdue ~> life # "CLOSING"

\* A deactivated school gets its students closure codes, or is reopened: the
\* worker takes an issuing job ("Issue never-expiring SCHOOL_CLOSURE TACs
\* after deactivate", transfers.service.ts:252).
DeactivationIssuesCodes ==
  life = "DEACTIVATED" ~> taken \/ life # "DEACTIVATED"

\* It does so as long as the process does not die.
CodesUnlessCrash == [](crashes = 0) => DeactivationIssuesCodes
=============================================================================
