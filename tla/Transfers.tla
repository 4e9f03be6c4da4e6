----------------------------- MODULE Transfers -----------------------------
(***************************************************************************)
(* Student transfers between schools by Transfer Access Code (TAC):        *)
(* src/src/transfers/transfers.service.ts over the Transfer and Enrollment *)
(* tables (src/prisma/schema/students.prisma).                             *)
(*                                                                         *)
(* Every handler of the service is an async function that awaits one       *)
(* query after another at READ COMMITTED, without row locks and without    *)
(* conditions on its writes.  A handler is therefore several actions, one  *)
(* per query whose answer or effect another request can get between; what  *)
(* it read is kept in req[r] until the write that uses it.                 *)
(*                                                                         *)
(* Bounds: MaxTransfers rows of Transfer, MaxEnrollments of Enrollment.    *)
(***************************************************************************)
EXTENDS Naturals, Sequences, FiniteSets

CONSTANTS
  Students, Schools, Terms,
  Requests,          \* the requests and jobs that may be in flight together
  NoSchool, NoStudent, NoTerm,
  Roll,              \* the enrollments the history starts from
  Closable,          \* bound: the schools whose lifecycle may change
  MaxTransfers, MaxEnrollments

VARIABLES
  transfers,         \* the Transfer table, in creation order
  enrollments,       \* the Enrollment table, in creation order
  deactivated,       \* the schools whose lifecycleStatus is DEACTIVATED
  owed,              \* deactivated by a handler yet to queue the issuing job
  issueJobs,         \* the schools with an issue-closure-tacs job queued
  req                \* what each request in flight has read so far

tableVars == <<transfers, enrollments>>
schoolVars == <<deactivated, owed, issueJobs>>
vars == <<transfers, enrollments, deactivated, owed, issueJobs, req>>

\* The lifecycle of the schools, as this module relies on it.
L == INSTANCE SchoolClosure
-----------------------------------------------------------------------------
Statuses == {"PENDING", "APPROVED", "REJECTED", "CANCELLED", "COMPLETED"}
Kinds == {"NORMAL", "SCHOOL_CLOSURE"}

\* tac: the code is not null.  expired: tacExpiresAt has passed.
\* usedBy: tacUsedBy, set together with tacUsedAt and never without it.
Transfer ==
  [student : Students, from : Schools, to : Schools \cup {NoSchool},
   kind : Kinds, status : Statuses, tac : BOOLEAN, expired : BOOLEAN,
   usedBy : Schools \cup {NoSchool}]

\* via is the transfer that created the enrollment, 0 for one of the Roll:
\* it is history, the table has no such column.
Enrollment ==
  [student : Students, school : Schools, term : Terms \cup {NoTerm},
   active : BOOLEAN, via : Nat]

ASSUME RollAssumption ==
  /\ Roll \in Seq(Enrollment)
  /\ \A i \in DOMAIN Roll : Roll[i].active /\ Roll[i].via = 0
  /\ \A st \in Students : \E i \in DOMAIN Roll : Roll[i].student = st

ASSUME NoneAssumption ==
  NoSchool \notin Schools /\ NoStudent \notin Students /\ NoTerm \notin Terms

ASSUME BoundAssumption ==
  MaxTransfers \in Nat /\ MaxEnrollments \in Nat /\ Closable \subseteq Schools

Ops == {"idle", "generate", "initiate", "completeData", "completeTx",
        "reject", "revoke", "ask", "job"}

Request ==
  [op : Ops, school : Schools \cup {NoSchool}, tid : Nat,
   student : Students \cup {NoStudent}, src : Nat,
   term : Terms \cup {NoTerm}, todo : SUBSET Students]

Idle ==
  [op |-> "idle", school |-> NoSchool, tid |-> 0, student |-> NoStudent,
   src |-> 0, term |-> NoTerm, todo |-> {}]

TypeOK ==
  /\ transfers \in Seq(Transfer)
  /\ enrollments \in Seq(Enrollment)
  /\ deactivated \subseteq Schools
  /\ owed \subseteq Schools
  /\ issueJobs \subseteq Schools
  /\ req \in [Requests -> Request]

Init ==
  /\ transfers = << >>
  /\ enrollments = Roll
  /\ L!Init
  /\ req = [r \in Requests |-> Idle]
-----------------------------------------------------------------------------
Tids == DOMAIN transfers

Open(t) == transfers[t].status \in {"PENDING", "APPROVED"}

Used(t) == transfers[t].usedBy # NoSchool

ActiveAt(st, s) ==
  {i \in DOMAIN enrollments : /\ enrollments[i].student = st
                              /\ enrollments[i].school = s
                              /\ enrollments[i].active}

SetTransfer(t, row) == transfers' = [transfers EXCEPT ![t] = row]

\* The handler of r ends: it returned or threw.
Finish(r) == req' = [req EXCEPT ![r] = Idle]

\* The handler of r, still at its first query, goes on with what it read.
Proceed(r, op, s, t) ==
  /\ req[r].op = "idle"
  /\ req' = [req EXCEPT ![r] = [Idle EXCEPT !.op = op, !.school = s, !.tid = t]]

NewTransfer(st, s, kind) ==
  [student |-> st, from |-> s, to |-> NoSchool, kind |-> kind,
   status |-> "PENDING", tac |-> TRUE, expired |-> FALSE, usedBy |-> NoSchool]

CreateTransfer(st, s, kind) ==
  /\ Len(transfers) < MaxTransfers
  /\ transfers' = Append(transfers, NewTransfer(st, s, kind))
  /\ UNCHANGED enrollments
-----------------------------------------------------------------------------
(* generateTac: the sending school asks for a code.  The query for an      *)
(* existing one accepts an expired code as long as it is unused, and any   *)
(* one row of its answer may come back: an unused one ends the handler.    *)

LiveCode(t, st, s) ==
  /\ transfers[t].student = st /\ transfers[t].from = s
  /\ Open(t) /\ transfers[t].tac
  /\ ~transfers[t].expired \/ ~Used(t)

GenerateRead(r, s, st) ==
  /\ ActiveAt(st, s) # {}
  /\ \/ ~ \E t \in Tids : LiveCode(t, st, s)
     \/ \E t \in Tids : LiveCode(t, st, s) /\ Used(t)
  /\ req[r].op = "idle"
  /\ req' = [req EXCEPT ![r] =
               [Idle EXCEPT !.op = "generate", !.school = s, !.student = st]]
  /\ UNCHANGED <<tableVars, schoolVars>>

GenerateWrite(r) ==
  /\ req[r].op = "generate"
  /\ CreateTransfer(req[r].student, req[r].school, "NORMAL")
  /\ Finish(r)
  /\ UNCHANGED schoolVars
-----------------------------------------------------------------------------
(* initiateTransfer: a school enters a code.  Nothing looks at REJECTED,   *)
(* and a school other than the one that entered it first may take over.    *)

MutantEnterOwnCode(s, t) ==
  transfers[t].tac /\ ~transfers[t].expired /\ ~Used(t)

MayEnter(s, t) ==
  /\ transfers[t].tac
  /\ ~Used(t)
  /\ transfers[t].to \notin {NoSchool, s} => transfers[t].status # "COMPLETED"
  /\ ~transfers[t].expired
  /\ transfers[t].from # s

InitiateRead(r, s, t) ==
  /\ MayEnter(s, t)
  /\ Proceed(r, "initiate", s, t)
  /\ UNCHANGED <<tableVars, schoolVars>>

InitiateWrite(r) ==
  /\ req[r].op = "initiate"
  /\ SetTransfer(req[r].tid,
       [transfers[req[r].tid] EXCEPT !.to = req[r].school, !.status = "APPROVED"])
  /\ Finish(r)
  /\ UNCHANGED <<enrollments, schoolVars>>
-----------------------------------------------------------------------------
(* completeTransfer: read the row and check it; read the student's data by *)
(* the code; then one transaction.                                         *)

CompleteRead(r, s, t) ==
  /\ transfers[t].to = s
  /\ transfers[t].status \notin {"COMPLETED", "REJECTED"}
  /\ transfers[t].tac
  /\ Proceed(r, "completeData", s, t)
  /\ UNCHANGED <<tableVars, schoolVars>>

AtSource(t) ==
  {i \in DOMAIN enrollments : /\ enrollments[i].student = transfers[t].student
                              /\ enrollments[i].school = transfers[t].from}

\* getStudentDataByTac: the newest active enrollment at the source school,
\* the newest of all when none is active.
SourceEnrollment(t) ==
  LET active == {i \in AtSource(t) : enrollments[i].active}
      from == IF active # {} THEN active ELSE AtSource(t)
  IN  CHOOSE i \in from : \A j \in from : j <= i

\* The destination's active term is whatever the sessions module made it;
\* the class arm may turn out full or unknown, and a school without teachers
\* cannot take grades: then the handler ends.
CompleteData(r) ==
  /\ req[r].op = "completeData"
  /\ \/ /\ transfers[req[r].tid].tac
        /\ AtSource(req[r].tid) # {}
        /\ \E tm \in Terms \cup {NoTerm} :
             req' = [req EXCEPT ![r] =
                       [@ EXCEPT !.op = "completeTx", !.term = tm,
                                 !.src = SourceEnrollment(req[r].tid)]]
     \/ Finish(r)
  /\ UNCHANGED <<tableVars, schoolVars>>

\* @@unique([studentId, schoolId, termId]): a null term collides with nothing.
Collides(st, s, tm) ==
  tm # NoTerm /\ \E i \in DOMAIN enrollments :
    /\ enrollments[i].student = st
    /\ enrollments[i].school = s
    /\ enrollments[i].term = tm

MutantReleaseAll(i, new) ==
  Append([k \in DOMAIN enrollments |->
            [enrollments[k] EXCEPT !.active = @ /\ enrollments[k].student # new.student]],
         [new EXCEPT !.active = FALSE])

\* The source enrollment i is released and the new one inserted.
Moved(i, new) ==
  Append([enrollments EXCEPT ![i] = [@ EXCEPT !.active = FALSE]], new)

NewEnrollment(st, s, tm, t) ==
  [student |-> st, school |-> s, term |-> tm, active |-> TRUE, via |-> t]

MutantStillApproved(t, s) == [transfers[t] EXCEPT !.usedBy = s]

Claimed(t, s) == [transfers[t] EXCEPT !.status = "COMPLETED", !.usedBy = s]

\* The transaction.  Its last write names the row by id alone.
CompleteTx(r) ==
  LET t == req[r].tid
      s == req[r].school
      st == transfers[t].student
  IN  /\ req[r].op = "completeTx"
      /\ Len(enrollments) < MaxEnrollments
      /\ ~Collides(st, s, req[r].term)
      /\ enrollments' = Moved(req[r].src, NewEnrollment(st, s, req[r].term, t))
      /\ SetTransfer(t, Claimed(t, s))
      /\ Finish(r)
      /\ UNCHANGED schoolVars

\* The unique index refuses the enrollment: everything is rolled back.
CompleteRollback(r) ==
  /\ req[r].op = "completeTx"
  /\ Collides(transfers[req[r].tid].student, req[r].school, req[r].term)
  /\ Finish(r)
  /\ UNCHANGED <<tableVars, schoolVars>>
-----------------------------------------------------------------------------
(* rejectTransfer, by the receiving school: a closure code is released for *)
(* other schools, an ordinary one is marked REJECTED.                      *)

RejectRead(r, s, t) ==
  /\ transfers[t].to = s
  /\ transfers[t].status # "COMPLETED"
  /\ Proceed(r, "reject", s, t)
  /\ UNCHANGED <<tableVars, schoolVars>>

RejectWrite(r) ==
  /\ req[r].op = "reject"
  /\ LET row == transfers[req[r].tid]
     IN  SetTransfer(req[r].tid,
           IF row.kind = "SCHOOL_CLOSURE"
           THEN [row EXCEPT !.status = "PENDING", !.to = NoSchool]
           ELSE [row EXCEPT !.status = "REJECTED"])
  /\ Finish(r)
  /\ UNCHANGED <<enrollments, schoolVars>>

(* revokeTac, by the sending school: the code is erased.                   *)

MayRevoke(s, t) == transfers[t].from = s /\ ~Used(t)

RevokeRead(r, s, t) ==
  /\ MayRevoke(s, t)
  /\ Proceed(r, "revoke", s, t)
  /\ UNCHANGED <<tableVars, schoolVars>>

RevokeWrite(r) ==
  /\ req[r].op = "revoke"
  /\ SetTransfer(req[r].tid,
       [transfers[req[r].tid] EXCEPT !.tac = FALSE, !.expired = FALSE,
                                     !.status = "CANCELLED"])
  /\ Finish(r)
  /\ UNCHANGED <<enrollments, schoolVars>>

\* Time passes: an ordinary code reaches its tacExpiresAt.
Expire(t) ==
  /\ transfers[t].kind = "NORMAL" /\ transfers[t].tac /\ ~transfers[t].expired
  /\ SetTransfer(t, [transfers[t] EXCEPT !.expired = TRUE])
  /\ UNCHANGED <<enrollments, schoolVars, req>>
-----------------------------------------------------------------------------
(* Closure codes: issued by the job queued after a deactivation, for every *)
(* student it finds enrolled, or at the request of one student.            *)

ClosureCode(t, st, s) ==
  /\ transfers[t].student = st /\ transfers[t].from = s
  /\ transfers[t].kind = "SCHOOL_CLOSURE" /\ ~Used(t) /\ Open(t)

\* ensureClosureTacForStudent
ClosureRequest(r, s, st) ==
  /\ s \in deactivated
  /\ ActiveAt(st, s) # {}
  /\ req[r].op = "idle"
  /\ req' = [req EXCEPT ![r] =
               [Idle EXCEPT !.op = "ask", !.school = s, !.todo = {st}]]
  /\ UNCHANGED <<tableVars, schoolVars>>

\* issueClosureTacsForSchool, run by the worker: it does not ask whether the
\* school is still deactivated.
IssueStart(r, s) ==
  /\ L!Take(s)
  /\ req[r].op = "idle"
  /\ req' = [req EXCEPT ![r] =
               [Idle EXCEPT !.op = "job", !.school = s,
                            !.todo = {st \in Students : ActiveAt(st, s) # {}}]]
  /\ UNCHANGED tableVars

Issuing(r) == req[r].op \in {"ask", "job"}

MutantNoClosureCode(st, s) == FALSE

HasClosureCode(st, s) == \E t \in Tids : ClosureCode(t, st, s)

\* ensureClosureTac, its query: student names who has no code and gets one.
IssueCheck(r, st) ==
  /\ Issuing(r) /\ req[r].student = NoStudent
  /\ st \in req[r].todo
  /\ req' = [req EXCEPT ![r] =
       [@ EXCEPT !.todo = req[r].todo \ {st},
                 !.student = IF HasClosureCode(st, req[r].school)
                             THEN NoStudent ELSE st]]
  /\ UNCHANGED <<tableVars, schoolVars>>

\* ensureClosureTac, its insert
IssueCreate(r) ==
  /\ Issuing(r) /\ req[r].student # NoStudent
  /\ CreateTransfer(req[r].student, req[r].school, "SCHOOL_CLOSURE")
  /\ req' = [req EXCEPT ![r] = [@ EXCEPT !.student = NoStudent]]
  /\ UNCHANGED schoolVars

IssueDone(r) ==
  /\ Issuing(r) /\ req[r].student = NoStudent /\ req[r].todo = {}
  /\ Finish(r)
  /\ UNCHANGED <<tableVars, schoolVars>>
-----------------------------------------------------------------------------
(* The lifecycle of the schools: SchoolLifecycle.tla has the steps behind   *)
(* these, and implements SchoolClosure.                                    *)

Deactivate(s) == L!Deactivate(s) /\ UNCHANGED <<tableVars, req>>

QueueIssue(s) == L!Queue(s) /\ UNCHANGED <<tableVars, req>>

Reactivate(s) == s \in deactivated /\ L!Reactivate(s) /\ UNCHANGED <<tableVars, req>>

\* The process restarts: the handlers in flight are gone, their committed
\* writes stay.  A job that was running is stalled and will run again.
Restart ==
  /\ owed # {} \/ \E r \in Requests : req[r].op # "idle"
  /\ req' = [r \in Requests |-> Idle]
  /\ owed' = {}
  /\ issueJobs' = issueJobs \cup
       {req[r].school : r \in {q \in Requests : req[q].op = "job"}}
  /\ UNCHANGED <<tableVars, deactivated>>
-----------------------------------------------------------------------------
Reads(r) ==
  \/ \E s \in Schools, st \in Students : \/ GenerateRead(r, s, st)
                                         \/ ClosureRequest(r, s, st)
  \/ \E s \in Schools, t \in Tids : \/ InitiateRead(r, s, t)
                                    \/ CompleteRead(r, s, t)
                                    \/ RejectRead(r, s, t)
                                    \/ RevokeRead(r, s, t)
  \/ \E s \in Schools : IssueStart(r, s)

Writes(r) ==
  \/ GenerateWrite(r)
  \/ InitiateWrite(r)
  \/ CompleteData(r)
  \/ CompleteTx(r)
  \/ CompleteRollback(r)
  \/ RejectWrite(r)
  \/ RevokeWrite(r)
  \/ \E st \in Students : IssueCheck(r, st)
  \/ IssueCreate(r)
  \/ IssueDone(r)

Environment ==
  \/ \E t \in Tids : Expire(t)
  \/ \E s \in Closable : Deactivate(s) \/ QueueIssue(s) \/ Reactivate(s)
  \/ Restart

Next == Environment \/ \E r \in Requests : Reads(r) \/ Writes(r)

Spec == Init /\ [][Next]_vars

\* At most one handler, or run of the job, is under way.
OneAtATime ==
  \A q, r \in Requests : req[q].op # "idle" /\ req[r].op # "idle" => q = r
-----------------------------------------------------------------------------
(* Properties that hold under every interleaving.                          *)

\* No student is ever left without an active enrollment: a completion that
\* releases the source school always enrols at the destination with it,
\* however stale what the handler had read.  ImplementsCustody entails it.
NoStudentStranded ==
  \A st \in Students : \E i \in DOMAIN enrollments :
    enrollments[i].student = st /\ enrollments[i].active

\* Every enrollment a transfer made goes back, through the code it claimed,
\* to an older enrollment of the same student at another school, the one
\* that issued the code.
ChainOfCustody ==
  \A i \in DOMAIN enrollments : enrollments[i].via # 0 =>
    LET t == enrollments[i].via
    IN  /\ t \in Tids
        /\ transfers[t].student = enrollments[i].student
        /\ transfers[t].from # enrollments[i].school
        /\ \E j \in AtSource(t) : j < i

\* tacUsedBy names a school that did enrol the student with that code.
ClaimRecorded ==
  \A t \in Tids : Used(t) =>
    \E i \in DOMAIN enrollments : /\ enrollments[i].via = t
                                  /\ enrollments[i].school = transfers[t].usedBy

\* An enrollment stops being active only by the claim of a code its own
\* school issued, and the claim made a newer enrollment of the student.
ReleasedByClaim ==
  \A i \in DOMAIN enrollments : ~enrollments[i].active =>
    \E j \in DOMAIN enrollments :
      /\ j > i
      /\ enrollments[j].student = enrollments[i].student
      /\ enrollments[j].via \in Tids
      /\ transfers[enrollments[j].via].from = enrollments[i].school

\* What the service promises about custody, as a specification of its own.
C == INSTANCE Custody WITH
  at <- [st \in Students |-> {s \in Schools : ActiveAt(st, s) # {}}],
  records <- [st \in Students |->
                {enrollments[i].school : i \in
                   {k \in DOMAIN enrollments : enrollments[k].student = st}}],
  issued <- [st \in Students |->
               {transfers[t].from : t \in
                  {u \in Tids : transfers[u].student = st}}]

\* Every step of the service moves students as Custody allows.
ImplementsCustody == C!Spec
-----------------------------------------------------------------------------
(* What TransfersInTurn.tla states of the behaviours without overlap.      *)

\* No two enrollments come from one transfer.
TacOneTimeUse ==
  \A i, j \in DOMAIN enrollments :
    enrollments[i].via = enrollments[j].via /\ enrollments[i].via # 0 => i = j

\* No student holds two closure codes of one school that could be entered.
OneClosureCode ==
  \A t, u \in Tids : \A st \in Students, s \in Schools :
    /\ ClosureCode(t, st, s) /\ transfers[t].tac
    /\ ClosureCode(u, st, s) /\ transfers[u].tac
    => t = u
=============================================================================
