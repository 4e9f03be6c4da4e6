-------------------------- MODULE Transfers_proofs --------------------------
(***************************************************************************)
(* Proofs of the safety properties of Transfers, and that it implements    *)
(* Custody, for any sets of students, schools and requests and any number  *)
(* of rows.                                                                *)
(***************************************************************************)
EXTENDS TransfersInTurn, TableFacts

USE DEF Tids, tableVars, schoolVars

-----------------------------------------------------------------------------
\* What a handler in flight has read stays true of the tables.
RequestOK(q) ==
  /\ q.op \in {"initiate", "completeData", "completeTx", "reject", "revoke"}
       => q.tid \in Tids
  /\ q.op \in {"initiate", "completeData", "completeTx"}
       => q.school \in Schools /\ transfers[q.tid].from # q.school
  /\ q.op = "completeTx" => q.src \in AtSource(q.tid)
  /\ q.op = "generate" => q.student \in Students
  /\ q.op \in {"generate", "ask", "job"} => q.school \in Schools

\* No school is the destination of a code of its own.
DestinationOK == \A t \in Tids : transfers[t].to # transfers[t].from

IInv ==
  /\ TypeOK
  /\ \A r \in Requests : RequestOK(req[r])
  /\ DestinationOK
  /\ NoStudentStranded
  /\ ChainOfCustody
  /\ ClaimRecorded
  /\ ReleasedByClaim
-----------------------------------------------------------------------------
(* No step takes a code away, or gives it to another student or school.    *)

CodesKept ==
  /\ transfers' \in Seq(Transfer)
  /\ DOMAIN transfers \subseteq DOMAIN transfers'
  /\ \A t \in DOMAIN transfers :
       /\ transfers'[t].student = transfers[t].student
       /\ transfers'[t].from = transfers[t].from

EnrollmentsKept ==
  /\ enrollments' \in Seq(Enrollment)
  /\ DOMAIN enrollments \subseteq DOMAIN enrollments'
  /\ \A i \in DOMAIN enrollments :
       /\ enrollments'[i].student = enrollments[i].student
       /\ enrollments'[i].school = enrollments[i].school

\* A handler that does not move keeps what it knows.
LEMMA RequestKept ==
  ASSUME CodesKept, EnrollmentsKept,
         NEW r \in Requests, req'[r] = req[r], RequestOK(req[r])
  PROVE  RequestOK(req[r])'
  BY DEF CodesKept, EnrollmentsKept, RequestOK, AtSource

\* A step that rewrites or adds a code and claims none keeps the properties.
LEMMA CodeStep ==
  ASSUME IInv, CodesKept, enrollments' = enrollments,
         \A t \in DOMAIN transfers' : transfers'[t].usedBy # NoSchool =>
           t \in DOMAIN transfers /\ transfers'[t].usedBy = transfers[t].usedBy
  PROVE  NoStudentStranded' /\ ChainOfCustody' /\ ClaimRecorded' /\ ReleasedByClaim'
<1>1. NoStudentStranded'
  BY DEF IInv, NoStudentStranded
<1>2. ChainOfCustody'
  BY DEF IInv, ChainOfCustody, CodesKept, AtSource
<1>3. ClaimRecorded'
  BY DEF IInv, ClaimRecorded, Used
<1>4. ReleasedByClaim'
  BY DEF IInv, ReleasedByClaim, CodesKept
<1>5. QED
  BY <1>1, <1>2, <1>3, <1>4

\* Rewriting a code without claiming it or changing its student and origin.
LEMMA RewriteStep ==
  ASSUME IInv, NEW t \in Tids, NEW row \in Transfer, SetTransfer(t, row),
         enrollments' = enrollments,
         row.student = transfers[t].student, row.from = transfers[t].from,
         row.usedBy = transfers[t].usedBy, row.to # row.from
  PROVE  /\ CodesKept /\ EnrollmentsKept /\ DestinationOK'
         /\ NoStudentStranded' /\ ChainOfCustody' /\ ClaimRecorded' /\ ReleasedByClaim'
<1>1. /\ transfers' \in Seq(Transfer)
      /\ DOMAIN transfers' = DOMAIN transfers
      /\ \A u \in DOMAIN transfers :
           transfers'[u] = IF u = t THEN row ELSE transfers[u]
  BY RewriteRow DEF IInv, TypeOK, SetTransfer
<1>2. CodesKept
  BY <1>1 DEF CodesKept
<1>3. EnrollmentsKept
  BY DEF EnrollmentsKept, IInv, TypeOK
<1>4. DestinationOK'
  BY <1>1 DEF DestinationOK, IInv
<1>5. QED
  BY <1>1, <1>2, <1>3, <1>4, CodeStep

\* Adding a code.
LEMMA AddStep ==
  ASSUME IInv, NEW st \in Students, NEW s \in Schools, NEW k \in Kinds,
         CreateTransfer(st, s, k)
  PROVE  /\ CodesKept /\ EnrollmentsKept /\ DestinationOK'
         /\ NoStudentStranded' /\ ChainOfCustody' /\ ClaimRecorded' /\ ReleasedByClaim'
<1> DEFINE new == NewTransfer(st, s, k)
<1>1. new \in Transfer
  BY DEF NewTransfer, Transfer, Statuses
<1>2. /\ transfers' \in Seq(Transfer)
      /\ DOMAIN transfers' = DOMAIN transfers \cup {Len(transfers) + 1}
      /\ \A u \in DOMAIN transfers : transfers'[u] = transfers[u]
      /\ transfers'[Len(transfers) + 1] = new
  BY <1>1, AddRow DEF IInv, TypeOK, CreateTransfer
<1>3. CodesKept
  BY <1>2 DEF CodesKept
<1>4. enrollments' = enrollments /\ EnrollmentsKept
  BY DEF EnrollmentsKept, IInv, TypeOK, CreateTransfer
<1>5. new.usedBy = NoSchool /\ new.to = NoSchool /\ new.from = s
  BY DEF NewTransfer
<1>6. DestinationOK'
  BY <1>2, <1>5, NoneAssumption DEF DestinationOK, IInv
<1>7. QED
  BY <1>2, <1>3, <1>4, <1>5, <1>6, CodeStep
-----------------------------------------------------------------------------
(* The transaction of completeTransfer: the one step that moves a student. *)

\* What it does to the tables: src is released at the school that issued t,
\* and last is the student's new enrollment at s.
Moves(t, s, src, last) ==
  /\ transfers[t].student \in Students /\ transfers[t].from \in Schools \ {s}
  /\ src \in AtSource(t)
  /\ transfers' \in Seq(Transfer) /\ DOMAIN transfers' = DOMAIN transfers
  /\ transfers'[t].usedBy = s
  /\ \A u \in DOMAIN transfers :
       /\ transfers'[u].student = transfers[u].student
       /\ transfers'[u].from = transfers[u].from
       /\ transfers'[u].to = transfers[u].to
       /\ u # t => transfers'[u].usedBy = transfers[u].usedBy
  /\ enrollments' \in Seq(Enrollment)
  /\ DOMAIN enrollments' = DOMAIN enrollments \cup {last}
  /\ last \notin DOMAIN enrollments
  /\ enrollments'[last].student = transfers[t].student
  /\ enrollments'[last].school = s
  /\ enrollments'[last].active = TRUE
  /\ enrollments'[last].via = t
  /\ enrollments'[src].active = FALSE
  /\ \A i \in DOMAIN enrollments :
       /\ i < last
       /\ enrollments'[i].student = enrollments[i].student
       /\ enrollments'[i].school = enrollments[i].school
       /\ enrollments'[i].via = enrollments[i].via
       /\ i # src => enrollments'[i].active = enrollments[i].active

LEMMA MoveEffect ==
  ASSUME IInv, NEW r \in Requests, CompleteTx(r)
  PROVE  \E t \in Tids, s \in Schools, src \in DOMAIN enrollments, last \in Nat :
           t = req[r].tid /\ Moves(t, s, src, last)
<1> DEFINE t == req[r].tid
           s == req[r].school
           st == transfers[t].student
           src == req[r].src
           released == [enrollments EXCEPT ![src] = [@ EXCEPT !.active = FALSE]]
           new == NewEnrollment(st, s, req[r].term, t)
           last == Len(enrollments) + 1
<1>1. /\ t \in Tids /\ s \in Schools /\ transfers[t].from # s
      /\ src \in AtSource(t)
      /\ req[r].term \in Terms \cup {NoTerm}
  BY DEF IInv, RequestOK, CompleteTx, TypeOK, Request
<1>2. transfers[t] \in Transfer
  BY <1>1, ElementOfSeq, LenProperties DEF IInv, TypeOK
<1>3. /\ Claimed(t, s) \in Transfer
      /\ Claimed(t, s).student = st
      /\ Claimed(t, s).from = transfers[t].from
      /\ Claimed(t, s).to = transfers[t].to
      /\ Claimed(t, s).usedBy = s
  BY <1>1, <1>2 DEF Claimed, Transfer, Statuses
<1>4. /\ transfers' \in Seq(Transfer)
      /\ DOMAIN transfers' = DOMAIN transfers
      /\ \A u \in DOMAIN transfers :
           transfers'[u] = IF u = t THEN Claimed(t, s) ELSE transfers[u]
  BY <1>1, <1>3, RewriteRow DEF IInv, TypeOK, SetTransfer, CompleteTx
<1>5. src \in DOMAIN enrollments /\ enrollments[src] \in Enrollment
  BY <1>1, ElementOfSeq, LenProperties DEF AtSource, IInv, TypeOK
<1>6. [enrollments[src] EXCEPT !.active = FALSE] \in Enrollment
  BY <1>5 DEF Enrollment
<1>7. /\ released \in Seq(Enrollment)
      /\ DOMAIN released = DOMAIN enrollments
      /\ Len(released) = Len(enrollments)
      /\ \A i \in DOMAIN enrollments :
           released[i] = IF i = src THEN [enrollments[src] EXCEPT !.active = FALSE]
                         ELSE enrollments[i]
  BY <1>5, <1>6, ExceptSeq, LenProperties DEF IInv, TypeOK
<1>8. /\ new \in Enrollment
      /\ new.student = st /\ new.school = s /\ new.active = TRUE /\ new.via = t
  BY <1>1, <1>2, LenProperties DEF NewEnrollment, Enrollment, Transfer, IInv, TypeOK
<1>9. /\ enrollments' \in Seq(Enrollment)
      /\ DOMAIN enrollments' = DOMAIN enrollments \cup {last}
      /\ last \notin DOMAIN enrollments /\ last \in Nat
      /\ \A i \in DOMAIN enrollments : i < last /\ enrollments'[i] = released[i]
      /\ enrollments'[last] = new
  BY <1>7, <1>8, AddRow DEF CompleteTx, Moved
<1>10. \A i \in DOMAIN enrollments :
         /\ enrollments'[i].student = enrollments[i].student
         /\ enrollments'[i].school = enrollments[i].school
         /\ enrollments'[i].via = enrollments[i].via
         /\ i # src => enrollments'[i].active = enrollments[i].active
  <2> TAKE i \in DOMAIN enrollments
  <2>1. enrollments[i] \in Enrollment
    BY ElementOfSeq, LenProperties DEF IInv, TypeOK
  <2>2. QED
    BY <1>7, <1>9, <2>1 DEF Enrollment
<1>11. Moves(t, s, src, last)
  <2>1. st \in Students /\ transfers[t].from \in Schools \ {s}
    BY <1>1, <1>2 DEF Transfer
  <2>2. \A u \in DOMAIN transfers :
          /\ transfers'[u].student = transfers[u].student
          /\ transfers'[u].from = transfers[u].from
          /\ transfers'[u].to = transfers[u].to
          /\ u # t => transfers'[u].usedBy = transfers[u].usedBy
    BY <1>3, <1>4
  <2>3. enrollments'[src].active = FALSE
    BY <1>5, <1>7, <1>9 DEF Enrollment
  <2>4. transfers'[t].usedBy = s
    BY <1>1, <1>3, <1>4
  <2> HIDE DEF t, s, st, src, released, new, last
  <2>5. QED
    BY <1>1, <1>4, <1>8, <1>9, <1>10, <2>1, <2>2, <2>3, <2>4 DEF Moves, st
<1>12. QED
  BY <1>1, <1>5, <1>9, <1>11

LEMMA CompleteStep ==
  ASSUME IInv, NEW r \in Requests, CompleteTx(r)
  PROVE  /\ CodesKept /\ EnrollmentsKept /\ DestinationOK'
         /\ NoStudentStranded' /\ ChainOfCustody' /\ ClaimRecorded' /\ ReleasedByClaim'
<1>1. PICK t \in Tids, s \in Schools, src \in DOMAIN enrollments, last \in Nat :
        Moves(t, s, src, last)
  BY MoveEffect
<1> DEFINE st == transfers[t].student
<1>2. CodesKept
  BY <1>1 DEF CodesKept, Moves
<1>3. EnrollmentsKept
  BY <1>1 DEF EnrollmentsKept, Moves
<1>4. DestinationOK'
  BY <1>1 DEF DestinationOK, IInv, Moves
<1>5. NoStudentStranded'
  <2> SUFFICES ASSUME NEW p \in Students
               PROVE  \E i \in DOMAIN enrollments' :
                        enrollments'[i].student = p /\ enrollments'[i].active
    BY DEF NoStudentStranded
  <2>1. CASE p = st
    BY <2>1, <1>1 DEF Moves
  <2>2. CASE p # st
    <3>1. PICK i \in DOMAIN enrollments :
                 enrollments[i].student = p /\ enrollments[i].active
      BY DEF IInv, NoStudentStranded
    <3>2. i # src
      BY <2>2, <3>1, <1>1 DEF AtSource, Moves
    <3>3. QED
      BY <3>1, <3>2, <1>1 DEF Moves
  <2>3. QED
    BY <2>1, <2>2
<1>6. ChainOfCustody'
  <2> SUFFICES ASSUME NEW i \in DOMAIN enrollments', enrollments'[i].via # 0
               PROVE  /\ enrollments'[i].via \in DOMAIN transfers'
                      /\ transfers'[enrollments'[i].via].student = enrollments'[i].student
                      /\ transfers'[enrollments'[i].via].from # enrollments'[i].school
                      /\ \E j \in DOMAIN enrollments' :
                           /\ enrollments'[j].student = enrollments'[i].student
                           /\ enrollments'[j].school = transfers'[enrollments'[i].via].from
                           /\ j < i
    BY DEF ChainOfCustody, AtSource
  <2>1. CASE i = last
    <3>1. /\ src < last
          /\ enrollments'[src].student = st
          /\ enrollments'[src].school = transfers[t].from
      BY <1>1 DEF AtSource, Moves
    <3>2. transfers'[t].from = transfers[t].from /\ transfers'[t].student = st
      BY <1>1 DEF Moves
    <3>3. QED
      BY <2>1, <3>1, <3>2, <1>1 DEF Moves
  <2>2. CASE i \in DOMAIN enrollments
    <3>1. PICK j \in DOMAIN enrollments :
            /\ enrollments[i].via \in DOMAIN transfers
            /\ transfers[enrollments[i].via].student = enrollments[i].student
            /\ transfers[enrollments[i].via].from # enrollments[i].school
            /\ enrollments[j].student = enrollments[i].student
            /\ enrollments[j].school = transfers[enrollments[i].via].from
            /\ j < i
      BY <2>2, <1>1 DEF IInv, ChainOfCustody, AtSource, Moves
    <3>2. QED
      BY <2>2, <3>1, <1>1, <1>2 DEF CodesKept, Moves
  <2>3. QED
    BY <2>1, <2>2, <1>1 DEF Moves
<1>7. ClaimRecorded'
  <2> SUFFICES ASSUME NEW u \in DOMAIN transfers', transfers'[u].usedBy # NoSchool
               PROVE  \E i \in DOMAIN enrollments' :
                        /\ enrollments'[i].via = u
                        /\ enrollments'[i].school = transfers'[u].usedBy
    BY DEF ClaimRecorded, Used
  <2>1. CASE u = t
    BY <2>1, <1>1 DEF Moves
  <2>2. CASE u # t
    BY <2>2, <1>1 DEF IInv, ClaimRecorded, Used, Moves
  <2>3. QED
    BY <2>1, <2>2
<1>8. ReleasedByClaim'
  <2> SUFFICES ASSUME NEW i \in DOMAIN enrollments', ~enrollments'[i].active
               PROVE  \E j \in DOMAIN enrollments' :
                        /\ j > i
                        /\ enrollments'[j].student = enrollments'[i].student
                        /\ enrollments'[j].via \in DOMAIN transfers'
                        /\ transfers'[enrollments'[j].via].from = enrollments'[i].school
    BY DEF ReleasedByClaim
  <2>1. i \in DOMAIN enrollments
    BY <1>1 DEF Moves
  <2>2. CASE i = src
    <3>1. /\ last > i
          /\ enrollments'[last].student = enrollments'[i].student
          /\ transfers'[t].from = enrollments'[i].school
      BY <2>1, <2>2, <1>1, LenProperties
      DEF AtSource, IInv, TypeOK, Moves
    <3>2. QED
      BY <3>1, <1>1 DEF Moves
  <2>3. CASE i # src
    <3>1. PICK j \in DOMAIN enrollments :
                 /\ j > i
                 /\ enrollments[j].student = enrollments[i].student
                 /\ enrollments[j].via \in DOMAIN transfers
                 /\ transfers[enrollments[j].via].from = enrollments[i].school
      BY <2>1, <2>3, <1>1 DEF IInv, ReleasedByClaim, Moves
    <3>2. QED
      BY <2>1, <3>1, <1>1, <1>2 DEF CodesKept, Moves
  <2>4. QED
    BY <2>2, <2>3
<1>9. QED
  BY <1>2, <1>3, <1>4, <1>5, <1>6, <1>7, <1>8
-----------------------------------------------------------------------------
(* The steps, by the request that takes them.                              *)

TablesOK ==
  DestinationOK /\ NoStudentStranded /\ ChainOfCustody /\ ClaimRecorded /\ ReleasedByClaim

SchoolsOK == deactivated \subseteq Schools /\ owed \subseteq Schools /\ issueJobs \subseteq Schools

LEMMA SameTables ==
  ASSUME IInv, UNCHANGED tableVars
  PROVE  CodesKept /\ EnrollmentsKept /\ TablesOK'
<1>1. CodesKept /\ EnrollmentsKept
  BY DEF CodesKept, EnrollmentsKept, IInv, TypeOK
<1>2. \A t \in DOMAIN transfers' : transfers'[t] = transfers[t] /\ t \in DOMAIN transfers
  OBVIOUS
<1>3. DestinationOK'
  BY DEF DestinationOK, IInv
<1>4. QED
  BY <1>1, <1>2, <1>3, CodeStep DEF TablesOK

\* The step of one request: the others keep what they know.
LEMMA OneRequest ==
  ASSUME IInv, CodesKept, EnrollmentsKept, TablesOK', SchoolsOK',
         NEW r \in Requests, req' \in [Requests -> Request],
         \A p \in Requests \ {r} : req'[p] = req[p],
         RequestOK(req[r])'
  PROVE  IInv'
<1>1. TypeOK'
  BY DEF TypeOK, CodesKept, EnrollmentsKept, SchoolsOK
<1>2. ASSUME NEW p \in Requests PROVE RequestOK(req[p])'
  BY RequestKept DEF IInv
<1>3. QED
  BY <1>1, <1>2 DEF IInv, TablesOK

\* A request whose handler ends.
LEMMA FinishStep ==
  ASSUME IInv, CodesKept, EnrollmentsKept, TablesOK', SchoolsOK',
         NEW r \in Requests, Finish(r)
  PROVE  IInv'
<1>1. Idle \in Request
  BY DEF Idle, Request, Ops
<1>2. /\ req' \in [Requests -> Request]
      /\ req'[r] = Idle
      /\ \A p \in Requests \ {r} : req'[p] = req[p]
  BY <1>1 DEF Finish, IInv, TypeOK
<1>3. RequestOK(req[r])'
  BY <1>2 DEF RequestOK, Idle
<1>4. QED
  BY <1>2, <1>3, OneRequest

\* A request that goes on with x, no table having changed.
LEMMA ReadStep ==
  ASSUME IInv, UNCHANGED tableVars, SchoolsOK', NEW r \in Requests,
         NEW x \in Request, req' = [req EXCEPT ![r] = x], RequestOK(x)
  PROVE  IInv'
<1>1. /\ req' \in [Requests -> Request]
      /\ req'[r] = x
      /\ \A p \in Requests \ {r} : req'[p] = req[p]
  BY DEF IInv, TypeOK
<1>2. RequestOK(req[r])'
  BY <1>1 DEF RequestOK, AtSource
<1>3. QED
  BY <1>1, <1>2, OneRequest, SameTables

\* The first query of a handler about one code.
LEMMA ProceedStep ==
  ASSUME IInv, UNCHANGED tableVars, UNCHANGED schoolVars,
         NEW r \in Requests, NEW s \in Schools, NEW t \in Tids,
         NEW op \in {"initiate", "completeData", "reject", "revoke"},
         Proceed(r, op, s, t),
         op \in {"initiate", "completeData"} => transfers[t].from # s
  PROVE  IInv'
<1> DEFINE x == [Idle EXCEPT !.op = op, !.school = s, !.tid = t]
<1>0. t \in Nat
  BY LenProperties DEF IInv, TypeOK
<1>1. x \in Request
  BY <1>0 DEF Idle, Request, Ops
<1>2. RequestOK(x)
  BY DEF RequestOK, Idle
<1>3. SchoolsOK'
  BY DEF SchoolsOK, IInv, TypeOK
<1>4. QED
  BY <1>1, <1>2, <1>3, ReadStep DEF Proceed
-----------------------------------------------------------------------------
LEMMA InitIInv == Init => IInv
<1> SUFFICES ASSUME Init PROVE IInv
  OBVIOUS
<1>1. Idle \in Request
  BY DEF Idle, Request, Ops
<1>2. TypeOK
  BY <1>1, RollAssumption, EmptySeq DEF Init, L!Init, TypeOK
<1>3. \A r \in Requests : RequestOK(req[r])
  BY DEF Init, RequestOK, Idle
<1>4. transfers = << >> /\ DOMAIN transfers = {}
  BY DEF Init
<1>5. DestinationOK /\ ClaimRecorded
  BY <1>4 DEF DestinationOK, ClaimRecorded
<1>6. NoStudentStranded /\ ChainOfCustody /\ ReleasedByClaim
  BY RollAssumption DEF Init, NoStudentStranded, ChainOfCustody, ReleasedByClaim
<1>7. QED
  BY <1>2, <1>3, <1>5, <1>6 DEF IInv

\* The steps of the schools, of time and of a restart.
LEMMA EnvironmentStep == IInv /\ Environment => IInv'
<1> SUFFICES ASSUME IInv, Environment PROVE IInv'
  OBVIOUS
<1>1. CASE \E t \in Tids : Expire(t)
  <2>1. PICK t \in Tids : Expire(t)
    BY <1>1
  <2> DEFINE row == [transfers[t] EXCEPT !.expired = TRUE]
  <2>2. transfers[t] \in Transfer
    BY ElementOfSeq, LenProperties DEF IInv, TypeOK
  <2>3. /\ row \in Transfer
        /\ row.student = transfers[t].student /\ row.from = transfers[t].from
        /\ row.usedBy = transfers[t].usedBy /\ row.to = transfers[t].to
    BY <2>2 DEF Transfer
  <2>4. CodesKept /\ EnrollmentsKept /\ TablesOK'
    BY <2>1, <2>3, RewriteStep DEF Expire, IInv, DestinationOK, TablesOK
  <2>5. UNCHANGED <<schoolVars, req>>
    BY <2>1 DEF Expire
  <2>6. \A r \in Requests : RequestOK(req[r])'
    BY <2>4, <2>5, RequestKept DEF IInv
  <2>7. QED
    BY <2>4, <2>5, <2>6 DEF IInv, TypeOK, TablesOK, CodesKept, EnrollmentsKept
<1>2. CASE \E s \in Closable : Deactivate(s) \/ QueueIssue(s) \/ Reactivate(s)
  <2>1. UNCHANGED <<tableVars, req>> /\ SchoolsOK'
    BY <1>2, BoundAssumption
       DEF Deactivate, QueueIssue, Reactivate, L!Deactivate, L!Queue, L!Reactivate,
           SchoolsOK, IInv, TypeOK
  <2>2. CodesKept /\ EnrollmentsKept /\ TablesOK'
    BY <2>1, SameTables
  <2>3. \A r \in Requests : RequestOK(req[r])'
    BY <2>1, <2>2, RequestKept DEF IInv
  <2>4. QED
    BY <2>1, <2>2, <2>3 DEF IInv, TypeOK, TablesOK, SchoolsOK
<1>3. CASE Restart
  <2>1. UNCHANGED tableVars /\ CodesKept /\ EnrollmentsKept /\ TablesOK'
    BY <1>3, SameTables DEF Restart
  <2>2. Idle \in Request
    BY DEF Idle, Request, Ops
  <2>3. req' = [r \in Requests |-> Idle]
    BY <1>3 DEF Restart
  <2>4. \A r \in Requests : RequestOK(req[r])'
    BY <2>3 DEF RequestOK, Idle
  <2>5. \A r \in Requests : req[r].op = "job" => req[r].school \in Schools
    BY DEF IInv, RequestOK
  <2>6. SchoolsOK'
    BY <1>3, <2>5 DEF Restart, SchoolsOK, IInv, TypeOK
  <2>7. QED
    BY <2>1, <2>2, <2>3, <2>4, <2>6 DEF IInv, TypeOK, TablesOK, SchoolsOK
<1>4. QED
  BY <1>1, <1>2, <1>3 DEF Environment

\* The first steps of the handlers.
LEMMA ReadsStep == ASSUME IInv, NEW r \in Requests, Reads(r) PROVE IInv'
<1>1. ASSUME NEW s \in Schools, NEW st \in Students, GenerateRead(r, s, st) PROVE IInv'
  <2> DEFINE x == [Idle EXCEPT !.op = "generate", !.school = s, !.student = st]
  <2>1. x \in Request /\ RequestOK(x)
    BY DEF Idle, Request, Ops, RequestOK
  <2>2. QED
    BY <1>1, <2>1, ReadStep DEF GenerateRead, SchoolsOK, IInv, TypeOK
<1>2. ASSUME NEW s \in Schools, NEW st \in Students, ClosureRequest(r, s, st) PROVE IInv'
  <2> DEFINE x == [Idle EXCEPT !.op = "ask", !.school = s, !.todo = {st}]
  <2>1. x \in Request /\ RequestOK(x)
    BY DEF Idle, Request, Ops, RequestOK
  <2>2. QED
    BY <1>2, <2>1, ReadStep DEF ClosureRequest, SchoolsOK, IInv, TypeOK
<1>3. ASSUME NEW s \in Schools, NEW t \in Tids, InitiateRead(r, s, t) PROVE IInv'
  BY <1>3, ProceedStep DEF InitiateRead, MayEnter
<1>4. ASSUME NEW s \in Schools, NEW t \in Tids, CompleteRead(r, s, t) PROVE IInv'
  <2>1. transfers[t].from # s
    BY <1>4 DEF CompleteRead, IInv, DestinationOK
  <2>2. QED
    BY <1>4, <2>1, ProceedStep DEF CompleteRead
<1>5. ASSUME NEW s \in Schools, NEW t \in Tids, RejectRead(r, s, t) PROVE IInv'
  BY <1>5, ProceedStep DEF RejectRead
<1>6. ASSUME NEW s \in Schools, NEW t \in Tids, RevokeRead(r, s, t) PROVE IInv'
  BY <1>6, ProceedStep DEF RevokeRead
<1>7. ASSUME NEW s \in Schools, IssueStart(r, s) PROVE IInv'
  <2> DEFINE x == [Idle EXCEPT !.op = "job", !.school = s,
                               !.todo = {st \in Students : ActiveAt(st, s) # {}}]
  <2>1. x \in Request /\ RequestOK(x)
    BY DEF Idle, Request, Ops, RequestOK
  <2>2. SchoolsOK'
    BY <1>7 DEF IssueStart, L!Take, SchoolsOK, IInv, TypeOK
  <2>3. QED
    BY <1>7, <2>1, <2>2, ReadStep DEF IssueStart
<1>8. QED
  BY <1>1, <1>2, <1>3, <1>4, <1>5, <1>6, <1>7 DEF Reads
-----------------------------------------------------------------------------
\* The later steps of the handlers.
LEMMA WritesStep == ASSUME IInv, NEW r \in Requests, Writes(r) PROVE IInv'
<1> DEFINE t == req[r].tid
           s == req[r].school
<1>a. req[r] \in Request /\ RequestOK(req[r])
  BY DEF IInv, TypeOK
<1>b. UNCHANGED schoolVars => SchoolsOK'
  BY DEF SchoolsOK, IInv, TypeOK
<1>1. CASE GenerateWrite(r)
  <2>1. CodesKept /\ EnrollmentsKept /\ TablesOK'
    BY <1>1, <1>a, AddStep DEF GenerateWrite, RequestOK, Kinds, TablesOK
  <2>2. QED
    BY <1>1, <1>b, <2>1, FinishStep DEF GenerateWrite
<1>2. CASE InitiateWrite(r)
  <2> DEFINE new == [transfers[t] EXCEPT !.to = s, !.status = "APPROVED"]
  <2>1. t \in Tids /\ s \in Schools /\ transfers[t].from # s
    BY <1>2, <1>a DEF InitiateWrite, RequestOK
  <2>2. transfers[t] \in Transfer
    BY <2>1, ElementOfSeq, LenProperties DEF IInv, TypeOK
  <2>3. /\ new \in Transfer /\ new.student = transfers[t].student
        /\ new.from = transfers[t].from /\ new.usedBy = transfers[t].usedBy
        /\ new.to = s
    BY <2>1, <2>2 DEF Transfer, Statuses
  <2>4. CodesKept /\ EnrollmentsKept /\ TablesOK'
    BY <1>2, <2>1, <2>3, RewriteStep DEF InitiateWrite, TablesOK
  <2>5. QED
    BY <1>2, <1>b, <2>4, FinishStep DEF InitiateWrite
<1>3. CASE CompleteData(r)
  <2>1. UNCHANGED tableVars /\ UNCHANGED schoolVars
    BY <1>3 DEF CompleteData
  <2>2. CASE Finish(r)
    BY <2>1, <2>2, <1>b, FinishStep, SameTables
  <2>3. ASSUME NEW tm \in Terms \cup {NoTerm}, AtSource(t) # {},
               req' = [req EXCEPT ![r] =
                         [@ EXCEPT !.op = "completeTx", !.term = tm,
                                   !.src = SourceEnrollment(t)]]
        PROVE  IInv'
    <3> DEFINE x == [req[r] EXCEPT !.op = "completeTx", !.term = tm,
                                   !.src = SourceEnrollment(t)]
    <3>1. AtSource(t) \subseteq Nat /\ AtSource(t) \subseteq 1 .. Len(enrollments)
          /\ Len(enrollments) \in Nat
      BY LenProperties DEF AtSource, IInv, TypeOK
    <3>2. SourceEnrollment(t) \in AtSource(t)
      <4> DEFINE act == {i \in AtSource(t) : enrollments[i].active}
                 from == IF act # {} THEN act ELSE AtSource(t)
      <4>1. from # {} /\ from \subseteq AtSource(t)
        BY <2>3
      <4>2. \E i \in from : \A j \in from : j <= i
        BY <4>1, <3>1, NewestExists
      <4>3. QED
        BY <4>1, <4>2 DEF SourceEnrollment
    <3>3. x \in Request
      BY <1>a, <3>1, <3>2 DEF Request, Ops
    <3>4. RequestOK(x)
      BY <1>3, <1>a, <3>2 DEF RequestOK, CompleteData, Request
    <3>5. QED
      BY <2>1, <2>3, <1>b, <3>3, <3>4, ReadStep
  <2>4. QED
    BY <1>3, <2>2, <2>3 DEF CompleteData
<1>4. CASE CompleteTx(r)
  <2>1. CodesKept /\ EnrollmentsKept /\ TablesOK'
    BY <1>4, CompleteStep DEF TablesOK
  <2>2. Finish(r) /\ UNCHANGED schoolVars
    BY <1>4 DEF CompleteTx
  <2>3. QED
    BY <1>b, <2>1, <2>2, FinishStep
<1>5. CASE CompleteRollback(r)
  BY <1>5, <1>b, FinishStep, SameTables DEF CompleteRollback
<1>6. CASE RejectWrite(r)
  <2> DEFINE row == transfers[t]
             new == IF row.kind = "SCHOOL_CLOSURE"
                    THEN [row EXCEPT !.status = "PENDING", !.to = NoSchool]
                    ELSE [row EXCEPT !.status = "REJECTED"]
  <2>1. t \in Tids
    BY <1>6, <1>a DEF RejectWrite, RequestOK
  <2>2. row \in Transfer /\ row.to # row.from
    BY <2>1, ElementOfSeq, LenProperties DEF IInv, TypeOK, DestinationOK
  <2>3. /\ new \in Transfer /\ new.student = row.student
        /\ new.from = row.from /\ new.usedBy = row.usedBy
        /\ new.to # new.from
    BY <2>2, NoneAssumption DEF Transfer, Statuses
  <2>4. CodesKept /\ EnrollmentsKept /\ TablesOK'
    BY <1>6, <2>1, <2>3, RewriteStep DEF RejectWrite, TablesOK
  <2>5. QED
    BY <1>6, <1>b, <2>4, FinishStep DEF RejectWrite
<1>7. CASE RevokeWrite(r)
  <2> DEFINE row == transfers[t]
             new == [row EXCEPT !.tac = FALSE, !.expired = FALSE, !.status = "CANCELLED"]
  <2>1. t \in Tids
    BY <1>7, <1>a DEF RevokeWrite, RequestOK
  <2>2. row \in Transfer /\ row.to # row.from
    BY <2>1, ElementOfSeq, LenProperties DEF IInv, TypeOK, DestinationOK
  <2>3. /\ new \in Transfer /\ new.student = row.student
        /\ new.from = row.from /\ new.usedBy = row.usedBy
        /\ new.to # new.from
    BY <2>2 DEF Transfer, Statuses
  <2>4. CodesKept /\ EnrollmentsKept /\ TablesOK'
    BY <1>7, <2>1, <2>3, RewriteStep DEF RevokeWrite, TablesOK
  <2>5. QED
    BY <1>7, <1>b, <2>4, FinishStep DEF RevokeWrite
<1>8. ASSUME NEW st \in Students, IssueCheck(r, st) PROVE IInv'
  <2> DEFINE x == [req[r] EXCEPT !.todo = req[r].todo \ {st},
                                 !.student = IF HasClosureCode(st, s)
                                             THEN NoStudent ELSE st]
  <2>0. x.op = req[r].op /\ x.school = s /\ x.op \in {"ask", "job"}
    BY <1>8, <1>a DEF Request, IssueCheck, Issuing
  <2>1. x \in Request /\ RequestOK(x)
    BY <2>0, <1>a DEF Request, RequestOK
  <2>2. req' = [req EXCEPT ![r] = x]
    BY <1>8 DEF IssueCheck
  <2>3. QED
    BY <1>8, <1>b, <2>1, <2>2, ReadStep DEF IssueCheck
<1>9. CASE IssueCreate(r)
  <2> DEFINE x == [req[r] EXCEPT !.student = NoStudent]
  <2>1. req[r].student \in Students /\ s \in Schools
    BY <1>9, <1>a DEF IssueCreate, Issuing, RequestOK, Request
  <2>2. CodesKept /\ EnrollmentsKept /\ TablesOK'
    BY <1>9, <2>1, AddStep DEF IssueCreate, Kinds, TablesOK
  <2>3. x \in Request
    BY <1>a DEF Request
  <2>4. /\ req' \in [Requests -> Request]
        /\ req'[r] = x
        /\ \A p \in Requests \ {r} : req'[p] = req[p]
    BY <1>9, <2>3 DEF IssueCreate, IInv, TypeOK
  <2>5. x.op \in {"ask", "job"} /\ x.school = s
    BY <1>9, <1>a DEF IssueCreate, Issuing, Request
  <2>6. RequestOK(req[r])'
    BY <2>1, <2>4, <2>5 DEF RequestOK
  <2>7. QED
    BY <1>9, <1>b, <2>2, <2>4, <2>6, OneRequest DEF IssueCreate
<1>10. CASE IssueDone(r)
  BY <1>10, <1>b, FinishStep, SameTables DEF IssueDone
<1>11. QED
  BY <1>1, <1>2, <1>3, <1>4, <1>5, <1>6, <1>7, <1>8, <1>9, <1>10 DEF Writes

LEMMA StepIInv == IInv /\ [Next]_vars => IInv'
<1> SUFFICES ASSUME IInv, [Next]_vars PROVE IInv'
  OBVIOUS
<1>1. CASE UNCHANGED vars
  BY <1>1 DEF vars, IInv, TypeOK, RequestOK, AtSource, DestinationOK,
     NoStudentStranded, ChainOfCustody, ClaimRecorded, Used, ReleasedByClaim
<1>2. CASE Environment
  BY <1>2, EnvironmentStep
<1>3. ASSUME NEW r \in Requests, Reads(r) \/ Writes(r) PROVE IInv'
  BY <1>3, ReadsStep, WritesStep
<1>4. QED
  BY <1>1, <1>2, <1>3 DEF Next

\* The invariant of every behaviour of the service.
THEOREM InvariantHolds == Spec => []IInv
  BY InitIInv, StepIInv, PTL DEF Spec

\* The tables and the requests in flight keep their types.
THEOREM TypeCorrect == Spec => []TypeOK
<1>1. IInv => TypeOK
  BY DEF IInv
<1>2. QED
  BY <1>1, InvariantHolds, PTL

\* No interleaving of handlers and restarts strands a student.
THEOREM NeverStranded == Spec => []NoStudentStranded
<1>1. IInv => NoStudentStranded
  BY DEF IInv
<1>2. QED
  BY <1>1, InvariantHolds, PTL

\* Every move goes back to a code issued by the school the student came from.
THEOREM CustodyIsChained == Spec => []ChainOfCustody
<1>1. IInv => ChainOfCustody
  BY DEF IInv
<1>2. QED
  BY <1>1, InvariantHolds, PTL

\* tacUsedBy never names a school that did not enrol the student.
THEOREM ClaimsAreRecorded == Spec => []ClaimRecorded
<1>1. IInv => ClaimRecorded
  BY DEF IInv
<1>2. QED
  BY <1>1, InvariantHolds, PTL

\* An enrollment ends only by a claim of a code of its own school.
THEOREM ReleasesAreClaims == Spec => []ReleasedByClaim
<1>1. IInv => ReleasedByClaim
  BY DEF IInv
<1>2. QED
  BY <1>1, InvariantHolds, PTL
-----------------------------------------------------------------------------
(***************************************************************************)
(* The transfer service implements Custody.                                *)
(***************************************************************************)

\* The refinement mapping: the three variables of Custody.
Where(st) == {s \in Schools : ActiveAt(st, s) # {}}
Records(st) ==
  {enrollments[i].school : i \in
     {k \in DOMAIN enrollments : enrollments[k].student = st}}
Issuers(st) ==
  {transfers[t].from : t \in {u \in Tids : transfers[u].student = st}}

\* The school has had the student enrolled.
Held(st, s) ==
  \E i \in DOMAIN enrollments :
    enrollments[i].student = st /\ enrollments[i].school = s

\* A handler about to issue a code has seen the student at its school.
HolderOK(q) ==
  /\ q.op = "generate" => Held(q.student, q.school)
  /\ q.op \in {"ask", "job"} =>
       /\ \A st \in q.todo : Held(st, q.school)
       /\ q.student # NoStudent => Held(q.student, q.school)

CInv == IInv /\ \A r \in Requests : HolderOK(req[r])
-----------------------------------------------------------------------------
(* A step leaves the codes and enrollments in place, or adds a code for a  *)
(* student its school has had enrolled, or moves a student.                *)

SameCodes ==
  /\ DOMAIN transfers' = DOMAIN transfers
  /\ \A t \in DOMAIN transfers :
       /\ transfers'[t].student = transfers[t].student
       /\ transfers'[t].from = transfers[t].from

Stutters == enrollments' = enrollments /\ SameCodes

Adds ==
  \E st \in Students, s \in Schools, k \in Kinds :
    CreateTransfer(st, s, k) /\ Held(st, s)

LEMMA RewriteStutters ==
  ASSUME IInv, NEW t \in Tids, NEW row, SetTransfer(t, row),
         enrollments' = enrollments,
         row.student = transfers[t].student, row.from = transfers[t].from
  PROVE  Stutters
<1>1. /\ DOMAIN transfers' = DOMAIN transfers
      /\ \A u \in DOMAIN transfers :
           transfers'[u] = IF u = t THEN row ELSE transfers[u]
  BY DEF SetTransfer, IInv, TypeOK
<1>2. QED
  BY <1>1 DEF Stutters, SameCodes

LEMMA Effect ==
  ASSUME CInv, Next
  PROVE  Stutters \/ Adds \/ \E r \in Requests : CompleteTx(r)
<1> USE DEF CInv
<1>1. CASE UNCHANGED tableVars
  BY <1>1 DEF Stutters, SameCodes
<1>2. CASE Environment
  <2>1. ASSUME NEW t \in Tids, Expire(t) PROVE Stutters
    <3>1. transfers[t] \in Transfer
      BY ElementOfSeq, LenProperties DEF IInv, TypeOK
    <3>2. QED
      BY <2>1, <3>1, RewriteStutters DEF Expire, Transfer
  <2>2. ASSUME NEW s \in Closable, Deactivate(s) \/ QueueIssue(s) \/ Reactivate(s)
        PROVE  UNCHANGED tableVars
    BY <2>2 DEF Deactivate, QueueIssue, Reactivate
  <2>3. Restart => UNCHANGED tableVars
    BY DEF Restart
  <2>4. QED
    BY <1>1, <1>2, <2>1, <2>2, <2>3 DEF Environment
<1>3. ASSUME NEW r \in Requests, Reads(r) PROVE UNCHANGED tableVars
  BY <1>3 DEF Reads, GenerateRead, ClosureRequest, InitiateRead, CompleteRead,
     RejectRead, RevokeRead, IssueStart
<1>4. ASSUME NEW r \in Requests, Writes(r)
      PROVE  Stutters \/ Adds \/ CompleteTx(r)
  <2>1. req[r] \in Request /\ RequestOK(req[r]) /\ HolderOK(req[r])
    BY DEF IInv, TypeOK
  <2>2. CASE GenerateWrite(r)
    BY <2>1, <2>2 DEF GenerateWrite, RequestOK, HolderOK, Kinds, Adds
  <2>3. CASE InitiateWrite(r) \/ RejectWrite(r) \/ RevokeWrite(r)
    <3> DEFINE t == req[r].tid
    <3>1. t \in Tids
      BY <2>1, <2>3 DEF InitiateWrite, RejectWrite, RevokeWrite, RequestOK
    <3>2. transfers[t] \in Transfer
      BY <3>1, ElementOfSeq, LenProperties DEF IInv, TypeOK
    <3>3. CASE InitiateWrite(r)
      BY <3>1, <3>2, <3>3, RewriteStutters DEF InitiateWrite, Transfer
    <3>4. CASE RejectWrite(r)
      BY <3>1, <3>2, <3>4, RewriteStutters DEF RejectWrite, Transfer
    <3>5. CASE RevokeWrite(r)
      BY <3>1, <3>2, <3>5, RewriteStutters DEF RevokeWrite, Transfer
    <3>6. QED
      BY <2>3, <3>3, <3>4, <3>5
  <2>4. CASE IssueCreate(r)
    <3>1. req[r].student \in Students /\ req[r].school \in Schools
      BY <2>1, <2>4 DEF IssueCreate, Issuing, RequestOK, Request
    <3>2. QED
      BY <2>1, <2>4, <3>1 DEF IssueCreate, Issuing, HolderOK, Kinds, Adds
  <2>5. CASE \/ CompleteData(r) \/ CompleteRollback(r) \/ IssueDone(r)
             \/ \E st \in Students : IssueCheck(r, st)
    <3>1. UNCHANGED tableVars
      BY <2>5 DEF CompleteData, CompleteRollback, IssueDone, IssueCheck
    <3>2. QED
      BY <3>1 DEF Stutters, SameCodes
  <2>6. QED
    BY <1>4, <2>2, <2>3, <2>4, <2>5 DEF Writes
<1>5. QED
  BY <1>1, <1>2, <1>3, <1>4 DEF Next
-----------------------------------------------------------------------------
(* What a handler has seen of an enrollment stays true.                    *)

LEMMA EnrollmentsStay == ASSUME CInv, Next PROVE EnrollmentsKept
<1>1. CASE enrollments' = enrollments
  BY <1>1 DEF EnrollmentsKept, CInv, IInv, TypeOK
<1>2. ASSUME NEW r \in Requests, CompleteTx(r) PROVE EnrollmentsKept
  BY <1>2, CompleteStep DEF CInv
<1>3. QED
  BY <1>1, <1>2, Effect DEF Stutters, Adds, CreateTransfer

LEMMA HeldStays ==
  ASSUME EnrollmentsKept, NEW st, NEW s, Held(st, s)
  PROVE  Held(st, s)'
  BY DEF EnrollmentsKept, Held

LEMMA ActiveIsHeld ==
  ASSUME NEW st, NEW s, ActiveAt(st, s) # {}
  PROVE  Held(st, s)
  BY DEF ActiveAt, Held

LEMMA HolderKept ==
  ASSUME EnrollmentsKept, NEW r \in Requests, req'[r] = req[r], HolderOK(req[r])
  PROVE  HolderOK(req[r])'
  BY DEF EnrollmentsKept, HolderOK, Held

LEMMA HolderStep ==
  ASSUME CInv, Next
  PROVE  \A r \in Requests : HolderOK(req[r])'
<1>1. EnrollmentsKept
  BY EnrollmentsStay
<1>2. req \in [Requests -> Request]
  BY DEF CInv, IInv, TypeOK
<1>3. CASE req' = req
  BY <1>1, <1>3, HolderKept DEF CInv
<1>4. ASSUME NEW r \in Requests, NEW x, req' = [req EXCEPT ![r] = x], HolderOK(x)'
      PROVE  \A q \in Requests : HolderOK(req[q])'
  BY <1>1, <1>2, <1>4, HolderKept DEF CInv
<1>5. CASE Environment
  <2>1. CASE Restart
    BY <2>1 DEF Restart, HolderOK, Idle
  <2>2. QED
    BY <1>3, <1>5, <2>1 DEF Environment, Expire, Deactivate, QueueIssue, Reactivate
<1>6. ASSUME NEW r \in Requests, Reads(r) PROVE \A q \in Requests : HolderOK(req[q])'
  <2>1. ASSUME NEW s \in Schools, NEW st \in Students, GenerateRead(r, s, st)
        PROVE  \A q \in Requests : HolderOK(req[q])'
    <3> DEFINE x == [Idle EXCEPT !.op = "generate", !.school = s, !.student = st]
    <3>1. x.op = "generate" /\ x.school = s /\ x.student = st
      BY DEF Idle
    <3>2. Held(st, s)'
      BY <1>1, <2>1, ActiveIsHeld, HeldStays DEF GenerateRead
    <3>3. HolderOK(x)'
      BY <3>1, <3>2 DEF HolderOK
    <3>4. QED
      BY <1>4, <2>1, <3>3 DEF GenerateRead
  <2>2. ASSUME NEW s \in Schools, NEW st \in Students, ClosureRequest(r, s, st)
        PROVE  \A q \in Requests : HolderOK(req[q])'
    <3> DEFINE x == [Idle EXCEPT !.op = "ask", !.school = s, !.todo = {st}]
    <3>1. x.op = "ask" /\ x.school = s /\ x.todo = {st} /\ x.student = NoStudent
      BY DEF Idle
    <3>2. Held(st, s)'
      BY <1>1, <2>2, ActiveIsHeld, HeldStays DEF ClosureRequest
    <3>3. HolderOK(x)'
      BY <3>1, <3>2 DEF HolderOK
    <3>4. QED
      BY <1>4, <2>2, <3>3 DEF ClosureRequest
  <2>3. ASSUME NEW s \in Schools, IssueStart(r, s)
        PROVE  \A q \in Requests : HolderOK(req[q])'
    <3> DEFINE todo == {st \in Students : ActiveAt(st, s) # {}}
    <3>0. PICK x : x = [Idle EXCEPT !.op = "job", !.school = s, !.todo = todo]
      OBVIOUS
    <3>1. x.op = "job" /\ x.school = s /\ x.todo = todo /\ x.student = NoStudent
      BY <3>0 DEF Idle
    <3>2. \A st \in x.todo : Held(st, s)'
      BY <1>1, <3>1, ActiveIsHeld, HeldStays
    <3>3. req' = [req EXCEPT ![r] = x]
      BY <2>3, <3>0 DEF IssueStart
    <3>4. HolderOK(x)'
      BY <3>1, <3>2 DEF HolderOK
    <3>5. QED
      BY <1>4, <3>3, <3>4
  <2>4. ASSUME NEW op \in {"initiate", "completeData", "reject", "revoke"},
               NEW s \in Schools, NEW t \in Tids, Proceed(r, op, s, t)
        PROVE  \A q \in Requests : HolderOK(req[q])'
    <3> DEFINE x == [Idle EXCEPT !.op = op, !.school = s, !.tid = t]
    <3>1. HolderOK(x)'
      BY DEF HolderOK, Idle
    <3>2. QED
      BY <1>4, <2>4, <3>1 DEF Proceed
  <2>5. QED
    BY <1>6, <2>1, <2>2, <2>3, <2>4
    DEF Reads, InitiateRead, CompleteRead, RejectRead, RevokeRead
<1>7. ASSUME NEW r \in Requests, Writes(r) PROVE \A q \in Requests : HolderOK(req[q])'
  <2>1. req[r] \in Request /\ HolderOK(req[r])
    BY <1>2 DEF CInv
  <2>2. CASE Finish(r)
    BY <1>4, <2>2 DEF Finish, HolderOK, Idle
  <2>3. CASE CompleteData(r)
    <3>1. ASSUME NEW tm \in Terms \cup {NoTerm},
                 req' = [req EXCEPT ![r] =
                           [@ EXCEPT !.op = "completeTx", !.term = tm,
                                     !.src = SourceEnrollment(req[r].tid)]]
          PROVE  \A q \in Requests : HolderOK(req[q])'
      <4>1. PICK x : x = [req[r] EXCEPT !.op = "completeTx", !.term = tm,
                                        !.src = SourceEnrollment(req[r].tid)]
        OBVIOUS
      <4>2. x.op = "completeTx"
        BY <2>1, <4>1 DEF Request
      <4>3. HolderOK(x)'
        BY <4>2 DEF HolderOK
      <4>4. req' = [req EXCEPT ![r] = x]
        BY <3>1, <4>1
      <4>5. QED
        BY <1>4, <4>3, <4>4
    <3>2. QED
      BY <2>2, <2>3, <3>1 DEF CompleteData
  <2>4. ASSUME NEW st \in Students, IssueCheck(r, st)
        PROVE  \A q \in Requests : HolderOK(req[q])'
    <3>0. PICK s, todo, x :
            /\ s = req[r].school /\ todo = req[r].todo
            /\ x = [req[r] EXCEPT !.todo = req[r].todo \ {st},
                                  !.student = IF HasClosureCode(st, req[r].school)
                                              THEN NoStudent ELSE st]
      OBVIOUS
    <3>1. /\ x.op = req[r].op /\ x.op \in {"ask", "job"} /\ x.school = s
          /\ x.todo = todo \ {st} /\ x.student \in {NoStudent, st}
      BY <2>1, <2>4, <3>0 DEF Request, IssueCheck, Issuing
    <3>2. \A p \in todo : Held(p, s)'
      <4>1. \A p \in todo : Held(p, s)
        BY <2>1, <3>0, <3>1 DEF HolderOK
      <4>2. QED
        BY <1>1, <4>1, HeldStays
    <3>3. st \in todo /\ req' = [req EXCEPT ![r] = x]
      BY <2>4, <3>0 DEF IssueCheck
    <3>4. HolderOK(x)'
      BY <3>1, <3>2, <3>3 DEF HolderOK
    <3>5. QED
      BY <1>4, <3>3, <3>4
  <2>5. CASE IssueCreate(r)
    <3>0. PICK s, todo, x :
            /\ s = req[r].school /\ todo = req[r].todo
            /\ x = [req[r] EXCEPT !.student = NoStudent]
      OBVIOUS
    <3>1. /\ x.op = req[r].op /\ x.op \in {"ask", "job"} /\ x.school = s
          /\ x.todo = todo /\ x.student = NoStudent
      BY <2>1, <2>5, <3>0 DEF Request, IssueCreate, Issuing
    <3>2. \A p \in todo : Held(p, s)'
      <4>1. \A p \in todo : Held(p, s)
        BY <2>1, <3>0, <3>1 DEF HolderOK
      <4>2. QED
        BY <1>1, <4>1, HeldStays
    <3>3. req' = [req EXCEPT ![r] = x]
      BY <2>5, <3>0 DEF IssueCreate
    <3>4. HolderOK(x)'
      BY <3>1, <3>2 DEF HolderOK
    <3>5. QED
      BY <1>4, <3>3, <3>4
  <2>6. QED
    BY <1>7, <2>2, <2>3, <2>4, <2>5
    DEF Writes, GenerateWrite, InitiateWrite, CompleteTx, CompleteRollback,
        RejectWrite, RevokeWrite, IssueDone
<1>8. QED
  BY <1>5, <1>6, <1>7 DEF Next
-----------------------------------------------------------------------------
(* The invariant of this refinement.                                       *)

LEMMA InitCInv == Init => CInv
  BY InitIInv DEF Init, CInv, HolderOK, Idle

LEMMA StepCInv == CInv /\ [Next]_vars => CInv'
<1> SUFFICES ASSUME CInv, [Next]_vars PROVE CInv'
  OBVIOUS
<1>1. IInv'
  BY StepIInv DEF CInv
<1>2. CASE UNCHANGED vars
  BY <1>1, <1>2 DEF vars, CInv, HolderOK, Held
<1>3. CASE Next
  BY <1>1, <1>3, HolderStep DEF CInv
<1>4. QED
  BY <1>2, <1>3
-----------------------------------------------------------------------------
(* What each kind of step is for Custody.                                  *)

LEMMA InitMaps == Init => C!Init
<1> SUFFICES ASSUME Init PROVE C!Init
  OBVIOUS
<1>1. enrollments = Roll /\ transfers = << >>
  BY DEF Init
<1>2. \A i \in DOMAIN Roll : Roll[i] \in Enrollment
  BY RollAssumption, ElementOfSeq, LenProperties
<1>3. ASSUME NEW st \in Students
      PROVE  /\ Where(st) \in (SUBSET Schools) \ {{}}
             /\ Records(st) = Where(st) /\ Issuers(st) = {}
  <2>1. \A i \in DOMAIN Roll : Roll[i].school \in Schools /\ Roll[i].active
    BY <1>2, RollAssumption DEF Enrollment
  <2>2. Records(st) = Where(st)
    BY <1>1, <2>1 DEF Records, Where, ActiveAt
  <2>3. PICK i \in DOMAIN Roll : Roll[i].student = st
    BY RollAssumption
  <2>4. Roll[i].school \in Where(st)
    BY <1>1, <2>1, <2>3 DEF Where, ActiveAt
  <2>5. Issuers(st) = {}
    BY <1>1 DEF Issuers
  <2>6. QED
    BY <2>2, <2>4, <2>5 DEF Where
<1>4. QED
  BY <1>3 DEF C!Init, Where, Records, Issuers

\* A step that moves nobody and issues no code shows nothing of itself.
LEMMA StutterMaps == ASSUME Stutters PROVE UNCHANGED C!vars
<1>1. \A st \in Students : Where(st)' = Where(st) /\ Records(st)' = Records(st)
  BY DEF Stutters, Where, Records, ActiveAt
<1>2. \A st \in Students : Issuers(st)' = Issuers(st)
  BY DEF Stutters, SameCodes, Issuers
<1>3. QED
  BY <1>1, <1>2 DEF C!vars, Where, Records, Issuers

\* A new code is an issue by a school that had the student enrolled.
LEMMA AddsMaps == ASSUME CInv, Adds PROVE C!Next
<1>1. PICK st \in Students, s \in Schools, k \in Kinds :
        CreateTransfer(st, s, k) /\ Held(st, s)
  BY DEF Adds
<1> DEFINE new == NewTransfer(st, s, k)
           last == Len(transfers) + 1
<1>2. new \in Transfer /\ new.student = st /\ new.from = s
  BY <1>1 DEF NewTransfer, Transfer, Statuses
<1>3. /\ DOMAIN transfers' = DOMAIN transfers \cup {last}
      /\ \A u \in DOMAIN transfers : transfers'[u] = transfers[u]
      /\ transfers'[last] = new
  BY <1>1, <1>2, AddRow DEF CInv, IInv, TypeOK, CreateTransfer
<1> HIDE DEF new, last
<1>4. \A x \in Students : Where(x)' = Where(x) /\ Records(x)' = Records(x)
  BY <1>1 DEF CreateTransfer, Where, Records, ActiveAt
<1>5. \A x \in Students :
        Issuers(x)' = IF x = st THEN Issuers(x) \cup {s} ELSE Issuers(x)
  BY <1>2, <1>3 DEF Issuers
<1>6. s \in Records(st)
  BY <1>1 DEF Held, Records
<1>7. C!Issue(st, s)
  BY <1>4, <1>5, <1>6 DEF C!Issue, Where, Records, Issuers
<1>8. QED
  BY <1>7 DEF C!Next

\* The source is given up unless the student is still active there, in an
\* enrollment the handler did not release.
LEMMA MoveMaps ==
  ASSUME CInv, NEW r \in Requests, CompleteTx(r)
  PROVE  C!Next
<1>1. PICK t \in Tids, s \in Schools, src \in DOMAIN enrollments, last \in Nat :
        Moves(t, s, src, last)
  BY MoveEffect DEF CInv
<1>2. PICK st, a : st = transfers[t].student /\ a = transfers[t].from
  OBVIOUS
<1>3. st \in Students /\ a \in Schools /\ a # s
  BY <1>1, <1>2 DEF Moves
<1>4. \A x \in Students : Issuers(x)' = Issuers(x)
  <2>1. /\ DOMAIN transfers' = DOMAIN transfers
        /\ \A u \in DOMAIN transfers : /\ transfers'[u].student = transfers[u].student
                                       /\ transfers'[u].from = transfers[u].from
    BY <1>1 DEF Moves
  <2>2. QED
    BY <2>1 DEF Issuers
<1>5. a \in Issuers(st)
  BY <1>2 DEF Issuers
<1>6. \A x \in Students :
        Records(x)' = IF x = st THEN Records(x) \cup {s} ELSE Records(x)
  BY <1>1, <1>2 DEF Moves, Records
<1>7. /\ DOMAIN enrollments' = DOMAIN enrollments \cup {last}
      /\ last \notin DOMAIN enrollments
      /\ enrollments'[last].student = st /\ enrollments'[last].school = s
      /\ enrollments'[last].active
      /\ enrollments[src].student = st /\ enrollments[src].school = a
      /\ ~enrollments'[src].active
      /\ \A i \in DOMAIN enrollments :
           /\ enrollments'[i].student = enrollments[i].student
           /\ enrollments'[i].school = enrollments[i].school
           /\ i # src => enrollments'[i].active = enrollments[i].active
  BY <1>1, <1>2 DEF Moves, AtSource
<1>8. ASSUME NEW x \in Students, NEW w \in Schools, <<x, w>> # <<st, a>>, <<x, w>> # <<st, s>>
      PROVE  ActiveAt(x, w)' = ActiveAt(x, w)
  BY <1>7, <1>8 DEF ActiveAt
<1>9. ActiveAt(st, s)' # {}
  BY <1>7 DEF ActiveAt
<1>10. ActiveAt(st, a)' \subseteq ActiveAt(st, a)
  BY <1>3, <1>7 DEF ActiveAt
<1>11. \A x \in Students : x # st => Where(x)' = Where(x)
  BY <1>8 DEF Where
<1>12. \/ Where(st)' = (Where(st) \ {a}) \cup {s}
       \/ Where(st)' = Where(st) \cup {s}
  <2>1. \A w \in Schools \ {a, s} : w \in Where(st)' <=> w \in Where(st)
    BY <1>3, <1>8 DEF Where
  <2>2. s \in Where(st)' /\ Where(st) \subseteq Schools /\ Where(st)' \subseteq Schools
    BY <1>9 DEF Where
  <2>3. a \in Where(st)' => a \in Where(st)
    BY <1>10 DEF Where
  <2>4. QED
    BY <2>1, <2>2, <2>3, <1>3
<1>13. C!Claim(st, a, s)
  <2> DEFINE W == [x \in Students |-> Where(x)]
             R == [x \in Students |-> Records(x)]
             I == [x \in Students |-> Issuers(x)]
  <2>1. \/ W' = [W EXCEPT ![st] = (W[st] \ {a}) \cup {s}]
        \/ W' = [W EXCEPT ![st] = W[st] \cup {s}]
    BY <1>3, <1>11, <1>12
  <2>2. R' = [R EXCEPT ![st] = R[st] \cup {s}]
    BY <1>3, <1>6
  <2>3. I' = I /\ a \in I[st]
    BY <1>3, <1>4, <1>5
  <2>4. QED
    BY <1>3, <2>1, <2>2, <2>3, Zenon DEF C!Claim, Where, Records, Issuers
<1>14. QED
  BY <1>3, <1>13 DEF C!Next

LEMMA StepMaps == CInv /\ [Next]_vars => [C!Next]_(C!vars)
<1> SUFFICES ASSUME CInv, [Next]_vars PROVE C!Next \/ UNCHANGED C!vars
  BY DEF C!vars
<1>1. CASE UNCHANGED vars
  BY <1>1, StutterMaps DEF vars, Stutters, SameCodes
<1>2. CASE Next
  BY <1>2, Effect, StutterMaps, AddsMaps, MoveMaps
<1>3. QED
  BY <1>1, <1>2

\* Whatever the handlers read before another request's write: a student
\* leaves a school only by arriving at another one, with a code issued by a
\* school that had enrolled the student.
THEOREM TransfersImplementCustody == Spec => ImplementsCustody
  BY InitCInv, StepCInv, InitMaps, StepMaps, PTL DEF Spec, ImplementsCustody, C!Spec
-----------------------------------------------------------------------------
(* Handlers that do not overlap.                                           *)

\* A closure code that can still be entered.
Unspent(t) ==
  transfers[t].kind = "SCHOOL_CLOSURE" /\ transfers[t].tac /\ transfers[t].usedBy = NoSchool

SameOrigin(t, u) ==
  transfers[t].student = transfers[u].student /\ transfers[t].from = transfers[u].from

\* A claimed code is COMPLETED, what enrolled a student is claimed, and the
\* query of ensureClosureTac, which looks at the status, misses no unspent code.
CodesOK ==
  /\ \A t \in Tids : transfers[t].usedBy # NoSchool => transfers[t].status = "COMPLETED"
  /\ \A i \in DOMAIN enrollments :
       enrollments[i].via # 0 => transfers[enrollments[i].via].usedBy # NoSchool
  /\ TacOneTimeUse
  /\ \A t \in Tids : Unspent(t) => Open(t)
  /\ \A t, u \in Tids : Unspent(t) /\ Unspent(u) /\ SameOrigin(t, u) => t = u

\* What the handler under way has checked still holds.
CheckedOK(q) ==
  /\ q.op \in {"initiate", "completeData", "completeTx", "reject", "revoke"}
       => transfers[q.tid].usedBy = NoSchool
  /\ q.op = "initiate" => transfers[q.tid].tac
  /\ q.op \in {"ask", "job"} /\ q.student # NoStudent =>
       \A t \in Tids : Unspent(t) =>
         transfers[t].student # q.student \/ transfers[t].from # q.school

LoneInv ==
  /\ IInv
  /\ OneAtATime
  /\ CodesOK
  /\ \A r \in Requests : CheckedOK(req[r])

\* An unspent code is what ensureClosureTac looks for.
LEMMA LoneCodes == LoneInv => TacOneTimeUse /\ OneClosureCode
<1> SUFFICES ASSUME LoneInv PROVE OneClosureCode
  BY DEF LoneInv, CodesOK
<1>1. \A t \in Tids : \A st \in Students, s \in Schools :
        ClosureCode(t, st, s) /\ transfers[t].tac =>
          Unspent(t) /\ transfers[t].student = st /\ transfers[t].from = s
  BY DEF ClosureCode, Used, Unspent
<1>2. QED
  BY <1>1 DEF LoneInv, CodesOK, SameOrigin, OneClosureCode

\* Rewriting an unclaimed code, which stays so.
LEMMA LoneRewrite ==
  ASSUME LoneInv, NEW t \in Tids, NEW row \in Transfer, SetTransfer(t, row),
         enrollments' = enrollments,
         row.student = transfers[t].student, row.from = transfers[t].from,
         row.kind = transfers[t].kind,
         row.usedBy = transfers[t].usedBy, row.tac => transfers[t].tac,
         row.usedBy # NoSchool => row.status = transfers[t].status,
         row.kind = "SCHOOL_CLOSURE" /\ row.tac =>
           row.status \in {"PENDING", "APPROVED", transfers[t].status}
  PROVE  CodesOK'
<1>1. /\ DOMAIN transfers' = DOMAIN transfers
      /\ \A u \in DOMAIN transfers :
           transfers'[u] = IF u = t THEN row ELSE transfers[u]
  BY RewriteRow DEF LoneInv, IInv, TypeOK, SetTransfer
<1>2. \A u \in DOMAIN transfers :
        /\ transfers'[u].usedBy = transfers[u].usedBy
        /\ transfers'[u].student = transfers[u].student
        /\ transfers'[u].from = transfers[u].from
        /\ transfers'[u].kind = transfers[u].kind
        /\ transfers'[u].tac => transfers[u].tac
  BY <1>1
<1>3. \A u \in Tids' : transfers'[u].usedBy # NoSchool => transfers'[u].status = "COMPLETED"
  BY <1>1 DEF LoneInv, CodesOK
<1>4. \A i \in DOMAIN enrollments' :
        enrollments'[i].via # 0 => transfers'[enrollments'[i].via].usedBy # NoSchool
  BY <1>2 DEF LoneInv, CodesOK, IInv, ChainOfCustody
<1>5. TacOneTimeUse'
  BY DEF LoneInv, CodesOK, TacOneTimeUse
<1>6. \A u \in Tids' : Unspent(u)' => Unspent(u)
  BY <1>1, <1>2 DEF Unspent
<1>7. \A u \in Tids' : Unspent(u)' => Open(u)'
  BY <1>1, <1>6 DEF LoneInv, CodesOK, Unspent, Open
<1>8. \A u, v \in Tids' : Unspent(u)' /\ Unspent(v)' /\ SameOrigin(u, v)' => u = v
  BY <1>1, <1>2, <1>6 DEF LoneInv, CodesOK, SameOrigin
<1>9. QED
  BY <1>3, <1>4, <1>5, <1>7, <1>8 DEF CodesOK

\* Adding a code: a closure code only when no other can be entered.
LEMMA LoneAdd ==
  ASSUME LoneInv, NEW st \in Students, NEW s \in Schools, NEW k \in Kinds,
         CreateTransfer(st, s, k),
         k = "SCHOOL_CLOSURE" =>
           \A t \in Tids : Unspent(t) =>
             transfers[t].student # st \/ transfers[t].from # s
  PROVE  CodesOK'
<1> DEFINE new == NewTransfer(st, s, k)
           last == Len(transfers) + 1
<1>1. /\ new \in Transfer /\ new.student = st /\ new.from = s /\ new.kind = k
      /\ new.status = "PENDING" /\ new.usedBy = NoSchool
  BY DEF NewTransfer, Transfer, Statuses
<1>2. /\ DOMAIN transfers' = DOMAIN transfers \cup {last}
      /\ last \notin DOMAIN transfers
      /\ \A u \in DOMAIN transfers : transfers'[u] = transfers[u]
      /\ transfers'[last] = new
  BY <1>1, AddRow DEF LoneInv, IInv, TypeOK, CreateTransfer
<1>3. enrollments' = enrollments
  BY DEF CreateTransfer
<1> HIDE DEF new, last
<1>4. \A u \in Tids' : transfers'[u].usedBy # NoSchool => transfers'[u].status = "COMPLETED"
  BY <1>1, <1>2 DEF LoneInv, CodesOK
<1>5. \A i \in DOMAIN enrollments' :
        enrollments'[i].via # 0 => transfers'[enrollments'[i].via].usedBy # NoSchool
  BY <1>2, <1>3 DEF LoneInv, CodesOK, IInv, ChainOfCustody
<1>6. TacOneTimeUse'
  BY <1>3 DEF LoneInv, CodesOK, TacOneTimeUse
<1>7. \A u \in DOMAIN transfers : Unspent(u)' = Unspent(u) /\ Open(u)' = Open(u)
  BY <1>2 DEF Unspent, Open
<1>8. \A u \in Tids' : Unspent(u)' => Open(u)'
  BY <1>1, <1>2, <1>7 DEF LoneInv, CodesOK, Open
<1>9. ASSUME NEW u \in Tids', NEW v \in Tids', Unspent(u)', Unspent(v)', SameOrigin(u, v)'
      PROVE  u = v
  <2>1. CASE u \in DOMAIN transfers /\ v \in DOMAIN transfers
    BY <2>1, <1>2, <1>7, <1>9 DEF LoneInv, CodesOK, SameOrigin
  <2>2. CASE u = last /\ v \in DOMAIN transfers
    BY <2>2, <1>1, <1>2, <1>7, <1>9 DEF SameOrigin, Unspent
  <2>3. CASE v = last /\ u \in DOMAIN transfers
    BY <2>3, <1>1, <1>2, <1>7, <1>9 DEF SameOrigin, Unspent
  <2>4. QED
    BY <1>2, <2>1, <2>2, <2>3
<1>10. QED
  BY <1>4, <1>5, <1>6, <1>8, <1>9 DEF CodesOK

\* Claiming a code nobody has claimed.
LEMMA LoneClaim ==
  ASSUME LoneInv, NEW r \in Requests, CompleteTx(r)
  PROVE  CodesOK'
<1> DEFINE t == req[r].tid
           s == req[r].school
<1>1. /\ t \in Tids /\ s \in Schools /\ transfers[t].usedBy = NoSchool
      /\ req[r].src \in AtSource(t) /\ req[r].term \in Terms \cup {NoTerm}
  BY DEF LoneInv, IInv, RequestOK, CheckedOK, CompleteTx, TypeOK, Request
<1>2. transfers[t] \in Transfer
  BY <1>1, ElementOfSeq, LenProperties DEF LoneInv, IInv, TypeOK
<1>3. /\ Claimed(t, s) \in Transfer
      /\ Claimed(t, s).usedBy = s /\ Claimed(t, s).status = "COMPLETED"
  BY <1>1, <1>2 DEF Claimed, Transfer, Statuses
<1>4. /\ DOMAIN transfers' = DOMAIN transfers
      /\ \A u \in DOMAIN transfers :
           transfers'[u] = IF u = t THEN Claimed(t, s) ELSE transfers[u]
  BY <1>1, <1>3, RewriteRow DEF LoneInv, IInv, TypeOK, SetTransfer, CompleteTx
<1>5. PICK t1 \in Tids, s1 \in Schools, src \in DOMAIN enrollments, last \in Nat :
        t1 = req[r].tid /\ Moves(t1, s1, src, last)
  BY MoveEffect DEF LoneInv
<1>6. t1 = t
  BY <1>5
<1> HIDE DEF t, s
<1>7. \A u \in Tids' : transfers'[u].usedBy # NoSchool => transfers'[u].status = "COMPLETED"
  BY <1>3, <1>4 DEF LoneInv, CodesOK
<1>8. \A i \in DOMAIN enrollments : enrollments[i].via # t
  BY <1>1, LenProperties DEF LoneInv, CodesOK, IInv, TypeOK
<1>9. \A i \in DOMAIN enrollments' :
        enrollments'[i].via # 0 => transfers'[enrollments'[i].via].usedBy # NoSchool
  BY <1>1, <1>3, <1>4, <1>5, <1>6, NoneAssumption
     DEF LoneInv, CodesOK, IInv, ChainOfCustody, Moves
<1>10. TacOneTimeUse'
  BY <1>5, <1>6, <1>8 DEF LoneInv, CodesOK, TacOneTimeUse, Moves
<1>11. \A u \in Tids' : Unspent(u)' => u # t /\ Unspent(u) /\ transfers'[u] = transfers[u]
  BY <1>1, <1>3, <1>4, NoneAssumption DEF Unspent
<1>12. \A u \in Tids' : Unspent(u)' => Open(u)'
  BY <1>4, <1>11 DEF LoneInv, CodesOK, Open
<1>13. \A u, v \in Tids' : Unspent(u)' /\ Unspent(v)' /\ SameOrigin(u, v)' => u = v
  BY <1>4, <1>11 DEF LoneInv, CodesOK, SameOrigin
<1>14. QED
  BY <1>7, <1>9, <1>10, <1>12, <1>13 DEF CodesOK

\* The handler under way moves on, or ends: there is no other.
LEMMA LoneRequest ==
  ASSUME LoneInv, IInv', OneAtATime', CodesOK', NEW r \in Requests,
         req[r].op # "idle" \/ req'[r].op # "idle",
         \A p \in Requests \ {r} : req'[p] = req[p],
         CheckedOK(req[r])'
  PROVE  LoneInv'
<1>1. \A p \in Requests \ {r} : req'[p].op = "idle"
  BY DEF LoneInv, OneAtATime
<1>2. \A p \in Requests : CheckedOK(req[p])'
  BY <1>1 DEF CheckedOK
<1>3. QED
  BY <1>2 DEF LoneInv

LEMMA LoneFinish ==
  ASSUME LoneInv, IInv', OneAtATime', CodesOK', NEW r \in Requests,
         req[r].op # "idle", Finish(r)
  PROVE  LoneInv'
<1>1. req'[r] = Idle /\ \A p \in Requests \ {r} : req'[p] = req[p]
  BY DEF Finish, LoneInv, IInv, TypeOK
<1>2. CheckedOK(req[r])'
  BY <1>1 DEF CheckedOK, Idle
<1>3. QED
  BY <1>1, <1>2, LoneRequest

\* No table changes, and the handler goes on with x.
LEMMA LoneRead ==
  ASSUME LoneInv, IInv', OneAtATime', UNCHANGED tableVars, NEW r \in Requests,
         NEW x, req' = [req EXCEPT ![r] = x], x.op # "idle", CheckedOK(x)
  PROVE  LoneInv'
<1>1. CodesOK'
  BY DEF LoneInv, CodesOK, TacOneTimeUse, Unspent, Open, SameOrigin
<1>2. req'[r] = x /\ \A p \in Requests \ {r} : req'[p] = req[p]
  BY DEF LoneInv, IInv, TypeOK
<1>3. CheckedOK(req[r])'
  BY <1>2 DEF CheckedOK, Unspent
<1>4. QED
  BY <1>1, <1>2, <1>3, LoneRequest

\* The first step of a handler about one code.
LEMMA LoneProceed ==
  ASSUME LoneInv, IInv', OneAtATime', UNCHANGED tableVars, NEW r \in Requests,
         NEW s \in Schools, NEW t \in Tids,
         NEW op \in {"initiate", "completeData", "reject", "revoke"},
         Proceed(r, op, s, t), transfers[t].usedBy = NoSchool,
         op = "initiate" => transfers[t].tac
  PROVE  LoneInv'
<1> DEFINE x == [Idle EXCEPT !.op = op, !.school = s, !.tid = t]
<1>1. x.op = op /\ x.tid = t /\ x.student = NoStudent
  BY DEF Idle
<1>2. CheckedOK(x)
  BY <1>1 DEF CheckedOK
<1>3. req' = [req EXCEPT ![r] = x]
  BY DEF Proceed
<1> HIDE DEF x
<1>4. QED
  BY <1>1, <1>2, <1>3, LoneRead

\* A code that is not COMPLETED is not claimed.
LEMMA NotClaimed ==
  ASSUME LoneInv, NEW t \in Tids, transfers[t].status # "COMPLETED"
  PROVE  transfers[t].usedBy = NoSchool
  BY DEF LoneInv, CodesOK

\* The first steps of the handlers.
LEMMA LoneReads ==
  ASSUME LoneInv, IInv', OneAtATime', NEW r \in Requests, Reads(r)
  PROVE  LoneInv'
<1>1. ASSUME NEW s \in Schools, NEW st \in Students, GenerateRead(r, s, st) PROVE LoneInv'
  <2> DEFINE x == [Idle EXCEPT !.op = "generate", !.school = s, !.student = st]
  <2>1. x.op = "generate"
    BY DEF Idle
  <2>2. CheckedOK(x)
    BY <2>1 DEF CheckedOK
  <2>3. QED
    BY <1>1, <2>1, <2>2, LoneRead DEF GenerateRead
<1>2. ASSUME NEW s \in Schools, NEW st \in Students, ClosureRequest(r, s, st) PROVE LoneInv'
  <2> DEFINE x == [Idle EXCEPT !.op = "ask", !.school = s, !.todo = {st}]
  <2>1. x.op = "ask" /\ x.student = NoStudent
    BY DEF Idle
  <2>2. CheckedOK(x)
    BY <2>1 DEF CheckedOK
  <2>3. QED
    BY <1>2, <2>1, <2>2, LoneRead DEF ClosureRequest
<1>3. ASSUME NEW s \in Schools, NEW t \in Tids, InitiateRead(r, s, t) PROVE LoneInv'
  BY <1>3, LoneProceed DEF InitiateRead, MayEnter, Used
<1>4. ASSUME NEW s \in Schools, NEW t \in Tids, CompleteRead(r, s, t) PROVE LoneInv'
  BY <1>4, NotClaimed, LoneProceed DEF CompleteRead
<1>5. ASSUME NEW s \in Schools, NEW t \in Tids, RejectRead(r, s, t) PROVE LoneInv'
  BY <1>5, NotClaimed, LoneProceed DEF RejectRead
<1>6. ASSUME NEW s \in Schools, NEW t \in Tids, RevokeRead(r, s, t) PROVE LoneInv'
  BY <1>6, LoneProceed DEF RevokeRead, MayRevoke, Used
<1>7. ASSUME NEW s \in Schools, IssueStart(r, s) PROVE LoneInv'
  <2> DEFINE x == [Idle EXCEPT !.op = "job", !.school = s,
                               !.todo = {st \in Students : ActiveAt(st, s) # {}}]
  <2>1. x.op = "job" /\ x.student = NoStudent
    BY DEF Idle
  <2>2. CheckedOK(x)
    BY <2>1 DEF CheckedOK
  <2>3. UNCHANGED tableVars /\ req' = [req EXCEPT ![r] = x]
    BY <1>7 DEF IssueStart
  <2> HIDE DEF x
  <2>4. QED
    BY <2>1, <2>2, <2>3, LoneRead
<1>8. QED
  BY <1>1, <1>2, <1>3, <1>4, <1>5, <1>6, <1>7 DEF Reads

\* The later steps: what the handler checked has not changed since.
LEMMA LoneWrites ==
  ASSUME LoneInv, IInv', OneAtATime', NEW r \in Requests, Writes(r)
  PROVE  LoneInv'
<1> DEFINE t == req[r].tid
           s == req[r].school
           row == transfers[t]
<1>a. req[r] \in Request /\ RequestOK(req[r]) /\ CheckedOK(req[r])
  BY DEF LoneInv, IInv, TypeOK
<1>b. t \in Tids => row \in Transfer
  BY ElementOfSeq, LenProperties DEF LoneInv, IInv, TypeOK
<1>c. UNCHANGED tableVars => CodesOK'
  BY DEF LoneInv, CodesOK, TacOneTimeUse, Unspent, Open, SameOrigin
<1>1. CASE GenerateWrite(r)
  <2>1. CodesOK'
    BY <1>1, <1>a, LoneAdd DEF GenerateWrite, RequestOK, Kinds
  <2>2. QED
    BY <1>1, <2>1, LoneFinish DEF GenerateWrite
<1>2. CASE InitiateWrite(r)
  <2> DEFINE new == [row EXCEPT !.to = s, !.status = "APPROVED"]
  <2>1. t \in Tids /\ s \in Schools /\ row.usedBy = NoSchool
    BY <1>2, <1>a DEF InitiateWrite, RequestOK, CheckedOK
  <2>2. /\ new \in Transfer /\ new.student = row.student /\ new.from = row.from
        /\ new.usedBy = row.usedBy /\ new.kind = row.kind /\ new.tac = row.tac
        /\ new.status = "APPROVED"
    BY <1>b, <2>1 DEF Transfer, Statuses
  <2>3. SetTransfer(t, new) /\ enrollments' = enrollments
    BY <1>2 DEF InitiateWrite
  <2> HIDE DEF new
  <2>4. CodesOK'
    BY <2>1, <2>2, <2>3, LoneRewrite
  <2>5. QED
    BY <1>2, <2>4, LoneFinish DEF InitiateWrite
<1>3. CASE CompleteData(r)
  <2>1. UNCHANGED tableVars /\ req[r].op = "completeData"
    BY <1>3 DEF CompleteData
  <2>2. CASE Finish(r)
    BY <1>c, <2>1, <2>2, LoneFinish
  <2>3. ASSUME NEW tm \in Terms \cup {NoTerm},
               req' = [req EXCEPT ![r] =
                         [@ EXCEPT !.op = "completeTx", !.term = tm,
                                   !.src = SourceEnrollment(t)]]
        PROVE  LoneInv'
    <3> DEFINE x == [req[r] EXCEPT !.op = "completeTx", !.term = tm,
                                   !.src = SourceEnrollment(t)]
    <3>1. x.op = "completeTx" /\ x.tid = t
      BY <1>a DEF Request
    <3>2. CheckedOK(x)
      BY <1>a, <2>1, <3>1 DEF CheckedOK
    <3>3. req' = [req EXCEPT ![r] = x]
      BY <2>3
    <3> HIDE DEF x
    <3>4. QED
      BY <2>1, <3>1, <3>2, <3>3, LoneRead
  <2>4. QED
    BY <1>3, <2>2, <2>3 DEF CompleteData
<1>4. CASE CompleteTx(r)
  BY <1>4, LoneClaim, LoneFinish DEF CompleteTx
<1>5. CASE CompleteRollback(r)
  BY <1>5, <1>c, LoneFinish DEF CompleteRollback
<1>6. CASE RejectWrite(r)
  <2> DEFINE new == IF row.kind = "SCHOOL_CLOSURE"
                    THEN [row EXCEPT !.status = "PENDING", !.to = NoSchool]
                    ELSE [row EXCEPT !.status = "REJECTED"]
  <2>1. t \in Tids /\ row.usedBy = NoSchool
    BY <1>6, <1>a DEF RejectWrite, RequestOK, CheckedOK
  <2>2. /\ new \in Transfer /\ new.student = row.student /\ new.from = row.from
        /\ new.usedBy = row.usedBy /\ new.kind = row.kind /\ new.tac = row.tac
        /\ new.kind = "SCHOOL_CLOSURE" => new.status = "PENDING"
    BY <1>b, <2>1 DEF Transfer, Statuses
  <2>3. SetTransfer(t, new) /\ enrollments' = enrollments
    BY <1>6 DEF RejectWrite
  <2> HIDE DEF new
  <2>4. CodesOK'
    BY <2>1, <2>2, <2>3, LoneRewrite
  <2>5. QED
    BY <1>6, <2>4, LoneFinish DEF RejectWrite
<1>7. CASE RevokeWrite(r)
  <2> DEFINE new == [row EXCEPT !.tac = FALSE, !.expired = FALSE, !.status = "CANCELLED"]
  <2>1. t \in Tids /\ row.usedBy = NoSchool
    BY <1>7, <1>a DEF RevokeWrite, RequestOK, CheckedOK
  <2>2. /\ new \in Transfer /\ new.student = row.student /\ new.from = row.from
        /\ new.usedBy = row.usedBy /\ new.kind = row.kind /\ new.tac = FALSE
    BY <1>b, <2>1 DEF Transfer, Statuses
  <2>3. SetTransfer(t, new) /\ enrollments' = enrollments
    BY <1>7 DEF RevokeWrite
  <2> HIDE DEF new
  <2>4. CodesOK'
    BY <2>1, <2>2, <2>3, LoneRewrite
  <2>5. QED
    BY <1>7, <2>4, LoneFinish DEF RevokeWrite
<1>8. ASSUME NEW st \in Students, IssueCheck(r, st) PROVE LoneInv'
  <2> DEFINE x == [req[r] EXCEPT !.todo = req[r].todo \ {st},
                                 !.student = IF HasClosureCode(st, s)
                                             THEN NoStudent ELSE st]
  <2>1. /\ x.op = req[r].op /\ x.school = s /\ x.op \in {"ask", "job"}
        /\ x.student # NoStudent => x.student = st /\ ~HasClosureCode(st, s)
    BY <1>8, <1>a DEF Request, IssueCheck, Issuing
  <2>2. ASSUME NEW u \in Tids, Unspent(u), transfers[u].student = st, transfers[u].from = s
        PROVE  HasClosureCode(st, s)
    BY <2>2 DEF LoneInv, CodesOK, Unspent, Used, ClosureCode, HasClosureCode
  <2>3. UNCHANGED tableVars /\ req' = [req EXCEPT ![r] = x]
    BY <1>8 DEF IssueCheck
  <2> HIDE DEF x
  <2>4. CheckedOK(x)
    BY <2>1, <2>2 DEF CheckedOK
  <2>5. QED
    BY <2>1, <2>3, <2>4, LoneRead
<1>9. CASE IssueCreate(r)
  <2> DEFINE x == [req[r] EXCEPT !.student = NoStudent]
  <2>1. req[r].student \in Students /\ s \in Schools
    BY <1>9, <1>a DEF IssueCreate, Issuing, RequestOK, Request
  <2>2. CodesOK'
    BY <1>9, <1>a, <2>1, LoneAdd DEF IssueCreate, Issuing, Kinds, CheckedOK
  <2>3. x.op = req[r].op /\ x.op \in {"ask", "job"} /\ x.student = NoStudent
    BY <1>9, <1>a DEF IssueCreate, Issuing, Request
  <2>4. req'[r] = x /\ \A p \in Requests \ {r} : req'[p] = req[p]
    BY <1>9 DEF IssueCreate, LoneInv, IInv, TypeOK
  <2> HIDE DEF x
  <2>5. CheckedOK(req[r])'
    BY <2>3, <2>4 DEF CheckedOK
  <2>6. QED
    BY <2>2, <2>3, <2>4, <2>5, LoneRequest
<1>10. CASE IssueDone(r)
  BY <1>10, <1>c, LoneFinish DEF IssueDone, Issuing
<1>11. QED
  BY <1>1, <1>2, <1>3, <1>4, <1>5, <1>6, <1>7, <1>8, <1>9, <1>10 DEF Writes

LEMMA LoneEnvironment ==
  ASSUME LoneInv, IInv', OneAtATime', Environment
  PROVE  LoneInv'
<1>1. CASE \E t \in Tids : Expire(t)
  <2>1. PICK t \in Tids : Expire(t)
    BY <1>1
  <2> DEFINE row == [transfers[t] EXCEPT !.expired = TRUE]
  <2>2. transfers[t] \in Transfer
    BY ElementOfSeq, LenProperties DEF LoneInv, IInv, TypeOK
  <2>3. /\ row \in Transfer
        /\ row.student = transfers[t].student /\ row.from = transfers[t].from
        /\ row.usedBy = transfers[t].usedBy /\ row.kind = transfers[t].kind
        /\ row.tac = transfers[t].tac /\ row.status = transfers[t].status
    BY <2>2 DEF Transfer
  <2>4. SetTransfer(t, row) /\ enrollments' = enrollments /\ req' = req
    BY <2>1 DEF Expire
  <2>5. /\ DOMAIN transfers' = DOMAIN transfers
        /\ \A u \in DOMAIN transfers :
             transfers'[u] = IF u = t THEN row ELSE transfers[u]
    BY <2>3, <2>4, RewriteRow DEF LoneInv, IInv, TypeOK, SetTransfer
  <2> HIDE DEF row
  <2>6. CodesOK'
    BY <2>3, <2>4, LoneRewrite
  <2>7. \A u \in Tids : /\ transfers'[u].usedBy = transfers[u].usedBy
                        /\ transfers'[u].tac = transfers[u].tac
                        /\ transfers'[u].kind = transfers[u].kind
                        /\ transfers'[u].student = transfers[u].student
                        /\ transfers'[u].from = transfers[u].from
    BY <2>3, <2>5
  <2>8. ASSUME NEW r \in Requests PROVE CheckedOK(req[r])'
    <3>1. CheckedOK(req[r]) /\ RequestOK(req[r])
      BY DEF LoneInv, IInv
    <3>2. QED
      BY <3>1, <2>4, <2>5, <2>7 DEF CheckedOK, RequestOK, Unspent
  <2>9. QED
    BY <2>6, <2>8 DEF LoneInv
<1>2. CASE \E s \in Closable : Deactivate(s) \/ QueueIssue(s) \/ Reactivate(s)
  <2>1. UNCHANGED <<tableVars, req>>
    BY <1>2 DEF Deactivate, QueueIssue, Reactivate
  <2>2. QED
    BY <2>1 DEF LoneInv, CodesOK, CheckedOK, TacOneTimeUse, Unspent, Open, SameOrigin
<1>3. CASE Restart
  <2>1. UNCHANGED tableVars /\ req' = [r \in Requests |-> Idle]
    BY <1>3 DEF Restart
  <2>2. \A r \in Requests : CheckedOK(req[r])'
    BY <2>1 DEF CheckedOK, Idle
  <2>3. QED
    BY <2>1, <2>2 DEF LoneInv, CodesOK, TacOneTimeUse, Unspent, Open, SameOrigin
<1>4. QED
  BY <1>1, <1>2, <1>3 DEF Environment

LEMMA InitLoneInv == Init => LoneInv
<1> SUFFICES ASSUME Init PROVE LoneInv
  OBVIOUS
<1>1. Tids = {} /\ enrollments = Roll /\ req = [r \in Requests |-> Idle]
  BY DEF Init
<1>2. CodesOK
  BY <1>1, RollAssumption DEF CodesOK, TacOneTimeUse
<1>3. OneAtATime /\ \A r \in Requests : CheckedOK(req[r])
  BY <1>1 DEF OneAtATime, CheckedOK, Idle
<1>4. QED
  BY <1>2, <1>3, InitIInv DEF LoneInv

LEMMA StepLoneInv == LoneInv /\ OneAtATime' /\ [Next]_vars => LoneInv'
<1> SUFFICES ASSUME LoneInv, OneAtATime', [Next]_vars PROVE LoneInv'
  OBVIOUS
<1>1. CASE UNCHANGED vars
  BY <1>1, StepIInv
     DEF vars, LoneInv, OneAtATime, CodesOK, CheckedOK, TacOneTimeUse, Unspent, Open,
         SameOrigin
<1>2. CASE Next
  <2>1. IInv'
    BY <1>2, StepIInv DEF LoneInv
  <2>2. QED
    BY <1>2, <2>1, LoneReads, LoneWrites, LoneEnvironment DEF Next
<1>3. QED
  BY <1>1, <1>2

\* While no two handlers have overlapped, the tables are as they left them.
LEMMA InTurnInv == InTurnSpec => [](alone \in BOOLEAN /\ (alone => LoneInv))
<1> DEFINE AInv == alone \in BOOLEAN /\ (alone => LoneInv)
<1>1. InTurnInit => AInv
  BY InitLoneInv DEF InTurnInit
<1>2. AInv /\ [InTurnNext]_<<vars, alone>> => AInv'
  <2> SUFFICES ASSUME AInv, [InTurnNext]_<<vars, alone>> PROVE AInv'
    OBVIOUS
  <2>1. CASE InTurnNext
    BY <2>1, StepLoneInv DEF InTurnNext
  <2>2. CASE UNCHANGED <<vars, alone>>
    <3>1. UNCHANGED vars /\ alone' = alone
      BY <2>2
    <3>2. LoneInv => OneAtATime'
      BY <3>1 DEF vars, LoneInv, OneAtATime
    <3>3. QED
      BY <3>1, <3>2, StepLoneInv
  <2>3. QED
    BY <2>1, <2>2
<1>3. QED
  BY <1>1, <1>2, PTL DEF InTurnSpec

\* As long as handlers do not overlap, a code is claimed at most once: a
\* claimed code is COMPLETED, which completeTransfer and rejectTransfer refuse,
\* and initiateTransfer and revokeTac refuse one that is used.
THEOREM CodesUsedOnce == InTurnSpec => []CodeUsedOnceInTurn
<1>1. (alone => LoneInv) => CodeUsedOnceInTurn
  BY LoneCodes DEF CodeUsedOnceInTurn
<1>2. QED
  BY <1>1, InTurnInv, PTL

\* And a student never holds two closure codes of one school that could still
\* be entered, however often the issuing job is cut off and run again.
THEOREM ClosureCodesUnique == InTurnSpec => []ClosureCodeOnceInTurn
<1>1. (alone => LoneInv) => ClosureCodeOnceInTurn
  BY LoneCodes DEF ClosureCodeOnceInTurn
<1>2. QED
  BY <1>1, InTurnInv, PTL
=============================================================================
