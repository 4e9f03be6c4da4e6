----------------------------- MODULE Year_proofs -----------------------------
(***************************************************************************)
(* Proofs about the school year.  Sessions, for any number of students,    *)
(* requests, sessions and terms: the types, that no student drops off the  *)
(* roll, and, while requests come one at a time, that one session and one  *)
(* term are active and a migration leaves nobody behind.  SchemeWeeks, for *)
(* any calendar, plans and number of teachers: the types, that the stored  *)
(* weeks cover the calendar, that a taught week keeps its place and that   *)
(* none is marked before its dates.                                        *)
(***************************************************************************)
EXTENDS Sessions, SchemeWeeks, TableFacts, FiniteSetTheorems

\* What a handler in flight has read stays true of the tables.
RequestOK(q) ==
  /\ \A e \in q.todo : e[2] \in DOMAIN roll[e[1]]
  /\ q.op \in {"insert", "leave"} =>
       q.student \in Students /\ q.row \in DOMAIN roll[q.student]
  /\ q.op = "leave" => q.row < Len(roll[q.student])
  /\ q.op = "admit" => q.student \in Students
  /\ q.op = "retire" => q.session \in SessionIds
  /\ q.op \in {"create", "retire"} => q.new
  /\ q.new => q.number \in Numbers

\* The inductive invariant.
IInv ==
  /\ TypeOK
  /\ \A r \in Requests : RequestOK(req[r])
  /\ NeverDropped
-----------------------------------------------------------------------------
(* The newest of a set of terms is one of them.                            *)

LEMMA NewestIn ==
  ASSUME NEW T \in SUBSET Terms
  PROVE  Newest(T) \in T \cup {NoTerm}
<1>1. CASE T = {}
  BY <1>1 DEF Newest
<1>2. CASE T # {}
  <2> DEFINE S == {t[1] : t \in T}
  <2>1. S \in SUBSET (1 .. MaxSessions) /\ S # {}
    BY <1>2 DEF Terms, SessionIds
  <2>2. PICK s \in S : \A u \in S : u <= s
    BY <2>1, NewestExists, SessionsAssumption
  <2> DEFINE N == {t[2] : t \in {u \in T : u[1] = s}}
  <2>3. N \in SUBSET (1 .. MaxNumber) /\ N # {}
    BY DEF Terms, Numbers
  <2>4. PICK n \in N : \A u \in N : u <= n
    BY <2>3, NewestExists, SessionsAssumption
  <2>5. PICK t \in T : t[1] = s /\ t[2] = n
    OBVIOUS
  <2>6. ASSUME NEW u \in T \ {t} PROVE Later(t, u)
    <3>1. /\ t \in Nat \X Nat /\ u \in Nat \X Nat
          /\ t = <<t[1], t[2]>> /\ u = <<u[1], u[2]>>
      BY DEF Terms, SessionIds, Numbers
    <3>2. u[1] <= s /\ (u[1] = s => u[2] <= n)
      BY <2>2, <2>4
    <3>3. QED
      BY <3>1, <3>2, <2>5 DEF Later
  <2>7. QED
    BY <1>2, <2>5, <2>6 DEF Newest
<1>3. QED
  BY <1>1, <1>2
-----------------------------------------------------------------------------
(* Steps that leave the enrollments alone, and the two that do not.        *)

TablesOK ==
  /\ sessions' \in [SessionIds -> SessionStatus]
  /\ terms' \in [Terms -> TermStatus]
  /\ started' \in Nat
  /\ calm' \in BOOLEAN

LEMMA KeepRoll ==
  ASSUME IInv, NEW r \in Requests, NEW q \in SessionRequest, RequestOK(q), TablesOK,
         req' = [req EXCEPT ![r] = q], roll' = roll
  PROVE  IInv'
<1>1. req' \in [Requests -> SessionRequest]
  BY DEF IInv, TypeOK
<1>2. \A p \in Requests : req'[p] = IF p = r THEN q ELSE req[p]
  BY DEF IInv, TypeOK
<1>3. TypeOK'
  BY <1>1 DEF IInv, TypeOK, TablesOK
<1>4. ASSUME NEW p \in Requests PROVE RequestOK(req[p])'
  BY <1>2 DEF IInv, RequestOK
<1>5. NeverDropped'
  BY DEF IInv, NeverDropped
<1>6. QED
  BY <1>3, <1>4, <1>5 DEF IInv

\* The enrollments of st become rows, which are no fewer; the handler of r
\* goes on as q.
LEMMA ChangeRoll ==
  ASSUME IInv, NEW r \in Requests, NEW q \in SessionRequest, NEW st \in Students,
         NEW rows \in Seq(Enrollment), SetRoll(st, rows),
         req' = [req EXCEPT ![r] = q], RequestOK(q)',
         Len(roll[st]) <= Len(rows),
         \A i \in DOMAIN rows : ~rows[i].active =>
           i < Len(rows) \/ Graduates(rows[i].level)
  PROVE  IInv'
<1>1. req' \in [Requests -> SessionRequest]
  BY DEF IInv, TypeOK
<1>2. \A p \in Requests : req'[p] = IF p = r THEN q ELSE req[p]
  BY DEF IInv, TypeOK
<1>3. /\ roll' \in [Students -> Seq(Enrollment)]
      /\ \A u \in Students : roll'[u] = IF u = st THEN rows ELSE roll[u]
  BY DEF IInv, TypeOK, SetRoll
<1>4. TypeOK'
  BY <1>1, <1>3 DEF IInv, TypeOK, SetRoll
<1>5. \A u \in Students : /\ Len(roll[u]) <= Len(roll'[u])
                          /\ Len(roll[u]) \in Nat /\ Len(roll'[u]) \in Nat
                          /\ DOMAIN roll[u] = 1 .. Len(roll[u])
                          /\ DOMAIN roll'[u] = 1 .. Len(roll'[u])
  <2>1. ASSUME NEW u \in Students
        PROVE  roll[u] \in Seq(Enrollment) /\ roll'[u] \in Seq(Enrollment)
    BY <1>3 DEF IInv, TypeOK
  <2>2. QED
    BY <1>3, <2>1, LenProperties
<1>6. ASSUME NEW p \in Requests PROVE RequestOK(req[p])'
  <2>1. CASE p = r
    BY <1>2, <2>1
  <2>2. CASE p # r
    <3>1. req'[p] = req[p] /\ RequestOK(req[p]) /\ req[p] \in SessionRequest
      BY <1>2, <2>2 DEF IInv, TypeOK
    <3>2. \A e \in req[p].todo : e[1] \in Students
      BY <3>1 DEF SessionRequest
    <3>3. req[p].row \in Nat
      BY <3>1 DEF SessionRequest
    <3>4. QED
      BY <3>1, <3>2, <3>3, <1>5 DEF RequestOK, SetRoll
  <2>3. QED
    BY <2>1, <2>2
<1>7. NeverDropped'
  BY <1>3 DEF IInv, NeverDropped, Graduates
<1>8. QED
  BY <1>4, <1>6, <1>7 DEF IInv
-----------------------------------------------------------------------------
(* One lemma for each kind of step.                                        *)

LEMMA IdleOK == Idle \in SessionRequest /\ RequestOK(Idle)
<1>1. Idle \in SessionRequest
  BY SessionsAssumption DEF Idle, SessionRequest, Ops
<1>2. QED
  BY <1>1 DEF Idle, RequestOK

\* A request comes in.
LEMMA BeginStep ==
  ASSUME IInv, NEW r \in Requests, NEW q \in SessionRequest, NEW b \in BOOLEAN,
         RequestOK(q), Begin(r, q, b)
  PROVE  IInv'
<1>1. started' \in Nat /\ sessions' = sessions /\ terms' = terms
  BY DEF Begin, IInv, TypeOK
<1>2. calm' \in BOOLEAN
  BY Zenon DEF Begin
<1>3. TablesOK
  BY <1>1, <1>2 DEF TablesOK, IInv, TypeOK
<1>4. QED
  BY <1>3, KeepRoll DEF Begin

\* The handler of r goes on at op, with the rest of what it read.
LEMMA GotoStep ==
  ASSUME IInv, NEW r \in Requests, NEW op \in Ops, Goto(r, op), TablesOK,
         roll' = roll, op \notin {"insert", "leave", "admit", "retire"},
         op = "create" => req[r].new
  PROVE  IInv'
<1> DEFINE q == [req[r] EXCEPT !.op = op]
<1>1. q \in SessionRequest /\ RequestOK(req[r])
  BY DEF IInv, TypeOK, SessionRequest
<1>2. RequestOK(q)
  BY <1>1 DEF RequestOK, IInv, TypeOK, SessionRequest
<1>3. req' = [req EXCEPT ![r] = q]
  BY DEF Goto
<1>4. QED
  BY <1>1, <1>2, <1>3, KeepRoll

LEMMA FinishStep ==
  ASSUME IInv, NEW r \in Requests, Finish(r), TablesOK, roll' = roll
  PROVE  IInv'
  BY IdleOK, KeepRoll DEF Finish

LEMMA OnlyReqTables ==
  ASSUME IInv, OnlyReq PROVE TablesOK /\ roll' = roll
  BY DEF OnlyReq, TablesOK, IInv, TypeOK

LEMMA SetSessionTables ==
  ASSUME IInv, NEW s, NEW v \in SessionStatus, SetSession(s, v)
  PROVE  TablesOK /\ roll' = roll
  BY DEF SetSession, TablesOK, IInv, TypeOK

LEMMA SetTermsTables ==
  ASSUME IInv, NEW T, NEW v \in TermStatus, SetTerms(T, v)
  PROVE  TablesOK /\ roll' = roll
  BY DEF SetTerms, TablesOK, IInv, TypeOK
-----------------------------------------------------------------------------
LEMMA ArriveStep ==
  ASSUME IInv, NEW r \in Requests, Receive(r)
  PROVE  IInv'
<1>1. ASSUME NEW n \in 1 .. MaxNumber, NEW c \in BOOLEAN, StartSession(r, n, c)
      PROVE  IInv'
  <2> DEFINE rec == [Idle EXCEPT !.new = TRUE, !.number = n, !.carry = c]
  <2>1. n \in Nat /\ n \in Numbers
    BY SessionsAssumption DEF Numbers
  <2>2. /\ [rec EXCEPT !.op = "create"] \in SessionRequest
        /\ RequestOK([rec EXCEPT !.op = "create"])
    BY <2>1, SessionsAssumption DEF Idle, SessionRequest, Ops, RequestOK
  <2>3. ASSUME NEW s \in SessionIds
        PROVE  /\ [rec EXCEPT !.op = "count", !.session = s] \in SessionRequest
               /\ RequestOK([rec EXCEPT !.op = "count", !.session = s])
    <3>1. s \in Nat
      BY SessionsAssumption DEF SessionIds
    <3>2. QED
      BY <2>1, <3>1, SessionsAssumption DEF Idle, SessionRequest, Ops, RequestOK
  <2>4. QED
    BY <1>1, <2>2, <2>3, BeginStep DEF StartSession, ActiveSessions
<1>2. ASSUME NEW t \in Terms, StartTerm(r, t) \/ Reactivate(r, t)
      PROVE  IInv'
  <2>1. t[1] \in Nat
    BY DEF Terms, SessionIds
  <2>2. Newest({u \in ActiveTerms \ {t} : u[1] = t[1]}) \in Terms \cup {NoTerm}
    BY NewestIn DEF ActiveTerms
  <2> DEFINE b == \A s \in Known : s <= t[1]
             q1 == [Idle EXCEPT !.op = "activate", !.term = t, !.carry = TRUE,
                      !.prev = Newest({u \in ActiveTerms \ {t} : u[1] = t[1]})]
             q2 == [Idle EXCEPT !.op = "endSiblings", !.term = t, !.session = t[1]]
  <2>3. q1 \in SessionRequest /\ RequestOK(q1)
    BY <2>2, SessionsAssumption DEF Idle, SessionRequest, Ops, RequestOK
  <2>4. q2 \in SessionRequest /\ RequestOK(q2)
    BY <2>1, SessionsAssumption DEF Idle, SessionRequest, Ops, RequestOK
  <2>5. b \in BOOLEAN
    OBVIOUS
  <2>6. CASE StartTerm(r, t)
    <3>1. Begin(r, q1, b)
      BY <2>6 DEF StartTerm
    <3>2. QED
      BY <3>1, <2>3, <2>5, BeginStep
  <2>7. CASE Reactivate(r, t)
    <3>1. Begin(r, q2, b)
      BY <2>7 DEF Reactivate
    <3>2. QED
      BY <3>1, <2>4, <2>5, BeginStep
  <2>8. QED
    BY <1>2, <2>6, <2>7
<1>3. ASSUME NEW t \in Terms, NEW c \in BOOLEAN, Migrate(r, t, c)
      PROVE  IInv'
  <2> DEFINE before == {u \in Terms : u[1] = t[1] /\ u[2] < t[2] /\ terms[u] # "none"}
             rec == [Idle EXCEPT !.term = t, !.carry = c]
             q1 == [rec EXCEPT !.op = "select", !.prev = Newest(before)]
             q2 == [rec EXCEPT !.op = "previous"]
  <2>1. Newest(before) \in Terms \cup {NoTerm}
    BY NewestIn
  <2>2. q1 \in SessionRequest /\ RequestOK(q1) /\ q2 \in SessionRequest /\ RequestOK(q2)
    BY <2>1, SessionsAssumption DEF Idle, SessionRequest, Ops, RequestOK
  <2>3. Begin(r, q1, TRUE) \/ Begin(r, q2, TRUE)
    BY <1>3 DEF Migrate
  <2>4. QED
    BY <2>2, <2>3, BeginStep
<1>4. CASE EndTerm(r)
  <2>1. PICK t \in Terms :
          Begin(r, [Idle EXCEPT !.op = "endTerm", !.term = t, !.session = t[1]], TRUE)
    BY <1>4 DEF EndTerm, ActiveTerms
  <2> DEFINE q == [Idle EXCEPT !.op = "endTerm", !.term = t, !.session = t[1]]
  <2>2. t[1] \in Nat
    BY DEF Terms, SessionIds
  <2>3. q \in SessionRequest /\ RequestOK(q)
    BY <2>2, SessionsAssumption DEF Idle, SessionRequest, Ops, RequestOK
  <2>4. QED
    BY <2>1, <2>3, BeginStep
<1>5. CASE EndSession(r)
  <2>1. PICK s \in SessionIds :
          Begin(r, [Idle EXCEPT !.op = "endSessionTerms", !.session = s], TRUE)
    BY <1>5 DEF EndSession, ActiveSessions
  <2> DEFINE q == [Idle EXCEPT !.op = "endSessionTerms", !.session = s]
  <2>2. q \in SessionRequest /\ RequestOK(q)
    <3>1. s \in Nat
      BY SessionsAssumption DEF SessionIds
    <3>2. QED
      BY <3>1, SessionsAssumption DEF Idle, SessionRequest, Ops, RequestOK
  <2>3. QED
    BY <2>1, <2>2, BeginStep
<1>6. ASSUME NEW st \in Students, AdmitRead(r, st)
      PROVE  IInv'
  <2>1. PICK t \in Terms \cup {NoTerm} :
          Begin(r, [Idle EXCEPT !.op = "admit", !.student = st, !.term = t], TRUE)
    BY <1>6 DEF AdmitRead
  <2> DEFINE q == [Idle EXCEPT !.op = "admit", !.student = st, !.term = t]
  <2>2. q \in SessionRequest /\ RequestOK(q)
    BY SessionsAssumption DEF Idle, SessionRequest, Ops, RequestOK
  <2>3. QED
    BY <2>1, <2>2, BeginStep
<1>7. QED
  BY <1>1, <1>2, <1>3, <1>4, <1>5, <1>6 DEF Receive
-----------------------------------------------------------------------------
(* The handlers' steps that leave the enrollments alone.                   *)

LEMMA SessionStep ==
  ASSUME IInv, NEW r \in Requests,
         \/ Count(r) \/ Close(r) \/ CreateSession(r) \/ RetireSessions(r)
         \/ AddTerm(r) \/ EndOtherTerms(r) \/ FindPrevious(r)
  PROVE  IInv'
<1>1. req[r] \in SessionRequest /\ RequestOK(req[r])
  BY DEF IInv, TypeOK
<1>2. CASE Count(r)
  <2>1. TablesOK /\ roll' = roll
    BY <1>2, OnlyReqTables DEF Count
  <2>2. Finish(r) \/ Goto(r, "close")
    BY <1>2 DEF Count
  <2>3. "close" \in Ops
    BY DEF Ops
  <2>4. QED
    BY <2>1, <2>2, <2>3, FinishStep, GotoStep
<1>3. CASE Close(r)
  <2>1. TablesOK /\ roll' = roll
    BY <1>3, SetSessionTables DEF Close, SessionStatus
  <2>2. Finish(r) \/ (req[r].new /\ Goto(r, "create"))
    BY <1>3 DEF Close
  <2>3. "create" \in Ops
    BY DEF Ops
  <2>4. QED
    BY <2>1, <2>2, <2>3, FinishStep, GotoStep
<1>4. CASE CreateSession(r)
  <2>1. PICK s \in SessionIds :
          /\ SetSession(s, "ACTIVE")
          /\ req' = [req EXCEPT ![r].op = "retire", ![r].session = s]
    BY <1>4 DEF CreateSession
  <2> DEFINE q == [req[r] EXCEPT !.op = "retire", !.session = s]
  <2>2. TablesOK /\ roll' = roll
    BY <2>1, SetSessionTables DEF SessionStatus
  <2>3. s \in Nat
    BY SessionsAssumption DEF SessionIds
  <2>4. q \in SessionRequest
    BY <1>1, <2>3 DEF SessionRequest, Ops
  <2>5. req[r].op = "create"
    BY <1>4 DEF CreateSession
  <2>6. RequestOK(q)
    BY <1>1, <2>5 DEF RequestOK, SessionRequest
  <2>7. req' = [req EXCEPT ![r] = q]
    BY <2>1
  <2>8. QED
    BY <2>2, <2>4, <2>6, <2>7, KeepRoll
<1>5. CASE RetireSessions(r)
  <2>1. TablesOK /\ roll' = roll
    BY <1>5 DEF RetireSessions, TablesOK, IInv, TypeOK, SessionStatus
  <2> DEFINE q == [req[r] EXCEPT !.op = "addTerm", !.row = 1,
                                 !.term = <<req[r].session, req[r].number>>]
  <2>2. Finish(r) \/ req' = [req EXCEPT ![r] = q]
    BY <1>5 DEF RetireSessions
  <2>3. req[r].session \in SessionIds /\ req[r].number \in Numbers
    BY <1>1, <1>5 DEF RetireSessions, RequestOK
  <2>4. <<req[r].session, req[r].number>> \in Terms
    BY <2>3 DEF Terms
  <2>5. q \in SessionRequest
    BY <1>1, <2>4 DEF SessionRequest, Ops
  <2>6. RequestOK(q)
    BY <1>1 DEF RequestOK, SessionRequest
  <2>7. QED
    BY <2>1, <2>2, <2>5, <2>6, KeepRoll, FinishStep
<1>6. CASE AddTerm(r)
  <2> DEFINE t == <<req[r].session, req[r].row>>
             q1 == [req[r] EXCEPT !.row = @ + 1]
             q2 == [req[r] EXCEPT !.op = "endTerms", !.row = 0]
  <2>1. req[r].op = "addTerm"
    BY <1>6 DEF AddTerm
  <2>2. q1 \in SessionRequest /\ q2 \in SessionRequest
    <3>1. req[r].row \in Nat
      BY <1>1 DEF SessionRequest
    <3>2. req[r].row + 1 \in Nat
      BY <3>1
    <3>3. q1 \in SessionRequest
      BY <1>1, <3>2 DEF SessionRequest
    <3>4. q2 \in SessionRequest
      BY <1>1 DEF SessionRequest, Ops
    <3>5. QED
      BY <3>3, <3>4
  <2>3. RequestOK(q1) /\ RequestOK(q2)
    BY <1>1, <2>1 DEF RequestOK, SessionRequest
  <2>4. CASE Finish(r) /\ OnlyReq
    BY <2>4, FinishStep, OnlyReqTables
  <2>5. CASE SetTerms({t}, FirstStatus(req[r].row, req[r].number))
             /\ \/ req' = [req EXCEPT ![r] = q1]
                \/ req' = [req EXCEPT ![r] = q2]
    <3>1. FirstStatus(req[r].row, req[r].number) \in TermStatus
      BY DEF FirstStatus, TermStatus
    <3>2. TablesOK /\ roll' = roll
      BY <2>5, <3>1, SetTermsTables
    <3>3. QED
      BY <2>2, <2>3, <2>5, <3>2, KeepRoll
  <2>6. QED
    BY <1>6, <2>4, <2>5 DEF AddTerm
<1>7. CASE EndOtherTerms(r)
  <2>1. TablesOK /\ roll' = roll
    BY <1>7, SetTermsTables DEF EndOtherTerms, TermStatus
  <2>2. QED
    BY <1>7, <2>1, GotoStep DEF EndOtherTerms, Ops
<1>8. CASE FindPrevious(r)
  <2> DEFINE T == {t \in Terms \ {req[r].term} : terms[t] \in {"ACTIVE", "COMPLETED"}}
             q == [req[r] EXCEPT !.op = "select", !.prev = Newest(T)]
  <2>1. Newest(T) \in Terms \cup {NoTerm}
    BY NewestIn
  <2>2. q \in SessionRequest /\ RequestOK(q)
    <3> HIDE DEF T
    <3>1. q \in SessionRequest
      BY <1>1, <2>1 DEF SessionRequest, Ops
    <3>2. RequestOK(q)
      BY <1>1 DEF RequestOK, SessionRequest
    <3>3. QED
      BY <3>1, <3>2
  <2>3. req' = [req EXCEPT ![r] = q] /\ OnlyReq
    BY <1>8 DEF FindPrevious
  <2>4. QED
    BY <2>2, <2>3, KeepRoll, OnlyReqTables
<1>9. QED
  BY <1>2, <1>3, <1>4, <1>5, <1>6, <1>7, <1>8

LEMMA TermStep ==
  ASSUME IInv, NEW r \in Requests,
         \/ Activate(r) \/ CompletePrevious(r)
         \/ EndTermWrite(r) \/ EndSessionTerms(r) \/ EndSessionWrite(r)
         \/ EndSiblings(r) \/ ReactivateWrite(r) \/ Reopen(r)
  PROVE  IInv'
<1>1. CASE EndSessionWrite(r) \/ Reopen(r)
  <2>1. TablesOK /\ roll' = roll
    BY <1>1, SetSessionTables DEF EndSessionWrite, Reopen, SessionStatus
  <2>2. QED
    BY <1>1, <2>1, FinishStep DEF EndSessionWrite, Reopen
<1>2. CASE \/ Activate(r) \/ CompletePrevious(r) \/ EndTermWrite(r)
           \/ EndSessionTerms(r) \/ EndSiblings(r) \/ ReactivateWrite(r)
  <2>1. TablesOK /\ roll' = roll
    BY <1>2, SetTermsTables
    DEF Activate, CompletePrevious, EndTermWrite, EndSessionTerms, EndSiblings,
        ReactivateWrite, TermStatus
  <2>2. PICK op \in {"select", "completePrevious", "count", "endSession",
                     "reactivate", "reopen"} : Goto(r, op)
    BY <1>2
    DEF Activate, CompletePrevious, EndTermWrite, EndSessionTerms, EndSiblings,
        ReactivateWrite
  <2>3. QED
    BY <2>1, <2>2, GotoStep DEF Ops
<1>3. QED
  BY <1>1, <1>2
-----------------------------------------------------------------------------
(* The steps of a migration, and the enrollment of a new student.          *)

\* An enrollment of one of the migration's students is in the table.
LEMMA RowsTyped ==
  ASSUME IInv, NEW st \in Students
  PROVE  /\ roll[st] \in Seq(Enrollment)
         /\ DOMAIN roll[st] = 1 .. Len(roll[st]) /\ Len(roll[st]) \in Nat
         /\ \A i \in DOMAIN roll[st] : roll[st][i] \in Enrollment
<1>1. roll[st] \in Seq(Enrollment)
  BY DEF IInv, TypeOK
<1>2. QED
  BY <1>1, LenProperties, ElementOfSeq

\* Adding an active enrollment for st.
LEMMA AddEnrollment ==
  ASSUME IInv, NEW r \in Requests, NEW q \in SessionRequest, NEW st \in Students,
         NEW t \in Terms \cup {NoTerm}, NEW level \in Levels,
         SetRoll(st, Append(roll[st], NewRow(t, level))),
         req' = [req EXCEPT ![r] = q], RequestOK(q)'
  PROVE  IInv'
<1> DEFINE rows == Append(roll[st], NewRow(t, level))
<1>1. NewRow(t, level) \in Enrollment /\ NewRow(t, level).active
  BY DEF NewRow, Enrollment
<1>2. roll[st] \in Seq(Enrollment) /\ Len(roll[st]) \in Nat
  BY RowsTyped
<1>3. /\ rows \in Seq(Enrollment) /\ Len(rows) = Len(roll[st]) + 1
      /\ DOMAIN rows = DOMAIN roll[st] \cup {Len(roll[st]) + 1}
      /\ \A i \in DOMAIN roll[st] : rows[i] = roll[st][i] /\ i < Len(rows)
      /\ rows[Len(roll[st]) + 1] = NewRow(t, level)
  BY <1>1, <1>2, AddRow, AppendProperties
<1>4. \A i \in DOMAIN rows : ~rows[i].active =>
        i < Len(rows) \/ Graduates(rows[i].level)
  BY <1>1, <1>3
<1>5. Len(roll[st]) <= Len(rows)
  BY <1>2, <1>3
<1>6. QED
  BY <1>3, <1>4, <1>5, ChangeRoll

\* Letting go of the enrollment i of st, which has a newer one after it or is
\* of the last level.
LEMMA EndEnrollment ==
  ASSUME IInv, NEW r \in Requests, NEW q \in SessionRequest, NEW st \in Students,
         NEW i \in DOMAIN roll[st],
         i < Len(roll[st]) \/ Graduates(roll[st][i].level),
         SetRoll(st, Deactivated(st, i)),
         req' = [req EXCEPT ![r] = q], RequestOK(q)'
  PROVE  IInv'
<1> DEFINE row == [roll[st][i] EXCEPT !.active = FALSE]
           rows == [roll[st] EXCEPT ![i] = row]
<1>1. /\ roll[st] \in Seq(Enrollment) /\ Len(roll[st]) \in Nat
      /\ DOMAIN roll[st] = 1 .. Len(roll[st]) /\ roll[st][i] \in Enrollment
  BY RowsTyped
<1>2. row \in Enrollment /\ row.level = roll[st][i].level
  BY <1>1 DEF Enrollment
<1>3. /\ rows \in Seq(Enrollment) /\ DOMAIN rows = DOMAIN roll[st]
      /\ \A j \in DOMAIN roll[st] : rows[j] = IF j = i THEN row ELSE roll[st][j]
  <2> HIDE DEF row
  <2>1. QED
    BY <1>1, <1>2, RewriteRow
<1>4. Len(rows) = Len(roll[st])
  <2> HIDE DEF rows
  <2>1. DOMAIN rows = 1 .. Len(rows) /\ Len(rows) \in Nat
    BY <1>3, LenProperties
  <2>2. QED
    BY <1>1, <1>3, <2>1
<1>5. \A j \in DOMAIN rows : ~rows[j].active =>
        j < Len(rows) \/ Graduates(rows[j].level)
  <2> HIDE DEF rows, row
  <2>1. QED
    BY <1>2, <1>3, <1>4 DEF IInv, NeverDropped
<1>6. SetRoll(st, rows)
  BY DEF Deactivated
<1>7. Len(roll[st]) <= Len(rows)
  BY <1>1, <1>4
<1>8. QED
  <2> HIDE DEF rows
  <2>1. QED
    BY <1>3, <1>5, <1>6, <1>7, ChangeRoll
\* What the handler of r becomes when it has dealt with the enrollment e, and
\* when it goes on with it.
LEMMA MovedOK ==
  ASSUME IInv, NEW r \in Requests, NEW e
  PROVE  \E q \in SessionRequest :
           /\ Moved(r, e) = [req EXCEPT ![r] = q]
           /\ q.op = "move" /\ q.todo \subseteq req[r].todo /\ q.new = req[r].new
           /\ q.number = req[r].number
<1> DEFINE q == [req[r] EXCEPT !.op = "move", !.todo = @ \ {e},
                               !.student = NoStudent, !.row = 0]
<1>1. req[r] \in SessionRequest
  BY DEF IInv, TypeOK
<1>2. q \in SessionRequest
  BY <1>1 DEF SessionRequest, Ops
<1>3. QED
  BY <1>1, <1>2 DEF Moved, SessionRequest

LEMMA AtOK ==
  ASSUME IInv, NEW r \in Requests, NEW e \in req[r].todo, NEW op \in {"insert", "leave"}
  PROVE  /\ e[1] \in Students /\ e[2] \in DOMAIN roll[e[1]]
         /\ \E q \in SessionRequest :
              /\ At(r, e, op) = [req EXCEPT ![r] = q]
              /\ q.op = op /\ q.student = e[1] /\ q.row = e[2]
              /\ q.todo \subseteq req[r].todo /\ q.new = req[r].new
              /\ q.number = req[r].number
<1> DEFINE q == [req[r] EXCEPT !.op = op, !.todo = @ \ {e},
                               !.student = e[1], !.row = e[2]]
<1>1. req[r] \in SessionRequest /\ RequestOK(req[r])
  BY DEF IInv, TypeOK
<1>2. e \in Students \X Nat
  BY <1>1 DEF SessionRequest
<1>3. q \in SessionRequest
  BY <1>1, <1>2 DEF SessionRequest, Ops
<1>4. e[2] \in DOMAIN roll[e[1]]
  BY <1>1 DEF RequestOK
<1>5. QED
  BY <1>1, <1>2, <1>3, <1>4 DEF At, SessionRequest

\* Enrollments are never taken out of the table.
LEMMA Grows ==
  ASSUME IInv, NEW st \in Students, NEW rows, SetRoll(st, rows),
         \/ \E row \in Enrollment : rows = Append(roll[st], row)
         \/ \E i \in DOMAIN roll[st] : rows = Deactivated(st, i)
  PROVE  \A u \in Students : DOMAIN roll[u] \subseteq DOMAIN roll'[u]
<1>1. roll[st] \in Seq(Enrollment)
  BY RowsTyped
<1>2. DOMAIN roll[st] \subseteq DOMAIN rows
  <2>1. ASSUME NEW row \in Enrollment, rows = Append(roll[st], row)
        PROVE  DOMAIN roll[st] \subseteq DOMAIN rows
    BY <1>1, <2>1, AddRow
  <2>2. ASSUME NEW i \in DOMAIN roll[st], rows = Deactivated(st, i)
        PROVE  DOMAIN roll[st] \subseteq DOMAIN rows
    BY <2>2 DEF Deactivated
  <2>3. QED
    BY <2>1, <2>2
<1>3. \A u \in Students : roll'[u] = IF u = st THEN rows ELSE roll[u]
  BY DEF SetRoll, IInv, TypeOK
<1>4. QED
  BY <1>2, <1>3

\* A handler that has enrollments left to move, and is at none of them.
LEMMA StillOK ==
  ASSUME IInv, NEW r \in Requests, NEW q \in SessionRequest, q.op = "move",
         q.todo \subseteq req[r].todo, q.new = req[r].new, q.number = req[r].number
  PROVE  /\ RequestOK(q)
         /\ (\A u \in Students : DOMAIN roll[u] \subseteq DOMAIN roll'[u]) => RequestOK(q)'
<1>1. req[r] \in SessionRequest /\ RequestOK(req[r])
  BY DEF IInv, TypeOK
<1>2. \A e \in q.todo : e[1] \in Students /\ e[2] \in DOMAIN roll[e[1]]
  BY <1>1 DEF SessionRequest, RequestOK
<1>3. q.new => q.number \in Numbers
  BY <1>1 DEF RequestOK
<1>4. QED
  BY <1>2, <1>3 DEF RequestOK

LEMMA CarryStep ==
  ASSUME IInv, NEW r \in Requests,
         \/ SelectEnrollments(r) \/ MigrationDone(r) \/ CarryInsert(r)
         \/ \E e \in req[r].todo : CarryCheck(r, e)
  PROVE  IInv'
<1>1. req[r] \in SessionRequest /\ RequestOK(req[r])
  BY DEF IInv, TypeOK
<1>2. CASE SelectEnrollments(r)
  <2> DEFINE S == Selected(req[r].prev)
             q == [req[r] EXCEPT !.op = "move", !.todo = S]
  <2>1. \A e \in S : e \in Students \X Nat /\ e[2] \in DOMAIN roll[e[1]]
    BY RowsTyped DEF Selected
  <2>2. S \in SUBSET (Students \X Nat)
    BY <2>1
  <2>3. q \in SessionRequest
    <3> HIDE DEF S
    <3>1. QED
      BY <1>1, <2>2 DEF SessionRequest, Ops
  <2>4. RequestOK(q)
    <3> HIDE DEF S
    <3>1. QED
      BY <1>1, <2>1 DEF RequestOK, SessionRequest
  <2>5. req' = [req EXCEPT ![r] = q] /\ OnlyReq
    BY <1>2 DEF SelectEnrollments
  <2>6. QED
    BY <2>3, <2>4, <2>5, KeepRoll, OnlyReqTables
<1>3. CASE MigrationDone(r)
  BY <1>3, FinishStep, OnlyReqTables DEF MigrationDone
<1>4. CASE CarryInsert(r)
  <2> DEFINE st == req[r].student
             row == NewRow(req[r].term, roll[st][req[r].row].level)
  <2>1. st \in Students /\ req[r].row \in DOMAIN roll[st]
    BY <1>1, <1>4 DEF CarryInsert, RequestOK
  <2>2. CASE Finish(r) /\ OnlyReq
    BY <2>2, FinishStep, OnlyReqTables
  <2>3. CASE SetRoll(st, Append(roll[st], row)) /\ req' = Moved(r, <<st, req[r].row>>)
    <3>1. roll[st][req[r].row].level \in Levels /\ req[r].term \in Terms \cup {NoTerm}
      BY <1>1, <2>1, RowsTyped DEF Enrollment, SessionRequest
    <3>2. row \in Enrollment
      BY <3>1 DEF NewRow, Enrollment
    <3>3. PICK q \in SessionRequest :
            /\ req' = [req EXCEPT ![r] = q]
            /\ q.op = "move" /\ q.todo \subseteq req[r].todo /\ q.new = req[r].new
            /\ q.number = req[r].number
      <4> DEFINE e == <<st, req[r].row>>
      <4>1. req' = Moved(r, e)
        BY <2>3
      <4> HIDE DEF e
      <4>2. QED
        BY <4>1, MovedOK
    <3>4. \A u \in Students : DOMAIN roll[u] \subseteq DOMAIN roll'[u]
      BY <2>1, <2>3, <3>2, Grows
    <3>5. RequestOK(q)'
      BY <3>3, <3>4, StillOK
    <3>6. QED
      BY <2>1, <2>3, <3>1, <3>3, <3>5, AddEnrollment
  <2>4. QED
    BY <1>4, <2>2, <2>3 DEF CarryInsert
<1>5. ASSUME NEW e \in req[r].todo, CarryCheck(r, e)
      PROVE  IInv'
  <2>1. OnlyReq /\ (req' = Moved(r, e) \/ req' = At(r, e, "insert"))
    BY <1>5 DEF CarryCheck
  <2>2. CASE req' = Moved(r, e)
    BY <2>1, <2>2, MovedOK, StillOK, KeepRoll, OnlyReqTables
  <2>3. CASE req' = At(r, e, "insert")
    <3>1. PICK q \in SessionRequest :
            /\ req' = [req EXCEPT ![r] = q]
            /\ q.op = "insert" /\ q.student = e[1] /\ q.row = e[2]
            /\ q.todo \subseteq req[r].todo /\ q.new = req[r].new
            /\ q.number = req[r].number
      BY <2>3, AtOK
    <3>2. e[1] \in Students /\ e[2] \in DOMAIN roll[e[1]]
      BY AtOK
    <3>3. RequestOK(q)
      BY <1>1, <3>1, <3>2 DEF RequestOK
    <3>4. QED
      BY <2>1, <3>1, <3>3, KeepRoll, OnlyReqTables
  <2>4. QED
    BY <2>1, <2>2, <2>3
<1>6. QED
  BY <1>2, <1>3, <1>4, <1>5

LEMMA PromoteStep ==
  ASSUME IInv, NEW r \in Requests, NEW e \in req[r].todo, Promote(r, e)
  PROVE  IInv'
<1> DEFINE st == e[1]
           level == roll[st][e[2]].level
<1>1. req[r] \in SessionRequest /\ RequestOK(req[r])
  BY DEF IInv, TypeOK
<1>2. st \in Students /\ e[2] \in DOMAIN roll[st]
  BY AtOK
<1>3. level \in Levels /\ req[r].term \in Terms \cup {NoTerm}
  BY <1>1, <1>2, RowsTyped DEF Enrollment, SessionRequest
<1>4. CASE OnlyReq /\ req' = Moved(r, e)
  BY <1>4, MovedOK, StillOK, KeepRoll, OnlyReqTables
<1>5. CASE OnlyReq /\ Finish(r)
  BY <1>5, FinishStep, OnlyReqTables
<1>6. CASE Graduates(level) /\ SetRoll(st, Deactivated(st, e[2])) /\ req' = Moved(r, e)
  <2>1. PICK q \in SessionRequest :
          /\ req' = [req EXCEPT ![r] = q]
          /\ q.op = "move" /\ q.todo \subseteq req[r].todo /\ q.new = req[r].new
          /\ q.number = req[r].number
    BY <1>6, MovedOK
  <2>2. \A u \in Students : DOMAIN roll[u] \subseteq DOMAIN roll'[u]
    BY <1>2, <1>6, Grows
  <2>3. RequestOK(q)'
    BY <2>1, <2>2, StillOK
  <2>4. QED
    BY <1>2, <1>6, <2>1, <2>3, EndEnrollment
<1>7. CASE /\ level # 0 /\ ~Graduates(level)
           /\ SetRoll(st, Append(roll[st], NewRow(req[r].term, LevelAfter(level))))
           /\ req' = At(r, e, "leave")
  <2>1. LevelAfter(level) \in Levels
    <3> HIDE DEF level
    <3>1. QED
      BY <1>3, <1>7, SessionsAssumption DEF Levels, LevelAfter, Graduates
  <2>2. NewRow(req[r].term, LevelAfter(level)) \in Enrollment
    BY <1>3, <2>1 DEF NewRow, Enrollment
  <2>3. PICK q \in SessionRequest :
          /\ req' = [req EXCEPT ![r] = q]
          /\ q.op = "leave" /\ q.student = e[1] /\ q.row = e[2]
          /\ q.todo \subseteq req[r].todo /\ q.new = req[r].new
          /\ q.number = req[r].number
    BY <1>7, AtOK
  <2>4. \A u \in Students : DOMAIN roll[u] \subseteq DOMAIN roll'[u]
    BY <1>2, <1>7, <2>2, Grows
  <2>5. /\ roll'[st] = Append(roll[st], NewRow(req[r].term, LevelAfter(level)))
        /\ roll[st] \in Seq(Enrollment)
    BY <1>2, <1>7, RowsTyped DEF SetRoll, IInv, TypeOK
  <2>6. Len(roll'[st]) = Len(roll[st]) + 1 /\ e[2] <= Len(roll[st]) /\ e[2] \in Nat
        /\ Len(roll[st]) \in Nat
    BY <1>2, <2>2, <2>5, AppendProperties, LenProperties
  <2>7. RequestOK(q)'
    <3>1. \A d \in q.todo : d[2] \in DOMAIN roll'[d[1]]
      BY <1>1, <2>3, <2>4 DEF RequestOK, SessionRequest
    <3>2. q.row \in DOMAIN roll'[q.student] /\ q.row < Len(roll'[q.student])
      BY <1>2, <2>3, <2>4, <2>6
    <3>3. q.new => q.number \in Numbers
      BY <1>1, <2>3 DEF RequestOK
    <3>4. QED
      BY <1>2, <2>3, <3>1, <3>2, <3>3 DEF RequestOK
  <2>8. QED
    BY <1>2, <1>3, <1>7, <2>1, <2>3, <2>7, AddEnrollment
<1>8. QED
  BY <1>4, <1>5, <1>6, <1>7 DEF Promote

LEMMA LeaveStep ==
  ASSUME IInv, NEW r \in Requests, LeaveOld(r)
  PROVE  IInv'
<1> DEFINE st == req[r].student
           i == req[r].row
           e == <<st, i>>
<1>1. req[r] \in SessionRequest /\ RequestOK(req[r])
  BY DEF IInv, TypeOK
<1>2. st \in Students /\ i \in DOMAIN roll[st] /\ i < Len(roll[st])
  BY <1>1 DEF LeaveOld, RequestOK
<1>3. SetRoll(st, Deactivated(st, i)) /\ req' = Moved(r, e)
  BY DEF LeaveOld
<1>4. PICK q \in SessionRequest :
        /\ req' = [req EXCEPT ![r] = q]
        /\ q.op = "move" /\ q.todo \subseteq req[r].todo /\ q.new = req[r].new
        /\ q.number = req[r].number
  <2> HIDE DEF e
  <2>1. QED
    BY <1>3, MovedOK
<1>5. \A u \in Students : DOMAIN roll[u] \subseteq DOMAIN roll'[u]
  BY <1>2, <1>3, Grows
<1>6. RequestOK(q)'
  BY <1>4, <1>5, StillOK
<1>7. QED
  BY <1>2, <1>3, <1>4, <1>6, EndEnrollment

LEMMA AdmitStep ==
  ASSUME IInv, NEW r \in Requests, NEW level \in Levels, AdmitWrite(r, level)
  PROVE  IInv'
<1> DEFINE st == req[r].student
           row == NewRow(req[r].term, level)
<1>1. req[r] \in SessionRequest /\ RequestOK(req[r])
  BY DEF IInv, TypeOK
<1>2. st \in Students /\ req[r].term \in Terms \cup {NoTerm}
  BY <1>1 DEF AdmitWrite, RequestOK, SessionRequest
<1>3. Append(roll[st], row) = << row >>
  <2>1. roll[st] = << >>
    BY DEF AdmitWrite
  <2>2. QED
    BY <2>1
<1>4. SetRoll(st, Append(roll[st], row)) /\ req' = [req EXCEPT ![r] = Idle]
  BY <1>3 DEF AdmitWrite, Finish
<1>5. RequestOK(Idle)'
  BY DEF RequestOK, Idle
<1>6. QED
  BY <1>2, <1>4, <1>5, IdleOK, AddEnrollment
-----------------------------------------------------------------------------
LEMMA Stutter ==
  ASSUME IInv, UNCHANGED vars PROVE IInv'
  BY DEF vars, IInv, TypeOK, RequestOK, NeverDropped

LEMMA OtherStep ==
  ASSUME IInv,
         \/ \E r \in Requests : Fail(r)
         \/ \E t \in Terms : CreateTerm(t)
  PROVE  IInv'
<1>1. ASSUME NEW r \in Requests, Fail(r) PROVE IInv'
  <2>1. TablesOK /\ roll' = roll /\ Finish(r)
    BY <1>1 DEF Fail, TablesOK, IInv, TypeOK
  <2>2. QED
    BY <2>1, FinishStep
<1>2. ASSUME NEW t \in Terms, CreateTerm(t) PROVE IInv'
  <2>1. roll' = roll /\ req' = req
    BY <1>2 DEF CreateTerm
  <2>2. calm' \in BOOLEAN
    BY <1>2, Zenon DEF CreateTerm
  <2>3. TypeOK'
    BY <1>2, <2>1, <2>2 DEF CreateTerm, IInv, TypeOK, TermStatus
  <2>4. QED
    BY <2>1, <2>3 DEF IInv, RequestOK, NeverDropped
<1>3. QED
  BY <1>1, <1>2

LEMMA Invariance ==
  ASSUME IInv, [Next]_vars PROVE IInv'
<1>1. CASE UNCHANGED vars
  BY <1>1, Stutter
<1>2. ASSUME NEW r \in Requests, Receive(r) \/ Step(r) \/ Fail(r)
      PROVE  IInv'
  <2>1. CASE Step(r)
    BY <2>1, SessionStep, TermStep, CarryStep, PromoteStep, LeaveStep, AdmitStep DEF Step
  <2>2. QED
    BY <1>2, <2>1, ArriveStep, OtherStep
<1>3. QED
  BY <1>1, <1>2, OtherStep DEF Next

LEMMA InitHolds ==
  ASSUME Init PROVE IInv
<1>1. TypeOK
  BY IdleOK DEF Init, TypeOK, SessionStatus, TermStatus, Enrollment
<1>2. \A r \in Requests : RequestOK(req[r])
  BY IdleOK DEF Init
<1>3. NeverDropped
  BY DEF Init, NeverDropped
<1>4. QED
  BY <1>1, <1>2, <1>3 DEF IInv
-----------------------------------------------------------------------------
(* One active session and term.  While requests come one at a time and end *)
(* well, what is active is of the latest session; a handler that is at a   *)
(* session or a term is at the latest one, and one that has left two terms *)
(* active knows both.                                                      *)

Latest(s) == s \in Known /\ \A u \in Known : u <= s

TermsAgree ==
  /\ \A t \in ActiveTerms : Latest(t[1])
  /\ \A t, u \in ActiveTerms : t = u

\* Where terms of two sessions, or two of one, may be active.
Between == {"retire", "addTerm", "endTerms", "completePrevious"}

AtSession == {"count", "close", "retire", "addTerm", "endTerms", "endTerm",
              "endSessionTerms", "endSession", "endSiblings", "reactivate", "reopen"}

AtTerm == {"addTerm", "endTerms", "activate", "completePrevious", "endSiblings",
           "reactivate"}

CalmHandler(q) ==
  /\ q.op \in AtSession => Latest(q.session)
  /\ q.op \in AtTerm => q.term \in Terms /\ Latest(q.term[1])
  /\ q.op = "endTerm" => q.term[1] = q.session
  /\ q.op = "create" => ActiveSessions = {}
  /\ q.op = "retire" => \A t \in Terms : t[1] = q.session => terms[t] = "none"
  /\ q.op = "addTerm" =>
       /\ q.row \in 1 .. TermCount
       /\ \A t \in Terms : t[1] = q.session /\ t[2] >= q.row => terms[t] = "none"
  /\ q.op \in {"activate", "completePrevious"} =>
       /\ ActiveTerms \subseteq {q.term, q.prev}
       /\ q.prev \in Terms => q.prev[1] \in Known
  /\ q.op = "reactivate" => ActiveTerms = {}

CalmTables ==
  /\ \A s \in Known, u \in SessionIds : u <= s => u \in Known
  /\ \A t \in Terms : terms[t] # "none" => t[1] \in Known
  /\ \A s \in ActiveSessions : Latest(s)

CalmInv ==
  calm =>
    /\ CalmTables
    /\ \A p, r \in Requests : req[p].op # "idle" /\ req[r].op # "idle" => p = r
    /\ \A r \in Requests : CalmHandler(req[r])
    /\ (\A r \in Requests : req[r].op \notin Between) => TermsAgree

LEMMA IdleCalm ==
  ASSUME NEW q, q.op = "idle" PROVE CalmHandler(q)
  BY DEF CalmHandler, AtSession, AtTerm

\* The handler of r goes on as q.
LEMMA CalmGoesOn ==
  ASSUME IInv, CalmInv, calm, NEW r \in Requests, req[r].op # "idle",
         NEW q, req' = [req EXCEPT ![r] = q],
         CalmTables', CalmHandler(q)', q.op \notin Between => TermsAgree'
  PROVE  CalmInv'
<1>1. \A p \in Requests : req'[p] = IF p = r THEN q ELSE req[p]
  BY DEF IInv, TypeOK
<1>2. \A p \in Requests : p # r => req[p].op = "idle"
  BY DEF CalmInv
<1>3. \A p, u \in Requests : req'[p].op # "idle" /\ req'[u].op # "idle" => p = u
  BY <1>1, <1>2
<1>4. ASSUME NEW p \in Requests PROVE CalmHandler(req[p])'
  <2>1. CASE p = r
    BY <1>1, <2>1
  <2>2. CASE p # r
    <3>1. req'[p].op = "idle"
      BY <1>1, <1>2, <2>2
    <3>2. QED
      BY <3>1 DEF CalmHandler, AtSession, AtTerm
  <2>3. QED
    BY <2>1, <2>2
<1>5. (\A p \in Requests : req'[p].op \notin Between) => TermsAgree'
  BY <1>1
<1>6. QED
  BY <1>3, <1>4, <1>5 DEF CalmInv

LEMMA CalmEnds ==
  ASSUME IInv, CalmInv, calm, NEW r \in Requests, req[r].op # "idle", Finish(r),
         CalmTables', TermsAgree'
  PROVE  CalmInv'
<1>1. Idle.op = "idle"
  BY DEF Idle
<1>2. CalmHandler(Idle)'
  BY <1>1 DEF CalmHandler, AtSession, AtTerm, Idle
<1>3. QED
  BY <1>2, CalmGoesOn DEF Finish

\* A request comes in: it finds everyone idle.
LEMMA CalmBegins ==
  ASSUME IInv, CalmInv, NEW r \in Requests, NEW q, NEW b \in BOOLEAN, Begin(r, q, b),
         q.op \notin Between,
         b /\ calm /\ CalmTables /\ TermsAgree => CalmHandler(q)
  PROVE  CalmInv'
<1>1. SUFFICES ASSUME calm' PROVE CalmInv'
  BY DEF CalmInv
<1>2. calm /\ b /\ Quiet
  BY <1>1, Zenon DEF Begin
<1>3. \A p \in Requests : req[p].op = "idle"
  BY <1>2 DEF Quiet
<1>4. CalmTables /\ TermsAgree
  BY <1>2, <1>3 DEF CalmInv, Between
<1>5. CalmHandler(q)
  BY <1>2, <1>4
<1>6. /\ req' = [req EXCEPT ![r] = q]
      /\ sessions' = sessions /\ terms' = terms
  BY DEF Begin
<1>7. CalmTables' /\ TermsAgree' /\ CalmHandler(q)'
  BY <1>4, <1>5, <1>6
  DEF CalmTables, TermsAgree, CalmHandler, Latest, Known, ActiveSessions, ActiveTerms
<1>8. \A p \in Requests : req'[p] = IF p = r THEN q ELSE req[p]
  BY <1>6 DEF IInv, TypeOK
<1>9. ASSUME NEW p \in Requests PROVE CalmHandler(req[p])'
  <2>1. CASE p = r
    BY <1>7, <1>8, <2>1
  <2>2. CASE p # r
    <3>1. req'[p].op = "idle"
      BY <1>3, <1>8, <2>2
    <3>2. QED
      BY <3>1 DEF CalmHandler, AtSession, AtTerm
  <2>3. QED
    BY <2>1, <2>2
<1>10. \A p, u \in Requests : req'[p].op # "idle" /\ req'[u].op # "idle" => p = u
  BY <1>3, <1>8
<1>11. QED
  BY <1>7, <1>9, <1>10 DEF CalmInv
-----------------------------------------------------------------------------
(* What the writes do to the tables.                                       *)

LEMMA CalmSessionWrite ==
  ASSUME IInv, CalmTables, NEW s \in Known, NEW v \in {"ACTIVE", "COMPLETED"},
         SetSession(s, v), v = "ACTIVE" => Latest(s)
  PROVE  /\ CalmTables' /\ (TermsAgree => TermsAgree')
         /\ Known' = Known /\ ActiveTerms' = ActiveTerms
         /\ v = "COMPLETED" => ActiveSessions' = ActiveSessions \ {s}
<1>1. /\ terms' = terms
      /\ \A u \in SessionIds : sessions'[u] = IF u = s THEN v ELSE sessions[u]
  BY DEF SetSession, IInv, TypeOK
<1>2. Known' = Known /\ ActiveTerms' = ActiveTerms
  BY <1>1 DEF Known, ActiveTerms
<1>3. \A u : Latest(u)' <=> Latest(u)
  BY <1>2 DEF Latest
<1>4. \A u \in ActiveSessions' : u \in ActiveSessions \/ (u = s /\ v = "ACTIVE")
  BY <1>1 DEF ActiveSessions
<1>5. CalmTables'
  BY <1>1, <1>2, <1>3, <1>4 DEF CalmTables
<1>6. TermsAgree => TermsAgree'
  BY <1>2, <1>3 DEF TermsAgree
<1>7. v = "COMPLETED" => ActiveSessions' = ActiveSessions \ {s}
  BY <1>1 DEF ActiveSessions
<1>8. QED
  BY <1>2, <1>5, <1>6, <1>7

LEMMA CalmTermsWrite ==
  ASSUME IInv, CalmTables, NEW T, NEW v \in TermStatus, SetTerms(T, v),
         \A t \in T : t \in Terms => t[1] \in Known
  PROVE  /\ CalmTables' /\ Known' = Known /\ ActiveSessions' = ActiveSessions
         /\ \A s : Latest(s)' <=> Latest(s)
         /\ v # "ACTIVE" => ActiveTerms' = ActiveTerms \ T
         /\ v = "ACTIVE" => ActiveTerms' = ActiveTerms \cup (T \cap Terms)
         /\ \A t \in Terms : terms'[t] = IF t \in T THEN v ELSE terms[t]
<1>1. /\ sessions' = sessions
      /\ \A t \in Terms : terms'[t] = IF t \in T THEN v ELSE terms[t]
  BY DEF SetTerms
<1>2. Known' = Known /\ ActiveSessions' = ActiveSessions
  BY <1>1 DEF Known, ActiveSessions
<1>3. \A s : Latest(s)' <=> Latest(s)
  BY <1>2 DEF Latest
<1>4. CalmTables'
  BY <1>1, <1>2, <1>3 DEF CalmTables
<1>5. /\ v # "ACTIVE" => ActiveTerms' = ActiveTerms \ T
      /\ v = "ACTIVE" => ActiveTerms' = ActiveTerms \cup (T \cap Terms)
  BY <1>1 DEF ActiveTerms
<1>6. QED
  BY <1>1, <1>2, <1>3, <1>4, <1>5

\* Nothing but what the handlers have read changes.
LEMMA CalmReads ==
  ASSUME CalmTables, sessions' = sessions, terms' = terms
  PROVE  /\ CalmTables' /\ (TermsAgree => TermsAgree')
         /\ ActiveTerms' = ActiveTerms
         /\ ActiveSessions' = ActiveSessions /\ Known' = Known
  BY DEF CalmTables, TermsAgree, Latest, Known, ActiveSessions, ActiveTerms

LEMMA LatestTyped ==
  ASSUME NEW s, Latest(s) PROVE s \in SessionIds /\ s \in Known
  BY DEF Latest, Known

LEMMA LatestOne ==
  ASSUME NEW s \in SessionIds, NEW u \in SessionIds, Latest(s), Latest(u)
  PROVE  s = u
  BY SessionsAssumption DEF Latest, SessionIds, Known
-----------------------------------------------------------------------------
LEMMA CalmArrive ==
  ASSUME IInv, CalmInv, NEW r \in Requests, Receive(r)
  PROVE  CalmInv'
<1>1. ASSUME NEW n \in 1 .. MaxNumber, NEW c \in BOOLEAN, StartSession(r, n, c)
      PROVE  CalmInv'
  <2> DEFINE rec == [Idle EXCEPT !.new = TRUE, !.number = n, !.carry = c]
             q1 == [rec EXCEPT !.op = "create"]
  <2>1. CASE ActiveSessions = {} /\ Begin(r, q1, TRUE)
    <3>1. q1.op = "create"
      BY DEF Idle
    <3>2. CalmHandler(q1)
      BY <2>1, <3>1 DEF CalmHandler, AtSession, AtTerm
    <3>3. QED
      BY <2>1, <3>1, <3>2, CalmBegins DEF Between
  <2>2. ASSUME NEW s \in ActiveSessions,
               Begin(r, [rec EXCEPT !.op = "count", !.session = s], TRUE)
        PROVE  CalmInv'
    <3> DEFINE q2 == [rec EXCEPT !.op = "count", !.session = s]
    <3>1. q2.op = "count" /\ q2.session = s
      BY DEF Idle
    <3>2. CalmTables => CalmHandler(q2)
      BY <3>1 DEF CalmHandler, AtSession, AtTerm, CalmTables
    <3>3. QED
      BY <2>2, <3>1, <3>2, CalmBegins DEF Between
  <2>3. QED
    BY <1>1, <2>1, <2>2 DEF StartSession
<1>2. ASSUME NEW t \in Terms, StartTerm(r, t)
      PROVE  CalmInv'
  <2> DEFINE T == {u \in ActiveTerms \ {t} : u[1] = t[1]}
             b == \A s \in Known : s <= t[1]
             q == [Idle EXCEPT !.op = "activate", !.term = t, !.carry = TRUE,
                     !.prev = Newest(T)]
  <2>1. Begin(r, q, b) /\ terms[t] # "none"
    BY <1>2 DEF StartTerm
  <2>2. q.op = "activate" /\ q.term = t /\ q.prev = Newest(T)
    BY DEF Idle
  <2>3. ASSUME b, CalmTables, TermsAgree PROVE CalmHandler(q)
    <3>1. t[1] \in SessionIds /\ \A u \in ActiveTerms : u[1] \in SessionIds
      BY DEF Terms, ActiveTerms
    <3>2. Latest(t[1])
      BY <2>1, <2>3 DEF CalmTables, Latest
    <3>3. \A u \in ActiveTerms : u[1] = t[1]
      BY <2>3, <3>1, <3>2, LatestOne DEF TermsAgree
    <3>4. T = ActiveTerms \ {t}
      BY <3>3
    <3>5. ActiveTerms \subseteq {t, Newest(T)}
      <4>1. ASSUME NEW u \in ActiveTerms, u # t PROVE u = Newest(T)
        <5>1. T = {u}
          BY <2>3, <3>4, <4>1 DEF TermsAgree
        <5>2. (CHOOSE x \in {u} : \A y \in {u} \ {x} : Later(x, y)) = u
          OBVIOUS
        <5>3. QED
          BY <5>1, <5>2 DEF Newest
      <4>2. QED
        BY <4>1
    <3>6. Newest(T) \in Terms => Newest(T)[1] \in Known
      <4>1. Newest(T) \in T \cup {NoTerm}
        BY NewestIn DEF ActiveTerms
      <4>2. \A u \in T : u[1] \in Known
        BY <3>2, LatestTyped
      <4>3. QED
        BY <4>1, <4>2, SessionsAssumption
    <3>7. QED
      <4> HIDE DEF T, q
      <4>1. QED
        BY <2>2, <3>2, <3>5, <3>6 DEF CalmHandler, AtSession, AtTerm
  <2>4. b \in BOOLEAN
    OBVIOUS
  <2>5. QED
    <3> HIDE DEF q, b
    <3>1. QED
      BY <2>1, <2>2, <2>3, <2>4, CalmBegins DEF Between
<1>3. ASSUME NEW t \in Terms, Reactivate(r, t)
      PROVE  CalmInv'
  <2> DEFINE b == \A s \in Known : s <= t[1]
             q == [Idle EXCEPT !.op = "endSiblings", !.term = t, !.session = t[1]]
  <2>1. Begin(r, q, b) /\ terms[t] # "none"
    BY <1>3 DEF Reactivate
  <2>2. q.op = "endSiblings" /\ q.session = t[1] /\ q.term = t
    BY DEF Idle
  <2>3. ASSUME b, CalmTables PROVE CalmHandler(q)
    BY <2>1, <2>2, <2>3 DEF CalmTables, Latest, CalmHandler, AtSession, AtTerm
  <2>4. b \in BOOLEAN
    OBVIOUS
  <2>5. QED
    <3> HIDE DEF q, b
    <3>1. QED
      BY <2>1, <2>2, <2>3, <2>4, CalmBegins DEF Between
<1>4. ASSUME NEW t \in Terms, NEW c \in BOOLEAN, Migrate(r, t, c)
      PROVE  CalmInv'
  <2> DEFINE rec == [Idle EXCEPT !.term = t, !.carry = c]
             prev == Newest({u \in Terms : u[1] = t[1] /\ u[2] < t[2] /\ terms[u] # "none"})
             q1 == [rec EXCEPT !.op = "select", !.prev = prev]
             q2 == [rec EXCEPT !.op = "previous"]
  <2>0. Begin(r, q1, TRUE) \/ Begin(r, q2, TRUE)
    BY <1>4 DEF Migrate
  <2>4. q1.op = "select" /\ q2.op = "previous"
    <3> HIDE DEF prev
    <3>1. QED
      BY DEF Idle
  <2>1. PICK q : Begin(r, q, TRUE) /\ q.op \in {"select", "previous"}
    <3> HIDE DEF q1, q2
    <3>1. QED
      BY <2>0, <2>4
  <2>2. CalmHandler(q)
    BY <2>1 DEF CalmHandler, AtSession, AtTerm
  <2>3. QED
    BY <2>1, <2>2, CalmBegins DEF Between
<1>5. CASE EndTerm(r)
  <2>0. PICK t \in ActiveTerms :
          Begin(r, [Idle EXCEPT !.op = "endTerm", !.term = t, !.session = t[1]], TRUE)
    BY <1>5 DEF EndTerm
  <2> DEFINE q0 == [Idle EXCEPT !.op = "endTerm", !.term = t, !.session = t[1]]
  <2>3. q0.op = "endTerm" /\ q0.session = t[1] /\ q0.term = t
    BY DEF Idle
  <2>1. PICK q : Begin(r, q, TRUE) /\ q.op = "endTerm" /\ q.session = t[1] /\ q.term = t
    <3> HIDE DEF q0
    <3>1. QED
      BY <2>0, <2>3 DEF q0
  <2>2. TermsAgree => CalmHandler(q)
    BY <2>1 DEF CalmHandler, AtSession, AtTerm, TermsAgree
  <2>4. QED
    BY <2>1, <2>2, CalmBegins DEF Between
<1>6. CASE EndSession(r)
  <2>1. PICK s \in ActiveSessions :
          Begin(r, [Idle EXCEPT !.op = "endSessionTerms", !.session = s], TRUE)
    BY <1>6 DEF EndSession
  <2> DEFINE q == [Idle EXCEPT !.op = "endSessionTerms", !.session = s]
  <2>2. q.op = "endSessionTerms" /\ q.session = s
    BY DEF Idle
  <2>3. CalmTables => CalmHandler(q)
    BY <2>2 DEF CalmHandler, AtSession, AtTerm, CalmTables
  <2>4. QED
    <3> HIDE DEF q
    <3>1. QED
      BY <2>1, <2>2, <2>3, CalmBegins DEF Between, q
<1>7. ASSUME NEW st \in Students, AdmitRead(r, st)
      PROVE  CalmInv'
  <2>0. PICK t \in Terms \cup {NoTerm} :
          Begin(r, [Idle EXCEPT !.op = "admit", !.student = st, !.term = t], TRUE)
    BY <1>7 DEF AdmitRead
  <2> DEFINE q0 == [Idle EXCEPT !.op = "admit", !.student = st, !.term = t]
  <2>3. q0.op = "admit"
    BY DEF Idle
  <2>1. PICK q : Begin(r, q, TRUE) /\ q.op = "admit"
    <3> HIDE DEF q0
    <3>1. QED
      BY <2>0, <2>3 DEF q0
  <2>2. QED
    BY <2>1, CalmBegins DEF Between, CalmHandler, AtSession, AtTerm
<1>8. QED
  BY <1>1, <1>2, <1>3, <1>4, <1>5, <1>6, <1>7 DEF Receive
-----------------------------------------------------------------------------
LEMMA GoesOnAt ==
  ASSUME IInv, NEW r \in Requests, NEW op, Goto(r, op)
  PROVE  \E q :
           /\ q.op = op /\ q.session = req[r].session
           /\ q.term = req[r].term /\ q.prev = req[r].prev
           /\ req' = [req EXCEPT ![r] = q]
<1> DEFINE q == [req[r] EXCEPT !.op = op]
<1>1. req[r] \in SessionRequest
  BY DEF IInv, TypeOK
<1>2. /\ q.op = op /\ q.session = req[r].session
      /\ q.term = req[r].term /\ q.prev = req[r].prev
      /\ req' = [req EXCEPT ![r] = q]
  BY <1>1 DEF Goto, SessionRequest
<1> HIDE DEF q
<1>3. QED
  BY <1>2

LEMMA CalmCount ==
  ASSUME IInv, CalmInv, calm, NEW r \in Requests, Count(r) PROVE CalmInv'
<1>1. req[r].op = "count" /\ OnlyReq
  BY DEF Count
<1>2. CalmTables /\ TermsAgree /\ Latest(req[r].session)
  BY <1>1 DEF CalmInv, Between, CalmHandler, AtSession
<1>3. CalmTables' /\ TermsAgree' /\ Known' = Known
  BY <1>1, <1>2, CalmReads DEF OnlyReq
<1>4. CASE Finish(r)
  BY <1>1, <1>3, <1>4, CalmEnds
<1>5. CASE Goto(r, "close")
  <2>1. PICK q : /\ q.op = "close" /\ q.session = req[r].session
                 /\ req' = [req EXCEPT ![r] = q]
    BY <1>5, GoesOnAt
  <2>2. CalmHandler(q)'
    BY <1>2, <1>3, <2>1 DEF CalmHandler, AtSession, AtTerm, Latest
  <2>3. QED
    BY <1>1, <1>3, <2>1, <2>2, CalmGoesOn DEF Between
<1>6. QED
  BY <1>4, <1>5 DEF Count

LEMMA CalmClose ==
  ASSUME IInv, CalmInv, calm, NEW r \in Requests, Close(r) PROVE CalmInv'
<1>1. req[r].op = "close" /\ SetSession(req[r].session, "COMPLETED")
  BY DEF Close
<1>2. CalmTables /\ TermsAgree /\ Latest(req[r].session)
  BY <1>1 DEF CalmInv, Between, CalmHandler, AtSession
<1>3. req[r].session \in Known
  BY <1>2 DEF Latest
<1>4. /\ CalmTables' /\ TermsAgree'
      /\ ActiveSessions' = ActiveSessions \ {req[r].session}
  BY <1>1, <1>2, <1>3, CalmSessionWrite
<1>5. ActiveSessions' = {}
  BY <1>2, <1>4, LatestOne DEF CalmTables, ActiveSessions, Latest, Known
<1>6. CASE Finish(r)
  BY <1>1, <1>4, <1>6, CalmEnds
<1>7. CASE Goto(r, "create")
  <2>1. PICK q : q.op = "create" /\ req' = [req EXCEPT ![r] = q]
    BY <1>7, GoesOnAt
  <2>2. CalmHandler(q)'
    BY <1>5, <2>1 DEF CalmHandler, AtSession, AtTerm
  <2>3. QED
    BY <1>1, <1>4, <2>1, <2>2, CalmGoesOn DEF Between
<1>8. QED
  BY <1>6, <1>7 DEF Close

LEMMA CalmCreate ==
  ASSUME IInv, CalmInv, calm, NEW r \in Requests, CreateSession(r) PROVE CalmInv'
<1>1. PICK s \in SessionIds \ Known :
        /\ \A u \in SessionIds \ Known : s <= u
        /\ SetSession(s, "ACTIVE")
        /\ req' = [req EXCEPT ![r].op = "retire", ![r].session = s]
  BY DEF CreateSession
<1>2. req[r].op = "create"
  BY DEF CreateSession
<1>3. CalmTables /\ ActiveSessions = {}
  BY <1>2 DEF CalmInv, CalmHandler
<1>4. /\ terms' = terms
      /\ \A u \in SessionIds : sessions'[u] = IF u = s THEN "ACTIVE" ELSE sessions[u]
  BY <1>1 DEF SetSession, IInv, TypeOK
<1>5. Known' = Known \cup {s} /\ ActiveSessions' = {s}
  BY <1>1, <1>3, <1>4 DEF Known, ActiveSessions
<1>6. \A u \in Known : u <= s
  <2>1. ASSUME NEW u \in Known, ~(u <= s) PROVE FALSE
    <3>1. u \in SessionIds /\ s <= u
      BY <2>1, SessionsAssumption DEF Known, SessionIds
    <3>2. QED
      BY <1>1, <1>3, <3>1 DEF CalmTables
  <2>2. QED
    BY <2>1
<1>7. Latest(s)'
  BY <1>5, <1>6, SessionsAssumption DEF Latest, SessionIds
<1>8. CalmTables'
  <2>1. \A k \in Known', u \in SessionIds : u <= k => u \in Known'
    <3>1. ASSUME NEW u \in SessionIds, u <= s PROVE u \in Known'
      BY <1>1, <1>5, <3>1, SessionsAssumption DEF SessionIds
    <3>2. QED
      BY <1>3, <1>5, <3>1 DEF CalmTables
  <2>2. QED
    BY <1>3, <1>4, <1>5, <1>7, <2>1 DEF CalmTables
<1>10. PICK q : q.op = "retire" /\ q.session = s /\ req' = [req EXCEPT ![r] = q]
  <2> DEFINE q0 == [req[r] EXCEPT !.op = "retire", !.session = s]
  <2>1. q0.op = "retire" /\ q0.session = s /\ req' = [req EXCEPT ![r] = q0]
    BY <1>1 DEF IInv, TypeOK, SessionRequest
  <2> HIDE DEF q0
  <2>2. QED
    BY <2>1
<1>11. \A t \in Terms : t[1] = s => terms'[t] = "none"
  BY <1>1, <1>3, <1>4 DEF CalmTables
<1>12. CalmHandler(q)'
  BY <1>7, <1>10, <1>11 DEF CalmHandler, AtSession, AtTerm
<1>13. QED
  BY <1>2, <1>8, <1>10, <1>12, CalmGoesOn DEF Between

\* Nothing is to be shown of a request that is refused here.
LEMMA CalmRetire ==
  ASSUME IInv, CalmInv, calm, NEW r \in Requests, RetireSessions(r) PROVE CalmInv'
<1>1. SUFFICES ASSUME calm' PROVE CalmInv'
  BY DEF CalmInv
<1>2. req[r].op = "retire" /\ terms' = terms
  BY DEF RetireSessions
<1>3. req[r].number <= TermCount
  BY <1>1, Zenon DEF RetireSessions
<1>4. req[r] \in SessionRequest /\ RequestOK(req[r])
  BY DEF IInv, TypeOK
<1>5. req[r].number \in Numbers /\ req[r].session \in SessionIds
  BY <1>2, <1>4 DEF RequestOK
<1>6. PICK term, q :
        /\ term \in Terms /\ term[1] = req[r].session /\ req' = [req EXCEPT ![r] = q]
        /\ q.op = "addTerm" /\ q.session = req[r].session /\ q.term = term /\ q.row = 1
  <2> DEFINE t0 == <<req[r].session, req[r].number>>
             q0 == [req[r] EXCEPT !.op = "addTerm", !.row = 1, !.term = t0]
  <2>1. ~(req[r].number > TermCount)
    BY <1>3, <1>5, SessionsAssumption DEF Numbers
  <2>2. req' = [req EXCEPT ![r] = q0]
    BY <2>1 DEF RetireSessions
  <2>3. t0 \in Terms /\ t0[1] = req[r].session
    BY <1>5 DEF Terms
  <2>4. q0.op = "addTerm" /\ q0.session = req[r].session /\ q0.term = t0 /\ q0.row = 1
    BY <1>4 DEF SessionRequest
  <2> HIDE DEF q0, t0
  <2>5. QED
    BY <2>2, <2>3, <2>4
<1>7. CalmTables /\ CalmHandler(req[r])
  BY DEF CalmInv
<1>8. Latest(req[r].session) /\ \A t \in Terms : t[1] = req[r].session => terms[t] = "none"
  BY <1>2, <1>7 DEF CalmHandler, AtSession
<1>9. \A s \in SessionIds : sessions'[s] = IF s # req[r].session /\ sessions[s] = "ACTIVE"
                                           THEN "COMPLETED" ELSE sessions[s]
  BY DEF RetireSessions
<1>10. Known' = Known /\ ActiveSessions' \subseteq ActiveSessions
  BY <1>9 DEF Known, ActiveSessions
<1>11. CalmTables'
  BY <1>2, <1>7, <1>10 DEF CalmTables, Latest
<1>13. 1 \in 1 .. TermCount
  BY <1>3, <1>5, SessionsAssumption DEF Numbers
<1>15. CalmHandler(q)'
  BY <1>2, <1>6, <1>8, <1>10, <1>13 DEF CalmHandler, AtSession, AtTerm, Latest
<1>16. QED
  BY <1>2, <1>6, <1>11, <1>15, CalmGoesOn DEF Between

LEMMA CalmAddTerm ==
  ASSUME IInv, CalmInv, calm, NEW r \in Requests, AddTerm(r) PROVE CalmInv'
<1> DEFINE t == <<req[r].session, req[r].row>>
           v == FirstStatus(req[r].row, req[r].number)
<1>1. req[r].op = "addTerm"
  BY DEF AddTerm
<1>2. req[r] \in SessionRequest /\ CalmTables /\ CalmHandler(req[r])
  BY DEF CalmInv, IInv, TypeOK
<1>3. /\ Latest(req[r].session) /\ req[r].row \in 1 .. TermCount
      /\ req[r].term \in Terms /\ Latest(req[r].term[1])
      /\ \A u \in Terms : u[1] = req[r].session /\ u[2] >= req[r].row => terms[u] = "none"
  BY <1>1, <1>2 DEF CalmHandler, AtSession, AtTerm
<1>4. t \in Terms /\ t[1] = req[r].session /\ t[2] = req[r].row
  BY <1>3, LatestTyped, SessionsAssumption DEF Terms, Numbers
<1>5. terms[t] = "none"
  BY <1>3, <1>4
<1>6. v \in TermStatus
  BY DEF FirstStatus, TermStatus
<1>7. SetTerms({t}, v)
  BY <1>5 DEF AddTerm
<1>8. /\ CalmTables' /\ \A s : Latest(s)' <=> Latest(s)
      /\ \A u \in Terms : terms'[u] = IF u \in {t} THEN v ELSE terms[u]
  <2>1. \A u \in {t} : u \in Terms => u[1] \in Known
    BY <1>3, <1>4, LatestTyped
  <2> HIDE DEF t, v
  <2>2. QED
    BY <1>2, <1>6, <1>7, <2>1, CalmTermsWrite
<1>9. CASE req[r].row < TermCount
  <2>1. PICK q : /\ q.op = "addTerm" /\ q.row = req[r].row + 1
                 /\ q.session = req[r].session /\ q.term = req[r].term
                 /\ req' = [req EXCEPT ![r] = q]
    <3> DEFINE q0 == [req[r] EXCEPT !.row = @ + 1]
    <3>1. /\ q0.op = "addTerm" /\ q0.row = req[r].row + 1
          /\ q0.session = req[r].session /\ q0.term = req[r].term
      BY <1>1, <1>2 DEF SessionRequest
    <3>2. req' = [req EXCEPT ![r] = q0]
      BY <1>5, <1>9 DEF AddTerm
    <3> HIDE DEF q0
    <3>3. QED
      BY <3>1, <3>2
  <2>2. q.row \in 1 .. TermCount
    BY <1>3, <1>9, <2>1, SessionsAssumption
  <2>3. ASSUME NEW u \in Terms, u[1] = q.session, u[2] >= q.row
        PROVE  terms'[u] = "none"
    <3>1. u[2] \in Nat /\ req[r].row \in Nat
      BY <1>3, SessionsAssumption DEF Terms, Numbers
    <3>2. u[2] >= req[r].row /\ u[2] # t[2]
      BY <1>4, <2>1, <2>3, <3>1
    <3>3. QED
      BY <1>3, <1>8, <2>1, <2>3, <3>2
  <2>4. CalmHandler(q)'
    BY <1>3, <1>8, <2>1, <2>2, <2>3 DEF CalmHandler, AtSession, AtTerm
  <2>5. QED
    BY <1>1, <1>8, <2>1, <2>4, CalmGoesOn DEF Between
<1>10. CASE ~(req[r].row < TermCount)
  <2>1. PICK q : /\ q.op = "endTerms"
                 /\ q.session = req[r].session /\ q.term = req[r].term
                 /\ req' = [req EXCEPT ![r] = q]
    <3> DEFINE q0 == [req[r] EXCEPT !.op = "endTerms", !.row = 0]
    <3>1. /\ q0.op = "endTerms"
          /\ q0.session = req[r].session /\ q0.term = req[r].term
      BY <1>2 DEF SessionRequest
    <3>2. req' = [req EXCEPT ![r] = q0]
      BY <1>5, <1>10 DEF AddTerm
    <3> HIDE DEF q0
    <3>3. QED
      BY <3>1, <3>2
  <2>2. CalmHandler(q)'
    BY <1>3, <1>8, <2>1 DEF CalmHandler, AtSession, AtTerm
  <2>3. QED
    BY <1>1, <1>8, <2>1, <2>2, CalmGoesOn DEF Between
<1>11. QED
  BY <1>9, <1>10

\* The other active terms, or the one before, are ended: the term is alone.
LEMMA CalmAlone ==
  ASSUME IInv, CalmTables, NEW t, Latest(t[1]), NEW T, SetTerms(T, "COMPLETED"),
         \A u \in T : u \in Terms => u[1] \in Known,
         ActiveTerms \ T \subseteq {t}
  PROVE  CalmTables' /\ TermsAgree' /\ ActiveTerms' = ActiveTerms \ T
         /\ \A s : Latest(s)' <=> Latest(s)
<1>1. "COMPLETED" \in TermStatus
  BY DEF TermStatus
<1>2. /\ CalmTables' /\ \A s : Latest(s)' <=> Latest(s)
      /\ ActiveTerms' = ActiveTerms \ T
  BY <1>1, CalmTermsWrite
<1>3. TermsAgree'
  BY <1>2 DEF TermsAgree
<1>4. QED
  BY <1>2, <1>3

LEMMA CalmEndOthers ==
  ASSUME IInv, CalmInv, calm, NEW r \in Requests, EndOtherTerms(r) PROVE CalmInv'
<1>1. req[r].op = "endTerms" /\ SetTerms(ActiveTerms \ {req[r].term}, "COMPLETED")
  BY DEF EndOtherTerms
<1>2. CalmTables /\ CalmHandler(req[r])
  BY DEF CalmInv
<1>3. Latest(req[r].term[1])
  BY <1>1, <1>2 DEF CalmHandler, AtTerm
<1>4. \A u \in ActiveTerms \ {req[r].term} : u \in Terms => u[1] \in Known
  BY <1>2 DEF CalmTables, ActiveTerms
<1>5. ActiveTerms \ (ActiveTerms \ {req[r].term}) \subseteq {req[r].term}
  OBVIOUS
<1>6. CalmTables' /\ TermsAgree'
  BY <1>1, <1>2, <1>3, <1>4, <1>5, CalmAlone
<1>7. PICK q : q.op = "previous" /\ req' = [req EXCEPT ![r] = q]
  BY GoesOnAt DEF EndOtherTerms
<1>8. CalmHandler(q)'
  BY <1>7 DEF CalmHandler, AtSession, AtTerm
<1>9. QED
  BY <1>1, <1>6, <1>7, <1>8, CalmGoesOn

LEMMA CalmActivate ==
  ASSUME IInv, CalmInv, calm, NEW r \in Requests, Activate(r) PROVE CalmInv'
<1>1. req[r].op = "activate" /\ SetTerms({req[r].term}, "ACTIVE")
  BY DEF Activate
<1>2. CalmTables /\ CalmHandler(req[r])
  BY DEF CalmInv
<1>3. /\ req[r].term \in Terms /\ Latest(req[r].term[1])
      /\ ActiveTerms \subseteq {req[r].term, req[r].prev}
      /\ req[r].prev \in Terms => req[r].prev[1] \in Known
  BY <1>1, <1>2 DEF CalmHandler, AtTerm
<1>4. "ACTIVE" \in TermStatus /\ req[r].term[1] \in Known
  BY <1>3, LatestTyped DEF TermStatus
<1>5. /\ CalmTables' /\ \A s : Latest(s)' <=> Latest(s)
      /\ ActiveTerms' = ActiveTerms \cup {req[r].term}
  BY <1>1, <1>2, <1>3, <1>4, CalmTermsWrite
<1>6. CASE req[r].prev = NoTerm /\ Goto(r, "select")
  <2>1. NoTerm \notin ActiveTerms
    BY SessionsAssumption DEF ActiveTerms
  <2>2. TermsAgree'
    BY <1>3, <1>5, <1>6, <2>1 DEF TermsAgree
  <2>3. PICK q : q.op = "select" /\ req' = [req EXCEPT ![r] = q]
    BY <1>6, GoesOnAt
  <2>4. CalmHandler(q)'
    BY <2>3 DEF CalmHandler, AtSession, AtTerm
  <2>5. QED
    BY <1>1, <1>5, <2>2, <2>3, <2>4, CalmGoesOn
<1>7. CASE Goto(r, "completePrevious")
  <2>1. PICK q : /\ q.op = "completePrevious"
                 /\ q.term = req[r].term /\ q.prev = req[r].prev
                 /\ req' = [req EXCEPT ![r] = q]
    BY <1>7, GoesOnAt
  <2>2. Known' = Known
    BY <1>1, <1>2, <1>3, <1>4, CalmTermsWrite
  <2>3. CalmHandler(q)'
    BY <1>3, <1>5, <2>1, <2>2 DEF CalmHandler, AtSession, AtTerm
  <2>4. QED
    BY <1>1, <1>5, <2>1, <2>3, CalmGoesOn DEF Between
<1>8. QED
  BY <1>6, <1>7 DEF Activate

LEMMA CalmCompletePrevious ==
  ASSUME IInv, CalmInv, calm, NEW r \in Requests, CompletePrevious(r) PROVE CalmInv'
<1>1. req[r].op = "completePrevious" /\ SetTerms({req[r].prev}, "COMPLETED")
  BY DEF CompletePrevious
<1>2. CalmTables /\ CalmHandler(req[r])
  BY DEF CalmInv
<1>3. /\ req[r].term \in Terms /\ Latest(req[r].term[1])
      /\ ActiveTerms \subseteq {req[r].term, req[r].prev}
      /\ req[r].prev \in Terms => req[r].prev[1] \in Known
  BY <1>1, <1>2 DEF CalmHandler, AtTerm
<1>4. CalmTables' /\ TermsAgree'
  <2>1. ActiveTerms \ {req[r].prev} \subseteq {req[r].term}
    BY <1>3
  <2>2. QED
    BY <1>1, <1>2, <1>3, <2>1, CalmAlone
<1>5. PICK q : q.op = "select" /\ req' = [req EXCEPT ![r] = q]
  BY GoesOnAt DEF CompletePrevious
<1>6. CalmHandler(q)'
  BY <1>5 DEF CalmHandler, AtSession, AtTerm
<1>7. QED
  BY <1>1, <1>4, <1>5, <1>6, CalmGoesOn

LEMMA CalmReading ==
  ASSUME IInv, CalmInv, calm, NEW r \in Requests, NEW q, req[r].op # "idle",
         req[r].op \notin Between, req' = [req EXCEPT ![r] = q],
         q.op \in {"idle", "select", "move", "insert", "leave"},
         sessions' = sessions, terms' = terms
  PROVE  CalmInv'
<1>1. CalmTables /\ TermsAgree
  BY DEF CalmInv, Between
<1>2. CalmTables' /\ TermsAgree'
  BY <1>1, CalmReads
<1>3. CalmHandler(q)'
  BY DEF CalmHandler, AtSession, AtTerm
<1>4. QED
  BY <1>2, <1>3, CalmGoesOn

\* The steps of the migrations, and of an admission: sessions and terms stay.
LEMMA CalmMigration ==
  ASSUME IInv, CalmInv, calm, NEW r \in Requests,
         \/ FindPrevious(r) \/ SelectEnrollments(r) \/ CarryInsert(r)
         \/ \E e \in req[r].todo : CarryCheck(r, e) \/ Promote(r, e)
         \/ LeaveOld(r) \/ MigrationDone(r)
         \/ \E level \in Levels : AdmitWrite(r, level)
  PROVE  CalmInv'
<1>1. req[r] \in SessionRequest
  BY DEF IInv, TypeOK
<1>2. /\ req[r].op \in {"previous", "select", "move", "insert", "leave", "admit"}
      /\ sessions' = sessions /\ terms' = terms
  BY DEF FindPrevious, SelectEnrollments, CarryInsert, CarryCheck, Promote, LeaveOld,
         MigrationDone, AdmitWrite, OnlyReq, SetRoll
<1> DEFINE To(op) == \E q : q.op = op /\ req' = [req EXCEPT ![r] = q]
<1>3. PICK op \in {"idle", "select", "move", "insert", "leave"} : To(op)
  <2>1. Finish(r) => To("idle")
    <3>1. Idle.op = "idle"
      BY DEF Idle
    <3>2. QED
      BY <3>1 DEF Finish
  <2>2. ASSUME NEW e, req' = Moved(r, e)
        PROVE  To("move")
    BY <2>2, MovedOK
  <2>3. ASSUME NEW e \in req[r].todo, NEW o \in {"insert", "leave"}, req' = At(r, e, o)
        PROVE  To(o)
    BY <2>3, AtOK
  <2>4. CASE FindPrevious(r)
    <3> DEFINE p == Newest({t \in Terms \ {req[r].term} :
                              terms[t] \in {"ACTIVE", "COMPLETED"}})
               q0 == [req[r] EXCEPT !.op = "select", !.prev = p]
    <3>1. req' = [req EXCEPT ![r] = q0]
      BY <2>4 DEF FindPrevious
    <3>2. q0.op = "select"
      <4> HIDE DEF p
      <4>1. QED
        BY <1>1 DEF SessionRequest
    <3> HIDE DEF q0
    <3>3. To("select")
      BY <3>1, <3>2
    <3> HIDE DEF To
    <3>4. QED
      BY <3>3
  <2>5. CASE SelectEnrollments(r)
    <3> DEFINE S == Selected(req[r].prev)
               q0 == [req[r] EXCEPT !.op = "move", !.todo = S]
    <3>1. req' = [req EXCEPT ![r] = q0]
      BY <2>5 DEF SelectEnrollments
    <3>2. q0.op = "move"
      <4> HIDE DEF S
      <4>1. QED
        BY <1>1 DEF SessionRequest
    <3> HIDE DEF q0
    <3>3. To("move")
      BY <3>1, <3>2
    <3> HIDE DEF To
    <3>4. QED
      BY <3>3
  <2> HIDE DEF To
  <2>6. CASE CarryInsert(r)
    BY <2>1, <2>2, <2>6 DEF CarryInsert
  <2>7. CASE \E e \in req[r].todo : CarryCheck(r, e)
    BY <2>2, <2>3, <2>7 DEF CarryCheck
  <2>8. CASE \E e \in req[r].todo : Promote(r, e)
    BY <2>1, <2>2, <2>3, <2>8 DEF Promote
  <2>9. CASE LeaveOld(r)
    BY <2>2, <2>9 DEF LeaveOld
  <2>10. CASE MigrationDone(r) \/ \E level \in Levels : AdmitWrite(r, level)
    BY <2>1, <2>10 DEF MigrationDone, AdmitWrite
  <2>11. QED
    BY <2>4, <2>5, <2>6, <2>7, <2>8, <2>9, <2>10
<1>4. PICK q : q.op = op /\ req' = [req EXCEPT ![r] = q]
  BY <1>3
<1>5. QED
  BY <1>2, <1>3, <1>4, CalmReading DEF Between

\* endTerm, endSession and reactivateTerm: the terms are ended first.
LEMMA CalmEndTerms ==
  ASSUME IInv, CalmInv, calm, NEW r \in Requests, NEW T, SetTerms(T, "COMPLETED"),
         \A u \in T : u \in Terms => u[1] \in Known,
         req[r].op \in AtSession \ Between
  PROVE  /\ CalmTables' /\ TermsAgree' /\ ActiveTerms' = ActiveTerms \ T
         /\ Known' = Known
<1>1. CalmTables /\ TermsAgree
  BY DEF CalmInv, AtSession, Between
<1>2. "COMPLETED" \in TermStatus
  BY DEF TermStatus
<1>3. /\ CalmTables' /\ \A s : Latest(s)' <=> Latest(s)
      /\ ActiveTerms' = ActiveTerms \ T /\ Known' = Known
  BY <1>1, <1>2, CalmTermsWrite
<1>4. QED
  BY <1>1, <1>3 DEF TermsAgree

LEMMA CalmEndTerm ==
  ASSUME IInv, CalmInv, calm, NEW r \in Requests, EndTermWrite(r) PROVE CalmInv'
<1>1. req[r].op = "endTerm" /\ SetTerms({req[r].term}, "COMPLETED")
  BY DEF EndTermWrite
<1>2. CalmHandler(req[r])
  BY DEF CalmInv
<1>3. Latest(req[r].session) /\ req[r].term[1] \in Known
  BY <1>1, <1>2, LatestTyped DEF CalmHandler, AtSession
<1>4. CalmTables' /\ TermsAgree' /\ Known' = Known
  BY <1>1, <1>3, CalmEndTerms DEF AtSession, Between
<1>5. PICK q : /\ q.op = "count" /\ q.session = req[r].session
               /\ req' = [req EXCEPT ![r] = q]
  BY GoesOnAt DEF EndTermWrite
<1>6. CalmHandler(q)'
  BY <1>3, <1>4, <1>5 DEF CalmHandler, AtSession, AtTerm, Latest
<1>7. QED
  BY <1>1, <1>4, <1>5, <1>6, CalmGoesOn

LEMMA CalmEndSessionTerms ==
  ASSUME IInv, CalmInv, calm, NEW r \in Requests, EndSessionTerms(r) PROVE CalmInv'
<1> DEFINE T == {t \in Terms : t[1] = req[r].session /\ terms[t] # "none"}
<1>1. req[r].op = "endSessionTerms" /\ SetTerms(T, "COMPLETED")
  BY DEF EndSessionTerms
<1>2. CalmHandler(req[r])
  BY DEF CalmInv
<1>3. Latest(req[r].session)
  BY <1>1, <1>2 DEF CalmHandler, AtSession
<1>4. \A u \in T : u \in Terms => u[1] \in Known
  BY <1>3, LatestTyped
<1>5. CalmTables' /\ TermsAgree' /\ Known' = Known
  <2> HIDE DEF T
  <2>1. QED
    BY <1>1, <1>4, CalmEndTerms DEF AtSession, Between
<1>6. PICK q : /\ q.op = "endSession" /\ q.session = req[r].session
               /\ req' = [req EXCEPT ![r] = q]
  BY GoesOnAt DEF EndSessionTerms
<1>7. CalmHandler(q)'
  BY <1>3, <1>5, <1>6 DEF CalmHandler, AtSession, AtTerm, Latest
<1>8. QED
  BY <1>1, <1>5, <1>6, <1>7, CalmGoesOn

LEMMA CalmEndSession ==
  ASSUME IInv, CalmInv, calm, NEW r \in Requests, EndSessionWrite(r) \/ Reopen(r)
  PROVE  CalmInv'
<1>1. req[r].op \in {"endSession", "reopen"}
  BY DEF EndSessionWrite, Reopen
<1>2. CalmTables /\ TermsAgree /\ CalmHandler(req[r])
  BY <1>1 DEF CalmInv, Between
<1>3. Latest(req[r].session)
  BY <1>1, <1>2 DEF CalmHandler, AtSession
<1>4. PICK v \in {"ACTIVE", "COMPLETED"} : SetSession(req[r].session, v)
  BY DEF EndSessionWrite, Reopen
<1>5. CalmTables' /\ TermsAgree'
  BY <1>2, <1>3, <1>4, LatestTyped, CalmSessionWrite
<1>6. QED
  BY <1>1, <1>5, CalmEnds DEF EndSessionWrite, Reopen

LEMMA CalmEndSiblings ==
  ASSUME IInv, CalmInv, calm, NEW r \in Requests, EndSiblings(r) PROVE CalmInv'
<1> DEFINE T == {t \in ActiveTerms : t[1] = req[r].session}
<1>1. req[r].op = "endSiblings" /\ SetTerms(T, "COMPLETED")
  BY DEF EndSiblings
<1>2. CalmTables /\ TermsAgree /\ CalmHandler(req[r])
  BY <1>1 DEF CalmInv, Between
<1>3. /\ Latest(req[r].session)
      /\ req[r].term \in Terms /\ Latest(req[r].term[1])
  BY <1>1, <1>2 DEF CalmHandler, AtSession, AtTerm
<1>4. \A u \in T : u \in Terms => u[1] \in Known
  BY <1>3, LatestTyped
<1>5. CalmTables' /\ TermsAgree' /\ Known' = Known /\ ActiveTerms' = ActiveTerms \ T
  <2> HIDE DEF T
  <2>1. QED
    BY <1>1, <1>4, CalmEndTerms DEF AtSession, Between
<1>6. ActiveTerms \ T = {}
  BY <1>2, <1>3, LatestTyped, LatestOne DEF TermsAgree
<1>7. PICK q : /\ q.op = "reactivate" /\ q.session = req[r].session
               /\ q.term = req[r].term /\ req' = [req EXCEPT ![r] = q]
  BY GoesOnAt DEF EndSiblings
<1>8. CalmHandler(q)'
  <2> HIDE DEF T
  <2>1. QED
    BY <1>3, <1>5, <1>6, <1>7 DEF CalmHandler, AtSession, AtTerm, Latest
<1>9. QED
  BY <1>1, <1>5, <1>7, <1>8, CalmGoesOn

LEMMA CalmReactivate ==
  ASSUME IInv, CalmInv, calm, NEW r \in Requests, ReactivateWrite(r) PROVE CalmInv'
<1>1. req[r].op = "reactivate" /\ SetTerms({req[r].term}, "ACTIVE")
  BY DEF ReactivateWrite
<1>2. CalmTables /\ CalmHandler(req[r])
  BY DEF CalmInv
<1>3. /\ Latest(req[r].session) /\ ActiveTerms = {}
      /\ req[r].term \in Terms /\ Latest(req[r].term[1])
  BY <1>1, <1>2 DEF CalmHandler, AtSession, AtTerm
<1>4. "ACTIVE" \in TermStatus /\ req[r].term[1] \in Known
  BY <1>3, LatestTyped DEF TermStatus
<1>5. /\ CalmTables' /\ \A s : Latest(s)' <=> Latest(s)
      /\ ActiveTerms' = ActiveTerms \cup {req[r].term}
  BY <1>1, <1>2, <1>3, <1>4, CalmTermsWrite
<1>6. TermsAgree'
  BY <1>3, <1>5 DEF TermsAgree
<1>7. PICK q : /\ q.op = "reopen" /\ q.session = req[r].session
               /\ req' = [req EXCEPT ![r] = q]
  BY GoesOnAt DEF ReactivateWrite
<1>8. CalmHandler(q)'
  BY <1>3, <1>5, <1>7 DEF CalmHandler, AtSession, AtTerm
<1>9. QED
  BY <1>1, <1>5, <1>6, <1>7, <1>8, CalmGoesOn

LEMMA CalmCreateTerm ==
  ASSUME IInv, CalmInv, NEW t \in Terms, CreateTerm(t) PROVE CalmInv'
<1>1. SUFFICES ASSUME calm' PROVE CalmInv'
  BY DEF CalmInv
<1>2. calm /\ Quiet
  BY <1>1, Zenon DEF CreateTerm
<1>3. \A p \in Requests : req[p].op = "idle"
  BY <1>2 DEF Quiet
<1>4. CalmTables /\ TermsAgree
  BY <1>2, <1>3 DEF CalmInv, Between
<1>5. /\ sessions' = sessions /\ req' = req
      /\ sessions[t[1]] # "none" /\ t[1] \in SessionIds
      /\ \A u \in Terms : terms'[u] = IF u = t THEN "DRAFT" ELSE terms[u]
      /\ terms[t] = "none"
  BY DEF CreateTerm, IInv, TypeOK, Terms
<1>6. /\ Known' = Known /\ ActiveSessions' = ActiveSessions
      /\ ActiveTerms' = ActiveTerms
  BY <1>5 DEF Known, ActiveSessions, ActiveTerms
<1>7. \A s : Latest(s)' <=> Latest(s)
  BY <1>6 DEF Latest
<1>8. CalmTables'
  BY <1>4, <1>5, <1>6, <1>7 DEF CalmTables, Known
<1>9. TermsAgree'
  BY <1>4, <1>6, <1>7 DEF TermsAgree
<1>10. ASSUME NEW p \in Requests PROVE CalmHandler(req[p])'
  BY <1>3, <1>5 DEF CalmHandler, AtSession, AtTerm
<1>11. QED
  BY <1>3, <1>5, <1>8, <1>9, <1>10 DEF CalmInv

LEMMA CalmStep ==
  ASSUME IInv, CalmInv, NEW r \in Requests, Step(r) PROVE CalmInv'
<1>1. CASE calm
  BY <1>1, CalmCount, CalmClose, CalmCreate, CalmRetire, CalmAddTerm, CalmEndOthers,
     CalmActivate, CalmCompletePrevious, CalmMigration, CalmEndTerm,
     CalmEndSessionTerms, CalmEndSession, CalmEndSiblings, CalmReactivate DEF Step
<1>2. CASE ~calm
  <2>1. calm' = calm \/ calm' = (calm /\ req[r].number <= TermCount)
    BY DEF Step, Count, Close, CreateSession, RetireSessions, AddTerm, EndOtherTerms,
       FindPrevious, Activate, CompletePrevious, SelectEnrollments, CarryCheck,
       Promote, CarryInsert, LeaveOld, MigrationDone, EndTermWrite, EndSessionTerms,
       EndSessionWrite, EndSiblings, ReactivateWrite, Reopen, AdmitWrite,
       OnlyReq, SetSession, SetTerms, SetRoll
  <2>2. ~calm'
    BY <1>2, <2>1, Zenon
  <2>3. QED
    BY <2>2 DEF CalmInv
<1>3. QED
  BY <1>1, <1>2

LEMMA CalmInvariance ==
  ASSUME IInv, CalmInv, [Next]_vars PROVE CalmInv'
<1>1. CASE UNCHANGED vars
  BY <1>1 DEF vars, CalmInv, CalmTables, CalmHandler, TermsAgree, Latest, Known,
              ActiveSessions, ActiveTerms
<1>2. ASSUME NEW r \in Requests, Fail(r) PROVE CalmInv'
  BY <1>2 DEF Fail, CalmInv
<1>3. QED
  BY <1>1, <1>2, CalmArrive, CalmStep, CalmCreateTerm DEF Next

LEMMA CalmInit ==
  ASSUME Init PROVE CalmInv
<1>1. /\ Known = {} /\ ActiveSessions = {} /\ ActiveTerms = {}
      /\ \A t \in Terms : terms[t] = "none"
  BY DEF Init, Known, ActiveSessions, ActiveTerms
<1>2. \A r \in Requests : req[r] = Idle /\ req[r].op = "idle"
  BY DEF Init, Idle
<1>3. \A r \in Requests : CalmHandler(req[r])
  BY <1>2, IdleCalm
<1>4. QED
  BY <1>1, <1>2, <1>3 DEF CalmInv, CalmTables, TermsAgree
-----------------------------------------------------------------------------
(* Migrations.  While requests come one at a time, each enrollment of the  *)
(* previous term or of no term that is still active is one the migration   *)
(* has yet to come to, the one it is at, or one it has dealt with.         *)

Moving == {"move", "insert", "leave"}

WithTerm == Moving \cup {"addTerm", "endTerms", "previous", "activate",
                         "completePrevious", "select"}

WithBoth == Moving \cup {"activate", "completePrevious", "select"}

Concerned(q, st, i) ==
  roll[st][i].active /\ roll[st][i].term \in {q.prev, NoTerm}

DealtWith(q, st, i) ==
  IF q.carry THEN EnrolledIn(st, q.term) ELSE roll[st][i].level = 0

MigrationOK(q) ==
  /\ q.op \in WithTerm => q.term \in Terms
  /\ q.op \in WithBoth => q.prev # q.term
  /\ (q.op = "insert" => q.carry) /\ (q.op = "leave" => ~q.carry)
  /\ q.op \in Moving =>
       \A st \in Students : \A i \in DOMAIN roll[st] : Concerned(q, st, i) =>
         \/ <<st, i>> \in q.todo
         \/ q.op # "move" /\ q.student = st /\ q.row = i
         \/ DealtWith(q, st, i)

MigrationInv == calm => \A r \in Requests : MigrationOK(req[r])

LEMMA IdleMigrates ==
  ASSUME NEW q, q.op = "idle" PROVE MigrationOK(q) /\ MigrationOK(q)'
  BY DEF MigrationOK, Moving, WithTerm, WithBoth

\* Not one of the steps that write enrollments, nor about to take one.
LEMMA ReadyOK ==
  ASSUME NEW q, q.op \notin Moving, q.op \in WithTerm => q.term \in Terms,
         q.op \in WithBoth => q.prev # q.term
  PROVE  MigrationOK(q) /\ MigrationOK(q)'
  BY DEF MigrationOK, Moving

\* The handler of r, the only one, goes on as q.
LEMMA MigrationGoesOn ==
  ASSUME IInv, CalmInv, calm, NEW r \in Requests, req[r].op # "idle",
         NEW q, req' = [req EXCEPT ![r] = q], MigrationOK(q)'
  PROVE  MigrationInv'
<1>1. \A p \in Requests : req'[p] = IF p = r THEN q ELSE req[p]
  BY DEF IInv, TypeOK
<1>2. ASSUME NEW p \in Requests \ {r} PROVE MigrationOK(req[p])'
  <2>1. req'[p].op = "idle"
    BY <1>1 DEF CalmInv
  <2>2. QED
    BY <2>1 DEF MigrationOK, Moving, WithTerm, WithBoth
<1>3. QED
  BY <1>1, <1>2 DEF MigrationInv

LEMMA MigrationEnds ==
  ASSUME IInv, CalmInv, calm, NEW r \in Requests, req[r].op # "idle", Finish(r)
  PROVE  MigrationInv'
<1>1. MigrationOK(Idle)'
  BY IdleMigrates DEF Idle
<1>2. QED
  BY <1>1, MigrationGoesOn DEF Finish

LEMMA MigrationBegins ==
  ASSUME IInv, NEW r \in Requests, NEW q, NEW b \in BOOLEAN, Begin(r, q, b),
         q.op \notin Moving, q.op \in WithTerm => q.term \in Terms,
         q.op \in WithBoth => q.prev # q.term
  PROVE  MigrationInv'
<1>1. SUFFICES ASSUME calm' PROVE \A p \in Requests : MigrationOK(req[p])'
  BY DEF MigrationInv
<1>2. Quiet
  BY <1>1, Zenon DEF Begin
<1>3. \A p \in Requests : req'[p] = IF p = r THEN q ELSE req[p]
  BY DEF Begin, IInv, TypeOK
<1>4. MigrationOK(q)'
  BY ReadyOK
<1>5. ASSUME NEW p \in Requests \ {r} PROVE MigrationOK(req[p])'
  <2>1. req'[p].op = "idle"
    BY <1>2, <1>3 DEF Quiet
  <2>2. QED
    BY <2>1 DEF MigrationOK, Moving, WithTerm, WithBoth
<1>6. QED
  BY <1>3, <1>4, <1>5

LEMMA MigrationArrive ==
  ASSUME IInv, NEW r \in Requests, Receive(r) PROVE MigrationInv'
<1> USE DEF Idle, Moving, WithTerm, WithBoth
<1>1. ASSUME NEW n \in 1 .. MaxNumber, NEW c \in BOOLEAN, StartSession(r, n, c)
      PROVE  MigrationInv'
  <2> DEFINE rec == [Idle EXCEPT !.new = TRUE, !.number = n, !.carry = c]
  <2>1. Begin(r, [rec EXCEPT !.op = "create"], TRUE)
          \/ \E s \in SessionIds : Begin(r, [rec EXCEPT !.op = "count", !.session = s], TRUE)
    BY <1>1 DEF StartSession, ActiveSessions
  <2>2. QED
    BY <2>1, MigrationBegins
<1>2. ASSUME NEW t \in Terms, StartTerm(r, t) PROVE MigrationInv'
  <2> DEFINE T == {u \in ActiveTerms \ {t} : u[1] = t[1]}
             b == \A s \in Known : s <= t[1]
             q == [Idle EXCEPT !.op = "activate", !.term = t, !.carry = TRUE,
                               !.prev = Newest(T)]
  <2>1. Newest(T) \in T \cup {NoTerm}
    BY NewestIn DEF ActiveTerms
  <2>2. Newest(T) # t
    BY <2>1, SessionsAssumption
  <2>3. Begin(r, q, b) /\ b \in BOOLEAN
    BY <1>2 DEF StartTerm
  <2>4. q.op = "activate" /\ q.term = t /\ q.prev = Newest(T)
    OBVIOUS
  <2> HIDE DEF T, b, q
  <2>5. QED
    BY <2>2, <2>3, <2>4, MigrationBegins
<1>3. ASSUME NEW t \in Terms, Reactivate(r, t) PROVE MigrationInv'
  <2> DEFINE b == \A s \in Known : s <= t[1]
             q == [Idle EXCEPT !.op = "endSiblings", !.term = t, !.session = t[1]]
  <2>1. Begin(r, q, b) /\ b \in BOOLEAN
    BY <1>3 DEF Reactivate
  <2>2. q.op = "endSiblings"
    OBVIOUS
  <2> HIDE DEF b, q
  <2>3. QED
    BY <2>1, <2>2, MigrationBegins
<1>4. ASSUME NEW t \in Terms, NEW c \in BOOLEAN, Migrate(r, t, c) PROVE MigrationInv'
  <2> DEFINE T == {u \in Terms : u[1] = t[1] /\ u[2] < t[2] /\ terms[u] # "none"}
             rec == [Idle EXCEPT !.term = t, !.carry = c]
             q == [rec EXCEPT !.op = "select", !.prev = Newest(T)]
  <2>1. Newest(T) \in T \cup {NoTerm}
    BY NewestIn
  <2>2. t \notin T
    BY SessionsAssumption DEF Terms, Numbers
  <2>3. Newest(T) # t
    BY <2>1, <2>2, SessionsAssumption
  <2>4. CASE Begin(r, q, TRUE)
    <3>1. q.op = "select" /\ q.term = t /\ q.prev = Newest(T)
      OBVIOUS
    <3> HIDE DEF T, q
    <3>2. QED
      BY <2>3, <2>4, <3>1, MigrationBegins
  <2>5. CASE Begin(r, [rec EXCEPT !.op = "previous"], TRUE)
    BY <2>5, MigrationBegins
  <2>6. QED
    BY <1>4, <2>4, <2>5 DEF Migrate
<1>5. CASE EndTerm(r)
  <2>1. PICK t \in ActiveTerms :
          Begin(r, [Idle EXCEPT !.op = "endTerm", !.term = t, !.session = t[1]], TRUE)
    BY <1>5 DEF EndTerm
  <2>2. QED
    BY <2>1, MigrationBegins
<1>6. CASE EndSession(r)
  <2>1. PICK s \in ActiveSessions :
          Begin(r, [Idle EXCEPT !.op = "endSessionTerms", !.session = s], TRUE)
    BY <1>6 DEF EndSession
  <2>2. QED
    BY <2>1, MigrationBegins
<1>7. ASSUME NEW st \in Students, AdmitRead(r, st) PROVE MigrationInv'
  <2>1. PICK t \in Terms \cup {NoTerm} :
          Begin(r, [Idle EXCEPT !.op = "admit", !.student = st, !.term = t], TRUE)
    BY <1>7 DEF AdmitRead
  <2>2. QED
    BY <2>1, MigrationBegins
<1>8. QED
  BY <1>1, <1>2, <1>3, <1>4, <1>5, <1>6, <1>7 DEF Receive

\* The steps before a migration, and those of the other handlers.
LEMMA MigrationReady ==
  ASSUME IInv, CalmInv, MigrationInv, calm, NEW r \in Requests,
         \/ Count(r) \/ Close(r) \/ CreateSession(r) \/ RetireSessions(r)
         \/ AddTerm(r) \/ EndOtherTerms(r) \/ FindPrevious(r)
         \/ Activate(r) \/ CompletePrevious(r)
         \/ EndTermWrite(r) \/ EndSessionTerms(r) \/ EndSessionWrite(r)
         \/ EndSiblings(r) \/ ReactivateWrite(r) \/ Reopen(r)
         \/ \E level \in Levels : AdmitWrite(r, level)
  PROVE  MigrationInv'
<1>1. req[r] \in SessionRequest /\ RequestOK(req[r]) /\ MigrationOK(req[r])
  BY DEF IInv, TypeOK, MigrationInv
<1>2. CASE req[r].op # "idle" /\ Finish(r)
  BY <1>2, MigrationEnds
<1>3. ASSUME NEW op \in {"close", "create", "previous", "completePrevious", "select",
                         "count", "endSession", "reactivate", "reopen"},
             req[r].op # "idle", Goto(r, op),
             op \in WithTerm => req[r].op \in WithTerm,
             op \in WithBoth => req[r].op \in WithBoth
      PROVE  MigrationInv'
  <2>1. PICK q : /\ req' = [req EXCEPT ![r] = q]
                 /\ q.op = op /\ q.term = req[r].term /\ q.prev = req[r].prev
    <3> DEFINE q == [req[r] EXCEPT !.op = op]
    <3>1. q.op = op /\ q.term = req[r].term /\ q.prev = req[r].prev
      BY <1>1 DEF SessionRequest
    <3>2. req' = [req EXCEPT ![r] = q]
      BY <1>3 DEF Goto
    <3> HIDE DEF q
    <3>3. QED
      BY <3>1, <3>2
  <2>2. MigrationOK(q)'
    BY <1>1, <1>3, <2>1, ReadyOK DEF MigrationOK, Moving
  <2>3. QED
    BY <1>3, <2>1, <2>2, MigrationGoesOn
<1>4. CASE Count(r) \/ Close(r) \/ EndOtherTerms(r) \/ Activate(r) \/ CompletePrevious(r)
           \/ EndTermWrite(r) \/ EndSessionTerms(r) \/ EndSessionWrite(r)
           \/ EndSiblings(r) \/ ReactivateWrite(r) \/ Reopen(r)
           \/ \E level \in Levels : AdmitWrite(r, level)
  <2> USE DEF WithTerm, WithBoth, Moving
  <2>1. CASE Count(r) \/ Close(r)
    BY <1>2, <1>3, <2>1 DEF Count, Close
  <2>2. CASE EndOtherTerms(r) \/ Activate(r) \/ CompletePrevious(r)
    <3>1. CASE Goto(r, "completePrevious") /\ req[r].op = "activate"
      BY <1>3, <3>1
    <3>2. CASE Goto(r, "select") /\ req[r].op \in {"activate", "completePrevious"}
      BY <1>3, <3>2
    <3>3. CASE Goto(r, "previous") /\ req[r].op = "endTerms"
      BY <1>3, <3>3
    <3>4. QED
      BY <2>2, <3>1, <3>2, <3>3 DEF EndOtherTerms, Activate, CompletePrevious
  <2>3. CASE EndTermWrite(r) \/ EndSessionTerms(r)
    BY <1>3, <2>3 DEF EndTermWrite, EndSessionTerms
  <2>4. CASE EndSiblings(r) \/ ReactivateWrite(r)
    BY <1>3, <2>4 DEF EndSiblings, ReactivateWrite
  <2>5. CASE EndSessionWrite(r) \/ Reopen(r) \/ \E level \in Levels : AdmitWrite(r, level)
    BY <1>2, <2>5 DEF EndSessionWrite, Reopen, AdmitWrite
  <2>6. QED
    BY <1>4, <2>1, <2>2, <2>3, <2>4, <2>5
<1>5. CASE CreateSession(r)
  <2>1. PICK s \in SessionIds :
          req' = [req EXCEPT ![r].op = "retire", ![r].session = s]
    BY <1>5 DEF CreateSession
  <2>2. PICK q : req' = [req EXCEPT ![r] = q] /\ q.op = "retire"
    <3> DEFINE q == [req[r] EXCEPT !.op = "retire", !.session = s]
    <3>1. q.op = "retire" /\ req' = [req EXCEPT ![r] = q]
      BY <1>1, <2>1 DEF SessionRequest
    <3> HIDE DEF q
    <3>2. QED
      BY <3>1
  <2>3. MigrationOK(q)'
    BY <2>2, ReadyOK DEF Moving, WithTerm, WithBoth
  <2>4. QED
    BY <1>5, <2>2, <2>3, MigrationGoesOn DEF CreateSession
<1>6. CASE RetireSessions(r)
  <2>1. req[r].op = "retire"
    BY <1>6 DEF RetireSessions
  <2>2. CASE Finish(r)
    BY <1>2, <2>1, <2>2
  <2>3. CASE ~Finish(r)
    <3> DEFINE t == <<req[r].session, req[r].number>>
    <3>1. t \in Terms
      BY <1>1, <2>1 DEF RequestOK, Terms
    <3>2. PICK q : req' = [req EXCEPT ![r] = q] /\ q.op = "addTerm" /\ q.term = t
      <4> DEFINE q == [req[r] EXCEPT !.op = "addTerm", !.row = 1, !.term = t]
      <4>1. req' = [req EXCEPT ![r] = q]
        BY <1>6, <2>3 DEF RetireSessions
      <4> HIDE DEF t
      <4>2. q.op = "addTerm" /\ q.term = t
        BY <1>1 DEF SessionRequest
      <4> HIDE DEF q
      <4>3. QED
        BY <4>1, <4>2
    <3>3. MigrationOK(q)'
      BY <3>1, <3>2, ReadyOK DEF Moving, WithTerm, WithBoth
    <3>4. QED
      BY <2>1, <3>2, <3>3, MigrationGoesOn
  <2>4. QED
    BY <2>2, <2>3
<1>7. CASE AddTerm(r)
  <2>1. req[r].op = "addTerm"
    BY <1>7 DEF AddTerm
  <2>2. CASE Finish(r)
    BY <1>2, <2>1, <2>2
  <2>3. CASE ~Finish(r)
    <3> DEFINE q1 == [req[r] EXCEPT !.row = @ + 1]
               q2 == [req[r] EXCEPT !.op = "endTerms", !.row = 0]
    <3>1. /\ q1.op = "addTerm" /\ q1.term = req[r].term
          /\ q2.op = "endTerms" /\ q2.term = req[r].term
      BY <1>1, <2>1 DEF SessionRequest
    <3>2. req' = [req EXCEPT ![r] = q1] \/ req' = [req EXCEPT ![r] = q2]
      BY <1>7, <2>3 DEF AddTerm
    <3> HIDE DEF q1, q2
    <3>3. PICK q : /\ req' = [req EXCEPT ![r] = q]
                   /\ q.op \in {"addTerm", "endTerms"} /\ q.term = req[r].term
      BY <3>1, <3>2
    <3>4. MigrationOK(q)'
      BY <1>1, <2>1, <3>3, ReadyOK DEF MigrationOK, Moving, WithTerm, WithBoth
    <3>5. QED
      BY <2>1, <3>3, <3>4, MigrationGoesOn
  <2>4. QED
    BY <2>2, <2>3
<1>8. CASE FindPrevious(r)
  <2> DEFINE T == {t \in Terms \ {req[r].term} : terms[t] \in {"ACTIVE", "COMPLETED"}}
  <2>1. Newest(T) \in T \cup {NoTerm}
    BY NewestIn
  <2>2. req[r].op = "previous" /\ req[r].term \in Terms
    BY <1>1, <1>8 DEF FindPrevious, MigrationOK, WithTerm
  <2>3. Newest(T) # req[r].term
    BY <2>1, <2>2, SessionsAssumption
  <2>4. PICK q : /\ req' = [req EXCEPT ![r] = q]
                 /\ q.op = "select" /\ q.term = req[r].term /\ q.prev = Newest(T)
    <3> DEFINE q == [req[r] EXCEPT !.op = "select", !.prev = Newest(T)]
    <3>1. req' = [req EXCEPT ![r] = q]
      BY <1>8 DEF FindPrevious
    <3> HIDE DEF T
    <3>2. q.op = "select" /\ q.term = req[r].term /\ q.prev = Newest(T)
      BY <1>1 DEF SessionRequest
    <3> HIDE DEF q
    <3>3. QED
      BY <3>1, <3>2
  <2>5. MigrationOK(q)'
    BY <2>2, <2>3, <2>4, ReadyOK DEF Moving
  <2>6. QED
    BY <2>2, <2>4, <2>5, MigrationGoesOn
<1>9. QED
  BY <1>4, <1>5, <1>6, <1>7, <1>8

\* What an enrollment added at the end does to the roll.
LEMMA Appended ==
  ASSUME IInv, NEW st \in Students, NEW row \in Enrollment,
         SetRoll(st, Append(roll[st], row))
  PROVE  /\ \A u \in Students : \A i \in DOMAIN roll'[u] :
              \/ i \in DOMAIN roll[u] /\ roll'[u][i] = roll[u][i]
              \/ u = st /\ roll'[u][i] = row
         /\ \A u \in Students : \A t : EnrolledIn(u, t) => EnrolledIn(u, t)'
         /\ EnrolledIn(st, row.term)'
<1> DEFINE rows == Append(roll[st], row)
           last == Len(roll[st]) + 1
<1>1. roll[st] \in Seq(Enrollment)
  BY RowsTyped
<1>2. /\ DOMAIN rows = DOMAIN roll[st] \cup {last}
      /\ \A i \in DOMAIN roll[st] : rows[i] = roll[st][i]
      /\ rows[last] = row
  BY <1>1, AddRow
<1>3. \A u \in Students : roll'[u] = IF u = st THEN rows ELSE roll[u]
  BY DEF SetRoll, IInv, TypeOK
<1> HIDE DEF rows, last
<1>4. QED
  BY <1>2, <1>3 DEF EnrolledIn

\* What letting go of the enrollment k of st does.
LEMMA LetGo ==
  ASSUME IInv, NEW st \in Students, NEW k \in DOMAIN roll[st],
         SetRoll(st, Deactivated(st, k))
  PROVE  /\ \A u \in Students : \A i \in DOMAIN roll'[u] :
              /\ i \in DOMAIN roll[u]
              /\ roll'[u][i].term = roll[u][i].term
              /\ roll'[u][i].level = roll[u][i].level
              /\ roll'[u][i].active => roll[u][i].active /\ <<u, i>> # <<st, k>>
         /\ \A u \in Students : \A t : EnrolledIn(u, t) => EnrolledIn(u, t)'
<1> DEFINE row == [roll[st][k] EXCEPT !.active = FALSE]
           rows == [roll[st] EXCEPT ![k] = row]
<1>1. roll[st] \in Seq(Enrollment) /\ roll[st][k] \in Enrollment
  BY RowsTyped
<1>2. /\ row \in Enrollment /\ row.term = roll[st][k].term
      /\ row.level = roll[st][k].level /\ row.active = FALSE
  BY <1>1 DEF Enrollment
<1>3. \A u \in Students : roll'[u] = IF u = st THEN rows ELSE roll[u]
  BY DEF SetRoll, Deactivated, IInv, TypeOK
<1> HIDE DEF row
<1>4. /\ DOMAIN rows = DOMAIN roll[st]
      /\ \A i \in DOMAIN roll[st] : rows[i] = IF i = k THEN row ELSE roll[st][i]
  BY <1>1, <1>2, RewriteRow
<1> HIDE DEF rows
<1>5. QED
  BY <1>2, <1>3, <1>4 DEF EnrolledIn

\* What becomes of a handler that has dealt with e, or goes on with it.
LEMMA MovedIs ==
  ASSUME IInv, NEW r \in Requests, NEW e
  PROVE  \E q : /\ Moved(r, e) = [req EXCEPT ![r] = q]
                /\ q.op = "move" /\ q.todo = req[r].todo \ {e}
                /\ q.term = req[r].term /\ q.prev = req[r].prev
                /\ q.carry = req[r].carry
<1> DEFINE q == [req[r] EXCEPT !.op = "move", !.todo = @ \ {e},
                               !.student = NoStudent, !.row = 0]
<1>1. /\ q.op = "move" /\ q.todo = req[r].todo \ {e}
      /\ q.term = req[r].term /\ q.prev = req[r].prev /\ q.carry = req[r].carry
  BY DEF IInv, TypeOK, SessionRequest
<1>2. Moved(r, e) = [req EXCEPT ![r] = q]
  BY DEF Moved
<1> HIDE DEF q
<1>3. QED
  BY <1>1, <1>2

LEMMA AtIs ==
  ASSUME IInv, NEW r \in Requests, NEW e, NEW op
  PROVE  \E q : /\ At(r, e, op) = [req EXCEPT ![r] = q]
                /\ q.op = op /\ q.todo = req[r].todo \ {e}
                /\ q.student = e[1] /\ q.row = e[2]
                /\ q.term = req[r].term /\ q.prev = req[r].prev
                /\ q.carry = req[r].carry
<1> DEFINE q == [req[r] EXCEPT !.op = op, !.todo = @ \ {e},
                               !.student = e[1], !.row = e[2]]
<1>1. /\ q.op = op /\ q.todo = req[r].todo \ {e}
      /\ q.student = e[1] /\ q.row = e[2]
      /\ q.term = req[r].term /\ q.prev = req[r].prev /\ q.carry = req[r].carry
  BY DEF IInv, TypeOK, SessionRequest
<1>2. At(r, e, op) = [req EXCEPT ![r] = q]
  BY DEF At
<1> HIDE DEF q
<1>3. QED
  BY <1>1, <1>2

\* The steps of a migration.
LEMMA MigrationMoves ==
  ASSUME IInv, CalmInv, MigrationInv, calm, NEW r \in Requests,
         \/ SelectEnrollments(r) \/ CarryInsert(r) \/ LeaveOld(r) \/ MigrationDone(r)
         \/ \E e \in req[r].todo : CarryCheck(r, e) \/ Promote(r, e)
  PROVE  MigrationInv'
<1> DEFINE t == req[r].term
           prev == req[r].prev
<1>1. req[r] \in SessionRequest /\ RequestOK(req[r]) /\ MigrationOK(req[r])
  BY DEF IInv, TypeOK, MigrationInv
<1>2. req[r].op \in {"select", "move", "insert", "leave"}
  BY DEF SelectEnrollments, CarryInsert, LeaveOld, MigrationDone, CarryCheck, Promote
<1>3. t \in Terms /\ prev # t /\ t # NoTerm
  BY <1>1, <1>2, SessionsAssumption DEF MigrationOK, WithTerm, WithBoth, Moving
<1>4. CASE Finish(r)
  BY <1>2, <1>4, MigrationEnds
<1>5. CASE SelectEnrollments(r)
  <2>1. PICK q : /\ req' = [req EXCEPT ![r] = q]
                 /\ q.op = "move" /\ q.todo = Selected(prev)
                 /\ q.term = t /\ q.prev = prev
    <3> DEFINE S == Selected(prev)
               x == [req[r] EXCEPT !.op = "move", !.todo = S]
    <3>1. req' = [req EXCEPT ![r] = x]
      BY <1>5 DEF SelectEnrollments
    <3> HIDE DEF S
    <3>2. x.op = "move" /\ x.todo = S /\ x.term = t /\ x.prev = prev
      BY <1>1 DEF SessionRequest
    <3> HIDE DEF x
    <3>3. QED
      BY <3>1, <3>2 DEF S
  <2>2. roll' = roll
    BY <1>5 DEF SelectEnrollments, OnlyReq
  <2>3. \A st \in Students : \A i \in DOMAIN roll[st] :
          Concerned(q, st, i) => <<st, i>> \in q.todo
    BY <2>1 DEF Concerned, Selected
  <2>4. MigrationOK(q)'
    BY <1>3, <2>1, <2>2, <2>3 DEF MigrationOK, Moving, WithTerm, WithBoth, Concerned
  <2>5. QED
    BY <1>2, <2>1, <2>4, MigrationGoesOn
\* Dealt with e, or at it, with no enrollment written.
<1>6. ASSUME NEW e, OnlyReq, req[r].op = "move", req' = Moved(r, e),
             IF req[r].carry THEN EnrolledIn(e[1], t) ELSE roll[e[1]][e[2]].level = 0
      PROVE  MigrationInv'
  <2>1. PICK q : /\ req' = [req EXCEPT ![r] = q]
                 /\ q.op = "move" /\ q.todo = req[r].todo \ {e}
                 /\ q.term = t /\ q.prev = prev /\ q.carry = req[r].carry
    BY <1>6, MovedIs
  <2>2. roll' = roll
    BY <1>6 DEF OnlyReq
  <2>3. ASSUME NEW st \in Students, NEW i \in DOMAIN roll[st], Concerned(q, st, i)
        PROVE  <<st, i>> \in q.todo \/ DealtWith(q, st, i)
    <3>1. <<st, i>> \in req[r].todo \/ DealtWith(req[r], st, i)
      BY <1>1, <1>6, <2>1, <2>3 DEF MigrationOK, Moving, Concerned
    <3>2. CASE <<st, i>> = e
      BY <1>6, <2>1, <3>2 DEF DealtWith
    <3>3. QED
      BY <2>1, <3>1, <3>2 DEF DealtWith
  <2>4. MigrationOK(q)'
    BY <1>3, <2>1, <2>2, <2>3
       DEF MigrationOK, Moving, WithTerm, WithBoth, Concerned, DealtWith, EnrolledIn
  <2>5. QED
    BY <1>2, <2>1, <2>4, MigrationGoesOn
<1>7. ASSUME NEW e \in req[r].todo, CarryCheck(r, e) PROVE MigrationInv'
  <2>1. CASE EnrolledIn(e[1], t)
    BY <1>6, <1>7, <2>1 DEF CarryCheck
  <2>2. CASE ~EnrolledIn(e[1], t)
    <3>1. PICK q : /\ req' = [req EXCEPT ![r] = q]
                   /\ q.op = "insert" /\ q.todo = req[r].todo \ {e}
                   /\ q.student = e[1] /\ q.row = e[2]
                   /\ q.term = t /\ q.prev = prev /\ q.carry = req[r].carry
      <4>1. req' = At(r, e, "insert")
        BY <1>7, <2>2 DEF CarryCheck
      <4>2. QED
        BY <4>1, AtIs
    <3>2. roll' = roll /\ req[r].op = "move" /\ req[r].carry
      BY <1>7 DEF CarryCheck, OnlyReq
    <3>3. ASSUME NEW st \in Students, NEW i \in DOMAIN roll[st], Concerned(q, st, i)
          PROVE  \/ <<st, i>> \in q.todo
                 \/ q.student = st /\ q.row = i
                 \/ DealtWith(q, st, i)
      BY <1>1, <3>1, <3>2, <3>3 DEF MigrationOK, Moving, Concerned, DealtWith
    <3>4. MigrationOK(q)'
      BY <1>3, <3>1, <3>2, <3>3
         DEF MigrationOK, Moving, WithTerm, WithBoth, Concerned, DealtWith, EnrolledIn
    <3>5. QED
      BY <1>2, <3>1, <3>4, MigrationGoesOn
  <2>3. QED
    BY <2>1, <2>2
\* The new enrollment is of the new term, so it is not one the migration is
\* about; the student of a carry over has one there now.
<1>8. ASSUME NEW st \in Students, NEW row \in Enrollment, NEW q,
             SetRoll(st, Append(roll[st], row)), row.term = t,
             req' = [req EXCEPT ![r] = q], req[r].op \in Moving, q.op \in Moving,
             q.op = "insert" => q.carry, q.op = "leave" => ~q.carry,
             q.term = t, q.prev = prev, q.carry = req[r].carry,
             \A i \in DOMAIN roll[st] : <<st, i>> \in req[r].todo =>
               <<st, i>> \in q.todo \/ q.carry \/ (q.op # "move" /\ q.student = st /\ q.row = i),
             \A u \in Students : \A i \in DOMAIN roll[u] :
               u # st /\ <<u, i>> \in req[r].todo => <<u, i>> \in q.todo,
             req[r].op # "move" => req[r].student = st /\ req[r].carry
      PROVE  MigrationInv'
  <2>1. /\ \A u \in Students : \A i \in DOMAIN roll'[u] :
              \/ i \in DOMAIN roll[u] /\ roll'[u][i] = roll[u][i]
              \/ u = st /\ roll'[u][i] = row
        /\ \A u \in Students : \A x : EnrolledIn(u, x) => EnrolledIn(u, x)'
        /\ EnrolledIn(st, row.term)'
    BY <1>8, Appended
  <2>2. ASSUME NEW u \in Students, NEW i \in DOMAIN roll'[u], Concerned(q, u, i)'
        PROVE  \/ <<u, i>> \in q.todo
               \/ q.op # "move" /\ q.student = u /\ q.row = i
               \/ DealtWith(q, u, i)'
    <3>1. roll'[u][i].term # t
      BY <1>3, <1>8, <2>2 DEF Concerned
    <3>2. i \in DOMAIN roll[u] /\ roll'[u][i] = roll[u][i] /\ Concerned(req[r], u, i)
      BY <1>8, <2>1, <2>2, <3>1 DEF Concerned
    <3>3. \/ <<u, i>> \in req[r].todo
          \/ req[r].op # "move" /\ req[r].student = u
          \/ DealtWith(req[r], u, i)
      BY <1>1, <1>8, <3>2 DEF MigrationOK
    <3>4. CASE u = st /\ q.carry
      BY <1>8, <2>1, <3>4 DEF DealtWith
    <3>5. CASE <<u, i>> \in req[r].todo /\ ~(u = st /\ q.carry)
      BY <1>8, <3>2, <3>5
    <3>6. CASE DealtWith(req[r], u, i)
      BY <1>8, <2>1, <3>2, <3>6 DEF DealtWith
    <3>7. QED
      BY <1>8, <3>3, <3>4, <3>5, <3>6
  <2>3. MigrationOK(q)'
    BY <1>3, <1>8, <2>2 DEF MigrationOK, Moving, WithTerm, WithBoth
  <2>4. QED
    BY <1>2, <1>8, <2>3, MigrationGoesOn
<1>9. CASE CarryInsert(r) /\ ~Finish(r)
  <2> DEFINE st == req[r].student
             row == NewRow(t, roll[st][req[r].row].level)
             e == <<st, req[r].row>>
  <2>1. req[r].op = "insert" /\ req[r].carry /\ st \in Students
        /\ req[r].row \in DOMAIN roll[st]
    BY <1>1, <1>9 DEF CarryInsert, RequestOK, MigrationOK
  <2>2. row \in Enrollment /\ row.term = t
    BY <1>3, <2>1, RowsTyped DEF NewRow, Enrollment
  <2>3. SetRoll(st, Append(roll[st], row)) /\ req' = Moved(r, e)
    BY <1>9 DEF CarryInsert
  <2> HIDE DEF row, e
  <2>4. PICK q : /\ req' = [req EXCEPT ![r] = q]
                 /\ q.op = "move" /\ q.todo = req[r].todo \ {e}
                 /\ q.term = t /\ q.prev = prev /\ q.carry = req[r].carry
    BY <2>3, MovedIs
  <2>5. QED
    BY <1>8, <2>1, <2>2, <2>3, <2>4 DEF Moving, e
\* Letting go of an enrollment of the migration.
<1>10. ASSUME NEW st \in Students, NEW k \in DOMAIN roll[st],
              SetRoll(st, Deactivated(st, k)), req' = Moved(r, <<st, k>>),
              req[r].op \in Moving,
              req[r].op # "move" => req[r].student = st /\ req[r].row = k
       PROVE  MigrationInv'
  <2> DEFINE e == <<st, k>>
  <2>1. PICK q : /\ req' = [req EXCEPT ![r] = q]
                 /\ q.op = "move" /\ q.todo = req[r].todo \ {e}
                 /\ q.term = t /\ q.prev = prev /\ q.carry = req[r].carry
    <3> HIDE DEF e
    <3>1. req' = Moved(r, e)
      BY <1>10 DEF e
    <3>2. QED
      BY <3>1, MovedIs
  <2>2. /\ \A u \in Students : \A i \in DOMAIN roll'[u] :
              /\ i \in DOMAIN roll[u]
              /\ roll'[u][i].term = roll[u][i].term
              /\ roll'[u][i].level = roll[u][i].level
              /\ roll'[u][i].active => roll[u][i].active /\ <<u, i>> # e
        /\ \A u \in Students : \A x : EnrolledIn(u, x) => EnrolledIn(u, x)'
    BY <1>10, LetGo
  <2>3. ASSUME NEW u \in Students, NEW i \in DOMAIN roll'[u], Concerned(q, u, i)'
        PROVE  <<u, i>> \in q.todo \/ DealtWith(q, u, i)'
    <3>1. i \in DOMAIN roll[u] /\ Concerned(req[r], u, i) /\ <<u, i>> # e
      BY <2>1, <2>2, <2>3 DEF Concerned
    <3>2. <<u, i>> \in req[r].todo \/ DealtWith(req[r], u, i)
      BY <1>1, <1>10, <3>1 DEF MigrationOK
    <3>3. QED
      BY <2>1, <2>2, <3>1, <3>2 DEF DealtWith
  <2>4. MigrationOK(q)'
    BY <1>3, <2>1, <2>3 DEF MigrationOK, Moving, WithTerm, WithBoth
  <2>5. QED
    BY <1>2, <2>1, <2>4, MigrationGoesOn
<1>11. CASE LeaveOld(r)
  BY <1>1, <1>10, <1>11 DEF LeaveOld, RequestOK, Moving
<1>12. ASSUME NEW e \in req[r].todo, Promote(r, e) PROVE MigrationInv'
  <2> DEFINE st == e[1]
             level == roll[st][e[2]].level
             row == NewRow(t, LevelAfter(level))
  <2>1. st \in Students /\ e[2] \in DOMAIN roll[st] /\ e = <<st, e[2]>>
    BY <1>1 DEF SessionRequest, RequestOK
  <2>2. req[r].op = "move" /\ ~req[r].carry
    BY <1>12 DEF Promote
  <2>3. CASE level = 0
    BY <1>6, <1>12, <2>2, <2>3 DEF Promote
  <2>4. CASE level # 0 /\ Graduates(level)
    <3>1. SetRoll(st, Deactivated(st, e[2])) /\ req' = Moved(r, <<st, e[2]>>)
      BY <1>12, <2>1, <2>4 DEF Promote
    <3>2. QED
      BY <1>10, <2>1, <2>2, <3>1 DEF Moving
  <2>5. CASE level # 0 /\ ~Graduates(level) /\ ~Finish(r)
    <3>1. SetRoll(st, Append(roll[st], row)) /\ req' = At(r, e, "leave")
      BY <1>12, <2>5 DEF Promote
    <3>2. level \in Levels
      BY <2>1, RowsTyped DEF Enrollment
    <3>3. LevelAfter(level) \in Levels
      <4> HIDE DEF level
      <4>1. QED
        BY <2>5, <3>2, SessionsAssumption DEF Levels, LevelAfter, Graduates
    <3>4. row \in Enrollment /\ row.term = t
      BY <1>3, <3>3 DEF NewRow, Enrollment
    <3>5. PICK q : /\ req' = [req EXCEPT ![r] = q]
                   /\ q.op = "leave" /\ q.todo = req[r].todo \ {e}
                   /\ q.student = st /\ q.row = e[2]
                   /\ q.term = t /\ q.prev = prev /\ q.carry = req[r].carry
      BY <3>1, AtIs
    <3> HIDE DEF row, level
    <3>6. \A u \in Students : \A i \in DOMAIN roll[u] :
            <<u, i>> \in req[r].todo =>
              <<u, i>> \in q.todo \/ (u = st /\ q.row = i)
      BY <2>1, <3>5
    <3>7. QED
      BY <1>8, <2>1, <2>2, <3>1, <3>4, <3>5, <3>6 DEF Moving
  <2>6. QED
    BY <1>4, <2>3, <2>4, <2>5
<1>13. QED
  BY <1>4, <1>5, <1>7, <1>9, <1>11, <1>12 DEF MigrationDone

LEMMA MigrationInvariance ==
  ASSUME IInv, CalmInv, MigrationInv, [Next]_vars PROVE MigrationInv'
<1>1. CASE UNCHANGED vars
  BY <1>1 DEF vars, MigrationInv, MigrationOK, Concerned, DealtWith, EnrolledIn
<1>2. ASSUME NEW r \in Requests, Step(r) PROVE MigrationInv'
  <2>1. calm' => calm
    BY <1>2 DEF Step, Count, Close, CreateSession, RetireSessions, AddTerm,
       EndOtherTerms, FindPrevious, Activate, CompletePrevious, SelectEnrollments,
       CarryCheck, Promote, CarryInsert, LeaveOld, MigrationDone, EndTermWrite,
       EndSessionTerms, EndSessionWrite, EndSiblings, ReactivateWrite, Reopen,
       AdmitWrite, OnlyReq, SetSession, SetTerms, SetRoll
  <2>2. CASE calm
    BY <1>2, <2>2, MigrationReady, MigrationMoves DEF Step
  <2>3. QED
    BY <2>1, <2>2 DEF MigrationInv
<1>3. ASSUME NEW r \in Requests, Fail(r) PROVE MigrationInv'
  BY <1>3 DEF Fail, MigrationInv
<1>4. ASSUME NEW t \in Terms, CreateTerm(t) PROVE MigrationInv'
  <2>1. roll' = roll /\ req' = req /\ (calm' => calm)
    BY <1>4, Zenon DEF CreateTerm
  <2>2. QED
    BY <2>1 DEF MigrationInv, MigrationOK, Concerned, DealtWith, EnrolledIn
<1>5. QED
  BY <1>1, <1>2, <1>3, <1>4, MigrationArrive DEF Next

LEMMA MigrationInit ==
  ASSUME Init PROVE MigrationInv
  BY IdleMigrates DEF Init, Idle, MigrationInv
-----------------------------------------------------------------------------
(* Every state of the service is well typed.                               *)
THEOREM SessionsTyped == Spec => []TypeOK
<1>1. Spec => []IInv
  BY InitHolds, Invariance, PTL DEF Spec
<1>2. IInv => TypeOK
  BY DEF IInv
<1>3. QED
  BY <1>1, <1>2, PTL

(* No student drops off the roll, however many migrations are in each      *)
(* other's way, and wherever they stop.                                    *)
THEOREM NobodyDropped == Spec => []NeverDropped
<1>1. Spec => []IInv
  BY InitHolds, Invariance, PTL DEF Spec
<1>2. IInv => NeverDropped
  BY DEF IInv
<1>3. QED
  BY <1>1, <1>2, PTL

(* While requests come one at a time and end well, and terms are started   *)
(* and continued in the newest session only, there are never two active    *)
(* sessions or two active terms between requests.                          *)
THEOREM SessionOneActive == Spec => []OneActive
<1>1. Spec => [](IInv /\ CalmInv)
  BY InitHolds, Invariance, CalmInit, CalmInvariance, PTL DEF Spec
<1>2. CalmInv => OneActive
  <2>1. SUFFICES ASSUME CalmInv, calm, Quiet PROVE OneActive
    BY DEF OneActive
  <2>2. CalmTables /\ TermsAgree
    BY <2>1 DEF CalmInv, Quiet, Between
  <2>3. \A s, u \in ActiveSessions : s = u
    BY <2>2, LatestOne DEF CalmTables, ActiveSessions
  <2>4. QED
    BY <2>2, <2>3 DEF TermsAgree, OneActive
<1>3. QED
  BY <1>1, <1>2, PTL

(* A migration that runs to its end while requests come one at a time has  *)
(* dealt with every enrollment it selected: carry over leaves no student   *)
(* of the previous term without one in the new term, and promotion leaves  *)
(* active only those of a level it cannot resolve.                         *)
THEOREM MigrationLeavesNobody == Spec => NobodyLeftBehind
<1> DEFINE Left(r) ==
      calm /\ MigrationDone(r) =>
        \A st \in Students : \A i \in DOMAIN roll[st] :
          roll[st][i].active /\ roll[st][i].term \in {req[r].prev, NoTerm} =>
            IF req[r].carry THEN EnrolledIn(st, req[r].term)
            ELSE roll[st][i].level = 0
<1>1. Spec => [](IInv /\ CalmInv /\ MigrationInv)
  BY InitHolds, Invariance, CalmInit, CalmInvariance, MigrationInit,
     MigrationInvariance, PTL DEF Spec
<1>2. MigrationInv => [\A r \in Requests : Left(r)]_vars
  <2> SUFFICES ASSUME MigrationInv, calm, NEW r \in Requests, MigrationDone(r),
                      NEW st \in Students, NEW i \in DOMAIN roll[st],
                      roll[st][i].active, roll[st][i].term \in {req[r].prev, NoTerm}
               PROVE  IF req[r].carry THEN EnrolledIn(st, req[r].term)
                      ELSE roll[st][i].level = 0
    OBVIOUS
  <2>1. req[r].op = "move" /\ req[r].todo = {} /\ MigrationOK(req[r])
    BY DEF MigrationDone, MigrationInv
  <2>2. QED
    BY <2>1 DEF MigrationOK, Moving, Concerned, DealtWith
<1>3. QED
  BY <1>1, <1>2, PTL DEF NobodyLeftBehind
-----------------------------------------------------------------------------
(***************************************************************************)
(* The weeks of a scheme of work (SchemeWeeks).                            *)
(*                                                                         *)
(* First what the helpers on sets of numbers return, then what the         *)
(* calendar is, and that each packer covers it (Calendared); then the      *)
(* invariant, a lemma for every kind of step, and the delivery window.     *)
(***************************************************************************)

\* Those of S that are less than x, and how many they are.
Under(S, x) == {y \in S : y < x}
Below(S, x) == Cardinality(Under(S, x))

\* A greater number has more below it, and all have fewer than there are.
LEMMA BelowGrows ==
  ASSUME NEW S, S \subseteq Int, IsFiniteSet(S)
  PROVE  /\ Cardinality(S) \in Nat
         /\ \A x \in S : Below(S, x) \in 0 .. Cardinality(S) - 1
         /\ \A x, z \in S : x < z => Below(S, x) < Below(S, z)
<1>1. Cardinality(S) \in Nat
  BY FS_CardinalityType
<1>2. ASSUME NEW x \in S PROVE IsFiniteSet(Under(S, x)) /\ Below(S, x) \in Nat
  <2>1. Under(S, x) \in SUBSET S
    BY DEF Under
  <2>2. QED
    BY <2>1, FS_Subset, FS_CardinalityType DEF Below
<1>3. ASSUME NEW x \in S PROVE Below(S, x) <= Cardinality(S) - 1
  <2>1. IsFiniteSet(S \ {x}) /\ Cardinality(S \ {x}) = Cardinality(S) - 1
    BY FS_RemoveElement
  <2>2. Under(S, x) \in SUBSET (S \ {x})
    BY DEF Under
  <2>3. QED
    BY <2>1, <2>2, FS_Subset DEF Below
<1>4. ASSUME NEW x \in S, NEW z \in S, x < z PROVE Below(S, x) < Below(S, z)
  <2>1. IsFiniteSet(Under(S, x)) /\ x \notin Under(S, x) /\ IsFiniteSet(Under(S, z))
    BY <1>2 DEF Under
  <2>2. Cardinality(Under(S, x) \cup {x}) = Cardinality(Under(S, x)) + 1
    BY <2>1, FS_AddElement
  <2>3. \A y \in Under(S, x) \cup {x} : y \in Under(S, z)
    BY <1>4 DEF Under
  <2>4. Cardinality(Under(S, x) \cup {x}) <= Cardinality(Under(S, z))
    BY <2>1, <2>3, FS_Subset
  <2>5. Below(S, x) \in Nat /\ Below(S, z) \in Nat
    BY <1>2
  <2>6. QED
    BY <2>2, <2>4, <2>5 DEF Below
<1>5. QED
  BY <1>1, <1>2, <1>3, <1>4

\* What InAscent makes of a set of numbers: each of them once, in ascending order.
LEMMA AscentLists ==
  ASSUME NEW S, S \subseteq Int, IsFiniteSet(S)
  PROVE  /\ Cardinality(S) \in Nat
         /\ InAscent(S) \in [1 .. Cardinality(S) -> S]
         /\ \A x \in S : \E n \in 1 .. Cardinality(S) : InAscent(S)[n] = x
         /\ \A n \in 1 .. Cardinality(S) : Below(S, InAscent(S)[n]) = n - 1
         /\ \A n, m \in 1 .. Cardinality(S) : InAscent(S)[n] = InAscent(S)[m] => n = m
<1> DEFINE c == Cardinality(S)
           g == [x \in S |-> Below(S, x)]
           f == InAscent(S)
<1>1. c \in Nat /\ IsFiniteSet(0 .. c - 1) /\ Cardinality(0 .. c - 1) = c
  <2>1. c \in Nat
    BY FS_CardinalityType
  <2>2. QED
    BY <2>1, FS_Interval
<1>2. g \in [S -> 0 .. c - 1] /\ \A x \in S : g[x] = Below(S, x)
  BY BelowGrows
<1>3. \A x, z \in S : x < z => g[x] < g[z]
  BY <1>2, BelowGrows
<1> HIDE DEF g
<1>4. \A x, z \in S : g[x] = g[z] => x = z
  BY <1>1, <1>2, <1>3
<1>5. g \in Injection(S, 0 .. c - 1)
  BY <1>2, <1>4 DEF Injection, IsInjective
<1>6. g \in Surjection(S, 0 .. c - 1)
  BY <1>1, <1>5, FS_Injection
<1>7. \A n \in 1 .. c : \E x \in S : Below(S, x) = n - 1
  <2> SUFFICES ASSUME NEW n \in 1 .. c PROVE \E x \in S : Below(S, x) = n - 1
    OBVIOUS
  <2>1. n - 1 \in 0 .. c - 1
    BY <1>1
  <2>2. PICK x \in S : g[x] = n - 1
    BY <1>6, <2>1 DEF Surjection
  <2>3. QED
    BY <1>2, <2>2
<1>8. DOMAIN f = 1 .. c /\ \A n \in 1 .. c : f[n] \in S /\ Below(S, f[n]) = n - 1
  BY <1>7 DEF InAscent, Below, Under
<1>9. f = [n \in 1 .. c |-> f[n]]
  BY DEF InAscent
<1> HIDE DEF f
<1>10. f \in [1 .. c -> S]
  BY <1>8, <1>9
<1>11. ASSUME NEW x \in S PROVE \E n \in 1 .. c : f[n] = x
  <2>1. PICK n \in 1 .. c : n - 1 = g[x]
    <3>1. PICK k \in 0 .. c - 1 : k = g[x]
      BY <1>2
    <3>2. k + 1 \in 1 .. c /\ k + 1 - 1 = k
      BY <1>1
    <3>3. QED
      BY <3>1, <3>2
  <2>2. f[n] \in S /\ Below(S, f[n]) = g[x]
    BY <1>8, <2>1
  <2>3. g[f[n]] = g[x]
    BY <1>2, <2>2
  <2>4. QED
    BY <1>4, <2>2, <2>3
<1>12. \A n, m \in 1 .. c : f[n] = f[m] => n = m
  BY <1>8
<1>13. QED
  BY <1>1, <1>8, <1>10, <1>11, <1>12 DEF f

\* A set of numbers that is listed has a greatest one.
LEMMA GreatestIs ==
  ASSUME NEW S, S \subseteq Int, IsFiniteSet(S), S # {}
  PROVE  Max(S) \in S /\ \A y \in S : y <= Max(S)
<1> DEFINE n == Cardinality(S)
           x == InAscent(S)[n]
<1>1. n \in Nat /\ n # 0
  BY FS_CardinalityType, FS_EmptySet
<1>2. x \in S /\ Below(S, x) = n - 1
  <2>1. n \in 1 .. n
    BY <1>1
  <2>2. QED
    BY <2>1, AscentLists
<1> HIDE DEF x
<1>3. ASSUME NEW y \in S PROVE x >= y
  <2>1. Below(S, y) \in 0 .. n - 1 /\ (x < y => Below(S, x) < Below(S, y))
    BY <1>2, BelowGrows
  <2>2. x \in Int /\ y \in Int
    BY <1>2
  <2>3. QED
    BY <1>1, <1>2, <2>1, <2>2
<1>4. Max(S) \in S /\ \A y \in S : Max(S) >= y
  BY <1>2, <1>3 DEF Max
<1>5. QED
  BY <1>4
-----------------------------------------------------------------------------
(* The calendar.                                                           *)

\* A day is in the week of the term that has begun by it.
LEMMA BucketIs ==
  ASSUME NEW d \in Nat, d # 0
  PROVE  Bucket(d) \in Nat /\ Bucket(d) * WeekLength + 1 <= d
<1>1. PICK k \in Nat : k = d - 1
  OBVIOUS
<1>2. k \div WeekLength \in Nat /\ (k \div WeekLength) * WeekLength <= k
  BY WeeksAssumption
<1>3. QED
  BY <1>1, <1>2, WeeksAssumption DEF Bucket

\* There are finitely many weeks with lessons, all within the term.
LEMMA BucketsListed ==
  ASSUME NEW off
  PROVE  /\ Buckets(off) \subseteq Int /\ IsFiniteSet(Buckets(off))
         /\ \A b \in Buckets(off) : b \in Nat /\ b * WeekLength + 1 \in 1 .. TermDays
<1> DEFINE D == (WorkDays \cap Term) \ off
           g == [d \in D |-> Bucket(d)]
<1>1. \A d \in D : d \in 1 .. TermDays
  BY DEF Term
<1>2. IsFiniteSet(1 .. TermDays)
  BY WeeksAssumption, FS_Interval
<1>3. IsFiniteSet(D)
  <2>1. D \in SUBSET (1 .. TermDays)
    BY <1>1
  <2>2. QED
    BY <1>2, <2>1, FS_Subset
<1>4. \A d \in D : Bucket(d) \in Nat /\ Bucket(d) * WeekLength + 1 <= d /\ d <= TermDays
  BY <1>1, BucketIs, WeeksAssumption
<1>5. g \in Surjection(D, Buckets(off))
  BY DEF Surjection, Buckets
<1>6. IsFiniteSet(Buckets(off))
  BY <1>3, <1>5, FS_Surjection
<1>7. ASSUME NEW b \in Buckets(off) PROVE b \in Nat /\ b * WeekLength + 1 \in 1 .. TermDays
  <2>1. PICK d \in D : b = Bucket(d)
    BY DEF Buckets
  <2>2. b \in Nat /\ b * WeekLength + 1 <= d /\ d <= TermDays /\ d \in Nat
    BY <1>1, <1>4, <2>1
  <2>3. b * WeekLength \in Nat
    BY <2>2, WeeksAssumption
  <2>4. QED
    BY <2>2, <2>3, WeeksAssumption
<1>8. QED
  BY <1>6, <1>7

\* The instructional weeks, in order, each with the first day of its week.
LEMMA RangesAre ==
  ASSUME NEW off
  PROVE  /\ Cardinality(Buckets(off)) \in Nat
         /\ DOMAIN WeekRanges(off) = 1 .. Cardinality(Buckets(off))
         /\ Len(WeekRanges(off)) = Cardinality(Buckets(off))
         /\ \A n \in 1 .. Cardinality(Buckets(off)) :
              /\ InAscent(Buckets(off))[n] \in Buckets(off)
              /\ WeekRanges(off)[n] = InAscent(Buckets(off))[n] * WeekLength + 1
              /\ WeekRanges(off)[n] \in 1 .. TermDays
<1> DEFINE c == Cardinality(Buckets(off))
           f == InAscent(Buckets(off))
           q == WeekRanges(off)
<1>1. c \in Nat /\ f \in [1 .. c -> Buckets(off)]
  BY BucketsListed, AscentLists
<1>2. q = [n \in 1 .. c |-> f[n] * WeekLength + 1]
  BY <1>1 DEF WeekRanges
<1>3. \A n \in 1 .. c : f[n] \in Buckets(off) /\ f[n] * WeekLength + 1 \in 1 .. TermDays
  BY <1>1, BucketsListed
<1>4. q \in [1 .. c -> Int]
  BY <1>2, <1>3
<1>5. Len(q) = c /\ DOMAIN q = 1 .. c
  BY <1>1, <1>4
<1>6. \A n \in 1 .. c : q[n] = f[n] * WeekLength + 1
  BY <1>2
<1> HIDE DEF c, f, q
<1>7. QED
  BY <1>1, <1>3, <1>5, <1>6 DEF c, f, q
-----------------------------------------------------------------------------
(* The packers.                                                            *)

\* What the packers return: each week of the calendar, with its date, and weeks
\* after them without one; a number is there once.
IsPacked(p) == p = Packed(p.num, p.start, p.catchUp, p.topics, p.id)

Calendared(q) ==
  /\ Len(q) \in Nat /\ DOMAIN q = 1 .. Len(q)
  /\ \A i \in DOMAIN q : IsPacked(q[i]) /\ q[i].num \in Nat \ {0} /\ q[i].start = DateOf(q[i].num)
  /\ \A i, j \in DOMAIN q : q[i].num = q[j].num => i = j
  /\ \A n \in DOMAIN Ranges : \E i \in DOMAIN q : q[i].num = n

\* packTopicsOntoCalendar
LEMMA PackTopicsCovers ==
  ASSUME NEW plan PROVE Calendared(PackTopics(plan))
<1> DEFINE n == Len(Ranges)
           q == PackTopics(plan)
<1>1. n \in Nat /\ DOMAIN Ranges = 1 .. n
  BY RangesAre DEF Ranges
<1>2. /\ DOMAIN q = 1 .. n
      /\ \A w \in 1 .. n : IsPacked(q[w]) /\ q[w].num = w /\ q[w].start = Ranges[w]
  BY <1>1 DEF PackTopics, Packed, IsPacked
<1>3. q = [w \in 1 .. n |-> q[w]]
  BY <1>1 DEF PackTopics
<1> HIDE DEF n, q
<1>4. Len(q) = n
  BY <1>1, <1>3
<1>5. \A w \in 1 .. n : DateOf(w) = Ranges[w]
  BY <1>1 DEF DateOf
<1>6. Calendared(q)
  BY <1>1, <1>2, <1>4, <1>5 DEF Calendared
<1>7. QED
  BY <1>6 DEF q

\* What a part of a plan is like: a number is there once, with its date.
Dated(q) ==
  /\ Len(q) \in Nat /\ DOMAIN q = 1 .. Len(q)
  /\ \A i \in DOMAIN q : IsPacked(q[i]) /\ q[i].num \in Nat \ {0} /\ q[i].start = DateOf(q[i].num)
  /\ \A i, j \in DOMAIN q : q[i].num = q[j].num => i = j

\* The weeks left over, each once with its date.
LEMMA CatchUpsAre ==
  ASSUME NEW used
  PROVE  /\ Dated(CatchUps(used))
         /\ \A i \in DOMAIN CatchUps(used) :
              /\ CatchUps(used)[i].num \notin used
              /\ CatchUps(used)[i].id = 0
         /\ \A n \in DOMAIN Ranges \ used :
              \E i \in DOMAIN CatchUps(used) : CatchUps(used)[i].num = n
<1> DEFINE S == DOMAIN Ranges \ used
           c == Cardinality(S)
           f == InAscent(S)
           q == CatchUps(used)
<1>1. Cardinality(Buckets(halfTerm \cup holidays)) \in Nat
      /\ DOMAIN Ranges = 1 .. Cardinality(Buckets(halfTerm \cup holidays))
  BY RangesAre DEF Ranges
<1>2. S \subseteq Int /\ IsFiniteSet(S) /\ \A x \in S : x \in Nat \ {0}
  <2>1. IsFiniteSet(DOMAIN Ranges)
    BY <1>1, FS_Interval
  <2>2. S \in SUBSET (DOMAIN Ranges)
    OBVIOUS
  <2>3. IsFiniteSet(S)
    BY <2>1, <2>2, FS_Subset
  <2>4. \A x \in S : x \in Nat \ {0}
    BY <1>1
  <2>5. QED
    BY <2>3, <2>4
<1>3. /\ c \in Nat /\ f \in [1 .. c -> S]
      /\ \A x \in S : \E n \in 1 .. c : f[n] = x
      /\ \A n, m \in 1 .. c : f[n] = f[m] => n = m
  BY <1>2, AscentLists
<1>4. /\ q = [i \in 1 .. c |-> q[i]]
      /\ \A i \in 1 .. c : /\ IsPacked(q[i]) /\ q[i].id = 0
                           /\ q[i].num = f[i] /\ q[i].start = Ranges[f[i]]
  BY <1>3 DEF CatchUps, Packed, IsPacked
<1>5. \A x \in S : DateOf(x) = Ranges[x] /\ x \notin used
  BY DEF DateOf
<1> HIDE DEF S, c, f, q
<1>6. Len(q) = c /\ DOMAIN q = 1 .. c
  BY <1>3, <1>4
<1>7. Dated(q)
  BY <1>2, <1>3, <1>4, <1>5, <1>6 DEF Dated
<1>8. QED
  BY <1>3, <1>4, <1>5, <1>6, <1>7 DEF S, q

\* A plan with the weeks it does not use behind it covers the calendar.
LEMMA JoinCovers ==
  ASSUME NEW p, Dated(p), NEW q, Dated(q),
         \A j \in DOMAIN q : \A i \in DOMAIN p : q[j].num # p[i].num,
         \A n \in DOMAIN Ranges :
           \/ \E i \in DOMAIN p : p[i].num = n
           \/ \E j \in DOMAIN q : q[j].num = n,
         NEW A, p \in Seq(A), q \in Seq(A)
  PROVE  /\ Calendared(p \o q)
         /\ \A i \in DOMAIN (p \o q) :
              (p \o q)[i] = IF i <= Len(p) THEN p[i] ELSE q[i - Len(p)]
         /\ \A i \in DOMAIN (p \o q) :
              IF i <= Len(p) THEN i \in DOMAIN p ELSE i - Len(p) \in DOMAIN q
<1> DEFINE r == p \o q
           m == Len(p)
           k == Len(q)
<1>1. m \in Nat /\ k \in Nat /\ DOMAIN p = 1 .. m /\ DOMAIN q = 1 .. k
  BY DEF Dated
<1>2. Len(r) = m + k /\ DOMAIN r = 1 .. m + k
  OBVIOUS
<1>3. \A i \in 1 .. m : r[i] = p[i]
  OBVIOUS
<1>4. \A i \in 1 .. k : r[m + i] = q[i]
  OBVIOUS
<1>5. \A i \in DOMAIN r : IF i <= m THEN i \in 1 .. m ELSE i - m \in 1 .. k /\ i = m + (i - m)
  BY <1>1, <1>2
<1>6. \A i \in DOMAIN r : r[i] = IF i <= m THEN p[i] ELSE q[i - m]
  BY <1>3, <1>4, <1>5
<1> HIDE DEF r, m, k
<1>7. \A i \in DOMAIN r : IsPacked(r[i]) /\ r[i].num \in Nat \ {0} /\ r[i].start = DateOf(r[i].num)
  BY <1>1, <1>5, <1>6 DEF Dated
<1>8. ASSUME NEW i \in DOMAIN r, NEW j \in DOMAIN r, r[i].num = r[j].num PROVE i = j
  <2>1. i \in Nat /\ j \in Nat
    BY <1>1, <1>2
  <2>2. CASE i <= m /\ j <= m
    BY <2>2, <1>1, <1>5, <1>6, <1>8 DEF Dated
  <2>3. CASE ~(i <= m) /\ ~(j <= m)
    <3>1. i - m \in 1 .. k /\ j - m \in 1 .. k
      BY <1>5, <2>3
    <3>2. q[i - m].num = q[j - m].num
      BY <1>6, <1>8, <2>3
    <3>3. i - m = j - m
      BY <1>1, <3>1, <3>2 DEF Dated
    <3>4. QED
      BY <1>1, <2>1, <3>3
  <2>4. CASE i <= m /\ ~(j <= m)
    BY <2>4, <1>1, <1>5, <1>6, <1>8
  <2>5. CASE ~(i <= m) /\ j <= m
    BY <2>5, <1>1, <1>5, <1>6, <1>8
  <2>6. QED
    BY <2>2, <2>3, <2>4, <2>5
<1>9. ASSUME NEW n \in DOMAIN Ranges PROVE \E i \in DOMAIN r : r[i].num = n
  <2>1. CASE \E i \in DOMAIN p : p[i].num = n
    <3>1. PICK i \in 1 .. m : p[i].num = n
      BY <1>1, <2>1
    <3>2. i \in DOMAIN r /\ r[i] = p[i]
      BY <1>1, <1>2, <1>3
    <3>3. QED
      BY <3>1, <3>2
  <2>2. CASE \E j \in DOMAIN q : q[j].num = n
    <3>1. PICK j \in 1 .. k : q[j].num = n
      BY <1>1, <2>2
    <3>2. m + j \in DOMAIN r /\ r[m + j] = q[j]
      BY <1>1, <1>2, <1>4
    <3>3. QED
      BY <3>1, <3>2
  <2>3. QED
    BY <2>1, <2>2
<1>10. Calendared(r)
  BY <1>1, <1>2, <1>7, <1>8, <1>9 DEF Calendared
<1>11. QED
  BY <1>1, <1>5, <1>6, <1>10 DEF r, m, k

\* Sorting the weeks of a plan by their numbers loses none and doubles none.
LEMMA InOrderCovers ==
  ASSUME NEW p, Calendared(p)
  PROVE  Calendared(InOrder(p))
<1> DEFINE S == {p[i].num : i \in DOMAIN p}
           c == Cardinality(S)
           f == InAscent(S)
           q == InOrder(p)
           place == [i \in DOMAIN p |-> p[i].num]
           Place(x) == CHOOSE i \in DOMAIN p : p[i].num = x
<1>1. DOMAIN p = 1 .. Len(p) /\ Len(p) \in Nat
  BY DEF Calendared
<1>2. S \subseteq Int /\ IsFiniteSet(S) /\ \A x \in S : x \in Nat \ {0}
  <2>1. IsFiniteSet(DOMAIN p)
    BY <1>1, FS_Interval
  <2>2. place \in Surjection(DOMAIN p, S)
    BY DEF Surjection
  <2>3. IsFiniteSet(S)
    BY <2>1, <2>2, FS_Surjection
  <2>4. \A x \in S : x \in Nat \ {0}
    BY DEF Calendared
  <2>5. QED
    BY <2>3, <2>4
<1>3. /\ c \in Nat /\ f \in [1 .. c -> S]
      /\ \A x \in S : \E n \in 1 .. c : f[n] = x
      /\ \A n, m \in 1 .. c : f[n] = f[m] => n = m
  BY <1>2, AscentLists
<1>4. \A x \in S : Place(x) \in DOMAIN p /\ p[Place(x)].num = x
  OBVIOUS
<1>5. DOMAIN q = 1 .. c /\ q = [n \in 1 .. c |-> q[n]] /\ \A n \in 1 .. c : q[n] = p[Place(f[n])]
  <2>1. q = [n \in DOMAIN f |-> p[Place(f[n])]]
    BY Zenon DEF InOrder
  <2>2. DOMAIN f = 1 .. c
    BY <1>3
  <2> HIDE DEF q, f, Place, S
  <2>3. QED
    BY <2>1, <2>2
<1>6. \A i \in DOMAIN p : p[i].num \in S
  OBVIOUS
<1> HIDE DEF S, c, f, q, Place
<1>7. Len(q) = c
  BY <1>3, <1>5
<1>8. \A n \in 1 .. c : /\ IsPacked(q[n]) /\ f[n] \in Nat \ {0}
                        /\ q[n].num = f[n] /\ q[n].start = DateOf(f[n])
  BY <1>2, <1>3, <1>4, <1>5 DEF Calendared
<1>9. ASSUME NEW n \in DOMAIN Ranges PROVE \E i \in 1 .. c : q[i].num = n
  <2>1. n \in S
    BY <1>6 DEF Calendared
  <2>2. QED
    BY <2>1, <1>3, <1>8
<1>10. Calendared(q)
  BY <1>3, <1>5, <1>7, <1>8, <1>9 DEF Calendared
<1>11. QED
  BY <1>10 DEF q

\* packLibraryTopicsPreserveWeeks
LEMMA PackLibraryCovers ==
  ASSUME NEW plan \in LibraryPlans
  PROVE  Calendared(PackLibrary(plan))
<1> DEFINE used == {plan[i].week : i \in DOMAIN plan}
           p == [i \in DOMAIN plan |->
                  Packed(plan[i].week, DateOf(plan[i].week), FALSE, <<plan[i].key>>, 0)]
           q == CatchUps(used)
           A == {p[i] : i \in DOMAIN p} \cup {q[i] : i \in DOMAIN q}
<1>1. /\ Len(plan) \in Nat /\ DOMAIN plan = 1 .. Len(plan)
      /\ \A i, j \in DOMAIN plan :
            plan[i].week \in Nat \ {0} /\ (plan[i].week = plan[j].week => i = j)
  BY WeeksAssumption
<1>2. /\ DOMAIN p = 1 .. Len(plan) /\ p = [i \in 1 .. Len(plan) |-> p[i]]
      /\ \A i \in DOMAIN p : /\ IsPacked(p[i])
                             /\ p[i].num = plan[i].week /\ p[i].start = DateOf(plan[i].week)
  BY <1>1 DEF Packed, IsPacked
<1>3. \A n : n \in used <=> \E i \in DOMAIN plan : plan[i].week = n
  OBVIOUS
<1>4. PackLibrary(plan) = InOrder(p \o q)
  BY DEF PackLibrary
<1>5. /\ Dated(q)
      /\ \A i \in DOMAIN q : q[i].num \notin used
      /\ \A n \in DOMAIN Ranges \ used : \E i \in DOMAIN q : q[i].num = n
      /\ q = [i \in DOMAIN q |-> q[i]]
  BY CatchUpsAre DEF CatchUps
<1> HIDE DEF used, p, q
<1>6. Len(p) = Len(plan) /\ \A n : n \in used <=> \E i \in DOMAIN p : p[i].num = n
  BY <1>1, <1>2, <1>3
<1>7. Dated(p)
  BY <1>1, <1>2, <1>6 DEF Dated
<1>8. p \in Seq(A) /\ q \in Seq(A)
  <2>1. DOMAIN p = 1 .. Len(p) /\ Len(p) \in Nat /\ DOMAIN q = 1 .. Len(q) /\ Len(q) \in Nat
    BY <1>5, <1>7 DEF Dated
  <2>2. p \in [1 .. Len(p) -> A] /\ q \in [1 .. Len(q) -> A]
    BY <1>2, <1>5, <1>6, <2>1
  <2>3. QED
    BY <2>1, <2>2
<1> HIDE DEF A
<1>9. Calendared(p \o q)
  BY <1>5, <1>6, <1>7, <1>8, JoinCovers
<1>10. QED
  BY <1>4, <1>9, InOrderCovers

\* restampContentWeeksOntoCalendar: it covers the calendar, and names only rows
\* that were read.
LEMMA RestampCovers ==
  ASSUME NEW snap, NEW contents \in Contents(snap)
  PROVE  /\ Calendared(Restamp(contents))
         /\ \A i \in DOMAIN Restamp(contents) :
              Restamp(contents)[i].id # 0 => Restamp(contents)[i].id \in snap
<1> DEFINE m == Len(contents)
           p == [i \in DOMAIN contents |-> Packed(i, DateOf(i), FALSE, << >>, contents[i])]
           used == DOMAIN contents
           q == CatchUps(used)
           A == {p[i] : i \in DOMAIN p} \cup {q[i] : i \in DOMAIN q}
           r == p \o q
<1>1. /\ m \in Nat /\ DOMAIN contents = 1 .. m
      /\ \A i \in 1 .. m : contents[i] # 0 => contents[i] \in snap
  <2>1. PICK k \in 0 .. MaxContents : contents \in [1 .. k -> snap \cup {0}]
    BY DEF Contents, SeqOf
  <2>2. k \in Nat
    OBVIOUS
  <2>3. m = k /\ DOMAIN contents = 1 .. k
    BY <2>1, <2>2
  <2>4. QED
    BY <2>1, <2>2, <2>3
<1>2. /\ DOMAIN p = 1 .. m /\ p = [i \in 1 .. m |-> p[i]]
      /\ \A i \in 1 .. m : /\ IsPacked(p[i]) /\ p[i].num = i
                           /\ p[i].start = DateOf(i) /\ p[i].id = contents[i]
  BY <1>1 DEF Packed, IsPacked
<1>3. Restamp(contents) = r
  BY DEF Restamp
<1>4. /\ Dated(q)
      /\ \A i \in DOMAIN q : q[i].num \notin used /\ q[i].id = 0
      /\ \A n \in DOMAIN Ranges \ used : \E i \in DOMAIN q : q[i].num = n
      /\ q = [i \in DOMAIN q |-> q[i]]
  BY CatchUpsAre DEF CatchUps
<1> HIDE DEF p, q, m
<1>5. Len(p) = m
  BY <1>1, <1>2
<1>6. Dated(p)
  BY <1>1, <1>2, <1>5 DEF Dated
<1>7. p \in Seq(A) /\ q \in Seq(A)
  <2>1. DOMAIN p = 1 .. Len(p) /\ Len(p) \in Nat /\ DOMAIN q = 1 .. Len(q) /\ Len(q) \in Nat
    BY <1>4, <1>6 DEF Dated
  <2>2. p \in [1 .. Len(p) -> A] /\ q \in [1 .. Len(q) -> A]
    BY <1>2, <1>4, <1>5, <2>1
  <2>3. QED
    BY <2>1, <2>2
<1> HIDE DEF A
<1>8. \A j \in DOMAIN q : \A i \in DOMAIN p : q[j].num # p[i].num
  BY <1>1, <1>2, <1>4
<1>9. \A n \in DOMAIN Ranges :
         \/ \E i \in DOMAIN p : p[i].num = n
         \/ \E j \in DOMAIN q : q[j].num = n
  BY <1>1, <1>2, <1>4
<1>10. /\ Calendared(r)
       /\ \A i \in DOMAIN r : r[i] = IF i <= Len(p) THEN p[i] ELSE q[i - Len(p)]
       /\ \A i \in DOMAIN r : IF i <= Len(p) THEN i \in DOMAIN p ELSE i - Len(p) \in DOMAIN q
  BY <1>4, <1>6, <1>7, <1>8, <1>9, JoinCovers
<1> HIDE DEF r
<1>11. ASSUME NEW i \in DOMAIN r, r[i].id # 0 PROVE i \in 1 .. m /\ r[i].id = contents[i]
  <2>1. CASE i <= Len(p)
    <3>1. r[i] = p[i] /\ i \in DOMAIN p
      BY <1>10, <2>1
    <3>2. QED
      BY <1>2, <3>1
  <2>2. CASE ~(i <= Len(p))
    <3>1. r[i] = q[i - Len(p)] /\ i - Len(p) \in DOMAIN q
      BY <1>10, <2>2
    <3>2. QED
      BY <1>4, <1>11, <3>1
  <2>3. QED
    BY <2>1, <2>2
<1>12. QED
  BY <1>1, <1>3, <1>10, <1>11

-----------------------------------------------------------------------------
(* The invariant.                                                          *)

WeekOps == {"idle", "replace", "skip", "mark", "markArm", "unmark", "unmarkWeek"}

\* A row of the table, with the date of its number.
RowOK(x) ==
  /\ x = [num |-> x.num, start |-> x.start, catchUp |-> x.catchUp, topics |-> x.topics,
          delivered |-> x.delivered, arms |-> x.arms]
  /\ x.num \in Nat \ {0} /\ x.start = DateOf(x.num)
  /\ x.delivered \in BOOLEAN /\ x.arms \in [Arms -> Deliveries]

TableOK ==
  /\ weeks = [w \in DOMAIN weeks |-> weeks[w]]
  /\ \A w \in DOMAIN weeks : w \in WeekIds /\ RowOK(weeks[w])
  /\ \A v, w \in DOMAIN weeks : weeks[v].num = weeks[w].num => v = w

\* What the handlers have in hand.
CallsOK ==
  call \in [Teams -> [op : WeekOps, snap : SUBSET WeekIds, week : WeekIds \cup {0},
                      num : Nat, arm : Arms \cup {NoArm}]]

\* An id that is given to a new row is nobody's.
LEMMA FreeIdsAre ==
  /\ FreeIds \subseteq Int /\ IsFiniteSet(FreeIds)
  /\ \A id \in FreeIds : /\ id \in WeekIds /\ id \notin DOMAIN weeks
                         /\ \A t \in Teams : id \notin call[t].snap /\ id # call[t].week
<1>1. FreeIds \in SUBSET WeekIds
  BY DEF FreeIds
<1>2. IsFiniteSet(FreeIds)
  BY <1>1, FS_Subset, WeeksAssumption
<1>3. ASSUME NEW id \in FreeIds, NEW t \in Teams PROVE id \notin call[t].snap \cup {call[t].week}
  BY DEF FreeIds
<1>4. ASSUME NEW id \in FreeIds PROVE id \notin DOMAIN weeks
  BY DEF FreeIds
<1>5. ASSUME NEW id \in FreeIds, NEW t \in Teams PROVE id \notin call[t].snap /\ id # call[t].week
  BY <1>3
<1>6. FreeIds \subseteq Int
  BY <1>1, WeeksAssumption
<1>7. QED
  BY <1>1, <1>2, <1>4, <1>5, <1>6

\* The rows a new order of the weeks is written to: the known ones keep their ids,
\* the others get ids nobody has, and two weeks share a row only by its id.
LEMMA RowIds ==
  ASSUME NEW snap, \A id \in FreeIds : id \notin snap,
         NEW contents \in Contents(snap), NEW packed, packed = Restamp(contents),
         Cardinality({i \in DOMAIN packed : packed[i].id = 0}) <= Cardinality(FreeIds)
  PROVE  /\ \A i \in DOMAIN packed :
              IF packed[i].id = 0 THEN RowId(packed, i) \in FreeIds
              ELSE RowId(packed, i) = packed[i].id /\ packed[i].id \in snap
         /\ \A i, j \in DOMAIN packed : RowId(packed, i) = RowId(packed, j) =>
              i = j \/ (packed[i].id = packed[j].id /\ packed[i].id # 0)
<1> DEFINE S == {i \in DOMAIN packed : packed[i].id = 0}
           c == Cardinality(S)
           fresh == InAscent(S)
           K(i) == CHOOSE k \in DOMAIN fresh : fresh[k] = i
           ids == InAscent(FreeIds)
<1>1. /\ Calendared(packed)
      /\ \A i \in DOMAIN packed : packed[i].id # 0 => packed[i].id \in snap
  BY RestampCovers
<1>2. S \subseteq Int /\ IsFiniteSet(S)
  <2>1. Len(packed) \in Nat /\ DOMAIN packed = 1 .. Len(packed)
    BY <1>1 DEF Calendared
  <2>2. S \in SUBSET (1 .. Len(packed))
    BY <2>1
  <2>3. IsFiniteSet(1 .. Len(packed))
    BY <2>1, FS_Interval
  <2>4. IsFiniteSet(S)
    BY <2>2, <2>3, FS_Subset
  <2>5. QED
    BY <2>2, <2>4
<1>3. /\ c \in Nat /\ fresh \in [1 .. c -> S]
      /\ \A x \in S : \E n \in 1 .. c : fresh[n] = x
  BY <1>2, AscentLists
<1>4. /\ Cardinality(FreeIds) \in Nat /\ ids \in [1 .. Cardinality(FreeIds) -> FreeIds]
      /\ \A n, m \in 1 .. Cardinality(FreeIds) : ids[n] = ids[m] => n = m
  BY FreeIdsAre, AscentLists
<1>5. \A i \in DOMAIN packed :
        RowId(packed, i) = IF packed[i].id # 0 THEN packed[i].id ELSE ids[K(i)]
  BY DEF RowId
<1>6. \A i \in DOMAIN packed : packed[i].id = 0 => i \in S
  OBVIOUS
<1> HIDE DEF S, c, fresh
<1>7. \A i \in S : K(i) \in 1 .. c /\ fresh[K(i)] = i
  BY <1>3
<1>8. c <= Cardinality(FreeIds)
  BY DEF c, S
<1> HIDE DEF K, ids
<1>9. \A i \in S : K(i) \in 1 .. Cardinality(FreeIds)
  BY <1>3, <1>4, <1>7, <1>8
<1>10. \A i \in DOMAIN packed :
         packed[i].id = 0 => RowId(packed, i) = ids[K(i)] /\ ids[K(i)] \in FreeIds
  BY <1>4, <1>5, <1>6, <1>9
<1>11. ASSUME NEW i \in DOMAIN packed, NEW j \in DOMAIN packed,
              RowId(packed, i) = RowId(packed, j)
       PROVE  i = j \/ (packed[i].id = packed[j].id /\ packed[i].id # 0)
  <2>1. CASE packed[i].id # 0 /\ packed[j].id # 0
    BY <1>5, <1>11, <2>1
  <2>2. CASE packed[i].id = 0 /\ packed[j].id = 0
    <3>1. i \in S /\ j \in S /\ ids[K(i)] = ids[K(j)]
      BY <1>6, <1>10, <1>11, <2>2
    <3>2. K(i) = K(j)
      BY <1>4, <1>9, <3>1
    <3>3. QED
      BY <1>7, <3>1, <3>2
  <2>3. CASE packed[i].id # 0 /\ packed[j].id = 0
    BY <1>1, <1>5, <1>10, <1>11, <2>3
  <2>4. CASE packed[i].id = 0 /\ packed[j].id # 0
    BY <1>1, <1>5, <1>10, <1>11, <2>4
  <2>5. QED
    BY <2>1, <2>2, <2>3, <2>4
<1>12. QED
  BY <1>1, <1>5, <1>10, <1>11
\* The transaction of a new order fails, on a row that is gone or a number taken.
Refused(t, packed) ==
  \/ call[t].snap \ DOMAIN weeks # {}
  \/ \E w \in DOMAIN weeks \ call[t].snap, i \in DOMAIN packed : weeks[w].num = packed[i].num

\* Each week has a row, but for those the last order took back.
Covered == \A n \in DOMAIN Ranges \ lost : \E w \in DOMAIN weeks : weeks[w].num = n

\* Dates of weeks change with the calendar only.
LEMMA SameCalendar ==
  ASSUME UNCHANGED Calendar PROVE Ranges' = Ranges
  BY DEF Calendar, Ranges, WeekRanges, Buckets

\* A row that is kept or made has the number and the date it is given.
LEMMA RestampedIs ==
  ASSUME TableOK, NEW p, IsPacked(p), p.num \in Nat \ {0}, p.start = DateOf(p.num),
         NEW id, p.id # 0 => id \in DOMAIN weeks
  PROVE  /\ RowOK(Restamped(p, id)) /\ Restamped(p, id).num = p.num
         /\ p.id # 0 => Restamped(p, id).delivered = weeks[id].delivered
<1>1. CASE p.id = 0
  <2> DEFINE x == IF p.catchUp THEN << >> ELSE <<id>>
  <2>1. Restamped(p, id) = NewWeek([p EXCEPT !.topics = x])
    BY <1>1 DEF Restamped
  <2> HIDE DEF x
  <2>2. [p EXCEPT !.topics = x].num = p.num /\ [p EXCEPT !.topics = x].start = p.start
    BY DEF IsPacked, Packed
  <2>3. QED
    BY <1>1, <2>1, <2>2 DEF NewWeek, RowOK, Deliveries
<1>2. CASE p.id # 0
  <2>1. RowOK(weeks[id])
    BY <1>2 DEF TableOK
  <2>2. QED
    BY <1>2, <2>1 DEF Restamped, RowOK
<1>3. QED
  BY <1>1, <1>2

\* The last place a row is given.
LEMMA PlaceIs ==
  ASSUME NEW packed, Calendared(packed), NEW k \in DOMAIN packed
  PROVE  LET w == RowId(packed, k) IN
         /\ PlaceOf(packed, w) \in DOMAIN packed
         /\ RowId(packed, PlaceOf(packed, w)) = w
         /\ k <= PlaceOf(packed, w)
<1> DEFINE w == RowId(packed, k)
           S == {i \in DOMAIN packed : RowId(packed, i) = w}
<1>1. Len(packed) \in Nat /\ DOMAIN packed = 1 .. Len(packed)
  BY DEF Calendared
<1>2. S \in SUBSET (1 .. Len(packed)) /\ k \in S
  BY <1>1
<1>3. S \subseteq Int /\ IsFiniteSet(S) /\ S # {}
  <2>1. IsFiniteSet(1 .. Len(packed))
    BY <1>1, FS_Interval
  <2>2. IsFiniteSet(S)
    BY <1>2, <2>1, FS_Subset
  <2>3. QED
    BY <1>2, <2>2
<1>4. Max(S) \in S /\ \A y \in S : y <= Max(S)
  BY <1>3, GreatestIs
<1>5. /\ Max(S) \in DOMAIN packed /\ RowId(packed, Max(S)) = w
      /\ \A y \in DOMAIN packed : RowId(packed, y) = w => y <= Max(S)
  BY <1>4
<1> HIDE DEF S, w
<1>6. /\ PlaceOf(packed, w) \in DOMAIN packed /\ RowId(packed, PlaceOf(packed, w)) = w
      /\ \A y \in DOMAIN packed : RowId(packed, y) = w => y <= PlaceOf(packed, w)
  BY <1>5 DEF PlaceOf
<1>7. QED
  BY <1>6 DEF w

\* What a new order of the weeks leaves.
LEMMA ReplaceDoes ==
  ASSUME TableOK, CallsOK, NEW t \in Teams, ReplaceWrite(t)
  PROVE  \/ UNCHANGED Rows
         \/ /\ stored' = TRUE /\ lost' \subseteq Nat
            /\ TableOK' /\ Covered'
            /\ \A w \in DOMAIN weeks \cap DOMAIN weeks' : weeks'[w].delivered = weeks[w].delivered
<1> USE DEF Refused
<1>1. PICK contents \in Contents(call[t].snap) :
        IF Refused(t, Restamp(contents)) THEN UNCHANGED Rows
        ELSE /\ Cardinality({i \in DOMAIN Restamp(contents) : Restamp(contents)[i].id = 0})
                  <= Cardinality(FreeIds)
             /\ weeks' = [w \in (DOMAIN weeks \ call[t].snap)
                                 \cup {RowId(Restamp(contents), i) : i \in DOMAIN Restamp(contents)} |->
                  IF w \in DOMAIN weeks \ call[t].snap THEN weeks[w]
                  ELSE Restamped(Restamp(contents)[PlaceOf(Restamp(contents), w)], w)]
             /\ stored' = TRUE
             /\ lost' = Overwritten(Restamp(contents))
  BY DEF ReplaceWrite
<1> DEFINE packed == Restamp(contents)
           strangers == DOMAIN weeks \ call[t].snap
           Id(i) == RowId(packed, i)
           rows == {Id(i) : i \in DOMAIN packed}
           Place(w) == PlaceOf(packed, w)
<1>2. CASE Refused(t, packed)
  BY <1>1, <1>2
<1>3. CASE ~Refused(t, packed)
  <2>1. /\ Cardinality({i \in DOMAIN packed : packed[i].id = 0}) <= Cardinality(FreeIds)
        /\ weeks' = [w \in strangers \cup rows |->
                       IF w \in strangers THEN weeks[w] ELSE Restamped(packed[Place(w)], w)]
        /\ stored' = TRUE /\ lost' = Overwritten(packed)
    BY <1>1, <1>3
  <2>2. /\ \A i \in DOMAIN packed :
             IF packed[i].id = 0 THEN Id(i) \in FreeIds
             ELSE Id(i) = packed[i].id /\ packed[i].id \in call[t].snap
        /\ \A i, j \in DOMAIN packed : Id(i) = Id(j) =>
             i = j \/ (packed[i].id = packed[j].id /\ packed[i].id # 0)
    BY <2>1, FreeIdsAre, RowIds
  <2>3. Calendared(packed)
    BY RestampCovers
  <2>4. Ranges' = Ranges
    BY SameCalendar DEF ReplaceWrite, Keeps
  <2>5. \A i \in DOMAIN packed : /\ Place(Id(i)) \in DOMAIN packed
                                 /\ Id(Place(Id(i))) = Id(i) /\ i <= Place(Id(i))
    BY <2>3, PlaceIs
  <2>6. \A i \in DOMAIN packed : Id(i) \in rows
    OBVIOUS
  <2>7. /\ call[t].snap \ DOMAIN weeks = {}
        /\ \A w \in strangers, i \in DOMAIN packed : weeks[w].num # packed[i].num
    BY <1>3
  <2>8. \A w \in rows : \E i \in DOMAIN packed : w = Id(i)
    OBVIOUS
  <2>9. DOMAIN packed \subseteq Int /\ \A i \in DOMAIN packed : packed[i].num \in Nat \ {0}
    BY <2>3 DEF Calendared
  <2>10. /\ lost' \subseteq Nat
         /\ \A i, j \in DOMAIN packed :
              i < j /\ packed[i].id = packed[j].id /\ packed[i].id # 0 => packed[i].num \in lost'
    BY <2>1, <2>9 DEF Overwritten
  <2> HIDE DEF packed, strangers, rows, Place
  <2>11. /\ DOMAIN weeks' = strangers \cup rows
         /\ weeks' = [w \in DOMAIN weeks' |-> weeks'[w]]
         /\ \A w \in strangers : weeks'[w] = weeks[w] /\ w \in DOMAIN weeks
         /\ \A w \in rows \ strangers : weeks'[w] = Restamped(packed[Place(w)], w)
    BY <2>1 DEF strangers
  <2> HIDE DEF Id
  <2>12. \A i \in DOMAIN packed : /\ packed[i].id # 0 => Id(i) \in DOMAIN weeks
                                  /\ packed[i].id = 0 => Id(i) \notin DOMAIN weeks
                                  /\ Id(i) \notin strangers /\ Id(i) \in WeekIds
    BY <2>2, <2>7, FreeIdsAre DEF strangers, CallsOK, TableOK
  <2>13. \A w \in rows : Place(w) \in DOMAIN packed /\ Id(Place(w)) = w
    BY <2>5, <2>8
  <2>14. ASSUME NEW w \in rows
         PROVE  /\ RowOK(weeks'[w]) /\ weeks'[w].num = packed[Place(w)].num
                /\ w \in DOMAIN weeks => weeks'[w].delivered = weeks[w].delivered
                /\ w \notin strangers /\ w \in WeekIds
    <3> DEFINE p == packed[Place(w)]
    <3>1. /\ p.id # 0 => w \in DOMAIN weeks
          /\ p.id = 0 => w \notin DOMAIN weeks
          /\ w \notin strangers /\ w \in WeekIds
      BY <2>12, <2>13
    <3>2. IsPacked(p) /\ p.num \in Nat \ {0} /\ p.start = DateOf(p.num)
      BY <2>3, <2>13 DEF Calendared
    <3>3. weeks'[w] = Restamped(p, w)
      BY <2>11, <3>1
    <3> HIDE DEF p
    <3>4. /\ RowOK(weeks'[w]) /\ weeks'[w].num = p.num
          /\ w \in DOMAIN weeks => weeks'[w].delivered = weeks[w].delivered
      BY <3>1, <3>2, <3>3, RestampedIs
    <3>5. QED
      BY <3>1, <3>4 DEF p
  <2>15. TableOK'
    <3>1. ASSUME NEW w \in DOMAIN weeks' PROVE w \in WeekIds /\ RowOK(weeks'[w])
      BY <2>11, <2>14 DEF TableOK
    <3>2. ASSUME NEW v \in DOMAIN weeks', NEW w \in DOMAIN weeks', weeks'[v].num = weeks'[w].num
          PROVE  v = w
      <4>1. CASE v \in strangers /\ w \in strangers
        BY <2>11, <3>2, <4>1 DEF TableOK
      <4>2. CASE v \in strangers /\ w \in rows
        BY <2>7, <2>11, <2>13, <2>14, <3>2, <4>2
      <4>3. CASE v \in rows /\ w \in strangers
        BY <2>7, <2>11, <2>13, <2>14, <3>2, <4>3
      <4>4. CASE v \in rows /\ w \in rows
        <5>1. packed[Place(v)].num = packed[Place(w)].num
          BY <2>14, <3>2, <4>4
        <5>2. Place(v) = Place(w)
          BY <2>3, <2>13, <4>4, <5>1 DEF Calendared
        <5>3. Id(Place(v)) = v /\ Id(Place(w)) = w
          BY <2>13, <4>4
        <5>4. QED
          BY <5>2, <5>3
      <4>5. QED
        BY <2>11, <4>1, <4>2, <4>3, <4>4
    <3>3. QED
      BY <2>4, <2>11, <3>1, <3>2 DEF TableOK, RowOK, DateOf
  <2>16. Covered'
    <3>1. ASSUME NEW n \in DOMAIN Ranges \ lost' PROVE \E w \in DOMAIN weeks' : weeks'[w].num = n
      <4>1. PICK i \in DOMAIN packed : packed[i].num = n
        BY <2>3 DEF Calendared
      <4>2. PICK k \in DOMAIN packed : k = Place(Id(i)) /\ Id(k) = Id(i) /\ i <= k
        BY <2>5 DEF Place, Id
      <4>3. k = i
        BY <2>2, <2>9, <2>10, <4>1, <4>2 DEF Id
      <4>4. Id(i) \in DOMAIN weeks' /\ Id(i) \in rows
        BY <2>6, <2>11 DEF Id
      <4>5. QED
        BY <2>14, <4>1, <4>2, <4>3, <4>4
    <3>2. QED
      BY <2>4, <3>1 DEF Covered
  <2>17. \A w \in DOMAIN weeks \cap DOMAIN weeks' : weeks'[w].delivered = weeks[w].delivered
    BY <2>11, <2>14
  <2>18. QED
    BY <2>1, <2>10, <2>15, <2>16, <2>17
<1>4. QED
  BY <1>2, <1>3

BasicOK ==
  /\ today \in 0 .. TermDays + 1
  /\ standing \in {"QUEUED", "GENERATING", "FAILED", "DRAFT", "PUBLISHED", "ARCHIVED"}
  /\ loads \in 0 .. MaxLoads /\ calls \in 0 .. MaxCalls
  /\ stored \in BOOLEAN /\ lost \subseteq Nat /\ alone \in BOOLEAN

\* What is about to be stored covers the calendar, and what comes before the next
\* of its weeks is there, unless an edit has come in between.
LoadOK ==
  /\ load = [by |-> load.by, plan |-> load.plan, packed |-> load.packed, next |-> load.next]
  /\ load.by \in {"none", "drafted", "library"}
  /\ load.by = "library" => load.plan \in LibraryPlans
  /\ Storing =>
       /\ load.by # "none" /\ Calendared(load.packed)
       /\ load.next \in 1 .. Len(load.packed) + 1
       /\ ~stored => \A i \in 1 .. load.next - 1 :
                       \E w \in DOMAIN weeks : weeks[w].num = load.packed[i].num

\* The inductive invariant of any interleaving.
WeeksInv == BasicOK /\ TableOK /\ LoadOK /\ CallsOK /\ (stored => Covered)

\* The one of handlers that do not overlap: nothing is taught before the import or
\* the generation ends, one handler is in flight, no week is taught under a new
\* order, and the week to be marked is the one that was read.
NoneTaught == \A w \in DOMAIN weeks : ~Taught(w)
LoneOK ==
  alone =>
    /\ load.by # "none" => Unhurried /\ NoneTaught
    /\ \A t, u \in Teams : call[t].op # "idle" /\ call[u].op # "idle" => t = u
    /\ \A t \in Teams :
         /\ call[t].op = "replace" => NoneTaught
         /\ call[t].op \notin {"idle", "replace"} =>
              call[t].week \in DOMAIN weeks /\ call[t].num = weeks[call[t].week].num

\* A step does what TaughtStays says.
TaughtStep ==
  alone' => \A w \in DOMAIN weeks : Taught(w) =>
    w \in DOMAIN weeks' /\ weeks'[w].num = weeks[w].num

\* What the invariant says of the calendar.
LEMMA CalendarSays ==
  ASSUME WeeksInv
  PROVE  WeeksTypeOK /\ CalendarCovered
<1>1. \A n \in DOMAIN Ranges : DateOf(n) = Ranges[n] /\ Ranges[n] \in 1 .. TermDays
  BY RangesAre DEF DateOf, Ranges
<1>2. \A n : DateOf(n) \in 0 .. TermDays
  BY <1>1, WeeksAssumption DEF DateOf
<1>3. WeeksTypeOK
  <2>1. \A w \in DOMAIN weeks : weeks[w].start \in 0 .. TermDays
    BY <1>2 DEF WeeksInv, TableOK, RowOK
  <2>2. \A t \in Teams : call[t].op \in WeekOps
    BY DEF WeeksInv, CallsOK
  <2>3. QED
    BY <2>1, <2>2 DEF WeeksInv, WeeksTypeOK, BasicOK, TableOK, RowOK, WeekOps
<1>4. CalendarCovered
  BY <1>1 DEF WeeksInv, CalendarCovered, Covered, TableOK, RowOK
<1>5. QED
  BY <1>3, <1>4

LEMMA WeeksStart ==
  ASSUME WeeksInit PROVE WeeksInv /\ LoneOK
<1>1. BasicOK
  <2>1. /\ today = 0 /\ standing = "QUEUED" /\ loads = 0 /\ calls = 0 /\ stored = FALSE
        /\ lost = {} /\ alone = TRUE
    BY DEF WeeksInit
  <2>2. TermDays \in Nat /\ MaxLoads \in Nat /\ MaxCalls \in Nat
    BY WeeksAssumption
  <2>3. 0 \in 0 .. TermDays + 1 /\ 0 \in 0 .. MaxLoads /\ 0 \in 0 .. MaxCalls
    BY <2>2
  <2>4. stored \in BOOLEAN /\ lost \subseteq Nat /\ alone \in BOOLEAN
    BY <2>1
  <2>5. QED
    BY <2>1, <2>3, <2>4 DEF BasicOK
<1>2. TableOK /\ NoneTaught
  <2>1. weeks = << >>
    BY DEF WeeksInit
  <2>2. DOMAIN weeks = {}
    BY <2>1
  <2>3. weeks = [w \in {} |-> weeks[w]]
    BY <2>1
  <2>4. QED
    BY <2>2, <2>3 DEF TableOK, NoneTaught
<1>3. LoadOK
  BY DEF WeeksInit, LoadOK, NoLoad, Storing
<1>4. CallsOK
  BY DEF WeeksInit, CallsOK, NoCall, WeekOps
<1>5. QED
  BY <1>1, <1>2, <1>3, <1>4 DEF WeeksInit, WeeksInv, LoneOK, Unhurried, NoCall

\* The rows are rewritten in place, each with the number it had.
Edited(ws) ==
  /\ ws = [w \in DOMAIN ws |-> ws[w]] /\ DOMAIN ws = DOMAIN weeks
  /\ \A w \in DOMAIN weeks : RowOK(ws[w]) /\ ws[w].num = weeks[w].num

LEMMA EditedKeeps ==
  ASSUME WeeksInv, Edited(weeks'), UNCHANGED <<Calendar, load, stored, lost>>
  PROVE  TableOK' /\ LoadOK' /\ (stored => Covered)'
<1>1. Ranges' = Ranges
  BY SameCalendar
<1>2. TableOK'
  BY <1>1 DEF WeeksInv, TableOK, Edited, RowOK, DateOf
<1>3. Covered => Covered'
  BY <1>1 DEF Covered, Edited
<1>4. LoadOK'
  BY <1>1 DEF WeeksInv, LoadOK, Storing, Calendared, Edited, DateOf
<1>5. QED
  BY <1>2, <1>3, <1>4 DEF WeeksInv

\* A delivery is noted for an arm.
LEMMA SetArmEdits ==
  ASSUME TableOK, CallsOK, NEW t \in Teams, call[t].week \in DOMAIN weeks,
         NEW d \in Deliveries
  PROVE  /\ Edited(SetArm(t, weeks, d))
         /\ \A w \in DOMAIN weeks : SetArm(t, weeks, d)[w].delivered = weeks[w].delivered
<1> DEFINE a == call[t].arm
           k == call[t].week
<1>1. CASE a = NoArm
  BY <1>1 DEF SetArm, TableOK, Edited
<1>2. CASE a # NoArm
  <2>1. a \in Arms
    BY <1>2 DEF CallsOK
  <2>2. RowOK(weeks[k])
    BY DEF TableOK
  <2>3. SetArm(t, weeks, d) = [weeks EXCEPT ![k].arms[a] = d]
    BY <1>2 DEF SetArm
  <2> DEFINE x == [weeks[k] EXCEPT !.arms[a] = d]
  <2>4. RowOK(x) /\ x.num = weeks[k].num /\ x.delivered = weeks[k].delivered
    BY <2>1, <2>2 DEF RowOK
  <2>5. [weeks EXCEPT ![k].arms[a] = d] = [w \in DOMAIN weeks |-> IF w = k THEN x ELSE weeks[w]]
    BY DEF TableOK
  <2> HIDE DEF x
  <2>6. QED
    BY <2>3, <2>4, <2>5 DEF TableOK, Edited
<1>3. QED
  BY <1>1, <1>2

\* A handler goes on to its next step, or ends.
LEMMA CallGoesOn ==
  ASSUME CallsOK, NEW t \in Teams, NEW op \in WeekOps, Then(t, op)
  PROVE  /\ CallsOK'
         /\ \A u \in Teams \ {t} : call'[u] = call[u]
         /\ call'[t].op = op /\ call'[t].week = call[t].week /\ call'[t].num = call[t].num
  BY DEF CallsOK, Then

LEMMA CallEnds ==
  ASSUME CallsOK, NEW t \in Teams, End(t)
  PROVE  /\ CallsOK'
         /\ \A u \in Teams \ {t} : call'[u] = call[u]
         /\ call'[t].op = "idle"
  BY DEF CallsOK, End, NoCall, WeekOps

-----------------------------------------------------------------------------
(* Steps of the teachers.                                                  *)

LEMMA MarkKeeps ==
  ASSUME WeeksInv, LoneOK, NEW t \in Teams, call[t].op \notin {"idle", "replace"},
         Edited(weeks'), Keeps, UNCHANGED <<stored, lost>>,
         End(t) \/ \E op \in WeekOps \ {"idle", "replace"} : Then(t, op)
  PROVE  WeeksInv' /\ LoneOK' /\ TaughtStep
<1>1. /\ CallsOK'
      /\ \A u \in Teams \ {t} : call'[u] = call[u]
      /\ \/ call'[t].op = "idle"
         \/ /\ call'[t].op \notin {"idle", "replace"}
            /\ call'[t].week = call[t].week /\ call'[t].num = call[t].num
  <2>1. CASE End(t)
    BY <2>1, CallEnds DEF WeeksInv
  <2>2. CASE \E op \in WeekOps \ {"idle", "replace"} : Then(t, op)
    BY <2>2, CallGoesOn DEF WeeksInv
  <2>3. QED
    BY <2>1, <2>2
<1>2. TableOK' /\ LoadOK' /\ (stored => Covered)'
  BY EditedKeeps DEF Keeps
<1>3. WeeksInv'
  BY <1>1, <1>2 DEF WeeksInv, BasicOK, Keeps
<1>4. TaughtStep
  BY DEF TaughtStep, Edited
<1>5. LoneOK'
  <2> SUFFICES ASSUME alone PROVE
      /\ load.by = "none"
      /\ \A u, v \in Teams : call'[u].op # "idle" /\ call'[v].op # "idle" => u = v
      /\ \A u \in Teams :
           /\ call'[u].op # "replace"
           /\ call'[u].op \notin {"idle", "replace"} =>
                call'[u].week \in DOMAIN weeks' /\ call'[u].num = weeks'[call'[u].week].num
    BY DEF LoneOK, Keeps
  <2>1. load.by = "none" /\ \A u \in Teams \ {t} : call[u].op = "idle"
    BY DEF LoneOK, Unhurried
  <2>2. call[t].week \in DOMAIN weeks /\ call[t].num = weeks[call[t].week].num
    BY DEF LoneOK
  <2>3. QED
    BY <1>1, <2>1, <2>2 DEF Edited
<1>6. QED
  BY <1>3, <1>4, <1>5

\* A week is marked or unmarked.
LEMMA DeliveredEdits ==
  ASSUME TableOK, NEW k \in DOMAIN weeks, NEW d \in BOOLEAN
  PROVE  Edited([weeks EXCEPT ![k].delivered = d])
<1> DEFINE x == [weeks[k] EXCEPT !.delivered = d]
<1>1. RowOK(x) /\ x.num = weeks[k].num
  BY DEF TableOK, RowOK
<1>2. [weeks EXCEPT ![k].delivered = d] = [w \in DOMAIN weeks |-> IF w = k THEN x ELSE weeks[w]]
  BY DEF TableOK
<1> HIDE DEF x
<1>3. QED
  BY <1>1, <1>2 DEF TableOK, Edited

LEMMA MarksKeep ==
  ASSUME WeeksInv, LoneOK, NEW t \in Teams,
         \/ Gone(t) \/ SkipWrite(t) \/ MarkWrite(t) \/ MarkArm(t) \/ UnmarkArm(t) \/ UnmarkWrite(t)
  PROVE  WeeksInv' /\ LoneOK' /\ TaughtStep
<1> USE DEF WeekOps
<1> DEFINE k == call[t].week
<1>1. Edited(weeks)
  BY DEF WeeksInv, TableOK, Edited
<1>2. CASE Gone(t)
  BY <1>1, <1>2, MarkKeeps DEF Gone, Rows, Edited
<1>3. CASE SkipWrite(t)
  <2>1. Doing(t, "skip") /\ \E next \in {"mark", "unmark"} : Then(t, next)
    BY <1>3 DEF SkipWrite
  <2>2. ASSUME NEW d \in {"SKIPPED", "COMBINED"} PROVE Edited(SetArm(t, weeks, d))
    BY <2>1, SetArmEdits DEF Doing, Deliveries, WeeksInv
  <2>3. \/ \E d \in {"SKIPPED", "COMBINED"} : weeks' = SetArm(t, weeks, d)
        \/ \E into \in DOMAIN weeks : \E x :
             weeks' = [SetArm(t, weeks, "COMBINED") EXCEPT ![into].topics = x]
    BY <1>3 DEF SkipWrite
  <2>4. ASSUME NEW into \in DOMAIN weeks, NEW x, NEW ws, Edited(ws)
        PROVE  Edited([ws EXCEPT ![into].topics = x])
    <3>1. /\ RowOK([ws[into] EXCEPT !.topics = x])
          /\ [ws[into] EXCEPT !.topics = x].num = weeks[into].num
      BY <2>4 DEF Edited, RowOK
    <3>2. QED
      BY <2>4, <3>1 DEF Edited
  <2>5. Edited(weeks')
    BY <2>2, <2>3, <2>4
  <2>6. QED
    BY <2>1, <2>5, MarkKeeps DEF Doing
<1>4. CASE MarkWrite(t)
  <2>1. Edited([weeks EXCEPT ![k].delivered = TRUE])
    BY <1>4, DeliveredEdits DEF MarkWrite, Doing, WeeksInv
  <2>2. QED
    BY <1>1, <1>4, <2>1, MarkKeeps DEF MarkWrite, Doing
<1>5. CASE MarkArm(t)
  BY <1>5, SetArmEdits, MarkKeeps DEF MarkArm, Doing, WeeksInv, Deliveries
<1>6. CASE UnmarkArm(t)
  BY <1>6, SetArmEdits, MarkKeeps DEF UnmarkArm, Doing, WeeksInv, Deliveries
<1>7. CASE UnmarkWrite(t)
  <2>1. Edited([weeks EXCEPT ![k].delivered = FALSE])
    BY <1>7, DeliveredEdits DEF UnmarkWrite, Doing, WeeksInv
  <2>2. QED
    BY <1>7, <2>1, MarkKeeps DEF UnmarkWrite, Doing
<1>8. QED
  BY <1>2, <1>3, <1>4, <1>5, <1>6, <1>7

\* A request begins.
LEMMA BeginKeeps ==
  ASSUME WeeksInv, LoneOK, NEW t \in Teams,
         NEW c \in [op : WeekOps, snap : SUBSET WeekIds, week : WeekIds \cup {0},
                    num : Nat, arm : Arms \cup {NoArm}],
         BeginCall(t, c),
         c.op = "replace" => NoneTaught,
         c.op \notin {"idle", "replace"} => c.week \in DOMAIN weeks /\ c.num = weeks[c.week].num
  PROVE  WeeksInv' /\ LoneOK' /\ TaughtStep
<1>1. /\ call' = [call EXCEPT ![t] = c]
      /\ calls < MaxCalls /\ calls' = calls + 1
      /\ alone' = (alone /\ Unhurried /\ load.by = "none")
      /\ UNCHANGED <<Calendar, today, standing, weeks, load, loads, stored, lost>>
  BY DEF BeginCall, Rows
<1>2. CallsOK' /\ call'[t] = c /\ \A u \in Teams \ {t} : call'[u] = call[u]
  BY <1>1 DEF WeeksInv, CallsOK
<1>3. alone' \in BOOLEAN
  BY <1>1
<1>4. BasicOK'
  BY <1>1, <1>3, WeeksAssumption DEF WeeksInv, BasicOK
<1>5. Ranges' = Ranges
  BY <1>1, SameCalendar
<1>6. TableOK' /\ LoadOK' /\ (stored => Covered)'
  BY <1>1, <1>5 DEF WeeksInv, TableOK, RowOK, DateOf, LoadOK, Storing, Calendared, Covered
<1>7. WeeksInv'
  BY <1>2, <1>4, <1>6 DEF WeeksInv
<1>8. LoneOK'
  <2> SUFFICES ASSUME alone' PROVE
      /\ load'.by = "none"
      /\ \A u, v \in Teams : call'[u].op # "idle" /\ call'[v].op # "idle" => u = v
      /\ \A u \in Teams :
           /\ call'[u].op = "replace" => NoneTaught
           /\ call'[u].op \notin {"idle", "replace"} =>
                call'[u].week \in DOMAIN weeks' /\ call'[u].num = weeks'[call'[u].week].num
    BY <1>1 DEF LoneOK, NoneTaught, Taught
  <2>1. load.by = "none" /\ Unhurried
    BY <1>1
  <2>2. QED
    BY <1>1, <1>2, <2>1 DEF Unhurried
<1>9. QED
  BY <1>1, <1>7, <1>8 DEF TaughtStep

LEMMA BeginsKeep ==
  ASSUME WeeksInv, LoneOK, NEW t \in Teams, ReplaceRead(t) \/ MarkRead(t)
  PROVE  WeeksInv' /\ LoneOK' /\ TaughtStep
<1>1. CASE ReplaceRead(t)
  <2> DEFINE c == [NoCall EXCEPT !.op = "replace", !.snap = DOMAIN weeks]
  <2>1. BeginCall(t, c) /\ ~TeachingStarted
    BY <1>1 DEF ReplaceRead
  <2>2. /\ c.op = "replace"
        /\ c \in [op : WeekOps, snap : SUBSET WeekIds, week : WeekIds \cup {0},
                  num : Nat, arm : Arms \cup {NoArm}]
    BY DEF NoCall, WeekOps, WeeksInv, TableOK
  <2>3. NoneTaught
    BY <2>1 DEF TeachingStarted, NoneTaught, Taught
  <2> HIDE DEF c
  <2>4. QED
    BY <2>1, <2>2, <2>3, BeginKeeps
<1>2. CASE MarkRead(t)
  <2>1. PICK w \in DOMAIN weeks, a \in Arms \cup {NoArm}, op \in {"skip", "mark", "unmark"} :
          BeginCall(t, [NoCall EXCEPT !.op = op, !.week = w, !.num = weeks[w].num, !.arm = a])
    BY <1>2 DEF MarkRead
  <2> DEFINE c == [NoCall EXCEPT !.op = op, !.week = w, !.num = weeks[w].num, !.arm = a]
  <2>2. /\ c.op = op /\ c.week = w /\ c.num = weeks[w].num
        /\ c \in [op : WeekOps, snap : SUBSET WeekIds, week : WeekIds \cup {0},
                  num : Nat, arm : Arms \cup {NoArm}]
    BY DEF NoCall, WeekOps, WeeksInv, TableOK, RowOK
  <2> HIDE DEF c
  <2>3. BeginCall(t, c)
    BY <2>1 DEF c
  <2>4. QED
    BY <2>2, <2>3, BeginKeeps
<1>3. QED
  BY <1>1, <1>2

-----------------------------------------------------------------------------
(* A new order of the weeks.                                               *)

LEMMA ReplaceKeeps ==
  ASSUME WeeksInv, LoneOK, NEW t \in Teams, ReplaceWrite(t)
  PROVE  WeeksInv' /\ LoneOK' /\ TaughtStep
<1>1. call[t].op = "replace" /\ End(t) /\ Keeps
  BY DEF ReplaceWrite
<1>2. CallsOK' /\ call'[t].op = "idle" /\ \A u \in Teams \ {t} : call'[u] = call[u]
  BY <1>1, CallEnds DEF WeeksInv
<1>3. Ranges' = Ranges
  BY <1>1, SameCalendar DEF Keeps
<1>4. alone => NoneTaught /\ load.by = "none" /\ \A u \in Teams \ {t} : call[u].op = "idle"
  BY <1>1 DEF LoneOK, Unhurried
<1>5. CASE UNCHANGED <<weeks, stored, lost>>
  <2>1. TableOK' /\ LoadOK' /\ (stored => Covered)'
    BY <1>5, <1>1, EditedKeeps DEF WeeksInv, TableOK, Edited, Keeps
  <2>2. WeeksInv'
    BY <1>1, <1>2, <1>5, <2>1 DEF WeeksInv, BasicOK, Keeps
  <2>3. LoneOK'
    BY <1>1, <1>2, <1>4 DEF LoneOK, Keeps
  <2>4. QED
    BY <1>5, <2>2, <2>3 DEF TaughtStep
<1>6. CASE stored' = TRUE /\ lost' \subseteq Nat /\ TableOK' /\ Covered'
  <2>1. LoadOK'
    BY <1>1, <1>3, <1>6 DEF WeeksInv, LoadOK, Keeps, Storing, Calendared, DateOf
  <2>2. WeeksInv'
    BY <1>1, <1>2, <1>6, <2>1 DEF WeeksInv, BasicOK, Keeps
  <2>3. LoneOK'
    BY <1>1, <1>2, <1>4 DEF LoneOK, Keeps
  <2>4. TaughtStep
    BY <1>1, <1>4 DEF TaughtStep, NoneTaught, Keeps
  <2>5. QED
    BY <2>2, <2>3, <2>4
<1>7. QED
  BY <1>5, <1>6, ReplaceDoes DEF WeeksInv, Rows
-----------------------------------------------------------------------------
(* An import or a generation.                                              *)

\* What is stored is given up, or attempted again.
LEMMA LoadDropped ==
  ASSUME LoadOK,
         \/ load' = NoLoad
         \/ load.by = "drafted" /\ load' = [load EXCEPT !.packed = << >>, !.next = 0]
  PROVE  LoadOK' /\ (load'.by # "none" => load.by # "none")
<1>1. CASE load' = NoLoad
  BY <1>1 DEF LoadOK, NoLoad, Storing
<1>2. CASE load.by = "drafted" /\ load' = [load EXCEPT !.packed = << >>, !.next = 0]
  <2>1. load' = [by |-> "drafted", plan |-> load.plan, packed |-> << >>, next |-> 0]
    BY <1>2 DEF LoadOK
  <2>2. QED
    BY <1>2, <2>1 DEF LoadOK, Storing
<1>3. QED
  BY <1>1, <1>2

LEMMA PackKeeps ==
  ASSUME WeeksInv, LoneOK, LoadPack
  PROVE  WeeksInv' /\ LoneOK' /\ TaughtStep
<1>1. /\ load.by # "none" /\ ~Storing
      /\ loads < MaxLoads /\ loads' = loads + 1
      /\ standing' \in {"GENERATING", "FAILED", InitialStanding}
      /\ alone' = (alone /\ Unhurried)
      /\ UNCHANGED <<Calendar, today, call, calls>>
  BY DEF LoadPack
<1>2. \/ load' \in {NoLoad, Retried(loads + 1)} /\ UNCHANGED <<weeks, stored, lost>>
      \/ /\ load' = [load EXCEPT !.next = 1, !.packed =
                       IF load.by = "drafted" THEN PackTopics(load.plan) ELSE PackLibrary(load.plan)]
         /\ weeks' = << >> /\ stored' = FALSE /\ lost' = {}
  BY DEF LoadPack, Rows
<1>3. alone' \in BOOLEAN /\ stored' \in BOOLEAN /\ lost' \subseteq Nat
  BY <1>1, <1>2 DEF WeeksInv, BasicOK
<1>4. BasicOK'
  BY <1>1, <1>3, WeeksAssumption DEF WeeksInv, BasicOK
<1>5. CallsOK'
  BY <1>1 DEF WeeksInv, CallsOK
<1>6. Ranges' = Ranges
  BY <1>1, SameCalendar
<1>7. CASE load' \in {NoLoad, Retried(loads + 1)} /\ UNCHANGED <<weeks, stored, lost>>
  <2>1. TableOK' /\ (stored => Covered)'
    BY <1>6, <1>7 DEF WeeksInv, TableOK, RowOK, DateOf, Covered
  <2>2. LoadOK'
    <3>1. \/ load' = NoLoad
          \/ load.by = "drafted" /\ load' = [load EXCEPT !.packed = << >>, !.next = 0]
      BY <1>7 DEF Retried
    <3>2. QED
      BY <3>1, LoadDropped DEF WeeksInv
  <2>3. LoneOK'
    BY <1>1, <1>7 DEF LoneOK, Unhurried, NoneTaught, Taught
  <2>4. QED
    BY <1>4, <1>5, <1>7, <2>1, <2>2, <2>3 DEF WeeksInv, TaughtStep
<1>8. CASE ~(load' \in {NoLoad, Retried(loads + 1)} /\ UNCHANGED <<weeks, stored, lost>>)
  <2>1. PICK packed :
          packed = IF load.by = "drafted" THEN PackTopics(load.plan) ELSE PackLibrary(load.plan)
    OBVIOUS
  <2>2. load' = [load EXCEPT !.next = 1, !.packed = packed] /\ weeks' = << >> /\ stored' = FALSE
    BY <1>2, <1>8, <2>1
  <2>3. Calendared(packed)
    <3>1. CASE load.by = "drafted"
      BY <2>1, <3>1, PackTopicsCovers
    <3>2. CASE load.by = "library"
      BY <2>1, <3>2, PackLibraryCovers DEF WeeksInv, LoadOK
    <3>3. QED
      BY <1>1, <3>1, <3>2 DEF WeeksInv, LoadOK
  <2>4. load' = [by |-> load.by, plan |-> load.plan, packed |-> packed, next |-> 1]
    BY <2>2 DEF WeeksInv, LoadOK
  <2>5. Calendared(packed)' /\ Len(packed) \in Nat
    BY <1>6, <2>3 DEF Calendared, DateOf
  <2>6. LoadOK'
    BY <1>1, <2>4, <2>5 DEF LoadOK, WeeksInv, Storing
  <2>7. TableOK' /\ NoneTaught'
    <3>1. DOMAIN weeks' = {}
      BY <2>2
    <3>2. weeks' = [w \in {} |-> weeks'[w]]
      BY <2>2
    <3>3. QED
      BY <3>1, <3>2 DEF TableOK, NoneTaught
  <2>8. LoneOK'
    <3> SUFFICES ASSUME alone' PROVE Unhurried'
      BY <2>7 DEF LoneOK, Unhurried
    <3>1. QED
      BY <1>1 DEF Unhurried
  <2>9. TaughtStep
    BY <1>1 DEF TaughtStep, LoneOK, NoneTaught
  <2>10. QED
    BY <1>4, <1>5, <2>2, <2>6, <2>7, <2>8, <2>9 DEF WeeksInv
<1>9. QED
  BY <1>7, <1>8
\* A row is added, with a number that was free.
LEMMA RowAdded ==
  ASSUME TableOK, NEW id \in WeekIds, id \notin DOMAIN weeks, NEW p, p.num \in Nat \ {0},
         p.start = DateOf(p.num), \A w \in DOMAIN weeks : weeks[w].num # p.num,
         Ranges' = Ranges, lost' = lost,
         weeks' = [w \in DOMAIN weeks \cup {id} |-> IF w # id THEN weeks[w] ELSE NewWeek(p)]
  PROVE  /\ TableOK' /\ (Covered => Covered')
         /\ \A w \in DOMAIN weeks : w \in DOMAIN weeks' /\ weeks'[w] = weeks[w]
         /\ weeks'[id].num = p.num /\ id \in DOMAIN weeks'
         /\ NoneTaught => NoneTaught'
<1> DEFINE x == NewWeek(p)
<1>1. RowOK(x) /\ x.num = p.num /\ ~x.delivered /\ \A a \in Arms : x.arms[a] = "none"
  BY DEF NewWeek, RowOK, Deliveries
<1> HIDE DEF x
<1>2. /\ weeks' = [w \in DOMAIN weeks \cup {id} |-> IF w # id THEN weeks[w] ELSE x]
      /\ DOMAIN weeks' = DOMAIN weeks \cup {id} /\ weeks'[id] = x
      /\ \A w \in DOMAIN weeks : weeks'[w] = weeks[w]
  BY DEF x
<1>3. TableOK'
  <2>1. \A w \in DOMAIN weeks' : w \in WeekIds /\ RowOK(weeks'[w])
    BY <1>1, <1>2 DEF TableOK
  <2>2. \A v, w \in DOMAIN weeks' : weeks'[v].num = weeks'[w].num => v = w
    BY <1>1, <1>2 DEF TableOK
  <2>3. QED
    BY <1>2, <2>1, <2>2 DEF TableOK, RowOK, DateOf
<1>4. Covered => Covered'
  BY <1>2 DEF Covered
<1>5. ASSUME NoneTaught PROVE NoneTaught'
  <2>1. \A w \in DOMAIN weeks' : ~weeks'[w].delivered
    BY <1>1, <1>2, <1>5 DEF NoneTaught, Taught
  <2>2. \A w \in DOMAIN weeks' : \A a \in Arms : weeks'[w].arms[a] # "DELIVERED"
    BY <1>1, <1>2, <1>5 DEF NoneTaught, Taught
  <2>3. QED
    BY <2>1, <2>2 DEF NoneTaught, Taught
<1>6. QED
  BY <1>1, <1>2, <1>3, <1>4, <1>5

LEMMA LoadWeekKeeps ==
  ASSUME WeeksInv, LoneOK, LoadWeek
  PROVE  WeeksInv' /\ LoneOK' /\ TaughtStep
<1> DEFINE p == load.packed[load.next]
           taken == \E w \in DOMAIN weeks : weeks[w].num = p.num
           twice == ~IsInjective(p.topics)
           y == IF twice THEN [p EXCEPT !.topics = << >>] ELSE p
<1>1. /\ Storing /\ load.next <= Len(load.packed)
      /\ UNCHANGED <<Calendar, today, call, loads, calls, stored, lost, alone>>
  BY DEF LoadWeek
<1>2. IF taken THEN weeks' = weeks
      ELSE \E id \in FreeIds :
             weeks' = [w \in DOMAIN weeks \cup {id} |-> IF w # id THEN weeks[w] ELSE NewWeek(y)]
  BY DEF LoadWeek
<1>3. \/ /\ ~taken /\ UNCHANGED standing
         /\ load' = [load EXCEPT !.next = load.next + 1]
      \/ LoadFails
  BY DEF LoadWeek
<1>4. /\ load.next \in DOMAIN load.packed /\ load.next \in Nat \ {0}
      /\ IsPacked(p) /\ p.num \in Nat \ {0} /\ p.start = DateOf(p.num)
  BY <1>1 DEF WeeksInv, LoadOK, Calendared
<1>5. y.num = p.num /\ y.start = p.start
  BY <1>4 DEF IsPacked, Packed
<1> HIDE DEF y
<1>6. Ranges' = Ranges
  BY <1>1, SameCalendar
<1>7. /\ TableOK' /\ (Covered => Covered')
      /\ \A w \in DOMAIN weeks : w \in DOMAIN weeks' /\ weeks'[w] = weeks[w]
      /\ \E w \in DOMAIN weeks' : weeks'[w].num = p.num
      /\ NoneTaught => NoneTaught'
  <2>1. CASE taken
    BY <1>1, <1>2, <1>6, <2>1 DEF WeeksInv, TableOK, RowOK, DateOf, Covered, NoneTaught, Taught
  <2>2. CASE ~taken
    <3>1. PICK id \in FreeIds :
            weeks' = [w \in DOMAIN weeks \cup {id} |-> IF w # id THEN weeks[w] ELSE NewWeek(y)]
      BY <1>2, <2>2
    <3>2. id \in WeekIds /\ id \notin DOMAIN weeks
      BY FreeIdsAre
    <3>3. \A w \in DOMAIN weeks : weeks[w].num # y.num
      BY <1>5, <2>2
    <3>4. y.num \in Nat \ {0} /\ y.start = DateOf(y.num)
      BY <1>4, <1>5
    <3> HIDE DEF p
    <3>5. QED
      BY <1>1, <1>5, <1>6, <3>1, <3>2, <3>3, <3>4, RowAdded DEF WeeksInv
  <2>3. QED
    BY <2>1, <2>2
<1>8. CallsOK'
  BY <1>1 DEF WeeksInv, CallsOK
<1>9. TaughtStep
  BY <1>7 DEF TaughtStep
<1>10. load'.by # "none" => load.by # "none"
  BY <1>1 DEF WeeksInv, LoadOK
<1>11. LoneOK'
  <2> SUFFICES ASSUME alone PROVE
      /\ Unhurried' /\ NoneTaught'
    BY <1>1 DEF LoneOK, Unhurried
  <2>1. load.by # "none"
    BY <1>1 DEF WeeksInv, LoadOK
  <2>2. QED
    BY <1>1, <1>7, <2>1 DEF LoneOK, Unhurried
<1>12. BasicOK' /\ LoadOK'
  <2>1. CASE /\ ~taken /\ UNCHANGED standing
             /\ load' = [load EXCEPT !.next = load.next + 1]
    <3>1. BasicOK'
      BY <1>1, <2>1 DEF WeeksInv, BasicOK
    <3>2. load' = [by |-> load.by, plan |-> load.plan, packed |-> load.packed, next |-> load.next + 1]
      BY <2>1 DEF WeeksInv, LoadOK
    <3>3. load.next + 1 \in 1 .. Len(load.packed) + 1
      BY <1>1, <1>4 DEF WeeksInv, LoadOK, Calendared
    <3>4. ASSUME ~stored, NEW i \in 1 .. (load.next + 1) - 1
          PROVE  \E w \in DOMAIN weeks' : weeks'[w].num = load.packed[i].num
      <4>1. CASE i = load.next
        BY <1>7, <4>1
      <4>2. CASE i # load.next
        <5>1. i \in 1 .. load.next - 1
          BY <1>4, <4>2
        <5>2. PICK w \in DOMAIN weeks : weeks[w].num = load.packed[i].num
          BY <1>1, <3>4, <5>1 DEF WeeksInv, LoadOK
        <5>3. QED
          BY <1>7, <5>2
      <4>3. QED
        BY <4>1, <4>2
    <3>5. Calendared(load.packed) /\ load.by # "none"
      BY <1>1 DEF WeeksInv, LoadOK
    <3>6. LoadOK'
      BY <1>1, <1>6, <3>2, <3>3, <3>4, <3>5 DEF WeeksInv, LoadOK, Storing, Calendared, DateOf
    <3>7. QED
      BY <3>1, <3>6
  <2>2. CASE LoadFails
    <3>1. \/ load' = NoLoad
          \/ load.by = "drafted" /\ load' = [load EXCEPT !.packed = << >>, !.next = 0]
      BY <2>2 DEF LoadFails, Retried
    <3>2. BasicOK'
      BY <1>1, <2>2 DEF WeeksInv, BasicOK, LoadFails
    <3>3. LoadOK'
      BY <3>1, LoadDropped DEF WeeksInv
    <3>4. QED
      BY <3>2, <3>3
  <2>3. QED
    BY <1>3, <2>1, <2>2
<1>13. QED
  BY <1>1, <1>7, <1>8, <1>9, <1>11, <1>12 DEF WeeksInv
LEMMA LoadEndKeeps ==
  ASSUME WeeksInv, LoneOK, LoadEnd
  PROVE  WeeksInv' /\ LoneOK' /\ TaughtStep
<1>1. /\ Storing /\ load.next > Len(load.packed)
      /\ load' = NoLoad
      /\ standing' = IF load.by = "drafted" THEN "DRAFT" ELSE standing
      /\ stored' = TRUE
      /\ UNCHANGED <<Calendar, today, weeks, call, loads, calls, lost, alone>>
  BY DEF LoadEnd
<1>2. Ranges' = Ranges
  BY <1>1, SameCalendar
<1>3. Covered
  <2>1. CASE stored
    BY <2>1 DEF WeeksInv
  <2>2. CASE ~stored
    <3>1. /\ Calendared(load.packed) /\ load.next = Len(load.packed) + 1 /\ Len(load.packed) \in Nat
          /\ \A i \in 1 .. load.next - 1 :
               \E w \in DOMAIN weeks : weeks[w].num = load.packed[i].num
      BY <1>1, <2>2 DEF WeeksInv, LoadOK, Calendared
    <3>2. \A i \in DOMAIN load.packed : \E w \in DOMAIN weeks : weeks[w].num = load.packed[i].num
      BY <3>1 DEF Calendared
    <3>3. QED
      BY <3>1, <3>2 DEF Covered, Calendared
  <2>3. QED
    BY <2>1, <2>2
<1>4. BasicOK' /\ CallsOK' /\ LoadOK'
  BY <1>1 DEF WeeksInv, BasicOK, CallsOK, LoadOK, NoLoad, Storing
<1>5. TableOK' /\ Covered'
  BY <1>1, <1>2, <1>3 DEF WeeksInv, TableOK, RowOK, DateOf, Covered
<1>6. LoneOK'
  BY <1>1 DEF LoneOK, NoLoad, NoneTaught, Taught
<1>7. QED
  BY <1>1, <1>4, <1>5, <1>6 DEF WeeksInv, TaughtStep

\* The date, the status, and the end of the process.
LEMMA OthersKeep ==
  ASSUME WeeksInv, LoneOK, SetStanding \/ Dawn \/ Interrupt \/ UNCHANGED weekVars
  PROVE  WeeksInv' /\ LoneOK' /\ TaughtStep
<1>1. UNCHANGED <<Calendar, weeks, stored, lost, alone>>
  BY DEF SetStanding, Dawn, Interrupt, weekVars, Calendar, Rows
<1>2. BasicOK'
  <2>1. stored' \in BOOLEAN /\ lost' \subseteq Nat /\ alone' \in BOOLEAN
    BY <1>1 DEF WeeksInv, BasicOK
  <2>2. /\ today' \in 0 .. TermDays + 1
        /\ standing' \in {"QUEUED", "GENERATING", "FAILED", "DRAFT", "PUBLISHED", "ARCHIVED"}
        /\ loads' \in 0 .. MaxLoads /\ calls' \in 0 .. MaxCalls
    BY WeeksAssumption DEF WeeksInv, BasicOK, SetStanding, Dawn, Interrupt, weekVars
  <2>3. QED
    BY <2>1, <2>2 DEF BasicOK
<1>3. Ranges' = Ranges
  BY <1>1, SameCalendar
<1>4. TableOK' /\ (stored => Covered)'
  BY <1>1, <1>3 DEF WeeksInv, TableOK, RowOK, DateOf, Covered
<1>5. CASE UNCHANGED <<load, call>>
  <2>1. LoadOK' /\ CallsOK'
    BY <1>1, <1>3, <1>5 DEF WeeksInv, LoadOK, Storing, Calendared, DateOf, CallsOK
  <2>2. LoneOK'
    BY <1>1, <1>5 DEF LoneOK, Unhurried, NoneTaught, Taught
  <2>3. QED
    BY <1>1, <1>2, <1>4, <2>1, <2>2 DEF WeeksInv, TaughtStep
<1>6. CASE Interrupt
  <2>1. \/ load' = NoLoad
        \/ load.by = "drafted" /\ load' = [load EXCEPT !.packed = << >>, !.next = 0]
    BY <1>6 DEF Interrupt, Retried
  <2>2. call' = [t \in Teams |-> NoCall]
    BY <1>6 DEF Interrupt
  <2>3. CallsOK'
    BY <2>2 DEF CallsOK, NoCall, WeekOps
  <2>4. LoadOK' /\ (load'.by # "none" => load.by # "none")
    BY <2>1, LoadDropped DEF WeeksInv
  <2>5. LoneOK'
    BY <1>1, <2>2, <2>4 DEF LoneOK, Unhurried, NoneTaught, Taught, NoCall
  <2>6. QED
    BY <1>1, <1>2, <1>4, <2>3, <2>4, <2>5 DEF WeeksInv, TaughtStep
<1>7. QED
  BY <1>5, <1>6 DEF SetStanding, Dawn, weekVars, Rows

-----------------------------------------------------------------------------
(* The delivery window.                                                    *)

\* A step does what NotTaughtEarly says.
NotEarlyStep ==
  alone' /\ holidays = {} /\ 0 \in Buckets(halfTerm) /\ today > 0 =>
    \A w \in DOMAIN weeks \cap DOMAIN weeks' :
      weeks'[w].delivered /\ ~weeks[w].delivered => weeks[w].start \in 1 .. today

LEMMA LeastIs ==
  ASSUME NEW a \in Int, NEW b \in Int
  PROVE  Least(a, b) \in Int /\ Least(a, b) <= a /\ Least(a, b) <= b
  BY DEF Least

\* Products of numbers grow with them.
LEMMA ScaleGrows ==
  ASSUME NEW a \in Nat, NEW b \in Nat, a <= b, NEW n \in Nat
  PROVE  a * n <= b * n
<1>1. PICK k \in Nat : b = a + k
  <2>1. b - a \in Nat /\ b = a + (b - a)
    OBVIOUS
  <2>2. QED
    BY <2>1
<1>2. b * n = a * n + k * n /\ k * n \in Nat /\ a * n \in Nat
  BY <1>1
<1>3. QED
  BY <1>2

\* The weeks begun by a day are the first ones of the term.
LEMMA BegunFirst ==
  ASSUME NEW off, NEW d \in Nat, d # 0,
         NEW n \in 1 .. Cardinality(Buckets(off)),
         n <= Cardinality({b \in Buckets(off) : b <= Bucket(d)})
  PROVE  WeekRanges(off)[n] <= d
<1> DEFINE S == Buckets(off)
           begun == {b \in S : b <= Bucket(d)}
           x == InAscent(S)[n]
<1>1. S \subseteq Int /\ IsFiniteSet(S) /\ \A b \in S : b \in Nat
  BY BucketsListed
<1>2. x \in S /\ Below(S, x) = n - 1 /\ n \in Nat
  BY <1>1, AscentLists
<1>3. Bucket(d) \in Nat /\ Bucket(d) * WeekLength + 1 <= d
  BY BucketIs
<1>4. WeekRanges(off)[n] = x * WeekLength + 1
  BY RangesAre
<1> HIDE DEF S, x
<1>5. x <= Bucket(d)
  <2> SUFFICES ASSUME ~(x <= Bucket(d)) PROVE FALSE
    OBVIOUS
  <2>1. \A b \in begun : b \in Under(S, x)
    BY <1>1, <1>2, <1>3 DEF Under
  <2>2. Under(S, x) \in SUBSET S
    BY DEF Under
  <2>3. IsFiniteSet(Under(S, x))
    BY <1>1, <2>2, FS_Subset
  <2>4. begun \in SUBSET Under(S, x)
    BY <2>1
  <2>5. Cardinality(begun) <= Below(S, x) /\ Cardinality(begun) \in Nat
    BY <2>3, <2>4, FS_Subset, FS_CardinalityType DEF Below
  <2>6. n <= Cardinality(begun)
    BY DEF S
  <2>7. QED
    BY <1>2, <2>5, <2>6
<1>6. x \in Nat
  BY <1>1, <1>2
<1>7. x * WeekLength <= Bucket(d) * WeekLength
  BY <1>3, <1>5, <1>6, ScaleGrows, WeeksAssumption
<1>8. x * WeekLength \in Nat /\ Bucket(d) * WeekLength \in Nat
  BY <1>3, <1>6, WeeksAssumption
<1>9. QED
  BY <1>3, <1>4, <1>7, <1>8

\* Whoever may mark a week, its dates have come.
LEMMA WindowIsDue ==
  ASSUME WeeksInv, holidays = {}, 0 \in Buckets(halfTerm), today > 0,
         NEW k \in DOMAIN weeks, NEW reason, InWindow(weeks[k].num, reason)
  PROVE  weeks[k].start \in 1 .. today
<1> DEFINE num == weeks[k].num
           nums == {weeks[w].num : w \in DOMAIN weeks}
           c == Cardinality(Buckets(halfTerm))
           m == Cardinality({b \in Buckets(halfTerm) : b <= Bucket(today)})
<1>1. /\ num \in Nat \ {0} /\ weeks[k].start = DateOf(num) /\ today \in Nat \ {0}
      /\ today <= TermDays + 1 /\ TermDays \in Nat
  BY WeeksAssumption DEF WeeksInv, BasicOK, TableOK, RowOK
<1>2. Ranges = WeekRanges(halfTerm)
  BY DEF Ranges
<1>3. c \in Nat /\ DOMAIN Ranges = 1 .. c /\ \A n \in 1 .. c : Ranges[n] \in 1 .. TermDays
  BY <1>2, RangesAre
<1>4. TotalTeaching = c
  BY DEF TotalTeaching
<1>5. m \in Nat /\ m # 0
  <2>1. Bucket(today) \in Nat
    BY <1>1, BucketIs
  <2>2. 0 \in {b \in Buckets(halfTerm) : b <= Bucket(today)}
    BY <2>1
  <2>3. {b \in Buckets(halfTerm) : b <= Bucket(today)} \in SUBSET Buckets(halfTerm)
    OBVIOUS
  <2>4. IsFiniteSet({b \in Buckets(halfTerm) : b <= Bucket(today)})
    BY <2>3, BucketsListed, FS_Subset
  <2>5. QED
    BY <2>2, <2>4, FS_CardinalityType, FS_EmptySet
<1>6. Max(nums) \in Int
  <2> DEFINE numOf == [w \in DOMAIN weeks |-> weeks[w].num]
  <2>1. DOMAIN weeks \in SUBSET WeekIds
    BY DEF WeeksInv, TableOK
  <2>2. IsFiniteSet(DOMAIN weeks)
    BY <2>1, FS_Subset, WeeksAssumption
  <2>3. numOf \in Surjection(DOMAIN weeks, nums)
    BY DEF Surjection
  <2>4. IsFiniteSet(nums)
    BY <2>2, <2>3, FS_Surjection
  <2>5. \A x \in nums : x \in Int
    BY DEF WeeksInv, TableOK, RowOK
  <2>6. num \in nums
    OBVIOUS
  <2> HIDE DEF nums
  <2>7. QED
    BY <2>4, <2>5, <2>6, GreatestIs
<1>7. ASSUME SchoolWeek \in Int PROVE num <= SchoolWeek
  <2>1. num <= Least(SchoolWeek, Max(nums))
    BY DEF InWindow
  <2> HIDE DEF nums
  <2>2. /\ Least(SchoolWeek, Max(nums)) <= SchoolWeek
        /\ Least(SchoolWeek, Max(nums)) \in Int
    BY <1>6, <1>7, LeastIs
  <2>3. QED
    BY <1>1, <1>7, <2>1, <2>2
<1> HIDE DEF num, nums, m, c
<1>8. CASE today > TermDays
  <2>1. SchoolWeek = c
    BY <1>4, <1>8 DEF SchoolWeek
  <2>2. num \in 1 .. c
    BY <1>1, <1>3, <1>7, <2>1
  <2>3. DateOf(num) \in 1 .. TermDays
    BY <1>3, <2>2 DEF DateOf
  <2>4. QED
    BY <1>1, <1>8, <2>3
<1>9. CASE ~(today > TermDays)
  <2>1. TeachingWeek = Least(m, c)
    BY <1>4 DEF TeachingWeek, m
  <2>2. c # 0
    BY BucketsListed, FS_EmptySet DEF c
  <2>3. TeachingWeek \in Int /\ TeachingWeek <= m /\ TeachingWeek <= c /\ TeachingWeek > 0
    BY <1>3, <1>5, <2>1, <2>2 DEF Least
  <2>4. CalendarWeek \in Int
    <3>1. Bucket(today) \in Nat
      BY <1>1, BucketIs
    <3>2. (TermDays + WeekLength - 2) \div WeekLength \in Int
      BY <1>1, WeeksAssumption
    <3>3. QED
      BY <3>1, <3>2 DEF CalendarWeek, Least
  <2>5. SchoolWeek = Least(CalendarWeek, TeachingWeek)
    BY <1>1, <1>9, <2>3 DEF SchoolWeek
  <2>6. num <= m /\ num <= c
    <3>1. SchoolWeek \in Int /\ SchoolWeek <= TeachingWeek
      BY <2>3, <2>4, <2>5, LeastIs
    <3>2. num <= SchoolWeek
      BY <1>7, <3>1
    <3>3. QED
      BY <1>1, <1>3, <1>5, <2>3, <3>1, <3>2
  <2>7. num \in 1 .. c
    BY <1>1, <1>3, <2>6
  <2>8. WeekRanges(halfTerm)[num] <= today
    BY <1>1, <2>6, <2>7, BegunFirst DEF m, c
  <2>9. DateOf(num) = Ranges[num] /\ Ranges[num] \in 1 .. TermDays
    BY <1>3, <2>7 DEF DateOf
  <2>10. QED
    BY <1>1, <1>2, <2>8, <2>9
<1>10. QED
  BY <1>8, <1>9

\* A week becomes delivered when a handler marks it, and by no other step.
LEMMA MarkedInTime ==
  ASSUME WeeksInv, LoneOK, [WeeksNext]_weekVars
  PROVE  NotEarlyStep
<1> SUFFICES ASSUME alone', holidays = {}, 0 \in Buckets(halfTerm), today > 0,
                    NEW w \in DOMAIN weeks \cap DOMAIN weeks',
                    weeks'[w].delivered, ~weeks[w].delivered
             PROVE  weeks[w].start \in 1 .. today
  BY DEF NotEarlyStep
<1>1. weeks' # weeks
  OBVIOUS
<1>2. CASE LoadPack
  <2>1. weeks' = << >>
    BY <1>1, <1>2 DEF LoadPack, Rows
  <2>2. DOMAIN weeks' = {}
    BY <2>1
  <2>3. QED
    BY <2>2
<1>3. CASE LoadWeek
  <2> DEFINE p == load.packed[load.next]
             y == IF ~IsInjective(p.topics) THEN [p EXCEPT !.topics = << >>] ELSE p
  <2>1. \E id \in FreeIds :
          weeks' = [v \in DOMAIN weeks \cup {id} |-> IF v # id THEN weeks[v] ELSE NewWeek(y)]
    BY <1>1, <1>3 DEF LoadWeek
  <2> HIDE DEF y
  <2>2. QED
    BY <2>1, FreeIdsAre
<1>4. CASE LoadEnd \/ SetStanding \/ Dawn \/ Interrupt \/ UNCHANGED weekVars
  BY <1>1, <1>4 DEF LoadEnd, SetStanding, Dawn, Interrupt, Rows, weekVars
<1>5. ASSUME NEW t \in Teams, ReplaceRead(t) \/ MarkRead(t) \/ Gone(t) PROVE FALSE
  BY <1>1, <1>5 DEF ReplaceRead, MarkRead, BeginCall, Gone, Rows
<1>6. ASSUME NEW t \in Teams, ReplaceWrite(t) PROVE FALSE
  BY <1>1, <1>6, ReplaceDoes DEF WeeksInv, Rows
<1>7. ASSUME NEW t \in Teams, SkipWrite(t) PROVE FALSE
  <2>1. call[t].week \in DOMAIN weeks
    BY <1>7 DEF SkipWrite, Doing
  <2>2. \A d \in {"SKIPPED", "COMBINED"} : /\ Edited(SetArm(t, weeks, d))
                                          /\ SetArm(t, weeks, d)[w].delivered = weeks[w].delivered
    BY <2>1, SetArmEdits DEF WeeksInv, Deliveries
  <2>3. \/ \E d \in {"SKIPPED", "COMBINED"} : weeks' = SetArm(t, weeks, d)
        \/ \E into \in DOMAIN weeks : \E x :
             weeks' = [SetArm(t, weeks, "COMBINED") EXCEPT ![into].topics = x]
    BY <1>7 DEF SkipWrite
  <2>4. weeks'[w].delivered = weeks[w].delivered
    BY <2>2, <2>3 DEF Edited, RowOK
  <2>5. QED
    BY <2>4
<1>8. ASSUME NEW t \in Teams, MarkArm(t) \/ UnmarkArm(t) \/ UnmarkWrite(t) PROVE FALSE
  <2>1. call[t].week \in DOMAIN weeks
    BY <1>8 DEF MarkArm, UnmarkArm, UnmarkWrite, Doing
  <2>2. \A d \in Deliveries : SetArm(t, weeks, d)[w].delivered = weeks[w].delivered
    BY <2>1, SetArmEdits DEF WeeksInv
  <2>3. CASE MarkArm(t) \/ UnmarkArm(t)
    BY <2>2, <2>3 DEF MarkArm, UnmarkArm, Deliveries
  <2>4. CASE UnmarkWrite(t)
    BY <2>1, <2>4 DEF UnmarkWrite, WeeksInv, TableOK, RowOK
  <2>5. QED
    BY <1>8, <2>3, <2>4
<1>9. ASSUME NEW t \in Teams, MarkWrite(t) PROVE weeks[w].start \in 1 .. today
  <2>1. /\ call[t].op = "mark" /\ call[t].week \in DOMAIN weeks /\ alone
        /\ \E reason \in BOOLEAN :
             /\ InWindow(call[t].num, reason)
             /\ weeks' = [weeks EXCEPT ![call[t].week].delivered = TRUE]
    BY <1>1, <1>9 DEF MarkWrite, Doing, Keeps
  <2>2. w = call[t].week
    BY <2>1
  <2>3. call[t].num = weeks[w].num
    BY <2>1, <2>2 DEF LoneOK
  <2>4. QED
    BY <2>1, <2>3, WindowIsDue
<1>10. QED
  BY <1>2, <1>3, <1>4, <1>5, <1>6, <1>7, <1>8, <1>9 DEF WeeksNext, Loading, Teaching

-----------------------------------------------------------------------------
(* The theorems.                                                           *)

\* Every step keeps the invariant, and every taught week its place.
LEMMA WeeksStep ==
  ASSUME WeeksInv, LoneOK, [WeeksNext]_weekVars
  PROVE  WeeksInv' /\ LoneOK' /\ TaughtStep
<1>1. CASE Loading
  BY <1>1, PackKeeps, LoadWeekKeeps, LoadEndKeeps DEF Loading
<1>2. CASE SetStanding \/ Dawn \/ Interrupt \/ UNCHANGED weekVars
  BY <1>2, OthersKeep
<1>3. ASSUME NEW t \in Teams, ReplaceRead(t) \/ ReplaceWrite(t) \/ Teaching(t)
      PROVE  WeeksInv' /\ LoneOK' /\ TaughtStep
  BY <1>3, BeginsKeep, ReplaceKeeps, MarksKeep DEF Teaching
<1>4. QED
  BY <1>1, <1>2, <1>3 DEF WeeksNext

\* Whatever teachers, admins, imports and restarts do, in any interleaving, the rows
\* of a scheme keep their types: a number from 1 and a date of the term or none.
THEOREM WeeksTyped == WeeksSpec => []WeeksTypeOK
<1>1. WeeksInit => WeeksInv /\ LoneOK
  BY WeeksStart
<1>2. WeeksInv /\ LoneOK /\ [WeeksNext]_weekVars => (WeeksInv /\ LoneOK)'
  BY WeeksStep
<1>3. WeeksInv => WeeksTypeOK
  BY CalendarSays
<1>4. QED
  BY <1>1, <1>2, <1>3, PTL DEF WeeksSpec

\* For any calendar, plan and bounds, and in any interleaving: no two rows of a
\* scheme have the same week, each has the date of its week, and once the weeks were
\* stored, by persistPackedWeeks or by a new order, each instructional week has a
\* row, but for a week whose row the same order names again for a later one.
THEOREM WeeksCalendarCovered == WeeksSpec => []CalendarCovered
<1>1. WeeksInit => WeeksInv /\ LoneOK
  BY WeeksStart
<1>2. WeeksInv /\ LoneOK /\ [WeeksNext]_weekVars => (WeeksInv /\ LoneOK)'
  BY WeeksStep
<1>3. WeeksInv => CalendarCovered
  BY CalendarSays
<1>4. QED
  BY <1>1, <1>2, <1>3, PTL DEF WeeksSpec

\* As long as handlers do not overlap, neither an import, nor an attempt that is
\* repeated, nor replaceContentWeeks removes or moves a week that an arm was taught.
THEOREM WeeksTaughtStays == WeeksSpec => TaughtStays
<1>1. WeeksInit => WeeksInv /\ LoneOK
  BY WeeksStart
<1>2. WeeksInv /\ LoneOK /\ [WeeksNext]_weekVars => (WeeksInv /\ LoneOK)' /\ [TaughtStep]_weekVars
  BY WeeksStep
<1>3. QED
  BY <1>1, <1>2, PTL DEF WeeksSpec, TaughtStays, TaughtStep

\* For any term without holidays whose first week has lessons: assertDeliveryWindow
\* lets no week be marked before the dates the packers gave it, although it counts
\* the weeks of the term another way.
THEOREM WeeksNotTaughtEarly == WeeksSpec => NotTaughtEarly
<1>1. WeeksInit => WeeksInv /\ LoneOK
  BY WeeksStart
<1>2. WeeksInv /\ LoneOK /\ [WeeksNext]_weekVars => (WeeksInv /\ LoneOK)' /\ [NotEarlyStep]_weekVars
  BY WeeksStep, MarkedInTime
<1>3. QED
  BY <1>1, <1>2, PTL DEF WeeksSpec, NotTaughtEarly, NotEarlyStep
=============================================================================
