--------------------------- MODULE Office_proofs ----------------------------
(***************************************************************************)
(* Proofs about the school office: SchoolRoll, CreditPool and CalendarSync,*)
(* for any pupils, seats, tiers, amounts, users, tasks and requests.       *)
(***************************************************************************)
EXTENDS SchoolRoll, CreditPool, CalendarSync, FiniteSetTheorems, TLAPS
-----------------------------------------------------------------------------
(***************************************************************************)
(* SchoolRoll: the types, that who left stays away, and that the seats of  *)
(* the plan are kept.                                                      *)
(***************************************************************************)

(* What a step does to the desks.                                          *)

LEMMA FreeTyped == Free \in Request
BY DEF Free, Request, DeskOps

LEMMA PutTyped ==
  ASSUME desk \in [Desks -> Request], NEW d \in Desks, NEW q \in Request,
         desk' = [desk EXCEPT ![d] = q]
  PROVE  /\ desk' \in [Desks -> Request]
         /\ \A e \in Desks : desk'[e] = IF e = d THEN q ELSE desk[e]
OBVIOUS

LEMMA GoTyped ==
  ASSUME NEW q \in Request, NEW op \in DeskOps
  PROVE  /\ [q EXCEPT !.op = op] \in Request
         /\ [q EXCEPT !.op = op].op = op
         /\ [q EXCEPT !.op = op].pupil = q.pupil
         /\ [q EXCEPT !.op = op].app = q.app
         /\ [q EXCEPT !.op = op].seats = q.seats
         /\ [q EXCEPT !.op = op].lock = q.lock
BY DEF Request

LEMMA SeatsTyped == Seats \in Nat
BY RollAssumption DEF Seats

\* What a request in flight has in hand is on record.
Fits(q) ==
  /\ q.op \in {"limit", "count", "enrol"} => q.pupil \in Pupils
  /\ q.op = "leave" => q.pupil \in rolled
  /\ q.op = "enter" => q.pupil \in known
  /\ q.op \in {"accept", "submit"} => q.app \in Applications
  /\ q.lock \subseteq rolled

IInv == RollTypeOK /\ \A d \in Desks : Fits(desk[d])

\* The request that desk d has after a step of its own, and what the step keeps.
LEMMA DeskTyped ==
  ASSUME IInv, NEW d \in Desks, Serve(d)
  PROVE  \E q \in Request : desk' = [desk EXCEPT ![d] = q] /\ Fits(q)
<1> DEFINE q0 == desk[d]
           Goal == \E q \in Request : desk' = [desk EXCEPT ![d] = q] /\ Fits(q)
<1>0. /\ q0 \in Request /\ Seats \in Nat /\ Free \in Request
      /\ desk = [desk EXCEPT ![d] = q0] /\ Fits(q0) /\ Fits(Free)
  BY FreeTyped, SeatsTyped DEF IInv, RollTypeOK, Fits, Free
<1>1. CASE Done(d)
  BY <1>0, <1>1 DEF Done
<1>2. ASSUME NEW op \in DeskOps, Go(d, op),
             op \in {"leave", "enter", "submit"} => FALSE,
             op = "enrol" => q0.op = "count",
             op = "count" => q0.op = "limit",
             op = "limit" => FALSE,
             op = "accept" => q0.app \in Applications
      PROVE  Goal
  <2>1. desk' = [desk EXCEPT ![d] = [q0 EXCEPT !.op = op]]
    BY <1>2 DEF Go
  <2>2. Fits([q0 EXCEPT !.op = op])
    BY <1>0, <1>2, GoTyped DEF Fits
  <2>3. QED
    BY <1>0, <2>1, <2>2, GoTyped
<1>3. CASE UNCHANGED desk
  BY <1>0, <1>3
<1>4. CASE Add(d)
  <2>1. PICK p \in Pupils : desk' = [desk EXCEPT ![d] = [Free EXCEPT !.op = "limit", !.pupil = p]]
    BY <1>4 DEF Add, Open
  <2> DEFINE q == [Free EXCEPT !.op = "limit", !.pupil = p]
  <2>2. q \in Request /\ Fits(q)
    BY DEF Free, Request, DeskOps, Fits
  <2>3. QED
    BY <2>1, <2>2
<1>5. CASE Approve(d)
  <2>1. PICK a \in Applications :
          desk' = [desk EXCEPT ![d] = [Free EXCEPT !.op = "limit", !.pupil = Applicant[a], !.app = a]]
    BY <1>5 DEF Approve, Open
  <2> DEFINE q == [Free EXCEPT !.op = "limit", !.pupil = Applicant[a], !.app = a]
  <2>2. q \in Request /\ Fits(q)
    BY RollAssumption DEF Free, Request, DeskOps, Fits
  <2>3. QED
    BY <2>1, <2>2
<1>6. CASE ReadLimit(d)
  <2> DEFINE q == [q0 EXCEPT !.op = "count", !.seats = Seats]
  <2>1. desk' = [desk EXCEPT ![d] = q]
    BY <1>6 DEF ReadLimit
  <2>2. q \in Request /\ Fits(q)
    BY <1>0, <1>6 DEF Request, DeskOps, Fits, ReadLimit
  <2>3. QED
    BY <2>1, <2>2
<1>7. CASE SubmitRead(d)
  <2>1. PICK a \in Applications : desk' = [desk EXCEPT ![d] = [Free EXCEPT !.op = "submit", !.app = a]]
    BY <1>7 DEF SubmitRead, Open
  <2> DEFINE q == [Free EXCEPT !.op = "submit", !.app = a]
  <2>2. q \in Request /\ Fits(q)
    BY DEF Free, Request, DeskOps, Fits
  <2>3. QED
    BY <2>1, <2>2
<1>8. CASE LeaveRead(d)
  <2>1. PICK p \in leaving : desk' = [desk EXCEPT ![d] = [Free EXCEPT !.op = "leave", !.pupil = p]]
    BY <1>8 DEF LeaveRead, Open
  <2> DEFINE q == [Free EXCEPT !.op = "leave", !.pupil = p]
  <2>2. q \in Request /\ Fits(q)
    BY DEF Free, Request, DeskOps, Fits, IInv, RollTypeOK
  <2>3. QED
    BY <2>1, <2>2
<1>9. CASE EnterRead(d)
  <2>1. PICK p \in elsewhere : desk' = [desk EXCEPT ![d] = [Free EXCEPT !.op = "enter", !.pupil = p]]
    BY <1>9 DEF EnterRead, Open
  <2> DEFINE q == [Free EXCEPT !.op = "enter", !.pupil = p]
  <2>2. q \in Request /\ Fits(q)
    BY DEF Free, Request, DeskOps, Fits, IInv, RollTypeOK
  <2>3. QED
    BY <2>1, <2>2
<1>10. CASE DowngradeRead(d)
  <2> DEFINE q == [Free EXCEPT !.op = "list"]
  <2>1. desk' = [desk EXCEPT ![d] = q]
    BY <1>10 DEF DowngradeRead, Open
  <2>2. q \in Request /\ Fits(q)
    BY DEF Free, Request, DeskOps, Fits
  <2>3. QED
    BY <2>1, <2>2
<1>11. CASE DowngradeList(d)
  <2>1. CASE Go(d, "lock")
    BY <2>1, <1>2 DEF DeskOps
  <2>2. ASSUME NEW K \in Keeps,
               desk' = [desk EXCEPT ![d].op = "lock", ![d].lock = Operational \ K]
        PROVE  Goal
    <3> DEFINE q == [q0 EXCEPT !.op = "lock", !.lock = Operational \ K]
    <3>1. desk' = [desk EXCEPT ![d] = q]
      BY <2>2
    <3>2. q \in Request /\ Fits(q)
      BY <1>0 DEF Request, DeskOps, Operational, IInv, RollTypeOK, Fits
    <3>3. QED
      BY <3>1, <3>2
  <2>3. QED
    BY <1>11, <2>1, <2>2 DEF DowngradeList
<1>12. CASE CountStudents(d)
  BY <1>12, <1>1, <1>2 DEF CountStudents, DeskOps
<1>13. CASE Enrol(d)
  BY <1>13, <1>0, <1>1, <1>2 DEF Enrol, DeskOps, Request
<1>14. QED
  BY <1>1, <1>3, <1>4, <1>5, <1>6, <1>7, <1>8, <1>9, <1>10, <1>11, <1>12, <1>13
  DEF Serve, Accept, SubmitWrite, Reject, LeaveTx, EnterTx, DowngradeTx, Abort
-----------------------------------------------------------------------------
(* Types.                                                                  *)

LEMMA DeskKept ==
  ASSUME IInv, NEW d \in Desks, Serve(d), rolled \subseteq rolled', known \subseteq known'
  PROVE  /\ desk' \in [Desks -> Request]
         /\ \A e \in Desks : Fits(desk[e])'
<1>1. PICK q \in Request : desk' = [desk EXCEPT ![d] = q] /\ Fits(q)
  BY DeskTyped
<1>2. desk' \in [Desks -> Request]
  BY <1>1 DEF IInv, RollTypeOK
<1>3. ASSUME NEW e \in Desks PROVE Fits(desk'[e])
  BY <1>1 DEF IInv, RollTypeOK
<1>4. ASSUME NEW e \in Desks PROVE Fits(desk[e])'
  BY <1>3, <1>4 DEF Fits
<1>5. QED
  BY <1>2, <1>4

LEMMA InvStep ==
  ASSUME IInv, [RollNext]_rollVars
  PROVE  IInv' /\ rolled \subseteq rolled' /\ known \subseteq known'
<1>1. CASE UNCHANGED rollVars
  BY <1>1 DEF rollVars, table, IInv, RollTypeOK, Fits
<1>2. CASE IssueCode \/ RequireAction \/ Renew
  <2>1. UNCHANGED <<rolled, known, desk>>
    BY <1>2 DEF IssueCode, RequireAction, Renew
  <2>2. RollTypeOK'
    BY <1>2 DEF IssueCode, RequireAction, Renew, Unlock, IInv, RollTypeOK, Tiers, Phases
  <2>3. QED
    BY <2>1, <2>2 DEF IInv, Fits
<1>3. ASSUME NEW d \in Desks, Serve(d)
      PROVE  IInv' /\ rolled \subseteq rolled' /\ known \subseteq known'
  <2> DEFINE Rest ==
        /\ known' \subseteq Pupils /\ rolled' \subseteq known'
        /\ active' \subseteq rolled' /\ locked' \subseteq rolled'
        /\ elsewhere' \subseteq known' /\ leaving' \subseteq rolled'
        /\ tier' \in Tiers /\ phase' \in Phases
        /\ apps' \in [Applications -> AppStatus]
        /\ served' \in Nat /\ alone' \in BOOLEAN /\ exempt' \in BOOLEAN
        /\ strayed' \subseteq Pupils
        /\ rolled \subseteq rolled' /\ known \subseteq known'
  <2>0. desk[d] \in Request /\ Fits(desk[d]) /\ RollTypeOK
    BY DEF IInv, RollTypeOK
  <2>1. ASSUME Add(d) PROVE Rest
    BY <2>0, <2>1 DEF Add, Open, table, RollTypeOK
  <2>2. ASSUME Approve(d) PROVE Rest
    BY <2>0, <2>2 DEF Approve, Open, table, RollTypeOK
  <2>3. ASSUME ReadLimit(d) \/ CountStudents(d) \/ Abort(d) PROVE Rest
    BY <2>0, <2>3 DEF ReadLimit, CountStudents, Abort, OnlyDesk, table, RollTypeOK
  <2>4. ASSUME Enrol(d) PROVE Rest
    BY <2>0, <2>4 DEF Enrol, WithProfile, OnlyDesk, table, RollTypeOK, Fits
  <2>5. ASSUME Accept(d) \/ SubmitWrite(d) \/ Reject(d) PROVE Rest
    BY <2>0, <2>5 DEF Accept, SubmitWrite, Reject, SetApp, RollTypeOK, AppStatus
  <2>6. ASSUME SubmitRead(d) PROVE Rest
    BY <2>0, <2>6 DEF SubmitRead, Open, table, RollTypeOK
  <2>7. ASSUME LeaveRead(d) PROVE Rest
    BY <2>0, <2>7 DEF LeaveRead, Open, table, RollTypeOK
  <2>8. ASSUME LeaveTx(d) PROVE Rest
    BY <2>0, <2>8 DEF LeaveTx, RollTypeOK, Fits
  <2>9. ASSUME EnterRead(d) PROVE Rest
    BY <2>0, <2>9 DEF EnterRead, Open, table, RollTypeOK
  <2>10. ASSUME EnterTx(d) PROVE Rest
    BY <2>0, <2>10 DEF EnterTx, RollTypeOK, Fits
  <2>11. ASSUME DowngradeRead(d) PROVE Rest
    BY <2>0, <2>11 DEF DowngradeRead, Open, table, RollTypeOK
  <2>12. ASSUME DowngradeList(d) PROVE Rest
    BY <2>0, <2>12 DEF DowngradeList, table, RollTypeOK
  <2>13. ASSUME DowngradeTx(d) PROVE Rest
    BY <2>0, <2>13 DEF DowngradeTx, RollTypeOK, Fits, Tiers, Phases
  <2>14. Rest
    BY <1>3, <2>1, <2>2, <2>3, <2>4, <2>5, <2>6, <2>7, <2>8, <2>9, <2>10, <2>11, <2>12, <2>13
    DEF Serve
  <2>15. desk' \in [Desks -> Request] /\ \A e \in Desks : Fits(desk[e])'
    BY <1>3, <2>14, DeskKept
  <2>16. QED
    BY <2>14, <2>15 DEF IInv, RollTypeOK
<1>4. QED
  BY <1>1, <1>2, <1>3 DEF RollNext

LEMMA InvInit == RollInit => IInv
<1> SUFFICES ASSUME RollInit PROVE IInv
  OBVIOUS
<1>1. desk \in [Desks -> Request] /\ \A d \in Desks : desk[d] = Free
  BY FreeTyped DEF RollInit
<1>2. Fits(Free)
  BY DEF Fits, Free
<1>3. apps \in [Applications -> AppStatus]
  BY DEF RollInit, AppStatus
<1>4. RollTypeOK
  BY <1>1, <1>3 DEF RollInit, RollTypeOK, Tiers, Phases
<1>5. QED
  BY <1>1, <1>2, <1>4 DEF IInv

\* Every column, request and history variable of the roll keeps its type, and a
\* row has its pupil's profile.
THEOREM RollTyped == RollSpec => []RollTypeOK
<1>1. IInv /\ [RollNext]_rollVars => IInv'
  BY InvStep
<1>2. IInv => RollTypeOK
  BY DEF IInv
<1>3. QED
  BY InvInit, <1>1, <1>2, PTL DEF RollSpec
-----------------------------------------------------------------------------
(* Who left stays away.                                                    *)

\* No row is both active and locked, and a locked row of somebody enrolled
\* elsewhere has been noted as strayed before a renewal makes it active.
Away ==
  /\ active \cap locked = {}
  /\ locked \cap elsewhere \subseteq strayed
  /\ LeaverStaysAway

LEMMA AwayStep ==
  ASSUME IInv, Away, [RollNext]_rollVars
  PROVE  Away'
<1>1. CASE UNCHANGED rollVars
  BY <1>1 DEF rollVars, table, Away, LeaverStaysAway
<1>2. CASE IssueCode \/ RequireAction \/ Renew
  BY <1>2 DEF IssueCode, RequireAction, Renew, Unlock, Away, LeaverStaysAway
<1>3. ASSUME NEW d \in Desks, Serve(d) PROVE Away'
  <2>1. CASE UNCHANGED <<active, locked, elsewhere, strayed>>
    BY <2>1 DEF Away, LeaverStaysAway
  <2>2. CASE Enrol(d)
    BY <2>2 DEF Enrol, OnlyDesk, table, IInv, RollTypeOK, Away, LeaverStaysAway
  <2>3. CASE LeaveTx(d)
    BY <2>3 DEF LeaveTx, Away, LeaverStaysAway
  <2>4. CASE EnterTx(d)
    BY <2>4 DEF EnterTx, IInv, RollTypeOK, Away, LeaverStaysAway
  <2>5. CASE DowngradeTx(d)
    BY <2>5 DEF DowngradeTx, Away, LeaverStaysAway
  <2>6. QED
    BY <1>3, <2>1, <2>2, <2>3, <2>4, <2>5
    DEF Serve, Add, Approve, ReadLimit, CountStudents, Accept, SubmitRead, SubmitWrite,
        Reject, LeaveRead, EnterRead, DowngradeRead, DowngradeList, Abort,
        Open, OnlyDesk, SetApp, table
<1>4. QED
  BY <1>1, <1>2, <1>3 DEF RollNext

\* LeaverStaysAway for any number of pupils and requests: an active row of a
\* pupil enrolled elsewhere comes only from unlocking a row locked meanwhile.
THEOREM LeaversStayAway == RollSpec => []LeaverStaysAway
<1>1. RollInit => Away
  BY DEF RollInit, Away, LeaverStaysAway
<1>2. IInv /\ [RollNext]_rollVars => IInv'
  BY InvStep
<1>3. IInv /\ Away /\ [RollNext]_rollVars => Away'
  BY AwayStep
<1>4. Away => LeaverStaysAway
  BY DEF Away
<1>5. QED
  BY InvInit, <1>1, <1>2, <1>3, <1>4, PTL DEF RollSpec
-----------------------------------------------------------------------------
(* The seats of the plan.                                                  *)

LEMMA CardFacts ==
  ASSUME NEW S \in SUBSET Pupils, NEW T \in SUBSET Pupils
  PROVE  /\ Cardinality(S) \in Nat
         /\ Cardinality(S \cup T) <= Cardinality(S) + Cardinality(T)
         /\ Cardinality(S \ T) <= Cardinality(S)
         /\ T \subseteq S => Cardinality(S \ T) = Cardinality(S) - Cardinality(T)
         /\ \A p \in Pupils : Cardinality(S \cup {p}) <= Cardinality(S) + 1
<1>1. IsFiniteSet(S) /\ IsFiniteSet(T)
  BY FS_Subset, RollAssumption
<1>2. /\ Cardinality(S) \in Nat /\ Cardinality(T) \in Nat /\ Cardinality(S \cap T) \in Nat
      /\ Cardinality(S \cup T) = Cardinality(S) + Cardinality(T) - Cardinality(S \cap T)
  BY <1>1, FS_CardinalityType, FS_Union, FS_Intersection
<1>3. Cardinality(S \ T) = Cardinality(S) - Cardinality(S \cap T)
  BY <1>1, FS_Difference
<1>4. T \subseteq S => S \cap T = T
  OBVIOUS
<1>5. ASSUME NEW p \in Pupils PROVE Cardinality(S \cup {p}) <= Cardinality(S) + 1
  <2> DEFINE s == Cardinality(S)
             n == Cardinality(S \cup {p})
  <2>1. s \in Nat /\ n = IF p \in S THEN s ELSE s + 1
    BY <1>1, <1>2, FS_AddElement, Zenon
  <2> HIDE DEF s, n
  <2>2. n <= s + 1
    BY <2>1
  <2>3. QED
    BY <2>2 DEF s, n
<1>6. QED
  BY <1>2, <1>3, <1>4, <1>5

LEMMA CardEmpty == Cardinality({}) = 0
BY FS_EmptySet

\* While requests come one at a time, one is in flight at most.
OneBusy == alone => \A d, e \in Desks : desk[d].op # "idle" /\ desk[e].op # "idle" => d = e

\* The roll fits the tier, and a free school that renews fits the paid seats.
RollFits ==
  /\ tier = "PAID" => locked = {} /\ Cardinality(active) <= PaidSeats
  /\ tier = "FREE" => /\ phase = "OK"
                      /\ Cardinality(active) <= FreeSeats
                      /\ Cardinality(locked) + FreeSeats <= PaidSeats

\* What a request in flight has read is still true enough for its write.
DeskFits(q) ==
  /\ q.op = "count" => q.seats <= Seats
  /\ q.op = "enrol" => Cardinality(active) < Seats
  /\ q.op \in {"list", "lock"} => tier = "PAID"
  /\ q.op = "lock" => /\ q.lock \subseteq active
                      /\ Cardinality(active \ q.lock) <= FreeSeats
                      /\ Cardinality(q.lock) + FreeSeats <= PaidSeats
  /\ q.op = "list" => q.lock = {}

SeatInv ==
  /\ OneBusy
  /\ alone /\ ~exempt => RollFits /\ \A d \in Desks : DeskFits(desk[d])

\* A step of desk d, while requests come one at a time, finds the others idle.
LEMMA OthersIdle ==
  ASSUME IInv, OneBusy, NEW d \in Desks, Serve(d), ~Reject(d), alone'
  PROVE  /\ alone
         /\ \A e \in Desks \ {d} : desk[e].op = "idle" /\ desk'[e] = desk[e]
<1>1. \A e \in Desks \ {d} : desk'[e] = desk[e]
  BY DeskTyped DEF IInv, RollTypeOK
<1>2. alone
  BY DEF Serve, Add, Approve, ReadLimit, CountStudents, Enrol, Accept, SubmitRead, SubmitWrite,
         LeaveRead, LeaveTx, EnterRead, EnterTx, DowngradeRead, DowngradeList, DowngradeTx,
         Abort, Open, OnlyDesk, SetApp
<1>3. desk[d].op # "idle" \/ \A e \in Desks : desk[e].op = "idle"
  BY DEF Serve, Add, Approve, ReadLimit, CountStudents, Enrol, Accept, SubmitRead, SubmitWrite,
         LeaveRead, LeaveTx, EnterRead, EnterTx, DowngradeRead, DowngradeList, DowngradeTx,
         Abort, Open
<1>4. QED
  BY <1>1, <1>2, <1>3 DEF OneBusy

LEMMA OneBusyStep ==
  ASSUME IInv, OneBusy, [RollNext]_rollVars
  PROVE  OneBusy'
<1>1. CASE UNCHANGED <<desk, alone>>
  BY <1>1 DEF OneBusy
<1>2. ASSUME NEW d \in Desks, Serve(d), ~Reject(d) PROVE OneBusy'
  BY <1>2, OthersIdle DEF OneBusy
<1>3. QED
  BY <1>1, <1>2 DEF RollNext, IssueCode, RequireAction, Renew, Reject, SetApp, rollVars, table

\* The desk that took the step, and the roll, fit: so does everything.
LEMMA SeatStep ==
  ASSUME IInv, Away, SeatInv, [RollNext]_rollVars, alone', ~exempt'
  PROVE  RollFits' /\ \A e \in Desks : DeskFits(desk[e])'
<1> DEFINE Goal == RollFits' /\ \A e \in Desks : DeskFits(desk[e])'
<1>0. FreeSeats \in Nat /\ PaidSeats \in Nat /\ FreeSeats <= PaidSeats
      /\ active \in SUBSET Pupils /\ locked \in SUBSET Pupils /\ tier \in {"FREE", "PAID"}
  BY RollAssumption DEF IInv, RollTypeOK, Tiers
<1>1. CASE UNCHANGED <<desk, active, locked, tier, phase, alone, exempt>>
  BY <1>1 DEF SeatInv, RollFits, DeskFits, Seats
<1>2. CASE RequireAction
  BY <1>2 DEF RequireAction, SeatInv, RollFits, DeskFits, Seats
<1>3. CASE Renew
  <2>1. RollFits /\ \A e \in Desks : DeskFits(desk[e])
    BY <1>3 DEF Renew, SeatInv
  <2>2. /\ Cardinality(active) \in Nat /\ Cardinality(locked) \in Nat
        /\ Cardinality(active \cup locked) <= Cardinality(active) + Cardinality(locked)
    BY <1>0, CardFacts
  <2>3. Cardinality(active \cup locked) \in Nat
    BY <1>0, CardFacts
  <2>4. CASE tier = "PAID"
    <3>1. locked = {} /\ active' = active /\ locked' = locked /\ tier' = tier
      BY <1>3, <2>1, <2>4 DEF Renew, Unlock, RollFits
    <3>2. RollFits'
      BY <2>1, <2>4, <3>1 DEF RollFits
    <3>3. \A e \in Desks : DeskFits(desk[e])'
      BY <1>3, <2>1, <3>1 DEF Renew, DeskFits, Seats
    <3>4. QED
      BY <3>2, <3>3
  <2>5. CASE tier = "FREE"
    <3>1. active' = active \cup locked /\ locked' = {} /\ tier' = "PAID" /\ desk' = desk
      BY <1>3 DEF Renew, Unlock
    <3>2. RollFits'
      BY <1>0, <2>1, <2>2, <2>3, <2>5, <3>1 DEF RollFits
    <3>3. ASSUME NEW e \in Desks PROVE DeskFits(desk[e])'
      <4>1. desk'[e] = desk[e] /\ DeskFits(desk[e]) /\ desk[e] \in Request
        BY <2>1, <3>1 DEF IInv, RollTypeOK
      <4>2. desk[e].op \notin {"list", "lock"}
        BY <2>5, <4>1 DEF DeskFits
      <4>3. desk[e].seats \in Nat
        BY <4>1 DEF Request
      <4>4. QED
        BY <1>0, <2>1, <2>2, <2>3, <2>5, <3>1, <4>1, <4>2, <4>3 DEF DeskFits, Seats, RollFits
    <3>4. QED
      BY <3>2, <3>3
  <2>6. QED
    BY <1>0, <2>4, <2>5
<1>4. ASSUME NEW d \in Desks, Serve(d), ~Reject(d) PROVE Goal
  <2>1. /\ alone /\ \A e \in Desks \ {d} : desk'[e] = desk[e] /\ desk[e].op = "idle"
    BY <1>4, OthersIdle DEF SeatInv
  <2>2. ~exempt
    BY <1>4 DEF Serve, Add, Approve, ReadLimit, CountStudents, Enrol, Accept, SubmitRead,
         SubmitWrite, LeaveRead, LeaveTx, EnterRead, EnterTx, DowngradeRead, DowngradeList,
         DowngradeTx, Abort, Open, OnlyDesk, SetApp
  <2>3. RollFits /\ DeskFits(desk[d]) /\ desk[d] \in Request /\ desk \in [Desks -> Request]
    BY <2>1, <2>2 DEF SeatInv, IInv, RollTypeOK
  <2>4. \A e \in Desks \ {d} : DeskFits(desk[e])'
    BY <2>1 DEF DeskFits
  <2>5. ASSUME DeskFits(desk[d])', RollFits' PROVE Goal
    BY <2>4, <2>5
  <2>6. CASE desk'[d].op \in {"idle", "limit", "accept", "submit", "leave", "enter"}
             /\ UNCHANGED <<active, locked, tier, phase>>
    <3>1. DeskFits(desk[d])'
      BY <2>6 DEF DeskFits
    <3>2. RollFits'
      BY <2>3, <2>6 DEF RollFits
    <3>3. QED
      BY <2>5, <3>1, <3>2
  <2>7. CASE ReadLimit(d)
    <3>1. /\ desk'[d].op = "count" /\ desk'[d].seats = Seats
          /\ UNCHANGED <<active, locked, tier, phase>>
      BY <2>3, <2>7 DEF ReadLimit, OnlyDesk, table, Request
    <3>2. DeskFits(desk[d])'
      BY <3>1, SeatsTyped DEF DeskFits, Seats
    <3>3. QED
      BY <2>3, <2>5, <3>1, <3>2 DEF RollFits
  <2>8. CASE CountStudents(d) /\ Go(d, "enrol")
    <3>1. desk'[d].op = "enrol" /\ UNCHANGED <<active, locked, tier, phase>>
      BY <2>3, <2>8 DEF CountStudents, Go, OnlyDesk, table, Request
    <3>2. Operational = active
      BY DEF Operational, Away
    <3>3. Cardinality(active) < desk[d].seats /\ desk[d].seats <= Seats
      <4>1. ~Done(d)
        BY <2>3, <3>1 DEF Done, Free
      <4>2. QED
        BY <2>3, <2>8, <3>2, <4>1 DEF CountStudents, CanAdd, DeskFits
    <3>4. Cardinality(active) \in Nat /\ desk[d].seats \in Nat /\ Seats \in Nat
      BY <1>0, <2>3, CardFacts, SeatsTyped DEF Request
    <3>5. Cardinality(active) < Seats
      BY <3>3, <3>4
    <3>6. DeskFits(desk[d])'
      BY <3>1, <3>5 DEF DeskFits, Seats
    <3>7. QED
      BY <2>3, <2>5, <3>1, <3>6 DEF RollFits
  <2>9. CASE Enrol(d) /\ desk[d].pupil \notin known
    <3>1. desk[d].pupil \in Pupils
      BY <2>9 DEF IInv, Fits, Enrol
    <3>2. desk'[d].op \in {"idle", "accept"} /\ UNCHANGED <<locked, tier, phase>>
          /\ active' = active \cup {desk[d].pupil}
      BY <2>3, <2>9 DEF Enrol, Done, Go, Free, Request
    <3>3. Cardinality(active) < Seats
      BY <2>3, <2>9 DEF DeskFits, Enrol
    <3>4. /\ Cardinality(active) \in Nat /\ Cardinality(active \cup {desk[d].pupil}) \in Nat
          /\ Cardinality(active \cup {desk[d].pupil}) <= Cardinality(active) + 1
          /\ Seats \in Nat
      <4>1. active \cup {desk[d].pupil} \in SUBSET Pupils
        BY <1>0, <3>1
      <4>2. QED
        BY <1>0, <3>1, <4>1, CardFacts, SeatsTyped
    <3>5. Cardinality(active') <= Seats
      BY <3>2, <3>3, <3>4
    <3>6. RollFits'
      BY <2>3, <3>2, <3>5 DEF RollFits, Seats
    <3>7. DeskFits(desk[d])'
      BY <3>2 DEF DeskFits
    <3>8. QED
      BY <2>5, <3>6, <3>7
  <2>10. CASE LeaveTx(d)
    <3>1. /\ active' = active \ {desk[d].pupil} /\ UNCHANGED <<locked, tier, phase>>
          /\ desk'[d].op = "idle" /\ desk[d].pupil \in Pupils
      BY <2>3, <2>10 DEF LeaveTx, Done, Free, IInv, Fits, RollTypeOK
    <3>2. /\ Cardinality(active) \in Nat /\ Cardinality(active') \in Nat
          /\ Cardinality(active') <= Cardinality(active)
      <4>1. {desk[d].pupil} \in SUBSET Pupils /\ active \ {desk[d].pupil} \in SUBSET Pupils
        BY <1>0, <3>1
      <4>2. QED
        BY <1>0, <3>1, <4>1, CardFacts
    <3>3. RollFits'
      BY <1>0, <2>3, <3>1, <3>2 DEF RollFits
    <3>4. DeskFits(desk[d])'
      BY <3>1 DEF DeskFits
    <3>5. QED
      BY <2>5, <3>3, <3>4
  <2>11. CASE DowngradeRead(d)
    <3>1. /\ phase = "ADMIN_ACTION_REQUIRED" /\ UNCHANGED <<active, locked, tier, phase>>
          /\ desk'[d].op = "list" /\ desk'[d].lock = {}
      BY <2>3, <2>11 DEF DowngradeRead, Open, Free, table
    <3>2. tier = "PAID"
      BY <1>0, <2>3, <3>1 DEF RollFits
    <3>3. DeskFits(desk[d])'
      BY <3>1, <3>2 DEF DeskFits
    <3>4. QED
      BY <2>3, <2>5, <3>1, <3>3 DEF RollFits
  <2>12. CASE DowngradeList(d)
    <3>0. UNCHANGED <<active, locked, tier, phase>> /\ desk[d].op = "list"
          /\ desk'[d].op = "lock"
      BY <2>3, <2>12 DEF DowngradeList, Go, table, Request
    <3>1. /\ UNCHANGED <<active, locked, tier, phase>> /\ desk'[d].op = "lock"
          /\ tier = "PAID" /\ desk[d].lock = {} /\ locked = {} /\ Operational = active
          /\ Cardinality(active) <= PaidSeats /\ Cardinality(active) \in Nat
      BY <1>0, <2>3, <3>0, CardFacts DEF DeskFits, RollFits, Operational
    <3>2. CASE Cardinality(Operational) > FreeSeats
      <4>1. PICK K \in Keeps : /\ desk'[d].lock = active \ K
                               /\ exempt' = (exempt \/ Cardinality(K) < FreeSeats)
        BY <2>3, <2>12, <3>1, <3>2 DEF DowngradeList, Request
      <4>2. K \in SUBSET active /\ Cardinality(K) <= FreeSeats /\ ~(Cardinality(K) < FreeSeats)
        BY <3>1, <4>1 DEF Keeps
      <4>3. K \in SUBSET Pupils /\ active \ K \in SUBSET Pupils
        BY <1>0, <4>2
      <4>4. /\ Cardinality(K) \in Nat
            /\ Cardinality(active \ K) = Cardinality(active) - Cardinality(K)
        BY <1>0, <4>2, <4>3, CardFacts
      <4>5. active \ (active \ K) = K
        BY <4>2
      <4>6. Cardinality(active \ K) + FreeSeats <= PaidSeats
        BY <1>0, <3>1, <4>2, <4>4
      <4>7. DeskFits(desk[d])'
        BY <3>1, <4>1, <4>2, <4>5, <4>6 DEF DeskFits
      <4>8. QED
        BY <2>3, <2>5, <3>1, <4>7 DEF RollFits
    <3>3. CASE ~(Cardinality(Operational) > FreeSeats)
      <4>1. desk'[d].lock = {} /\ Cardinality(active) <= FreeSeats
        BY <1>0, <2>3, <2>12, <3>1, <3>3 DEF DowngradeList, Go, Request
      <4>2. active \ {} = active
        OBVIOUS
      <4>3. DeskFits(desk[d])'
        BY <1>0, <3>1, <4>1, <4>2, CardEmpty DEF DeskFits
      <4>4. QED
        BY <2>3, <2>5, <3>1, <4>3 DEF RollFits
    <3>4. QED
      BY <3>2, <3>3
  <2>13. CASE DowngradeTx(d)
    <3>1. /\ active' = active \ desk[d].lock /\ locked' = locked \cup desk[d].lock
          /\ tier' = "FREE" /\ phase' = "OK" /\ desk'[d].op = "idle"
      BY <2>3, <2>13 DEF DowngradeTx, Done, Free
    <3>2. /\ locked = {} /\ Cardinality(active \ desk[d].lock) <= FreeSeats
          /\ Cardinality(desk[d].lock) + FreeSeats <= PaidSeats
      BY <2>3, <2>13 DEF DowngradeTx, DeskFits, RollFits
    <3>3. locked' = desk[d].lock
      BY <3>1, <3>2
    <3>4. RollFits'
      BY <3>1, <3>2, <3>3 DEF RollFits
    <3>5. DeskFits(desk[d])'
      BY <3>1 DEF DeskFits
    <3>6. QED
      BY <2>5, <3>4, <3>5
  <2>14. CASE EnterTx(d)
    BY <2>3, <2>6, <2>14 DEF EnterTx, Done, Free
  <2>15. CASE Add(d) \/ Approve(d) \/ SubmitRead(d) \/ LeaveRead(d) \/ EnterRead(d)
    <3>1. UNCHANGED <<active, locked, tier, phase>>
          /\ desk'[d].op \in {"limit", "submit", "leave", "enter"}
      BY <2>3, <2>15 DEF Add, Approve, SubmitRead, LeaveRead, EnterRead, Open, Free, table
    <3>2. QED
      BY <2>6, <3>1
  <2>16. CASE Accept(d) \/ SubmitWrite(d) \/ Abort(d) \/ (CountStudents(d) /\ Done(d))
              \/ (Enrol(d) /\ desk[d].pupil \in known)
    <3>1. Done(d) /\ UNCHANGED <<active, locked, tier, phase>>
      BY <2>16 DEF Accept, SubmitWrite, Abort, CountStudents, Enrol, SetApp, OnlyDesk, table
    <3>2. desk'[d].op = "idle"
      BY <2>3, <3>1 DEF Done, Free
    <3>3. QED
      BY <2>6, <3>1, <3>2
  <2>17. QED
    BY <1>4, <2>7, <2>8, <2>9, <2>10, <2>11, <2>12, <2>13, <2>14, <2>15, <2>16
    DEF Serve, CountStudents
<1>5. QED
  BY <1>1, <1>2, <1>3, <1>4
  DEF RollNext, IssueCode, Reject, SetApp, rollVars, table

LEMMA SeatInit == RollInit => SeatInv
<1> SUFFICES ASSUME RollInit PROVE SeatInv
  OBVIOUS
<1>1. \A d \in Desks : desk[d].op = "idle"
  BY DEF RollInit, Free
<1>2. QED
  BY <1>1 DEF RollInit, SeatInv, OneBusy, RollFits, DeskFits

\* SeatsKept for any numbers of pupils and seats, any number of requests in a
\* row, and any order of renewals and downgrades.
THEOREM SeatsAreKept == RollSpec => []SeatsKept
<1>1. RollInit => Away
  BY DEF RollInit, Away, LeaverStaysAway
<1>2. IInv /\ [RollNext]_rollVars => IInv'
  BY InvStep
<1>3. IInv /\ Away /\ [RollNext]_rollVars => Away'
  BY AwayStep
<1>4. IInv /\ Away /\ SeatInv /\ [RollNext]_rollVars => SeatInv'
  BY OneBusyStep, SeatStep DEF SeatInv
<1>5. IInv /\ Away /\ SeatInv => SeatsKept
  <2> SUFFICES ASSUME IInv, Away, SeatInv, alone, ~exempt
               PROVE  Cardinality(Operational) <= Seats
    BY DEF SeatsKept
  <2>1. Operational = active
    BY DEF Operational, Away
  <2>2. QED
    BY <2>1 DEF SeatInv, RollFits, Seats, IInv, RollTypeOK, Tiers
<1>6. QED
  BY InvInit, SeatInit, <1>1, <1>2, <1>3, <1>4, <1>5, PTL DEF RollSpec
-----------------------------------------------------------------------------
(***************************************************************************)
(* CalendarSync: the copy in the calendar follows the event.               *)
(***************************************************************************)

\* What a request finds, and leaves when it is over.
Agree ==
  /\ event.state = "kept" /\ event.status = "SYNCED" => copy \in {event.text, NoCopy}
  /\ smooth /\ event.state = "kept" => event.status = "SYNCED" /\ copy = event.text
  /\ smooth /\ event.state = "gone" => copy = NoCopy

\* Where a task is, if it meets no other: what it has read is still so.
OnItsWay(t) ==
  /\ t.op = "edit" =>
       event.state = "kept" /\ t.linked = event.linked /\ Agree
  /\ t.op \in {"settings", "send", "save", "fail"} =>
       event.state = "kept" /\ t.text = event.text /\ event.status = "PENDING"
  /\ t.op \in {"settings", "send"} => (smooth /\ t.linked => copy # NoCopy)
  /\ t.op = "save" => copy = t.text
  /\ t.op = "fail" => ~smooth
  /\ t.op = "remove" =>
       /\ event.state = IF "row" \in t.rest THEN "kept" ELSE "gone"
       /\ event.state = "kept" /\ event.status = "SYNCED" => copy \in {event.text, NoCopy}
       /\ smooth => "settings" \in t.rest \/ "google" \in t.rest \/ copy = NoCopy

\* What holds of the event and of a task with or without overlaps.
EventSound ==
  /\ event.state # "none" => event.text \in Texts
  /\ event.status = "SYNCED" => event.linked
  /\ smooth /\ event.state # "none" => connected
TaskSound(t) ==
  /\ t.op = "remove" <=> t.rest # {}
  /\ t.op \notin {"idle", "remove"} => t.text \in Texts
  /\ t.op # "idle" => event.state # "none"

CalmInv ==
  inTurn => /\ \A h, g \in Hands : task[h].op # "idle" /\ task[g].op # "idle" => h = g
            /\ \A h \in Hands : OnItsWay(task[h])
            /\ Still => Agree

CalendarInv ==
  CalendarTypeOK /\ EventSound /\ (\A h \in Hands : TaskSound(task[h])) /\ CalmInv
-----------------------------------------------------------------------------
\* A step of one task that leaves it where it should be.
LEMMA StepKeeps ==
  ASSUME CalendarInv, NEW h \in Hands,
         task'[h] \in Task, task' = [task EXCEPT ![h] = task'[h]],
         event' \in Event, copy' \in {NoCopy} \cup Texts, connected' \in BOOLEAN,
         texts' \in 0 .. MaxTexts, inTurn' \in BOOLEAN, smooth' \in BOOLEAN,
         event.state # "none" => event'.state # "none",
         EventSound', TaskSound(task[h])',
         inTurn' => inTurn /\ (task[h].op = "idle" => Still),
         inTurn' => OnItsWay(task[h])',
         inTurn' /\ task'[h].op = "idle" => Agree'
  PROVE  CalendarInv'
<1>1. task \in [Hands -> Task]
  BY DEF CalendarInv, CalendarTypeOK
<1>2. task' \in [Hands -> Task] /\ \A g \in Hands : g # h => task'[g] = task[g]
  BY <1>1
<1>3. CalendarTypeOK'
  BY <1>2 DEF CalendarTypeOK
<1>4. ASSUME NEW g \in Hands PROVE TaskSound(task[g])'
  <2>1. CASE g = h
    BY <2>1
  <2>2. CASE g # h
    <3>1. TaskSound(task[g]) /\ task'[g] = task[g]
      BY <1>2, <2>2 DEF CalendarInv
    <3>2. QED
      BY <3>1 DEF TaskSound
  <2>3. QED
    BY <2>1, <2>2
<1>5. ASSUME inTurn' PROVE \A g \in Hands : g # h => task'[g] = task[g] /\ task[g].op = "idle"
  <2>1. inTurn /\ (task[h].op = "idle" => Still)
    BY <1>5
  <2>2. QED
    BY <1>2, <2>1 DEF CalendarInv, CalmInv, Still
<1>6. CalmInv'
  <2> SUFFICES ASSUME inTurn'
               PROVE  /\ \A g, k \in Hands : task'[g].op # "idle" /\ task'[k].op # "idle" => g = k
                      /\ \A g \in Hands : OnItsWay(task[g])'
                      /\ Still' => Agree'
    BY DEF CalmInv
  <2>1. ASSUME NEW g \in Hands PROVE OnItsWay(task[g])'
    <3>1. CASE g = h
      BY <3>1
    <3>2. CASE g # h
      <4>1. task'[g].op = "idle"
        BY <1>5, <3>2
      <4>2. QED
        BY <4>1 DEF OnItsWay
    <3>3. QED
      BY <3>1, <3>2
  <2>2. \A g, k \in Hands : task'[g].op # "idle" /\ task'[k].op # "idle" => g = k
    BY <1>5
  <2>3. Still' => Agree'
    BY DEF Still
  <2>4. QED
    BY <2>1, <2>2, <2>3
<1>7. QED
  BY <1>3, <1>4, <1>6 DEF CalendarInv

\* The same, when the row stays and nothing is found to have failed.
LEMMA TaskMoves ==
  ASSUME CalendarInv, NEW h \in Hands,
         task'[h] \in Task, task' = [task EXCEPT ![h] = task'[h]],
         event' = event, copy' \in {NoCopy} \cup Texts, connected' = connected,
         texts' \in 0 .. MaxTexts, inTurn' \in BOOLEAN, smooth' \in BOOLEAN,
         smooth' => smooth, TaskSound(task[h])',
         inTurn' => inTurn /\ (task[h].op = "idle" => Still),
         inTurn' => OnItsWay(task[h])',
         inTurn' /\ task'[h].op = "idle" => Agree'
  PROVE  CalendarInv'
<1>1. EventSound'
  BY DEF CalendarInv, EventSound
<1>2. event' \in Event /\ connected' \in BOOLEAN
  BY DEF CalendarInv, CalendarTypeOK
<1>3. QED
  BY <1>1, <1>2, StepKeeps

\* What is known of the task whose turn it is.
LEMMA TaskKnown ==
  ASSUME CalendarInv, NEW h \in Hands
  PROVE  /\ task \in [Hands -> Task] /\ task[h] \in Task
         /\ event \in Event /\ copy \in {NoCopy} \cup Texts /\ connected \in BOOLEAN
         /\ texts \in 0 .. MaxTexts /\ inTurn \in BOOLEAN /\ smooth \in BOOLEAN
         /\ EventSound /\ TaskSound(task[h])
         /\ inTurn => OnItsWay(task[h])
         /\ inTurn /\ Still => Agree
<1>1. CalendarTypeOK /\ EventSound /\ TaskSound(task[h])
  BY DEF CalendarInv
<1>2. inTurn => OnItsWay(task[h])
  BY DEF CalendarInv, CalmInv
<1>3. inTurn /\ Still => Agree
  BY DEF CalendarInv, CalmInv
<1>4. QED
  BY <1>1, <1>2, <1>3 DEF CalendarTypeOK

LEMMA NoTaskTyped == NoTask \in Task /\ NoTask.op = "idle" /\ NoTask.rest = {}
  BY CalendarAssumption DEF NoTask, Task, TaskOps

LEMMA CalendarInitially == CalendarInit => CalendarInv
<1> SUFFICES ASSUME CalendarInit PROVE CalendarInv
  OBVIOUS
<1>1. event = NoEvent /\ copy = NoCopy /\ task = [h \in Hands |-> NoTask]
      /\ texts = 0 /\ inTurn = TRUE /\ smooth = TRUE /\ connected \in BOOLEAN
  BY DEF CalendarInit
<1>2. event \in Event /\ event.state = "none" /\ event.status = "PENDING"
  BY <1>1, CalendarAssumption DEF NoEvent, Event, SyncStatus
<1>3. CalendarTypeOK
  BY <1>1, <1>2, NoTaskTyped, CalendarAssumption DEF CalendarTypeOK
<1>4. \A h \in Hands : task[h] = NoTask
  BY <1>1
<1>5. QED
  BY <1>2, <1>3, <1>4, NoTaskTyped
  DEF CalendarInv, EventSound, TaskSound, CalmInv, OnItsWay, Agree
-----------------------------------------------------------------------------
LEMMA CreateEventKeeps ==
  ASSUME CalendarInv, NEW h \in Hands, CreateEvent(h)
  PROVE  CalendarInv'
<1> DEFINE t == [NoTask EXCEPT !.op = "settings", !.text = texts']
<1>1. texts' \in Texts /\ texts' \in 0 .. MaxTexts
  BY TaskKnown, CalendarAssumption DEF CreateEvent, Texts
<1>2. /\ t \in Task /\ t.op = "settings" /\ t.text = texts' /\ t.linked = FALSE
      /\ t.rest = {}
  BY <1>1 DEF NoTask, Task, TaskOps
<1>3. task'[h] = t /\ task' = [task EXCEPT ![h] = task'[h]]
  BY TaskKnown DEF CreateEvent, Begun
<1>4. /\ event' \in Event /\ event'.state = "kept" /\ event'.text = texts'
      /\ event'.linked = FALSE /\ event'.status = "PENDING"
  BY <1>1 DEF CreateEvent, Event, SyncStatus
<1>5. /\ smooth' = connected /\ copy' = copy /\ connected' = connected
      /\ inTurn' \in BOOLEAN /\ (inTurn' => inTurn /\ Still)
  BY TaskKnown DEF CreateEvent, Begun
<1>6. TaskSound(task[h])' /\ EventSound'
  BY <1>1, <1>2, <1>3, <1>4, <1>5 DEF TaskSound, EventSound
<1>7. OnItsWay(task[h])'
  BY <1>2, <1>3, <1>4 DEF OnItsWay
<1> HIDE DEF t
<1>8. QED
  BY <1>1, <1>2, <1>3, <1>4, <1>5, <1>6, <1>7, StepKeeps, TaskKnown

LEMMA EditReadKeeps ==
  ASSUME CalendarInv, NEW h \in Hands, EditRead(h)
  PROVE  CalendarInv'
<1> DEFINE t == [NoTask EXCEPT !.op = "edit", !.text = texts', !.linked = event.linked]
<1>1. texts' \in Texts /\ texts' \in 0 .. MaxTexts /\ event.linked \in BOOLEAN
  BY TaskKnown, CalendarAssumption DEF EditRead, Texts, Event
<1>2. /\ t \in Task /\ t.op = "edit" /\ t.text = texts' /\ t.linked = event.linked
      /\ t.rest = {}
  <2> DEFINE s == [NoTask EXCEPT !.op = "edit", !.text = texts']
  <2>1. s \in Task /\ s.op = "edit" /\ s.text = texts' /\ s.rest = {}
    BY <1>1 DEF NoTask, Task, TaskOps
  <2>2. t = [s EXCEPT !.linked = event.linked]
    OBVIOUS
  <2>3. QED
    <3> HIDE DEF s, t
    <3>1. QED
      BY <1>1, <2>1, <2>2 DEF Task
<1>3. task'[h] = t /\ task' = [task EXCEPT ![h] = task'[h]]
  BY TaskKnown DEF EditRead, Begun
<1>4. /\ event' = event /\ event.state = "kept"
      /\ smooth' = smooth /\ copy' = copy /\ connected' = connected
      /\ inTurn' \in BOOLEAN /\ (inTurn' => inTurn /\ Still)
  BY TaskKnown DEF EditRead, Begun
<1> HIDE DEF t
<1>5. TaskSound(task[h])'
  BY <1>1, <1>2, <1>3, <1>4 DEF TaskSound
<1>6. inTurn' => OnItsWay(task[h])'
  BY <1>2, <1>3, <1>4, TaskKnown DEF OnItsWay, Agree
<1>7. QED
  BY <1>1, <1>2, <1>3, <1>4, <1>5, <1>6, TaskMoves, TaskKnown

-----------------------------------------------------------------------------
LEMMA NowMoves ==
  ASSUME CalendarInv, NEW h \in Hands, NEW op \in TaskOps, Now(h, op)
  PROVE  /\ task'[h] \in Task /\ task' = [task EXCEPT ![h] = task'[h]]
         /\ task'[h].op = op /\ task'[h].text = task[h].text
         /\ task'[h].linked = task[h].linked /\ task'[h].rest = task[h].rest
         /\ inTurn' = inTurn
<1>1. task \in [Hands -> Task] /\ task[h] \in Task
  BY TaskKnown
<1>2. task' = [task EXCEPT ![h] = [task[h] EXCEPT !.op = op]] /\ inTurn' = inTurn
  BY DEF Now
<1>3. task'[h] = [task[h] EXCEPT !.op = op] /\ task' = [task EXCEPT ![h] = task'[h]]
  BY <1>1, <1>2
<1>4. [task[h] EXCEPT !.op = op] \in Task
  BY <1>1 DEF Task
<1>5. QED
  BY <1>1, <1>2, <1>3, <1>4 DEF Task

LEMMA OverMoves ==
  ASSUME CalendarInv, NEW h \in Hands, Over(h)
  PROVE  /\ task'[h] \in Task /\ task' = [task EXCEPT ![h] = task'[h]]
         /\ task'[h] = NoTask /\ TaskSound(task[h])' /\ OnItsWay(task[h])'
         /\ inTurn' = inTurn
<1>1. task'[h] = NoTask /\ task' = [task EXCEPT ![h] = task'[h]] /\ inTurn' = inTurn
  BY TaskKnown DEF Over
<1>2. QED
  BY <1>1, NoTaskTyped DEF TaskSound, OnItsWay

\* A task ends with the row as it is.
LEMMA OverKeeps ==
  ASSUME CalendarInv, NEW h \in Hands, Over(h), task[h].op # "idle",
         UNCHANGED <<event, copy, connected, texts>>, smooth' \in BOOLEAN,
         smooth' => smooth,
         inTurn => Agree'
  PROVE  CalendarInv'
  BY OverMoves, TaskKnown, TaskMoves

LEMMA EditWriteKeeps ==
  ASSUME CalendarInv, NEW h \in Hands, EditWrite(h)
  PROVE  CalendarInv'
<1>1. /\ task[h].op = "edit" /\ task[h].text \in Texts /\ event.state # "none"
      /\ task[h].rest = {}
      /\ copy' = copy /\ connected' = connected /\ texts' = texts /\ smooth' = smooth
  BY TaskKnown DEF EditWrite, TaskSound
<1>2. inTurn => event.state = "kept" /\ task[h].linked = event.linked /\ Agree
  BY <1>1, TaskKnown DEF OnItsWay
<1>3. CASE event.state # "kept"
  <2>1. Over(h) /\ event' = event
    BY <1>3 DEF EditWrite
  <2>2. QED
    BY <1>1, <1>2, <1>3, <2>1, OverKeeps, TaskKnown
<1>4. CASE event.state = "kept"
  <2> DEFINE e == [event EXCEPT !.text = task[h].text]
             st == IF task[h].linked THEN "PENDING" ELSE event.status
  <2>1. /\ e \in Event /\ e.text = task[h].text /\ e.state = "kept"
        /\ e.linked = event.linked /\ e.status = event.status
    BY <1>1, <1>4, TaskKnown DEF Event, Texts
  <2>2. st \in SyncStatus
    BY TaskKnown DEF Event, SyncStatus
  <2>3. event' = [e EXCEPT !.status = st]
    BY <1>4, <1>1 DEF EditWrite, Edited
  <2>4. /\ event' \in Event /\ event'.text = task[h].text /\ event'.state = "kept"
        /\ event'.linked = event.linked /\ event'.status = st
    <3> HIDE DEF e, st
    <3>1. QED
      BY <2>1, <2>2, <2>3 DEF Event
  <2>5. EventSound'
    BY <1>1, <1>4, <2>4, TaskKnown DEF EventSound
  <2>6. CASE event.linked
    <3>1. task' = [task EXCEPT ![h] = [task[h] EXCEPT !.op = "settings", !.linked = TRUE]]
          /\ inTurn' = inTurn
      BY <1>4, <2>6 DEF EditWrite
    <3> DEFINE s == [task[h] EXCEPT !.op = "settings"]
    <3>2. s \in Task /\ s.op = "settings" /\ s.text = task[h].text /\ s.rest = {}
      BY <1>1, TaskKnown DEF Task, TaskOps
    <3>3. [s EXCEPT !.linked = TRUE] \in Task /\ [s EXCEPT !.linked = TRUE].op = "settings"
          /\ [s EXCEPT !.linked = TRUE].text = task[h].text
          /\ [s EXCEPT !.linked = TRUE].rest = {}
      <4> HIDE DEF s
      <4>1. QED
        BY <3>2 DEF Task
    <3>4. task'[h] = [s EXCEPT !.linked = TRUE] /\ task' = [task EXCEPT ![h] = task'[h]]
      BY <3>1, TaskKnown
    <3>5. /\ task'[h] \in Task /\ task'[h].op = "settings" /\ task'[h].text = task[h].text
          /\ task'[h].rest = {}
      <4> HIDE DEF s
      <4>1. QED
        BY <3>3, <3>4
    <3>6. TaskSound(task[h])'
      BY <1>1, <2>4, <3>5 DEF TaskSound
    <3>7. ASSUME inTurn PROVE event'.status = "PENDING" /\ (smooth => copy # NoCopy)
      <4>1. event.text \in Texts
        BY <1>1, TaskKnown DEF EventSound
      <4>2. smooth => copy = event.text
        BY <1>2, <1>4, <3>7 DEF Agree
      <4>3. task[h].linked
        BY <1>2, <2>6, <3>7, Zenon
      <4>4. event'.status = "PENDING"
        BY <2>4, <4>3, Zenon
      <4>5. QED
        BY <4>1, <4>2, <4>4 DEF Texts, NoCopy
    <3>8. inTurn => OnItsWay(task[h])'
      BY <1>1, <2>4, <3>5, <3>7 DEF OnItsWay
    <3> HIDE DEF s, e, st
    <3>9. QED
      BY <1>1, <1>4, <2>4, <2>5, <3>1, <3>4, <3>5, <3>6, <3>8, StepKeeps, TaskKnown
  <2>7. CASE ~event.linked
    <3>1. Over(h)
      BY <1>4, <2>7 DEF EditWrite
    <3>2. event.status # "SYNCED"
      BY <2>7, TaskKnown DEF EventSound
    <3>3. inTurn => ~smooth /\ event'.status # "SYNCED"
      BY <1>2, <1>4, <3>2, <2>4 DEF Agree
    <3>4. inTurn => Agree'
      BY <1>1, <2>4, <3>3 DEF Agree
    <3> HIDE DEF e, st
    <3>5. QED
      BY <1>1, <1>4, <2>4, <2>5, <3>1, <3>4, OverMoves, StepKeeps, TaskKnown
  <2>8. QED
    BY <2>6, <2>7
<1>5. QED
  BY <1>3, <1>4

LEMMA ReadSettingsKeeps ==
  ASSUME CalendarInv, NEW h \in Hands, ReadSettings(h)
  PROVE  CalendarInv'
<1>1. /\ task[h].op = "settings" /\ task[h].text \in Texts /\ event.state # "none"
      /\ task[h].rest = {}
      /\ UNCHANGED <<event, copy, connected, texts, smooth>>
  BY TaskKnown DEF ReadSettings, TaskSound
<1>2. CASE connected
  <2>1. Now(h, "send") /\ "send" \in TaskOps
    BY <1>2 DEF ReadSettings, TaskOps
  <2>2. TaskSound(task[h])'
    BY <1>1, <2>1, NowMoves DEF TaskSound
  <2>3. inTurn => OnItsWay(task[h])'
    BY <1>1, <2>1, NowMoves, TaskKnown DEF OnItsWay
  <2>4. QED
    BY <1>1, <2>1, <2>2, <2>3, NowMoves, TaskKnown, TaskMoves
<1>3. CASE ~connected
  <2>1. ~smooth
    BY <1>1, <1>3, TaskKnown DEF EventSound
  <2>2. Over(h)
    BY <1>3 DEF ReadSettings
  <2>3. inTurn => Agree'
    BY <1>1, <2>1, TaskKnown DEF OnItsWay, Agree
  <2>4. QED
    BY <1>1, <2>2, <2>3, OverKeeps, TaskKnown
<1>4. QED
  BY <1>2, <1>3

LEMMA SendKeeps ==
  ASSUME CalendarInv, NEW h \in Hands, SendOk(h) \/ SendRefused(h) \/ SendFails(h)
  PROVE  CalendarInv'
<1>1. /\ task[h].op = "send" /\ task[h].text \in Texts /\ event.state # "none"
      /\ task[h].rest = {}
      /\ UNCHANGED <<event, connected, texts>>
  BY TaskKnown DEF SendOk, SendRefused, SendFails, TaskSound
<1>2. /\ copy' \in {NoCopy} \cup Texts /\ smooth' \in BOOLEAN /\ (smooth' => smooth)
  <2>1. CASE SendOk(h)
    BY <1>1, <2>1, TaskKnown DEF SendOk
  <2>2. CASE SendRefused(h)
    BY <1>1, <2>2, TaskKnown DEF SendRefused
  <2>3. CASE SendFails(h)
    <3>1. copy' = copy \/ copy' = task[h].text
      BY <2>3 DEF SendFails
    <3>2. smooth' = FALSE
      BY <2>3 DEF SendFails
    <3>3. QED
      BY <1>1, <3>1, <3>2, TaskKnown
  <2>4. QED
    BY <2>1, <2>2, <2>3
<1>3. CASE SendOk(h)
  <2>1. Now(h, "save") /\ "save" \in TaskOps /\ copy' = task[h].text
    BY <1>3 DEF SendOk, TaskOps
  <2>2. TaskSound(task[h])'
    BY <1>1, <2>1, NowMoves DEF TaskSound
  <2>3. inTurn => OnItsWay(task[h])'
    BY <1>1, <2>1, NowMoves, TaskKnown DEF OnItsWay
  <2>4. QED
    BY <1>1, <1>2, <2>1, <2>2, <2>3, NowMoves, TaskKnown, TaskMoves
<1>4. CASE SendRefused(h) \/ SendFails(h)
  <2>1. Now(h, "fail") /\ "fail" \in TaskOps
    BY <1>4 DEF SendRefused, SendFails, TaskOps
  <2>2. TaskSound(task[h])'
    BY <1>1, <2>1, NowMoves DEF TaskSound
  <2>3. inTurn => ~smooth'
    BY <1>1, <1>4, TaskKnown DEF SendRefused, SendFails, Accepted, OnItsWay
  <2>4. inTurn => OnItsWay(task[h])'
    BY <1>1, <2>1, <2>3, NowMoves, TaskKnown DEF OnItsWay
  <2>5. QED
    BY <1>1, <1>2, <2>1, <2>2, <2>4, NowMoves, TaskKnown, TaskMoves
<1>5. QED
  BY <1>3, <1>4

LEMMA SaveKeeps ==
  ASSUME CalendarInv, NEW h \in Hands, SaveLink(h) \/ SaveFailure(h)
  PROVE  CalendarInv'
<1>1. /\ Over(h) /\ event.state # "none" /\ task[h].op \in {"save", "fail"}
      /\ UNCHANGED <<copy, connected, texts, smooth>>
  BY TaskKnown DEF SaveLink, SaveFailure, TaskSound
<1>2. CASE event.state # "kept"
  <2>1. event' = event /\ ~inTurn
    BY <1>1, <1>2, TaskKnown DEF SaveLink, SaveFailure, OnItsWay
  <2>2. QED
    BY <1>1, <2>1, OverKeeps, TaskKnown
<1>3. CASE event.state = "kept" /\ SaveLink(h)
  <2> DEFINE e == [event EXCEPT !.linked = TRUE]
  <2>1. e \in Event /\ e.linked /\ e.state = "kept" /\ e.text = event.text
    BY <1>3, TaskKnown DEF Event
  <2>2. event' = [e EXCEPT !.status = "SYNCED"]
    BY <1>3 DEF SaveLink
  <2>3. /\ event' \in Event /\ event'.linked /\ event'.state = "kept"
        /\ event'.text = event.text /\ event'.status = "SYNCED"
    <3> HIDE DEF e
    <3>1. QED
      BY <2>1, <2>2 DEF Event, SyncStatus
  <2>4. EventSound'
    BY <1>1, <2>3, TaskKnown DEF EventSound
  <2>5. inTurn => Agree'
    BY <1>1, <1>3, <2>3, TaskKnown DEF SaveLink, OnItsWay, Agree
  <2>6. QED
    BY <1>1, <2>3, <2>4, <2>5, OverMoves, StepKeeps, TaskKnown
<1>4. CASE event.state = "kept" /\ SaveFailure(h)
  <2>1. /\ event' \in Event /\ event'.linked = event.linked /\ event'.state = "kept"
        /\ event'.text = event.text /\ event'.status = "FAILED"
    BY <1>4, TaskKnown DEF SaveFailure, Event, SyncStatus
  <2>2. EventSound'
    BY <1>1, <2>1, TaskKnown DEF EventSound
  <2>3. inTurn => Agree'
    BY <1>1, <1>4, <2>1, TaskKnown DEF SaveFailure, OnItsWay, Agree
  <2>4. QED
    BY <1>1, <2>1, <2>2, <2>3, OverMoves, StepKeeps, TaskKnown
<1>5. QED
  BY <1>2, <1>3, <1>4

RemoveParts == SUBSET {"row", "settings", "google"}

LEMMA RemainsMoves ==
  ASSUME CalendarInv, NEW h \in Hands, NEW rest \in RemoveParts, Remains(h, rest),
         task[h].op = "remove"
  PROVE  /\ task'[h] \in Task /\ task' = [task EXCEPT ![h] = task'[h]] /\ inTurn' = inTurn
         /\ task'[h].rest = rest
         /\ task'[h].op = IF rest = {} THEN "idle" ELSE "remove"
<1>1. task \in [Hands -> Task] /\ task[h] \in Task
  BY TaskKnown
<1> DEFINE t == [task[h] EXCEPT !.rest = rest]
<1>2. t \in Task /\ t.rest = rest /\ t.op = "remove"
  BY <1>1 DEF Task, RemoveParts
<1>3. task' = [task EXCEPT ![h] = IF rest = {} THEN NoTask ELSE t] /\ inTurn' = inTurn
  BY DEF Remains
<1> HIDE DEF t
<1>4. task'[h] = (IF rest = {} THEN NoTask ELSE t) /\ task' = [task EXCEPT ![h] = task'[h]]
  BY <1>1, <1>3
<1>5. QED
  BY <1>2, <1>3, <1>4, NoTaskTyped

LEMMA RemoveReadKeeps ==
  ASSUME CalendarInv, NEW h \in Hands, RemoveRead(h)
  PROVE  CalendarInv'
<1> DEFINE rest == {"row"} \cup (IF event.linked THEN {"settings"} ELSE {})
           t == [NoTask EXCEPT !.op = "remove", !.rest = rest]
<1>1. rest \in RemoveParts /\ "row" \in rest /\ (event.linked => "settings" \in rest)
  BY DEF RemoveParts
<1>2. /\ event.state = "kept" /\ UNCHANGED <<event, copy, connected, texts, smooth>>
      /\ Begun(h, t)
  BY DEF RemoveRead
<1> HIDE DEF rest
<1>3. t \in Task /\ t.op = "remove" /\ t.rest = rest
  <2> DEFINE s == [NoTask EXCEPT !.op = "remove"]
  <2>1. s \in Task /\ s.op = "remove"
    BY NoTaskTyped DEF Task, TaskOps
  <2>2. t = [s EXCEPT !.rest = rest]
    OBVIOUS
  <2>3. QED
    <3> HIDE DEF s, t
    <3>1. QED
      BY <1>1, <2>1, <2>2 DEF Task, RemoveParts
<1> HIDE DEF t
<1>4. /\ task'[h] = t /\ task' = [task EXCEPT ![h] = task'[h]]
      /\ inTurn' \in BOOLEAN /\ (inTurn' => inTurn /\ Still)
  BY <1>2, TaskKnown DEF Begun
<1>5. TaskSound(task[h])'
  BY <1>1, <1>2, <1>3, <1>4 DEF TaskSound
<1>6. ASSUME inTurn' PROVE OnItsWay(task[h])'
  <2>1. Agree
    BY <1>4, <1>6, TaskKnown
  <2>2. smooth => "settings" \in rest
    BY <1>1, <1>2, <2>1, TaskKnown DEF Agree, EventSound
  <2>3. QED
    BY <1>1, <1>2, <1>3, <1>4, <2>1, <2>2 DEF OnItsWay, Agree
<1>7. QED
  BY <1>2, <1>3, <1>4, <1>5, <1>6, TaskMoves, TaskKnown

LEMMA RemoveRowKeeps ==
  ASSUME CalendarInv, NEW h \in Hands, RemoveRow(h)
  PROVE  CalendarInv'
<1> DEFINE rest == task[h].rest \ {"row"}
<1>1. /\ task[h].op = "remove" /\ "row" \in task[h].rest /\ event.state # "none"
      /\ task[h].rest \in RemoveParts
      /\ UNCHANGED <<copy, connected, texts, smooth>> /\ Remains(h, rest)
  BY TaskKnown DEF RemoveRow, TaskSound, Task, RemoveParts
<1>2. rest \in RemoveParts
  BY <1>1 DEF RemoveParts
<1>3. /\ event' \in Event /\ event'.state = "gone" /\ event'.text = event.text
      /\ event'.linked = event.linked /\ event'.status = event.status
  BY TaskKnown DEF RemoveRow, Event
<1>4. EventSound'
  BY <1>1, <1>3, TaskKnown DEF EventSound
<1>5. /\ task'[h] \in Task /\ task' = [task EXCEPT ![h] = task'[h]] /\ inTurn' = inTurn
      /\ task'[h].rest = rest
      /\ task'[h].op = IF rest = {} THEN "idle" ELSE "remove"
  <2> HIDE DEF rest
  <2>1. QED
    BY <1>1, <1>2, RemainsMoves
<1>6. TaskSound(task[h])'
  BY <1>3, <1>5 DEF TaskSound
<1>7. ASSUME inTurn, smooth
      PROVE  "settings" \in rest \/ "google" \in rest \/ copy = NoCopy
  BY <1>1, <1>7, TaskKnown DEF OnItsWay
<1>8. inTurn' => OnItsWay(task[h])'
  BY <1>1, <1>3, <1>5, <1>7 DEF OnItsWay
<1>9. inTurn' /\ task'[h].op = "idle" => Agree'
  BY <1>1, <1>3, <1>5, <1>7 DEF Agree
<1>10. QED
  BY <1>1, <1>3, <1>4, <1>5, <1>6, <1>8, <1>9, StepKeeps, TaskKnown

\* The other chain of a deletion.
LEMMA RemoveCopyKeeps ==
  ASSUME CalendarInv, NEW h \in Hands, RemoveSettings(h) \/ EraseCopy(h)
  PROVE  CalendarInv'
<1> DEFINE rest == IF RemoveSettings(h)
                   THEN (task[h].rest \ {"settings"}) \cup (IF connected THEN {"google"} ELSE {})
                   ELSE task[h].rest \ {"google"}
<1>1. /\ task[h].op = "remove" /\ event.state # "none"
      /\ task[h].rest \in RemoveParts
      /\ UNCHANGED <<event, connected, texts>> /\ Remains(h, rest)
  BY TaskKnown DEF RemoveSettings, EraseCopy, TaskSound, Task, RemoveParts
<1>2. rest \in RemoveParts /\ ("row" \in rest <=> "row" \in task[h].rest)
  BY <1>1 DEF RemoveParts
<1>3. /\ copy' \in {copy, NoCopy} /\ smooth' \in BOOLEAN /\ (smooth' => smooth)
  <2>1. copy' \in {copy, NoCopy} /\ (smooth' = smooth \/ smooth' = FALSE)
    BY DEF RemoveSettings, EraseCopy
  <2>2. smooth \in BOOLEAN
    BY TaskKnown
  <2>3. smooth' \in BOOLEAN /\ (smooth' => smooth)
    <3>1. CASE smooth' = smooth
      BY <2>2, <3>1
    <3>2. CASE smooth' = FALSE
      BY <3>2
    <3>3. QED
      BY <2>1, <3>1, <3>2
  <2>4. QED
    BY <2>1, <2>3
<1>4. inTurn /\ smooth' => "settings" \in rest \/ "google" \in rest \/ copy' = NoCopy
  <2>1. CASE RemoveSettings(h)
    BY <1>1, <1>3, <2>1, TaskKnown DEF RemoveSettings, OnItsWay, EventSound
  <2>2. CASE ~RemoveSettings(h)
    <3>1. smooth' => copy' = NoCopy
      BY <2>2 DEF EraseCopy
    <3>2. QED
      BY <3>1
  <2>3. QED
    BY <2>1, <2>2
<1> HIDE DEF rest
<1>5. /\ task'[h] \in Task /\ task' = [task EXCEPT ![h] = task'[h]] /\ inTurn' = inTurn
      /\ task'[h].rest = rest
      /\ task'[h].op = IF rest = {} THEN "idle" ELSE "remove"
  BY <1>1, <1>2, RemainsMoves
<1>6. TaskSound(task[h])'
  BY <1>1, <1>5 DEF TaskSound
<1>7. ASSUME inTurn
      PROVE  /\ event.state = IF "row" \in rest THEN "kept" ELSE "gone"
             /\ event.state = "kept" /\ event.status = "SYNCED" => copy' \in {event.text, NoCopy}
  BY <1>1, <1>2, <1>3, <1>7, TaskKnown DEF OnItsWay
<1>8. inTurn' => OnItsWay(task[h])'
  BY <1>1, <1>4, <1>5, <1>7 DEF OnItsWay
<1>9. inTurn' /\ task'[h].op = "idle" => Agree'
  BY <1>1, <1>4, <1>5, <1>7 DEF Agree
<1>10. QED
  BY <1>1, <1>3, <1>5, <1>6, <1>8, <1>9, TaskMoves, TaskKnown

\* A task is lost: what it leaves is not in step only where it does not say so.
LEMMA LoseTaskKeeps ==
  ASSUME CalendarInv, NEW h \in Hands, LoseTask(h)
  PROVE  CalendarInv'
<1>1. /\ task[h].op # "idle" /\ Over(h) /\ smooth' = FALSE
      /\ UNCHANGED <<event, copy, connected, texts>>
  BY DEF LoseTask
<1>2. task[h].op \in TaskOps
  BY TaskKnown DEF Task
<1>3. inTurn => Agree'
  BY <1>1, <1>2, TaskKnown DEF TaskOps, OnItsWay, Agree
<1>4. QED
  BY <1>1, <1>3, OverKeeps

LEMMA ConnectionKeeps ==
  ASSUME CalendarInv, Connect \/ Disconnect
  PROVE  CalendarInv'
<1>1. /\ UNCHANGED <<event, copy, task, texts, inTurn>> /\ connected' \in BOOLEAN
      /\ smooth' \in BOOLEAN /\ (smooth' => smooth /\ connected')
  <2>1. CASE Connect
    BY <2>1, TaskKnown DEF Connect, CalendarInv, CalendarTypeOK
  <2>2. CASE Disconnect
    BY <2>2 DEF Disconnect
  <2>3. QED
    BY <2>1, <2>2
<1>2. CalendarTypeOK' /\ EventSound' /\ \A h \in Hands : TaskSound(task[h])'
  BY <1>1 DEF CalendarInv, CalendarTypeOK, EventSound, TaskSound
<1>3. \A h \in Hands : OnItsWay(task[h]) => OnItsWay(task[h])'
  BY <1>1 DEF OnItsWay, Agree
<1>4. Agree => Agree'
  BY <1>1 DEF Agree
<1>5. CalmInv'
  <2>1. CalmInv /\ (Still' <=> Still)
    BY <1>1 DEF CalendarInv, Still
  <2>2. QED
    BY <1>1, <1>3, <1>4, <2>1 DEF CalmInv
<1>6. QED
  BY <1>2, <1>5 DEF CalendarInv

LEMMA CalendarStep == CalendarInv /\ [CalendarNext]_calendarVars => CalendarInv'
<1> SUFFICES ASSUME CalendarInv, [CalendarNext]_calendarVars PROVE CalendarInv'
  OBVIOUS
<1>1. CASE UNCHANGED calendarVars
  BY <1>1 DEF calendarVars, CalendarInv, CalendarTypeOK, EventSound, TaskSound, CalmInv,
              OnItsWay, Agree, Still
<1>2. ASSUME NEW h \in Hands, HandleEvent(h) PROVE CalendarInv'
  BY <1>2, CreateEventKeeps, EditReadKeeps, EditWriteKeeps, ReadSettingsKeeps, SendKeeps,
     SaveKeeps, RemoveReadKeeps, RemoveRowKeeps, RemoveCopyKeeps, LoseTaskKeeps
  DEF HandleEvent
<1>3. QED
  BY <1>1, <1>2, ConnectionKeeps DEF CalendarNext

\* As long as no request meets the sync of another, the copy has the text of a row
\* that says so, and unless something failed every event gets there.
THEOREM CalendarCopyFollows == CalendarSpec => []CopyFollows
<1>1. CalendarInv => CopyFollows
  BY DEF CalendarInv, CalmInv, Agree, CopyFollows
<1>2. QED
  BY <1>1, CalendarInitially, CalendarStep, PTL DEF CalendarSpec
-----------------------------------------------------------------------------
(***************************************************************************)
(* CreditPool: the types, and that the credits add up.                     *)
(***************************************************************************)

\* A renewal or a link is alone, and what the renewal has computed is still so.
RewriteOK(u) ==
  turn[u].op \in Rewrites =>
    /\ \A v \in Users : v # u => turn[v].op = "idle"
    /\ turn[u].op = "renew" => /\ turn[u].tier \in {"PRO", "CUSTOM"}
                               /\ turn[u].amount = Renewed(turn[u].tier)

\* Only a pool with a limit is topped up.
TopUpOK(u) ==
  turn[u].op = "topUp" => pool.credits # Unlimited /\ turn[u].amount \in Nat

\* A use finds what it saw, and a refund gives back what is used.
CountOK(u) ==
  /\ turn[u].op \in Counts =>
       \A v \in Users : turn[v].op \in Counts => v = u
  /\ turn[u].op = "use" => /\ turn[u].amount \in Nat /\ pool.credits # Unlimited
                           /\ pool.used + turn[u].amount <= pool.credits
  /\ turn[u].op = "refund" => turn[u].amount \in 0 .. pool.used

SteadyInv ==
  steady =>
    /\ pool.credits >= Unlimited
    /\ \A u \in Users : RewriteOK(u) /\ TopUpOK(u)
    /\ apart => pool.used >= 0 /\ \A u \in Users : CountOK(u)

\* The inductive invariant.
PoolInv == PoolTypeOK /\ SteadyInv /\ CreditsBalance
-----------------------------------------------------------------------------
USE DEF Unlimited

LEMMA CapTyped ==
  ASSUME NEW level \in CreditTiers
  PROVE  TierCap(level) \in Int /\ TierCap(level) >= Unlimited
  BY PoolAssumption DEF TierCap, CreditTiers

LEMMA RenewedTyped ==
  ASSUME PoolTypeOK, NEW level \in CreditTiers
  PROVE  Renewed(level) \in Int
  BY CapTyped DEF PoolTypeOK, Pool, Renewed, Unused

LEMMA NoTurnTyped == NoTurn \in Turn /\ NoTurn.op = "idle"
  BY DEF NoTurn, Turn, TurnOps, CreditTiers

\* Each column of the row may be written on its own.
LEMMA PoolPut ==
  ASSUME NEW p \in Pool
  PROVE  /\ \A x \in CreditTiers : LET q == [p EXCEPT !.tier = x] IN
              /\ q \in Pool /\ q.tier = x /\ q.credits = p.credits /\ q.used = p.used
         /\ \A x \in Int : LET q == [p EXCEPT !.credits = x] IN
              q \in Pool /\ q.credits = x /\ q.used = p.used /\ q.tier = p.tier
         /\ \A x \in Int : LET q == [p EXCEPT !.used = x] IN
              q \in Pool /\ q.used = x /\ q.credits = p.credits /\ q.tier = p.tier
         /\ \A x \in CreditTiers \cup {"none"} : LET q == [p EXCEPT !.plan = x] IN
              q \in Pool /\ q.credits = p.credits /\ q.used = p.used /\ q.tier = p.tier
         /\ \A x \in BOOLEAN : LET q == [p EXCEPT !.open = x] IN
              q \in Pool /\ q.credits = p.credits /\ q.used = p.used /\ q.tier = p.tier
<1>1. \A x \in CreditTiers : LET q == [p EXCEPT !.tier = x] IN
        /\ q \in Pool /\ q.tier = x /\ q.credits = p.credits /\ q.used = p.used
  BY DEF Pool
<1>2. \A x \in Int : LET q == [p EXCEPT !.credits = x] IN
        q \in Pool /\ q.credits = x /\ q.used = p.used /\ q.tier = p.tier
  BY DEF Pool
<1>3. \A x \in Int : LET q == [p EXCEPT !.used = x] IN
        q \in Pool /\ q.used = x /\ q.credits = p.credits /\ q.tier = p.tier
  BY DEF Pool
<1>4. \A x \in CreditTiers \cup {"none"} : LET q == [p EXCEPT !.plan = x] IN
        q \in Pool /\ q.credits = p.credits /\ q.used = p.used /\ q.tier = p.tier
  BY DEF Pool
<1>5. \A x \in BOOLEAN : LET q == [p EXCEPT !.open = x] IN
        q \in Pool /\ q.credits = p.credits /\ q.used = p.used /\ q.tier = p.tier
  BY DEF Pool
<1>6. QED
  BY <1>1, <1>2, <1>3, <1>4, <1>5

LEMMA PoolInitially == PoolInit => PoolInv
<1> SUFFICES ASSUME PoolInit PROVE PoolInv
  OBVIOUS
<1>1. PICK plan \in {"FREE", "none"}, n \in PlanCredits \cup {TierCap("FREE")} :
        /\ pool = [tier |-> "FREE", credits |-> n, used |-> 0, plan |-> plan, open |-> TRUE]
        /\ bought = n
  BY DEF PoolInit
<1>2. n \in Nat
  BY PoolAssumption DEF TierCap
<1>3. PoolTypeOK
  BY <1>1, <1>2, NoTurnTyped, PoolAssumption
  DEF PoolInit, PoolTypeOK, Pool, CreditTiers
<1>4. QED
  BY <1>1, <1>2, <1>3, NoTurnTyped
  DEF PoolInit, PoolInv, SteadyInv, RewriteOK, TopUpOK, CountOK, CreditsBalance,
      Rewrites, Counts
-----------------------------------------------------------------------------
\* A new request leaves the pool alone.
LEMMA AskKeeps ==
  ASSUME PoolInv, NEW u \in Users, NEW t \in Turn, Ask(u, t), charged' \in Nat,
         t.op = "renew" => t.tier \in {"PRO", "CUSTOM"} /\ t.amount = Renewed(t.tier),
         t.op = "topUp" => pool.credits # Unlimited /\ t.amount \in Nat,
         t.op = "use" => /\ t.amount \in Nat /\ pool.credits # Unlimited
                         /\ pool.used + t.amount <= pool.credits,
         t.op = "refund" /\ pool.used >= 0 => t.amount \in 0 .. pool.used
  PROVE  PoolInv'
<1>1. /\ turn' = [turn EXCEPT ![u] = t] /\ turn[u].op = "idle"
      /\ pool' = pool /\ bought' = bought /\ spent' = spent
      /\ turn \in [Users -> Turn]
  BY DEF Ask, PoolInv, PoolTypeOK
<1>2. PoolTypeOK'
  <2>1. steady' \in BOOLEAN /\ apart' \in BOOLEAN
    BY DEF Ask
  <2>2. turns' \in 0 .. MaxTurns
    BY PoolAssumption DEF Ask, PoolInv, PoolTypeOK
  <2>3. QED
    BY <1>1, <2>1, <2>2 DEF PoolInv, PoolTypeOK
<1>3. SteadyInv'
  <2> SUFFICES ASSUME steady' PROVE SteadyInv'
    BY DEF SteadyInv
  <2>1. /\ steady /\ \A v \in Users : turn[v].op \notin Rewrites
        /\ t.op \in Rewrites => Alone
    BY DEF Ask
  <2>2. ASSUME NEW v \in Users PROVE RewriteOK(v)'
    BY <1>1, <2>1 DEF RewriteOK, Alone, Renewed, Unused, Rewrites
  <2>3. ASSUME NEW v \in Users PROVE TopUpOK(v)'
    BY <1>1, <2>1 DEF PoolInv, SteadyInv, TopUpOK
  <2>4. ASSUME apart', NEW v \in Users PROVE CountOK(v)'
    <3>1. apart /\ (t.op \in Counts => \A w \in Users : turn[w].op \notin Counts)
      BY <2>4 DEF Ask
    <3>2. CountOK(v) /\ pool.used >= 0
      BY <2>1, <3>1 DEF PoolInv, SteadyInv
    <3>3. CASE v = u
      BY <1>1, <3>1, <3>2, <3>3 DEF CountOK, Counts
    <3>4. CASE v # u
      BY <1>1, <3>1, <3>2, <3>4 DEF CountOK, Counts
    <3>5. QED
      BY <3>3, <3>4
  <2>5. apart' => apart
    BY DEF Ask
  <2>6. QED
    BY <1>1, <2>1, <2>2, <2>3, <2>4, <2>5 DEF PoolInv, SteadyInv
<1>4. CreditsBalance'
  BY <1>1 DEF Ask, PoolInv, CreditsBalance
<1>5. QED
  BY <1>2, <1>3, <1>4 DEF PoolInv

\* The request of u is over, having changed the pool in a way that leaves true
\* what the others have read.
LEMMA ToldKeeps ==
  ASSUME PoolInv, NEW u \in Users, Told(u),
         pool' \in Pool, charged' \in Nat, bought' \in Int, spent' \in Int,
         steady' \in BOOLEAN, steady' => steady,
         steady' => pool'.credits >= Unlimited,
         steady' /\ apart => pool'.used >= 0,
         steady' => \A v \in Users : v # u => (RewriteOK(v) /\ TopUpOK(v))',
         steady' /\ apart => \A v \in Users : v # u => CountOK(v)',
         CreditsBalance'
  PROVE  PoolInv'
<1>1. /\ turn' = [turn EXCEPT ![u] = NoTurn] /\ turns' = turns /\ apart' = apart
      /\ turn \in [Users -> Turn] /\ turn'[u] = NoTurn
  BY DEF Told, PoolInv, PoolTypeOK
<1>2. PoolTypeOK'
  BY <1>1, NoTurnTyped DEF PoolInv, PoolTypeOK
<1>3. (RewriteOK(u) /\ TopUpOK(u) /\ CountOK(u))'
  BY <1>1, NoTurnTyped DEF RewriteOK, TopUpOK, CountOK, Rewrites, Counts
<1>4. SteadyInv'
  BY <1>1, <1>3 DEF SteadyInv
<1>5. QED
  BY <1>2, <1>4 DEF PoolInv

\* A use or a refund adds to what is used what it adds to what is spent.
LEMMA CountKeeps ==
  ASSUME PoolInv, NEW u \in Users, turn[u].op \in Counts, Told(u), NEW d \in Int,
         pool' = [pool EXCEPT !.used = pool.used + d],
         charged' \in Nat, bought' = bought, spent' = spent + d, steady' = steady,
         steady /\ apart => /\ pool.used + d >= 0
                            /\ pool.credits # Unlimited => pool.used + d <= pool.credits
  PROVE  PoolInv'
<1>1. /\ turn \in [Users -> Turn] /\ turn' = [turn EXCEPT ![u] = NoTurn]
      /\ apart' = apart /\ steady \in BOOLEAN
  BY DEF Told, PoolInv, PoolTypeOK
<1>2. /\ pool'.used = pool.used + d /\ pool'.credits = pool.credits
      /\ pool'.tier = pool.tier /\ pool' \in Pool
      /\ pool.used \in Int /\ pool.credits \in Int
  BY DEF PoolInv, PoolTypeOK, Pool
<1>3. bought \in Int /\ spent \in Int /\ bought' \in Int /\ spent' \in Int
  BY DEF PoolInv, PoolTypeOK
<1>4. ASSUME steady, NEW v \in Users, v # u PROVE (RewriteOK(v) /\ TopUpOK(v))'
  <2>1. RewriteOK(v) /\ TopUpOK(v) /\ turn'[v] = turn[v]
    BY <1>1, <1>4 DEF PoolInv, SteadyInv
  <2>2. turn[u].op # "idle"
    BY DEF Counts
  <2>3. turn[v].op \notin Rewrites
    BY <1>4, <2>1, <2>2 DEF RewriteOK
  <2>4. QED
    BY <2>1, <2>3, <1>2 DEF RewriteOK, TopUpOK
<1>5. ASSUME steady, apart, NEW v \in Users, v # u PROVE CountOK(v)'
  <2>1. CountOK(u)
    BY <1>5 DEF PoolInv, SteadyInv
  <2>2. turn'[v] = turn[v] /\ turn[v].op \notin Counts
    BY <1>1, <1>5, <2>1 DEF CountOK
  <2>3. QED
    BY <2>2 DEF CountOK, Counts
<1>6. CreditsBalance'
  <2> SUFFICES ASSUME steady, pool.credits # Unlimited PROVE CreditsBalance'
    BY <1>2 DEF CreditsBalance
  <2>1. /\ pool.credits - pool.used >= bought - spent
        /\ apart => pool.credits - pool.used = bought - spent
    BY DEF PoolInv, CreditsBalance
  <2>2. /\ pool'.credits - pool'.used >= bought' - spent'
        /\ apart => pool'.credits - pool'.used = bought' - spent'
    BY <2>1, <1>2, <1>3
  <2>3. QED
    BY <1>1, <1>2, <2>2 DEF CreditsBalance
<1>7. steady' => pool'.credits >= Unlimited
  BY <1>2 DEF PoolInv, SteadyInv
<1>8. QED
  BY <1>1, <1>2, <1>3, <1>4, <1>5, <1>6, <1>7, ToldKeeps

LEMMA UseWriteKeeps ==
  ASSUME PoolInv, NEW u \in Users, UseWrite(u)
  PROVE  PoolInv'
<1> DEFINE d == turn[u].amount
<1>1. d \in Int /\ pool \in Pool /\ charged' \in Nat /\ pool.used \in Int
  BY DEF UseWrite, PoolInv, PoolTypeOK, Turn, Pool
<1>2. ASSUME steady, apart
      PROVE  pool.used + d >= 0 /\ pool.used + d <= pool.credits
  <2>1. CountOK(u) /\ pool.used >= 0
    BY <1>2 DEF PoolInv, SteadyInv
  <2>2. QED
    BY <1>1, <2>1 DEF CountOK, UseWrite
<1>3. pool' = [pool EXCEPT !.used = pool.used + d]
  BY <1>1 DEF UseWrite, Pool
<1>4. QED
  BY <1>1, <1>2, <1>3, CountKeeps DEF UseWrite, Counts

LEMMA RefundWriteKeeps ==
  ASSUME PoolInv, NEW u \in Users, RefundWrite(u)
  PROVE  PoolInv'
<1> DEFINE d == - turn[u].amount
<1>1. /\ turn[u].amount \in Int /\ d \in Int /\ pool \in Pool /\ charged' \in Nat
      /\ pool.used \in Int /\ spent \in Int
  BY DEF RefundWrite, PoolInv, PoolTypeOK, Turn, Pool
<1>2. ASSUME steady, apart
      PROVE  /\ pool.used + d >= 0
             /\ pool.credits # Unlimited => pool.used + d <= pool.credits
  <2>1. CountOK(u) /\ pool.used >= 0
    BY <1>2 DEF PoolInv, SteadyInv
  <2>2. pool.credits # Unlimited => pool.used <= pool.credits
    BY <1>2 DEF PoolInv, CreditsBalance
  <2>3. turn[u].amount \in 0 .. pool.used
    BY <2>1 DEF CountOK, RefundWrite
  <2>4. pool.credits \in Int
    BY DEF PoolInv, PoolTypeOK, Pool
  <2>5. QED
    BY <1>1, <2>1, <2>2, <2>3, <2>4
<1>3. pool' = [pool EXCEPT !.used = pool.used + d] /\ spent' = spent + d
  <2>1. pool.used - turn[u].amount = pool.used + d /\ spent - turn[u].amount = spent + d
    BY <1>1
  <2>2. QED
    BY <2>1, <1>1 DEF RefundWrite, Pool
<1>4. QED
  BY <1>1, <1>2, <1>3, CountKeeps DEF RefundWrite, Counts

LEMMA TopUpWriteKeeps ==
  ASSUME PoolInv, NEW u \in Users, TopUpWrite(u)
  PROVE  PoolInv'
<1> DEFINE d == turn[u].amount
<1>1. /\ turn \in [Users -> Turn] /\ turn' = [turn EXCEPT ![u] = NoTurn]
      /\ apart' = apart /\ steady' = steady /\ steady \in BOOLEAN /\ turn[u].op = "topUp"
      /\ d \in Int /\ charged' \in Nat /\ spent' = spent /\ spent \in Int
      /\ bought' = bought + d /\ bought \in Int /\ bought' \in Int
  BY DEF TopUpWrite, Told, PoolInv, PoolTypeOK, Turn
<1>2. /\ pool'.credits = pool.credits + d /\ pool'.used = pool.used
      /\ pool'.tier = pool.tier /\ pool' \in Pool
      /\ pool.used \in Int /\ pool.credits \in Int
  BY <1>1 DEF TopUpWrite, PoolInv, PoolTypeOK, Pool
<1>3. steady => /\ pool.credits # Unlimited /\ d \in Nat /\ pool.credits >= Unlimited
                /\ pool'.credits # Unlimited /\ pool'.credits >= Unlimited
  <2> SUFFICES ASSUME steady
               PROVE  /\ pool.credits # Unlimited /\ d \in Nat /\ pool.credits >= Unlimited
                      /\ pool'.credits # Unlimited /\ pool'.credits >= Unlimited
    OBVIOUS
  <2>1. TopUpOK(u) /\ pool.credits >= Unlimited
    BY DEF PoolInv, SteadyInv
  <2>2. QED
    BY <1>1, <1>2, <2>1 DEF TopUpOK
<1>4. ASSUME steady, NEW v \in Users, v # u PROVE (RewriteOK(v) /\ TopUpOK(v))'
  <2>1. RewriteOK(v) /\ TopUpOK(v) /\ turn'[v] = turn[v]
    BY <1>1, <1>4 DEF PoolInv, SteadyInv
  <2>2. turn[v].op \notin Rewrites
    BY <1>1, <1>4, <2>1 DEF RewriteOK
  <2>3. QED
    BY <2>1, <2>2, <1>3, <1>4 DEF RewriteOK, TopUpOK
<1>5. ASSUME steady, apart, NEW v \in Users, v # u PROVE CountOK(v)'
  <2>1. CountOK(v) /\ turn'[v] = turn[v] /\ turn[v] \in Turn
    BY <1>1, <1>5 DEF PoolInv, SteadyInv
  <2>2. turn[v].op \in Counts => \A w \in Users : turn[w].op \in Counts => w = v
    BY <2>1 DEF CountOK
  <2>3. \A w \in Users : turn'[w].op \in Counts => turn[w].op \in Counts
    BY <1>1, NoTurnTyped DEF Counts
  <2>4. turn[v].amount \in Int
    BY <2>1 DEF Turn
  <2>5. QED
    BY <1>2, <1>3, <1>5, <2>1, <2>2, <2>3, <2>4 DEF CountOK
<1>6. CreditsBalance'
  <2> SUFFICES ASSUME steady PROVE CreditsBalance'
    BY <1>1 DEF CreditsBalance
  <2>1. /\ pool.credits - pool.used >= bought - spent
        /\ apart => /\ pool.credits - pool.used = bought - spent
                    /\ 0 <= pool.used /\ pool.used <= pool.credits
    BY <1>3 DEF PoolInv, CreditsBalance
  <2>2. /\ pool'.credits - pool'.used >= bought' - spent'
        /\ apart => /\ pool'.credits - pool'.used = bought' - spent'
                    /\ 0 <= pool'.used /\ pool'.used <= pool'.credits
    BY <2>1, <1>1, <1>2, <1>3
  <2>3. QED
    BY <1>1, <2>2 DEF CreditsBalance
<1>7. (steady' => steady) /\ (steady' /\ apart => pool'.used >= 0)
  BY <1>1, <1>2 DEF PoolInv, SteadyInv
<1>8. Told(u)
  BY DEF TopUpWrite
<1>9. QED
  BY <1>1, <1>2, <1>3, <1>4, <1>5, <1>6, <1>7, <1>8, ToldKeeps

\* While requests are steady the renewal is alone, so that what is unused is what
\* it computed when it read.
LEMMA PaidWriteKeeps ==
  ASSUME PoolInv, NEW u \in Users, PaidWrite(u)
  PROVE  PoolInv'
<1> DEFINE t == turn[u].tier
           n == turn[u].amount
           limited == pool.credits # Unlimited /\ t = "PRO"
<1>1. /\ turn \in [Users -> Turn] /\ turn' = [turn EXCEPT ![u] = NoTurn]
      /\ apart' = apart /\ steady' = steady /\ steady \in BOOLEAN /\ turn[u].op = "renew"
      /\ n \in Int /\ t \in CreditTiers /\ charged' \in Nat
      /\ spent \in Int /\ bought \in Int
      /\ bought' = (IF limited THEN bought ELSE 0) + TierCap(t)
      /\ spent' = IF limited THEN spent ELSE 0
  BY DEF PaidWrite, Told, PoolInv, PoolTypeOK, Turn
<1>2. /\ pool'.credits = n /\ pool'.used = 0 /\ pool'.tier = t
      /\ pool.used \in Int /\ pool.credits \in Int
  BY DEF PaidWrite, PoolInv, PoolTypeOK, Pool
<1>3. pool' \in Pool
  <2> DEFINE p == [pool EXCEPT !.tier = t]
             q == [p EXCEPT !.credits = n]
             r == [q EXCEPT !.used = 0]
  <2>1. p \in Pool
    BY <1>1, PoolPut DEF PoolInv, PoolTypeOK
  <2>2. q \in Pool
    <3> HIDE DEF p
    <3>1. QED
      BY <1>1, <2>1, PoolPut
  <2>3. r \in Pool
    <3> HIDE DEF q
    <3>1. QED
      BY <2>2, PoolPut
  <2>4. [r EXCEPT !.open = TRUE] \in Pool
    <3> HIDE DEF r
    <3>1. QED
      BY <2>3, PoolPut
  <2>5. QED
    BY <2>4 DEF PaidWrite
<1>4. bought' \in Int /\ spent' \in Int
  BY <1>1, CapTyped
<1>5. steady => /\ t \in {"PRO", "CUSTOM"} /\ n = Renewed(t)
                /\ \A v \in Users : v # u => turn[v].op = "idle"
  BY <1>1 DEF PoolInv, SteadyInv, RewriteOK, Rewrites
<1>6. steady => \A v \in Users : v # u => (RewriteOK(v) /\ TopUpOK(v) /\ CountOK(v))'
  BY <1>1, <1>5 DEF RewriteOK, TopUpOK, CountOK, Rewrites, Counts
<1>7. /\ steady => n >= Unlimited
      /\ CreditsBalance'
  <2> SUFFICES ASSUME steady PROVE n >= Unlimited /\ CreditsBalance'
    BY <1>1 DEF CreditsBalance
  <2>1. TierCredits \in Nat /\ TierCap("PRO") = TierCredits /\ TierCap("CUSTOM") = Unlimited
    BY PoolAssumption DEF TierCap
  <2>2. CASE t = "CUSTOM"
    BY <1>2, <1>5, <2>1, <2>2 DEF CreditsBalance, Renewed
  <2>3. CASE t = "PRO" /\ pool.credits = Unlimited
    <3>1. n = TierCredits /\ bought' = TierCredits /\ spent' = 0
      BY <1>1, <1>5, <2>1, <2>3 DEF Renewed
    <3>2. QED
      BY <1>2, <2>1, <3>1 DEF CreditsBalance
  <2>4. CASE t = "PRO" /\ pool.credits # Unlimited
    <3>1. /\ n = TierCredits + Unused /\ bought' = bought + TierCredits
          /\ spent' = spent
      BY <1>1, <1>5, <2>1, <2>4 DEF Renewed
    <3>2. /\ pool.credits - pool.used >= bought - spent
          /\ apart => /\ pool.credits - pool.used = bought - spent
                      /\ 0 <= pool.used /\ pool.used <= pool.credits
      BY <2>4 DEF PoolInv, CreditsBalance
    <3>3. /\ Unused \in Nat /\ Unused >= bought - spent
          /\ apart => Unused = bought - spent
      BY <1>1, <1>2, <3>2 DEF Unused
    <3>4. QED
      BY <1>1, <1>2, <2>1, <3>1, <3>3 DEF CreditsBalance
  <2>5. QED
    BY <1>5, <2>2, <2>3, <2>4
<1>8. Told(u)
  BY DEF PaidWrite
<1>9. QED
  BY <1>1, <1>2, <1>3, <1>4, <1>6, <1>7, <1>8, ToldKeeps

\* A link is alone; it keeps the credits or the balance is given up.
LEMMA LinkWriteKeeps ==
  ASSUME PoolInv, NEW u \in Users, LinkWrite(u)
  PROVE  PoolInv'
<1>1. /\ turn \in [Users -> Turn] /\ turn' = [turn EXCEPT ![u] = NoTurn]
      /\ apart' = apart /\ turn[u].op = "link" /\ charged' \in Nat
      /\ spent' = spent /\ bought' = bought /\ spent \in Int /\ bought \in Int
      /\ turn[u].tier \in CreditTiers /\ turn[u].amount \in Int
      /\ steady' \in BOOLEAN /\ (steady' => steady)
  BY DEF LinkWrite, Told, PoolInv, PoolTypeOK, Turn
<1>2. pool' \in Pool
  BY <1>1 DEF LinkWrite, PoolInv, PoolTypeOK, Pool
<1>3. steady' => pool'.credits = pool.credits /\ pool'.used = pool.used
  BY DEF LinkWrite, PoolInv, PoolTypeOK, Pool
<1>4. steady' => \A v \in Users : v # u => turn[v].op = "idle"
  BY <1>1 DEF PoolInv, SteadyInv, RewriteOK, Rewrites
<1>5. steady' => \A v \in Users : v # u => (RewriteOK(v) /\ TopUpOK(v) /\ CountOK(v))'
  BY <1>1, <1>4 DEF RewriteOK, TopUpOK, CountOK, Rewrites, Counts
<1>6. CreditsBalance'
  BY <1>1, <1>3 DEF PoolInv, CreditsBalance
<1>7. steady' => pool'.credits >= Unlimited
  BY <1>1, <1>3 DEF PoolInv, SteadyInv
<1>8. steady' /\ apart => pool'.used >= 0
  BY <1>1, <1>3 DEF PoolInv, SteadyInv
<1>9. Told(u)
  BY DEF LinkWrite
<1>10. /\ steady' => \A v \in Users : v # u => (RewriteOK(v) /\ TopUpOK(v))'
       /\ steady' /\ apart => \A v \in Users : v # u => CountOK(v)'
  BY <1>5
<1>11. QED
  BY <1>1, <1>2, <1>6, <1>7, <1>8, <1>9, <1>10, ToldKeeps

LEMMA QuitKeeps ==
  ASSUME PoolInv, NEW u \in Users, Quit(u)
  PROVE  PoolInv'
<1>1. /\ turn \in [Users -> Turn] /\ turn' = [turn EXCEPT ![u] = NoTurn]
      /\ apart' = apart /\ pool' = pool /\ charged' = charged
      /\ bought' = bought /\ spent' = spent /\ steady' = steady
      /\ PoolTypeOK /\ CreditsBalance /\ Told(u)
  BY DEF Quit, Told, PoolInv, PoolTypeOK
<1>2. steady => /\ pool.credits >= Unlimited
                /\ \A v \in Users : v # u => (RewriteOK(v) /\ TopUpOK(v))'
  BY <1>1, NoTurnTyped
  DEF PoolInv, SteadyInv, RewriteOK, TopUpOK, Rewrites, Renewed, Unused
<1>3. steady /\ apart => /\ pool.used >= 0
                         /\ \A v \in Users : v # u => CountOK(v)'
  BY <1>1, NoTurnTyped DEF PoolInv, SteadyInv, CountOK, Counts
<1>4. CreditsBalance'
  BY <1>1 DEF CreditsBalance
<1>5. QED
  BY <1>1, <1>2, <1>3, <1>4, ToldKeeps DEF PoolTypeOK

\* What no handler has read: the end of the period, a downgrade, plans.
LEMMA LapseKeeps ==
  ASSUME PoolInv, Lapse
  PROVE  PoolInv'
<1>1. pool' \in Pool /\ pool'.credits = pool.credits /\ pool'.used = pool.used
  BY DEF Lapse, PoolInv, PoolTypeOK, Pool
<1>2. QED
  BY <1>1 DEF Lapse, PoolInv, PoolTypeOK, SteadyInv, RewriteOK, TopUpOK, CountOK,
              Renewed, Unused, CreditsBalance

LEMMA ToFreeKeeps ==
  ASSUME PoolInv, ToFree
  PROVE  PoolInv'
<1>1. PICK plan \in {"FREE", pool.plan} :
        pool' = [pool EXCEPT !.tier = "FREE", !.credits = 0, !.used = 0, !.plan = plan]
  BY DEF ToFree
<1>2. pool' \in Pool /\ pool'.credits = 0 /\ pool'.used = 0
  <2> DEFINE p == [pool EXCEPT !.tier = "FREE"]
             q == [p EXCEPT !.credits = 0]
             r == [q EXCEPT !.used = 0]
  <2>1. pool \in Pool /\ plan \in CreditTiers \cup {"none"}
    BY DEF PoolInv, PoolTypeOK, Pool, CreditTiers
  <2>2. p \in Pool
    BY <2>1, PoolPut DEF CreditTiers
  <2>3. q \in Pool /\ q.credits = 0
    <3> HIDE DEF p
    <3>1. QED
      BY <2>2, PoolPut
  <2>4. r \in Pool /\ r.credits = 0 /\ r.used = 0
    <3> HIDE DEF q
    <3>1. QED
      BY <2>3, PoolPut
  <2>5. pool' = [r EXCEPT !.plan = plan]
    BY <1>1
  <2>6. QED
    <3> HIDE DEF r
    <3>1. QED
      BY <2>1, <2>4, <2>5, PoolPut
<1>3. /\ turn' = turn /\ apart' = apart /\ bought' = 0 /\ spent' = 0
      /\ steady' \in BOOLEAN
      /\ steady' => \A u \in Users : turn[u].op = "idle"
  BY DEF ToFree, AtOnce, Alone
<1>4. PoolTypeOK'
  BY <1>2, <1>3, PoolAssumption DEF ToFree, AtOnce, PoolInv, PoolTypeOK
<1>5. SteadyInv'
  BY <1>2, <1>3 DEF SteadyInv, RewriteOK, TopUpOK, CountOK, Rewrites, Counts
<1>6. CreditsBalance'
  BY <1>2, <1>3 DEF CreditsBalance
<1>7. QED
  BY <1>4, <1>5, <1>6 DEF PoolInv

LEMMA EditPlanKeeps ==
  ASSUME PoolInv, EditPlan
  PROVE  PoolInv'
<1>1. pool' \in Pool
  BY PoolAssumption DEF EditPlan, PoolInv, PoolTypeOK, Pool
<1>2. turns' \in 0 .. MaxTurns /\ steady' \in BOOLEAN
  <2>1. steady' \in BOOLEAN
    BY DEF EditPlan
  <2>2. turns' = turns + 1 /\ turns < MaxTurns /\ turns \in 0 .. MaxTurns
    BY DEF EditPlan, AtOnce, PoolInv, PoolTypeOK
  <2>3. QED
    BY <2>1, <2>2, PoolAssumption
<1>3. PoolTypeOK'
  BY <1>1, <1>2 DEF EditPlan, AtOnce, PoolInv, PoolTypeOK
<1>4. QED
  BY <1>3 DEF EditPlan, PoolInv, SteadyInv, CreditsBalance

LEMMA DeletePlanKeeps ==
  ASSUME PoolInv, DeletePlan
  PROVE  PoolInv'
<1>1. pool' \in Pool /\ pool'.credits = pool.credits /\ pool'.used = pool.used
  BY DEF DeletePlan, PoolInv, PoolTypeOK, Pool
<1>2. PoolTypeOK'
  BY <1>1, PoolAssumption DEF DeletePlan, AtOnce, PoolInv, PoolTypeOK
<1>3. QED
  BY <1>1, <1>2 DEF DeletePlan, AtOnce, PoolInv, SteadyInv, RewriteOK, TopUpOK, CountOK,
                    Renewed, Unused, CreditsBalance

LEMMA UseFreeKeeps ==
  ASSUME PoolInv, NEW u \in Users, UseFree(u)
  PROVE  PoolInv'
<1>1. PoolTypeOK'
  BY PoolAssumption DEF UseFree, PoolInv, PoolTypeOK
<1>2. QED
  BY <1>1 DEF UseFree, PoolInv, SteadyInv, RewriteOK, TopUpOK, CountOK,
              Renewed, Unused, CreditsBalance

\* The reads.
LEMMA ReadKeeps ==
  ASSUME PoolInv, NEW u \in Users,
         \/ UseRead(u) \/ RefundRead(u) \/ TopUpRead(u) \/ PaidRead(u) \/ LinkRead(u)
  PROVE  PoolInv'
<1>1. /\ pool.used \in Int /\ pool.credits \in Int /\ pool.tier \in CreditTiers
      /\ charged \in Nat /\ PoolTypeOK
  BY DEF PoolInv, PoolTypeOK, Pool
<1>2. Cost \in Nat /\ TopUp \in Nat
  BY PoolAssumption
<1>3. \A op \in TurnOps, n \in Int :
        /\ [NoTurn EXCEPT !.op = op, !.amount = n] \in Turn
        /\ [NoTurn EXCEPT !.op = op, !.amount = n].op = op
        /\ [NoTurn EXCEPT !.op = op, !.amount = n].amount = n
  BY DEF NoTurn, Turn, CreditTiers
<1>4. CASE UseRead(u)
  <2> DEFINE t == [NoTurn EXCEPT !.op = "use", !.amount = Cost]
  <2>1. t \in Turn /\ t.op = "use" /\ t.amount = Cost
    <3>1. "use" \in TurnOps /\ Cost \in Int
      BY <1>2 DEF TurnOps
    <3>2. QED
      BY <3>1, <1>3, Zenon
  <2>2. Ask(u, t) /\ charged' \in Nat /\ pool.credits # Unlimited
        /\ pool.used + Cost <= pool.credits
    BY <1>1, <1>2, <1>4 DEF UseRead, Affordable
  <2>3. QED
    <3> HIDE DEF t
    <3>1. QED
      BY <1>2, <2>1, <2>2, AskKeeps
<1>5. CASE RefundRead(u)
  <2> DEFINE n == IF pool.used < Cost THEN pool.used ELSE Cost
             t == [NoTurn EXCEPT !.op = "refund", !.amount = n]
  <2>1. n \in Int /\ (pool.used >= 0 => n \in 0 .. pool.used)
    BY <1>1, <1>2
  <2>2. t \in Turn /\ t.op = "refund" /\ t.amount = n
    BY <2>1, <1>3 DEF TurnOps
  <2>3. Ask(u, t) /\ charged' \in Nat
    BY <1>1, <1>5 DEF RefundRead
  <2>4. QED
    <3> HIDE DEF t, n
    <3>1. QED
      BY <2>1, <2>2, <2>3, AskKeeps
<1>6. CASE TopUpRead(u)
  <2> DEFINE t == [NoTurn EXCEPT !.op = "topUp", !.amount = TopUp]
  <2>1. t \in Turn /\ t.op = "topUp" /\ t.amount = TopUp
    <3>1. "topUp" \in TurnOps /\ TopUp \in Int
      BY <1>2 DEF TurnOps
    <3>2. QED
      BY <3>1, <1>3, Zenon
  <2>2. Ask(u, t) /\ charged' \in Nat /\ pool.credits # Unlimited
    BY <1>1, <1>6 DEF TopUpRead
  <2>3. QED
    <3> HIDE DEF t
    <3>1. QED
      BY <1>2, <2>1, <2>2, AskKeeps
<1>7. CASE PaidRead(u)
  <2>1. PICK level \in {"PRO", "CUSTOM"} :
          Ask(u, [op |-> "renew", tier |-> level, amount |-> Renewed(level)])
    BY <1>7 DEF PaidRead
  <2> DEFINE t == [op |-> "renew", tier |-> level, amount |-> Renewed(level)]
  <2>2. /\ t \in Turn /\ t.op = "renew" /\ t.tier = level /\ t.amount = Renewed(level)
    BY <1>1, RenewedTyped DEF Turn, TurnOps, CreditTiers
  <2>3. charged' \in Nat
    BY <1>1, <1>7 DEF PaidRead
  <2>4. Ask(u, t)
    BY <2>1
  <2>5. QED
    <3> HIDE DEF t
    <3>1. QED
      BY <2>2, <2>3, <2>4, AskKeeps
<1>8. CASE LinkRead(u)
  <2>1. PICK n \in PlanCredits \cup {TierCap(pool.tier)} :
          Ask(u, [op |-> "link", tier |-> pool.tier, amount |-> n])
    BY <1>8 DEF LinkRead
  <2> DEFINE t == [op |-> "link", tier |-> pool.tier, amount |-> n]
  <2>2. t \in Turn /\ t.op = "link"
    BY <1>1, CapTyped, PoolAssumption DEF Turn, TurnOps
  <2>3. charged' \in Nat
    BY <1>1, <1>8 DEF LinkRead
  <2>4. Ask(u, t)
    BY <2>1
  <2>5. QED
    <3> HIDE DEF t
    <3>1. QED
      BY <2>2, <2>3, <2>4, AskKeeps
<1>9. QED
  BY <1>4, <1>5, <1>6, <1>7, <1>8

LEMMA PoolStep == PoolInv /\ [PoolNext]_poolVars => PoolInv'
<1> SUFFICES ASSUME PoolInv, [PoolNext]_poolVars PROVE PoolInv'
  OBVIOUS
<1>1. CASE UNCHANGED poolVars
  BY <1>1 DEF poolVars, PoolInv, PoolTypeOK, SteadyInv, RewriteOK, TopUpOK, CountOK,
              Renewed, Unused, CreditsBalance
<1>2. ASSUME NEW u \in Users, ServeUser(u) PROVE PoolInv'
  BY <1>2, UseFreeKeeps, ReadKeeps, UseWriteKeeps, RefundWriteKeeps, TopUpWriteKeeps,
     PaidWriteKeeps, LinkWriteKeeps, QuitKeeps
  DEF ServeUser
<1>3. QED
  BY <1>1, <1>2, LapseKeeps, ToFreeKeeps, EditPlanKeeps, DeletePlanKeeps DEF PoolNext

LEMMA PoolInvariant == PoolSpec => []PoolInv
  BY PoolInitially, PoolStep, PTL DEF PoolSpec

\* The types, for any number of users and requests.
THEOREM PoolTyped == PoolSpec => []PoolTypeOK
<1>1. PoolInv => PoolTypeOK
  BY DEF PoolInv
<1>2. QED
  BY <1>1, PoolInvariant, PTL

\* Credits that were bought are used or still there, whatever the interleaving.
THEOREM CreditsKept == PoolSpec => []CreditsBalance
<1>1. PoolInv => CreditsBalance
  BY DEF PoolInv
<1>2. QED
  BY <1>1, PoolInvariant, PTL
=============================================================================
