-------------------------- MODULE Classroom_proofs --------------------------
(***************************************************************************)
(* Proofs about the classroom: Assessments, Timetable and SchemeGeneration,*)
(* for any callers, papers and clock, any arms, teachers, rooms and        *)
(* bookings, and any schemes, costs, attempts and requests.                *)
(***************************************************************************)
EXTENDS Assessments, Timetable, SchemeGeneration, FiniteSetTheorems, TLAPS
-----------------------------------------------------------------------------
(***************************************************************************)
(* Assessments: the types, that the clock of a timed paper is started once,*)
(* that no points are taken without a violation on record, and that what is*)
(* handed in stays so.                                                     *)
(***************************************************************************)

\* The points that n violations cost.
Beyond(n) == IF n > Threshold THEN n - Threshold ELSE 0
Owed(n) == paper.perViolation * Beyond(n)

\* What a request in flight has read stays true of the tables.
Fits(q) ==
  /\ q.op = "stamp" => ~paper.timed
  /\ q.op = "hand" /\ q.seen.status = "none" => ~paper.timed
  /\ exists /\ q.op \in {"stamp", "log", "count", "mark"} => sub.status # "none"
  /\ exists /\ q.op = "hand" /\ q.seen.status # "none" => sub.status # "none"
  /\ exists /\ q.op \in {"log", "count"} => q.seen.deducted = Owed(q.seen.count)
  /\ exists /\ q.op = "log" => q.seen.count <= violations
  /\ exists /\ q.op = "count" => q.seen.count + 1 <= violations

\* The submission carries the deduction that its own count of violations costs.
SubOK ==
  /\ sub.status = "none" => sub = NoSub
  /\ paper.timed /\ sub.status # "none" => sub.startedAt # Never
  /\ sub.deducted = Owed(sub.count)
  /\ sub.count <= violations

\* The inductive invariant.
IInv == PaperTypeOK /\ SubOK /\ \A c \in Callers : Fits(call[c])
-----------------------------------------------------------------------------
LEMMA MoreCostMore ==
  ASSUME NEW p \in Nat, NEW a \in Nat, NEW b \in Nat, a <= b
  PROVE  p * a <= p * b
<1>1. PICK k \in Nat : b = a + k
  <2>1. b - a \in Nat /\ b = a + (b - a)
    OBVIOUS
  <2>2. QED
    BY <2>1
<1>2. p * b = p * a + p * k
  BY <1>1
<1>3. p * k \in Nat /\ p * a \in Nat
  BY <1>1
<1>4. QED
  BY <1>2, <1>3

LEMMA PaperTyped ==
  ASSUME PaperTypeOK
  PROVE  /\ paper.perViolation \in Nat /\ Threshold \in Nat
         /\ paper.duePenalty \in Nat /\ paper.timerPenalty \in Nat
         /\ paper.timed \in BOOLEAN
         /\ \A n \in Nat : Beyond(n) \in Nat /\ Owed(n) \in Nat
<1>1. paper \in Paper
  BY PaperAssumption DEF PaperTypeOK
<1>2. /\ paper.perViolation \in Nat /\ Threshold \in Nat
      /\ paper.duePenalty \in Nat /\ paper.timerPenalty \in Nat
      /\ paper.timed \in BOOLEAN
  BY <1>1 DEF Paper, Threshold
<1>3. ASSUME NEW n \in Nat PROVE Beyond(n) \in Nat /\ Owed(n) \in Nat
  <2>1. Beyond(n) \in Nat
    BY <1>2 DEF Beyond
  <2>2. QED
    BY <1>2, <2>1 DEF Owed
<1>4. QED
  BY <1>2, <1>3

\* The deduction is written together with the count it belongs to.
LEMMA OneMore ==
  ASSUME PaperTypeOK, NEW n \in Nat
  PROVE  Deducted(n + 1, Owed(n)) = Owed(n + 1)
<1> DEFINE p == paper.perViolation
<1>1. p \in Nat /\ Threshold \in Nat /\ Beyond(n) \in Nat /\ Beyond(n + 1) \in Nat
  BY PaperTyped
<1>2. CASE n + 1 > Threshold
  <2>1. Beyond(n + 1) = Beyond(n) + 1
    BY <1>1, <1>2 DEF Beyond
  <2>2. p * (Beyond(n) + 1) = p * Beyond(n) + p
    BY <1>1
  <2>3. QED
    BY <1>2, <2>1, <2>2 DEF Deducted, Owed
<1>3. CASE ~(n + 1 > Threshold)
  BY <1>1, <1>3 DEF Deducted, Owed, Beyond
<1>4. QED
  BY <1>2, <1>3

LEMMA NoSubTyped == NoSub \in Submission /\ NoCall \in Call
<1>1. NoSub \in Submission
  BY PaperAssumption DEF NoSub, Submission, Status, Never
<1>2. QED
  BY <1>1 DEF NoCall, Call, CallOps

LEMMA PaperInitially == PaperInit => IInv
<1> SUFFICES ASSUME PaperInit PROVE IInv
  OBVIOUS
<1>1. PaperTypeOK
  BY NoSubTyped, PaperAssumption DEF PaperInit, PaperTypeOK, NoGrade
<1>2. Beyond(0) = 0 /\ Owed(0) = 0
  BY <1>1, PaperTyped DEF Beyond, Owed
<1>3. QED
  BY <1>1, <1>2, NoSubTyped DEF PaperInit, IInv, SubOK, Fits, NoSub, NoCall
-----------------------------------------------------------------------------
\* A step of the request of c, which goes on as q.  What the others have read
\* stays true as long as no violation and no submission is taken back.
LEMMA StepOf ==
  ASSUME IInv, NEW c \in Callers, NEW q \in Call,
         call' = [call EXCEPT ![c] = q], Fits(q)',
         paper' = paper, exists' = exists,
         violations' \in Nat, violations <= violations',
         sub' \in Submission, sub.status # "none" => sub'.status # "none",
         gradebook' \in [1 .. Years -> Int], enrolled' = enrolled, clock' = clock,
         calls' \in Nat, lone' \in BOOLEAN, SubOK'
  PROVE  IInv'
<1>1. PaperTypeOK'
  BY DEF IInv, PaperTypeOK
<1>2. ASSUME NEW d \in Callers PROVE Fits(call[d])'
  <2>1. CASE d = c
    BY <2>1 DEF IInv, PaperTypeOK
  <2>2. CASE d # c
    <3>1. call'[d] = call[d] /\ call[d] \in Call /\ Fits(call[d])
      BY <2>2 DEF IInv, PaperTypeOK
    <3>2. call[d].seen.count \in Nat
      BY <3>1 DEF Call, Submission
    <3>3. Owed(call[d].seen.count)' = Owed(call[d].seen.count)
      BY <3>1 DEF Owed, Beyond, Threshold
    <3>4. violations \in Nat
      BY DEF IInv, PaperTypeOK
    <3>5. QED
      BY <3>1, <3>2, <3>3, <3>4 DEF Fits
  <2>3. QED
    BY <2>1, <2>2
<1>3. QED
  BY <1>1, <1>2 DEF IInv

\* A new request.
LEMMA TakeKeeps ==
  ASSUME IInv, NEW c \in Callers, NEW q \in Call, Take(c, q), Fits(q)
  PROVE  IInv'
<1>1. /\ call' = [call EXCEPT ![c] = q] /\ paper' = paper /\ exists' = exists
      /\ violations' = violations /\ sub' = sub /\ gradebook' = gradebook
      /\ enrolled' = enrolled /\ clock' = clock /\ calls' = calls + 1
      /\ lone' \in BOOLEAN
  BY DEF Take, IInv, PaperTypeOK
<1>2. Fits(q)' /\ SubOK'
  BY <1>1 DEF IInv, Fits, SubOK, Owed, Beyond, Threshold
<1>3. /\ exists' = exists
      /\ violations' \in Nat /\ violations <= violations'
      /\ sub' \in Submission /\ gradebook' \in [1 .. Years -> Int]
      /\ calls' \in Nat
  BY <1>1 DEF IInv, PaperTypeOK
<1>4. QED
  BY <1>1, <1>2, <1>3, StepOf

\* A request that ends, after writing the submission or not.
LEMMA EndKeeps ==
  ASSUME IInv, NEW c \in Callers, End(c), Others,
         sub' \in Submission, sub.status # "none" => sub'.status # "none", SubOK'
  PROVE  IInv'
<1>1. Fits(NoCall)'
  BY DEF Fits, NoCall
<1>2. /\ call' = [call EXCEPT ![c] = NoCall] /\ paper' = paper
      /\ exists' = exists
      /\ violations' \in Nat /\ violations <= violations'
      /\ gradebook' \in [1 .. Years -> Int]
      /\ enrolled' = enrolled /\ clock' = clock
      /\ calls' \in Nat /\ lone' \in BOOLEAN
  BY DEF End, Others, IInv, PaperTypeOK
<1>3. QED
  BY <1>1, <1>2, NoSubTyped, StepOf

LEMMA RefusedKeeps ==
  ASSUME IInv, NEW c \in Callers, Refused(c)
  PROVE  IInv'
BY EndKeeps DEF Refused, Others, IInv, PaperTypeOK, SubOK, Owed, Beyond, Threshold
-----------------------------------------------------------------------------
(* One lemma for the steps of each handler.                                 *)

LEMMA StartKeeps ==
  ASSUME IInv, NEW c \in Callers, StartRead(c) \/ StartUpsert(c) \/ StartStamp(c)
  PROVE  IInv'
<1> USE PaperTyped
<1>0. sub \in Submission /\ clock \in Nat /\ clock # Never /\ SubOK
  BY DEF IInv, PaperTypeOK, Never
<1>1. CASE StartRead(c)
  <2> DEFINE q == [NoCall EXCEPT !.op = "upsert", !.seen = sub]
  <2>1. q \in Call /\ Fits(q)
    BY <1>0, NoSubTyped DEF Call, CallOps, Fits
  <2>2. QED
    BY <1>1, <2>1, TakeKeeps DEF StartRead
<1>2. CASE StartUpsert(c)
  <2>1. CASE ~exists
    BY <1>2, <2>1, RefusedKeeps DEF StartUpsert
  <2>2. CASE exists
    <3>1. /\ Others
          /\ sub' = IF sub.status = "none"
                    THEN [NoSub EXCEPT !.status = "STARTED", !.startedAt = clock]
                    ELSE [sub EXCEPT !.startedAt = sub.startedAt]
          /\ IF sub'.startedAt = Never THEN Resume(c, "stamp") ELSE End(c)
      BY <1>2, <2>2 DEF StartUpsert, StartKept
    <3>2. sub' \in Submission /\ sub'.status # "none"
      BY <3>1, <1>0, NoSubTyped DEF Submission, Status, NoSub
    <3>3. /\ sub'.count = sub.count /\ sub'.deducted = sub.deducted
          /\ sub.status # "none" => sub'.startedAt = sub.startedAt
          /\ sub.status = "none" => sub'.startedAt = clock
      BY <3>1, <1>0, NoSubTyped DEF Submission, SubOK, NoSub
    <3>4. SubOK'
      BY <3>1, <3>2, <3>3, <1>0 DEF SubOK, Others, Owed, Beyond, Threshold
    <3>5. CASE sub'.startedAt # Never
      BY <3>1, <3>2, <3>4, <3>5, EndKeeps
    <3>6. CASE sub'.startedAt = Never
      <4>0. PICK q \in Call : q = [call[c] EXCEPT !.op = "stamp"]
        BY DEF IInv, PaperTypeOK, Call, CallOps
      <4>1. call' = [call EXCEPT ![c] = q] /\ q.op = "stamp"
        BY <3>1, <3>6, <4>0 DEF Resume, IInv, PaperTypeOK, Call, CallOps
      <4>2. ~paper.timed
        BY <3>3, <3>6, <1>0 DEF SubOK
      <4>3. Fits(q)'
        BY <4>1, <4>2, <3>1, <3>2 DEF Fits, Others
      <4>4. /\ paper' = paper /\ exists' = exists
            /\ violations' \in Nat /\ violations <= violations'
            /\ gradebook' \in [1 .. Years -> Int]
            /\ enrolled' = enrolled /\ clock' = clock
            /\ calls' \in Nat /\ lone' \in BOOLEAN
        BY <3>1 DEF Others, IInv, PaperTypeOK
      <4>5. QED
        BY <4>1, <4>3, <4>4, <3>2, <3>4, StepOf
    <3>7. QED
      BY <3>5, <3>6
  <2>3. QED
    BY <2>1, <2>2 DEF IInv, PaperTypeOK
<1>3. CASE StartStamp(c)
  <2>1. CASE ~exists
    BY <1>3, <2>1, RefusedKeeps DEF StartStamp
  <2>2. CASE exists
    <3>1. /\ Others /\ End(c) /\ sub' = [sub EXCEPT !.startedAt = clock]
          /\ call[c].op = "stamp" /\ Fits(call[c])
      BY <1>3, <2>2 DEF StartStamp, IInv
    <3>2. /\ sub' \in Submission /\ sub'.status = sub.status /\ sub.status # "none"
          /\ sub'.count = sub.count /\ sub'.deducted = sub.deducted
          /\ sub'.startedAt = clock
      BY <3>1, <2>2, <1>0 DEF Submission, Fits
    <3>3. SubOK'
      BY <3>1, <3>2, <1>0 DEF SubOK, Others, Owed, Beyond, Threshold
    <3>4. QED
      BY <3>1, <3>2, <3>3, EndKeeps
  <2>3. QED
    BY <2>1, <2>2 DEF IInv, PaperTypeOK
<1>4. QED
  BY <1>1, <1>2, <1>3

LEMMA LogKeeps ==
  ASSUME IInv, NEW c \in Callers, LogRead(c) \/ LogInsert(c) \/ LogWrite(c)
  PROVE  IInv'
<1>0. /\ sub \in Submission /\ SubOK /\ violations \in Nat /\ sub.count \in Nat
      /\ call[c] \in Call /\ Fits(call[c]) /\ call[c].seen \in Submission
      /\ call[c].seen.count \in Nat /\ exists \in BOOLEAN
  BY DEF IInv, PaperTypeOK, Submission, Call
<1>1. CASE LogRead(c)
  <2> DEFINE q == [NoCall EXCEPT !.op = "log", !.seen = sub]
  <2>1. q \in Call /\ q.op = "log" /\ q.seen = sub
    BY <1>0, NoSubTyped DEF Call, CallOps
  <2>2. Fits(q)
    BY <1>0, <1>1, <2>1 DEF LogRead, Fits, SubOK
  <2>3. QED
    BY <1>1, <2>1, <2>2, TakeKeeps DEF LogRead
<1>2. CASE LogInsert(c)
  <2>1. CASE ~exists
    BY <1>2, <2>1, RefusedKeeps DEF LogInsert
  <2>2. CASE exists
    <3>0. PICK q \in Call : q = [call[c] EXCEPT !.op = "count"]
      BY <1>0 DEF Call, CallOps
    <3>1. /\ violations' = violations + 1 /\ call' = [call EXCEPT ![c] = q]
          /\ UNCHANGED <<paper, exists, sub, gradebook, enrolled, clock, calls, lone>>
          /\ call[c].op = "log"
      BY <1>2, <2>2, <3>0 DEF LogInsert, Resume
    <3>2. q.op = "count" /\ q.seen = call[c].seen
      BY <1>0, <3>0 DEF Call, CallOps
    <3>3. Fits(q)'
      <4>1. /\ sub.status # "none" /\ q.seen.deducted = Owed(q.seen.count)
            /\ q.seen.count <= violations
        BY <1>0, <2>2, <3>1, <3>2 DEF Fits
      <4>2. Owed(q.seen.count)' = Owed(q.seen.count)
        BY <3>1 DEF Owed, Beyond, Threshold
      <4>3. q.seen.count + 1 <= violations'
        BY <1>0, <3>1, <3>2, <4>1
      <4>4. QED
        BY <3>1, <3>2, <4>1, <4>2, <4>3 DEF Fits
    <3>4. SubOK'
      BY <1>0, <3>1 DEF SubOK, Owed, Beyond, Threshold
    <3>5. /\ violations' \in Nat /\ violations <= violations'
          /\ sub' \in Submission /\ gradebook' \in [1 .. Years -> Int]
          /\ calls' \in Nat /\ lone' \in BOOLEAN
      BY <1>0, <3>1 DEF IInv, PaperTypeOK
    <3>6. QED
      BY <2>2, <3>1, <3>2, <3>3, <3>4, <3>5, StepOf
  <2>3. QED
    BY <1>0, <2>1, <2>2
<1>3. CASE LogWrite(c)
  <2>1. CASE ~exists
    BY <1>3, <2>1, RefusedKeeps DEF LogWrite
  <2>2. CASE exists
    <3>0. PICK n \in Nat : n = call[c].seen.count
      BY <1>0
    <3>1. /\ Others /\ End(c) /\ call[c].op = "count"
          /\ sub' = [sub EXCEPT !.count = n + 1,
                                !.deducted = Deducted(n + 1, call[c].seen.deducted)]
      BY <1>3, <2>2, <3>0 DEF LogWrite
    <3>2. /\ call[c].seen.deducted = Owed(n) /\ n + 1 <= violations
          /\ sub.status # "none"
      BY <1>0, <2>2, <3>0, <3>1 DEF Fits
    <3>4. Deducted(n + 1, Owed(n)) = Owed(n + 1) /\ Owed(n + 1) \in Nat
      BY OneMore, PaperTyped DEF IInv
    <3>5. sub' = [sub EXCEPT !.count = n + 1, !.deducted = Owed(n + 1)]
      BY <3>1, <3>2, <3>4
    <3>6. /\ sub' \in Submission /\ sub'.count = n + 1 /\ sub'.deducted = Owed(n + 1)
          /\ sub'.status = sub.status /\ sub'.startedAt = sub.startedAt
      <4>1. PICK m \in Nat : m = Owed(n + 1)
        BY <3>4
      <4>2. sub' = [sub EXCEPT !.count = n + 1, !.deducted = m] /\ n + 1 \in Nat
        BY <3>5, <4>1
      <4>3. QED
        BY <1>0, <4>1, <4>2 DEF Submission
    <3>7. Owed(n + 1)' = Owed(n + 1)
      BY <3>1 DEF Others, Owed, Beyond, Threshold
    <3>8. n + 1 <= violations'
      BY <3>1, <3>2 DEF Others
    <3>9. SubOK'
      <4>1. sub'.deducted = Owed(n + 1)'
        BY <3>6, <3>7
      <4>2. QED
        BY <1>0, <3>1, <3>2, <3>6, <3>8, <4>1 DEF SubOK, Others
    <3>10. QED
      BY <3>1, <3>2, <3>6, <3>9, EndKeeps
  <2>3. QED
    BY <1>0, <2>1, <2>2
<1>4. QED
  BY <1>1, <1>2, <1>3

LEMMA HandInKeeps ==
  ASSUME IInv, NEW c \in Callers, HandInRead(c) \/ HandInTx(c)
  PROVE  IInv'
<1>0. /\ sub \in Submission /\ SubOK /\ exists \in BOOLEAN
      /\ call[c] \in Call /\ Fits(call[c])
      /\ paper.duePenalty \in Nat /\ paper.timerPenalty \in Nat
  BY PaperTyped DEF IInv, PaperTypeOK
<1>1. CASE HandInRead(c)
  <2>1. PICK due \in Nat, timer \in Nat :
          /\ due = IF PastDue THEN paper.duePenalty ELSE 0
          /\ timer = IF Expired THEN paper.timerPenalty ELSE 0
    BY <1>0
  <2> DEFINE q == [NoCall EXCEPT !.op = "hand", !.seen = sub,
                                 !.dueCut = due, !.timerCut = timer]
  <2>2. q \in Call /\ q.op = "hand" /\ q.seen = sub
    BY <1>0, NoSubTyped DEF Call, CallOps
  <2>3. paper.timed => sub.status # "none"
    BY <1>0, <1>1, NoSubTyped DEF HandInRead, SubOK, NoSub, Never
  <2>4. Fits(q)
    BY <2>2, <2>3 DEF Fits
  <2>5. Take(c, q)
    BY <1>1, <2>1 DEF HandInRead
  <2>6. QED
    BY <2>2, <2>4, <2>5, TakeKeeps
<1>2. CASE HandInTx(c)
  <2>1. CASE Refused(c)
    BY <2>1, RefusedKeeps
  <2>2. CASE ~Refused(c)
    <3>1. /\ exists /\ End(c) /\ Others /\ call[c].op = "hand"
          /\ call[c].seen.status = "none" => sub.status = "none"
      BY <1>0, <1>2, <2>2 DEF HandInTx
    <3>2. PICK old \in {NoSub, sub}, marks \in Scores :
            /\ old = IF call[c].seen.status = "none" THEN NoSub ELSE sub
            /\ sub' = [old EXCEPT
                 !.status = "SUBMITTED", !.marks = marks, !.total = marks,
                 !.dueCut = call[c].dueCut, !.timerCut = call[c].timerCut]
      BY <1>2, <2>2 DEF HandInTx
    <3>3. old = sub
      BY <3>1, <3>2, <1>0 DEF SubOK
    <3>4. call[c].dueCut \in Nat /\ call[c].timerCut \in Nat /\ marks \in Int
      BY <1>0, PaperAssumption DEF Call
    <3>5. /\ sub' \in Submission /\ sub'.status = "SUBMITTED"
          /\ sub'.count = sub.count /\ sub'.deducted = sub.deducted
          /\ sub'.startedAt = sub.startedAt
      BY <1>0, <3>2, <3>3, <3>4 DEF Submission, Status
    <3>6. paper.timed => sub.status # "none"
      BY <1>0, <3>1 DEF Fits
    <3>7. SubOK'
      BY <1>0, <3>1, <3>5, <3>6 DEF SubOK, Others, Owed, Beyond, Threshold
    <3>8. QED
      BY <3>1, <3>5, <3>7, EndKeeps
  <2>3. QED
    BY <2>1, <2>2
<1>3. QED
  BY <1>1, <1>2

\* What a transaction of gradeSubmission leaves.
LEMMA Graded ==
  ASSUME IInv, NEW c \in Callers, GradeTx(c), ~Refused(c)
  PROVE  /\ exists /\ End(c) /\ call[c].op = "mark"
         /\ UNCHANGED <<paper, exists, violations, enrolled, clock, calls, lone>>
         /\ sub' \in Submission /\ sub'.status = "GRADED"
         /\ sub'.count = sub.count /\ sub'.deducted = sub.deducted
         /\ sub'.startedAt = sub.startedAt
         /\ gradebook' \in [1 .. Years -> Int]
<1>0. /\ sub \in Submission /\ call[c] \in Call /\ call[c].seen \in Submission
      /\ exists \in BOOLEAN /\ gradebook \in [1 .. Years -> Int]
  BY DEF IInv, PaperTypeOK, Call
<1>1. exists /\ End(c) /\ call[c].op = "mark"
  BY <1>0 DEF GradeTx
<1>2. PICK dueCut \in Cuts(call[c].seen.dueCut), timerCut \in Cuts(call[c].seen.timerCut),
           given \in Scores \cup {call[c].seen.marks}, marks \in Scores \cup {sub.marks} :
      \E total \in Scores \cup {Clamp(given - call[c].seen.deducted - dueCut - timerCut)} :
         /\ \/ given = call[c].seen.marks /\ marks = sub.marks
            \/ HandedIn(sub)
         /\ sub' = [sub EXCEPT !.status = "GRADED", !.marks = marks, !.total = total,
                               !.dueCut = dueCut, !.timerCut = timerCut]
         /\ gradebook' = [y \in 1 .. Years |->
                            IF y = call[c].year THEN total ELSE gradebook[y]]
         /\ End(c)
         /\ UNCHANGED <<paper, exists, violations, enrolled, clock, calls, lone>>
  BY <1>1, Zenon DEF GradeTx
<1>3. /\ dueCut \in Nat /\ timerCut \in Nat /\ given \in Int /\ marks \in Int
      /\ call[c].seen.deducted \in Nat /\ MaxMark \in Nat
  BY <1>0, PaperAssumption DEF Submission, Cuts
<1>4. PICK total \in Scores \cup {Clamp(given - call[c].seen.deducted - dueCut - timerCut)} :
         /\ sub' = [sub EXCEPT !.status = "GRADED", !.marks = marks, !.total = total,
                               !.dueCut = dueCut, !.timerCut = timerCut]
         /\ gradebook' = [y \in 1 .. Years |->
                            IF y = call[c].year THEN total ELSE gradebook[y]]
         /\ UNCHANGED <<paper, exists, violations, enrolled, clock, calls, lone>>
  BY <1>2
<1>5. total \in Int
  <2>1. Clamp(given - call[c].seen.deducted - dueCut - timerCut) \in Int
    BY <1>3 DEF Clamp
  <2>2. QED
    BY <1>4, <2>1, PaperAssumption
<1>6. /\ sub' \in Submission /\ sub'.status = "GRADED"
      /\ sub'.count = sub.count /\ sub'.deducted = sub.deducted
      /\ sub'.startedAt = sub.startedAt
  BY <1>0, <1>3, <1>4, <1>5 DEF Submission, Status
<1>7. gradebook' \in [1 .. Years -> Int]
  BY <1>0, <1>4, <1>5
<1>8. QED
  BY <1>1, <1>4, <1>6, <1>7

LEMMA GradeKeeps ==
  ASSUME IInv, NEW c \in Callers, GradeRead(c) \/ GradeTx(c)
  PROVE  IInv'
<1>0. /\ sub \in Submission /\ SubOK /\ exists \in BOOLEAN /\ enrolled \in Nat
      /\ call[c] \in Call /\ Fits(call[c]) /\ violations \in Nat /\ Years \in Nat
  BY PaperAssumption DEF IInv, PaperTypeOK
<1>1. CASE GradeRead(c)
  <2> DEFINE q == [NoCall EXCEPT !.op = "mark", !.seen = sub, !.year = enrolled]
  <2>1. q \in Call /\ q.op = "mark"
    BY <1>0, NoSubTyped DEF Call, CallOps
  <2>2. Fits(q)
    BY <1>1, <2>1 DEF GradeRead, Fits
  <2>3. QED
    BY <1>1, <2>1, <2>2, TakeKeeps DEF GradeRead
<1>2. CASE GradeTx(c)
  <2>1. CASE Refused(c)
    BY <2>1, RefusedKeeps
  <2>2. CASE ~Refused(c)
    <3>1. /\ exists /\ End(c) /\ call[c].op = "mark"
          /\ UNCHANGED <<paper, exists, violations, enrolled, clock, calls, lone>>
          /\ sub' \in Submission /\ sub'.status = "GRADED"
          /\ sub'.count = sub.count /\ sub'.deducted = sub.deducted
          /\ sub'.startedAt = sub.startedAt
          /\ gradebook' \in [1 .. Years -> Int]
      BY <1>2, <2>2, Graded
    <3>2. sub.status # "none"
      BY <1>0, <3>1 DEF Fits
    <3>3. SubOK'
      BY <1>0, <3>1, <3>2 DEF SubOK, Owed, Beyond, Threshold
    <3>4. Fits(NoCall)' /\ call' = [call EXCEPT ![c] = NoCall]
      BY <3>1 DEF Fits, NoCall, End
    <3>5. /\ violations' \in Nat /\ violations <= violations'
          /\ calls' \in Nat /\ lone' \in BOOLEAN
      BY <1>0, <3>1 DEF IInv, PaperTypeOK
    <3>6. QED
      BY <3>1, <3>3, <3>4, <3>5, NoSubTyped, StepOf
  <2>3. QED
    BY <2>1, <2>2
<1>3. QED
  BY <1>1, <1>2

LEMMA DeleteKeeps ==
  ASSUME IInv, NEW c \in Callers, DeleteRead(c) \/ DeleteWrite(c)
  PROVE  IInv'
<1>0. sub \in Submission /\ exists \in BOOLEAN
  BY DEF IInv, PaperTypeOK
<1>1. CASE DeleteRead(c)
  <2> DEFINE q == [NoCall EXCEPT !.op = "delete", !.seen = sub]
  <2>1. q \in Call /\ q.op = "delete"
    BY <1>0, NoSubTyped DEF Call, CallOps
  <2>2. Fits(q)
    BY <2>1 DEF Fits
  <2>3. QED
    BY <1>1, <2>1, <2>2, TakeKeeps DEF DeleteRead
<1>2. CASE DeleteWrite(c)
  <2>1. CASE ~exists
    BY <1>2, <2>1, RefusedKeeps DEF DeleteWrite
  <2>2. CASE exists
    <3>1. /\ exists' = FALSE /\ sub' = NoSub /\ violations' = 0
          /\ call' = [call EXCEPT ![c] = NoCall]
          /\ UNCHANGED <<paper, gradebook, enrolled, clock, calls, lone>>
      BY <1>2, <2>2 DEF DeleteWrite, End
    <3>2. PaperTypeOK'
      BY <3>1, NoSubTyped DEF IInv, PaperTypeOK
    <3>3. Owed(0)' = 0
      <4>1. paper.perViolation \in Nat /\ Threshold \in Nat
        BY PaperTyped DEF IInv
      <4>2. Threshold' = Threshold /\ paper' = paper
        BY <3>1 DEF Threshold
      <4>3. QED
        BY <4>1, <4>2 DEF Owed, Beyond
    <3>4. SubOK'
      BY <3>1, <3>3 DEF SubOK, NoSub
    <3>5. ASSUME NEW d \in Callers PROVE Fits(call[d])'
      <4>1. call'[d] = NoCall \/ call'[d] = call[d]
        BY <3>1 DEF IInv, PaperTypeOK
      <4>2. Fits(call[d])
        BY DEF IInv
      <4>3. QED
        BY <3>1, <4>1, <4>2 DEF Fits, NoCall
    <3>6. QED
      BY <3>2, <3>4, <3>5 DEF IInv
  <2>3. QED
    BY <1>0, <2>1, <2>2
<1>3. QED
  BY <1>1, <1>2

LEMMA OtherKeeps ==
  ASSUME IInv, Promotion \/ Pass \/ UNCHANGED paperVars
  PROVE  IInv'
<1>1. /\ UNCHANGED <<paper, exists, sub, violations, gradebook, call, calls, lone>>
      /\ clock' \in Nat /\ enrolled' \in 0 .. Years
  BY PaperAssumption DEF Promotion, Pass, paperVars, IInv, PaperTypeOK
<1>2. PaperTypeOK' /\ SubOK'
  BY <1>1 DEF IInv, PaperTypeOK, SubOK, Owed, Beyond, Threshold
<1>3. ASSUME NEW c \in Callers PROVE Fits(call[c])'
  BY <1>1 DEF IInv, Fits, Owed, Beyond, Threshold
<1>4. QED
  BY <1>2, <1>3 DEF IInv

LEMMA PaperStep == IInv /\ [PaperNext]_paperVars => IInv'
<1> SUFFICES ASSUME IInv, [PaperNext]_paperVars PROVE IInv'
  OBVIOUS
<1>1. CASE Promotion \/ Pass \/ UNCHANGED paperVars
  BY <1>1, OtherKeeps
<1>2. ASSUME NEW c \in Callers, Sit(c) PROVE IInv'
  <2>1. CASE Drop(c)
    BY <2>1, RefusedKeeps DEF Drop
  <2>2. CASE StartRead(c) \/ StartUpsert(c) \/ StartStamp(c)
    BY <2>2, StartKeeps
  <2>3. CASE LogRead(c) \/ LogInsert(c) \/ LogWrite(c)
    BY <2>3, LogKeeps
  <2>4. CASE HandInRead(c) \/ HandInTx(c)
    BY <2>4, HandInKeeps
  <2>5. CASE GradeRead(c) \/ GradeTx(c)
    BY <2>5, GradeKeeps
  <2>6. CASE DeleteRead(c) \/ DeleteWrite(c)
    BY <2>6, DeleteKeeps
  <2>7. QED
    BY <1>2, <2>1, <2>2, <2>3, <2>4, <2>5, <2>6 DEF Sit
<1>3. QED
  BY <1>1, <1>2 DEF PaperNext

LEMMA PaperInvariant == PaperSpec => []IInv
BY PaperInitially, PaperStep, PTL DEF PaperSpec

\* The columns of an assessment, its submission, its violations and its grade
\* keep their types through every request of assessments.service.ts.
THEOREM PapersTyped == PaperSpec => []PaperTypeOK
<1>1. IInv => PaperTypeOK
  BY DEF IInv
<1>2. QED
  BY <1>1, PaperInvariant, PTL

\* logViolation: no interleaving of reports, hand-ins and gradings takes more
\* points than the violations on record beyond the threshold cost.
THEOREM PenaltiesAreOnRecord == PaperSpec => []PenaltyOnRecord
<1>1. IInv => PenaltyOnRecord
  <2> SUFFICES ASSUME IInv PROVE PenaltyOnRecord
    OBVIOUS
  <2>1. /\ sub.count \in Nat /\ violations \in Nat /\ sub.count <= violations
        /\ sub.deducted = paper.perViolation * Beyond(sub.count)
    BY DEF IInv, PaperTypeOK, SubOK, Submission, Owed
  <2>2. /\ paper.perViolation \in Nat /\ Threshold \in Nat
        /\ Beyond(sub.count) \in Nat /\ Beyond(violations) \in Nat
    BY <2>1, PaperTyped DEF IInv
  <2>3. Beyond(sub.count) <= Beyond(violations)
    BY <2>1, <2>2 DEF Beyond
  <2>4. PICK a \in Nat, b \in Nat : a = Beyond(sub.count) /\ b = Beyond(violations)
    BY <2>2
  <2>5. sub.deducted <= paper.perViolation * Beyond(violations)
    BY <2>1, <2>2, <2>3, <2>4, MoreCostMore
  <2>6. QED
    BY <2>5 DEF PenaltyOnRecord, Beyond
<1>2. QED
  BY <1>1, PaperInvariant, PTL
-----------------------------------------------------------------------------
\* startAssessment and submitAssessment: the clock of a timed assessment is
\* started once.
THEOREM TimerStartsOnce == PaperSpec => TimerNeverRestarts
<1> DEFINE A == paper.timed /\ sub.startedAt # Never /\ exists'
                  => sub'.startedAt = sub.startedAt
<1>1. IInv /\ [PaperNext]_paperVars => [A]_paperVars
  <2> SUFFICES ASSUME IInv, PaperNext, paper.timed, sub.startedAt # Never, exists'
               PROVE  sub'.startedAt = sub.startedAt
    BY DEF paperVars
  <2>0. sub \in Submission /\ exists \in BOOLEAN /\ SubOK /\ sub.status # "none"
    BY DEF IInv, PaperTypeOK, SubOK, NoSub
  <2>1. CASE UNCHANGED sub
    BY <2>1
  <2>2. ASSUME NEW c \in Callers, Sit(c), ~UNCHANGED sub
        PROVE  sub'.startedAt = sub.startedAt
    <3>0. ~Refused(c) /\ call[c] \in Call /\ Fits(call[c])
      BY <2>2 DEF Refused, IInv, PaperTypeOK
    <3>1. ~StartRead(c) /\ ~LogRead(c) /\ ~HandInRead(c) /\ ~GradeRead(c)
          /\ ~DeleteRead(c) /\ ~LogInsert(c) /\ ~Drop(c) /\ ~DeleteWrite(c)
      BY <2>2, <3>0 DEF StartRead, LogRead, HandInRead, GradeRead, DeleteRead, Take,
         LogInsert, Drop, DeleteWrite
    <3>2. CASE StartUpsert(c)
      BY <2>0, <3>0, <3>2 DEF StartUpsert, StartKept, Submission
    <3>3. CASE StartStamp(c)
      BY <3>0, <3>3 DEF StartStamp, Fits
    <3>4. CASE LogWrite(c)
      <4>1. PICK n, m : sub' = [sub EXCEPT !.count = n, !.deducted = m]
        BY <3>0, <3>4 DEF LogWrite
      <4>2. QED
        BY <2>0, <4>1 DEF Submission
    <3>5. CASE HandInTx(c)
      <4>1. call[c].seen.status # "none"
        BY <2>0, <3>0, <3>5 DEF HandInTx
      <4>2. PICK marks : sub' = [sub EXCEPT
                  !.status = "SUBMITTED", !.marks = marks, !.total = marks,
                  !.dueCut = call[c].dueCut, !.timerCut = call[c].timerCut]
        BY <3>0, <3>5, <4>1 DEF HandInTx
      <4>3. QED
        BY <2>0, <4>2 DEF Submission
    <3>6. CASE GradeTx(c)
      BY <3>0, <3>6, Graded
    <3>7. QED
      BY <2>2, <3>1, <3>2, <3>3, <3>4, <3>5, <3>6 DEF Sit
  <2>3. QED
    BY <2>1, <2>2 DEF PaperNext, Promotion, Pass
<1>2. QED
  BY <1>1, PaperInvariant, PTL DEF PaperSpec, TimerNeverRestarts
-----------------------------------------------------------------------------
\* As long as no two of hand-in, grading and deletion met: at most one of them
\* is in flight, and a hand-in or a deletion that is has been read truly.
LoneInv ==
  lone => \A c \in Callers :
            /\ call[c].op \in Exclusive =>
                 \A d \in Callers : call[d].op \in Exclusive => d = c
            /\ call[c].op \in {"hand", "delete"} => ~HandedIn(sub)

LEMMA LoneInitially == PaperInit => LoneInv
BY DEF PaperInit, LoneInv, NoCall, Exclusive

\* A step of c that starts nothing exclusive: those in flight are those that were.
LEMMA NoneJoins ==
  ASSUME IInv, LoneInv, NEW c \in Callers, lone' = lone,
         \A d \in Callers : d # c => call'[d] = call[d],
         call'[c].op \in Exclusive => call'[c].op = call[c].op,
         HandedIn(sub)' =>
           HandedIn(sub) \/ (call[c].op \in Exclusive /\ call'[c].op \notin Exclusive)
  PROVE  LoneInv'
<1> SUFFICES ASSUME lone', NEW d \in Callers
             PROVE  /\ call'[d].op \in Exclusive =>
                         \A e \in Callers : call'[e].op \in Exclusive => e = d
                    /\ call'[d].op \in {"hand", "delete"} => ~HandedIn(sub)'
  BY DEF LoneInv
<1>1. \A e \in Callers : call'[e].op \in Exclusive => call'[e].op = call[e].op
  OBVIOUS
<1>2. call'[d].op \in Exclusive =>
        \A e \in Callers : call'[e].op \in Exclusive => e = d
  BY <1>1 DEF LoneInv
<1>3. ASSUME call'[d].op \in {"hand", "delete"} PROVE ~HandedIn(sub)'
  <2>1. call[d].op = call'[d].op /\ call[d].op \in Exclusive
    BY <1>1, <1>3 DEF Exclusive
  <2>2. ~HandedIn(sub)
    BY <1>3, <2>1 DEF LoneInv
  <2>3. CASE call[c].op \in Exclusive /\ call'[c].op \notin Exclusive
    <3>1. c = d
      BY <2>1, <2>3 DEF LoneInv
    <3>2. QED
      BY <1>3, <2>3, <3>1 DEF Exclusive
  <2>4. QED
    BY <2>2, <2>3
<1>4. QED
  BY <1>2, <1>3

LEMMA LoneStep == IInv /\ LoneInv /\ [PaperNext]_paperVars => LoneInv'
<1> SUFFICES ASSUME IInv, LoneInv, [PaperNext]_paperVars PROVE LoneInv'
  OBVIOUS
<1>0. call \in [Callers -> Call] /\ sub \in Submission /\ SubOK
  BY DEF IInv, PaperTypeOK
<1>1. CASE Promotion \/ Pass \/ UNCHANGED paperVars
  BY <1>1 DEF Promotion, Pass, paperVars, LoneInv, HandedIn
<1>2. ASSUME NEW c \in Callers, Sit(c) PROVE LoneInv'
  <2>1. ASSUME NEW q \in Call, Take(c, q),
               q.op \in {"hand", "delete"} => ~HandedIn(sub)
        PROVE  LoneInv'
    <3>1. /\ call' = [call EXCEPT ![c] = q] /\ sub' = sub
          /\ lone' => lone /\ (q.op \in Exclusive =>
                                 \A d \in Callers : call[d].op \notin Exclusive)
      BY <2>1 DEF Take
    <3>2. call'[c] = q /\ \A d \in Callers : d # c => call'[d] = call[d]
      BY <1>0, <3>1
    <3>3. CASE q.op \in Exclusive
      BY <2>1, <3>1, <3>2, <3>3 DEF LoneInv, HandedIn, Exclusive
    <3>4. CASE q.op \notin Exclusive
      BY <2>1, <3>1, <3>2, <3>4 DEF LoneInv, HandedIn, Exclusive
    <3>5. QED
      BY <3>3, <3>4
  <2>2. ASSUME End(c), lone' = lone,
               HandedIn(sub)' => HandedIn(sub) \/ call[c].op \in Exclusive
        PROVE  LoneInv'
    <3>1. call'[c].op \notin Exclusive /\ \A d \in Callers : d # c => call'[d] = call[d]
      BY <1>0, <2>2 DEF End, NoCall, Exclusive
    <3>2. QED
      BY <2>2, <3>1, NoneJoins
  <2>3. CASE Refused(c)
    BY <2>2, <2>3 DEF Refused, Others, HandedIn
  <2>4. CASE StartRead(c)
    <3>1. [NoCall EXCEPT !.op = "upsert", !.seen = sub] \in Call
      BY <1>0, NoSubTyped DEF Call, CallOps
    <3>2. QED
      BY <2>1, <2>4, <3>1, NoSubTyped DEF StartRead, NoCall
  <2>5. CASE LogRead(c)
    <3>1. [NoCall EXCEPT !.op = "log", !.seen = sub] \in Call
      BY <1>0, NoSubTyped DEF Call, CallOps
    <3>2. QED
      BY <2>1, <2>5, <3>1, NoSubTyped DEF LogRead, NoCall
  <2>6. CASE HandInRead(c)
    <3>1. PICK due \in Nat, timer \in Nat :
            /\ due = IF PastDue THEN paper.duePenalty ELSE 0
            /\ timer = IF Expired THEN paper.timerPenalty ELSE 0
      BY PaperTyped DEF IInv
    <3>2. [NoCall EXCEPT !.op = "hand", !.seen = sub, !.dueCut = due, !.timerCut = timer]
            \in Call
      BY <1>0, NoSubTyped DEF Call, CallOps
    <3>3. Take(c, [NoCall EXCEPT !.op = "hand", !.seen = sub,
                                 !.dueCut = due, !.timerCut = timer])
      BY <2>6, <3>1 DEF HandInRead
    <3>4. ~HandedIn(sub)
      BY <2>6 DEF HandInRead, NotHandedIn
    <3>5. QED
      BY <2>1, <3>2, <3>3, <3>4
  <2>7. CASE GradeRead(c)
    <3>1. PICK y \in Nat : y = enrolled
      BY PaperAssumption DEF IInv, PaperTypeOK
    <3>2. /\ [NoCall EXCEPT !.op = "mark", !.seen = sub, !.year = y] \in Call
          /\ [NoCall EXCEPT !.op = "mark", !.seen = sub, !.year = y].op = "mark"
      BY <1>0, NoSubTyped DEF Call, CallOps
    <3>3. Take(c, [NoCall EXCEPT !.op = "mark", !.seen = sub, !.year = y])
      BY <2>7, <3>1 DEF GradeRead
    <3>4. QED
      BY <2>1, <3>2, <3>3
  <2>8. CASE DeleteRead(c)
    <3>1. [NoCall EXCEPT !.op = "delete", !.seen = sub] \in Call
      BY <1>0, NoSubTyped DEF Call, CallOps
    <3>2. ~HandedIn(sub)
      BY <2>8 DEF DeleteRead, HandedIn
    <3>3. QED
      BY <2>1, <2>8, <3>1, <3>2 DEF DeleteRead
  <2>9. CASE StartUpsert(c) /\ ~Refused(c)
    <3>1. /\ lone' = lone
          /\ sub' = IF sub.status = "none"
                    THEN [NoSub EXCEPT !.status = "STARTED", !.startedAt = clock]
                    ELSE [sub EXCEPT !.startedAt = StartKept(sub)]
          /\ Resume(c, "stamp") \/ End(c)
      BY <2>9 DEF StartUpsert, Others
    <3>2. HandedIn(sub)' => HandedIn(sub)
      BY <1>0, <3>1, NoSubTyped DEF HandedIn, Submission, NoSub
    <3>3. CASE End(c)
      BY <2>2, <3>1, <3>2, <3>3
    <3>4. CASE Resume(c, "stamp")
      <4>1. call'[c].op \notin Exclusive
        BY <1>0, <3>4 DEF Resume, Exclusive, Call
      <4>2. \A d \in Callers : d # c => call'[d] = call[d]
        BY <1>0, <3>4 DEF Resume
      <4>3. QED
        BY <3>1, <3>2, <4>1, <4>2, NoneJoins
    <3>5. QED
      BY <3>1, <3>3, <3>4
  <2>10. CASE StartStamp(c) /\ ~Refused(c)
    <3>1. End(c) /\ lone' = lone /\ sub' = [sub EXCEPT !.startedAt = clock]
      BY <2>10 DEF StartStamp, Others
    <3>2. HandedIn(sub)' => HandedIn(sub)
      BY <1>0, <3>1 DEF HandedIn, Submission
    <3>3. QED
      BY <2>2, <3>1, <3>2
  <2>11. CASE LogInsert(c) /\ ~Refused(c)
    <3>1. Resume(c, "count") /\ lone' = lone /\ sub' = sub
      BY <2>11 DEF LogInsert
    <3>2. call'[c].op \notin Exclusive
      BY <1>0, <3>1 DEF Resume, Exclusive, Call
    <3>3. \A d \in Callers : d # c => call'[d] = call[d]
      BY <1>0, <3>1 DEF Resume
    <3>4. HandedIn(sub)' => HandedIn(sub)
      BY <3>1 DEF HandedIn
    <3>5. QED
      BY <3>1, <3>2, <3>3, <3>4, NoneJoins
  <2>12. CASE LogWrite(c) /\ ~Refused(c)
    <3>1. End(c) /\ lone' = lone
      BY <2>12 DEF LogWrite, Others
    <3>2. PICK n, m : sub' = [sub EXCEPT !.count = n, !.deducted = m]
      BY <2>12 DEF LogWrite
    <3>3. HandedIn(sub)' => HandedIn(sub)
      BY <1>0, <3>2 DEF HandedIn, Submission
    <3>4. QED
      BY <2>2, <3>1, <3>3
  <2>13. CASE HandInTx(c) /\ ~Refused(c)
    <3>1. End(c) /\ lone' = lone /\ call[c].op \in Exclusive
      BY <2>13 DEF HandInTx, Others, Exclusive
    <3>2. QED
      BY <2>2, <3>1
  <2>14. CASE GradeTx(c) /\ ~Refused(c)
    BY <2>2, <2>14, Graded DEF Exclusive
  <2>15. CASE DeleteWrite(c) /\ ~Refused(c)
    BY <2>2, <2>15 DEF DeleteWrite, Exclusive
  <2>16. QED
    BY <1>2, <2>3, <2>4, <2>5, <2>6, <2>7, <2>8, <2>9, <2>10, <2>11, <2>12, <2>13,
       <2>14, <2>15 DEF Sit, Drop
<1>3. QED
  BY <1>1, <1>2 DEF PaperNext

\* submitAssessment, startAssessment and logViolation: what is handed in stays
\* handed in until it is graded, unless hand-ins, gradings and deletions met.
THEOREM HandInsStand == PaperSpec => HandedInStays
<1> DEFINE Stays == \/ sub'.status = "GRADED"
                    \/ /\ sub'.status = sub.status /\ sub'.marks = sub.marks
                       /\ sub'.dueCut = sub.dueCut /\ sub'.timerCut = sub.timerCut
           A == lone /\ HandedIn(sub) => Stays
<1>1. IInv /\ LoneInv /\ [PaperNext]_paperVars => [A]_paperVars
  <2> SUFFICES ASSUME IInv, LoneInv, PaperNext, lone, HandedIn(sub) PROVE Stays
    BY DEF paperVars
  <2>0. sub \in Submission /\ sub.status # "none"
    BY DEF IInv, PaperTypeOK, HandedIn
  <2>1. CASE UNCHANGED sub
    BY <2>1
  <2>2. ASSUME NEW c \in Callers, Sit(c), ~UNCHANGED sub PROVE Stays
    <3>0. ~Refused(c)
      BY <2>2 DEF Refused
    <3>1. ~StartRead(c) /\ ~LogRead(c) /\ ~HandInRead(c) /\ ~GradeRead(c)
          /\ ~DeleteRead(c) /\ ~LogInsert(c) /\ ~Drop(c)
      BY <2>2, <3>0 DEF StartRead, LogRead, HandInRead, GradeRead, DeleteRead, Take,
         LogInsert, Drop
    <3>2. ~HandInTx(c) /\ ~DeleteWrite(c)
      BY DEF HandInTx, DeleteWrite, LoneInv
    <3>3. CASE StartUpsert(c)
      BY <2>0, <3>0, <3>3 DEF StartUpsert, Submission
    <3>4. CASE StartStamp(c)
      BY <2>0, <3>0, <3>4 DEF StartStamp, Submission
    <3>5. CASE LogWrite(c)
      <4>1. PICK n, m : sub' = [sub EXCEPT !.count = n, !.deducted = m]
        BY <3>0, <3>5 DEF LogWrite
      <4>2. QED
        BY <2>0, <4>1 DEF Submission
    <3>6. CASE GradeTx(c)
      BY <3>0, <3>6, Graded
    <3>7. QED
      BY <2>2, <3>1, <3>2, <3>3, <3>4, <3>5, <3>6 DEF Sit
  <2>3. QED
    BY <2>1, <2>2 DEF PaperNext, Promotion, Pass
<1>2. QED
  BY <1>1, LoneInitially, LoneStep, PaperInvariant, PTL DEF PaperSpec, HandedInStays
-----------------------------------------------------------------------------
(***************************************************************************)
(* Timetable: the types, that nobody is booked twice in a class, and that  *)
(* the curator keeps the lessons that have a subject.                      *)
(***************************************************************************)

\* c is no second booking of its teacher or its room among P.
FitsIn(c, P) ==
  \A p \in P : /\ p.c.arm = c.arm /\ p.c.type = "LESSON" /\ c.type = "LESSON"
               /\ SameTeacher(p.c, c) \/ SameRoom(p.c, c)
               => ~Overlap(p.c, c)

\* What the curator has of an arm: every lesson that has a subject.
Holds(b) ==
  b.op = "fill" /\ b.fill =>
    \A p \in Of(b.arm) : p.c.subject # None => [p.c EXCEPT !.room = None] \in b.rows

\* What the check has found is still so when the period is written.
Clear(b) ==
  /\ b.op # "fill"
  /\ b.op = "create" => FitsIn(b.c, periods)
  /\ b.op = "update" =>
       \A p \in periods : p.id = b.id =>
         Merge(p.c, b.c, b.given) = b.c /\ FitsIn(b.c, periods \ {p})

OneBooking == \A q, r \in Clients : book[q] # NoBooking /\ book[r] # NoBooking => q = r

\* The inductive invariant.
TimeInv ==
  /\ TimetableTypeOK
  /\ \A p \in periods : p.id <= made
  /\ calmly => OneBooking /\ \A r \in Clients : Holds(book[r])
  /\ calmly /\ checked =>
       /\ \A p \in periods : FitsIn(p.c, periods \ {p})
       /\ \A r \in Clients : Clear(book[r])
-----------------------------------------------------------------------------
(* Sets of contents are finite, so each of them gets an id of its own.     *)

LEMMA ContentFinite == IsFiniteSet(Content)
<1> DEFINE T == Arms \X (Days \X ((0 .. Bell) \X ((0 .. Bell) \X
                (Kinds \X ((Subjects \cup {None}) \X ((Teachers \cup {None})
                 \X (Rooms \cup {None})))))))
           f == [x \in T |->
             [arm |-> x[1], day |-> x[2][1], start |-> x[2][2][1],
              end |-> x[2][2][2][1], type |-> x[2][2][2][2][1],
              subject |-> x[2][2][2][2][2][1], teacher |-> x[2][2][2][2][2][2][1],
              room |-> x[2][2][2][2][2][2][2]]]
<1>1. IsFiniteSet(0 .. Bell)
  BY FS_Interval, TimetableAssumption
<1>2. IsFiniteSet(Kinds)
  <2>1. Kinds = {"LESSON"} \cup {"BREAK"}
    BY DEF Kinds
  <2>2. QED
    BY <2>1, FS_Singleton, FS_Union
<1>3. IsFiniteSet({None})
  BY FS_Singleton
<1>4. /\ IsFiniteSet(Subjects \cup {None}) /\ IsFiniteSet(Teachers \cup {None})
      /\ IsFiniteSet(Rooms \cup {None})
  BY <1>3, FS_Union, TimetableAssumption
<1>5. IsFiniteSet((Teachers \cup {None}) \X (Rooms \cup {None}))
  BY <1>4, FS_Product
<1>6. IsFiniteSet((Subjects \cup {None}) \X ((Teachers \cup {None}) \X (Rooms \cup {None})))
  BY <1>4, <1>5, FS_Product
<1>7. IsFiniteSet(Kinds \X ((Subjects \cup {None}) \X ((Teachers \cup {None})
                  \X (Rooms \cup {None}))))
  BY <1>2, <1>6, FS_Product
<1>8. IsFiniteSet((0 .. Bell) \X (Kinds \X ((Subjects \cup {None}) \X
                  ((Teachers \cup {None}) \X (Rooms \cup {None})))))
  BY <1>1, <1>7, FS_Product
<1>9. IsFiniteSet((0 .. Bell) \X ((0 .. Bell) \X (Kinds \X ((Subjects \cup {None}) \X
                  ((Teachers \cup {None}) \X (Rooms \cup {None}))))))
  BY <1>1, <1>8, FS_Product
<1>10. IsFiniteSet(Days \X ((0 .. Bell) \X ((0 .. Bell) \X (Kinds \X
         ((Subjects \cup {None}) \X ((Teachers \cup {None}) \X (Rooms \cup {None})))))))
  BY <1>9, FS_Product, TimetableAssumption
<1>11. IsFiniteSet(T)
  BY <1>10, FS_Product, TimetableAssumption
<1>12. f \in [T -> Content]
  BY DEF Content, ContentOf
<1>13. ASSUME NEW c \in Content PROVE \E x \in T : f[x] = c
  <2> DEFINE x == <<c.arm, <<c.day, <<c.start, <<c.end, <<c.type,
                    <<c.subject, <<c.teacher, c.room>> >> >> >> >> >> >>
  <2>1. x \in T
    BY DEF Content, ContentOf
  <2>2. f[x] = c
    BY <2>1 DEF Content, ContentOf
  <2>3. QED
    BY <2>1, <2>2
<1>14. f \in Surjection(T, Content)
  <2> HIDE DEF T, f
  <2>1. QED
    BY <1>12, <1>13 DEF Surjection
<1>15. QED
  BY <1>11, <1>14, FS_Surjection

LEMMA Fresh ==
  ASSUME NEW C \in SUBSET Content, NEW n \in Nat
  PROVE  /\ IsFiniteSet(C) /\ Cardinality(C) \in Nat
         /\ \E f \in [C -> n + 1 .. n + Cardinality(C)] :
              \A c, d \in C : f[c] = f[d] => c = d
<1>1. IsFiniteSet(C)
  BY ContentFinite, FS_Subset
<1> DEFINE k == Cardinality(C)
<1>2. k \in Nat /\ ExistsBijection(1 .. k, C)
  BY <1>1, FS_CardinalityType
<1>3. PICK g \in Bijection(1 .. k, C) : TRUE
  BY <1>2 DEF ExistsBijection
<1>4. g \in [1 .. k -> C] /\ \A c \in C : \E i \in 1 .. k : g[i] = c
  BY <1>3 DEF Bijection, Injection, Surjection
<1> DEFINE at(c) == CHOOSE i \in 1 .. k : g[i] = c
           f == [c \in C |-> n + at(c)]
<1>5. \A c \in C : at(c) \in 1 .. k /\ g[at(c)] = c
  BY <1>4
<1> HIDE DEF at, k
<1>6. f \in [C -> n + 1 .. n + k]
  BY <1>2, <1>5
<1>7. \A c, d \in C : f[c] = f[d] => c = d
  <2>1. ASSUME NEW c \in C, NEW d \in C, f[c] = f[d] PROVE c = d
    <3>1. at(c) = at(d)
      BY <1>2, <1>5, <2>1
    <3>2. QED
      BY <1>5, <3>1
  <2>2. QED
    BY <2>1
<1>8. QED
  BY <1>1, <1>2, <1>6, <1>7 DEF k

\* What an insert leaves: the periods P and one new period for each of C.
LEMMA InsertDoes ==
  ASSUME TimeInv, NEW C \in SUBSET Content, NEW P \in SUBSET periods, Insert(C, P)
  PROVE  /\ periods' \subseteq Period /\ made' \in 0 .. MaxPeriods
         /\ \A p, q \in periods' : p.id = q.id => p = q
         /\ \A p \in periods' : p.id <= made'
         /\ P \subseteq periods'
         /\ \A c \in C : \E p \in periods' : p.c = c
         /\ \A p \in periods' \ P : p.c \in C
         /\ \A p, q \in periods' \ P : p.c = q.c => p = q
<1> DEFINE k == Cardinality(C)
           S == {f \in [C -> made + 1 .. made + k] :
                   \A c, d \in C : f[c] = f[d] => c = d}
           fresh == CHOOSE f \in [C -> made + 1 .. made + k] :
                      \A c, d \in C : f[c] = f[d] => c = d
           N == {[id |-> fresh[c], c |-> c] : c \in C}
<1>1. made \in Nat /\ made \in 0 .. MaxPeriods /\ periods \subseteq Period
  BY TimetableAssumption DEF TimeInv, TimetableTypeOK
<1>2. k \in Nat
  BY <1>1, Fresh
<1>3. /\ fresh \in [C -> made + 1 .. made + k]
      /\ \A c, d \in C : fresh[c] = fresh[d] => c = d
  BY <1>1, Fresh
<1>4. made + k <= MaxPeriods /\ made' = made + k /\ periods' = P \cup N
  BY DEF Insert
<1> HIDE DEF k, fresh
<1>5. \A c \in C : fresh[c] \in 1 .. MaxPeriods /\ made < fresh[c] /\ fresh[c] <= made'
  BY <1>1, <1>2, <1>3, <1>4, TimetableAssumption
<1>6. N \subseteq Period
  BY <1>5 DEF Period
<1>7. \A p \in P : p.id <= made /\ p.id \in Nat
  BY <1>1 DEF TimeInv, Period
<1>8. made' \in 0 .. MaxPeriods /\ made <= made'
  BY <1>1, <1>2, <1>4, TimetableAssumption
<1>9. \A p, q \in periods' : p.id = q.id => p = q
  <2>1. ASSUME NEW p \in periods', NEW q \in periods', p.id = q.id PROVE p = q
    <3>1. CASE p \in P /\ q \in P
      BY <2>1, <3>1 DEF TimeInv, TimetableTypeOK
    <3>2. CASE p \in P /\ q \in N
      BY <1>1, <1>5, <1>7, <2>1, <3>2
    <3>3. CASE p \in N /\ q \in P
      BY <1>1, <1>5, <1>7, <2>1, <3>3
    <3>4. CASE p \in N /\ q \in N
      BY <1>3, <2>1, <3>4
    <3>5. QED
      BY <1>4, <3>1, <3>2, <3>3, <3>4
  <2>2. QED
    BY <2>1
<1>10. \A p \in periods' : p.id <= made'
  <2>1. \A p \in P : p.id <= made'
    BY <1>1, <1>7, <1>8
  <2>2. \A p \in N : p.id <= made'
    BY <1>5
  <2>3. QED
    BY <1>4, <2>1, <2>2
<1>11. periods' \subseteq Period
  BY <1>1, <1>4, <1>6
<1>12. ASSUME NEW c \in C PROVE \E p \in periods' : p.c = c
  <2> DEFINE p == [id |-> fresh[c], c |-> c]
  <2>1. p \in N /\ p.c = c
    OBVIOUS
  <2>2. p \in periods'
    BY <1>4, <2>1
  <2> HIDE DEF p
  <2>3. QED
    BY <2>1, <2>2
<1>13. /\ \A p \in periods' \ P : p.c \in C
       /\ \A p, q \in periods' \ P : p.c = q.c => p = q
  BY <1>4
<1>14. P \subseteq periods'
  BY <1>4
<1> HIDE DEF N
<1>15. QED
  BY <1>14, <1>8, <1>9, <1>10, <1>11, <1>12, <1>13
-----------------------------------------------------------------------------
(* A request comes in, or the handler of r goes on, as b.                  *)

TablesTyped ==
  /\ periods' \subseteq Period
  /\ \A p, q \in periods' : p.id = q.id => p = q
  /\ \A p \in periods' : p.id <= made'
  /\ assigned' \in [(Arms \ PrimaryArms) \X Subjects -> Teachers \cup {None}]
  /\ made' \in 0 .. MaxPeriods /\ booked' \in 0 .. MaxBookings
  /\ calmly' \in BOOLEAN /\ checked' \in BOOLEAN

LEMMA NoBookingHolds == NoBooking \in Booking /\ NoBooking.op = "idle"
  BY DEF NoBooking, Booking

LEMMA BookingOps ==
  ASSUME NEW b \in Booking
  PROVE  /\ b.op = "idle" => b = NoBooking
         /\ b.op \in {"create", "sync", "assign"} => b \in [op : {"create", "sync", "assign"}, c : Content]
         /\ b.op = "update" => b \in [op : {"update"}, id : 1 .. MaxPeriods, c : Content,
                                      given : SUBSET Fields]
         /\ b.op = "fill" => b \in [op : {"fill"}, arm : Arms, fill : BOOLEAN,
                                    rows : SUBSET Content,
                                    load : [Teachers \X Days -> Nat], todo : SUBSET Slot]
<1>1. CASE b = NoBooking
  BY <1>1 DEF NoBooking
<1>2. CASE b \in [op : {"create", "sync", "assign"}, c : Content]
  BY <1>2
<1>3. CASE b \in [op : {"update"}, id : 1 .. MaxPeriods, c : Content, given : SUBSET Fields]
  BY <1>3
<1>4. CASE b \in [op : {"fill"}, arm : Arms, fill : BOOLEAN, rows : SUBSET Content,
                  load : [Teachers \X Days -> Nat], todo : SUBSET Slot]
  BY <1>4
<1>5. QED
  BY <1>1, <1>2, <1>3, <1>4 DEF Booking

LEMMA TimeGoes ==
  ASSUME TimeInv, NEW r \in Clients, NEW b \in Booking,
         book' = [book EXCEPT ![r] = b], TablesTyped,
         calmly' => calmly /\ (\A q \in Clients : q # r => book[q] = NoBooking) /\ Holds(b)',
         calmly' /\ checked' =>
           (\A p \in periods : FitsIn(p.c, periods \ {p}))' /\ Clear(b)'
  PROVE  TimeInv'
<1>1. \A q \in Clients : book'[q] = IF q = r THEN b ELSE book[q]
  BY DEF TimeInv, TimetableTypeOK
<1>2. TimetableTypeOK'
  BY <1>1 DEF TimeInv, TimetableTypeOK, TablesTyped
<1>3. ASSUME calmly' PROVE OneBooking' /\ \A q \in Clients : Holds(book[q])'
  <2>1. \A q \in Clients : q # r => book'[q] = NoBooking
    BY <1>1, <1>3
  <2>2. ASSUME NEW q \in Clients PROVE Holds(book[q])'
    <3>1. CASE q = r
      BY <1>1, <1>3, <3>1
    <3>2. CASE q # r
      <4>1. book'[q].op = "idle"
        BY <2>1, <3>2, NoBookingHolds
      <4>2. QED
        BY <4>1 DEF Holds
    <3>3. QED
      BY <3>1, <3>2
  <2>3. OneBooking'
    BY <2>1 DEF OneBooking
  <2>4. QED
    BY <2>2, <2>3
<1>4. ASSUME calmly', checked', NEW q \in Clients PROVE Clear(book[q])'
  <2>1. CASE q = r
    BY <1>1, <1>4, <2>1
  <2>2. CASE q # r
    <3>1. book'[q].op = "idle"
      BY <1>1, <1>4, <2>2, NoBookingHolds
    <3>2. QED
      BY <3>1 DEF Clear
  <2>3. QED
    BY <2>1, <2>2
<1>5. QED
  BY <1>2, <1>3, <1>4 DEF TimeInv, TablesTyped

\* A request that comes in finds nobody at work, as long as all is calm.
LEMMA TimeArrives ==
  ASSUME TimeInv, NEW r \in Clients, NEW safe \in BOOLEAN, Arrive(r, safe)
  PROVE  /\ book[r] = NoBooking /\ booked' \in 0 .. MaxBookings
         /\ calmly' \in BOOLEAN /\ checked' \in BOOLEAN
         /\ calmly' => calmly /\ \A q \in Clients : book[q] = NoBooking
         /\ checked' => checked /\ safe
<1>1. book[r] = NoBooking /\ booked' \in 0 .. MaxBookings
  <2>1. booked \in 0 .. MaxBookings /\ MaxBookings \in Nat
    BY TimetableAssumption DEF TimeInv, TimetableTypeOK
  <2>2. QED
    BY <2>1 DEF Arrive
<1>2. calmly' \in BOOLEAN /\ (calmly' => calmly /\ \A q \in Clients : book[q] = NoBooking)
  BY Zenon DEF Arrive
<1>3. checked' \in BOOLEAN /\ (checked' => checked /\ safe)
  BY Zenon DEF Arrive
<1>4. QED
  BY <1>1, <1>2, <1>3

\* A step of a handler that is at work: it is alone, as long as all is calm.
LEMMA TimeAlone ==
  ASSUME TimeInv, NEW r \in Clients, book[r].op # "idle", calmly
  PROVE  \A q \in Clients : q # r => book[q] = NoBooking
<1>1. book[r] # NoBooking
  BY NoBookingHolds
<1>2. QED
  BY <1>1 DEF TimeInv, OneBooking

LEMMA TablesSame ==
  ASSUME TimeInv, periods' = periods, made' = made, assigned' = assigned,
         booked' \in 0 .. MaxBookings, calmly' \in BOOLEAN, checked' \in BOOLEAN
  PROVE  TablesTyped
  BY DEF TimeInv, TimetableTypeOK, TablesTyped

\* Nothing but a handler goes on, and it is no longer concerned with periods.
LEMMA TimeOnlyBook ==
  ASSUME TimeInv, NEW r \in Clients, book[r].op # "idle", NEW b \in Booking,
         book' = [book EXCEPT ![r] = b], periods' = periods, made' = made,
         booked' = booked, calmly' = calmly, checked' = checked,
         assigned' \in [(Arms \ PrimaryArms) \X Subjects -> Teachers \cup {None}],
         calmly => Holds(b), calmly /\ checked => Clear(b)
  PROVE  TimeInv'
<1>1. TablesTyped
  BY DEF TimeInv, TimetableTypeOK, TablesTyped
<1>2. calmly' => Holds(b)'
  BY DEF Holds, Of
<1>3. calmly' /\ checked' => (\A p \in periods : FitsIn(p.c, periods \ {p}))' /\ Clear(b)'
  BY DEF TimeInv, FitsIn, Clear
<1>4. QED
  BY <1>1, <1>2, <1>3, TimeAlone, TimeGoes

LEMMA TimeEnds ==
  ASSUME TimeInv, NEW r \in Clients, book[r].op # "idle", Become(r, NoBooking),
         periods' = periods, made' = made, booked' = booked, calmly' = calmly,
         checked' = checked,
         assigned' \in [(Arms \ PrimaryArms) \X Subjects -> Teachers \cup {None}]
  PROVE  TimeInv'
<1>1. Holds(NoBooking) /\ Clear(NoBooking)
  BY NoBookingHolds DEF Holds, Clear
<1>2. QED
  BY <1>1, NoBookingHolds, TimeOnlyBook DEF Become

\* Only periods go, or periods come that fit; nobody is at work.
LEMMA TimeWrites ==
  ASSUME TimeInv, NEW r \in Clients, NEW safe \in BOOLEAN, Arrive(r, safe), book' = book,
         TablesTyped,
         safe /\ calmly /\ checked => (\A p \in periods : FitsIn(p.c, periods \ {p}))'
  PROVE  TimeInv'
<1>1. /\ book[r] = NoBooking /\ (calmly' => calmly /\ \A q \in Clients : book[q] = NoBooking)
      /\ checked' => checked /\ safe
  BY TimeArrives
<1>2. book' = [book EXCEPT ![r] = NoBooking]
  BY <1>1 DEF TimeInv, TimetableTypeOK
<1>3. Holds(NoBooking)' /\ Clear(NoBooking)'
  BY NoBookingHolds DEF Holds, Clear, NoBooking
<1>4. QED
  BY <1>1, <1>2, <1>3, NoBookingHolds, TimeGoes
-----------------------------------------------------------------------------
(* Two bookings that clash do so both ways.                                *)

LEMMA FitsBothWays ==
  ASSUME NEW c, NEW d,
         c.arm = d.arm, c.type = "LESSON", d.type = "LESSON",
         SameTeacher(c, d) \/ SameRoom(c, d), Overlap(c, d)
  PROVE  /\ SameTeacher(d, c) \/ SameRoom(d, c)
         /\ Overlap(d, c)
  BY DEF SameTeacher, SameRoom, Overlap

LEMMA NoConflictFits ==
  ASSUME NEW c, NEW P, ~Conflicts(c, P) PROVE FitsIn(c, P)
  BY DEF Conflicts, FitsIn

\* One period more, or another content for one that goes: n fits among P.
LEMMA OneFits ==
  ASSUME NEW P, NEW n, \A p \in P : FitsIn(p.c, P \ {p}), FitsIn(n.c, P)
  PROVE  \A p \in P \cup {n} : FitsIn(p.c, (P \cup {n}) \ {p})
<1>1. ASSUME NEW p \in P \cup {n}, NEW q \in (P \cup {n}) \ {p},
             q.c.arm = p.c.arm, q.c.type = "LESSON", p.c.type = "LESSON",
             SameTeacher(q.c, p.c) \/ SameRoom(q.c, p.c), Overlap(q.c, p.c)
      PROVE  FALSE
  <2>1. CASE p \in P /\ q \in P
    BY <1>1, <2>1 DEF FitsIn
  <2>2. CASE p = n /\ q \in P
    BY <1>1, <2>2 DEF FitsIn
  <2>3. CASE p \in P /\ q = n
    <3>1. /\ SameTeacher(p.c, q.c) \/ SameRoom(p.c, q.c)
          /\ Overlap(p.c, q.c)
      BY <1>1, FitsBothWays
    <3>2. QED
      BY <1>1, <2>3, <3>1 DEF FitsIn
  <2>4. QED
    BY <1>1, <2>1, <2>2, <2>3
<1>2. QED
  BY <1>1 DEF FitsIn

LEMMA FewerFit ==
  ASSUME NEW P, NEW Q \in SUBSET P, \A p \in P : FitsIn(p.c, P \ {p})
  PROVE  \A p \in Q : FitsIn(p.c, Q \ {p})
  BY DEF FitsIn
-----------------------------------------------------------------------------
(* createPeriod                                                            *)

LEMMA FilledTyped ==
  ASSUME NEW c \in Content PROVE Filled(c) \in Content
<1>1. CASE c.arm \in PrimaryArms
  <2>1. FormTeacher[c.arm] \in Teachers \cup {None}
    BY <1>1, TimetableAssumption
  <2>2. QED
    BY <2>1 DEF Filled, Content, ContentOf
<1>2. CASE c.arm \notin PrimaryArms
  BY <1>2 DEF Filled
<1>3. QED
  BY <1>1, <1>2

LEMMA TimeCreateCheck ==
  ASSUME TimeInv, NEW r \in Clients, CreateCheck(r) PROVE TimeInv'
<1> DEFINE of(o) == [o EXCEPT !.type = IF @ = "none" THEN "LESSON" ELSE @]
<1>1. PICK o \in Offers :
        /\ o.type = "none" \/ ~Conflicts(of(o), periods)
        /\ Arrive(r, o.type # "none" /\ Filled(of(o)) = of(o))
        /\ Become(r, [op |-> "create", c |-> Filled(of(o))])
        /\ UNCHANGED <<periods, assigned, made>>
  BY DEF CreateCheck
<1>2. of(o) \in Content
  BY TimetableAssumption DEF Content, ContentOf, Kinds
<1> DEFINE c == Filled(of(o))
           safe == o.type # "none" /\ c = of(o)
<1>3. c \in Content
  BY <1>2, FilledTyped
<1> HIDE DEF of
<1>4. PICK b : b = [op |-> "create", c |-> c] /\ book' = [book EXCEPT ![r] = b]
  BY <1>1 DEF Become
<1>5. b \in Booking /\ b.op = "create" /\ b.c = c
  BY <1>3, <1>4 DEF Booking
<1>6. safe \in BOOLEAN /\ Arrive(r, safe)
  BY <1>1
<1>7. /\ book[r] = NoBooking /\ booked' \in 0 .. MaxBookings
      /\ calmly' \in BOOLEAN /\ checked' \in BOOLEAN
      /\ calmly' => calmly /\ \A q \in Clients : book[q] = NoBooking
      /\ checked' => checked /\ safe
  BY <1>6, TimeArrives
<1>8. TablesTyped
  BY <1>1, <1>7, TablesSame
<1>9. Holds(b)'
  BY <1>5 DEF Holds
<1>10. safe => FitsIn(b.c, periods)
  BY <1>1, <1>5, NoConflictFits
<1>11. safe => Clear(b)'
  BY <1>1, <1>5, <1>10 DEF Clear, FitsIn
<1>12. calmly' /\ checked' => (\A p \in periods : FitsIn(p.c, periods \ {p}))'
  BY <1>1, <1>7 DEF TimeInv, FitsIn
<1>13. QED
  BY <1>4, <1>5, <1>7, <1>8, <1>9, <1>11, <1>12, TimeGoes

\* A written period may have to be synchronised.
LEMMA WrittenTyped ==
  ASSUME NEW r \in Clients, NEW c \in Content, Written(r, c)
  PROVE  \E b \in Booking : /\ book' = [book EXCEPT ![r] = b]
                            /\ b.op \in {"idle", "sync"}
<1>1. [op |-> "sync", c |-> c] \in Booking
  BY DEF Booking
<1>2. QED
  BY <1>1, NoBookingHolds DEF Written, Become

LEMMA TimeCreateWrite ==
  ASSUME TimeInv, NEW r \in Clients, CreateWrite(r) PROVE TimeInv'
<1>1. book[r].op = "create" /\ UNCHANGED <<assigned, booked, calmly, checked>>
  BY DEF CreateWrite
<1>2. book[r] \in Booking
  BY DEF TimeInv, TimetableTypeOK
<1>3. book[r].c \in Content
  BY <1>1, <1>2, BookingOps
<1> DEFINE c == book[r].c
<1>4. CASE KeyTaken(c, periods)
  <2>1. Become(r, NoBooking) /\ UNCHANGED <<periods, made>>
    BY <1>4 DEF CreateWrite
  <2>2. assigned' \in [(Arms \ PrimaryArms) \X Subjects -> Teachers \cup {None}]
    BY <1>1 DEF TimeInv, TimetableTypeOK
  <2>3. QED
    BY <1>1, <2>1, <2>2, TimeEnds
<1>5. CASE ~KeyTaken(c, periods)
  <2>1. Insert({c}, periods) /\ Written(r, c)
    BY <1>5 DEF CreateWrite
  <2> HIDE DEF c
  <2>2. {c} \in SUBSET Content /\ periods \in SUBSET periods
    BY <1>3 DEF c
  <2>3. /\ periods' \subseteq Period /\ made' \in 0 .. MaxPeriods
        /\ \A p, q \in periods' : p.id = q.id => p = q
        /\ \A p \in periods' : p.id <= made'
        /\ periods \subseteq periods'
        /\ \A p \in periods' \ periods : p.c = c
        /\ \A p, q \in periods' \ periods : p.c = q.c => p = q
        /\ \E p \in periods' : p.c = c
    BY <2>1, <2>2, InsertDoes
  <2>4. TablesTyped
    BY <1>1, <2>3 DEF TablesTyped, TimeInv, TimetableTypeOK
  <2>5. ASSUME calmly', checked' PROVE (\A p \in periods : FitsIn(p.c, periods \ {p}))'
    <3>1. FitsIn(c, periods) /\ \A p \in periods : FitsIn(p.c, periods \ {p})
      BY <1>1, <2>5 DEF TimeInv, Clear, c
    <3>2. CASE periods' = periods
      BY <3>1, <3>2 DEF FitsIn
    <3>3. CASE periods' # periods
      <4>1. PICK n \in periods' : n \notin periods
        BY <2>3, <3>3
      <4>2. n.c = c /\ periods' = periods \cup {n}
        BY <2>3, <4>1
      <4>3. \A p \in periods \cup {n} : FitsIn(p.c, (periods \cup {n}) \ {p})
        BY <3>1, <4>2, OneFits
      <4>4. QED
        BY <4>2, <4>3 DEF FitsIn
    <3>4. QED
      BY <3>2, <3>3
  <2>6. PICK b \in Booking : book' = [book EXCEPT ![r] = b] /\ b.op \in {"idle", "sync"}
    BY <1>3, <2>1, WrittenTyped DEF c
  <2>7. Holds(b)' /\ Clear(b)'
    BY <2>6 DEF Holds, Clear
  <2>8. calmly' => calmly /\ \A q \in Clients : q # r => book[q] = NoBooking
    BY <1>1, TimeAlone
  <2>9. QED
    BY <2>4, <2>5, <2>6, <2>7, <2>8, TimeGoes
<1>6. QED
  BY <1>4, <1>5
-----------------------------------------------------------------------------
(* syncClassTeacherFromPeriod                                              *)

LEMMA TimeSync ==
  ASSUME TimeInv, NEW r \in Clients, SyncRead(r) \/ SyncWrite(r) PROVE TimeInv'
<1>1. book[r].op \in {"sync", "assign"} /\ book[r] \in Booking
  BY DEF SyncRead, SyncWrite, TimeInv, TimetableTypeOK
<1>2. book[r] \in [op : {"create", "sync", "assign"}, c : Content]
  BY <1>1, BookingOps
<1>3. /\ periods' = periods /\ made' = made /\ booked' = booked
      /\ calmly' = calmly /\ checked' = checked
  BY DEF SyncRead, SyncWrite, OnlyBook
<1>4. assigned' \in [(Arms \ PrimaryArms) \X Subjects -> Teachers \cup {None}]
  <2>1. assigned \in [(Arms \ PrimaryArms) \X Subjects -> Teachers \cup {None}]
    BY DEF TimeInv, TimetableTypeOK
  <2>2. CASE SyncRead(r)
    BY <2>1, <2>2 DEF SyncRead, OnlyBook
  <2>3. CASE SyncWrite(r)
    <3>1. book[r].c.teacher \in Teachers \cup {None}
      BY <1>2 DEF Content, ContentOf
    <3>2. QED
      BY <2>1, <2>3, <3>1 DEF SyncWrite
  <2>4. QED
    BY <2>2, <2>3
<1>5. CASE Become(r, NoBooking)
  BY <1>1, <1>3, <1>4, <1>5, TimeEnds
<1>6. CASE Become(r, [book[r] EXCEPT !.op = "assign"])
  <2>1. PICK b : b = [book[r] EXCEPT !.op = "assign"] /\ book' = [book EXCEPT ![r] = b]
    BY <1>6 DEF Become
  <2>2. b \in [op : {"create", "sync", "assign"}, c : Content] /\ b.op = "assign"
    BY <1>2, <2>1
  <2>3. b \in Booking
    BY <2>2 DEF Booking
  <2>4. Holds(b) /\ Clear(b)
    BY <2>2 DEF Holds, Clear
  <2>5. QED
    BY <1>1, <1>3, <1>4, <2>1, <2>3, <2>4, TimeOnlyBook
<1>7. QED
  BY <1>5, <1>6 DEF SyncRead, SyncWrite
-----------------------------------------------------------------------------
(* updatePeriod                                                            *)

\* A dto as it comes, whose type may be left out.
Dto == ContentOf(Kinds \cup {"none"})

LEMMA MergeDoes ==
  ASSUME NEW c \in Content, NEW d \in Dto, NEW given \in SUBSET Fields,
         "type" \in given => d.type # "none"
  PROVE  /\ Merge(c, d, given) \in Content
         /\ Merge(c, Merge(c, d, given), given) = Merge(c, d, given)
<1> DEFINE m == Merge(c, d, given)
<1>1. /\ m.arm = IF "arm" \in given THEN d.arm ELSE c.arm
      /\ m.day = IF "day" \in given THEN d.day ELSE c.day
      /\ m.start = IF "start" \in given THEN d.start ELSE c.start
      /\ m.end = IF "end" \in given THEN d.end ELSE c.end
      /\ m.type = IF "type" \in given THEN d.type ELSE c.type
      /\ m.subject = IF "subject" \in given THEN d.subject ELSE c.subject
      /\ m.teacher = IF "teacher" \in given THEN d.teacher ELSE c.teacher
      /\ m.room = IF "room" \in given THEN d.room ELSE c.room
  BY DEF Merge
<1>2. m = [arm |-> m.arm, day |-> m.day, start |-> m.start, end |-> m.end,
           type |-> m.type, subject |-> m.subject, teacher |-> m.teacher,
           room |-> m.room]
  BY DEF Merge
<1> HIDE DEF m
<1>3. m \in Content
  <2>1. /\ m.arm \in Arms /\ m.day \in Days /\ m.start \in 0 .. Bell
        /\ m.end \in 0 .. Bell /\ m.subject \in Subjects \cup {None}
        /\ m.teacher \in Teachers \cup {None} /\ m.room \in Rooms \cup {None}
    BY <1>1 DEF Content, Dto, ContentOf
  <2>2. m.type \in Kinds
    BY <1>1 DEF Content, Dto, ContentOf
  <2>3. QED
    BY <1>2, <2>1, <2>2 DEF Content, ContentOf
<1>4. Merge(c, m, given) = m
  <2>1. /\ (IF "arm" \in given THEN m ELSE c).arm = m.arm
        /\ (IF "day" \in given THEN m ELSE c).day = m.day
        /\ (IF "start" \in given THEN m ELSE c).start = m.start
        /\ (IF "end" \in given THEN m ELSE c).end = m.end
    BY <1>1
  <2>2. /\ (IF "type" \in given THEN m ELSE c).type = m.type
        /\ (IF "subject" \in given THEN m ELSE c).subject = m.subject
        /\ (IF "teacher" \in given THEN m ELSE c).teacher = m.teacher
        /\ (IF "room" \in given THEN m ELSE c).room = m.room
    BY <1>1
  <2>3. QED
    BY <1>2, <2>1, <2>2 DEF Merge
<1>5. QED
  BY <1>3, <1>4 DEF m

\* A request that says nothing of place, time and kind, and names nobody.
Light(d, given) ==
  /\ ~Staffed(d, given) /\ ~Timed(given)
  /\ given \cap {"arm", "day", "type"} = {}

\* What an update that was checked, or is a light one, leaves beside the others.
LEMMA UpdateFits ==
  ASSUME NEW p \in periods, NEW d, NEW c, NEW given, c = Merge(p.c, d, given),
         MayUpdate(p, c, given), FitsIn(p.c, periods \ {p}),
         Staffed(c, given) \/ Timed(given) \/ Light(c, given)
  PROVE  FitsIn(c, periods \ {p})
<1>1. CASE Timed(given)
  BY <1>1 DEF MayUpdate, FitsIn
<1>2. CASE Staffed(c, given)
  BY <1>2, NoConflictFits DEF MayUpdate
<1>3. CASE Light(c, given)
  <2>1. {"arm", "day", "type", "start", "end"} \cap given = {}
    BY <1>3 DEF Light, Timed
  <2>2. /\ c.arm = p.c.arm /\ c.day = p.c.day /\ c.type = p.c.type
        /\ c.start = p.c.start /\ c.end = p.c.end
    BY <2>1 DEF Merge
  <2>3. c.teacher \in {p.c.teacher, None} /\ c.room \in {p.c.room, None}
    <3>1. /\ "teacher" \in given => c.teacher = None
          /\ "room" \in given => c.room = None
      BY <1>3 DEF Light, Staffed
    <3>2. /\ "teacher" \notin given => c.teacher = p.c.teacher
          /\ "room" \notin given => c.room = p.c.room
      BY DEF Merge
    <3>3. QED
      BY <3>1, <3>2
  <2>4. \A q : /\ SameTeacher(q.c, c) => SameTeacher(q.c, p.c)
               /\ SameRoom(q.c, c) => SameRoom(q.c, p.c)
               /\ Overlap(q.c, c) => Overlap(q.c, p.c)
    BY <2>2, <2>3 DEF SameTeacher, SameRoom, Overlap
  <2>5. QED
    BY <2>2, <2>4 DEF FitsIn
<1>4. QED
  BY <1>1, <1>2, <1>3

LEMMA TimeUpdateCheck ==
  ASSUME TimeInv, NEW r \in Clients, UpdateCheck(r) PROVE TimeInv'
<1> DEFINE refill(p, c) == p.c.teacher = None /\ Filled(c) # c
           past(c, given) == /\ ~Staffed(c, given) /\ ~Timed(given)
                             /\ given \cap {"arm", "day", "type"} # {}
<1>1. PICK p \in periods, o \in Offers, given \in Updates \ {{}} :
        LET c == Merge(p.c, o, given)
        IN  /\ "type" \in given => o.type # "none"
            /\ MayUpdate(p, c, given)
            /\ Arrive(r, ~past(c, given) /\ ~refill(p, c))
            /\ Become(r, [op |-> "update", id |-> p.id,
                          c |-> IF refill(p, c) THEN Filled(c) ELSE c,
                          given |-> IF refill(p, c) THEN given \cup {"teacher"} ELSE given])
            /\ UNCHANGED <<periods, assigned, made>>
  BY DEF UpdateCheck
<1> DEFINE c == Merge(p.c, o, given)
           safe == ~past(c, given) /\ ~refill(p, c)
<1>2. p \in Period /\ p.c \in Content /\ p.id \in 1 .. MaxPeriods
  BY DEF TimeInv, TimetableTypeOK, Period
<1>3. o \in Dto /\ given \in SUBSET Fields
  BY <1>1, TimetableAssumption DEF Dto
<1>4. c \in Content /\ Merge(p.c, c, given) = c /\ Filled(c) \in Content
  <2>1. "type" \in given => o.type # "none"
    BY <1>1
  <2>2. QED
    BY <1>2, <1>3, <2>1, MergeDoes, FilledTyped
<1> HIDE DEF c
<1>5. PICK b : /\ b = [op |-> "update", id |-> p.id,
                       c |-> IF refill(p, c) THEN Filled(c) ELSE c,
                       given |-> IF refill(p, c) THEN given \cup {"teacher"} ELSE given]
               /\ book' = [book EXCEPT ![r] = b]
  BY <1>1 DEF Become, c
<1> HIDE DEF refill, past
<1>6. /\ b \in Booking /\ b.op = "update" /\ b.id = p.id
      /\ ~refill(p, c) => b.c = c /\ b.given = given
  <2>1. given \cup {"teacher"} \in SUBSET Fields
    BY <1>3 DEF Fields
  <2>2. b \in [op : {"update"}, id : 1 .. MaxPeriods, c : Content, given : SUBSET Fields]
    BY <1>2, <1>4, <1>5, <2>1
  <2>3. QED
    BY <1>5, <2>2 DEF Booking
<1>7. safe \in BOOLEAN /\ Arrive(r, safe) /\ MayUpdate(p, c, given)
      /\ UNCHANGED <<periods, assigned, made>>
  BY <1>1 DEF c, refill, past
<1>8. /\ book[r] = NoBooking /\ booked' \in 0 .. MaxBookings
      /\ calmly' \in BOOLEAN /\ checked' \in BOOLEAN
      /\ calmly' => calmly /\ \A q \in Clients : book[q] = NoBooking
      /\ checked' => checked /\ safe
  BY <1>7, TimeArrives
<1>9. TablesTyped
  BY <1>7, <1>8, TablesSame
<1>10. Holds(b)'
  BY <1>6 DEF Holds
<1>11. ASSUME safe, calmly, checked PROVE Clear(b)'
  <2>1. b.c = c /\ b.given = given
    BY <1>6, <1>11
  <2>2. FitsIn(c, periods \ {p})
    <3>1. Staffed(c, given) \/ Timed(given) \/ Light(c, given)
      BY <1>11 DEF past, Light
    <3>2. FitsIn(p.c, periods \ {p})
      BY <1>11 DEF TimeInv
    <3>3. QED
      BY <1>7, <3>1, <3>2, UpdateFits DEF c
  <2>3. \A q \in periods : q.id = p.id => q = p
    BY DEF TimeInv, TimetableTypeOK
  <2>4. \A q \in periods : q.id = b.id =>
          Merge(q.c, b.c, b.given) = b.c /\ FitsIn(b.c, periods \ {q})
    BY <1>4, <1>6, <2>1, <2>2, <2>3
  <2>5. periods' = periods
    BY <1>7
  <2>6. QED
    BY <1>6, <2>4, <2>5 DEF Clear, FitsIn
<1>12. calmly' /\ checked' => (\A q \in periods : FitsIn(q.c, periods \ {q}))'
  BY <1>7, <1>8 DEF TimeInv, FitsIn
<1>13. QED
  <2> HIDE DEF safe
  <2>1. QED
    BY <1>5, <1>6, <1>8, <1>9, <1>10, <1>11, <1>12, TimeGoes

LEMMA TimeUpdateWrite ==
  ASSUME TimeInv, NEW r \in Clients, UpdateWrite(r) PROVE TimeInv'
<1> DEFINE b == book[r]
           now == {p \in periods : p.id = b.id}
           new == {[p EXCEPT !.c = Merge(@, b.c, b.given)] : p \in now}
<1>1. b.op = "update" /\ UNCHANGED <<assigned, made, booked, calmly, checked>>
  BY DEF UpdateWrite
<1>2. b \in Booking
  BY DEF TimeInv, TimetableTypeOK
<1>3. b.c \in Content /\ b.given \in SUBSET Fields /\ b.c \in Dto /\ b.c.type # "none"
  <2>1. b.c \in Content /\ b.given \in SUBSET Fields
    BY <1>1, <1>2, BookingOps
  <2>2. QED
    BY <2>1 DEF Dto, Content, ContentOf, Kinds
<1>4. CASE Become(r, NoBooking) /\ UNCHANGED periods
  <2>1. assigned' \in [(Arms \ PrimaryArms) \X Subjects -> Teachers \cup {None}]
    BY <1>1 DEF TimeInv, TimetableTypeOK
  <2>2. QED
    BY <1>1, <1>4, <2>1, TimeEnds
<1>5. CASE /\ now # {} /\ periods' = (periods \ now) \cup new
           /\ \E p \in new : Written(r, p.c)
  <2>1. PICK p \in periods : p.id = b.id
    BY <1>5
  <2>2. now = {p}
    BY <2>1 DEF TimeInv, TimetableTypeOK
  <2> DEFINE m == Merge(p.c, b.c, b.given)
             n == [p EXCEPT !.c = m]
  <2>3. p \in Period /\ p.c \in Content /\ m \in Content
    BY <1>3, MergeDoes DEF TimeInv, TimetableTypeOK, Period
  <2>4. n \in Period /\ n.c = m /\ n.id = p.id
    <3> HIDE DEF m
    <3>1. QED
      BY <2>3 DEF Period
  <2>5. new = {n}
    BY <2>2
  <2>6. periods' = (periods \ {p}) \cup {n} /\ Written(r, m)
    <3> HIDE DEF now, new, n, m
    <3>1. QED
      BY <1>5, <2>2, <2>4, <2>5
  <2> HIDE DEF now, new, n, m
  <2>7. TablesTyped
    <3>1. \A q \in periods' : q \in Period /\ q.id <= made'
      BY <1>1, <2>3, <2>4, <2>6 DEF TimeInv, TimetableTypeOK
    <3>2. \A q, u \in periods' : q.id = u.id => q = u
      BY <2>4, <2>6 DEF TimeInv, TimetableTypeOK
    <3>3. QED
      BY <1>1, <3>1, <3>2 DEF TablesTyped, TimeInv, TimetableTypeOK
  <2>8. ASSUME calmly', checked' PROVE (\A q \in periods : FitsIn(q.c, periods \ {q}))'
    <3>1. /\ \A q \in periods : FitsIn(q.c, periods \ {q})
          /\ m = b.c /\ FitsIn(b.c, periods \ {p})
      BY <1>1, <2>1, <2>8 DEF TimeInv, Clear, m
    <3>2. \A q \in periods \ {p} : FitsIn(q.c, (periods \ {p}) \ {q})
      BY <3>1, FewerFit
    <3>3. \A q \in (periods \ {p}) \cup {n} : FitsIn(q.c, ((periods \ {p}) \cup {n}) \ {q})
      BY <2>4, <3>1, <3>2, OneFits
    <3>4. QED
      BY <2>6, <3>3 DEF FitsIn
  <2>9. PICK d \in Booking : book' = [book EXCEPT ![r] = d] /\ d.op \in {"idle", "sync"}
    BY <2>3, <2>6, WrittenTyped
  <2>10. Holds(d)' /\ Clear(d)'
    BY <2>9 DEF Holds, Clear
  <2>11. calmly' => calmly /\ \A q \in Clients : q # r => book[q] = NoBooking
    BY <1>1, TimeAlone
  <2>12. QED
    BY <2>7, <2>8, <2>9, <2>10, <2>11, TimeGoes
<1>6. QED
  BY <1>4, <1>5 DEF UpdateWrite
-----------------------------------------------------------------------------
(* The writes that are one query or one transaction.                       *)

LEMMA TimeMaster ==
  ASSUME TimeInv, NEW r \in Clients, MasterSchedule(r) PROVE TimeInv'
<1> DEFINE bare(o) == [o EXCEPT !.type = IF @ = "none" THEN "LESSON" ELSE @,
                                !.subject = None, !.teacher = None, !.room = None]
<1>1. PICK o \in Offers, A \in {Arms} \cup {{a} : a \in Arms} :
        /\ Arrive(r, TRUE)
        /\ Insert({c \in {[bare(o) EXCEPT !.arm = a] : a \in A} : ~KeyTaken(c, periods)},
                  periods)
        /\ UNCHANGED <<assigned, book>>
  BY DEF MasterSchedule
<1> DEFINE C == {c \in {[bare(o) EXCEPT !.arm = a] : a \in A} : ~KeyTaken(c, periods)}
<1>2. A \subseteq Arms
  BY <1>1
<1>3. bare(o) \in Content /\ bare(o).teacher = None /\ bare(o).room = None
  <2>1. o \in ContentOf(Kinds \cup {"none"})
    BY TimetableAssumption
  <2>2. QED
    BY <2>1 DEF Content, ContentOf, Kinds
<1> HIDE DEF bare
<1>4. \A c \in C : c \in Content /\ c.teacher = None /\ c.room = None
  BY <1>2, <1>3 DEF Content, ContentOf
<1>5. C \in SUBSET Content /\ periods \in SUBSET periods /\ Insert(C, periods)
  BY <1>1, <1>4
<1> HIDE DEF C
<1>6. /\ periods' \subseteq Period /\ made' \in 0 .. MaxPeriods
      /\ \A p, q \in periods' : p.id = q.id => p = q
      /\ \A p \in periods' : p.id <= made'
      /\ \A p \in periods' \ periods : p.c \in C
  BY <1>5, InsertDoes
<1>7. /\ booked' \in 0 .. MaxBookings
      /\ calmly' \in BOOLEAN /\ checked' \in BOOLEAN
  BY <1>1, TimeArrives
<1>8. TablesTyped
  BY <1>1, <1>6, <1>7 DEF TablesTyped, TimeInv, TimetableTypeOK
<1>9. ASSUME calmly, checked PROVE (\A p \in periods : FitsIn(p.c, periods \ {p}))'
  <2>1. \A p \in periods : FitsIn(p.c, periods \ {p})
    BY <1>9 DEF TimeInv
  <2>2. \A p \in periods' \ periods : p.c.teacher = None /\ p.c.room = None
    BY <1>4, <1>6
  <2>3. QED
    BY <2>1, <2>2 DEF FitsIn, SameTeacher, SameRoom
<1>10. QED
  BY <1>1, <1>8, <1>9, TimeWrites

LEMMA TimeDelete ==
  ASSUME TimeInv, NEW r \in Clients, DeletePeriod(r) \/ DeleteTimetable(r) PROVE TimeInv'
<1>1. /\ Arrive(r, TRUE) /\ periods' \subseteq periods
      /\ assigned' = assigned /\ book' = book /\ made' = made
  BY DEF DeletePeriod, DeleteTimetable
<1>2. /\ booked' \in 0 .. MaxBookings
      /\ calmly' \in BOOLEAN /\ checked' \in BOOLEAN
  BY <1>1, TimeArrives
<1>3. TablesTyped
  BY <1>1, <1>2 DEF TablesTyped, TimeInv, TimetableTypeOK
<1>4. calmly /\ checked => (\A p \in periods : FitsIn(p.c, periods \ {p}))'
  BY <1>1 DEF TimeInv, FitsIn
<1>5. QED
  BY <1>1, <1>3, <1>4, TimeWrites

LEMMA SwapDoes ==
  ASSUME TimeInv, NEW a, NEW C \in SUBSET Content, Swap(a, C)
  PROVE  /\ periods' \subseteq Period /\ made' \in 0 .. MaxPeriods
         /\ \A p, q \in periods' : p.id = q.id => p = q
         /\ \A p \in periods' : p.id <= made'
         /\ \/ periods' = periods
            \/ \A c \in C : \E p \in periods' : p.c = c
<1>1. CASE Distinct(C)
  <2>1. periods \ Of(a) \in SUBSET periods /\ Insert(C, periods \ Of(a))
    BY <1>1 DEF Swap
  <2>2. QED
    BY <2>1, InsertDoes
<1>2. CASE ~Distinct(C)
  BY <1>2 DEF Swap, TimeInv, TimetableTypeOK
<1>3. QED
  BY <1>1, <1>2

LEMMA TimeReplace ==
  ASSUME TimeInv, NEW r \in Clients, Replace(r) PROVE TimeInv'
<1>1. PICK a \in Arms, C \in Payloads : Swap(a, {[c EXCEPT !.arm = a] : c \in C})
  BY DEF Replace
<1>2. Arrive(r, FALSE) /\ UNCHANGED <<assigned, book>>
  BY DEF Replace
<1> DEFINE D == {[c EXCEPT !.arm = a] : c \in C}
<1>3. D \in SUBSET Content
  BY TimetableAssumption DEF Content, ContentOf
<1> HIDE DEF D
<1>4. /\ periods' \subseteq Period /\ made' \in 0 .. MaxPeriods
      /\ \A p, q \in periods' : p.id = q.id => p = q
      /\ \A p \in periods' : p.id <= made'
  BY <1>1, <1>3, SwapDoes DEF D
<1>5. /\ booked' \in 0 .. MaxBookings
      /\ calmly' \in BOOLEAN /\ checked' \in BOOLEAN
  BY <1>2, TimeArrives
<1>6. TablesTyped
  BY <1>2, <1>4, <1>5 DEF TablesTyped, TimeInv, TimetableTypeOK
<1>7. QED
  BY <1>2, <1>6, TimeWrites

\* Periods go, whoever is at work.
LEMMA TimeAutoDeletion ==
  ASSUME TimeInv, AutoDeletion PROVE TimeInv'
<1>1. /\ periods' \subseteq periods
      /\ UNCHANGED <<assigned, book, made, booked, calmly, checked>>
  BY DEF AutoDeletion
<1>2. TimetableTypeOK' /\ (\A p \in periods : p.id <= made)'
  BY <1>1 DEF TimeInv, TimetableTypeOK
<1>3. ASSUME calmly PROVE OneBooking' /\ \A r \in Clients : Holds(book[r])'
  BY <1>1, <1>3 DEF TimeInv, OneBooking, Holds, Of
<1>4. ASSUME calmly, checked
      PROVE  /\ (\A p \in periods : FitsIn(p.c, periods \ {p}))'
             /\ \A r \in Clients : Clear(book[r])'
  <2>1. /\ \A p \in periods : FitsIn(p.c, periods \ {p})
        /\ \A r \in Clients : Clear(book[r])
    BY <1>4 DEF TimeInv
  <2>2. (\A p \in periods : FitsIn(p.c, periods \ {p}))'
    BY <1>1, <2>1 DEF FitsIn
  <2>3. ASSUME NEW r \in Clients PROVE Clear(book[r])'
    BY <1>1, <2>1 DEF Clear, FitsIn
  <2>4. QED
    BY <2>2, <2>3
<1>5. QED
  BY <1>1, <1>2, <1>3, <1>4 DEF TimeInv
-----------------------------------------------------------------------------
(* The curator                                                             *)

Row(a, s, x, t) == [Lesson(a, s) EXCEPT !.subject = x, !.teacher = t]

LEMMA LessonTyped ==
  ASSUME NEW a \in Arms, NEW s \in Slot, NEW x \in Subjects \cup {None},
         NEW t \in Teachers \cup {None}
  PROVE  /\ Lesson(a, s) \in Content
         /\ Row(a, s, x, t) \in Content
         /\ SlotOf(Row(a, s, x, t)) = s
  BY DEF Row, Lesson, SlotOf, Slot, Content, ContentOf, Kinds

LEMMA ExistingTyped ==
  ASSUME TimeInv, NEW a \in Arms, NEW fill \in BOOLEAN
  PROVE  Existing(a, fill) \in SUBSET Content
<1>1. \A p \in Of(a) : p.c \in Content
  BY DEF Of, TimeInv, TimetableTypeOK, Period
<1>2. \A p \in Of(a) : [p.c EXCEPT !.room = None] \in Content
  BY <1>1 DEF Content, ContentOf
<1>3. QED
  BY <1>2 DEF Existing

LEMMA BreaksTyped ==
  ASSUME NEW a \in Arms PROVE Breaks(a) \in SUBSET Content
<1> DEFINE at(d, t) == [Lesson(a, [day |-> d, start |-> t.start, end |-> t.end])
                          EXCEPT !.type = t.type]
<1>1. ASSUME NEW d \in Days, NEW t \in Templates PROVE at(d, t) \in Content
  <2>1. t.start \in 0 .. Bell /\ t.end \in 0 .. Bell /\ t.type \in Kinds
    BY TimetableAssumption
  <2>2. QED
    BY <2>1 DEF Lesson, Content, ContentOf
<1>2. Breaks(a) = {at(d, t) : d \in Days, t \in {u \in Templates : u.type # "LESSON"}}
  BY DEF Breaks
<1> HIDE DEF at
<1>3. QED
  BY <1>1, <1>2

LEMMA LoadsTyped ==
  ASSUME NEW rows \in SUBSET Content PROVE Loads(rows) \in [Teachers \X Days -> Nat]
<1>1. ASSUME NEW x PROVE Cardinality({c \in rows : c.teacher = x[1] /\ c.day = x[2]}) \in Nat
  <2>1. {c \in rows : c.teacher = x[1] /\ c.day = x[2]} \in SUBSET Content
    OBVIOUS
  <2>2. QED
    BY <2>1, Fresh
<1>2. QED
  BY <1>1 DEF Loads

LEMMA LessonSlotsTyped ==
  ASSUME NEW rows \in SUBSET Content PROVE LessonSlots(rows) \in SUBSET Slot
<1>1. \A x \in IF rows = {} THEN Templates ELSE rows :
        x.start \in 0 .. Bell /\ x.end \in 0 .. Bell
  BY TimetableAssumption DEF Content, ContentOf
<1>2. QED
  BY <1>1 DEF LessonSlots, Slot

LEMMA TimeCurate ==
  ASSUME TimeInv, NEW r \in Clients, Curate(r) PROVE TimeInv'
<1>1. PICK a \in Arms, fill \in BOOLEAN :
        /\ Arrive(r, FALSE)
        /\ Become(r, [op |-> "fill", arm |-> a, fill |-> fill,
                      rows |-> IF Existing(a, fill) = {} THEN Breaks(a) ELSE Existing(a, fill),
                      load |-> Loads(Existing(a, fill)),
                      todo |-> LessonSlots(Existing(a, fill))])
        /\ UNCHANGED <<periods, assigned, made>>
  BY DEF Curate
<1>2. PICK b : /\ b = [op |-> "fill", arm |-> a, fill |-> fill,
                       rows |-> IF Existing(a, fill) = {} THEN Breaks(a) ELSE Existing(a, fill),
                       load |-> Loads(Existing(a, fill)),
                       todo |-> LessonSlots(Existing(a, fill))]
               /\ book' = [book EXCEPT ![r] = b]
  BY <1>1 DEF Become
<1>3. /\ Existing(a, fill) \in SUBSET Content /\ Breaks(a) \in SUBSET Content
      /\ Loads(Existing(a, fill)) \in [Teachers \X Days -> Nat]
      /\ LessonSlots(Existing(a, fill)) \in SUBSET Slot
  BY ExistingTyped, BreaksTyped, LoadsTyped, LessonSlotsTyped
<1>4. b \in [op : {"fill"}, arm : Arms, fill : BOOLEAN, rows : SUBSET Content,
             load : [Teachers \X Days -> Nat], todo : SUBSET Slot]
  BY <1>2, <1>3
<1>5. b \in Booking
  BY <1>4 DEF Booking
<1>6. Holds(b)
  <2>1. ASSUME b.fill, NEW p \in Of(b.arm) PROVE [p.c EXCEPT !.room = None] \in b.rows
    <3>1. b.arm = a /\ b.fill = fill
          /\ b.rows = IF Existing(a, fill) = {} THEN Breaks(a) ELSE Existing(a, fill)
      BY <1>2
    <3>2. [p.c EXCEPT !.room = None] \in Existing(a, fill)
      BY <2>1, <3>1 DEF Existing
    <3>3. QED
      BY <3>1, <3>2
  <2>2. QED
    BY <2>1 DEF Holds
<1>7. /\ booked' \in 0 .. MaxBookings
      /\ calmly' \in BOOLEAN /\ checked' \in BOOLEAN
      /\ calmly' => calmly /\ \A q \in Clients : book[q] = NoBooking
      /\ checked' => FALSE
  BY <1>1, TimeArrives
<1>8. TablesTyped
  BY <1>1, <1>7, TablesSame
<1>9. Holds(b)'
  BY <1>1, <1>6 DEF Holds, Of
<1>10. QED
  BY <1>2, <1>5, <1>7, <1>8, <1>9, TimeGoes

\* A slot is done with, and no row that has a subject has gone.
LEMMA FillGoes ==
  ASSUME TimeInv, NEW r \in Clients, book[r].op = "fill", OnlyBook,
         NEW s, NEW rows \in SUBSET Content, NEW load \in [Teachers \X Days -> Nat],
         \A c \in book[r].rows : c.subject # None => c \in rows,
         Become(r, [book[r] EXCEPT !.rows = rows, !.load = load, !.todo = @ \ {s}])
  PROVE  TimeInv'
<1>1. book[r] \in [op : {"fill"}, arm : Arms, fill : BOOLEAN, rows : SUBSET Content,
                   load : [Teachers \X Days -> Nat], todo : SUBSET Slot]
  <2>1. book[r] \in Booking
    BY DEF TimeInv, TimetableTypeOK
  <2>2. QED
    BY <2>1, BookingOps
<1>2. PICK b : /\ b = [book[r] EXCEPT !.rows = rows, !.load = load, !.todo = @ \ {s}]
               /\ book' = [book EXCEPT ![r] = b]
  BY DEF Become
<1>3. /\ b \in [op : {"fill"}, arm : Arms, fill : BOOLEAN, rows : SUBSET Content,
                load : [Teachers \X Days -> Nat], todo : SUBSET Slot]
      /\ b.op = "fill" /\ b.arm = book[r].arm /\ b.fill = book[r].fill /\ b.rows = rows
  BY <1>1, <1>2
<1>4. b \in Booking
  BY <1>3 DEF Booking
<1>5. calmly => Holds(b)
  <2>1. ASSUME calmly, b.fill, NEW p \in Of(b.arm), p.c.subject # None
        PROVE  [p.c EXCEPT !.room = None] \in b.rows
    <3>1. Holds(book[r])
      BY <2>1 DEF TimeInv
    <3>2. [p.c EXCEPT !.room = None] \in book[r].rows
      BY <1>3, <2>1, <3>1 DEF Holds
    <3>3. p.c \in Content
      BY DEF Of, TimeInv, TimetableTypeOK, Period
    <3>4. [p.c EXCEPT !.room = None].subject = p.c.subject
      BY <3>3 DEF Content, ContentOf
    <3>5. QED
      BY <1>3, <2>1, <3>2, <3>4
  <2>2. QED
    BY <2>1 DEF Holds
<1>6. ~(calmly /\ checked)
  BY DEF TimeInv, Clear
<1>7. assigned' \in [(Arms \ PrimaryArms) \X Subjects -> Teachers \cup {None}]
  BY DEF OnlyBook, TimeInv, TimetableTypeOK
<1>8. QED
  BY <1>2, <1>4, <1>5, <1>6, <1>7, TimeOnlyBook DEF OnlyBook

LEMMA PutDoes ==
  ASSUME NEW rows \in SUBSET Content, NEW c \in Content, ~HasSubject(rows, SlotOf(c))
  PROVE  /\ Put(rows, c) \in SUBSET Content
         /\ \A b \in rows : b.subject # None => b \in Put(rows, c)
<1>1. CASE \E b \in rows : SlotOf(b) = SlotOf(c)
  <2> DEFINE old == CHOOSE b \in rows : SlotOf(b) = SlotOf(c)
             new == [c EXCEPT !.teacher = IF @ = None THEN old.teacher ELSE @]
  <2>1. old \in rows /\ SlotOf(old) = SlotOf(c)
    BY <1>1
  <2>2. Put(rows, c) = (rows \ {old}) \cup {new}
    BY <1>1 DEF Put
  <2>3. old.subject = None /\ old.teacher \in Teachers \cup {None}
    BY <2>1 DEF HasSubject, Content, ContentOf
  <2> HIDE DEF old
  <2>4. new \in Content
    BY <2>3 DEF Content, ContentOf
  <2> HIDE DEF new
  <2>5. QED
    BY <2>2, <2>3, <2>4
<1>2. CASE ~\E b \in rows : SlotOf(b) = SlotOf(c)
  BY <1>2 DEF Put
<1>3. QED
  BY <1>1, <1>2

LEMMA TeachersForTyped ==
  ASSUME NEW load, NEW a \in Arms, NEW x \in Subjects, NEW s
  PROVE  TeachersFor(load, a, x, s) \subseteq Teachers \cup {None}
<1>1. a \in PrimaryArms => FormTeacher[a] \in Teachers \cup {None}
  BY TimetableAssumption
<1>2. Competent[x] \subseteq Teachers
  BY TimetableAssumption
<1>3. QED
  BY <1>1, <1>2 DEF TeachersFor

LEMMA TimeFillSlot ==
  ASSUME TimeInv, NEW r \in Clients, FillSlot(r) PROVE TimeInv'
<1> DEFINE b == book[r]
           Goes(s, rows, load) ==
             Become(r, [b EXCEPT !.rows = rows, !.load = load, !.todo = @ \ {s}])
           more(t, s) == [y \in Teachers \X Days |->
                            IF y = <<t, s.day>> THEN b.load[y] + 1 ELSE b.load[y]]
           with(x, t, s) == Row(b.arm, s, x, t)
<1>1. b.op = "fill" /\ OnlyBook
  BY DEF FillSlot
<1>2. /\ b \in Booking
      /\ b \in [op : {"fill"}, arm : Arms, fill : BOOLEAN, rows : SUBSET Content,
                load : [Teachers \X Days -> Nat], todo : SUBSET Slot]
  <2>1. b \in Booking
    BY DEF TimeInv, TimetableTypeOK
  <2>2. QED
    BY <1>1, <2>1, BookingOps
<1>3. PICK s \in b.todo :
        \/ Goes(s, b.rows, b.load)
        \/ /\ ~HasSubject(b.rows, s)
           /\ Goes(s, IF \E c \in b.rows : SlotOf(c) = s
                      THEN b.rows ELSE b.rows \cup {Lesson(b.arm, s)}, b.load)
        \/ /\ ~HasSubject(b.rows, s)
           /\ \E x \in Candidates(b.rows, s) :
                \E t \in TeachersFor(b.load, b.arm, x, s) :
                  Goes(s, Put(b.rows, with(x, t, s)), more(t, s))
  BY DEF FillSlot, Row
<1>4. s \in Slot /\ b.arm \in Arms /\ b.rows \in SUBSET Content
      /\ b.load \in [Teachers \X Days -> Nat]
  BY <1>2
<1>5. CASE Goes(s, b.rows, b.load)
  BY <1>1, <1>4, <1>5, FillGoes
<1>6. CASE Goes(s, IF \E c \in b.rows : SlotOf(c) = s
                   THEN b.rows ELSE b.rows \cup {Lesson(b.arm, s)}, b.load)
  <2>1. Lesson(b.arm, s) \in Content
    BY <1>4, LessonTyped
  <2>2. PICK rows : /\ rows = IF \E c \in b.rows : SlotOf(c) = s
                              THEN b.rows ELSE b.rows \cup {Lesson(b.arm, s)}
                    /\ Goes(s, rows, b.load)
    BY <1>6
  <2>3. rows \in SUBSET Content /\ b.rows \subseteq rows
    BY <1>4, <2>1, <2>2
  <2>4. QED
    BY <1>1, <1>4, <2>2, <2>3, FillGoes
<1>7. CASE /\ ~HasSubject(b.rows, s)
           /\ \E x \in Candidates(b.rows, s) :
                \E t \in TeachersFor(b.load, b.arm, x, s) :
                  Goes(s, Put(b.rows, with(x, t, s)), more(t, s))
  <2>1. PICK x \in Candidates(b.rows, s) :
          \E t \in TeachersFor(b.load, b.arm, x, s) :
            Goes(s, Put(b.rows, with(x, t, s)), more(t, s))
    BY <1>7
  <2>2. x \in Subjects
    BY DEF Candidates, Fitting
  <2>3. PICK t \in TeachersFor(b.load, b.arm, x, s) :
          Goes(s, Put(b.rows, with(x, t, s)), more(t, s))
    BY <2>1
  <2>4. t \in Teachers \cup {None}
    BY <1>4, <2>2, TeachersForTyped
  <2>5. with(x, t, s) \in Content /\ SlotOf(with(x, t, s)) = s
    <3>1. x \in Subjects \cup {None}
      BY <2>2
    <3>2. QED
      BY <1>4, <2>4, <3>1, LessonTyped
  <2>6. PICK c : c = with(x, t, s)
    OBVIOUS
  <2>7. /\ Put(b.rows, c) \in SUBSET Content
        /\ \A d \in b.rows : d.subject # None => d \in Put(b.rows, c)
    BY <1>4, <1>7, <2>5, <2>6, PutDoes
  <2>8. more(t, s) \in [Teachers \X Days -> Nat]
    BY <1>4
  <2>9. PICK rows, load : rows = Put(b.rows, c) /\ load = more(t, s)
    OBVIOUS
  <2>10. Goes(s, rows, load)
    BY <2>3, <2>6, <2>9
  <2>11. QED
    BY <1>1, <2>7, <2>8, <2>9, <2>10, FillGoes
<1>8. QED
  BY <1>3, <1>5, <1>6, <1>7

LEMMA TimeCurateWrite ==
  ASSUME TimeInv, NEW r \in Clients, CurateWrite(r) PROVE TimeInv'
<1>1. /\ book[r].op = "fill" /\ Swap(book[r].arm, book[r].rows)
      /\ Become(r, NoBooking) /\ UNCHANGED <<assigned, booked, calmly, checked>>
  BY DEF CurateWrite
<1>2. book[r].rows \in SUBSET Content
  <2>1. book[r] \in Booking
    BY DEF TimeInv, TimetableTypeOK
  <2>2. QED
    BY <1>1, <2>1, BookingOps
<1>3. /\ periods' \subseteq Period /\ made' \in 0 .. MaxPeriods
      /\ \A p, q \in periods' : p.id = q.id => p = q
      /\ \A p \in periods' : p.id <= made'
  BY <1>1, <1>2, SwapDoes
<1>4. TablesTyped
  BY <1>1, <1>3 DEF TablesTyped, TimeInv, TimetableTypeOK
<1>5. ~(calmly /\ checked)
  BY <1>1 DEF TimeInv, Clear
<1>6. Holds(NoBooking)'
  BY NoBookingHolds DEF Holds, NoBooking
<1>7. QED
  BY <1>1, <1>4, <1>5, <1>6, NoBookingHolds, TimeAlone, TimeGoes DEF Become
-----------------------------------------------------------------------------
(* Every step keeps the invariant.                                         *)

LEMMA TimeInit == TimetableInit => TimeInv
<1> SUFFICES ASSUME TimetableInit PROVE TimeInv
  OBVIOUS
<1>1. \A r \in Clients : book[r] = NoBooking /\ book[r].op = "idle"
  BY NoBookingHolds DEF TimetableInit
<1>2. TimetableTypeOK
  BY NoBookingHolds, TimetableAssumption DEF TimetableInit, TimetableTypeOK
<1>3. \A r \in Clients : Holds(book[r]) /\ Clear(book[r])
  BY <1>1 DEF Holds, Clear
<1>4. QED
  BY <1>1, <1>2, <1>3 DEF TimetableInit, TimeInv, OneBooking

LEMMA TimeStep == TimeInv /\ [TimetableNext]_ttVars => TimeInv'
<1> SUFFICES ASSUME TimeInv, [TimetableNext]_ttVars PROVE TimeInv'
  OBVIOUS
<1>1. ASSUME NEW r \in Clients, Handle(r) PROVE TimeInv'
  BY <1>1, TimeCreateCheck, TimeCreateWrite, TimeUpdateCheck, TimeUpdateWrite, TimeSync,
     TimeMaster, TimeDelete, TimeReplace, TimeCurate, TimeFillSlot, TimeCurateWrite
     DEF Handle
<1>2. CASE UNCHANGED ttVars
  BY <1>2 DEF ttVars, TimeInv, TimetableTypeOK, OneBooking, Holds, Of, Clear, FitsIn
<1>3. QED
  BY <1>1, <1>2, TimeAutoDeletion DEF TimetableNext

LEMMA TimeAlways == TimetableSpec => []TimeInv
  BY TimeInit, TimeStep, PTL DEF TimetableSpec

\* The tables and the requests in flight have their types.
THEOREM TimetableTyped == TimetableSpec => []TimetableTypeOK
<1>1. TimeInv => TimetableTypeOK
  BY DEF TimeInv
<1>2. QED
  BY <1>1, TimeAlways, PTL

\* No teacher and no room of a class is booked twice at a time, as long as
\* requests are checked and come one at a time.
THEOREM TimetableBookedOnce == TimetableSpec => []BookedOnce
<1>1. TimeInv => BookedOnce
  <2>1. ASSUME TimeInv, calmly, checked, NEW p \in periods, NEW q \in periods,
               p # q, p.c.arm = q.c.arm, p.c.type = "LESSON", q.c.type = "LESSON",
               SameTeacher(p.c, q.c) \/ SameRoom(p.c, q.c)
        PROVE  ~Overlap(p.c, q.c)
    BY <2>1 DEF TimeInv, FitsIn
  <2>2. QED
    BY <2>1 DEF BookedOnce
<1>2. QED
  BY <1>1, TimeAlways, PTL

\* A request leaves the others' state alone, and only the curator's write
\* ends a run of the curator.
LEMMA OnlyOwnBook ==
  ASSUME TimeInv, NEW q \in Clients, Handle(q), NEW r \in Clients, r # q
  PROVE  book'[r] = book[r]
<1>1. book' = book \/ \E x : Become(q, x)
  <2>1. CASE CreateCheck(q) \/ CreateWrite(q)
    BY <2>1 DEF CreateCheck, CreateWrite, Written
  <2>2. CASE UpdateCheck(q) \/ UpdateWrite(q)
    BY <2>2 DEF UpdateCheck, UpdateWrite, Written
  <2>3. CASE SyncRead(q) \/ SyncWrite(q)
    BY <2>3 DEF SyncRead, SyncWrite
  <2>4. CASE MasterSchedule(q) \/ DeletePeriod(q) \/ DeleteTimetable(q) \/ Replace(q)
    BY <2>4 DEF MasterSchedule, DeletePeriod, DeleteTimetable, Replace
  <2>5. CASE Curate(q) \/ CurateWrite(q)
    BY <2>5 DEF Curate, CurateWrite
  <2>6. CASE FillSlot(q)
    BY <2>6 DEF FillSlot
  <2>7. QED
    BY <2>1, <2>2, <2>3, <2>4, <2>5, <2>6 DEF Handle
<1>2. QED
  BY <1>1 DEF Become, TimeInv, TimetableTypeOK

LEMMA CuratorEnds ==
  ASSUME TimeInv, NEW r \in Clients, book[r].op = "fill", book[r].todo = {},
         Handle(r)
  PROVE  CurateWrite(r)
<1>1. book[r] # NoBooking
  BY NoBookingHolds
<1>2. QED
  BY <1>1 DEF Handle, CreateCheck, CreateWrite, UpdateCheck, UpdateWrite, SyncRead, SyncWrite,
     MasterSchedule, DeletePeriod, DeleteTimetable, Replace, Curate, FillSlot, Arrive

\* A run of the curator that nobody disturbs leaves every lesson that has a
\* subject what it was, but for its room.
THEOREM TimetableCuratorKeeps == TimetableSpec => CuratorKeeps
<1> DEFINE A == \A r \in Clients :
                  /\ calmly /\ book[r].op = "fill" /\ book[r].todo = {} /\ book[r].fill
                  /\ book'[r] = NoBooking
                  => \A p \in Of(book[r].arm) :
                       p.c.subject # None =>
                         \E q \in periods' : q.c = [p.c EXCEPT !.room = q.c.room]
<1>1. ASSUME TimeInv, [TimetableNext]_ttVars PROVE [A]_ttVars
  <2> SUFFICES ASSUME TimetableNext PROVE A
    BY <1>1
  <2>1. ASSUME NEW r \in Clients, calmly, book[r].op = "fill", book[r].todo = {},
               book[r].fill, book'[r] = NoBooking, NEW p \in Of(book[r].arm), p.c.subject # None
        PROVE  \E q \in periods' : q.c = [p.c EXCEPT !.room = q.c.room]
    <3>1. book[r] # NoBooking
      BY <2>1, NoBookingHolds
    <3>2. CurateWrite(r)
      <4>1. ~AutoDeletion
        BY <2>1, <3>1 DEF AutoDeletion
      <4>2. PICK q \in Clients : Handle(q)
        BY <4>1 DEF TimetableNext
      <4>3. q = r
        BY <1>1, <2>1, <3>1, <4>2, OnlyOwnBook
      <4>4. QED
        BY <1>1, <2>1, <4>2, <4>3, CuratorEnds
    <3>3. Swap(book[r].arm, book[r].rows)
      BY <3>2 DEF CurateWrite
    <3>4. book[r].rows \in SUBSET Content
      <4>1. book[r] \in Booking
        BY <1>1 DEF TimeInv, TimetableTypeOK
      <4>2. QED
        BY <2>1, <4>1, BookingOps
    <3>5. p \in periods /\ p.c \in Content
      BY <1>1 DEF Of, TimeInv, TimetableTypeOK, Period
    <3>6. [p.c EXCEPT !.room = None] \in book[r].rows
      BY <1>1, <2>1 DEF TimeInv, Holds
    <3>7. CASE periods' = periods
      <4>1. p.c = [p.c EXCEPT !.room = p.c.room]
        BY <3>5 DEF Content, ContentOf
      <4>2. QED
        BY <3>5, <3>7, <4>1
    <3>8. CASE \A c \in book[r].rows : \E q \in periods' : q.c = c
      <4>1. PICK q \in periods' : q.c = [p.c EXCEPT !.room = None]
        BY <3>6, <3>8
      <4>2. q.c.room = None
        BY <3>5, <4>1 DEF Content, ContentOf
      <4>3. QED
        BY <4>1, <4>2
    <3>9. QED
      BY <1>1, <3>3, <3>4, <3>7, <3>8, SwapDoes
  <2>2. QED
    BY <2>1
<1>2. QED
  BY <1>1, TimeAlways, PTL DEF CuratorKeeps, TimetableSpec
-----------------------------------------------------------------------------
(***************************************************************************)
(* SchemeGeneration: what was charged is accounted for and refunded once,  *)
(* one scheme is live, and a cancel is final.                              *)
(***************************************************************************)

Cancels(p, s) == req[p].op \in CancelOps /\ req[p].id = s
Commits(p, s) == req[p].op = "commit" /\ req[p].id = s
Refunding == {"refundRead", "refundWrite", "mark"}

\* What a job is when it will not be taken again.
Done == {"completed", "failed"}
USE DEF Done

\* Whoever is at the scheme s, in which state of the row and of the job.
RowOK(s) ==
  /\ \A p \in Requests : Commits(p, s) => status[s] = "none"
  /\ \A p \in Requests :
       req[p].op \in CancelOps \cup {"archive"} /\ req[p].id = s => status[s] # "none"
  /\ Attempting(s) => job[s].state = "active"
  /\ job[s].state \notin Done => job[s].made < Attempts
  /\ job[s].state = "none" => fail[s].op = "idle"
  /\ status[s] = "none" => (Attempting(s) => work.op = "read") /\ fail[s].op \notin Refunding

\* Who is at a scheme is at one there is, and one insert is open at a time.
Placed ==
  /\ \A p \in Requests :
       req[p].op \in CancelOps \cup {"archive", "commit"} => req[p].id \in Schemes
  /\ \A p \in Requests : req[p].op = "commit" => job[req[p].id].state # "none"
  /\ work.op # "idle" => work.id \in Schemes
  /\ \A p, q \in Requests : req[p].op = "commit" /\ req[q].op = "commit" => p = q
  /\ \A s \in Schemes : status[s] # "none" => job[s].state # "none"
  /\ \A s \in Schemes : RowOK(s)

\* A cancel of s meets nobody, and nobody writes the row of a cancelled s.
FinalOK(s) ==
  /\ \A p \in Requests : Cancels(p, s) => ~Attempting(s) /\ fail[s].op = "idle"
  /\ status[s] = "CANCELLED" => fail[s].op = "idle" /\ (Attempting(s) => work.op = "read")

\* What was given back for s, and what those at s may still give back: as long
\* as anybody may take the scheme up again, nothing was given back.
AmountOK(s) ==
  /\ refunded[s] <= Total
  /\ status[s] \in InProgress \cup {"none"} => refunded[s] <= 0

CancelOK(s) ==
  \A p \in Requests : Cancels(p, s) =>
    /\ refunded[s] <= 0
    /\ req[p].op = "refundWrite" => req[p].take <= req[p].amount
    /\ req[p].op \in RefundOps => status[s] \in {"CANCELLED", "ARCHIVED"}
    /\ \A q \in Requests : Cancels(q, s) => p = q

WorkOK(s) ==
  Attempting(s) =>
    /\ fail[s].op = "idle"
    /\ refunded[s] <= 0 \/ (work.op = "read" /\ status[s] = "CANCELLED")
    /\ job[s].made > 0 => \A p \in Requests : ~Commits(p, s)

ListenOK(s) ==
  fail[s].op # "idle" =>
    /\ job[s].made > 0
    /\ \A p \in Requests : ~Commits(p, s)
    /\ status[s] \in {"none", "FAILED"}
    /\ fail[s].op # "mark" => refunded[s] <= 0
    /\ fail[s].op = "refundWrite" => fail[s].take <= fail[s].amount

OnceOK(s) == AmountOK(s) /\ CancelOK(s) /\ WorkOK(s) /\ ListenOK(s)

\* One request is served at a time.
Lone == \A p, q \in Requests : req[p].op # "idle" /\ req[q].op # "idle" => p = q

\* The live scheme of the slot, and what a setup has read of it.
LiveOK ==
  /\ \A s, t \in Live : s = t
  /\ \A p \in Requests :
       /\ req[p].op = "archive" => Live \subseteq {req[p].id}
       /\ req[p].op \in SetupOps \ {"archive"} => Live = {}
       /\ req[p].op \in CancelOps => status[req[p].id] # "ARCHIVED"
  /\ \A s \in Schemes : status[s] = "ARCHIVED" =>
       job[s].state \in Done /\ fail[s].op = "idle"

Charged == \E p \in Requests : req[p].op \in {"create", "commit"}
Rowed == {s \in Schemes : status[s] # "none"}

\* A setup that is charged finds the slot empty and an id, so it makes its row.
SlotOK ==
  \A p \in Requests :
    /\ req[p].op \in {"useRead", "useWrite", "create", "commit"} => key = {}
    /\ req[p].op \in SetupOps \ {"commit"} => Unused # {}

SumOK == used = Total * Cardinality(Rowed) - returned + (IF Charged THEN Total ELSE 0)

OneRequest == clean => Lone
LiveInv == clean /\ early = {} => LiveOK
CreditInv == clean /\ faults = 0 => SlotOK /\ SumOK

\* The inductive invariant.
Base == TypeOK /\ Placed
FinalInv == \A s \in Schemes \ racy : FinalOK(s)
OnceInv == \A s \in Schemes \ (racy \cup early) : OnceOK(s)

SchInv == Base /\ FinalInv /\ OnceInv /\ OneRequest /\ LiveInv /\ CreditInv
\* What the handler h holds.
Carries(h, o, i, a, t) == h.op = o /\ h.id = i /\ h.amount = a /\ h.take = t

ReqOps == CancelOps \cup SetupOps
FailOps == {"read", "mark"} \cup RefundOps
WorkOps == {"read", "verifying", "verify", "generating", "generate"}

\* The tables after a step, field by field.
ReqTo(p, o, i, a, t) ==
  /\ req' \in [Requests -> Handler(ReqOps)]
  /\ Carries(req'[p], o, i, a, t)
  /\ \A q \in Requests : q # p => req'[q] = req[q]

WorkTo(o, i) == work' \in Handler(WorkOps) /\ work'.op = o /\ work'.id = i

FailTo(s, o, a, t) ==
  /\ fail' \in [Schemes -> Handler(FailOps)]
  /\ fail'[s].op = o /\ fail'[s].amount = a /\ fail'[s].take = t
  /\ \A u \in Schemes : u # s => fail'[u] = fail[u]

JobStates == [state : {"none", "waiting", "active"} \cup Done, made : 0..Attempts]

JobTo(s, st, m) ==
  /\ job' \in [Schemes -> JobStates]
  /\ job'[s].state = st /\ job'[s].made = m
  /\ \A u \in Schemes : u # s => job'[u] = job[u]

StatusTo(s, st) ==
  /\ status' \in [Schemes -> Statuses]
  /\ status'[s] = st
  /\ \A u \in Schemes : u # s => status'[u] = status[u]

RefundTo(s, take) ==
  /\ refunded' \in [Schemes -> Int] /\ returned' = returned + take
  /\ refunded'[s] = refunded[s] + take
  /\ \A u \in Schemes : u # s => refunded'[u] = refunded[u]
-----------------------------------------------------------------------------
LEMMA IdleCarries ==
  ASSUME NEW ops
  PROVE  Idle \in Handler(ops) /\ Carries(Idle, "idle", 0, 0, 0)
  BY SchemeAssumption DEF Idle, Handler, Carries

LEMMA OpCarries ==
  ASSUME NEW ops, NEW h \in Handler(ops), NEW wider, NEW o \in wider
  PROVE  /\ [h EXCEPT !.op = o] \in Handler(wider)
         /\ Carries([h EXCEPT !.op = o], o, h.id, h.amount, h.take)
  BY DEF Handler, Carries

LEMMA TakeCarries ==
  ASSUME NEW ops, NEW h \in Handler(ops), NEW wider, NEW o \in wider, NEW t \in Int
  PROVE  /\ [h EXCEPT !.op = o, !.take = t] \in Handler(wider)
         /\ Carries([h EXCEPT !.op = o, !.take = t], o, h.id, h.amount, t)
  BY DEF Handler, Carries

LEMMA NewCarries ==
  ASSUME NEW ops, NEW o \in ops, NEW s \in Schemes, NEW a \in 0..Total
  PROVE  /\ [Idle EXCEPT !.op = o, !.id = s] \in Handler(ops)
         /\ Carries([Idle EXCEPT !.op = o, !.id = s], o, s, 0, 0)
         /\ [Idle EXCEPT !.op = o, !.id = s, !.amount = a] \in Handler(ops)
         /\ Carries([Idle EXCEPT !.op = o, !.id = s, !.amount = a], o, s, a, 0)
         /\ [Idle EXCEPT !.op = o] \in Handler(ops)
         /\ Carries([Idle EXCEPT !.op = o], o, 0, 0, 0)
  <1>1. 0 \in 0..Total /\ Idle \in Handler(ops) /\ Carries(Idle, "idle", 0, 0, 0)
    BY IdleCarries, SchemeAssumption
  <1>2. \A h \in Handler(ops) :
          /\ [h EXCEPT !.op = o, !.id = s] \in Handler(ops)
          /\ Carries([h EXCEPT !.op = o, !.id = s], o, s, h.amount, h.take)
    BY DEF Handler, Carries
  <1>3. \A h \in Handler(ops) :
          /\ [h EXCEPT !.op = o, !.id = s, !.amount = a] \in Handler(ops)
          /\ Carries([h EXCEPT !.op = o, !.id = s, !.amount = a], o, s, a, h.take)
    BY DEF Handler, Carries
  <1>4. \A h \in Handler(ops) :
          /\ [h EXCEPT !.op = o] \in Handler(ops)
          /\ Carries([h EXCEPT !.op = o], o, h.id, h.amount, h.take)
    BY DEF Handler, Carries
  <1>5. Idle.id = 0 /\ Idle.amount = 0 /\ Idle.take = 0
    BY DEF Idle
  <1>6. QED
    BY <1>1, <1>2, <1>3, <1>4, <1>5

LEMMA ReqGoes ==
  ASSUME TypeOK, NEW p \in Requests, NEW r \in Handler(ReqOps), req' = [req EXCEPT ![p] = r],
         NEW o, NEW i, NEW a, NEW t, Carries(r, o, i, a, t)
  PROVE  ReqTo(p, o, i, a, t)
  BY DEF TypeOK, ReqTo, ReqOps

LEMMA FailGoes ==
  ASSUME TypeOK, NEW s \in Schemes, NEW r \in Handler(FailOps), fail' = [fail EXCEPT ![s] = r],
         NEW o, NEW i, NEW a, NEW t, Carries(r, o, i, a, t)
  PROVE  FailTo(s, o, a, t)
  BY DEF TypeOK, FailTo, FailOps, Carries

LEMMA JobGoes ==
  ASSUME TypeOK, NEW s \in Schemes, NEW st \in {"none", "waiting", "active"} \cup Done
  PROVE  /\ job' = [job EXCEPT ![s].state = st] => JobTo(s, st, job[s].made)
         /\ \A m \in 0..Attempts :
              job' = [job EXCEPT ![s] = [state |-> st, made |-> m]] => JobTo(s, st, m)
  <1>1. job \in [Schemes -> JobStates]
    BY DEF TypeOK, JobStates
  <1>2. ASSUME NEW j \in JobStates, job' = [job EXCEPT ![s] = j]
        PROVE  JobTo(s, j.state, j.made)
    BY <1>1, <1>2 DEF JobTo
  <1>3. ASSUME job' = [job EXCEPT ![s].state = st]
        PROVE  JobTo(s, st, job[s].made)
    <2> DEFINE j == [state |-> st, made |-> job[s].made]
    <2>1. j \in JobStates /\ j.state = st /\ j.made = job[s].made
      BY <1>1 DEF JobStates
    <2>2. job' = [job EXCEPT ![s] = j]
      <3>1. \A r \in JobStates : [r EXCEPT !.state = st] = [state |-> st, made |-> r.made]
        BY DEF JobStates
      <3>2. [job[s] EXCEPT !.state = st] = j
        BY <1>1, <3>1
      <3>3. QED
        BY <1>3, <3>2
    <2> HIDE DEF j
    <2>3. QED
      BY <1>2, <2>1, <2>2
  <1>4. ASSUME NEW m \in 0..Attempts, job' = [job EXCEPT ![s] = [state |-> st, made |-> m]]
        PROVE  JobTo(s, st, m)
    <2> DEFINE j == [state |-> st, made |-> m]
    <2>1. j \in JobStates /\ j.state = st /\ j.made = m
      BY DEF JobStates
    <2>2. job' = [job EXCEPT ![s] = j]
      BY <1>4
    <2> HIDE DEF j
    <2>3. QED
      BY <1>2, <2>1, <2>2
  <1>5. QED
    BY <1>3, <1>4

LEMMA StatusGoes ==
  ASSUME TypeOK, NEW s \in Schemes, NEW st \in Statuses, status' = [status EXCEPT ![s] = st]
  PROVE  StatusTo(s, st)
  BY DEF TypeOK, StatusTo

LEMMA RefundGoes ==
  ASSUME TypeOK, NEW s \in Schemes, NEW take \in Int, GiveBack(s, take)
  PROVE  RefundTo(s, take) /\ used' = used - take /\ used' \in Int /\ returned' \in Int
  BY DEF TypeOK, RefundTo, GiveBack
-----------------------------------------------------------------------------
\* What a step of a request leaves alone.
Calm == UNCHANGED <<work, fail, faults>>

LEMMA FreeCarries ==
  /\ [Idle EXCEPT !.op = "freeKey"] \in Handler(ReqOps)
  /\ Carries([Idle EXCEPT !.op = "freeKey"], "freeKey", 0, 0, 0)
  BY SchemeAssumption DEF Idle, Handler, Carries, ReqOps, SetupOps

LEMMA SetupReadDoes ==
  ASSUME Base, NEW p \in Requests, SetupRead(p)
  PROVE  /\ TypeOK'
         /\ req[p].op = "idle" /\ Unused # {}
         /\ \/ Live = {} /\ ReqTo(p, "freeKey", 0, 0, 0)
            \/ \E s \in Live : ReqTo(p, "archive", s, 0, 0)
         /\ Calm
         /\ UNCHANGED <<status, key, job, used, refunded, returned, racy, early>>
  <1>1. TypeOK /\ Placed
    BY DEF Base
  <1>2. \/ Live = {} /\ ReqTo(p, "freeKey", 0, 0, 0)
        \/ \E s \in Live : ReqTo(p, "archive", s, 0, 0)
    <2>1. 0 \in 0..Total /\ Live \subseteq Schemes
      BY SchemeAssumption DEF Live
    <2>2. CASE Live = {} /\ Begin(p, [Idle EXCEPT !.op = "freeKey"])
      BY <1>1, <2>1, <2>2, ReqGoes, FreeCarries DEF Begin, ReqOps, SetupOps
    <2>3. ASSUME NEW s \in Live, Begin(p, [Idle EXCEPT !.op = "archive", !.id = s])
          PROVE  ReqTo(p, "archive", s, 0, 0)
      BY <1>1, <2>1, <2>3, ReqGoes, NewCarries DEF Begin, ReqOps, SetupOps
    <2>4. QED
      BY <2>2, <2>3 DEF SetupRead
  <1>3. \E r : Begin(p, r)
    BY DEF SetupRead
  <1>4. req[p].op = "idle" /\ Calm /\ clean' = (clean /\ Quiet) /\ begun' \in 0..MaxRequests
    BY <1>1, <1>3, SchemeAssumption DEF Begin, Calm, TypeOK
  <1>5. Unused # {} /\ UNCHANGED <<status, key, job, used, refunded, returned, racy, early>>
    BY DEF SetupRead, table, giveBacks
  <1>6. clean' \in BOOLEAN
    BY <1>1, <1>4, Zenon DEF TypeOK
  <1>7. TypeOK'
    BY <1>1, <1>2, <1>3, <1>4, <1>5, <1>6
    DEF Calm, ReqTo, TypeOK, ReqOps, FailOps, WorkOps, JobStates
  <1>8. QED
    BY <1>1, <1>2, <1>3, <1>4, <1>5, <1>6, <1>7 DEF Calm

LEMMA SetupArchiveDoes ==
  ASSUME Base, NEW p \in Requests, SetupArchive(p)
  PROVE  /\ TypeOK'
         /\ req[p].op = "archive" /\ req[p].id \in Schemes
         /\ ReqTo(p, "freeKey", 0, 0, 0)
         /\ StatusTo(req[p].id, "ARCHIVED")
         /\ key' = key \ {req[p].id} /\ clean' = clean /\ Calm
         /\ early' = IF Unfinished(req[p].id) \/ fail[req[p].id].op # "idle"
                    THEN early \cup {req[p].id} ELSE early
         /\ UNCHANGED <<job, used, refunded, returned, racy>>
  <1>1. TypeOK /\ Placed
    BY DEF Base
  <1>2. ReqTo(p, "freeKey", 0, 0, 0)
    BY <1>1, ReqGoes, FreeCarries DEF SetupArchive, Goto, ReqOps, SetupOps
  <1>3. StatusTo(req[p].id, "ARCHIVED")
    BY <1>1, StatusGoes DEF SetupArchive, Goto, Placed, Statuses
  <1>4. TypeOK'
    BY <1>1, <1>2, <1>3
    DEF SetupArchive, Placed, table, giveBacks, flags, Calm, ReqTo, Goto, Go, Finish, Begin,
        StatusTo, JobTo, RefundTo, WorkTo, FailTo, TypeOK, ReqOps, FailOps, WorkOps,
        JobStates
  <1>5. QED
    BY <1>1, <1>2, <1>3, <1>4
    DEF SetupArchive, Placed, table, giveBacks, flags, Calm, ReqTo, Goto, Go, Finish, Begin,
        StatusTo, JobTo, RefundTo, WorkTo, FailTo

LEMMA SetupFreeKeyDoes ==
  ASSUME Base, NEW p \in Requests, SetupFreeKey(p)
  PROVE  /\ TypeOK'
         /\ req[p].op = "freeKey"
         /\ ReqTo(p, "useRead", req[p].id, req[p].amount, req[p].take)
         /\ key' = {} /\ clean' = clean /\ Calm
         /\ UNCHANGED <<status, job, used, refunded, returned, racy, early>>
  <1>1. TypeOK /\ Placed
    BY DEF Base
  <1>2. ReqTo(p, "useRead", req[p].id, req[p].amount, req[p].take)
    BY <1>1, ReqGoes, OpCarries
    DEF SetupFreeKey, Go, Goto, TypeOK, ReqOps, SetupOps, CancelOps, RefundOps
  <1>3. TypeOK'
    BY <1>1, <1>2
    DEF SetupFreeKey, table, giveBacks, flags, Calm, ReqTo, Goto, Go, Finish, Begin,
        StatusTo, JobTo, RefundTo, WorkTo, FailTo, TypeOK, ReqOps, FailOps, WorkOps,
        JobStates
  <1>4. QED
    BY <1>1, <1>2, <1>3
    DEF SetupFreeKey, table, giveBacks, flags, Calm, ReqTo, Goto, Go, Finish, Begin,
        StatusTo, JobTo, RefundTo, WorkTo, FailTo

LEMMA UseReadDoes ==
  ASSUME Base, NEW p \in Requests, UseRead(p)
  PROVE  /\ TypeOK'
         /\ req[p].op = "useRead"
         /\ \/ ReqTo(p, "useWrite", req[p].id, req[p].amount, req[p].take)
            \/ ReqTo(p, "idle", 0, 0, 0)
         /\ clean' = clean /\ Calm
         /\ UNCHANGED <<status, key, job, used, refunded, returned, racy, early>>
  <1>1. TypeOK /\ Placed
    BY DEF Base
  <1>2. \/ ReqTo(p, "useWrite", req[p].id, req[p].amount, req[p].take)
        \/ ReqTo(p, "idle", 0, 0, 0)
    BY <1>1, ReqGoes, OpCarries, IdleCarries
    DEF UseRead, Go, Goto, Finish, TypeOK, ReqOps, SetupOps, CancelOps, RefundOps
  <1>3. TypeOK'
    BY <1>1, <1>2
    DEF UseRead, table, giveBacks, flags, Calm, ReqTo, Goto, Go, Finish, Begin, StatusTo,
        JobTo, RefundTo, WorkTo, FailTo, TypeOK, ReqOps, FailOps, WorkOps, JobStates
  <1>4. QED
    BY <1>1, <1>2, <1>3
    DEF UseRead, table, giveBacks, flags, Calm, ReqTo, Goto, Go, Finish, Begin, StatusTo,
        JobTo, RefundTo, WorkTo, FailTo

LEMMA UseWriteDoes ==
  ASSUME Base, NEW p \in Requests, UseWrite(p)
  PROVE  /\ TypeOK'
         /\ req[p].op = "useWrite"
         /\ ReqTo(p, "create", req[p].id, req[p].amount, req[p].take)
         /\ used' = used + Total /\ clean' = clean /\ Calm
         /\ UNCHANGED <<status, key, job, refunded, returned, racy, early>>
  <1>1. TypeOK /\ Placed
    BY DEF Base
  <1>2. ReqTo(p, "create", req[p].id, req[p].amount, req[p].take)
    BY <1>1, ReqGoes, OpCarries
    DEF UseWrite, Go, Goto, TypeOK, ReqOps, SetupOps, CancelOps, RefundOps
  <1>3. used' \in Int
    BY <1>1, SchemeAssumption DEF TypeOK, UseWrite
  <1>4. TypeOK'
    BY <1>1, <1>2, <1>3
    DEF UseWrite, table, giveBacks, flags, Calm, ReqTo, Goto, Go, Finish, Begin, StatusTo,
        JobTo, RefundTo, WorkTo, FailTo, TypeOK, ReqOps, FailOps, WorkOps, JobStates
  <1>5. QED
    BY <1>1, <1>2, <1>3, <1>4
    DEF UseWrite, table, giveBacks, flags, Calm, ReqTo, Goto, Go, Finish, Begin, StatusTo,
        JobTo, RefundTo, WorkTo, FailTo

LEMMA SetupCreateDoes ==
  ASSUME Base, NEW p \in Requests, SetupCreate(p)
  PROVE  /\ TypeOK'
         /\ req[p].op = "create" /\ \A q \in Requests : req[q].op # "commit"
         /\ \/ (key # {} \/ Unused = {}) /\ ReqTo(p, "idle", 0, 0, 0) /\ job' = job
            \/ \E s \in Unused : ReqTo(p, "commit", s, 0, 0) /\ JobTo(s, "waiting", job[s].made)
         /\ clean' = clean /\ Calm
         /\ UNCHANGED <<status, key, used, refunded, returned, racy, early>>
  <1>1. TypeOK /\ Placed
    BY DEF Base
  <1>2. \/ (key # {} \/ Unused = {}) /\ ReqTo(p, "idle", 0, 0, 0) /\ job' = job
        \/ \E s \in Unused : ReqTo(p, "commit", s, 0, 0) /\ JobTo(s, "waiting", job[s].made)
    <2> DEFINE new == CHOOSE s \in Unused : TRUE
    <2>1. CASE key # {} \/ Unused = {}
      BY <1>1, <2>1, ReqGoes, IdleCarries DEF SetupCreate, Finish, Goto
    <2>2. CASE ~(key # {} \/ Unused = {})
      <3>1. PICK s \in Unused : s = new
        BY <2>2
      <3>2. s \in Schemes /\ 0 \in 0..Total
        BY SchemeAssumption DEF Unused
      <3>3. /\ Goto(p, "create", [Idle EXCEPT !.op = "commit", !.id = s])
            /\ job' = [job EXCEPT ![s].state = "waiting"]
        BY <2>2, <3>1 DEF SetupCreate
      <3>4. ReqTo(p, "commit", s, 0, 0)
        BY <1>1, <3>2, <3>3, ReqGoes, NewCarries DEF Goto, ReqOps, SetupOps
      <3>5. JobTo(s, "waiting", job[s].made)
        BY <1>1, <3>2, <3>3, JobGoes
      <3>6. QED
        BY <3>4, <3>5
    <2>3. QED
      BY <2>1, <2>2
  <1>3. TypeOK'
    BY <1>1, <1>2
    DEF SetupCreate, table, giveBacks, flags, Calm, ReqTo, Goto, Go, Finish, Begin, StatusTo,
        JobTo, RefundTo, WorkTo, FailTo, TypeOK, ReqOps, FailOps, WorkOps, JobStates
  <1>4. QED
    BY <1>1, <1>2, <1>3
    DEF SetupCreate, table, giveBacks, flags, Calm, ReqTo, Goto, Go, Finish, Begin, StatusTo,
        JobTo, RefundTo, WorkTo, FailTo

LEMMA SetupCommitDoes ==
  ASSUME Base, NEW p \in Requests, SetupCommit(p)
  PROVE  /\ TypeOK'
         /\ req[p].op = "commit" /\ req[p].id \in Schemes
         /\ ReqTo(p, "idle", 0, 0, 0)
         /\ StatusTo(req[p].id, "QUEUED")
         /\ key' = key \cup {req[p].id} /\ clean' = clean /\ Calm
         /\ UNCHANGED <<job, used, refunded, returned, racy, early>>
  <1>1. TypeOK /\ Placed
    BY DEF Base
  <1>2. ReqTo(p, "idle", 0, 0, 0)
    BY <1>1, ReqGoes, IdleCarries DEF SetupCommit, Goto, Finish
  <1>3. StatusTo(req[p].id, "QUEUED")
    BY <1>1, StatusGoes DEF SetupCommit, Finish, Goto, Placed, Statuses, InProgress
  <1>4. TypeOK'
    BY <1>1, <1>2, <1>3
    DEF SetupCommit, Placed, table, giveBacks, flags, Calm, ReqTo, Goto, Go, Finish, Begin,
        StatusTo, JobTo, RefundTo, WorkTo, FailTo, TypeOK, ReqOps, FailOps, WorkOps,
        JobStates
  <1>5. QED
    BY <1>1, <1>2, <1>3, <1>4
    DEF SetupCommit, Placed, table, giveBacks, flags, Calm, ReqTo, Goto, Go, Finish, Begin,
        StatusTo, JobTo, RefundTo, WorkTo, FailTo

LEMMA CancelReadDoes ==
  ASSUME Base, NEW p \in Requests, NEW s \in Schemes, CancelRead(p, s)
  PROVE  /\ TypeOK'
         /\ req[p].op = "idle" /\ status[s] \in InProgress
         /\ \E a \in 0..Total : ReqTo(p, "cancelWrite", s, a, 0)
         /\ Calm
         /\ racy' = IF Cancelling(s) \/ Attempting(s) \/ fail[s].op # "idle"
                   THEN racy \cup {s} ELSE racy
         /\ UNCHANGED <<status, key, job, used, refunded, returned, early>>
  <1>1. TypeOK /\ Placed
    BY DEF Base
  <1>2. \E a \in 0..Total : ReqTo(p, "cancelWrite", s, a, 0)
    <2>1. PICK a \in 0..Total : a = CancelRefund(status[s])
      BY SchemeAssumption DEF CancelRead, InProgress, CancelRefund
    <2>2. Begin(p, [Idle EXCEPT !.op = "cancelWrite", !.id = s, !.amount = a])
      BY <2>1 DEF CancelRead
    <2>3. QED
      BY <1>1, <2>2, ReqGoes, NewCarries DEF Begin, ReqOps, CancelOps
  <1>3. clean' \in BOOLEAN
    BY <1>1 DEF TypeOK, Begin, CancelRead
  <1>4. begun' \in 0..MaxRequests
    BY <1>1, SchemeAssumption DEF TypeOK, Begin, CancelRead
  <1>5. TypeOK'
    BY <1>1, <1>2, <1>3, <1>4
    DEF CancelRead, table, giveBacks, flags, Calm, ReqTo, Goto, Go, Finish, Begin, StatusTo,
        JobTo, RefundTo, WorkTo, FailTo, TypeOK, ReqOps, FailOps, WorkOps, JobStates
  <1>6. QED
    BY <1>1, <1>2, <1>3, <1>4, <1>5
    DEF CancelRead, table, giveBacks, flags, Calm, ReqTo, Goto, Go, Finish, Begin, StatusTo,
        JobTo, RefundTo, WorkTo, FailTo

LEMMA CancelWriteDoes ==
  ASSUME Base, NEW p \in Requests, CancelWrite(p)
  PROVE  /\ TypeOK'
         /\ req[p].op = "cancelWrite" /\ req[p].id \in Schemes
         /\ \/ ReqTo(p, "refundRead", req[p].id, req[p].amount, req[p].take)
            \/ ReqTo(p, "idle", 0, 0, 0)
         /\ StatusTo(req[p].id, "CANCELLED")
         /\ clean' = clean /\ Calm
         /\ UNCHANGED <<key, job, used, refunded, returned, racy, early>>
  <1>1. TypeOK /\ Placed
    BY DEF Base
  <1>2. \/ ReqTo(p, "refundRead", req[p].id, req[p].amount, req[p].take)
        \/ ReqTo(p, "idle", 0, 0, 0)
    BY <1>1, ReqGoes, OpCarries, IdleCarries
    DEF CancelWrite, Go, Goto, Finish, TypeOK, ReqOps, SetupOps, CancelOps, RefundOps
  <1>3. StatusTo(req[p].id, "CANCELLED")
    BY <1>1, StatusGoes DEF CancelWrite, Go, Finish, Goto, Placed, Statuses, CancelOps
  <1>4. TypeOK'
    BY <1>1, <1>2, <1>3
    DEF CancelWrite, Placed, CancelOps, table, giveBacks, flags, Calm, ReqTo, Goto, Go,
        Finish, Begin, StatusTo, JobTo, RefundTo, WorkTo, FailTo, TypeOK, ReqOps,
        FailOps, WorkOps, JobStates
  <1>5. QED
    BY <1>1, <1>2, <1>3, <1>4
    DEF CancelWrite, Placed, CancelOps, table, giveBacks, flags, Calm, ReqTo, Goto, Go,
        Finish, Begin, StatusTo, JobTo, RefundTo, WorkTo, FailTo

LEMMA CancelRefundReadDoes ==
  ASSUME Base, NEW p \in Requests, CancelRefundRead(p)
  PROVE  /\ TypeOK'
         /\ req[p].op = "refundRead"
         /\ \E t \in Int : t <= req[p].amount /\ ReqTo(p, "refundWrite", req[p].id, req[p].amount, t)
         /\ clean' = clean /\ Calm
         /\ UNCHANGED <<status, key, job, used, refunded, returned, racy, early>>
  <1>1. TypeOK /\ Placed
    BY DEF Base
  <1>2. \E t \in Int : t <= req[p].amount /\ ReqTo(p, "refundWrite", req[p].id, req[p].amount, t)
    <2>1. PICK t \in Int : t = Takes(req[p].amount) /\ t <= req[p].amount
      BY <1>1, SchemeAssumption DEF Takes, TypeOK, Handler
    <2>2. Goto(p, "refundRead", [req[p] EXCEPT !.op = "refundWrite", !.take = t])
      BY <2>1 DEF CancelRefundRead
    <2>3. req[p] \in Handler(ReqOps) /\ "refundWrite" \in ReqOps
      BY <1>1 DEF TypeOK, ReqOps, CancelOps, RefundOps
    <2>4. QED
      BY <1>1, <2>1, <2>2, <2>3, ReqGoes, TakeCarries DEF Goto
  <1>3. TypeOK'
    BY <1>1, <1>2
    DEF CancelRefundRead, table, giveBacks, flags, Calm, ReqTo, Goto, Go, Finish, Begin,
        StatusTo, JobTo, RefundTo, WorkTo, FailTo, TypeOK, ReqOps, FailOps, WorkOps,
        JobStates
  <1>4. QED
    BY <1>1, <1>2, <1>3
    DEF CancelRefundRead, table, giveBacks, flags, Calm, ReqTo, Goto, Go, Finish, Begin,
        StatusTo, JobTo, RefundTo, WorkTo, FailTo

LEMMA CancelRefundWriteDoes ==
  ASSUME Base, NEW p \in Requests, CancelRefundWrite(p)
  PROVE  /\ TypeOK'
         /\ req[p].op = "refundWrite" /\ req[p].id \in Schemes
         /\ ReqTo(p, "idle", 0, 0, 0)
         /\ RefundTo(req[p].id, req[p].take) /\ used' = used - req[p].take /\ used' \in Int /\ returned' \in Int
         /\ clean' = clean /\ Calm
         /\ UNCHANGED <<status, key, job, racy, early>>
  <1>1. TypeOK /\ Placed
    BY DEF Base
  <1>2. ReqTo(p, "idle", 0, 0, 0)
    BY <1>1, ReqGoes, IdleCarries DEF CancelRefundWrite, Goto, Finish
  <1>3. RefundTo(req[p].id, req[p].take) /\ used' = used - req[p].take /\ used' \in Int /\ returned' \in Int
    BY <1>1, RefundGoes
    DEF CancelRefundWrite, Goto, Finish, Placed, CancelOps, RefundOps, TypeOK, Handler
  <1>4. TypeOK'
    BY <1>1, <1>2, <1>3
    DEF CancelRefundWrite, Placed, CancelOps, RefundOps, table, giveBacks, flags, Calm,
        ReqTo, Goto, Go, Finish, Begin, StatusTo, JobTo, RefundTo, WorkTo, FailTo,
        TypeOK, ReqOps, FailOps, WorkOps, JobStates
  <1>5. QED
    BY <1>1, <1>2, <1>3, <1>4
    DEF CancelRefundWrite, Placed, CancelOps, RefundOps, table, giveBacks, flags, Calm,
        ReqTo, Goto, Go, Finish, Begin, StatusTo, JobTo, RefundTo, WorkTo, FailTo

-----------------------------------------------------------------------------
\* The three ways a step of the worker ends.
Goes(to) == WorkTo(to, work.id) /\ UNCHANGED <<job, fail>>

Ends ==
  WorkTo("idle", 0) /\ JobTo(work.id, "completed", job[work.id].made) /\ UNCHANGED fail

Throws(refused) ==
  LET s == work.id IN
  /\ WorkTo("idle", 0)
  /\ JobTo(s, IF Final(s) THEN "failed" ELSE "waiting", job[s].made + 1)
  /\ IF refused \/ Final(s) THEN \E a \in 0..Total : FailTo(s, "read", a, 0)
     ELSE UNCHANGED fail

\* What a step of the worker leaves alone.
Alone == UNCHANGED <<key, used, req, faults, refunded, returned, racy, early, clean>>

LEMMA WorkerDoes ==
  ASSUME Base, NEW from \in WorkOps, NEW to \in WorkOps, Worker(from, to),
         status' \in [Schemes -> Statuses]
  PROVE  TypeOK' /\ work.id \in Schemes /\ Goes(to) /\ Alone
  <1>1. WorkTo(to, work.id)
    <2>1. work \in Handler(WorkOps) /\ work' = [work EXCEPT !.op = to]
      BY DEF Worker, Base, TypeOK, WorkOps
    <2>2. PICK r \in Handler(WorkOps) :
            r = [work EXCEPT !.op = to] /\ Carries(r, to, work.id, work.amount, work.take)
      BY <2>1, OpCarries
    <2>3. QED
      BY <2>1, <2>2 DEF WorkTo, Carries
  <1>2. work.id \in Schemes /\ Alone /\ UNCHANGED <<job, fail, begun>>
    BY DEF Base, Placed, Worker, WorkOps, Alone, giveBacks, flags
  <1>3. TypeOK'
    BY <1>1, <1>2 DEF Base, TypeOK, WorkTo, WorkOps, Alone
  <1>4. QED
    BY <1>1, <1>2, <1>3 DEF Goes

LEMMA JobOverDoes ==
  ASSUME Base, NEW from \in WorkOps, JobOver(from), status' \in [Schemes -> Statuses]
  PROVE  TypeOK' /\ work.id \in Schemes /\ Ends /\ Alone
  <1>1. WorkTo("idle", 0)
    BY IdleCarries DEF JobOver, WorkTo, Carries
  <1>2. work.id \in Schemes /\ Alone /\ UNCHANGED <<fail, begun>>
    BY DEF Base, Placed, JobOver, WorkOps, Alone, giveBacks, flags
  <1>3. JobTo(work.id, "completed", job[work.id].made)
    BY <1>2, JobGoes DEF Base, JobOver
  <1>4. TypeOK'
    BY <1>1, <1>2, <1>3 DEF Base, TypeOK, WorkTo, WorkOps, JobTo, JobStates, Alone
  <1>5. QED
    BY <1>1, <1>2, <1>3, <1>4 DEF Ends

LEMMA AttemptFailsDoes ==
  ASSUME Base, NEW from \in WorkOps, NEW refused \in BOOLEAN, AttemptFails(from, refused),
         status' \in [Schemes -> Statuses]
  PROVE  TypeOK' /\ work.id \in Schemes /\ Throws(refused) /\ Alone
  <1> DEFINE st == IF Final(work.id) THEN "failed" ELSE "waiting"
             m == job[work.id].made + 1
  <1>1. WorkTo("idle", 0)
    BY IdleCarries DEF AttemptFails, WorkTo, Carries
  <1>2. work.id \in Schemes /\ Alone /\ UNCHANGED begun
    BY DEF Base, Placed, AttemptFails, WorkOps, Alone, giveBacks, flags
  <1>3. JobTo(work.id, st, m)
    <2>1. work.op # "idle"
      BY DEF AttemptFails, WorkOps
    <2>2. job[work.id].state = "active" /\ job[work.id].made < Attempts
      BY <1>2, <2>1 DEF Base, Placed, RowOK, Attempting
    <2>3. m \in 0..Attempts
      <3>1. job[work.id] \in JobStates
        BY <1>2 DEF Base, TypeOK, JobStates
      <3>2. job[work.id].made \in 0..Attempts
        BY <3>1 DEF JobStates
      <3>3. QED
        BY <2>2, <3>2, SchemeAssumption
    <2>4. job' = [job EXCEPT ![work.id] = [state |-> st, made |-> m]]
      BY <1>2 DEF AttemptFails, Base, TypeOK
    <2> HIDE DEF m
    <2>5. QED
      BY <1>2, <2>3, <2>4, JobGoes DEF Base
  <1>4. IF refused \/ Final(work.id) THEN \E a \in 0..Total : FailTo(work.id, "read", a, 0)
        ELSE UNCHANGED fail
    <2>1. PICK a \in 0..Total : a = FailRefund(work.id, refused)
      BY SchemeAssumption DEF FailRefund
    <2>2. CASE refused \/ Final(work.id)
      <3>1. fail' = [fail EXCEPT ![work.id] = [Idle EXCEPT !.op = "read", !.id = work.id,
                                                           !.amount = a]]
        BY <2>1, <2>2 DEF AttemptFails
      <3>2. "read" \in FailOps
        BY DEF FailOps
      <3>3. PICK r \in Handler(FailOps) :
              /\ r = [Idle EXCEPT !.op = "read", !.id = work.id, !.amount = a]
              /\ Carries(r, "read", work.id, a, 0)
        <4>1. PICK i \in Schemes : i = work.id
          BY <1>2
        <4>2. /\ [Idle EXCEPT !.op = "read", !.id = i, !.amount = a] \in Handler(FailOps)
              /\ Carries([Idle EXCEPT !.op = "read", !.id = i, !.amount = a], "read", i, a, 0)
          BY <3>2, NewCarries
        <4>3. QED
          BY <4>1, <4>2
      <3>4. FailTo(work.id, "read", a, 0)
        BY <1>2, <3>1, <3>3, FailGoes DEF Base
      <3>5. QED
        BY <2>2, <3>4
    <2>3. CASE ~(refused \/ Final(work.id))
      BY <2>3 DEF AttemptFails
    <2>4. QED
      BY <2>2, <2>3
  <1>5. fail' \in [Schemes -> Handler(FailOps)]
    BY <1>4 DEF FailTo, Base, TypeOK, FailOps
  <1>6. TypeOK'
    BY <1>1, <1>2, <1>3, <1>5
    DEF Base, TypeOK, WorkTo, WorkOps, FailOps, JobTo, JobStates, Alone
  <1>7. QED
    BY <1>1, <1>2, <1>3, <1>4, <1>6 DEF Throws

LEMMA SetStatusDoes ==
  ASSUME Base, NEW st \in Statuses, SetStatus(st), work.op # "idle"
  PROVE  StatusTo(work.id, st)
  BY StatusGoes DEF Base, Placed, SetStatus
-----------------------------------------------------------------------------
LEMMA WorkTakeDoes ==
  ASSUME Base, NEW s \in Schemes, WorkTake(s)
  PROVE  /\ TypeOK'
         /\ work.op = "idle" /\ job[s].state = "waiting" /\ (job[s].made > 0 => BackedOff(s))
         /\ JobTo(s, "active", job[s].made) /\ WorkTo("read", s)
         /\ racy' = IF Cancelling(s) \/ (refunded[s] > 0 /\ status[s] # "CANCELLED")
                    THEN racy \cup {s} ELSE racy
         /\ UNCHANGED <<status, key, used, req, fail, faults, refunded, returned, early, clean>>
  <1>1. TypeOK
    BY DEF Base
  <1>2. JobTo(s, "active", job[s].made)
    BY <1>1, JobGoes DEF WorkTake
  <1>3. WorkTo("read", s)
    <2>1. 0 \in 0..Total /\ "read" \in WorkOps
      BY SchemeAssumption DEF WorkOps
    <2>2. PICK r \in Handler(WorkOps) :
            r = [Idle EXCEPT !.op = "read", !.id = s] /\ Carries(r, "read", s, 0, 0)
      BY <2>1, NewCarries
    <2>3. work' = r
      BY <2>2 DEF WorkTake
    <2>4. QED
      BY <2>2, <2>3 DEF WorkTo, Carries
  <1>4. TypeOK'
    BY <1>1, <1>2, <1>3 DEF TypeOK, WorkTake, JobTo, JobStates, WorkTo, WorkOps, table, giveBacks
  <1>5. QED
    BY <1>2, <1>3, <1>4 DEF WorkTake, table, giveBacks

LEMMA WorkReadDoes ==
  ASSUME Base, WorkRead
  PROVE  /\ TypeOK' /\ work.id \in Schemes /\ Alone
         /\ work.op = "read" /\ UNCHANGED status
         /\ \/ status[work.id] = "none" /\ Throws(FALSE)
            \/ status[work.id] = "CANCELLED" /\ Ends
            \/ status[work.id] \notin {"none", "CANCELLED"} /\ Goes("verifying")
  <1>1. status' \in [Schemes -> Statuses] /\ "read" \in WorkOps /\ "verifying" \in WorkOps
    BY DEF WorkRead, Base, TypeOK, WorkOps
  <1>2. QED
    BY <1>1, WorkerDoes, JobOverDoes, AttemptFailsDoes DEF WorkRead

LEMMA WorkVerifyingDoes ==
  ASSUME Base, WorkVerifying
  PROVE  /\ TypeOK' /\ work.id \in Schemes /\ Alone
         /\ work.op = "verifying" /\ Goes("verify") /\ StatusTo(work.id, "VERIFYING")
  <1>1. "verifying" \in WorkOps /\ "verify" \in WorkOps /\ work.op = "verifying"
    BY DEF WorkVerifying, Worker, WorkOps
  <1>2. StatusTo(work.id, "VERIFYING")
    BY <1>1, SetStatusDoes DEF WorkVerifying, Statuses, InProgress
  <1>3. QED
    BY <1>1, <1>2, WorkerDoes DEF WorkVerifying, StatusTo

LEMMA WorkVerifyDoes ==
  ASSUME Base, WorkVerify
  PROVE  /\ TypeOK' /\ work.id \in Schemes /\ Alone
         /\ work.op = "verify"
         /\ \/ UNCHANGED status /\ (Ends \/ Goes("generating"))
            \/ StatusTo(work.id, "FAILED") /\ \E refused \in BOOLEAN : Throws(refused)
  <1>1. "verify" \in WorkOps /\ "generating" \in WorkOps
    BY DEF WorkOps
  <1>2. CASE /\ work.op = "verify" /\ UNCHANGED status
             /\ JobOver("verify") \/ Worker("verify", "generating")
    BY <1>1, <1>2, WorkerDoes, JobOverDoes DEF Base, TypeOK
  <1>3. ASSUME NEW refused \in BOOLEAN, AttemptFails("verify", refused), SetStatus("FAILED")
        PROVE  /\ TypeOK' /\ work.id \in Schemes /\ Alone /\ work.op = "verify"
               /\ StatusTo(work.id, "FAILED") /\ Throws(refused)
    <2>1. work.op = "verify"
      BY <1>3 DEF AttemptFails
    <2>2. StatusTo(work.id, "FAILED")
      BY <1>3, <2>1, SetStatusDoes DEF Statuses
    <2>3. QED
      BY <1>1, <1>3, <2>1, <2>2, AttemptFailsDoes DEF StatusTo
  <1>4. QED
    BY <1>2, <1>3 DEF WorkVerify

LEMMA WorkGeneratingDoes ==
  ASSUME Base, WorkGenerating
  PROVE  /\ TypeOK' /\ work.id \in Schemes /\ Alone
         /\ work.op = "generating" /\ Goes("generate") /\ StatusTo(work.id, "GENERATING")
  <1>1. "generating" \in WorkOps /\ "generate" \in WorkOps /\ work.op = "generating"
    BY DEF WorkGenerating, Worker, WorkOps
  <1>2. StatusTo(work.id, "GENERATING")
    BY <1>1, SetStatusDoes DEF WorkGenerating, Statuses, InProgress
  <1>3. QED
    BY <1>1, <1>2, WorkerDoes DEF WorkGenerating, StatusTo

\* The weeks are stored, or there are none to store.
Leaves == StatusTo(work.id, "DRAFT") \/ UNCHANGED status

LEMMA WorkGenerateDoes ==
  ASSUME Base, WorkGenerate
  PROVE  /\ TypeOK' /\ work.id \in Schemes /\ Alone
         /\ work.op = "generate"
         /\ \/ Leaves /\ Ends
            \/ StatusTo(work.id, "FAILED") /\ Throws(FALSE)
  <1>1. "generate" \in WorkOps /\ work.op = "generate"
    BY DEF WorkOps, WorkGenerate, NoWeeks, JobOver, AttemptFails
  <1>2. \A st \in {"DRAFT", "FAILED"} : SetStatus(st) => StatusTo(work.id, st)
    BY <1>1, SetStatusDoes DEF Statuses
  <1>3. CASE JobOver("generate") /\ SetStatus("DRAFT")
    BY <1>1, <1>2, <1>3, JobOverDoes DEF StatusTo, Leaves
  <1>6. CASE NoWeeks
    BY <1>1, <1>6, JobOverDoes DEF NoWeeks, Leaves, Base, TypeOK
  <1>4. CASE AttemptFails("generate", FALSE) /\ SetStatus("FAILED")
    BY <1>1, <1>2, <1>4, AttemptFailsDoes DEF StatusTo
  <1>5. QED
    BY <1>3, <1>4, <1>6 DEF WorkGenerate
-----------------------------------------------------------------------------
\* What a step of a listener leaves alone.
Aside == UNCHANGED <<key, job, req, work, faults, racy, early, clean>>

LEMMA ListenerDoes ==
  ASSUME Base, NEW s \in Schemes, NEW from, NEW r \in Handler(FailOps), Listener(s, from, r),
         NEW o, NEW i, NEW a, NEW t, Carries(r, o, i, a, t),
         status' \in [Schemes -> Statuses], used' \in Int, returned' \in Int,
         refunded' \in [Schemes -> Int]
  PROVE  TypeOK' /\ Aside /\ fail[s].op = from /\ FailTo(s, o, a, t)
  <1>1. fail[s].op = from /\ Aside /\ UNCHANGED begun
    BY DEF Listener, Aside, flags
  <1>2. FailTo(s, o, a, t)
    BY FailGoes DEF Base, Listener
  <1>3. TypeOK'
    BY <1>1, <1>2 DEF Base, TypeOK, Aside, FailTo, FailOps
  <1>4. QED
    BY <1>1, <1>2, <1>3

LEMMA FailReadDoes ==
  ASSUME Base, NEW s \in Schemes, FailRead(s)
  PROVE  /\ TypeOK' /\ Aside /\ fail[s].op = "read"
         /\ UNCHANGED <<status, used, refunded, returned>>
         /\ \/ status[s] \in {"none", "CANCELLED"} /\ FailTo(s, "idle", 0, 0)
            \/ /\ status[s] \notin {"none", "CANCELLED"}
               /\ \E o \in {"refundRead", "mark"} : FailTo(s, o, fail[s].amount, fail[s].take)
  <1>1. /\ status' \in [Schemes -> Statuses] /\ used' \in Int /\ returned' \in Int
        /\ refunded' \in [Schemes -> Int] /\ UNCHANGED <<status, used, refunded, returned>>
        /\ fail[s] \in Handler(FailOps)
    BY DEF Base, TypeOK, FailRead, giveBacks, FailOps
  <1>2. CASE ~MayRefund(status[s])
    BY <1>1, <1>2, ListenerDoes, IdleCarries DEF FailRead, MayRefund
  <1>3. CASE MayRefund(status[s])
    <2>1. PICK o \in {"refundRead", "mark"} : Listener(s, "read", [fail[s] EXCEPT !.op = o])
      BY <1>3 DEF FailRead
    <2>2. o \in FailOps
      BY DEF FailOps, RefundOps
    <2>3. QED
      BY <1>1, <1>3, <2>1, <2>2, ListenerDoes, OpCarries DEF MayRefund
  <1>4. QED
    BY <1>2, <1>3

LEMMA FailRefundReadDoes ==
  ASSUME Base, NEW s \in Schemes, FailRefundRead(s)
  PROVE  /\ TypeOK' /\ Aside /\ fail[s].op = "refundRead"
         /\ UNCHANGED <<status, used, refunded, returned>>
         /\ \E t \in Int : t <= fail[s].amount /\ FailTo(s, "refundWrite", fail[s].amount, t)
  <1>1. /\ status' \in [Schemes -> Statuses] /\ used' \in Int /\ returned' \in Int
        /\ refunded' \in [Schemes -> Int] /\ UNCHANGED <<status, used, refunded, returned>>
        /\ fail[s] \in Handler(FailOps) /\ "refundWrite" \in FailOps
    BY DEF Base, TypeOK, FailRefundRead, giveBacks, FailOps, RefundOps
  <1>2. PICK t \in Int : t = Takes(fail[s].amount) /\ t <= fail[s].amount
    BY <1>1, SchemeAssumption DEF Takes, Base, TypeOK, Handler
  <1>3. Listener(s, "refundRead", [fail[s] EXCEPT !.op = "refundWrite", !.take = t])
    BY <1>2 DEF FailRefundRead
  <1>4. PICK r \in Handler(FailOps) :
          /\ r = [fail[s] EXCEPT !.op = "refundWrite", !.take = t]
          /\ Carries(r, "refundWrite", fail[s].id, fail[s].amount, t)
    BY <1>1, <1>2, TakeCarries
  <1>5. QED
    BY <1>1, <1>2, <1>3, <1>4, ListenerDoes

LEMMA FailRefundWriteDoes ==
  ASSUME Base, NEW s \in Schemes, FailRefundWrite(s)
  PROVE  /\ TypeOK' /\ Aside /\ fail[s].op = "refundWrite" /\ UNCHANGED status
         /\ FailTo(s, "mark", fail[s].amount, fail[s].take)
         /\ RefundTo(s, fail[s].take) /\ used' = used - fail[s].take
  <1>1. /\ status' \in [Schemes -> Statuses] /\ UNCHANGED status
        /\ fail[s] \in Handler(FailOps) /\ fail[s].take \in Int /\ "mark" \in FailOps
    BY DEF Base, TypeOK, FailRefundWrite, FailOps, Handler
  <1>2. RefundTo(s, fail[s].take) /\ used' = used - fail[s].take /\ used' \in Int /\ returned' \in Int
    BY <1>1, RefundGoes DEF Base, FailRefundWrite
  <1>3. PICK r \in Handler(FailOps) :
          /\ r = [fail[s] EXCEPT !.op = "mark"]
          /\ Carries(r, "mark", fail[s].id, fail[s].amount, fail[s].take)
    BY <1>1, OpCarries
  <1>4. Listener(s, "refundWrite", r)
    BY <1>3 DEF FailRefundWrite
  <1>5. QED
    BY <1>1, <1>2, <1>3, <1>4, ListenerDoes DEF RefundTo

LEMMA FailMarkDoes ==
  ASSUME Base, NEW s \in Schemes, FailMark(s)
  PROVE  /\ TypeOK' /\ Aside /\ fail[s].op = "mark" /\ UNCHANGED <<used, refunded, returned>>
         /\ FailTo(s, "idle", 0, 0) /\ StatusTo(s, "FAILED")
  <1>1. /\ used' \in Int /\ returned' \in Int
        /\ refunded' \in [Schemes -> Int] /\ UNCHANGED <<used, refunded, returned>>
    BY DEF Base, TypeOK, FailMark, giveBacks
  <1>2. StatusTo(s, "FAILED")
    BY StatusGoes DEF Base, FailMark, Statuses
  <1>3. QED
    BY <1>1, <1>2, ListenerDoes, IdleCarries DEF FailMark, StatusTo
-----------------------------------------------------------------------------
LEMMA FaultDoes ==
  ASSUME Base, NEW p \in Requests, Fault(p)
  PROVE  /\ TypeOK' /\ ReqTo(p, "idle", 0, 0, 0) /\ faults' = faults + 1
         /\ UNCHANGED <<status, key, job, used, work, fail, refunded, returned, racy, early, clean>>
  <1>1. ReqTo(p, "idle", 0, 0, 0)
    BY ReqGoes, IdleCarries DEF Base, Fault
  <1>2. faults' \in 0..MaxFaults
    BY SchemeAssumption DEF Base, TypeOK, Fault
  <1>3. TypeOK'
    BY <1>1, <1>2 DEF Base, TypeOK, Fault, ReqTo, ReqOps, table, giveBacks, flags
  <1>4. QED
    BY <1>1, <1>3 DEF Fault, table, giveBacks, flags

LEMMA RestartDoes ==
  ASSUME Base, Restart
  PROVE  /\ TypeOK' /\ \A p \in Requests : req'[p].op = "idle"
         /\ work'.op = "idle" /\ \A s \in Schemes : fail'[s].op = "idle"
         /\ \A s \in Schemes :
              /\ job'[s].made = job[s].made
              /\ job'[s].state = IF job[s].state = "active" THEN "waiting" ELSE job[s].state
         /\ faults' = faults + 1
         /\ UNCHANGED <<status, key, used, refunded, returned, racy, early, clean>>
  <1>1. Idle.op = "idle" /\ \A ops : Idle \in Handler(ops)
    BY IdleCarries DEF Carries
  <1>2. faults' \in 0..MaxFaults /\ faults' = faults + 1
    BY SchemeAssumption DEF Base, TypeOK, Restart
  <1>3. job \in [Schemes -> JobStates]
    BY DEF Base, TypeOK, JobStates
  <1>4. \A j \in JobStates : /\ [j EXCEPT !.state = "waiting"] \in JobStates
                             /\ [j EXCEPT !.state = "waiting"].made = j.made
                             /\ [j EXCEPT !.state = "waiting"].state = "waiting"
    BY DEF JobStates
  <1>5. /\ job' \in [Schemes -> JobStates]
        /\ \A s \in Schemes :
              /\ job'[s].made = job[s].made
              /\ job'[s].state = IF job[s].state = "active" THEN "waiting" ELSE job[s].state
    BY <1>3, <1>4 DEF Restart
  <1>6. /\ req' = [p \in Requests |-> Idle] /\ work' = Idle /\ fail' = [s \in Schemes |-> Idle]
        /\ UNCHANGED <<status, key, used, begun, refunded, returned, racy, early, clean>>
    BY DEF Restart, table, giveBacks, flags
  <1>7. TypeOK'
    BY <1>1, <1>2, <1>5, <1>6 DEF Base, TypeOK, JobStates
  <1>8. QED
    BY <1>1, <1>2, <1>5, <1>6, <1>7
\* What an attempt that throws leaves of its job and of its listener.
Thrown(refused) ==
  LET w == work.id IN
  /\ work'.op = "idle"
  /\ \A u \in Schemes : u # w => job'[u] = job[u] /\ fail'[u] = fail[u]
  /\ job'[w].made \in Nat /\ job'[w].made > 0
  /\ job'[w].state \in Done \cup {"waiting"}
  /\ job'[w].state \notin Done => job'[w].made < Attempts
  /\ \/ fail'[w] = fail[w]
     \/ /\ fail'[w].op = "read"
        /\ ~refused => job[w].made > 0

LEMMA ThrowsGives ==
  ASSUME Base, work.op # "idle", NEW refused \in BOOLEAN, Throws(refused)
  PROVE  Thrown(refused)
  <1>1. work.id \in Schemes /\ job[work.id] \in JobStates
    BY DEF Base, Placed, TypeOK, JobStates
  <1>2. job[work.id].made \in Nat /\ job[work.id].made < Attempts
    <2>1. job[work.id].made \in Nat
      BY <1>1, SchemeAssumption DEF JobStates
    <2>2. RowOK(work.id)
      BY <1>1 DEF Base, Placed
    <2>3. job[work.id].state = "active"
      BY <2>2 DEF RowOK, Attempting
    <2>4. job[work.id].made < Attempts
      BY <2>2, <2>3 DEF RowOK
    <2>5. QED
      BY <2>1, <2>4
  <1>3. work'.op = "idle" /\ \A u \in Schemes : u # work.id => job'[u] = job[u]
    BY DEF Throws, WorkTo, JobTo
  <1>4. /\ job'[work.id].made \in Nat /\ job'[work.id].made > 0
        /\ job'[work.id].state \in Done \cup {"waiting"}
        /\ job'[work.id].state \notin Done => job'[work.id].made < Attempts
    BY <1>2, SchemeAssumption DEF Throws, JobTo, Final
  <1>5. Final(work.id) => job[work.id].made > 0
    BY <1>2, SchemeAssumption DEF Final
  <1>6. /\ \A u \in Schemes : u # work.id => fail'[u] = fail[u]
        /\ \/ fail'[work.id] = fail[work.id]
           \/ fail'[work.id].op = "read" /\ (~refused => job[work.id].made > 0)
    <2>1. CASE refused \/ Final(work.id)
      BY <1>5, <2>1 DEF Throws, FailTo
    <2>2. CASE ~(refused \/ Final(work.id))
      BY <2>2 DEF Throws
    <2>3. QED
      BY <2>1, <2>2
  <1>7. QED
    BY <1>3, <1>4, <1>6 DEF Thrown
\* A step that leaves the scheme s and its job as they are, and whose handlers
\* of s are as they were or are gone.
LEMMA OnceKept ==
  ASSUME NEW s \in Schemes, OnceOK(s),
         refunded'[s] = refunded[s], status'[s] = status[s], job'[s].made = job[s].made,
         \A p \in Requests : Cancels(p, s)' => req'[p] = req[p],
         \A p \in Requests : Commits(p, s)' => req'[p] = req[p],
         Attempting(s)' => work' = work,
         fail'[s].op # "idle" => fail'[s] = fail[s]
  PROVE  OnceOK(s)'
  <1>1. \A p \in Requests : Cancels(p, s)' => Cancels(p, s)
    BY DEF Cancels
  <1>2. \A p \in Requests : Commits(p, s)' => Commits(p, s)
    BY DEF Commits
  <1>3. Attempting(s)' => Attempting(s)
    BY DEF Attempting
  <1>4. AmountOK(s)'
    BY DEF OnceOK, AmountOK
  <1>5. CancelOK(s)'
    BY <1>1 DEF OnceOK, CancelOK
  <1>6. WorkOK(s)'
    BY <1>2, <1>3 DEF OnceOK, WorkOK
  <1>7. ListenOK(s)'
    BY <1>2 DEF OnceOK, ListenOK
  <1>8. QED
    BY <1>4, <1>5, <1>6, <1>7 DEF OnceOK
-----------------------------------------------------------------------------
LEMMA TypeStep == ASSUME Base, [Next]_vars PROVE TypeOK'
  <1>1. ASSUME NEW p \in Requests, Setup(p) \/ Cancel(p) PROVE TypeOK'
    BY <1>1, SetupArchiveDoes, SetupFreeKeyDoes, UseReadDoes, UseWriteDoes, SetupCreateDoes,
       SetupCommitDoes, CancelWriteDoes, CancelRefundReadDoes, CancelRefundWriteDoes
    DEF Setup, Cancel
  <1>2. CASE Work
    BY <1>2, WorkReadDoes, WorkVerifyingDoes, WorkVerifyDoes, WorkGeneratingDoes,
       WorkGenerateDoes
    DEF Work
  <1>3. ASSUME NEW s \in Schemes, WorkTake(s) \/ Fail(s) PROVE TypeOK'
    BY <1>3, WorkTakeDoes, FailReadDoes, FailRefundReadDoes, FailRefundWriteDoes, FailMarkDoes
    DEF Fail
  <1>4. ASSUME NEW p \in Requests, SetupRead(p) \/ Fault(p) \/ \E s \in Schemes : CancelRead(p, s)
        PROVE  TypeOK'
    BY <1>4, SetupReadDoes, FaultDoes, CancelReadDoes
  <1>5. CASE Restart
    BY <1>5, RestartDoes
  <1>6. CASE UNCHANGED vars
    BY <1>6 DEF Base, TypeOK, vars
  <1>7. QED
    BY <1>1, <1>2, <1>3, <1>4, <1>5, <1>6 DEF Next, EventLoop

LEMMA PlacedStep ==
  ASSUME Base, [Next]_vars
  PROVE  Placed'
  <1>1. ASSUME NEW p \in Requests, SetupRead(p) PROVE Placed'
    BY <1>1, SetupReadDoes
    DEF ReqTo, Carries, Calm, Base, Placed, RowOK, Attempting, CancelOps, RefundOps, SetupOps,
        Refunding, Live, Unused, InProgress, Commits
  <1>2. ASSUME NEW p \in Requests, SetupArchive(p) PROVE Placed'
    BY <1>2, SetupArchiveDoes
    DEF ReqTo, Carries, StatusTo, Calm, Base, Placed, RowOK, Attempting, CancelOps, RefundOps,
        SetupOps, Refunding, Live, Unused, InProgress, Commits
  <1>3. ASSUME NEW p \in Requests, SetupFreeKey(p) PROVE Placed'
    BY <1>3, SetupFreeKeyDoes
    DEF ReqTo, Carries, Calm, Base, Placed, RowOK, Attempting, CancelOps, RefundOps, SetupOps,
        Refunding, Live, Unused, InProgress, Commits
  <1>4. ASSUME NEW p \in Requests, UseRead(p) PROVE Placed'
    BY <1>4, UseReadDoes
    DEF ReqTo, Carries, Calm, Base, Placed, RowOK, Attempting, CancelOps, RefundOps, SetupOps,
        Refunding, Live, Unused, InProgress, Commits
  <1>5. ASSUME NEW p \in Requests, UseWrite(p) PROVE Placed'
    BY <1>5, UseWriteDoes
    DEF ReqTo, Carries, Calm, Base, Placed, RowOK, Attempting, CancelOps, RefundOps, SetupOps,
        Refunding, Live, Unused, InProgress, Commits
  <1>6. ASSUME NEW p \in Requests, SetupCreate(p) PROVE Placed'
    BY <1>6, SetupCreateDoes
    DEF ReqTo, Carries, JobTo, Calm, Base, Placed, RowOK, Attempting, CancelOps, RefundOps,
        SetupOps, Refunding, Live, Unused, InProgress, Commits
  <1>7. ASSUME NEW p \in Requests, SetupCommit(p) PROVE Placed'
    BY <1>7, SetupCommitDoes
    DEF ReqTo, Carries, StatusTo, Calm, Base, Placed, RowOK, Attempting, CancelOps, RefundOps,
        SetupOps, Refunding, Live, Unused, InProgress, Commits
  <1>8. ASSUME NEW p \in Requests, CancelWrite(p) PROVE Placed'
    BY <1>8, CancelWriteDoes
    DEF ReqTo, Carries, StatusTo, Calm, Base, Placed, RowOK, Attempting, CancelOps, RefundOps,
        SetupOps, Refunding, Live, Unused, InProgress, Commits
  <1>9. ASSUME NEW p \in Requests, CancelRefundRead(p) PROVE Placed'
    BY <1>9, CancelRefundReadDoes
    DEF ReqTo, Carries, Calm, Base, Placed, RowOK, Attempting, CancelOps, RefundOps, SetupOps,
        Refunding, Live, Unused, InProgress, Commits
  <1>10. ASSUME NEW p \in Requests, CancelRefundWrite(p) PROVE Placed'
    BY <1>10, CancelRefundWriteDoes
    DEF ReqTo, Carries, RefundTo, Calm, Base, Placed, RowOK, Attempting, CancelOps, RefundOps,
        SetupOps, Refunding, Live, Unused, InProgress, Commits
  <1>11. ASSUME NEW p \in Requests, NEW s \in Schemes, CancelRead(p, s) PROVE Placed'
    BY <1>11, CancelReadDoes
    DEF ReqTo, Carries, Calm, Base, Placed, RowOK, Attempting, CancelOps, RefundOps, SetupOps,
        Refunding, Live, Unused, InProgress, Commits
  <1>12. ASSUME NEW s \in Schemes, WorkTake(s) PROVE Placed'
    BY <1>12, WorkTakeDoes
    DEF WorkTo, JobTo, Base, Placed, RowOK, Attempting, CancelOps, RefundOps, SetupOps,
        Refunding, Live, Unused, InProgress, Commits
  <1>13. ASSUME WorkRead PROVE Placed'
    <2>1. TypeOK' /\ work.id \in Schemes /\ Alone /\ work.op = "read"
      BY <1>13, WorkReadDoes
    <2>2. CASE UNCHANGED status /\ status[work.id] = "none" /\ Throws(FALSE)
      <3>1. Thrown(FALSE)
        BY <1>13, <2>1, <2>2, ThrowsGives
      <3>2. ASSUME NEW u \in Schemes PROVE RowOK(u)'
        <4>1. RowOK(u)
          BY DEF Base, Placed
        <4>2. CASE u = work.id
          BY <2>1, <2>2, <3>1, <4>1, <4>2, SchemeAssumption
          DEF Thrown, StatusTo, Alone, RowOK, Attempting, CancelOps, RefundOps, Refunding,
              Commits
        <4>3. CASE u # work.id
          BY <2>1, <2>2, <3>1, <4>1, <4>3
          DEF Thrown, StatusTo, Alone, RowOK, Attempting, CancelOps, RefundOps, Refunding,
              Commits
        <4>4. QED
          BY <4>2, <4>3
      <3>3. QED
        BY <2>1, <2>2, <3>1, <3>2
        DEF Thrown, StatusTo, Alone, RowOK, Attempting, Base, Placed, Commits, CancelOps,
            RefundOps
    <2>3. CASE UNCHANGED status /\ status[work.id] = "CANCELLED" /\ Ends
      <3>1. ASSUME NEW u \in Schemes PROVE RowOK(u)'
        <4>1. RowOK(u)
          BY DEF Base, Placed
        <4>2. CASE u = work.id
          BY <2>1, <2>3, <4>1, <4>2, SchemeAssumption
          DEF Ends, Goes, WorkTo, JobTo, StatusTo, Alone, RowOK, Attempting, CancelOps,
              RefundOps, Refunding, Commits
        <4>3. CASE u # work.id
          BY <2>1, <2>3, <4>1, <4>3
          DEF Ends, Goes, WorkTo, JobTo, StatusTo, Alone, RowOK, Attempting, CancelOps,
              RefundOps, Refunding, Commits
        <4>4. QED
          BY <4>2, <4>3
      <3>2. QED
        BY <2>1, <2>3, <3>1
        DEF Ends, Goes, WorkTo, JobTo, StatusTo, Alone, RowOK, Attempting, Base, Placed,
            Commits, CancelOps, RefundOps
    <2>4. CASE UNCHANGED status /\ status[work.id] \notin {"none", "CANCELLED"} /\ Goes("verifying")
      <3>1. ASSUME NEW u \in Schemes PROVE RowOK(u)'
        <4>1. RowOK(u)
          BY DEF Base, Placed
        <4>2. CASE u = work.id
          BY <2>1, <2>4, <4>1, <4>2, SchemeAssumption
          DEF Ends, Goes, WorkTo, JobTo, StatusTo, Alone, RowOK, Attempting, CancelOps,
              RefundOps, Refunding, Commits
        <4>3. CASE u # work.id
          BY <2>1, <2>4, <4>1, <4>3
          DEF Ends, Goes, WorkTo, JobTo, StatusTo, Alone, RowOK, Attempting, CancelOps,
              RefundOps, Refunding, Commits
        <4>4. QED
          BY <4>2, <4>3
      <3>2. QED
        BY <2>1, <2>4, <3>1
        DEF Ends, Goes, WorkTo, JobTo, StatusTo, Alone, RowOK, Attempting, Base, Placed,
            Commits, CancelOps, RefundOps
    <2>5. QED
      BY <1>13, <2>2, <2>3, <2>4, WorkReadDoes
  <1>14. ASSUME WorkVerifying PROVE Placed'
    BY <1>14, WorkVerifyingDoes
    DEF WorkTo, StatusTo, Goes, Alone, Base, Placed, RowOK, Attempting, CancelOps, RefundOps,
        SetupOps, Refunding, Live, Unused, InProgress, Commits
  <1>15. ASSUME WorkVerify PROVE Placed'
    <2>1. TypeOK' /\ work.id \in Schemes /\ Alone /\ work.op = "verify"
      BY <1>15, WorkVerifyDoes
    <2>2. CASE UNCHANGED status /\ Ends
      <3>1. ASSUME NEW u \in Schemes PROVE RowOK(u)'
        <4>1. RowOK(u)
          BY DEF Base, Placed
        <4>2. CASE u = work.id
          BY <2>1, <2>2, <4>1, <4>2, SchemeAssumption
          DEF Ends, Goes, WorkTo, JobTo, StatusTo, Alone, RowOK, Attempting, CancelOps,
              RefundOps, Refunding, Commits
        <4>3. CASE u # work.id
          BY <2>1, <2>2, <4>1, <4>3
          DEF Ends, Goes, WorkTo, JobTo, StatusTo, Alone, RowOK, Attempting, CancelOps,
              RefundOps, Refunding, Commits
        <4>4. QED
          BY <4>2, <4>3
      <3>2. QED
        BY <2>1, <2>2, <3>1
        DEF Ends, Goes, WorkTo, JobTo, StatusTo, Alone, RowOK, Attempting, Base, Placed,
            Commits, CancelOps, RefundOps
    <2>3. CASE UNCHANGED status /\ Goes("generating")
      <3>1. ASSUME NEW u \in Schemes PROVE RowOK(u)'
        <4>1. RowOK(u)
          BY DEF Base, Placed
        <4>2. CASE u = work.id
          BY <2>1, <2>3, <4>1, <4>2, SchemeAssumption
          DEF Ends, Goes, WorkTo, JobTo, StatusTo, Alone, RowOK, Attempting, CancelOps,
              RefundOps, Refunding, Commits
        <4>3. CASE u # work.id
          BY <2>1, <2>3, <4>1, <4>3
          DEF Ends, Goes, WorkTo, JobTo, StatusTo, Alone, RowOK, Attempting, CancelOps,
              RefundOps, Refunding, Commits
        <4>4. QED
          BY <4>2, <4>3
      <3>2. QED
        BY <2>1, <2>3, <3>1
        DEF Ends, Goes, WorkTo, JobTo, StatusTo, Alone, RowOK, Attempting, Base, Placed,
            Commits, CancelOps, RefundOps
    <2>4. CASE StatusTo(work.id, "FAILED") /\ Throws(TRUE)
      <3>1. Thrown(TRUE)
        BY <1>15, <2>1, <2>4, ThrowsGives
      <3>2. ASSUME NEW u \in Schemes PROVE RowOK(u)'
        <4>1. RowOK(u)
          BY DEF Base, Placed
        <4>2. CASE u = work.id
          BY <2>1, <2>4, <3>1, <4>1, <4>2, SchemeAssumption
          DEF Thrown, StatusTo, Alone, RowOK, Attempting, CancelOps, RefundOps, Refunding,
              Commits
        <4>3. CASE u # work.id
          BY <2>1, <2>4, <3>1, <4>1, <4>3
          DEF Thrown, StatusTo, Alone, RowOK, Attempting, CancelOps, RefundOps, Refunding,
              Commits
        <4>4. QED
          BY <4>2, <4>3
      <3>3. QED
        BY <2>1, <2>4, <3>1, <3>2
        DEF Thrown, StatusTo, Alone, RowOK, Attempting, Base, Placed, Commits, CancelOps,
            RefundOps
    <2>5. CASE StatusTo(work.id, "FAILED") /\ Throws(FALSE)
      <3>1. Thrown(FALSE)
        BY <1>15, <2>1, <2>5, ThrowsGives
      <3>2. ASSUME NEW u \in Schemes PROVE RowOK(u)'
        <4>1. RowOK(u)
          BY DEF Base, Placed
        <4>2. CASE u = work.id
          BY <2>1, <2>5, <3>1, <4>1, <4>2, SchemeAssumption
          DEF Thrown, StatusTo, Alone, RowOK, Attempting, CancelOps, RefundOps, Refunding,
              Commits
        <4>3. CASE u # work.id
          BY <2>1, <2>5, <3>1, <4>1, <4>3
          DEF Thrown, StatusTo, Alone, RowOK, Attempting, CancelOps, RefundOps, Refunding,
              Commits
        <4>4. QED
          BY <4>2, <4>3
      <3>3. QED
        BY <2>1, <2>5, <3>1, <3>2
        DEF Thrown, StatusTo, Alone, RowOK, Attempting, Base, Placed, Commits, CancelOps,
            RefundOps
    <2>6. QED
      BY <1>15, <2>2, <2>3, <2>4, <2>5, WorkVerifyDoes
  <1>16. ASSUME WorkGenerating PROVE Placed'
    BY <1>16, WorkGeneratingDoes
    DEF WorkTo, StatusTo, Goes, Alone, Base, Placed, RowOK, Attempting, CancelOps, RefundOps,
        SetupOps, Refunding, Live, Unused, InProgress, Commits
  <1>17. ASSUME WorkGenerate PROVE Placed'
    <2>1. TypeOK' /\ work.id \in Schemes /\ Alone /\ work.op = "generate"
      BY <1>17, WorkGenerateDoes
    <2>2. CASE Leaves /\ Ends
      <3>1. ASSUME NEW u \in Schemes PROVE RowOK(u)'
        <4>1. RowOK(u)
          BY DEF Base, Placed
        <4>2. CASE u = work.id
          BY <2>1, <2>2, <4>1, <4>2, SchemeAssumption
          DEF Ends, Leaves, Goes, WorkTo, JobTo, StatusTo, Alone, RowOK, Attempting, CancelOps,
              RefundOps, Refunding, Commits
        <4>3. CASE u # work.id
          BY <2>1, <2>2, <4>1, <4>3
          DEF Ends, Leaves, Goes, WorkTo, JobTo, StatusTo, Alone, RowOK, Attempting, CancelOps,
              RefundOps, Refunding, Commits
        <4>4. QED
          BY <4>2, <4>3
      <3>2. QED
        BY <2>1, <2>2, <3>1
        DEF Ends, Leaves, Goes, WorkTo, JobTo, StatusTo, Alone, RowOK, Attempting, Base, Placed,
            Commits, CancelOps, RefundOps
    <2>3. CASE StatusTo(work.id, "FAILED") /\ Throws(FALSE)
      <3>1. Thrown(FALSE)
        BY <1>17, <2>1, <2>3, ThrowsGives
      <3>2. ASSUME NEW u \in Schemes PROVE RowOK(u)'
        <4>1. RowOK(u)
          BY DEF Base, Placed
        <4>2. CASE u = work.id
          BY <2>1, <2>3, <3>1, <4>1, <4>2, SchemeAssumption
          DEF Thrown, StatusTo, Alone, RowOK, Attempting, CancelOps, RefundOps, Refunding,
              Commits
        <4>3. CASE u # work.id
          BY <2>1, <2>3, <3>1, <4>1, <4>3
          DEF Thrown, StatusTo, Alone, RowOK, Attempting, CancelOps, RefundOps, Refunding,
              Commits
        <4>4. QED
          BY <4>2, <4>3
      <3>3. QED
        BY <2>1, <2>3, <3>1, <3>2
        DEF Thrown, StatusTo, Alone, RowOK, Attempting, Base, Placed, Commits, CancelOps,
            RefundOps
    <2>4. QED
      BY <1>17, <2>2, <2>3, WorkGenerateDoes
  <1>18. ASSUME NEW s \in Schemes, FailRead(s) PROVE Placed'
    BY <1>18, FailReadDoes
    DEF FailTo, Aside, Base, Placed, RowOK, Attempting, CancelOps, RefundOps, SetupOps,
        Refunding, Live, Unused, InProgress, Commits
  <1>19. ASSUME NEW s \in Schemes, FailRefundRead(s) PROVE Placed'
    BY <1>19, FailRefundReadDoes
    DEF FailTo, Aside, Base, Placed, RowOK, Attempting, CancelOps, RefundOps, SetupOps,
        Refunding, Live, Unused, InProgress, Commits
  <1>20. ASSUME NEW s \in Schemes, FailRefundWrite(s) PROVE Placed'
    BY <1>20, FailRefundWriteDoes
    DEF FailTo, RefundTo, Aside, Base, Placed, RowOK, Attempting, CancelOps, RefundOps,
        SetupOps, Refunding, Live, Unused, InProgress, Commits
  <1>21. ASSUME NEW s \in Schemes, FailMark(s) PROVE Placed'
    BY <1>21, FailMarkDoes
    DEF FailTo, StatusTo, Aside, Base, Placed, RowOK, Attempting, CancelOps, RefundOps,
        SetupOps, Refunding, Live, Unused, InProgress, Commits
  <1>22. ASSUME NEW p \in Requests, Fault(p) PROVE Placed'
    BY <1>22, FaultDoes
    DEF ReqTo, Carries, Base, Placed, RowOK, Attempting, CancelOps, RefundOps, SetupOps,
        Refunding, Live, Unused, InProgress, Commits
  <1>23. ASSUME Restart PROVE Placed'
    BY <1>23, RestartDoes
    DEF Base, Placed, RowOK, Attempting, CancelOps, RefundOps, SetupOps, Refunding, Live,
        Unused, InProgress, Commits
  <1>24. CASE UNCHANGED vars
    BY <1>24
    DEF vars, Base, Placed, RowOK, Attempting, CancelOps, RefundOps, SetupOps, Refunding,
        Live, Unused, InProgress, Commits
  <1>25. QED
    BY <1>1, <1>2, <1>3, <1>4, <1>5, <1>6, <1>7, <1>8, <1>9, <1>10, <1>11, <1>12, <1>13,
       <1>14, <1>15, <1>16, <1>17, <1>18, <1>19, <1>20, <1>21, <1>22, <1>23, <1>24
    DEF Next, EventLoop, Work, Setup, Cancel, Fail

LEMMA FinalStep ==
  ASSUME Base, FinalInv, [Next]_vars
  PROVE  FinalInv'
  <1>1. ASSUME NEW p \in Requests, SetupRead(p) PROVE FinalInv'
    BY <1>1, SetupReadDoes
    DEF ReqTo, Carries, Calm, Base, Placed, RowOK, Attempting, Cancelling, CancelOps, RefundOps,
        SetupOps, Refunding, InProgress, Cancels, Commits, FinalInv, FinalOK
  <1>2. ASSUME NEW p \in Requests, SetupArchive(p) PROVE FinalInv'
    BY <1>2, SetupArchiveDoes
    DEF ReqTo, Carries, StatusTo, Calm, Base, Placed, RowOK, Attempting, Cancelling, CancelOps,
        RefundOps, SetupOps, Refunding, InProgress, Cancels, Commits, FinalInv, FinalOK
  <1>3. ASSUME NEW p \in Requests, SetupFreeKey(p) PROVE FinalInv'
    BY <1>3, SetupFreeKeyDoes
    DEF ReqTo, Carries, Calm, Base, Placed, RowOK, Attempting, Cancelling, CancelOps, RefundOps,
        SetupOps, Refunding, InProgress, Cancels, Commits, FinalInv, FinalOK
  <1>4. ASSUME NEW p \in Requests, UseRead(p) PROVE FinalInv'
    BY <1>4, UseReadDoes
    DEF ReqTo, Carries, Calm, Base, Placed, RowOK, Attempting, Cancelling, CancelOps, RefundOps,
        SetupOps, Refunding, InProgress, Cancels, Commits, FinalInv, FinalOK
  <1>5. ASSUME NEW p \in Requests, UseWrite(p) PROVE FinalInv'
    BY <1>5, UseWriteDoes
    DEF ReqTo, Carries, Calm, Base, Placed, RowOK, Attempting, Cancelling, CancelOps, RefundOps,
        SetupOps, Refunding, InProgress, Cancels, Commits, FinalInv, FinalOK
  <1>6. ASSUME NEW p \in Requests, SetupCreate(p) PROVE FinalInv'
    BY <1>6, SetupCreateDoes
    DEF ReqTo, Carries, JobTo, Calm, Base, Placed, RowOK, Attempting, Cancelling, CancelOps,
        RefundOps, SetupOps, Refunding, InProgress, Cancels, Commits, FinalInv, FinalOK
  <1>7. ASSUME NEW p \in Requests, SetupCommit(p) PROVE FinalInv'
    BY <1>7, SetupCommitDoes
    DEF ReqTo, Carries, StatusTo, Calm, Base, Placed, RowOK, Attempting, Cancelling, CancelOps,
        RefundOps, SetupOps, Refunding, InProgress, Cancels, Commits, FinalInv, FinalOK
  <1>8. ASSUME NEW p \in Requests, CancelWrite(p) PROVE FinalInv'
    BY <1>8, CancelWriteDoes
    DEF ReqTo, Carries, StatusTo, Calm, Base, Placed, RowOK, Attempting, Cancelling, CancelOps,
        RefundOps, SetupOps, Refunding, InProgress, Cancels, Commits, FinalInv, FinalOK
  <1>9. ASSUME NEW p \in Requests, CancelRefundRead(p) PROVE FinalInv'
    BY <1>9, CancelRefundReadDoes
    DEF ReqTo, Carries, Calm, Base, Placed, RowOK, Attempting, Cancelling, CancelOps, RefundOps,
        SetupOps, Refunding, InProgress, Cancels, Commits, FinalInv, FinalOK
  <1>10. ASSUME NEW p \in Requests, CancelRefundWrite(p) PROVE FinalInv'
    BY <1>10, CancelRefundWriteDoes
    DEF ReqTo, Carries, RefundTo, Calm, Base, Placed, RowOK, Attempting, Cancelling, CancelOps,
        RefundOps, SetupOps, Refunding, InProgress, Cancels, Commits, FinalInv, FinalOK
  <1>11. ASSUME NEW p \in Requests, NEW s \in Schemes, CancelRead(p, s) PROVE FinalInv'
    BY <1>11, CancelReadDoes
    DEF ReqTo, Carries, Calm, Base, Placed, RowOK, Attempting, Cancelling, CancelOps, RefundOps,
        SetupOps, Refunding, InProgress, Cancels, Commits, FinalInv, FinalOK
  <1>12. ASSUME NEW s \in Schemes, WorkTake(s) PROVE FinalInv'
    BY <1>12, WorkTakeDoes
    DEF WorkTo, JobTo, Base, Placed, RowOK, Attempting, Cancelling, CancelOps, RefundOps,
        SetupOps, Refunding, InProgress, Cancels, Commits, FinalInv, FinalOK
  <1>13. ASSUME WorkRead PROVE FinalInv'
    <2>1. TypeOK' /\ work.id \in Schemes /\ Alone /\ work.op = "read"
      BY <1>13, WorkReadDoes
    <2>2. CASE UNCHANGED status /\ status[work.id] = "none" /\ Throws(FALSE)
      <3>1. Thrown(FALSE)
        BY <1>13, <2>1, <2>2, ThrowsGives
      <3>2. QED
        BY <2>1, <2>2, <3>1, SchemeAssumption
        DEF Thrown, StatusTo, Alone, Base, Placed, RowOK, Attempting, Cancelling, CancelOps,
            RefundOps, SetupOps, Refunding, InProgress, Cancels, Commits, FinalInv, FinalOK
    <2>3. CASE UNCHANGED status /\ status[work.id] = "CANCELLED" /\ Ends
      BY <2>1, <2>3, SchemeAssumption
      DEF ReqTo, Carries, StatusTo, JobTo, RefundTo, FailTo, WorkTo, Calm, Alone, Aside, Goes,
          Ends, Throws, Final, Base, Placed, RowOK, Attempting, Cancelling, CancelOps,
          RefundOps, SetupOps, Refunding, InProgress, Cancels, Commits, FinalInv, FinalOK
    <2>4. CASE UNCHANGED status /\ status[work.id] \notin {"none", "CANCELLED"} /\ Goes("verifying")
      BY <2>1, <2>4, SchemeAssumption
      DEF ReqTo, Carries, StatusTo, JobTo, RefundTo, FailTo, WorkTo, Calm, Alone, Aside, Goes,
          Ends, Throws, Final, Base, Placed, RowOK, Attempting, Cancelling, CancelOps,
          RefundOps, SetupOps, Refunding, InProgress, Cancels, Commits, FinalInv, FinalOK
    <2>5. QED
      BY <1>13, <2>2, <2>3, <2>4, WorkReadDoes
  <1>14. ASSUME WorkVerifying PROVE FinalInv'
    BY <1>14, WorkVerifyingDoes
    DEF WorkTo, StatusTo, Goes, Alone, Base, Placed, RowOK, Attempting, Cancelling, CancelOps,
        RefundOps, SetupOps, Refunding, InProgress, Cancels, Commits, FinalInv, FinalOK
  <1>15. ASSUME WorkVerify PROVE FinalInv'
    <2>1. TypeOK' /\ work.id \in Schemes /\ Alone /\ work.op = "verify"
      BY <1>15, WorkVerifyDoes
    <2>2. CASE UNCHANGED status /\ Ends
      BY <2>1, <2>2, SchemeAssumption
      DEF ReqTo, Carries, StatusTo, JobTo, RefundTo, FailTo, WorkTo, Calm, Alone, Aside, Goes,
          Ends, Throws, Final, Base, Placed, RowOK, Attempting, Cancelling, CancelOps,
          RefundOps, SetupOps, Refunding, InProgress, Cancels, Commits, FinalInv, FinalOK
    <2>3. CASE UNCHANGED status /\ Goes("generating")
      BY <2>1, <2>3, SchemeAssumption
      DEF ReqTo, Carries, StatusTo, JobTo, RefundTo, FailTo, WorkTo, Calm, Alone, Aside, Goes,
          Ends, Throws, Final, Base, Placed, RowOK, Attempting, Cancelling, CancelOps,
          RefundOps, SetupOps, Refunding, InProgress, Cancels, Commits, FinalInv, FinalOK
    <2>4. CASE StatusTo(work.id, "FAILED") /\ Throws(TRUE)
      <3>1. Thrown(TRUE)
        BY <1>15, <2>1, <2>4, ThrowsGives
      <3>2. QED
        BY <2>1, <2>4, <3>1, SchemeAssumption
        DEF Thrown, StatusTo, Alone, Base, Placed, RowOK, Attempting, Cancelling, CancelOps,
            RefundOps, SetupOps, Refunding, InProgress, Cancels, Commits, FinalInv, FinalOK
    <2>5. CASE StatusTo(work.id, "FAILED") /\ Throws(FALSE)
      <3>1. Thrown(FALSE)
        BY <1>15, <2>1, <2>5, ThrowsGives
      <3>2. QED
        BY <2>1, <2>5, <3>1, SchemeAssumption
        DEF Thrown, StatusTo, Alone, Base, Placed, RowOK, Attempting, Cancelling, CancelOps,
            RefundOps, SetupOps, Refunding, InProgress, Cancels, Commits, FinalInv, FinalOK
    <2>6. QED
      BY <1>15, <2>2, <2>3, <2>4, <2>5, WorkVerifyDoes
  <1>16. ASSUME WorkGenerating PROVE FinalInv'
    BY <1>16, WorkGeneratingDoes
    DEF WorkTo, StatusTo, Goes, Alone, Base, Placed, RowOK, Attempting, Cancelling, CancelOps,
        RefundOps, SetupOps, Refunding, InProgress, Cancels, Commits, FinalInv, FinalOK
  <1>17. ASSUME WorkGenerate PROVE FinalInv'
    <2>1. TypeOK' /\ work.id \in Schemes /\ Alone /\ work.op = "generate"
      BY <1>17, WorkGenerateDoes
    <2>2. CASE Leaves /\ Ends
      BY <2>1, <2>2, SchemeAssumption
      DEF ReqTo, Carries, StatusTo, JobTo, RefundTo, FailTo, WorkTo, Calm, Alone, Aside, Goes,
          Ends, Leaves, Throws, Final, Base, Placed, RowOK, Attempting, Cancelling, CancelOps,
          RefundOps, SetupOps, Refunding, InProgress, Cancels, Commits, FinalInv, FinalOK
    <2>3. CASE StatusTo(work.id, "FAILED") /\ Throws(FALSE)
      <3>1. Thrown(FALSE)
        BY <1>17, <2>1, <2>3, ThrowsGives
      <3>2. QED
        BY <2>1, <2>3, <3>1, SchemeAssumption
        DEF Thrown, StatusTo, Alone, Base, Placed, RowOK, Attempting, Cancelling, CancelOps,
            RefundOps, SetupOps, Refunding, InProgress, Cancels, Commits, FinalInv, FinalOK
    <2>4. QED
      BY <1>17, <2>2, <2>3, WorkGenerateDoes
  <1>18. ASSUME NEW s \in Schemes, FailRead(s) PROVE FinalInv'
    BY <1>18, FailReadDoes
    DEF FailTo, Aside, Base, Placed, RowOK, Attempting, Cancelling, CancelOps, RefundOps,
        SetupOps, Refunding, InProgress, Cancels, Commits, FinalInv, FinalOK
  <1>19. ASSUME NEW s \in Schemes, FailRefundRead(s) PROVE FinalInv'
    BY <1>19, FailRefundReadDoes
    DEF FailTo, Aside, Base, Placed, RowOK, Attempting, Cancelling, CancelOps, RefundOps,
        SetupOps, Refunding, InProgress, Cancels, Commits, FinalInv, FinalOK
  <1>20. ASSUME NEW s \in Schemes, FailRefundWrite(s) PROVE FinalInv'
    BY <1>20, FailRefundWriteDoes
    DEF FailTo, RefundTo, Aside, Base, Placed, RowOK, Attempting, Cancelling, CancelOps,
        RefundOps, SetupOps, Refunding, InProgress, Cancels, Commits, FinalInv, FinalOK
  <1>21. ASSUME NEW s \in Schemes, FailMark(s) PROVE FinalInv'
    BY <1>21, FailMarkDoes
    DEF FailTo, StatusTo, Aside, Base, Placed, RowOK, Attempting, Cancelling, CancelOps,
        RefundOps, SetupOps, Refunding, InProgress, Cancels, Commits, FinalInv, FinalOK
  <1>22. ASSUME NEW p \in Requests, Fault(p) PROVE FinalInv'
    BY <1>22, FaultDoes
    DEF ReqTo, Carries, Base, Placed, RowOK, Attempting, Cancelling, CancelOps, RefundOps,
        SetupOps, Refunding, InProgress, Cancels, Commits, FinalInv, FinalOK
  <1>23. ASSUME Restart PROVE FinalInv'
    BY <1>23, RestartDoes
    DEF Base, Placed, RowOK, Attempting, Cancelling, CancelOps, RefundOps, SetupOps,
        Refunding, InProgress, Cancels, Commits, FinalInv, FinalOK
  <1>24. CASE UNCHANGED vars
    BY <1>24
    DEF vars, Base, Placed, RowOK, Attempting, Cancelling, CancelOps, RefundOps, SetupOps,
        Refunding, InProgress, Cancels, Commits, FinalInv, FinalOK
  <1>25. QED
    BY <1>1, <1>2, <1>3, <1>4, <1>5, <1>6, <1>7, <1>8, <1>9, <1>10, <1>11, <1>12, <1>13,
       <1>14, <1>15, <1>16, <1>17, <1>18, <1>19, <1>20, <1>21, <1>22, <1>23, <1>24
    DEF Next, EventLoop, Work, Setup, Cancel, Fail

LEMMA OnceStep ==
  ASSUME Base, FinalInv, OnceInv, [Next]_vars
  PROVE  OnceInv'
  <1>1. ASSUME NEW p \in Requests, SetupRead(p) PROVE OnceInv'
    <2> SUFFICES ASSUME NEW u \in Schemes \ (racy' \cup early') PROVE OnceOK(u)'
      BY DEF OnceInv
    <2>1. RowOK(u) /\ FinalOK(u) /\ OnceOK(u)
      BY <1>1, SetupReadDoes DEF Base, Placed, FinalInv, OnceInv, Alone, Aside
    <2>2. QED
      BY <1>1, <2>1, SetupReadDoes, OnceKept
      DEF ReqTo, Carries, StatusTo, JobTo, RefundTo, Calm, Cancels, Commits, Attempting,
          CancelOps, RefundOps
  <1>2. ASSUME NEW p \in Requests, SetupArchive(p) PROVE OnceInv'
    <2> SUFFICES ASSUME NEW u \in Schemes \ (racy' \cup early') PROVE OnceOK(u)'
      BY DEF OnceInv
    <2>1. RowOK(u) /\ FinalOK(u) /\ OnceOK(u)
      BY <1>2, SetupArchiveDoes DEF Base, Placed, FinalInv, OnceInv, Alone, Aside
    <2>2. CASE u # req[p].id
      BY <1>2, <2>1, <2>2, SetupArchiveDoes, OnceKept
      DEF ReqTo, Carries, StatusTo, JobTo, RefundTo, Calm, Cancels, Commits, Attempting,
          CancelOps, RefundOps
    <2>3. CASE u = req[p].id
      <3>1. AmountOK(u)'
        BY <1>2, <2>1, <2>3, SetupArchiveDoes, SchemeAssumption
        DEF ReqTo, Carries, StatusTo, JobTo, RefundTo, Calm, OnceOK, AmountOK, CancelOK, WorkOK,
            ListenOK, RowOK, FinalOK, Refunding, Cancels, Commits, Attempting, CancelOps,
            RefundOps, InProgress, Unfinished
      <3>2. CancelOK(u)'
        BY <1>2, <2>1, <2>3, SetupArchiveDoes, SchemeAssumption
        DEF ReqTo, Carries, StatusTo, JobTo, RefundTo, Calm, OnceOK, AmountOK, CancelOK, WorkOK,
            ListenOK, RowOK, FinalOK, Refunding, Cancels, Commits, Attempting, CancelOps,
            RefundOps, InProgress, Unfinished
      <3>3. WorkOK(u)'
        BY <1>2, <2>1, <2>3, SetupArchiveDoes, SchemeAssumption
        DEF ReqTo, Carries, StatusTo, JobTo, RefundTo, Calm, OnceOK, AmountOK, CancelOK, WorkOK,
            ListenOK, RowOK, FinalOK, Refunding, Cancels, Commits, Attempting, CancelOps,
            RefundOps, InProgress, Unfinished
      <3>4. ListenOK(u)'
        BY <1>2, <2>1, <2>3, SetupArchiveDoes, SchemeAssumption
        DEF ReqTo, Carries, StatusTo, JobTo, RefundTo, Calm, OnceOK, AmountOK, CancelOK, WorkOK,
            ListenOK, RowOK, FinalOK, Refunding, Cancels, Commits, Attempting, CancelOps,
            RefundOps, InProgress, Unfinished
      <3>5. QED
        BY <3>1, <3>2, <3>3, <3>4 DEF OnceOK
    <2>4. QED
      BY <2>2, <2>3
  <1>3. ASSUME NEW p \in Requests, SetupFreeKey(p) PROVE OnceInv'
    <2> SUFFICES ASSUME NEW u \in Schemes \ (racy' \cup early') PROVE OnceOK(u)'
      BY DEF OnceInv
    <2>1. RowOK(u) /\ FinalOK(u) /\ OnceOK(u)
      BY <1>3, SetupFreeKeyDoes DEF Base, Placed, FinalInv, OnceInv, Alone, Aside
    <2>2. QED
      BY <1>3, <2>1, SetupFreeKeyDoes, OnceKept
      DEF ReqTo, Carries, StatusTo, JobTo, RefundTo, Calm, Cancels, Commits, Attempting,
          CancelOps, RefundOps
  <1>4. ASSUME NEW p \in Requests, UseRead(p) PROVE OnceInv'
    <2> SUFFICES ASSUME NEW u \in Schemes \ (racy' \cup early') PROVE OnceOK(u)'
      BY DEF OnceInv
    <2>1. RowOK(u) /\ FinalOK(u) /\ OnceOK(u)
      BY <1>4, UseReadDoes DEF Base, Placed, FinalInv, OnceInv, Alone, Aside
    <2>2. QED
      BY <1>4, <2>1, UseReadDoes, OnceKept
      DEF ReqTo, Carries, StatusTo, JobTo, RefundTo, Calm, Cancels, Commits, Attempting,
          CancelOps, RefundOps
  <1>5. ASSUME NEW p \in Requests, UseWrite(p) PROVE OnceInv'
    <2> SUFFICES ASSUME NEW u \in Schemes \ (racy' \cup early') PROVE OnceOK(u)'
      BY DEF OnceInv
    <2>1. RowOK(u) /\ FinalOK(u) /\ OnceOK(u)
      BY <1>5, UseWriteDoes DEF Base, Placed, FinalInv, OnceInv, Alone, Aside
    <2>2. QED
      BY <1>5, <2>1, UseWriteDoes, OnceKept
      DEF ReqTo, Carries, StatusTo, JobTo, RefundTo, Calm, Cancels, Commits, Attempting,
          CancelOps, RefundOps
  <1>6. ASSUME NEW p \in Requests, SetupCreate(p) PROVE OnceInv'
    <2> SUFFICES ASSUME NEW u \in Schemes \ (racy' \cup early') PROVE OnceOK(u)'
      BY DEF OnceInv
    <2>1. RowOK(u) /\ FinalOK(u) /\ OnceOK(u)
      BY <1>6, SetupCreateDoes DEF Base, Placed, FinalInv, OnceInv, Alone, Aside
    <2>2. CASE ReqTo(p, "idle", 0, 0, 0) /\ job' = job
      BY <1>6, <2>1, <2>2, SetupCreateDoes, OnceKept
      DEF ReqTo, Carries, Calm, Cancels, Commits, Attempting, CancelOps, RefundOps
    <2>3. ASSUME NEW s \in Unused, ReqTo(p, "commit", s, 0, 0), JobTo(s, "waiting", job[s].made)
          PROVE  OnceOK(u)'
      <3>1. CASE u # s
        BY <1>6, <2>1, <2>3, <3>1, SetupCreateDoes, OnceKept
        DEF ReqTo, JobTo, Carries, Calm, Cancels, Commits, Attempting, CancelOps, RefundOps
      <3>2. CASE u = s
        <4>1. fail[u].op = "idle" /\ ~Attempting(u)
          BY <2>1, <2>3, <3>2 DEF RowOK, Unused
        <4>2. QED
          BY <1>6, <2>1, <2>3, <3>2, <4>1, SetupCreateDoes
          DEF ReqTo, JobTo, Carries, Calm, OnceOK, AmountOK, CancelOK, WorkOK, ListenOK, RowOK,
              FinalOK, Refunding, Cancels, Commits, Attempting, CancelOps, RefundOps,
              InProgress
      <3>3. QED
        BY <3>1, <3>2
    <2>4. QED
      BY <1>6, <2>2, <2>3, SetupCreateDoes
  <1>7. ASSUME NEW p \in Requests, SetupCommit(p) PROVE OnceInv'
    <2> SUFFICES ASSUME NEW u \in Schemes \ (racy' \cup early') PROVE OnceOK(u)'
      BY DEF OnceInv
    <2>1. RowOK(u) /\ FinalOK(u) /\ OnceOK(u)
      BY <1>7, SetupCommitDoes DEF Base, Placed, FinalInv, OnceInv, Alone, Aside
    <2>2. CASE u # req[p].id
      BY <1>7, <2>1, <2>2, SetupCommitDoes, OnceKept
      DEF ReqTo, Carries, StatusTo, JobTo, RefundTo, Calm, Cancels, Commits, Attempting,
          CancelOps, RefundOps
    <2>3. CASE u = req[p].id
      <3>1. AmountOK(u)'
        BY <1>7, <2>1, <2>3, SetupCommitDoes, SchemeAssumption
        DEF ReqTo, Carries, StatusTo, JobTo, RefundTo, Calm, OnceOK, AmountOK, CancelOK, WorkOK,
            ListenOK, RowOK, FinalOK, Refunding, Cancels, Commits, Attempting, CancelOps,
            RefundOps, InProgress, Unfinished
      <3>2. CancelOK(u)'
        BY <1>7, <2>1, <2>3, SetupCommitDoes, SchemeAssumption
        DEF ReqTo, Carries, StatusTo, JobTo, RefundTo, Calm, OnceOK, AmountOK, CancelOK, WorkOK,
            ListenOK, RowOK, FinalOK, Refunding, Cancels, Commits, Attempting, CancelOps,
            RefundOps, InProgress, Unfinished
      <3>3. WorkOK(u)'
        BY <1>7, <2>1, <2>3, SetupCommitDoes, SchemeAssumption
        DEF ReqTo, Carries, StatusTo, JobTo, RefundTo, Calm, OnceOK, AmountOK, CancelOK, WorkOK,
            ListenOK, RowOK, FinalOK, Refunding, Cancels, Commits, Attempting, CancelOps,
            RefundOps, InProgress, Unfinished
      <3>4. ListenOK(u)'
        BY <1>7, <2>1, <2>3, SetupCommitDoes, SchemeAssumption
        DEF ReqTo, Carries, StatusTo, JobTo, RefundTo, Calm, OnceOK, AmountOK, CancelOK, WorkOK,
            ListenOK, RowOK, FinalOK, Refunding, Cancels, Commits, Attempting, CancelOps,
            RefundOps, InProgress, Unfinished
      <3>5. QED
        BY <3>1, <3>2, <3>3, <3>4 DEF OnceOK
    <2>4. QED
      BY <2>2, <2>3
  <1>8. ASSUME NEW p \in Requests, CancelWrite(p) PROVE OnceInv'
    <2> SUFFICES ASSUME NEW u \in Schemes \ (racy' \cup early') PROVE OnceOK(u)'
      BY DEF OnceInv
    <2>1. RowOK(u) /\ FinalOK(u) /\ OnceOK(u)
      BY <1>8, CancelWriteDoes DEF Base, Placed, FinalInv, OnceInv, Alone, Aside
    <2>2. CASE u # req[p].id
      BY <1>8, <2>1, <2>2, CancelWriteDoes, OnceKept
      DEF ReqTo, Carries, StatusTo, JobTo, RefundTo, Calm, Cancels, Commits, Attempting,
          CancelOps, RefundOps
    <2>3. CASE u = req[p].id
      <3>1. AmountOK(u)'
        BY <1>8, <2>1, <2>3, CancelWriteDoes, SchemeAssumption
        DEF ReqTo, Carries, StatusTo, JobTo, RefundTo, Calm, OnceOK, AmountOK, CancelOK, WorkOK,
            ListenOK, RowOK, FinalOK, Refunding, Cancels, Commits, Attempting, CancelOps,
            RefundOps, InProgress, Unfinished
      <3>2. CancelOK(u)'
        BY <1>8, <2>1, <2>3, CancelWriteDoes, SchemeAssumption
        DEF ReqTo, Carries, StatusTo, JobTo, RefundTo, Calm, OnceOK, AmountOK, CancelOK, WorkOK,
            ListenOK, RowOK, FinalOK, Refunding, Cancels, Commits, Attempting, CancelOps,
            RefundOps, InProgress, Unfinished
      <3>3. WorkOK(u)'
        BY <1>8, <2>1, <2>3, CancelWriteDoes, SchemeAssumption
        DEF ReqTo, Carries, StatusTo, JobTo, RefundTo, Calm, OnceOK, AmountOK, CancelOK, WorkOK,
            ListenOK, RowOK, FinalOK, Refunding, Cancels, Commits, Attempting, CancelOps,
            RefundOps, InProgress, Unfinished
      <3>4. ListenOK(u)'
        BY <1>8, <2>1, <2>3, CancelWriteDoes, SchemeAssumption
        DEF ReqTo, Carries, StatusTo, JobTo, RefundTo, Calm, OnceOK, AmountOK, CancelOK, WorkOK,
            ListenOK, RowOK, FinalOK, Refunding, Cancels, Commits, Attempting, CancelOps,
            RefundOps, InProgress, Unfinished
      <3>5. QED
        BY <3>1, <3>2, <3>3, <3>4 DEF OnceOK
    <2>4. QED
      BY <2>2, <2>3
  <1>9. ASSUME NEW p \in Requests, CancelRefundRead(p) PROVE OnceInv'
    <2> SUFFICES ASSUME NEW u \in Schemes \ (racy' \cup early') PROVE OnceOK(u)'
      BY DEF OnceInv
    <2>1. RowOK(u) /\ FinalOK(u) /\ OnceOK(u)
      BY <1>9, CancelRefundReadDoes DEF Base, Placed, FinalInv, OnceInv, Alone, Aside
    <2>2. CASE u # req[p].id
      BY <1>9, <2>1, <2>2, CancelRefundReadDoes, OnceKept
      DEF ReqTo, Carries, StatusTo, JobTo, RefundTo, Calm, Cancels, Commits, Attempting,
          CancelOps, RefundOps
    <2>3. CASE u = req[p].id
      <3>1. AmountOK(u)'
        BY <1>9, <2>1, <2>3, CancelRefundReadDoes, SchemeAssumption
        DEF ReqTo, Carries, StatusTo, JobTo, RefundTo, Calm, OnceOK, AmountOK, CancelOK, WorkOK,
            ListenOK, RowOK, FinalOK, Refunding, Cancels, Commits, Attempting, CancelOps,
            RefundOps, InProgress, Unfinished
      <3>2. CancelOK(u)'
        BY <1>9, <2>1, <2>3, CancelRefundReadDoes, SchemeAssumption
        DEF ReqTo, Carries, StatusTo, JobTo, RefundTo, Calm, OnceOK, AmountOK, CancelOK, WorkOK,
            ListenOK, RowOK, FinalOK, Refunding, Cancels, Commits, Attempting, CancelOps,
            RefundOps, InProgress, Unfinished
      <3>3. WorkOK(u)'
        BY <1>9, <2>1, <2>3, CancelRefundReadDoes, SchemeAssumption
        DEF ReqTo, Carries, StatusTo, JobTo, RefundTo, Calm, OnceOK, AmountOK, CancelOK, WorkOK,
            ListenOK, RowOK, FinalOK, Refunding, Cancels, Commits, Attempting, CancelOps,
            RefundOps, InProgress, Unfinished
      <3>4. ListenOK(u)'
        BY <1>9, <2>1, <2>3, CancelRefundReadDoes, SchemeAssumption
        DEF ReqTo, Carries, StatusTo, JobTo, RefundTo, Calm, OnceOK, AmountOK, CancelOK, WorkOK,
            ListenOK, RowOK, FinalOK, Refunding, Cancels, Commits, Attempting, CancelOps,
            RefundOps, InProgress, Unfinished
      <3>5. QED
        BY <3>1, <3>2, <3>3, <3>4 DEF OnceOK
    <2>4. QED
      BY <2>2, <2>3
  <1>10. ASSUME NEW p \in Requests, CancelRefundWrite(p) PROVE OnceInv'
    <2> SUFFICES ASSUME NEW u \in Schemes \ (racy' \cup early') PROVE OnceOK(u)'
      BY DEF OnceInv
    <2>1. RowOK(u) /\ FinalOK(u) /\ OnceOK(u)
      BY <1>10, CancelRefundWriteDoes DEF Base, Placed, FinalInv, OnceInv, Alone, Aside
    <2>2. refunded[req[p].id] \in Int /\ req[p].take \in Int /\ req[p].amount \in 0..Total
      BY <1>10, CancelRefundWriteDoes DEF Base, TypeOK, Handler
    <2>3. CASE u # req[p].id
      BY <1>10, <2>1, <2>3, CancelRefundWriteDoes, OnceKept
      DEF ReqTo, Carries, StatusTo, JobTo, RefundTo, Calm, Cancels, Commits, Attempting,
          CancelOps, RefundOps
    <2>4. CASE u = req[p].id
      <3>1. AmountOK(u)'
        BY <1>10, <2>1, <2>2, <2>4, CancelRefundWriteDoes, SchemeAssumption
        DEF ReqTo, Carries, StatusTo, JobTo, RefundTo, Calm, OnceOK, AmountOK, CancelOK, WorkOK,
            ListenOK, RowOK, FinalOK, Refunding, Cancels, Commits, Attempting, CancelOps,
            RefundOps, InProgress, Unfinished
      <3>2. CancelOK(u)'
        BY <1>10, <2>1, <2>2, <2>4, CancelRefundWriteDoes, SchemeAssumption
        DEF ReqTo, Carries, StatusTo, JobTo, RefundTo, Calm, OnceOK, AmountOK, CancelOK, WorkOK,
            ListenOK, RowOK, FinalOK, Refunding, Cancels, Commits, Attempting, CancelOps,
            RefundOps, InProgress, Unfinished
      <3>3. WorkOK(u)'
        BY <1>10, <2>1, <2>2, <2>4, CancelRefundWriteDoes, SchemeAssumption
        DEF ReqTo, Carries, StatusTo, JobTo, RefundTo, Calm, OnceOK, AmountOK, CancelOK, WorkOK,
            ListenOK, RowOK, FinalOK, Refunding, Cancels, Commits, Attempting, CancelOps,
            RefundOps, InProgress, Unfinished
      <3>4. ListenOK(u)'
        BY <1>10, <2>1, <2>2, <2>4, CancelRefundWriteDoes, SchemeAssumption
        DEF ReqTo, Carries, StatusTo, JobTo, RefundTo, Calm, OnceOK, AmountOK, CancelOK, WorkOK,
            ListenOK, RowOK, FinalOK, Refunding, Cancels, Commits, Attempting, CancelOps,
            RefundOps, InProgress, Unfinished
      <3>5. QED
        BY <3>1, <3>2, <3>3, <3>4 DEF OnceOK
    <2>5. QED
      BY <2>3, <2>4
  <1>11. ASSUME NEW p \in Requests, NEW s \in Schemes, CancelRead(p, s) PROVE OnceInv'
    <2> SUFFICES ASSUME NEW u \in Schemes \ (racy' \cup early') PROVE OnceOK(u)'
      BY DEF OnceInv
    <2>1. RowOK(u) /\ FinalOK(u) /\ OnceOK(u)
      BY <1>11, CancelReadDoes DEF Base, Placed, FinalInv, OnceInv, Alone, Aside
    <2>2. CASE u # s
      BY <1>11, <2>1, <2>2, CancelReadDoes, OnceKept
      DEF ReqTo, Carries, StatusTo, JobTo, RefundTo, Calm, Cancels, Commits, Attempting,
          CancelOps, RefundOps
    <2>3. CASE u = s
      <3>1. AmountOK(u)'
        BY <1>11, <2>1, <2>3, CancelReadDoes, SchemeAssumption
        DEF ReqTo, Carries, StatusTo, JobTo, RefundTo, Calm, OnceOK, AmountOK, CancelOK, WorkOK,
            ListenOK, RowOK, FinalOK, Refunding, Cancels, Commits, Attempting, CancelOps,
            RefundOps, InProgress, Cancelling
      <3>2. CancelOK(u)'
        BY <1>11, <2>1, <2>3, CancelReadDoes, SchemeAssumption
        DEF ReqTo, Carries, StatusTo, JobTo, RefundTo, Calm, OnceOK, AmountOK, CancelOK, WorkOK,
            ListenOK, RowOK, FinalOK, Refunding, Cancels, Commits, Attempting, CancelOps,
            RefundOps, InProgress, Cancelling
      <3>3. WorkOK(u)'
        BY <1>11, <2>1, <2>3, CancelReadDoes, SchemeAssumption
        DEF ReqTo, Carries, StatusTo, JobTo, RefundTo, Calm, OnceOK, AmountOK, CancelOK, WorkOK,
            ListenOK, RowOK, FinalOK, Refunding, Cancels, Commits, Attempting, CancelOps,
            RefundOps, InProgress, Cancelling
      <3>4. ListenOK(u)'
        BY <1>11, <2>1, <2>3, CancelReadDoes, SchemeAssumption
        DEF ReqTo, Carries, StatusTo, JobTo, RefundTo, Calm, OnceOK, AmountOK, CancelOK, WorkOK,
            ListenOK, RowOK, FinalOK, Refunding, Cancels, Commits, Attempting, CancelOps,
            RefundOps, InProgress, Cancelling
      <3>5. QED
        BY <3>1, <3>2, <3>3, <3>4 DEF OnceOK
    <2>4. QED
      BY <2>2, <2>3
  <1>12. ASSUME NEW s \in Schemes, WorkTake(s) PROVE OnceInv'
    <2> SUFFICES ASSUME NEW u \in Schemes \ (racy' \cup early') PROVE OnceOK(u)'
      BY DEF OnceInv
    <2>1. RowOK(u) /\ FinalOK(u) /\ OnceOK(u)
      BY <1>12, WorkTakeDoes DEF Base, Placed, FinalInv, OnceInv, Alone, Aside
    <2>2. refunded[s] \in Int /\ job[s].made \in Nat
      BY SchemeAssumption DEF Base, TypeOK
    <2>3. CASE u # s
      BY <1>12, <2>1, <2>3, WorkTakeDoes, OnceKept
      DEF WorkTo, JobTo, Cancels, Commits, Attempting, CancelOps, RefundOps
    <2>4. CASE u = s
      <3>1. AmountOK(u)'
        BY <1>12, <2>1, <2>2, <2>4, WorkTakeDoes, SchemeAssumption
        DEF WorkTo, JobTo, OnceOK, AmountOK, CancelOK, WorkOK, ListenOK, RowOK, FinalOK,
            Refunding, Cancels, Commits, Attempting, CancelOps, RefundOps, InProgress,
            Cancelling, BackedOff
      <3>2. CancelOK(u)'
        BY <1>12, <2>1, <2>2, <2>4, WorkTakeDoes, SchemeAssumption
        DEF WorkTo, JobTo, OnceOK, AmountOK, CancelOK, WorkOK, ListenOK, RowOK, FinalOK,
            Refunding, Cancels, Commits, Attempting, CancelOps, RefundOps, InProgress,
            Cancelling, BackedOff
      <3>3. WorkOK(u)'
        BY <1>12, <2>1, <2>2, <2>4, WorkTakeDoes, SchemeAssumption
        DEF WorkTo, JobTo, OnceOK, AmountOK, CancelOK, WorkOK, ListenOK, RowOK, FinalOK,
            Refunding, Cancels, Commits, Attempting, CancelOps, RefundOps, InProgress,
            Cancelling, BackedOff
      <3>4. ListenOK(u)'
        BY <1>12, <2>1, <2>2, <2>4, WorkTakeDoes, SchemeAssumption
        DEF WorkTo, JobTo, OnceOK, AmountOK, CancelOK, WorkOK, ListenOK, RowOK, FinalOK,
            Refunding, Cancels, Commits, Attempting, CancelOps, RefundOps, InProgress,
            Cancelling, BackedOff
      <3>5. QED
        BY <3>1, <3>2, <3>3, <3>4 DEF OnceOK
    <2>5. QED
      BY <2>3, <2>4
  <1>13. ASSUME WorkRead PROVE OnceInv'
    <2> SUFFICES ASSUME NEW u \in Schemes \ (racy' \cup early') PROVE OnceOK(u)'
      BY DEF OnceInv
    <2>1. RowOK(u) /\ FinalOK(u) /\ OnceOK(u)
      BY <1>13, WorkReadDoes DEF Base, Placed, FinalInv, OnceInv, Alone, Aside
    <2>2. work.id \in Schemes /\ Alone /\ work.op = "read"
      BY <1>13, WorkReadDoes
    <2>3. CASE UNCHANGED status /\ status[work.id] = "none" /\ Throws(FALSE)
      <3>1. Thrown(FALSE)
        BY <2>2, <2>3, ThrowsGives
      <3>2. CASE u # work.id
        BY <2>1, <2>2, <2>3, <3>1, <3>2, OnceKept
        DEF Thrown, StatusTo, Alone, Cancels, Commits, Attempting, CancelOps, RefundOps
      <3>3. CASE u = work.id
        BY <2>1, <2>2, <2>3, <3>1, <3>3, SchemeAssumption
        DEF Thrown, StatusTo, Alone, OnceOK, AmountOK, CancelOK, WorkOK, ListenOK, RowOK,
            FinalOK, Refunding, Cancels, Commits, Attempting, CancelOps, RefundOps, InProgress
      <3>4. QED
        BY <3>2, <3>3
    <2>4. CASE UNCHANGED status /\ status[work.id] = "CANCELLED" /\ Ends
      <3>1. CASE u # work.id
        BY <2>1, <2>2, <2>4, <2>4, <3>1, OnceKept
        DEF Ends, Goes, WorkTo, JobTo, StatusTo, Alone, Cancels, Commits, Attempting,
            CancelOps, RefundOps
      <3>2. CASE u = work.id
        BY <2>1, <2>2, <2>4, <2>4, <3>2, SchemeAssumption
        DEF Ends, Goes, WorkTo, JobTo, StatusTo, Alone, OnceOK, AmountOK, CancelOK, WorkOK,
            ListenOK, RowOK, FinalOK, Refunding, Cancels, Commits, Attempting, CancelOps,
            RefundOps, InProgress
      <3>3. QED
        BY <3>1, <3>2
    <2>5. CASE UNCHANGED status /\ status[work.id] \notin {"none", "CANCELLED"} /\ Goes("verifying")
      <3>1. CASE u # work.id
        BY <2>1, <2>2, <2>5, <2>5, <3>1, OnceKept
        DEF Ends, Goes, WorkTo, JobTo, StatusTo, Alone, Cancels, Commits, Attempting,
            CancelOps, RefundOps
      <3>2. CASE u = work.id
        BY <2>1, <2>2, <2>5, <2>5, <3>2, SchemeAssumption
        DEF Ends, Goes, WorkTo, JobTo, StatusTo, Alone, OnceOK, AmountOK, CancelOK, WorkOK,
            ListenOK, RowOK, FinalOK, Refunding, Cancels, Commits, Attempting, CancelOps,
            RefundOps, InProgress
      <3>3. QED
        BY <3>1, <3>2
    <2>6. QED
      BY <1>13, <2>3, <2>4, <2>5, WorkReadDoes
  <1>14. ASSUME WorkVerifying PROVE OnceInv'
    <2> SUFFICES ASSUME NEW u \in Schemes \ (racy' \cup early') PROVE OnceOK(u)'
      BY DEF OnceInv
    <2>1. RowOK(u) /\ FinalOK(u) /\ OnceOK(u)
      BY <1>14, WorkVerifyingDoes DEF Base, Placed, FinalInv, OnceInv, Alone, Aside
    <2>2. CASE u # work.id
      BY <1>14, <2>1, <2>2, WorkVerifyingDoes, OnceKept
      DEF WorkTo, StatusTo, Alone, Goes, Cancels, Commits, Attempting, CancelOps, RefundOps
    <2>3. CASE u = work.id
      <3>1. AmountOK(u)'
        BY <1>14, <2>1, <2>3, WorkVerifyingDoes, SchemeAssumption
        DEF WorkTo, StatusTo, Alone, Goes, OnceOK, AmountOK, CancelOK, WorkOK, ListenOK,
            RowOK, FinalOK, Refunding, Cancels, Commits, Attempting, CancelOps, RefundOps,
            InProgress
      <3>2. CancelOK(u)'
        BY <1>14, <2>1, <2>3, WorkVerifyingDoes, SchemeAssumption
        DEF WorkTo, StatusTo, Alone, Goes, OnceOK, AmountOK, CancelOK, WorkOK, ListenOK,
            RowOK, FinalOK, Refunding, Cancels, Commits, Attempting, CancelOps, RefundOps,
            InProgress
      <3>3. WorkOK(u)'
        BY <1>14, <2>1, <2>3, WorkVerifyingDoes, SchemeAssumption
        DEF WorkTo, StatusTo, Alone, Goes, OnceOK, AmountOK, CancelOK, WorkOK, ListenOK,
            RowOK, FinalOK, Refunding, Cancels, Commits, Attempting, CancelOps, RefundOps,
            InProgress
      <3>4. ListenOK(u)'
        BY <1>14, <2>1, <2>3, WorkVerifyingDoes, SchemeAssumption
        DEF WorkTo, StatusTo, Alone, Goes, OnceOK, AmountOK, CancelOK, WorkOK, ListenOK,
            RowOK, FinalOK, Refunding, Cancels, Commits, Attempting, CancelOps, RefundOps,
            InProgress
      <3>5. QED
        BY <3>1, <3>2, <3>3, <3>4 DEF OnceOK
    <2>4. QED
      BY <2>2, <2>3
  <1>15. ASSUME WorkVerify PROVE OnceInv'
    <2> SUFFICES ASSUME NEW u \in Schemes \ (racy' \cup early') PROVE OnceOK(u)'
      BY DEF OnceInv
    <2>1. RowOK(u) /\ FinalOK(u) /\ OnceOK(u)
      BY <1>15, WorkVerifyDoes DEF Base, Placed, FinalInv, OnceInv, Alone, Aside
    <2>2. work.id \in Schemes /\ Alone /\ work.op = "verify"
      BY <1>15, WorkVerifyDoes
    <2>3. CASE UNCHANGED status /\ Ends
      <3>1. CASE u # work.id
        BY <2>1, <2>2, <2>3, <2>3, <3>1, OnceKept
        DEF Ends, Goes, WorkTo, JobTo, StatusTo, Alone, Cancels, Commits, Attempting,
            CancelOps, RefundOps
      <3>2. CASE u = work.id
        BY <2>1, <2>2, <2>3, <2>3, <3>2, SchemeAssumption
        DEF Ends, Goes, WorkTo, JobTo, StatusTo, Alone, OnceOK, AmountOK, CancelOK, WorkOK,
            ListenOK, RowOK, FinalOK, Refunding, Cancels, Commits, Attempting, CancelOps,
            RefundOps, InProgress
      <3>3. QED
        BY <3>1, <3>2
    <2>4. CASE UNCHANGED status /\ Goes("generating")
      <3>1. CASE u # work.id
        BY <2>1, <2>2, <2>4, <2>4, <3>1, OnceKept
        DEF Ends, Goes, WorkTo, JobTo, StatusTo, Alone, Cancels, Commits, Attempting,
            CancelOps, RefundOps
      <3>2. CASE u = work.id
        BY <2>1, <2>2, <2>4, <2>4, <3>2, SchemeAssumption
        DEF Ends, Goes, WorkTo, JobTo, StatusTo, Alone, OnceOK, AmountOK, CancelOK, WorkOK,
            ListenOK, RowOK, FinalOK, Refunding, Cancels, Commits, Attempting, CancelOps,
            RefundOps, InProgress
      <3>3. QED
        BY <3>1, <3>2
    <2>5. CASE StatusTo(work.id, "FAILED") /\ Throws(TRUE)
      <3>1. Thrown(TRUE)
        BY <2>2, <2>5, ThrowsGives
      <3>2. CASE u # work.id
        BY <2>1, <2>2, <2>5, <3>1, <3>2, OnceKept
        DEF Thrown, StatusTo, Alone, Cancels, Commits, Attempting, CancelOps, RefundOps
      <3>3. CASE u = work.id
        BY <2>1, <2>2, <2>5, <3>1, <3>3, SchemeAssumption
        DEF Thrown, StatusTo, Alone, OnceOK, AmountOK, CancelOK, WorkOK, ListenOK, RowOK,
            FinalOK, Refunding, Cancels, Commits, Attempting, CancelOps, RefundOps, InProgress
      <3>4. QED
        BY <3>2, <3>3
    <2>6. CASE StatusTo(work.id, "FAILED") /\ Throws(FALSE)
      <3>1. Thrown(FALSE)
        BY <2>2, <2>6, ThrowsGives
      <3>2. CASE u # work.id
        BY <2>1, <2>2, <2>6, <3>1, <3>2, OnceKept
        DEF Thrown, StatusTo, Alone, Cancels, Commits, Attempting, CancelOps, RefundOps
      <3>3. CASE u = work.id
        BY <2>1, <2>2, <2>6, <3>1, <3>3, SchemeAssumption
        DEF Thrown, StatusTo, Alone, OnceOK, AmountOK, CancelOK, WorkOK, ListenOK, RowOK,
            FinalOK, Refunding, Cancels, Commits, Attempting, CancelOps, RefundOps, InProgress
      <3>4. QED
        BY <3>2, <3>3
    <2>7. QED
      BY <1>15, <2>3, <2>4, <2>5, <2>6, WorkVerifyDoes
  <1>16. ASSUME WorkGenerating PROVE OnceInv'
    <2> SUFFICES ASSUME NEW u \in Schemes \ (racy' \cup early') PROVE OnceOK(u)'
      BY DEF OnceInv
    <2>1. RowOK(u) /\ FinalOK(u) /\ OnceOK(u)
      BY <1>16, WorkGeneratingDoes DEF Base, Placed, FinalInv, OnceInv, Alone, Aside
    <2>2. CASE u # work.id
      BY <1>16, <2>1, <2>2, WorkGeneratingDoes, OnceKept
      DEF WorkTo, StatusTo, Alone, Goes, Cancels, Commits, Attempting, CancelOps, RefundOps
    <2>3. CASE u = work.id
      <3>1. AmountOK(u)'
        BY <1>16, <2>1, <2>3, WorkGeneratingDoes, SchemeAssumption
        DEF WorkTo, StatusTo, Alone, Goes, OnceOK, AmountOK, CancelOK, WorkOK, ListenOK,
            RowOK, FinalOK, Refunding, Cancels, Commits, Attempting, CancelOps, RefundOps,
            InProgress
      <3>2. CancelOK(u)'
        BY <1>16, <2>1, <2>3, WorkGeneratingDoes, SchemeAssumption
        DEF WorkTo, StatusTo, Alone, Goes, OnceOK, AmountOK, CancelOK, WorkOK, ListenOK,
            RowOK, FinalOK, Refunding, Cancels, Commits, Attempting, CancelOps, RefundOps,
            InProgress
      <3>3. WorkOK(u)'
        BY <1>16, <2>1, <2>3, WorkGeneratingDoes, SchemeAssumption
        DEF WorkTo, StatusTo, Alone, Goes, OnceOK, AmountOK, CancelOK, WorkOK, ListenOK,
            RowOK, FinalOK, Refunding, Cancels, Commits, Attempting, CancelOps, RefundOps,
            InProgress
      <3>4. ListenOK(u)'
        BY <1>16, <2>1, <2>3, WorkGeneratingDoes, SchemeAssumption
        DEF WorkTo, StatusTo, Alone, Goes, OnceOK, AmountOK, CancelOK, WorkOK, ListenOK,
            RowOK, FinalOK, Refunding, Cancels, Commits, Attempting, CancelOps, RefundOps,
            InProgress
      <3>5. QED
        BY <3>1, <3>2, <3>3, <3>4 DEF OnceOK
    <2>4. QED
      BY <2>2, <2>3
  <1>17. ASSUME WorkGenerate PROVE OnceInv'
    <2> SUFFICES ASSUME NEW u \in Schemes \ (racy' \cup early') PROVE OnceOK(u)'
      BY DEF OnceInv
    <2>1. RowOK(u) /\ FinalOK(u) /\ OnceOK(u)
      BY <1>17, WorkGenerateDoes DEF Base, Placed, FinalInv, OnceInv, Alone, Aside
    <2>2. work.id \in Schemes /\ Alone /\ work.op = "generate"
      BY <1>17, WorkGenerateDoes
    <2>3. CASE Leaves /\ Ends
      <3>1. CASE u # work.id
        BY <2>1, <2>2, <2>3, <2>3, <3>1, OnceKept
        DEF Ends, Leaves, Goes, WorkTo, JobTo, StatusTo, Alone, Cancels, Commits, Attempting,
            CancelOps, RefundOps
      <3>2. CASE u = work.id
        BY <2>1, <2>2, <2>3, <2>3, <3>2, SchemeAssumption
        DEF Ends, Leaves, Goes, WorkTo, JobTo, StatusTo, Alone, OnceOK, AmountOK, CancelOK, WorkOK,
            ListenOK, RowOK, FinalOK, Refunding, Cancels, Commits, Attempting, CancelOps,
            RefundOps, InProgress
      <3>3. QED
        BY <3>1, <3>2
    <2>4. CASE StatusTo(work.id, "FAILED") /\ Throws(FALSE)
      <3>1. Thrown(FALSE)
        BY <2>2, <2>4, ThrowsGives
      <3>2. CASE u # work.id
        BY <2>1, <2>2, <2>4, <3>1, <3>2, OnceKept
        DEF Thrown, StatusTo, Alone, Cancels, Commits, Attempting, CancelOps, RefundOps
      <3>3. CASE u = work.id
        BY <2>1, <2>2, <2>4, <3>1, <3>3, SchemeAssumption
        DEF Thrown, StatusTo, Alone, OnceOK, AmountOK, CancelOK, WorkOK, ListenOK, RowOK,
            FinalOK, Refunding, Cancels, Commits, Attempting, CancelOps, RefundOps, InProgress
      <3>4. QED
        BY <3>2, <3>3
    <2>5. QED
      BY <1>17, <2>3, <2>4, WorkGenerateDoes
  <1>18. ASSUME NEW s \in Schemes, FailRead(s) PROVE OnceInv'
    <2> SUFFICES ASSUME NEW u \in Schemes \ (racy' \cup early') PROVE OnceOK(u)'
      BY DEF OnceInv
    <2>1. RowOK(u) /\ FinalOK(u) /\ OnceOK(u)
      BY <1>18, FailReadDoes DEF Base, Placed, FinalInv, OnceInv, Alone, Aside
    <2>2. CASE u # s
      BY <1>18, <2>1, <2>2, FailReadDoes, OnceKept
      DEF FailTo, StatusTo, RefundTo, Aside, Cancels, Commits, Attempting, CancelOps,
          RefundOps
    <2>3. CASE u = s
      <3>1. AmountOK(u)'
        BY <1>18, <2>1, <2>3, FailReadDoes, SchemeAssumption
        DEF FailTo, StatusTo, RefundTo, Aside, OnceOK, AmountOK, CancelOK, WorkOK, ListenOK,
            RowOK, FinalOK, Refunding, Cancels, Commits, Attempting, CancelOps, RefundOps,
            InProgress
      <3>2. CancelOK(u)'
        BY <1>18, <2>1, <2>3, FailReadDoes, SchemeAssumption
        DEF FailTo, StatusTo, RefundTo, Aside, OnceOK, AmountOK, CancelOK, WorkOK, ListenOK,
            RowOK, FinalOK, Refunding, Cancels, Commits, Attempting, CancelOps, RefundOps,
            InProgress
      <3>3. WorkOK(u)'
        BY <1>18, <2>1, <2>3, FailReadDoes, SchemeAssumption
        DEF FailTo, StatusTo, RefundTo, Aside, OnceOK, AmountOK, CancelOK, WorkOK, ListenOK,
            RowOK, FinalOK, Refunding, Cancels, Commits, Attempting, CancelOps, RefundOps,
            InProgress
      <3>4. ListenOK(u)'
        BY <1>18, <2>1, <2>3, FailReadDoes, SchemeAssumption
        DEF FailTo, StatusTo, RefundTo, Aside, OnceOK, AmountOK, CancelOK, WorkOK, ListenOK,
            RowOK, FinalOK, Refunding, Cancels, Commits, Attempting, CancelOps, RefundOps,
            InProgress
      <3>5. QED
        BY <3>1, <3>2, <3>3, <3>4 DEF OnceOK
    <2>4. QED
      BY <2>2, <2>3
  <1>19. ASSUME NEW s \in Schemes, FailRefundRead(s) PROVE OnceInv'
    <2> SUFFICES ASSUME NEW u \in Schemes \ (racy' \cup early') PROVE OnceOK(u)'
      BY DEF OnceInv
    <2>1. RowOK(u) /\ FinalOK(u) /\ OnceOK(u)
      BY <1>19, FailRefundReadDoes DEF Base, Placed, FinalInv, OnceInv, Alone, Aside
    <2>2. CASE u # s
      BY <1>19, <2>1, <2>2, FailRefundReadDoes, OnceKept
      DEF FailTo, StatusTo, RefundTo, Aside, Cancels, Commits, Attempting, CancelOps,
          RefundOps
    <2>3. CASE u = s
      <3>1. AmountOK(u)'
        BY <1>19, <2>1, <2>3, FailRefundReadDoes, SchemeAssumption
        DEF FailTo, StatusTo, RefundTo, Aside, OnceOK, AmountOK, CancelOK, WorkOK, ListenOK,
            RowOK, FinalOK, Refunding, Cancels, Commits, Attempting, CancelOps, RefundOps,
            InProgress
      <3>2. CancelOK(u)'
        BY <1>19, <2>1, <2>3, FailRefundReadDoes, SchemeAssumption
        DEF FailTo, StatusTo, RefundTo, Aside, OnceOK, AmountOK, CancelOK, WorkOK, ListenOK,
            RowOK, FinalOK, Refunding, Cancels, Commits, Attempting, CancelOps, RefundOps,
            InProgress
      <3>3. WorkOK(u)'
        BY <1>19, <2>1, <2>3, FailRefundReadDoes, SchemeAssumption
        DEF FailTo, StatusTo, RefundTo, Aside, OnceOK, AmountOK, CancelOK, WorkOK, ListenOK,
            RowOK, FinalOK, Refunding, Cancels, Commits, Attempting, CancelOps, RefundOps,
            InProgress
      <3>4. ListenOK(u)'
        BY <1>19, <2>1, <2>3, FailRefundReadDoes, SchemeAssumption
        DEF FailTo, StatusTo, RefundTo, Aside, OnceOK, AmountOK, CancelOK, WorkOK, ListenOK,
            RowOK, FinalOK, Refunding, Cancels, Commits, Attempting, CancelOps, RefundOps,
            InProgress
      <3>5. QED
        BY <3>1, <3>2, <3>3, <3>4 DEF OnceOK
    <2>4. QED
      BY <2>2, <2>3
  <1>20. ASSUME NEW s \in Schemes, FailRefundWrite(s) PROVE OnceInv'
    <2> SUFFICES ASSUME NEW u \in Schemes \ (racy' \cup early') PROVE OnceOK(u)'
      BY DEF OnceInv
    <2>1. RowOK(u) /\ FinalOK(u) /\ OnceOK(u)
      BY <1>20, FailRefundWriteDoes DEF Base, Placed, FinalInv, OnceInv, Alone, Aside
    <2>2. refunded[s] \in Int /\ fail[s].take \in Int /\ fail[s].amount \in 0..Total
      BY <1>20, FailRefundWriteDoes DEF Base, TypeOK, Handler
    <2>3. CASE u # s
      BY <1>20, <2>1, <2>3, FailRefundWriteDoes, OnceKept
      DEF FailTo, StatusTo, RefundTo, Aside, Cancels, Commits, Attempting, CancelOps,
          RefundOps
    <2>4. CASE u = s
      <3>1. AmountOK(u)'
        BY <1>20, <2>1, <2>2, <2>4, FailRefundWriteDoes, SchemeAssumption
        DEF FailTo, StatusTo, RefundTo, Aside, OnceOK, AmountOK, CancelOK, WorkOK, ListenOK,
            RowOK, FinalOK, Refunding, Cancels, Commits, Attempting, CancelOps, RefundOps,
            InProgress
      <3>2. CancelOK(u)'
        BY <1>20, <2>1, <2>2, <2>4, FailRefundWriteDoes, SchemeAssumption
        DEF FailTo, StatusTo, RefundTo, Aside, OnceOK, AmountOK, CancelOK, WorkOK, ListenOK,
            RowOK, FinalOK, Refunding, Cancels, Commits, Attempting, CancelOps, RefundOps,
            InProgress
      <3>3. WorkOK(u)'
        BY <1>20, <2>1, <2>2, <2>4, FailRefundWriteDoes, SchemeAssumption
        DEF FailTo, StatusTo, RefundTo, Aside, OnceOK, AmountOK, CancelOK, WorkOK, ListenOK,
            RowOK, FinalOK, Refunding, Cancels, Commits, Attempting, CancelOps, RefundOps,
            InProgress
      <3>4. ListenOK(u)'
        BY <1>20, <2>1, <2>2, <2>4, FailRefundWriteDoes, SchemeAssumption
        DEF FailTo, StatusTo, RefundTo, Aside, OnceOK, AmountOK, CancelOK, WorkOK, ListenOK,
            RowOK, FinalOK, Refunding, Cancels, Commits, Attempting, CancelOps, RefundOps,
            InProgress
      <3>5. QED
        BY <3>1, <3>2, <3>3, <3>4 DEF OnceOK
    <2>5. QED
      BY <2>3, <2>4
  <1>21. ASSUME NEW s \in Schemes, FailMark(s) PROVE OnceInv'
    <2> SUFFICES ASSUME NEW u \in Schemes \ (racy' \cup early') PROVE OnceOK(u)'
      BY DEF OnceInv
    <2>1. RowOK(u) /\ FinalOK(u) /\ OnceOK(u)
      BY <1>21, FailMarkDoes DEF Base, Placed, FinalInv, OnceInv, Alone, Aside
    <2>2. CASE u # s
      BY <1>21, <2>1, <2>2, FailMarkDoes, OnceKept
      DEF FailTo, StatusTo, RefundTo, Aside, Cancels, Commits, Attempting, CancelOps,
          RefundOps
    <2>3. CASE u = s
      <3>1. AmountOK(u)'
        BY <1>21, <2>1, <2>3, FailMarkDoes, SchemeAssumption
        DEF FailTo, StatusTo, RefundTo, Aside, OnceOK, AmountOK, CancelOK, WorkOK, ListenOK,
            RowOK, FinalOK, Refunding, Cancels, Commits, Attempting, CancelOps, RefundOps,
            InProgress
      <3>2. CancelOK(u)'
        BY <1>21, <2>1, <2>3, FailMarkDoes, SchemeAssumption
        DEF FailTo, StatusTo, RefundTo, Aside, OnceOK, AmountOK, CancelOK, WorkOK, ListenOK,
            RowOK, FinalOK, Refunding, Cancels, Commits, Attempting, CancelOps, RefundOps,
            InProgress
      <3>3. WorkOK(u)'
        BY <1>21, <2>1, <2>3, FailMarkDoes, SchemeAssumption
        DEF FailTo, StatusTo, RefundTo, Aside, OnceOK, AmountOK, CancelOK, WorkOK, ListenOK,
            RowOK, FinalOK, Refunding, Cancels, Commits, Attempting, CancelOps, RefundOps,
            InProgress
      <3>4. ListenOK(u)'
        BY <1>21, <2>1, <2>3, FailMarkDoes, SchemeAssumption
        DEF FailTo, StatusTo, RefundTo, Aside, OnceOK, AmountOK, CancelOK, WorkOK, ListenOK,
            RowOK, FinalOK, Refunding, Cancels, Commits, Attempting, CancelOps, RefundOps,
            InProgress
      <3>5. QED
        BY <3>1, <3>2, <3>3, <3>4 DEF OnceOK
    <2>4. QED
      BY <2>2, <2>3
  <1>22. ASSUME NEW p \in Requests, Fault(p) PROVE OnceInv'
    <2> SUFFICES ASSUME NEW u \in Schemes \ (racy' \cup early') PROVE OnceOK(u)'
      BY DEF OnceInv
    <2>1. RowOK(u) /\ FinalOK(u) /\ OnceOK(u)
      BY <1>22, FaultDoes DEF Base, Placed, FinalInv, OnceInv, Alone, Aside
    <2>2. QED
      BY <1>22, <2>1, FaultDoes, OnceKept
      DEF ReqTo, Carries, StatusTo, JobTo, RefundTo, Calm, Cancels, Commits, Attempting,
          CancelOps, RefundOps
  <1>23. ASSUME Restart PROVE OnceInv'
    <2> SUFFICES ASSUME NEW u \in Schemes \ (racy' \cup early') PROVE OnceOK(u)'
      BY DEF OnceInv
    <2>1. RowOK(u) /\ FinalOK(u) /\ OnceOK(u)
      BY <1>23, RestartDoes DEF Base, Placed, FinalInv, OnceInv, Alone, Aside
    <2>2. QED
      BY <1>23, <2>1, RestartDoes, OnceKept
      DEF ReqTo, Carries, StatusTo, JobTo, RefundTo, Calm, Cancels, Commits, Attempting,
          CancelOps, RefundOps
  <1>24. CASE UNCHANGED vars
    BY <1>24
    DEF vars, OnceInv, OnceOK, AmountOK, CancelOK, WorkOK, ListenOK, Attempting, Cancels,
        Commits
  <1>25. QED
    BY <1>1, <1>2, <1>3, <1>4, <1>5, <1>6, <1>7, <1>8, <1>9, <1>10, <1>11, <1>12, <1>13,
       <1>14, <1>15, <1>16, <1>17, <1>18, <1>19, <1>20, <1>21, <1>22, <1>23, <1>24
    DEF Next, EventLoop, Work, Setup, Cancel, Fail

-----------------------------------------------------------------------------
\* A request begins.
Begins == \E p \in Requests : SetupRead(p) \/ \E s \in Schemes : CancelRead(p, s)

\* The history of overlaps, and the faults, in one step.
LEMMA CleanStep ==
  ASSUME Base, [Next]_vars
  PROVE  /\ clean' => clean /\ (Begins => Quiet)
         /\ early \subseteq early'
         /\ UNCHANGED faults \/ faults' = faults + 1
  <1>1. ASSUME NEW p \in Requests, Setup(p) \/ Cancel(p)
        PROVE  UNCHANGED <<clean, faults>> /\ early \subseteq early'
    BY <1>1
    DEF Setup, SetupArchive, SetupFreeKey, UseRead, UseWrite, SetupCreate, SetupCommit, Cancel,
        CancelWrite, CancelRefundRead, CancelRefundWrite, Go, Goto, Finish
  <1>2. ASSUME Work \/ \E s \in Schemes : WorkTake(s) \/ Fail(s)
        PROVE  UNCHANGED <<clean, faults, early>>
    BY <1>2
    DEF Work, WorkTake, WorkRead, WorkVerifying, WorkVerify, WorkGenerating, WorkGenerate,
        NoWeeks, Worker,
        JobOver, AttemptFails, Fail, FailRead, FailRefundRead, FailRefundWrite, FailMark, Listener,
        flags
  <1>3. ASSUME NEW p \in Requests, SetupRead(p) \/ \E s \in Schemes : CancelRead(p, s)
        PROVE  clean' = (clean /\ Quiet) /\ UNCHANGED <<faults, early>>
    BY <1>3 DEF SetupRead, CancelRead, Begin
  <1>4. ASSUME Restart \/ \E p \in Requests : Fault(p)
        PROVE  UNCHANGED <<clean, early>> /\ faults' = faults + 1
    BY <1>4 DEF Restart, Fault, flags
  <1>5. UNCHANGED vars => UNCHANGED <<clean, faults, early>>
    BY DEF vars
  <1>6. EventLoop => UNCHANGED <<clean, faults>> /\ early \subseteq early'
    BY <1>1, <1>2 DEF EventLoop
  <1>7. Begins => clean' = (clean /\ Quiet)
    BY <1>3 DEF Begins
  <1>8. UNCHANGED clean \/ clean' = (clean /\ Quiet)
    BY <1>3, <1>4, <1>5, <1>6, Zenon DEF Next
  <1>9. clean' => clean /\ (Begins => Quiet)
    BY <1>7, <1>8, Zenon
  <1>10. QED
    BY <1>3, <1>4, <1>5, <1>6, <1>9 DEF Next

LEMMA OneRequestStep == ASSUME Base, Lone, Begins => Quiet, [Next]_vars PROVE Lone'
  <1>1. ASSUME NEW p \in Requests, Setup(p) \/ Cancel(p) PROVE Lone'
    <2>1. req[p].op # "idle" /\ \A q \in Requests : q # p => req'[q] = req[q]
      BY <1>1, SetupArchiveDoes, SetupFreeKeyDoes, UseReadDoes, UseWriteDoes, SetupCreateDoes,
         SetupCommitDoes, CancelWriteDoes, CancelRefundReadDoes, CancelRefundWriteDoes
      DEF Setup, Cancel, ReqTo
    <2>2. QED
      BY <2>1 DEF Lone
  <1>2. CASE Work
    BY <1>2, WorkReadDoes, WorkVerifyingDoes, WorkVerifyDoes, WorkGeneratingDoes,
       WorkGenerateDoes
    DEF Work, Alone, Lone
  <1>3. ASSUME NEW s \in Schemes, WorkTake(s) \/ Fail(s) PROVE Lone'
    BY <1>3, WorkTakeDoes, FailReadDoes, FailRefundReadDoes, FailRefundWriteDoes, FailMarkDoes
    DEF Fail, Aside, Lone
  <1>4. ASSUME NEW p \in Requests, SetupRead(p) \/ \E s \in Schemes : CancelRead(p, s)
        PROVE  Lone'
    <2>1. Quiet
      BY <1>4 DEF Begins
    <2>2. \A q \in Requests : q # p => req'[q] = req[q]
      BY <1>4, SetupReadDoes, CancelReadDoes DEF ReqTo
    <2>3. QED
      BY <2>1, <2>2 DEF Lone, Quiet
  <1>5. ASSUME Restart \/ \E p \in Requests : Fault(p) PROVE Lone'
    BY <1>5, RestartDoes, FaultDoes DEF ReqTo, Carries, Lone
  <1>6. CASE UNCHANGED vars
    BY <1>6 DEF Lone, vars
  <1>7. QED
    BY <1>1, <1>2, <1>3, <1>4, <1>5, <1>6 DEF Next, EventLoop

LEMMA LiveStep ==
  ASSUME Base, Lone, LiveOK, Begins => Quiet, early' = {}, [Next]_vars
  PROVE  LiveOK'
  <1>1. ASSUME NEW p \in Requests, SetupRead(p) PROVE LiveOK'
    <2>1. Quiet
      BY <1>1 DEF Begins
    <2>2. QED
      BY <1>1, <2>1, SetupReadDoes
      DEF ReqTo, Carries, StatusTo, JobTo, RefundTo, FailTo, WorkTo, Calm, Alone, Aside, Goes,
          Ends, Throws, Final, Base, Placed, RowOK, LiveOK, Lone, Live, Quiet, Attempting,
          CancelOps, RefundOps, SetupOps, InProgress, Refunding, Unfinished
  <1>2. ASSUME NEW p \in Requests, SetupArchive(p) PROVE LiveOK'
    <2>1. Unfinished(req[p].id) \/ fail[req[p].id].op # "idle" => FALSE
      BY <1>2, SetupArchiveDoes
    <2>2. job[req[p].id] \in JobStates /\ job[req[p].id].state # "none"
      <3>1. req[p].id \in Schemes /\ job \in [Schemes -> JobStates]
        BY <1>2, SetupArchiveDoes DEF Base, TypeOK, JobStates, Placed
      <3>2. status[req[p].id] # "none"
        BY <1>2, <3>1, SetupArchiveDoes DEF Base, Placed, RowOK
      <3>3. QED
        BY <3>1, <3>2 DEF Base, Placed
    <2>3. job[req[p].id].state \in Done /\ fail[req[p].id].op = "idle"
      BY <2>1, <2>2 DEF Unfinished, JobStates
    <2>4. Live' = {}
      BY <1>2, SetupArchiveDoes DEF LiveOK, Live, StatusTo
    <2>5. QED
      BY <1>2, <2>3, <2>4, SetupArchiveDoes
      DEF LiveOK, Lone, ReqTo, Carries, StatusTo, Calm, SetupOps, CancelOps, RefundOps
  <1>3. ASSUME NEW p \in Requests, SetupFreeKey(p) PROVE LiveOK'
    BY <1>3, SetupFreeKeyDoes
    DEF ReqTo, Carries, Calm, Base, Placed, RowOK, LiveOK, Lone, Live, Quiet, Attempting,
        CancelOps, RefundOps, SetupOps, InProgress, Refunding, Unfinished
  <1>4. ASSUME NEW p \in Requests, UseRead(p) PROVE LiveOK'
    BY <1>4, UseReadDoes
    DEF ReqTo, Carries, Calm, Base, Placed, RowOK, LiveOK, Lone, Live, Quiet, Attempting,
        CancelOps, RefundOps, SetupOps, InProgress, Refunding, Unfinished
  <1>5. ASSUME NEW p \in Requests, UseWrite(p) PROVE LiveOK'
    BY <1>5, UseWriteDoes
    DEF ReqTo, Carries, Calm, Base, Placed, RowOK, LiveOK, Lone, Live, Quiet, Attempting,
        CancelOps, RefundOps, SetupOps, InProgress, Refunding, Unfinished
  <1>6. ASSUME NEW p \in Requests, SetupCreate(p) PROVE LiveOK'
    <2>1. UNCHANGED <<Live, status>> /\ Calm
      BY <1>6, SetupCreateDoes DEF Live
    <2>2. CASE ReqTo(p, "idle", 0, 0, 0) /\ job' = job
      BY <2>1, <2>2 DEF LiveOK, ReqTo, Carries, Calm, SetupOps, CancelOps, RefundOps
    <2>3. ASSUME NEW s \in Unused, ReqTo(p, "commit", s, 0, 0), JobTo(s, "waiting", job[s].made)
          PROVE  LiveOK'
      <3>1. req[p].op = "create"
        BY <1>6, SetupCreateDoes
      <3>2. Live = {}
        BY <3>1 DEF LiveOK, SetupOps
      <3>3. QED
        BY <2>1, <2>3, <3>2
        DEF LiveOK, ReqTo, JobTo, Carries, Calm, Unused, SetupOps, CancelOps, RefundOps
    <2>4. QED
      BY <1>6, <2>2, <2>3, SetupCreateDoes
  <1>7. ASSUME NEW p \in Requests, SetupCommit(p) PROVE LiveOK'
    BY <1>7, SetupCommitDoes
    DEF ReqTo, Carries, StatusTo, Calm, Base, Placed, RowOK, LiveOK, Lone, Live, Quiet,
        Attempting, CancelOps, RefundOps, SetupOps, InProgress, Refunding, Unfinished
  <1>8. ASSUME NEW p \in Requests, CancelWrite(p) PROVE LiveOK'
    BY <1>8, CancelWriteDoes
    DEF ReqTo, Carries, StatusTo, Calm, Base, Placed, RowOK, LiveOK, Lone, Live, Quiet,
        Attempting, CancelOps, RefundOps, SetupOps, InProgress, Refunding, Unfinished
  <1>9. ASSUME NEW p \in Requests, CancelRefundRead(p) PROVE LiveOK'
    BY <1>9, CancelRefundReadDoes
    DEF ReqTo, Carries, Calm, Base, Placed, RowOK, LiveOK, Lone, Live, Quiet, Attempting,
        CancelOps, RefundOps, SetupOps, InProgress, Refunding, Unfinished
  <1>10. ASSUME NEW p \in Requests, CancelRefundWrite(p) PROVE LiveOK'
    BY <1>10, CancelRefundWriteDoes
    DEF ReqTo, Carries, RefundTo, Calm, Base, Placed, RowOK, LiveOK, Lone, Live, Quiet,
        Attempting, CancelOps, RefundOps, SetupOps, InProgress, Refunding, Unfinished
  <1>11. ASSUME NEW p \in Requests, NEW s \in Schemes, CancelRead(p, s) PROVE LiveOK'
    <2>1. Quiet
      BY <1>11 DEF Begins
    <2>2. QED
      BY <1>11, <2>1, CancelReadDoes
      DEF ReqTo, Carries, StatusTo, JobTo, RefundTo, FailTo, WorkTo, Calm, Alone, Aside, Goes,
          Ends, Throws, Final, Base, Placed, RowOK, LiveOK, Lone, Live, Quiet, Attempting,
          CancelOps, RefundOps, SetupOps, InProgress, Refunding, Unfinished
  <1>12. ASSUME NEW s \in Schemes, WorkTake(s) PROVE LiveOK'
    BY <1>12, WorkTakeDoes
    DEF WorkTo, JobTo, Base, Placed, RowOK, LiveOK, Lone, Live, Quiet, Attempting, CancelOps,
        RefundOps, SetupOps, InProgress, Refunding, Unfinished
  <1>13. ASSUME WorkRead PROVE LiveOK'
    BY <1>13, WorkReadDoes
    DEF WorkTo, JobTo, FailTo, Goes, Ends, Throws, Final, Alone, Base, Placed, RowOK, LiveOK,
        Lone, Live, Quiet, Attempting, CancelOps, RefundOps, SetupOps, InProgress, Refunding,
        Unfinished
  <1>14. ASSUME WorkVerifying PROVE LiveOK'
    BY <1>14, WorkVerifyingDoes
    DEF WorkTo, StatusTo, Goes, Alone, Base, Placed, RowOK, LiveOK, Lone, Live, Quiet,
        Attempting, CancelOps, RefundOps, SetupOps, InProgress, Refunding, Unfinished
  <1>15. ASSUME WorkVerify PROVE LiveOK'
    BY <1>15, WorkVerifyDoes
    DEF WorkTo, JobTo, FailTo, StatusTo, Goes, Ends, Throws, Final, Alone, Base, Placed,
        RowOK, LiveOK, Lone, Live, Quiet, Attempting, CancelOps, RefundOps, SetupOps,
        InProgress, Refunding, Unfinished
  <1>16. ASSUME WorkGenerating PROVE LiveOK'
    BY <1>16, WorkGeneratingDoes
    DEF WorkTo, StatusTo, Goes, Alone, Base, Placed, RowOK, LiveOK, Lone, Live, Quiet,
        Attempting, CancelOps, RefundOps, SetupOps, InProgress, Refunding, Unfinished
  <1>17. ASSUME WorkGenerate PROVE LiveOK'
    BY <1>17, WorkGenerateDoes
    DEF WorkTo, JobTo, FailTo, StatusTo, Goes, Ends, Leaves, Throws, Final, Alone, Base, Placed,
        RowOK, LiveOK, Lone, Live, Quiet, Attempting, CancelOps, RefundOps, SetupOps,
        InProgress, Refunding, Unfinished
  <1>18. ASSUME NEW s \in Schemes, FailRead(s) PROVE LiveOK'
    BY <1>18, FailReadDoes
    DEF FailTo, Aside, Base, Placed, RowOK, LiveOK, Lone, Live, Quiet, Attempting, CancelOps,
        RefundOps, SetupOps, InProgress, Refunding, Unfinished
  <1>19. ASSUME NEW s \in Schemes, FailRefundRead(s) PROVE LiveOK'
    BY <1>19, FailRefundReadDoes
    DEF FailTo, Aside, Base, Placed, RowOK, LiveOK, Lone, Live, Quiet, Attempting, CancelOps,
        RefundOps, SetupOps, InProgress, Refunding, Unfinished
  <1>20. ASSUME NEW s \in Schemes, FailRefundWrite(s) PROVE LiveOK'
    BY <1>20, FailRefundWriteDoes
    DEF FailTo, RefundTo, Aside, Base, Placed, RowOK, LiveOK, Lone, Live, Quiet, Attempting,
        CancelOps, RefundOps, SetupOps, InProgress, Refunding, Unfinished
  <1>21. ASSUME NEW s \in Schemes, FailMark(s) PROVE LiveOK'
    BY <1>21, FailMarkDoes
    DEF FailTo, StatusTo, Aside, Base, Placed, RowOK, LiveOK, Lone, Live, Quiet, Attempting,
        CancelOps, RefundOps, SetupOps, InProgress, Refunding, Unfinished
  <1>22. ASSUME NEW p \in Requests, Fault(p) PROVE LiveOK'
    BY <1>22, FaultDoes
    DEF ReqTo, Carries, Base, Placed, RowOK, LiveOK, Lone, Live, Quiet, Attempting, CancelOps,
        RefundOps, SetupOps, InProgress, Refunding, Unfinished
  <1>23. ASSUME Restart PROVE LiveOK'
    BY <1>23, RestartDoes
    DEF Base, Placed, RowOK, LiveOK, Lone, Live, Quiet, Attempting, CancelOps, RefundOps,
        SetupOps, InProgress, Refunding, Unfinished
  <1>24. CASE UNCHANGED vars
    BY <1>24
    DEF vars, Base, Placed, RowOK, LiveOK, Lone, Live, Quiet, Attempting, CancelOps,
        RefundOps, SetupOps, InProgress, Refunding, Unfinished
  <1>25. QED
    BY <1>1, <1>2, <1>3, <1>4, <1>5, <1>6, <1>7, <1>8, <1>9, <1>10, <1>11, <1>12, <1>13,
       <1>14, <1>15, <1>16, <1>17, <1>18, <1>19, <1>20, <1>21, <1>22, <1>23, <1>24
    DEF Next, EventLoop, Work, Setup, Cancel, Fail

LEMMA SlotStep ==
  ASSUME Base, Lone, SlotOK, Begins => Quiet, [Next]_vars
  PROVE  SlotOK'
  <1>1. ASSUME NEW p \in Requests, SetupRead(p) PROVE SlotOK'
    <2>1. Quiet
      BY <1>1 DEF Begins
    <2>2. QED
      BY <1>1, <2>1, SetupReadDoes
      DEF ReqTo, Carries, StatusTo, JobTo, RefundTo, FailTo, WorkTo, Calm, Alone, Aside, Goes,
          Ends, Throws, Final, Base, Placed, RowOK, Lone, Quiet, SlotOK, Unused, Attempting,
          CancelOps, RefundOps, SetupOps, InProgress, Refunding
  <1>2. ASSUME NEW p \in Requests, SetupArchive(p) PROVE SlotOK'
    BY <1>2, SetupArchiveDoes
    DEF ReqTo, Carries, StatusTo, Calm, Base, Placed, RowOK, Lone, Quiet, SlotOK, Unused,
        Attempting, CancelOps, RefundOps, SetupOps, InProgress, Refunding
  <1>3. ASSUME NEW p \in Requests, SetupFreeKey(p) PROVE SlotOK'
    BY <1>3, SetupFreeKeyDoes
    DEF ReqTo, Carries, Calm, Base, Placed, RowOK, Lone, Quiet, SlotOK, Unused, Attempting,
        CancelOps, RefundOps, SetupOps, InProgress, Refunding
  <1>4. ASSUME NEW p \in Requests, UseRead(p) PROVE SlotOK'
    BY <1>4, UseReadDoes
    DEF ReqTo, Carries, Calm, Base, Placed, RowOK, Lone, Quiet, SlotOK, Unused, Attempting,
        CancelOps, RefundOps, SetupOps, InProgress, Refunding
  <1>5. ASSUME NEW p \in Requests, UseWrite(p) PROVE SlotOK'
    BY <1>5, UseWriteDoes
    DEF ReqTo, Carries, Calm, Base, Placed, RowOK, Lone, Quiet, SlotOK, Unused, Attempting,
        CancelOps, RefundOps, SetupOps, InProgress, Refunding
  <1>6. ASSUME NEW p \in Requests, SetupCreate(p) PROVE SlotOK'
    BY <1>6, SetupCreateDoes
    DEF ReqTo, Carries, JobTo, Calm, Base, Placed, RowOK, Lone, Quiet, SlotOK, Unused,
        Attempting, CancelOps, RefundOps, SetupOps, InProgress, Refunding
  <1>7. ASSUME NEW p \in Requests, SetupCommit(p) PROVE SlotOK'
    BY <1>7, SetupCommitDoes
    DEF ReqTo, Carries, StatusTo, Calm, Base, Placed, RowOK, Lone, Quiet, SlotOK, Unused,
        Attempting, CancelOps, RefundOps, SetupOps, InProgress, Refunding
  <1>8. ASSUME NEW p \in Requests, CancelWrite(p) PROVE SlotOK'
    BY <1>8, CancelWriteDoes
    DEF ReqTo, Carries, StatusTo, Calm, Base, Placed, RowOK, Lone, Quiet, SlotOK, Unused,
        Attempting, CancelOps, RefundOps, SetupOps, InProgress, Refunding
  <1>9. ASSUME NEW p \in Requests, CancelRefundRead(p) PROVE SlotOK'
    BY <1>9, CancelRefundReadDoes
    DEF ReqTo, Carries, Calm, Base, Placed, RowOK, Lone, Quiet, SlotOK, Unused, Attempting,
        CancelOps, RefundOps, SetupOps, InProgress, Refunding
  <1>10. ASSUME NEW p \in Requests, CancelRefundWrite(p) PROVE SlotOK'
    BY <1>10, CancelRefundWriteDoes
    DEF ReqTo, Carries, RefundTo, Calm, Base, Placed, RowOK, Lone, Quiet, SlotOK, Unused,
        Attempting, CancelOps, RefundOps, SetupOps, InProgress, Refunding
  <1>11. ASSUME NEW p \in Requests, NEW s \in Schemes, CancelRead(p, s) PROVE SlotOK'
    <2>1. Quiet
      BY <1>11 DEF Begins
    <2>2. QED
      BY <1>11, <2>1, CancelReadDoes
      DEF ReqTo, Carries, StatusTo, JobTo, RefundTo, FailTo, WorkTo, Calm, Alone, Aside, Goes,
          Ends, Throws, Final, Base, Placed, RowOK, Lone, Quiet, SlotOK, Unused, Attempting,
          CancelOps, RefundOps, SetupOps, InProgress, Refunding
  <1>12. ASSUME NEW s \in Schemes, WorkTake(s) PROVE SlotOK'
    BY <1>12, WorkTakeDoes
    DEF WorkTo, JobTo, Base, Placed, RowOK, Lone, Quiet, SlotOK, Unused, Attempting,
        CancelOps, RefundOps, SetupOps, InProgress, Refunding
  <1>13. ASSUME WorkRead PROVE SlotOK'
    BY <1>13, WorkReadDoes
    DEF WorkTo, JobTo, FailTo, Goes, Ends, Throws, Final, Alone, Base, Placed, RowOK, Lone,
        Quiet, SlotOK, Unused, Attempting, CancelOps, RefundOps, SetupOps, InProgress,
        Refunding
  <1>14. ASSUME WorkVerifying PROVE SlotOK'
    BY <1>14, WorkVerifyingDoes
    DEF WorkTo, StatusTo, Goes, Alone, Base, Placed, RowOK, Lone, Quiet, SlotOK, Unused,
        Attempting, CancelOps, RefundOps, SetupOps, InProgress, Refunding
  <1>15. ASSUME WorkVerify PROVE SlotOK'
    BY <1>15, WorkVerifyDoes
    DEF WorkTo, JobTo, FailTo, StatusTo, Goes, Ends, Throws, Final, Alone, Base, Placed,
        RowOK, Lone, Quiet, SlotOK, Unused, Attempting, CancelOps, RefundOps, SetupOps,
        InProgress, Refunding
  <1>16. ASSUME WorkGenerating PROVE SlotOK'
    BY <1>16, WorkGeneratingDoes
    DEF WorkTo, StatusTo, Goes, Alone, Base, Placed, RowOK, Lone, Quiet, SlotOK, Unused,
        Attempting, CancelOps, RefundOps, SetupOps, InProgress, Refunding
  <1>17. ASSUME WorkGenerate PROVE SlotOK'
    BY <1>17, WorkGenerateDoes
    DEF WorkTo, JobTo, FailTo, StatusTo, Goes, Ends, Leaves, Throws, Final, Alone, Base, Placed,
        RowOK, Lone, Quiet, SlotOK, Unused, Attempting, CancelOps, RefundOps, SetupOps,
        InProgress, Refunding
  <1>18. ASSUME NEW s \in Schemes, FailRead(s) PROVE SlotOK'
    BY <1>18, FailReadDoes
    DEF FailTo, Aside, Base, Placed, RowOK, Lone, Quiet, SlotOK, Unused, Attempting,
        CancelOps, RefundOps, SetupOps, InProgress, Refunding
  <1>19. ASSUME NEW s \in Schemes, FailRefundRead(s) PROVE SlotOK'
    BY <1>19, FailRefundReadDoes
    DEF FailTo, Aside, Base, Placed, RowOK, Lone, Quiet, SlotOK, Unused, Attempting,
        CancelOps, RefundOps, SetupOps, InProgress, Refunding
  <1>20. ASSUME NEW s \in Schemes, FailRefundWrite(s) PROVE SlotOK'
    BY <1>20, FailRefundWriteDoes
    DEF FailTo, RefundTo, Aside, Base, Placed, RowOK, Lone, Quiet, SlotOK, Unused, Attempting,
        CancelOps, RefundOps, SetupOps, InProgress, Refunding
  <1>21. ASSUME NEW s \in Schemes, FailMark(s) PROVE SlotOK'
    BY <1>21, FailMarkDoes
    DEF FailTo, StatusTo, Aside, Base, Placed, RowOK, Lone, Quiet, SlotOK, Unused, Attempting,
        CancelOps, RefundOps, SetupOps, InProgress, Refunding
  <1>22. ASSUME NEW p \in Requests, Fault(p) PROVE SlotOK'
    BY <1>22, FaultDoes
    DEF ReqTo, Carries, Base, Placed, RowOK, Lone, Quiet, SlotOK, Unused, Attempting, CancelOps,
        RefundOps, SetupOps, InProgress, Refunding
  <1>23. ASSUME Restart PROVE SlotOK'
    BY <1>23, RestartDoes
    DEF Base, Placed, RowOK, Lone, Quiet, SlotOK, Unused, Attempting, CancelOps, RefundOps,
        SetupOps, InProgress, Refunding
  <1>24. CASE UNCHANGED vars
    BY <1>24
    DEF vars, Base, Placed, RowOK, Lone, Quiet, SlotOK, Unused, Attempting, CancelOps,
        RefundOps, SetupOps, InProgress, Refunding
  <1>25. QED
    BY <1>1, <1>2, <1>3, <1>4, <1>5, <1>6, <1>7, <1>8, <1>9, <1>10, <1>11, <1>12, <1>13,
       <1>14, <1>15, <1>16, <1>17, <1>18, <1>19, <1>20, <1>21, <1>22, <1>23, <1>24
    DEF Next, EventLoop, Work, Setup, Cancel, Fail

LEMMA RowedFinite == Cardinality(Rowed) \in Nat /\ IsFiniteSet(Rowed)
  <1>1. Rowed \subseteq Schemes /\ IsFiniteSet(Schemes)
    BY SchemeAssumption DEF Rowed
  <1>2. QED
    BY <1>1, FS_Subset, FS_CardinalityType

LEMMA SumKept ==
  ASSUME Base, TypeOK', SumOK, Rowed' = Rowed, used' + returned' = used + returned,
         Charged' <=> Charged
  PROVE  SumOK'
  <1>1. Cardinality(Rowed) \in Nat
    BY RowedFinite
  <1>2. Total * Cardinality(Rowed) \in Int
    BY <1>1, SchemeAssumption
  <1>3. used \in Int /\ used' \in Int /\ returned \in Int /\ returned' \in Int
    BY DEF Base, TypeOK
  <1>4. CASE Charged
    BY <1>2, <1>3, <1>4, SchemeAssumption DEF SumOK
  <1>5. CASE ~Charged
    BY <1>2, <1>3, <1>5, SchemeAssumption DEF SumOK
  <1>6. QED
    BY <1>4, <1>5

LEMMA SumStep ==
  ASSUME Base, Lone, SlotOK, SumOK, Begins => Quiet, faults' = 0, [Next]_vars
  PROVE  SumOK'
  <1>1. ASSUME NEW p \in Requests, SetupRead(p) PROVE SumOK'
    <2>1. TypeOK'
      BY <1>1, SetupReadDoes
    <2>2. Rowed' = Rowed
      BY <1>1, SetupReadDoes
      DEF ReqTo, Carries, StatusTo, RefundTo, Calm, Base, Placed, RowOK, Attempting, CancelOps,
          RefundOps, Refunding, Rowed, InProgress
    <2>3. used' + returned' = used + returned
      BY <1>1, SetupReadDoes DEF Alone
    <2>4. Quiet
      BY <1>1 DEF Begins
    <2>5. Charged' <=> Charged
      BY <1>1, <2>4, SetupReadDoes
      DEF ReqTo, Carries, StatusTo, RefundTo, Calm, Lone, Quiet, Charged
    <2>6. QED
      BY <2>1, <2>2, <2>3, <2>5, SumKept
  <1>2. ASSUME NEW p \in Requests, SetupArchive(p) PROVE SumOK'
    <2>1. TypeOK'
      BY <1>2, SetupArchiveDoes
    <2>2. Rowed' = Rowed
      BY <1>2, SetupArchiveDoes
      DEF ReqTo, Carries, StatusTo, RefundTo, Calm, Base, Placed, RowOK, Attempting, CancelOps,
          RefundOps, Refunding, Rowed, InProgress
    <2>3. used' + returned' = used + returned
      BY <1>2, SetupArchiveDoes DEF Alone
    <2>4. Charged' <=> Charged
      BY <1>2, SetupArchiveDoes DEF ReqTo, Carries, StatusTo, RefundTo, Calm, Lone, Quiet, Charged
    <2>5. QED
      BY <2>1, <2>2, <2>3, <2>4, SumKept
  <1>3. ASSUME NEW p \in Requests, SetupFreeKey(p) PROVE SumOK'
    <2>1. TypeOK'
      BY <1>3, SetupFreeKeyDoes
    <2>2. Rowed' = Rowed
      BY <1>3, SetupFreeKeyDoes
      DEF ReqTo, Carries, StatusTo, RefundTo, Calm, Base, Placed, RowOK, Attempting, CancelOps,
          RefundOps, Refunding, Rowed, InProgress
    <2>3. used' + returned' = used + returned
      BY <1>3, SetupFreeKeyDoes DEF Alone
    <2>4. Charged' <=> Charged
      BY <1>3, SetupFreeKeyDoes DEF ReqTo, Carries, StatusTo, RefundTo, Calm, Lone, Quiet, Charged
    <2>5. QED
      BY <2>1, <2>2, <2>3, <2>4, SumKept
  <1>4. ASSUME NEW p \in Requests, UseRead(p) PROVE SumOK'
    <2>1. TypeOK'
      BY <1>4, UseReadDoes
    <2>2. Rowed' = Rowed
      BY <1>4, UseReadDoes
      DEF ReqTo, Carries, StatusTo, RefundTo, Calm, Base, Placed, RowOK, Attempting, CancelOps,
          RefundOps, Refunding, Rowed, InProgress
    <2>3. used' + returned' = used + returned
      BY <1>4, UseReadDoes DEF Alone
    <2>4. Charged' <=> Charged
      BY <1>4, UseReadDoes DEF ReqTo, Carries, StatusTo, RefundTo, Calm, Lone, Quiet, Charged
    <2>5. QED
      BY <2>1, <2>2, <2>3, <2>4, SumKept
  <1>5. ASSUME NEW p \in Requests, UseWrite(p) PROVE SumOK'
    <2>1. Cardinality(Rowed) \in Nat /\ IsFiniteSet(Rowed)
      BY RowedFinite
    <2>2. used \in Int /\ returned \in Int /\ Total \in Nat /\ Total * Cardinality(Rowed) \in Int
      BY <2>1, SchemeAssumption DEF Base, TypeOK
    <2>3. ~Charged /\ Charged'
      BY <1>5, UseWriteDoes DEF ReqTo, Carries, Lone, Charged
    <2>4. Rowed' = Rowed /\ used' = used + Total /\ returned' = returned
      BY <1>5, UseWriteDoes DEF Rowed
    <2>5. QED
      BY <2>2, <2>3, <2>4 DEF SumOK
  <1>6. ASSUME NEW p \in Requests, SetupCreate(p) PROVE SumOK'
    <2>1. key = {} /\ Unused # {} /\ TypeOK'
      BY <1>6, SetupCreateDoes DEF SlotOK, SetupOps
    <2>2. Rowed' = Rowed /\ used' + returned' = used + returned
      BY <1>6, SetupCreateDoes DEF Rowed
    <2>3. Charged' <=> Charged
      BY <1>6, <2>1, SetupCreateDoes DEF ReqTo, Carries, Charged
    <2>4. QED
      BY <2>1, <2>2, <2>3, SumKept
  <1>7. ASSUME NEW p \in Requests, SetupCommit(p) PROVE SumOK'
    <2>1. Cardinality(Rowed) \in Nat /\ IsFiniteSet(Rowed)
      BY RowedFinite
    <2>2. used \in Int /\ returned \in Int /\ Total \in Nat /\ Total * Cardinality(Rowed) \in Int
      BY <2>1, SchemeAssumption DEF Base, TypeOK
    <2>3. Charged /\ ~Charged'
      BY <1>7, SetupCommitDoes DEF ReqTo, Carries, Lone, Charged
    <2>4. req[p].id \notin Rowed /\ Rowed' = Rowed \cup {req[p].id}
      BY <1>7, SetupCommitDoes DEF StatusTo, Rowed, Base, Placed, RowOK, Commits
    <2>5. Cardinality(Rowed') = Cardinality(Rowed) + 1
      BY <2>1, <2>4, FS_AddElement
    <2>6. Total * (Cardinality(Rowed) + 1) = Total * Cardinality(Rowed) + Total
      BY <2>1, <2>2
    <2>7. used' = used /\ returned' = returned
      BY <1>7, SetupCommitDoes
    <2>8. QED
      BY <2>2, <2>3, <2>5, <2>6, <2>7 DEF SumOK
  <1>8. ASSUME NEW p \in Requests, CancelWrite(p) PROVE SumOK'
    <2>1. TypeOK'
      BY <1>8, CancelWriteDoes
    <2>2. Rowed' = Rowed
      BY <1>8, CancelWriteDoes
      DEF ReqTo, Carries, StatusTo, RefundTo, Calm, Base, Placed, RowOK, Attempting, CancelOps,
          RefundOps, Refunding, Rowed, InProgress
    <2>3. used' + returned' = used + returned
      BY <1>8, CancelWriteDoes DEF Alone
    <2>4. Charged' <=> Charged
      BY <1>8, CancelWriteDoes DEF ReqTo, Carries, StatusTo, RefundTo, Calm, Lone, Quiet, Charged
    <2>5. QED
      BY <2>1, <2>2, <2>3, <2>4, SumKept
  <1>9. ASSUME NEW p \in Requests, CancelRefundRead(p) PROVE SumOK'
    <2>1. TypeOK'
      BY <1>9, CancelRefundReadDoes
    <2>2. Rowed' = Rowed
      BY <1>9, CancelRefundReadDoes
      DEF ReqTo, Carries, StatusTo, RefundTo, Calm, Base, Placed, RowOK, Attempting, CancelOps,
          RefundOps, Refunding, Rowed, InProgress
    <2>3. used' + returned' = used + returned
      BY <1>9, CancelRefundReadDoes DEF Alone
    <2>4. Charged' <=> Charged
      BY <1>9, CancelRefundReadDoes
      DEF ReqTo, Carries, StatusTo, RefundTo, Calm, Lone, Quiet, Charged
    <2>5. QED
      BY <2>1, <2>2, <2>3, <2>4, SumKept
  <1>10. ASSUME NEW p \in Requests, CancelRefundWrite(p) PROVE SumOK'
    <2>1. TypeOK'
      BY <1>10, CancelRefundWriteDoes
    <2>2. Rowed' = Rowed
      BY <1>10, CancelRefundWriteDoes
      DEF ReqTo, Carries, StatusTo, RefundTo, Calm, Base, Placed, RowOK, Attempting, CancelOps,
          RefundOps, Refunding, Rowed, InProgress
    <2>3. used' + returned' = used + returned
      <3>1. used \in Int /\ returned \in Int /\ req[p].take \in Int
        BY <1>10, CancelRefundWriteDoes DEF Base, TypeOK, Handler
      <3>2. QED
        BY <1>10, <3>1, CancelRefundWriteDoes DEF RefundTo
    <2>4. Charged' <=> Charged
      BY <1>10, CancelRefundWriteDoes
      DEF ReqTo, Carries, StatusTo, RefundTo, Calm, Lone, Quiet, Charged
    <2>5. QED
      BY <2>1, <2>2, <2>3, <2>4, SumKept
  <1>11. ASSUME NEW p \in Requests, NEW s \in Schemes, CancelRead(p, s) PROVE SumOK'
    <2>1. TypeOK'
      BY <1>11, CancelReadDoes
    <2>2. Rowed' = Rowed
      BY <1>11, CancelReadDoes
      DEF ReqTo, Carries, StatusTo, RefundTo, Calm, Base, Placed, RowOK, Attempting, CancelOps,
          RefundOps, Refunding, Rowed, InProgress
    <2>3. used' + returned' = used + returned
      BY <1>11, CancelReadDoes DEF Alone
    <2>4. Quiet
      BY <1>11 DEF Begins
    <2>5. Charged' <=> Charged
      BY <1>11, <2>4, CancelReadDoes
      DEF ReqTo, Carries, StatusTo, RefundTo, Calm, Lone, Quiet, Charged
    <2>6. QED
      BY <2>1, <2>2, <2>3, <2>5, SumKept
  <1>12. ASSUME NEW s \in Schemes, WorkTake(s) PROVE SumOK'
    <2>1. TypeOK'
      BY <1>12, WorkTakeDoes
    <2>2. Rowed' = Rowed
      BY <1>12, WorkTakeDoes
      DEF StatusTo, Alone, Base, Placed, RowOK, Attempting, CancelOps, RefundOps, Refunding,
          Rowed, InProgress
    <2>3. used' + returned' = used + returned
      BY <1>12, WorkTakeDoes DEF Alone
    <2>4. Charged' <=> Charged
      BY <1>12, WorkTakeDoes DEF StatusTo, Alone, Charged
    <2>5. QED
      BY <2>1, <2>2, <2>3, <2>4, SumKept
  <1>13. ASSUME WorkRead PROVE SumOK'
    <2>1. TypeOK'
      BY <1>13, WorkReadDoes
    <2>2. Rowed' = Rowed
      BY <1>13, WorkReadDoes
      DEF StatusTo, Alone, Base, Placed, RowOK, Attempting, CancelOps, RefundOps, Refunding,
          Rowed, InProgress
    <2>3. used' + returned' = used + returned
      BY <1>13, WorkReadDoes DEF Alone
    <2>4. Charged' <=> Charged
      BY <1>13, WorkReadDoes DEF StatusTo, Alone, Charged
    <2>5. QED
      BY <2>1, <2>2, <2>3, <2>4, SumKept
  <1>14. ASSUME WorkVerifying PROVE SumOK'
    <2>1. TypeOK'
      BY <1>14, WorkVerifyingDoes
    <2>2. Rowed' = Rowed
      BY <1>14, WorkVerifyingDoes
      DEF StatusTo, Alone, Base, Placed, RowOK, Attempting, CancelOps, RefundOps, Refunding,
          Rowed, InProgress
    <2>3. used' + returned' = used + returned
      BY <1>14, WorkVerifyingDoes DEF Alone
    <2>4. Charged' <=> Charged
      BY <1>14, WorkVerifyingDoes DEF StatusTo, Alone, Charged
    <2>5. QED
      BY <2>1, <2>2, <2>3, <2>4, SumKept
  <1>15. ASSUME WorkVerify PROVE SumOK'
    <2>1. TypeOK'
      BY <1>15, WorkVerifyDoes
    <2>2. Rowed' = Rowed
      BY <1>15, WorkVerifyDoes
      DEF StatusTo, Alone, Base, Placed, RowOK, Attempting, CancelOps, RefundOps, Refunding,
          Rowed, InProgress
    <2>3. used' + returned' = used + returned
      BY <1>15, WorkVerifyDoes DEF Alone
    <2>4. Charged' <=> Charged
      BY <1>15, WorkVerifyDoes DEF StatusTo, Alone, Charged
    <2>5. QED
      BY <2>1, <2>2, <2>3, <2>4, SumKept
  <1>16. ASSUME WorkGenerating PROVE SumOK'
    <2>1. TypeOK'
      BY <1>16, WorkGeneratingDoes
    <2>2. Rowed' = Rowed
      BY <1>16, WorkGeneratingDoes
      DEF StatusTo, Alone, Base, Placed, RowOK, Attempting, CancelOps, RefundOps, Refunding,
          Rowed, InProgress
    <2>3. used' + returned' = used + returned
      BY <1>16, WorkGeneratingDoes DEF Alone
    <2>4. Charged' <=> Charged
      BY <1>16, WorkGeneratingDoes DEF StatusTo, Alone, Charged
    <2>5. QED
      BY <2>1, <2>2, <2>3, <2>4, SumKept
  <1>17. ASSUME WorkGenerate PROVE SumOK'
    <2>1. TypeOK'
      BY <1>17, WorkGenerateDoes
    <2>2. Rowed' = Rowed
      <3>1. RowOK(work.id) /\ work.op = "generate" /\ work.id \in Schemes
        BY <1>17, WorkGenerateDoes DEF Base, Placed
      <3>2. status[work.id] # "none"
        BY <3>1 DEF RowOK, Attempting
      <3>3. \/ UNCHANGED status \/ StatusTo(work.id, "DRAFT") \/ StatusTo(work.id, "FAILED")
        BY <1>17, WorkGenerateDoes DEF Leaves
      <3>4. QED
        BY <3>1, <3>2, <3>3 DEF StatusTo, Rowed
    <2>3. used' + returned' = used + returned
      BY <1>17, WorkGenerateDoes DEF Alone
    <2>4. Charged' <=> Charged
      BY <1>17, WorkGenerateDoes DEF Leaves, StatusTo, Alone, Charged
    <2>5. QED
      BY <2>1, <2>2, <2>3, <2>4, SumKept
  <1>18. ASSUME NEW s \in Schemes, FailRead(s) PROVE SumOK'
    <2>1. TypeOK'
      BY <1>18, FailReadDoes
    <2>2. Rowed' = Rowed
      BY <1>18, FailReadDoes
      DEF StatusTo, RefundTo, Aside, Base, Placed, RowOK, Attempting, CancelOps, RefundOps,
          Refunding, Rowed, InProgress
    <2>3. used' + returned' = used + returned
      BY <1>18, FailReadDoes DEF Alone
    <2>4. Charged' <=> Charged
      BY <1>18, FailReadDoes DEF StatusTo, RefundTo, Aside, Charged
    <2>5. QED
      BY <2>1, <2>2, <2>3, <2>4, SumKept
  <1>19. ASSUME NEW s \in Schemes, FailRefundRead(s) PROVE SumOK'
    <2>1. TypeOK'
      BY <1>19, FailRefundReadDoes
    <2>2. Rowed' = Rowed
      BY <1>19, FailRefundReadDoes
      DEF StatusTo, RefundTo, Aside, Base, Placed, RowOK, Attempting, CancelOps, RefundOps,
          Refunding, Rowed, InProgress
    <2>3. used' + returned' = used + returned
      BY <1>19, FailRefundReadDoes DEF Alone
    <2>4. Charged' <=> Charged
      BY <1>19, FailRefundReadDoes DEF StatusTo, RefundTo, Aside, Charged
    <2>5. QED
      BY <2>1, <2>2, <2>3, <2>4, SumKept
  <1>20. ASSUME NEW s \in Schemes, FailRefundWrite(s) PROVE SumOK'
    <2>1. TypeOK'
      BY <1>20, FailRefundWriteDoes
    <2>2. Rowed' = Rowed
      BY <1>20, FailRefundWriteDoes
      DEF StatusTo, RefundTo, Aside, Base, Placed, RowOK, Attempting, CancelOps, RefundOps,
          Refunding, Rowed, InProgress
    <2>3. used' + returned' = used + returned
      <3>1. used \in Int /\ returned \in Int /\ fail[s].take \in Int
        BY <1>20, FailRefundWriteDoes DEF Base, TypeOK, Handler
      <3>2. QED
        BY <1>20, <3>1, FailRefundWriteDoes DEF RefundTo
    <2>4. Charged' <=> Charged
      BY <1>20, FailRefundWriteDoes DEF StatusTo, RefundTo, Aside, Charged
    <2>5. QED
      BY <2>1, <2>2, <2>3, <2>4, SumKept
  <1>21. ASSUME NEW s \in Schemes, FailMark(s) PROVE SumOK'
    <2>1. TypeOK'
      BY <1>21, FailMarkDoes
    <2>2. Rowed' = Rowed
      BY <1>21, FailMarkDoes
      DEF StatusTo, RefundTo, Aside, Base, Placed, RowOK, Attempting, CancelOps, RefundOps,
          Refunding, Rowed, InProgress
    <2>3. used' + returned' = used + returned
      BY <1>21, FailMarkDoes DEF Alone
    <2>4. Charged' <=> Charged
      BY <1>21, FailMarkDoes DEF StatusTo, RefundTo, Aside, Charged
    <2>5. QED
      BY <2>1, <2>2, <2>3, <2>4, SumKept
  <1>22. ASSUME NEW p \in Requests, Fault(p) PROVE SumOK'
    <2>1. faults \in 0..MaxFaults
      BY DEF Base, TypeOK
    <2>2. faults' = faults + 1
      BY <1>22, FaultDoes
    <2>3. QED
      BY <2>1, <2>2, SchemeAssumption
  <1>23. ASSUME Restart PROVE SumOK'
    <2>1. faults \in 0..MaxFaults
      BY DEF Base, TypeOK
    <2>2. faults' = faults + 1
      BY <1>23, RestartDoes
    <2>3. QED
      BY <2>1, <2>2, SchemeAssumption
  <1>24. CASE UNCHANGED vars
    BY <1>24
    DEF vars, Base, TypeOK, Placed, RowOK, Lone, Quiet, Attempting, CancelOps, RefundOps,
        Refunding, Rowed, Charged, SumOK
  <1>25. QED
    BY <1>1, <1>2, <1>3, <1>4, <1>5, <1>6, <1>7, <1>8, <1>9, <1>10, <1>11, <1>12, <1>13,
       <1>14, <1>15, <1>16, <1>17, <1>18, <1>19, <1>20, <1>21, <1>22, <1>23, <1>24
    DEF Next, EventLoop, Work, Setup, Cancel, Fail

-----------------------------------------------------------------------------
LEMMA CancelStep ==
  ASSUME Base, FinalInv, NEW z \in Schemes \ racy, status[z] = "CANCELLED", [Next]_vars
  PROVE  status'[z] \in {"CANCELLED", "ARCHIVED"}
  <1>1. ASSUME NEW p \in Requests, SetupRead(p) PROVE status'[z] \in {"CANCELLED", "ARCHIVED"}
    BY <1>1, SetupReadDoes
    DEF ReqTo, Carries, Calm, Base, FinalInv, Placed, FinalOK, RowOK, Attempting, Commits
  <1>2. ASSUME NEW p \in Requests, SetupArchive(p)
        PROVE  status'[z] \in {"CANCELLED", "ARCHIVED"}
    BY <1>2, SetupArchiveDoes
    DEF ReqTo, Carries, StatusTo, Calm, Base, FinalInv, Placed, FinalOK, RowOK, Attempting,
        Commits
  <1>3. ASSUME NEW p \in Requests, SetupFreeKey(p)
        PROVE  status'[z] \in {"CANCELLED", "ARCHIVED"}
    BY <1>3, SetupFreeKeyDoes
    DEF ReqTo, Carries, Calm, Base, FinalInv, Placed, FinalOK, RowOK, Attempting, Commits
  <1>4. ASSUME NEW p \in Requests, UseRead(p) PROVE status'[z] \in {"CANCELLED", "ARCHIVED"}
    BY <1>4, UseReadDoes
    DEF ReqTo, Carries, Calm, Base, FinalInv, Placed, FinalOK, RowOK, Attempting, Commits
  <1>5. ASSUME NEW p \in Requests, UseWrite(p) PROVE status'[z] \in {"CANCELLED", "ARCHIVED"}
    BY <1>5, UseWriteDoes
    DEF ReqTo, Carries, Calm, Base, FinalInv, Placed, FinalOK, RowOK, Attempting, Commits
  <1>6. ASSUME NEW p \in Requests, SetupCreate(p) PROVE status'[z] \in {"CANCELLED", "ARCHIVED"}
    BY <1>6, SetupCreateDoes
    DEF ReqTo, Carries, JobTo, Calm, Base, FinalInv, Placed, FinalOK, RowOK, Attempting, Commits
  <1>7. ASSUME NEW p \in Requests, SetupCommit(p) PROVE status'[z] \in {"CANCELLED", "ARCHIVED"}
    BY <1>7, SetupCommitDoes
    DEF ReqTo, Carries, StatusTo, Calm, Base, FinalInv, Placed, FinalOK, RowOK, Attempting,
        Commits
  <1>8. ASSUME NEW p \in Requests, CancelWrite(p) PROVE status'[z] \in {"CANCELLED", "ARCHIVED"}
    BY <1>8, CancelWriteDoes
    DEF ReqTo, Carries, StatusTo, Calm, Base, FinalInv, Placed, FinalOK, RowOK, Attempting,
        Commits
  <1>9. ASSUME NEW p \in Requests, CancelRefundRead(p)
        PROVE  status'[z] \in {"CANCELLED", "ARCHIVED"}
    BY <1>9, CancelRefundReadDoes
    DEF ReqTo, Carries, Calm, Base, FinalInv, Placed, FinalOK, RowOK, Attempting, Commits
  <1>10. ASSUME NEW p \in Requests, CancelRefundWrite(p)
         PROVE  status'[z] \in {"CANCELLED", "ARCHIVED"}
    BY <1>10, CancelRefundWriteDoes
    DEF ReqTo, Carries, RefundTo, Calm, Base, FinalInv, Placed, FinalOK, RowOK, Attempting,
        Commits
  <1>11. ASSUME NEW p \in Requests, NEW s \in Schemes, CancelRead(p, s)
         PROVE  status'[z] \in {"CANCELLED", "ARCHIVED"}
    BY <1>11, CancelReadDoes
    DEF ReqTo, Carries, Calm, Base, FinalInv, Placed, FinalOK, RowOK, Attempting, Commits
  <1>12. ASSUME NEW s \in Schemes, WorkTake(s) PROVE status'[z] \in {"CANCELLED", "ARCHIVED"}
    BY <1>12, WorkTakeDoes
    DEF WorkTo, JobTo, Base, FinalInv, Placed, FinalOK, RowOK, Attempting, Commits
  <1>13. ASSUME WorkRead PROVE status'[z] \in {"CANCELLED", "ARCHIVED"}
    BY <1>13, WorkReadDoes
    DEF WorkTo, JobTo, FailTo, Goes, Ends, Throws, Final, Alone, Base, FinalInv, Placed,
        FinalOK, RowOK, Attempting, Commits
  <1>14. ASSUME WorkVerifying PROVE status'[z] \in {"CANCELLED", "ARCHIVED"}
    BY <1>14, WorkVerifyingDoes
    DEF WorkTo, StatusTo, Goes, Alone, Base, FinalInv, Placed, FinalOK, RowOK, Attempting,
        Commits
  <1>15. ASSUME WorkVerify PROVE status'[z] \in {"CANCELLED", "ARCHIVED"}
    BY <1>15, WorkVerifyDoes
    DEF WorkTo, JobTo, FailTo, StatusTo, Goes, Ends, Throws, Final, Alone, Base, FinalInv,
        Placed, FinalOK, RowOK, Attempting, Commits
  <1>16. ASSUME WorkGenerating PROVE status'[z] \in {"CANCELLED", "ARCHIVED"}
    BY <1>16, WorkGeneratingDoes
    DEF WorkTo, StatusTo, Goes, Alone, Base, FinalInv, Placed, FinalOK, RowOK, Attempting,
        Commits
  <1>17. ASSUME WorkGenerate PROVE status'[z] \in {"CANCELLED", "ARCHIVED"}
    BY <1>17, WorkGenerateDoes
    DEF WorkTo, JobTo, FailTo, StatusTo, Goes, Ends, Leaves, Throws, Final, Alone, Base, FinalInv,
        Placed, FinalOK, RowOK, Attempting, Commits
  <1>18. ASSUME NEW s \in Schemes, FailRead(s) PROVE status'[z] \in {"CANCELLED", "ARCHIVED"}
    BY <1>18, FailReadDoes
    DEF FailTo, Aside, Base, FinalInv, Placed, FinalOK, RowOK, Attempting, Commits
  <1>19. ASSUME NEW s \in Schemes, FailRefundRead(s)
         PROVE  status'[z] \in {"CANCELLED", "ARCHIVED"}
    BY <1>19, FailRefundReadDoes
    DEF FailTo, Aside, Base, FinalInv, Placed, FinalOK, RowOK, Attempting, Commits
  <1>20. ASSUME NEW s \in Schemes, FailRefundWrite(s)
         PROVE  status'[z] \in {"CANCELLED", "ARCHIVED"}
    BY <1>20, FailRefundWriteDoes
    DEF FailTo, RefundTo, Aside, Base, FinalInv, Placed, FinalOK, RowOK, Attempting, Commits
  <1>21. ASSUME NEW s \in Schemes, FailMark(s) PROVE status'[z] \in {"CANCELLED", "ARCHIVED"}
    BY <1>21, FailMarkDoes
    DEF FailTo, StatusTo, Aside, Base, FinalInv, Placed, FinalOK, RowOK, Attempting, Commits
  <1>22. ASSUME NEW p \in Requests, Fault(p) PROVE status'[z] \in {"CANCELLED", "ARCHIVED"}
    BY <1>22, FaultDoes
    DEF ReqTo, Carries, Base, FinalInv, Placed, FinalOK, RowOK, Attempting, Commits
  <1>23. ASSUME Restart PROVE status'[z] \in {"CANCELLED", "ARCHIVED"}
    BY <1>23, RestartDoes DEF Base, FinalInv, Placed, FinalOK, RowOK, Attempting, Commits
  <1>24. CASE UNCHANGED vars
    BY <1>24 DEF vars, Base, FinalInv, Placed, FinalOK, RowOK, Attempting, Commits
  <1>25. QED
    BY <1>1, <1>2, <1>3, <1>4, <1>5, <1>6, <1>7, <1>8, <1>9, <1>10, <1>11, <1>12, <1>13,
       <1>14, <1>15, <1>16, <1>17, <1>18, <1>19, <1>20, <1>21, <1>22, <1>23, <1>24
    DEF Next, EventLoop, Work, Setup, Cancel, Fail

LEMMA SchemeInit == Init => SchInv
  <1> SUFFICES ASSUME Init PROVE SchInv
    OBVIOUS
  <1> DEFINE zero == [state |-> "none", made |-> 0]
  <1>1. Idle.op = "idle" /\ \A ops : Idle \in Handler(ops)
    BY IdleCarries DEF Carries
  <1>2. zero \in JobStates /\ zero.state = "none" /\ zero.made = 0
    BY SchemeAssumption DEF JobStates
  <1>3. job = [s \in Schemes |-> zero]
    BY DEF Init
  <1> HIDE DEF zero
  <1>4. job \in [Schemes -> JobStates] /\ \A s \in Schemes : job[s].state = "none" /\ job[s].made = 0
    BY <1>2, <1>3
  <1>5. TypeOK
    BY <1>1, <1>4, SchemeAssumption DEF Init, TypeOK, JobStates, Statuses
  <1>6. Placed
    BY <1>1, <1>4, SchemeAssumption
    DEF Init, Placed, RowOK, Commits, Attempting, Refunding, CancelOps, RefundOps
  <1>7. FinalInv
    BY <1>1 DEF Init, FinalInv, FinalOK, Cancels, CancelOps, RefundOps
  <1>8. OnceInv
    BY <1>1, SchemeAssumption
    DEF Init, OnceInv, OnceOK, AmountOK, CancelOK, WorkOK, ListenOK, Cancels, Attempting,
        CancelOps, RefundOps
  <1>9. Lone /\ Live = {}
    BY <1>1 DEF Init, Lone, Live
  <1>10. LiveOK
    BY <1>1, <1>9 DEF Init, LiveOK, SetupOps, CancelOps, RefundOps
  <1>11. SlotOK /\ ~Charged
    BY <1>1 DEF Init, SlotOK, SetupOps, Charged
  <1>12. Rowed = {} /\ used = 0 /\ returned = 0
    BY DEF Init, Rowed
  <1>13. SumOK
    BY <1>11, <1>12, FS_EmptySet, SchemeAssumption DEF SumOK
  <1>14. QED
    BY <1>5, <1>6, <1>7, <1>8, <1>9, <1>10, <1>11, <1>13
    DEF SchInv, Base, OneRequest, LiveInv, CreditInv

LEMMA SchemeStep == SchInv /\ [Next]_vars => SchInv'
  <1> SUFFICES ASSUME SchInv, [Next]_vars PROVE SchInv'
    OBVIOUS
  <1>1. Base /\ FinalInv /\ OnceInv /\ OneRequest /\ LiveInv /\ CreditInv
    BY DEF SchInv
  <1>2. Base'
    BY <1>1, TypeStep, PlacedStep DEF Base
  <1>3. FinalInv' /\ OnceInv'
    BY <1>1, FinalStep, OnceStep
  <1>4. /\ clean' => clean /\ (Begins => Quiet)
        /\ early \subseteq early' /\ (UNCHANGED faults \/ faults' = faults + 1)
    BY <1>1, CleanStep
  <1>5. clean' => Lone /\ (Begins => Quiet) /\ Lone'
    BY <1>1, <1>4, OneRequestStep DEF OneRequest
  <1>6. LiveInv'
    <2>1. early' = {} => early = {}
      BY <1>4
    <2>2. QED
      BY <1>1, <1>4, <1>5, <2>1, LiveStep DEF LiveInv
  <1>7. CreditInv'
    <2>1. faults' = 0 => faults = 0
      <3>1. faults \in 0..MaxFaults
        BY <1>1 DEF Base, TypeOK
      <3>2. QED
        BY <1>4, <3>1, SchemeAssumption
    <2>2. QED
      BY <1>1, <1>4, <1>5, <2>1, SlotStep, SumStep DEF CreditInv
  <1>8. OneRequest'
    BY <1>5 DEF OneRequest
  <1>9. QED
    BY <1>2, <1>3, <1>6, <1>7, <1>8 DEF SchInv

LEMMA SchemeInvariant == Spec => []SchInv
  <1>1. SchInv /\ [Next]_vars => SchInv'
    BY SchemeStep
  <1>2. QED
    BY SchemeInit, <1>1, PTL DEF Spec

\* The types of the tables, the handlers and the queue.
THEOREM SchemeTyped == Spec => []TypeOK
  <1>1. SchInv => TypeOK
    BY DEF SchInv, Base
  <1>2. QED
    BY <1>1, SchemeInvariant, PTL

\* What is given back for a scheme is never more than what it cost, for a
\* cancel that met no attempt and no failure, of a scheme that was not replaced
\* before its job was dealt with.
THEOREM SchemeRefundedOnce == Spec => []RefundedOnce
  <1>1. SchInv => RefundedOnce
    BY DEF SchInv, OnceInv, OnceOK, AmountOK, RefundedOnce
  <1>2. QED
    BY <1>1, SchemeInvariant, PTL

\* The slot of a subject, term and class level has one live scheme.
THEOREM SchemeOneLive == Spec => []OneLiveScheme
  <1>1. SchInv => OneLiveScheme
    <2> SUFFICES ASSUME SchInv, clean /\ early = {} PROVE Cardinality(Live) <= 1
      BY DEF OneLiveScheme
    <2>1. \A s, t \in Live : s = t
      BY DEF SchInv, LiveInv, LiveOK
    <2>2. CASE Live = {}
      BY <2>2, FS_EmptySet
    <2>3. CASE Live # {}
      <3>1. PICK s \in Live : TRUE
        BY <2>3
      <3>2. Live = {s}
        BY <2>1, <3>1
      <3>3. QED
        BY <3>2, FS_Singleton
    <2>4. QED
      BY <2>2, <2>3
  <1>2. QED
    BY <1>1, SchemeInvariant, PTL

\* The credits used are those of the schemes there are, less what was given
\* back: no charge without a scheme.
THEOREM SchemeCreditsAccounted == Spec => []CreditsAccounted
  <1>1. SchInv => CreditsAccounted
    <2> SUFFICES ASSUME SchInv, clean /\ Quiet /\ faults = 0
                 PROVE  used = Total * Cardinality({s \in Schemes : status[s] # "none"}) - returned
      BY DEF CreditsAccounted
    <2>1. SumOK /\ ~Charged
      BY DEF SchInv, CreditInv, Quiet, Charged
    <2>2. Cardinality(Rowed) \in Nat /\ returned \in Int /\ Total \in Nat
      BY RowedFinite, SchemeAssumption DEF SchInv, Base, TypeOK
    <2>3. Total * Cardinality(Rowed) \in Int
      BY <2>2
    <2>4. used = Total * Cardinality(Rowed) - returned
      BY <2>1, <2>2, <2>3 DEF SumOK
    <2>5. QED
      BY <2>4 DEF Rowed
  <1>2. QED
    BY <1>1, SchemeInvariant, PTL

\* A cancel that met no attempt and no failure is final: no worker and no
\* listener takes the scheme up again.
THEOREM SchemeCancelIsFinal == Spec => CancelIsFinal
  <1>1. SchInv /\ [Next]_vars =>
          [\A s \in Schemes \ racy :
             status[s] = "CANCELLED" => status'[s] \in {"CANCELLED", "ARCHIVED"}]_vars
    BY CancelStep DEF SchInv
  <1>2. QED
    BY <1>1, SchemeInvariant, PTL DEF Spec, CancelIsFinal
=============================================================================
