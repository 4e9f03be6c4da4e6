----------------------------- MODULE Assessments -----------------------------
(***************************************************************************)
(* One published assessment and one student who sits it: start, violations *)
(* of its rules, hand in, grading by the teacher, and its deletion         *)
(* (assessments/assessments.service.ts, assessment-deadline.util.ts).      *)
(*                                                                         *)
(* A handler reads, decides, and writes by id; between the check of a      *)
(* submission and its write a language model may grade the short answers.  *)
(* call[c] is what the handler of c has read.  The marks of all answers    *)
(* are one number; flags that are only displayed are left out.             *)
(* Bounds: MaxClock, MaxCalls, Years, Scores.                              *)
(***************************************************************************)
EXTENDS Integers

CONSTANTS
  Papers,       \* the assessments that may have been published
  MaxMark,      \* maxScore
  Scores,       \* what the language model and a request may give as a number
  Years,        \* bound: enrollments of the student, one after the other
  Callers, MaxCalls, MaxClock

VARIABLES
  paper, exists,    \* Assessment
  sub,              \* AssessmentSubmission of the student
  violations,       \* number of its AssessmentViolation rows
  gradebook,        \* Grade of this assessment by enrollment
  enrolled,         \* the active enrollment
  clock,
  call,             \* requests in flight
  calls,            \* bound: how many requests there were
  lone              \* history: no hand-in, grading or deletion met another

paperVars == <<paper, exists, sub, violations, gradebook, enrolled, clock, call,
               calls, lone>>
-----------------------------------------------------------------------------
Never == -1         \* startedAt is null
NoGrade == -1

\* due: end of the day of dueDate.  duration: with the two minutes of grace.
\* Without a due date or a duration the number is beyond the clock.
Paper ==
  [timed : BOOLEAN, duration : Nat, due : Nat, lateDue : BOOLEAN,
   lateTimer : BOOLEAN, duePenalty : Nat, timerPenalty : Nat,
   threshold : Nat, perViolation : Nat]

ASSUME PaperAssumption ==
  /\ Papers \subseteq Paper /\ Scores \subseteq Int
  /\ MaxMark \in Nat /\ Years \in Nat \ {0} /\ MaxCalls \in Nat /\ MaxClock \in Nat

Status == {"none", "STARTED", "SUBMITTED", "GRADED"}
Submission ==
  [status : Status, startedAt : Nat \cup {Never}, marks : Int,
   total : Int, count : Nat, deducted : Nat, dueCut : Nat, timerCut : Nat]
NoSub ==
  [status |-> "none", startedAt |-> Never, marks |-> 0, total |-> 0,
   count |-> 0, deducted |-> 0, dueCut |-> 0, timerCut |-> 0]

CallOps == {"idle", "upsert", "stamp", "log", "count", "hand", "mark", "delete"}
Call == [op : CallOps, seen : Submission, dueCut : Nat, timerCut : Nat, year : Nat]
NoCall == [op |-> "idle", seen |-> NoSub, dueCut |-> 0, timerCut |-> 0, year |-> 0]

PaperTypeOK ==
  /\ paper \in Papers /\ exists \in BOOLEAN
  /\ sub \in Submission
  /\ violations \in Nat
  /\ gradebook \in [1 .. Years -> Int]
  /\ enrolled \in 0 .. Years
  /\ clock \in Nat
  /\ call \in [Callers -> Call]
  /\ calls \in Nat /\ lone \in BOOLEAN

PaperInit ==
  /\ paper \in Papers /\ exists = TRUE
  /\ sub = NoSub /\ violations = 0
  /\ gradebook = [y \in 1 .. Years |-> NoGrade]
  /\ enrolled = 1 /\ clock = 0
  /\ call = [c \in Callers |-> NoCall]
  /\ calls = 0 /\ lone = TRUE
-----------------------------------------------------------------------------
HandedIn(s) == s.status \in {"SUBMITTED", "GRADED"}
Exclusive == {"hand", "mark", "delete"}

\* A request has read and goes on with what it read.
Take(c, request) ==
  /\ exists /\ call[c].op = "idle" /\ calls < MaxCalls
  /\ call' = [call EXCEPT ![c] = request]
  /\ calls' = calls + 1
  /\ lone' = (lone /\ (request.op \in Exclusive =>
                         \A d \in Callers : call[d].op \notin Exclusive))
  /\ UNCHANGED <<paper, exists, sub, violations, gradebook, enrolled, clock>>

Resume(c, op) == call' = [call EXCEPT ![c].op = op]
End(c) == call' = [call EXCEPT ![c] = NoCall]

\* What a handler does not touch when it writes the submission.
Others == UNCHANGED <<paper, exists, violations, gradebook, enrolled, clock, calls, lone>>

\* The row is gone, or an index refuses the insert: the handler throws.
Refused(c) == End(c) /\ UNCHANGED sub /\ Others
-----------------------------------------------------------------------------
(* startAssessment: evaluateStartDeadline, the upsert, and the start of the *)
(* clock where the upsert met a row without one.                            *)

PastDue == clock > paper.due

MayStart ==
  /\ ~HandedIn(sub)
  /\ PastDue => paper.lateDue \/ sub.status = "STARTED"

StartRead(c) == MayStart /\ Take(c, [NoCall EXCEPT !.op = "upsert", !.seen = sub])

\* A mistake: the update of the upsert starts the clock again.
MutantRestart(s) == clock
StartKept(s) == s.startedAt

StartUpsert(c) ==
  /\ call[c].op = "upsert"
  /\ IF ~exists THEN Refused(c)
     ELSE /\ IF sub.status = "none"
             THEN sub' = [NoSub EXCEPT !.status = "STARTED", !.startedAt = clock]
             ELSE sub' = [sub EXCEPT !.startedAt = StartKept(sub)]
          /\ IF sub'.startedAt = Never THEN Resume(c, "stamp") ELSE End(c)
          /\ Others

StartStamp(c) ==
  /\ call[c].op = "stamp"
  /\ IF ~exists THEN Refused(c)
     ELSE sub' = [sub EXCEPT !.startedAt = clock] /\ End(c) /\ Others
-----------------------------------------------------------------------------
(* logViolation: the submission, a row for the violation, and the count     *)
(* and the deduction computed from what was read.                           *)

LogRead(c) ==
  /\ sub.status \notin {"none", "GRADED"}
  /\ Take(c, [NoCall EXCEPT !.op = "log", !.seen = sub])

LogInsert(c) ==
  /\ call[c].op = "log"
  /\ IF ~exists THEN Refused(c)
     ELSE /\ violations' = violations + 1
          /\ Resume(c, "count")
          /\ UNCHANGED <<paper, exists, sub, gradebook, enrolled, clock, calls, lone>>

\* assessment.violationThreshold || 1
Threshold == IF paper.threshold = 0 THEN 1 ELSE paper.threshold

\* A mistake: the violation that reaches the threshold costs points already.
MutantDeductedEarly(count, deducted) ==
  IF count >= Threshold THEN deducted + paper.perViolation ELSE deducted
Deducted(count, deducted) ==
  IF count > Threshold THEN deducted + paper.perViolation ELSE deducted

LogWrite(c) ==
  /\ call[c].op = "count"
  /\ IF ~exists THEN Refused(c)
     ELSE /\ sub' = [sub EXCEPT
               !.count = call[c].seen.count + 1,
               !.deducted = Deducted(call[c].seen.count + 1, call[c].seen.deducted)]
          /\ End(c) /\ Others
-----------------------------------------------------------------------------
(* submitAssessment: the submission, evaluateSubmitDeadline, the marks of   *)
(* the answers, then one transaction that replaces the answers.             *)

Expired == paper.timed /\ sub.startedAt # Never /\ clock > sub.startedAt + paper.duration

InTime(auto) ==
  /\ PastDue /\ ~paper.lateDue => sub.startedAt # Never /\ sub.startedAt <= paper.due
  /\ Expired /\ ~paper.lateTimer => auto

\* A mistake: only a graded submission is refused.
MutantNotGraded == sub.status # "GRADED"
NotHandedIn == ~HandedIn(sub)

\* auto: what the client says.  So is the token of the session, which a client
\* may leave out, and which is left out here.
HandInRead(c) ==
  /\ NotHandedIn
  /\ paper.timed => sub.startedAt # Never
  /\ \E auto \in BOOLEAN : InTime(auto)
  /\ Take(c, [NoCall EXCEPT
       !.op = "hand", !.seen = sub,
       !.dueCut = IF PastDue THEN paper.duePenalty ELSE 0,
       !.timerCut = IF Expired THEN paper.timerPenalty ELSE 0])

\* The marks of the language model are stored as they are.
HandInTx(c) ==
  /\ call[c].op = "hand"
  /\ LET inserts == call[c].seen.status = "none" IN
     IF ~exists \/ (inserts /\ sub.status # "none") THEN Refused(c)
     ELSE /\ \E marks \in Scores :
               sub' = [(IF inserts THEN NoSub ELSE sub) EXCEPT
                 !.status = "SUBMITTED", !.marks = marks, !.total = marks,
                 !.dueCut = call[c].dueCut, !.timerCut = call[c].timerCut]
          /\ End(c) /\ Others
-----------------------------------------------------------------------------
(* gradeSubmission: a submission in any status and the newest active        *)
(* enrollment, then one transaction for the submission and the Grade.       *)

GradeRead(c) ==
  /\ sub.status # "none"
  /\ Take(c, [NoCall EXCEPT !.op = "mark", !.seen = sub, !.year = enrolled])

Clamp(score) == IF score < 0 THEN 0 ELSE IF score > MaxMark THEN MaxMark ELSE score

\* A cut is left, waived or set by the request.
Cuts(kept) == {kept} \cup (Scores \cap Nat)

\* given: the scores in the request, for some or all of the answers, which are
\* there once the student has handed in.  A total in the request replaces the
\* computed one.
GradeTx(c) ==
  /\ call[c].op = "mark"
  /\ IF ~exists THEN Refused(c)
     ELSE LET seen == call[c].seen IN
       \E dueCut \in Cuts(seen.dueCut), timerCut \in Cuts(seen.timerCut),
          given \in Scores \cup {seen.marks}, marks \in Scores \cup {sub.marks} :
       \E total \in Scores \cup {Clamp(given - seen.deducted - dueCut - timerCut)} :
            /\ \/ given = seen.marks /\ marks = sub.marks
               \/ HandedIn(sub)
            /\ sub' = [sub EXCEPT !.status = "GRADED", !.marks = marks, !.total = total,
                                  !.dueCut = dueCut, !.timerCut = timerCut]
            /\ gradebook' = [y \in 1 .. Years |->
                               IF y = call[c].year THEN total ELSE gradebook[y]]
            /\ End(c)
            /\ UNCHANGED <<paper, exists, violations, enrolled, clock, calls, lone>>
-----------------------------------------------------------------------------
(* deleteAssessment counts the submissions, and the delete cascades to them. *)

DeleteRead(c) ==
  /\ sub.status = "none"
  /\ Take(c, [NoCall EXCEPT !.op = "delete", !.seen = sub])

DeleteWrite(c) ==
  /\ call[c].op = "delete"
  /\ IF ~exists THEN Refused(c)
     ELSE /\ exists' = FALSE /\ sub' = NoSub /\ violations' = 0
          /\ End(c)
          /\ UNCHANGED <<paper, gradebook, enrolled, clock, calls, lone>>
-----------------------------------------------------------------------------
\* A promotion or a transfer: the student's active enrollment is another one.
Promotion ==
  /\ enrolled < Years /\ enrolled' = enrolled + 1
  /\ UNCHANGED <<paper, exists, sub, violations, gradebook, clock, call, calls, lone>>

Pass ==
  /\ clock < MaxClock /\ clock' = clock + 1
  /\ UNCHANGED <<paper, exists, sub, violations, gradebook, enrolled, call, calls, lone>>

\* The process ends, or a query fails.
Drop(c) == call[c].op # "idle" /\ Refused(c)

Sit(c) ==
  \/ StartRead(c) \/ StartUpsert(c) \/ StartStamp(c)
  \/ LogRead(c) \/ LogInsert(c) \/ LogWrite(c)
  \/ HandInRead(c) \/ HandInTx(c) \/ GradeRead(c) \/ GradeTx(c)
  \/ DeleteRead(c) \/ DeleteWrite(c) \/ Drop(c)

PaperNext == Promotion \/ Pass \/ \E c \in Callers : Sit(c)

PaperSpec == PaperInit /\ [][PaperNext]_paperVars
-----------------------------------------------------------------------------
(* Properties *)

\* The clock of a timed assessment is started once: no interleaving of starts,
\* refreshes in other tabs and submissions gives a student more time ("to
\* prevent timer resets on refresh").
TimerNeverRestarts ==
  [][paper.timed /\ sub.startedAt # Never /\ exists' => sub'.startedAt = sub.startedAt
    ]_paperVars

\* What is handed in stays handed in, and its answers are those handed in until
\* it is graded, through starts and violations in any interleaving, as long as
\* no two of hand-in, grading and deletion overlap ("You have already submitted
\* this assessment").
HandedInStays ==
  [][lone /\ HandedIn(sub) =>
       \/ sub'.status = "GRADED"
       \/ /\ sub'.status = sub.status /\ sub'.marks = sub.marks
          /\ sub'.dueCut = sub.dueCut /\ sub'.timerCut = sub.timerCut]_paperVars

\* No interleaving of violation reports takes more points from a student than
\* the violations on record beyond the threshold cost.
PenaltyOnRecord ==
  sub.deducted <= paper.perViolation *
                    (IF violations > Threshold THEN violations - Threshold ELSE 0)
=============================================================================
