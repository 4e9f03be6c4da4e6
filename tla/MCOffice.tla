------------------------------ MODULE MCOffice ------------------------------
(* Six parts of a school that share no table in these models: a behaviour  *)
(* of this module is about the timetable, the roll, one assessment, the AI *)
(* credits, one event and its copy at Google, or the sessions and terms.   *)
EXTENDS Timetable, SchoolRoll, Assessments, CreditPool, CalendarSync, Sessions, TLC

CONSTANTS
  lower, upper, maths, teacher, lab,    \* an arm of each level, and what it needs
  ann, ben, cas, dan, form              \* pupils, and dan's application

VARIABLE focus

all == <<ttVars, rollVars, paperVars, poolVars, calendarVars, vars, focus>>

MCFormTeacher == [a \in {lower} |-> teacher]
MCCompetent == [s \in {maths} |-> {teacher}]
MCTemplates == {[start |-> 0, end |-> 1, type |-> "LESSON"],
                [start |-> 1, end |-> 2, type |-> "BREAK"]}

MCAt(arm, start, end, type, subject, who, room) ==
  [arm |-> arm, day |-> 1, start |-> start, end |-> end, type |-> type,
   subject |-> subject, teacher |-> who, room |-> room]
MCOffers ==
  {MCAt(upper, 0, 1, "LESSON", maths, teacher, None),
   MCAt(upper, 0, 2, "LESSON", None, teacher, lab),
   MCAt(upper, 1, 2, "LESSON", maths, teacher, None),
   MCAt(lower, 0, 1, "LESSON", maths, None, None),
   MCAt(upper, 1, 2, "BREAK", None, None, None),
   MCAt(upper, 1, 2, "none", maths, teacher, lab)}
\* A field on its own, the times, a class with its subject, and all.
MCUpdates ==
  {{"arm"}, {"type"}, {"subject"}, {"teacher"}, {"room"}, {"start", "end"},
   {"arm", "subject"}, Fields}
MCPayloads ==
  {{}, {MCAt(upper, 0, 1, "LESSON", maths, teacher, lab)},
   {MCAt(upper, 0, 1, "LESSON", maths, teacher, lab),
    MCAt(upper, 0, 2, "LESSON", maths, teacher, lab)}}
MCApplicant == form :> dan

MCPaper(timed, threshold, lateDue) ==
  [timed |-> timed, duration |-> 1, due |-> 1, lateDue |-> lateDue, lateTimer |-> FALSE,
   duePenalty |-> 2, timerPenalty |-> 2, threshold |-> threshold, perViolation |-> 1]
MCPapers == {MCPaper(TRUE, 0, FALSE), MCPaper(FALSE, 1, TRUE)}

Foci == {"timetable", "roll", "paper", "credits", "calendar", "sessions"}

\* The part in focus starts in any of its initial states, the others in one.
MCInit ==
  /\ TimetableInit /\ RollInit /\ PaperInit /\ PoolInit /\ CalendarInit /\ Init
  /\ focus \in Foci
  /\ focus # "roll" => known = {}
  /\ focus # "paper" => paper.timed
  /\ focus # "credits" => pool.plan = "none"
  /\ focus # "calendar" => connected

\* Bound: where requests overlap there are two for the timetable, three for the
\* roll and the sessions; and three for the paper where a hand-in, a grading or a
\* deletion meets another.
MCNext ==
  \/ /\ focus = "timetable" /\ TimetableNext /\ (calmly' \/ booked' <= 2)
     /\ UNCHANGED <<rollVars, paperVars, poolVars, calendarVars, vars, focus>>
  \/ /\ focus = "roll" /\ RollNext /\ (alone' \/ served' <= 3)
     /\ UNCHANGED <<ttVars, paperVars, poolVars, calendarVars, vars, focus>>
  \/ /\ focus = "paper" /\ PaperNext /\ (lone' \/ calls' <= 3)
     /\ UNCHANGED <<ttVars, rollVars, poolVars, calendarVars, vars, focus>>
  \/ /\ focus = "credits" /\ PoolNext
     /\ UNCHANGED <<ttVars, rollVars, paperVars, calendarVars, vars, focus>>
  \/ /\ focus = "calendar" /\ CalendarNext
     /\ UNCHANGED <<ttVars, rollVars, paperVars, poolVars, vars, focus>>
  \/ /\ focus = "sessions" /\ Next /\ (calm' \/ started' <= 3)
     /\ UNCHANGED <<ttVars, rollVars, paperVars, poolVars, calendarVars, focus>>

MCSpec == MCInit /\ [][MCNext]_all

\* Clients, desks, requests and hands are the same two in the instance: only one
\* part is at work.
Alike == Permutations(Clients) \cup Permutations({ann, ben, cas})
=============================================================================
