------------------------------ MODULE MCScheme ------------------------------
(* A scheme of work: how it is requested, generated, cancelled and paid    *)
(* for, and the weeks it has in one term.  A behaviour is about one of the *)
(* two.                                                                    *)
EXTENDS SchemeGeneration, SchemeWeeks

CONSTANTS k1, k2, t1, t2    \* two topics, two teams

VARIABLE focus

all == <<vars, weekVars, focus>>

MCTopic(k, kind, week) == [key |-> k, kind |-> kind, week |-> week]
MCDrafted == {<<MCTopic(k1, "CONTENT", 1), MCTopic(k2, "EXAM", 2)>>}
MCTwoRevisions == {<<MCTopic(k1, "REVISION", 1), MCTopic(k2, "REVISION", 2)>>}
MCLibrary == {<<MCTopic(k1, "CONTENT", 1), MCTopic(k2, "EXAM", 3)>>}

\* Either the half term or a holiday takes a week of the term.  The part that is
\* not in focus has one initial state.
MCInit ==
  /\ Init /\ WeeksInit
  /\ (halfTerm = {}) # (holidays = {})
  /\ focus \in {"generation", "weeks"}
  /\ focus = "generation" => holidays = {} /\ load.by = "drafted"

\* Of requests that overlap there are three, or two and a fault.
Bound == clean' \/ faults' = 0 \/ begun' <= 2

\* Of handlers of the weeks that overlap there are two, before the term;
\* the second team works only then.
WeeksBound ==
  \/ alone' /\ call'[t2].op = "idle"
  \/ ~alone' /\ calls' <= 2 /\ today' = 0

MCNext ==
  \/ focus = "generation" /\ Next /\ Bound /\ UNCHANGED <<weekVars, focus>>
  \/ focus = "weeks" /\ WeeksNext /\ WeeksBound /\ UNCHANGED <<vars, focus>>

Working == EventLoop /\ Bound /\ UNCHANGED <<weekVars, focus>>

MCSpec == MCInit /\ [][MCNext]_all /\ WF_all(focus = "generation" /\ Working)
=============================================================================
