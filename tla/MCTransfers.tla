---------------------------- MODULE MCTransfers ----------------------------
(* A small instance of Transfers: one student, who starts at a1.           *)
EXTENDS TransfersInTurn, TLC

CONSTANTS s1, a1, b1, c1

MCRoll == << [student |-> s1, school |-> a1, term |-> NoTerm,
              active |-> TRUE, via |-> 0] >>

NothingClosed ==
  /\ deactivated' \cup owed' \cup issueJobs' = {}
  /\ \A r \in Requests : req'[r].op \notin {"ask", "job"}

\* Handlers that come one at a time: three codes, or two and a school that
\* closed.  Handlers that overlap: two codes and three enrollments.
MCNext ==
  /\ InTurnNext
  /\ \/ alone' /\ NothingClosed
     \/ /\ alone' \/ NothingClosed
        /\ Len(transfers') <= 2 /\ Len(enrollments') <= 3

MCSpec == InTurnInit /\ [][MCNext]_<<vars, alone>>

Symmetry == Permutations({b1, c1}) \cup Permutations(Requests)
=============================================================================
