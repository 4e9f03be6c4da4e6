--------------------------- MODULE SchoolClosure ---------------------------
(***************************************************************************)
(* What the transfer service sees of the school lifecycle, and relies on:  *)
(* schools are deactivated and reactivated, and after a deactivation a job *)
(* that issues closure codes is queued -- later, perhaps when the school   *)
(* is open again, or never, when the process dies in between.              *)
(***************************************************************************)
CONSTANT Schools

VARIABLES
  deactivated,  \* the schools whose lifecycleStatus is DEACTIVATED
  owed,         \* deactivated by a handler that has not queued the job yet
  issueJobs     \* the schools with an issue-closure-tacs job queued

vars == <<deactivated, owed, issueJobs>>

Init == deactivated = {} /\ owed = {} /\ issueJobs = {}

Deactivate(s) ==
  /\ deactivated' = deactivated \cup {s}
  /\ owed' = owed \cup {s}
  /\ UNCHANGED issueJobs

\* Two handlers may owe a job for one school: then it stays owed.
Queue(s) ==
  /\ s \in owed
  /\ issueJobs' = issueJobs \cup {s}
  /\ owed' \in {owed, owed \ {s}}
  /\ UNCHANGED deactivated

Reactivate(s) ==
  /\ deactivated' = deactivated \ {s}
  /\ UNCHANGED <<owed, issueJobs>>

Forget ==
  /\ owed' = {}
  /\ UNCHANGED <<deactivated, issueJobs>>

\* A worker takes the job; a second one may be waiting.
Take(s) ==
  /\ s \in issueJobs
  /\ issueJobs' \in {issueJobs, issueJobs \ {s}}
  /\ UNCHANGED <<deactivated, owed>>

Next ==
  \/ Forget
  \/ \E s \in Schools : \/ Deactivate(s) \/ Queue(s)
                        \/ Reactivate(s) \/ Take(s)

Spec == Init /\ [][Next]_vars
=============================================================================
