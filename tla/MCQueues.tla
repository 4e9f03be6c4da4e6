------------------------------ MODULE MCQueues ------------------------------
(* The closing of a school and the knowledge base, each with its queue and *)
(* cron job: a behaviour is about one of them.                             *)
EXTENDS SchoolLifecycle, KnowledgeIndex

VARIABLE subject

MCInit == Init /\ IndexInit /\ subject \in {"closing", "index"}

MCNext ==
  \/ subject = "closing" /\ Next /\ UNCHANGED <<indexVars, subject>>
  \/ subject = "index" /\ IndexNext /\ UNCHANGED <<vars, subject>>

\* The part that is not the subject stays in its initial state, where no action
\* that is assumed fair is enabled.
MCSpec == MCInit /\ [][MCNext]_<<vars, indexVars, subject>> /\ Fairness /\ IndexFairness
=============================================================================
