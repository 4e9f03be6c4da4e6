-------------------------- MODULE TransfersInTurn --------------------------
(***************************************************************************)
(* Transfers, with a history variable that remembers whether two handlers  *)
(* have ever been under way together.  It restricts nothing; it lets the   *)
(* promises that only hold when handlers come one after another be stated  *)
(* beside those that hold under every interleaving.                        *)
(***************************************************************************)
EXTENDS Transfers

VARIABLE alone   \* so far no handler began while another was under way

InTurnInit == Init /\ alone = TRUE

InTurnNext == Next /\ alone' = (alone /\ OneAtATime')

InTurnSpec == InTurnInit /\ [][InTurnNext]_<<vars, alone>>
-----------------------------------------------------------------------------
\* A code is claimed at most once (docs/adr/017-tac-student-transfer-system.md:25)
\* as long as handlers come one after another, as a test or a school with one
\* clerk sees the service: however the code was entered, released by one school
\* and taken over by another, revoked or left to expire.
CodeUsedOnceInTurn == alone => TacOneTimeUse

\* And a student has one live closure code from a school (ensureClosureTac),
\* whichever of the job, its rerun after the process died in the middle of it
\* and the student's own request came first.
ClosureCodeOnceInTurn == alone => OneClosureCode
=============================================================================
