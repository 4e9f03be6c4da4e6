------------------------------ MODULE Custody ------------------------------
(***************************************************************************)
(* What the transfer service promises about where a student is, whatever   *)
(* requests do in between: a student leaves a school only by arriving at   *)
(* another one, and only a school that held a record of the student and    *)
(* issued a code for it can be left, or be the origin of an arrival.       *)
(***************************************************************************)
CONSTANTS Students, Schools

VARIABLES
  at,       \* at[st]: the schools where st is actively enrolled
  records,  \* records[st]: the schools that ever enrolled st
  issued    \* issued[st]: the schools that issued a code for st

vars == <<at, records, issued>>

TypeOK ==
  /\ at \in [Students -> (SUBSET Schools) \ {{}}]
  /\ records \in [Students -> SUBSET Schools]
  /\ issued \in [Students -> SUBSET Schools]

Init ==
  /\ at \in [Students -> (SUBSET Schools) \ {{}}]
  /\ records = at
  /\ issued = [st \in Students |-> {}]

Issue(st, a) ==
  /\ a \in records[st]
  /\ issued' = [issued EXCEPT ![st] = @ \cup {a}]
  /\ UNCHANGED <<at, records>>

\* The source is not released when it had been left before, or when another
\* active enrollment of the student remains there.
Claim(st, a, b) ==
  /\ a \in issued[st]
  /\ a # b
  /\ \/ at' = [at EXCEPT ![st] = (@ \ {a}) \cup {b}]
     \/ at' = [at EXCEPT ![st] = @ \cup {b}]
  /\ records' = [records EXCEPT ![st] = @ \cup {b}]
  /\ UNCHANGED issued

Next ==
  \E st \in Students, a \in Schools :
    Issue(st, a) \/ \E b \in Schools : Claim(st, a, b)

Spec == Init /\ [][Next]_vars
=============================================================================
