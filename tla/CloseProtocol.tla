--------------------------- MODULE CloseProtocol ---------------------------
(***************************************************************************)
(* What closing a school promises, as the notices to its admins put it     *)
(* (src/src/email/email.service.ts:2056): the school stays open until the  *)
(* announced date and the close can be cancelled before then.              *)
(***************************************************************************)
EXTENDS Naturals

CONSTANT Delay

VARIABLES life, closesAt, now

vars == <<life, closesAt, now>>

Init == life = "ACTIVE" /\ closesAt = 0 /\ now = 0

Schedule ==
  /\ life = "ACTIVE"
  /\ life' = "CLOSING"
  /\ closesAt' = now + Delay
  /\ UNCHANGED now

Cancel ==
  /\ life = "CLOSING"
  /\ life' = "ACTIVE"
  /\ closesAt' = 0
  /\ UNCHANGED now

Close ==
  /\ life = "CLOSING"
  /\ closesAt <= now
  /\ life' = "DEACTIVATED"
  /\ UNCHANGED <<closesAt, now>>

Reactivate ==
  /\ life = "DEACTIVATED"
  /\ life' = "ACTIVE"
  /\ closesAt' = 0
  /\ UNCHANGED now

Tick == now' = now + 1 /\ UNCHANGED <<life, closesAt>>

Next == Schedule \/ Cancel \/ Close \/ Reactivate \/ Tick

Spec == Init /\ [][Next]_vars
=============================================================================
