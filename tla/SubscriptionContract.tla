------------------------ MODULE SubscriptionContract ------------------------
(***************************************************************************)
(* What a school's subscription promises (docs/paystack-recurring-         *)
(* payments.md, "Billing Lifecycle Management"): a payment buys one period *)
(* on top of what was paid before; a school is blocked only when its grace *)
(* period is over or Paystack ended the subscription; it can fall back to  *)
(* the free tier only when it is blocked.                                  *)
(***************************************************************************)
EXTENDS Naturals

CONSTANTS Period, Grace

VARIABLES tier, endDate, phase, active, now

vars == <<tier, endDate, phase, active, now>>

Later(a, b) == IF a >= b THEN a ELSE b

Init ==
  /\ tier = "FREE" /\ endDate = 0 /\ phase = "OK" /\ active = TRUE /\ now = 1

Renew ==
  /\ tier' = "PRO"
  /\ endDate' = Later(endDate, now) + Period
  /\ phase' = "OK"
  /\ active' = TRUE
  /\ UNCHANGED now

\* The paid period is over, or a charge of Paystack's failed.
Warn ==
  /\ phase # "ADMIN_ACTION_REQUIRED" \/ now <= endDate + Grace
  /\ phase' = "GRACE_PERIOD"
  /\ UNCHANGED <<tier, endDate, active, now>>

Block ==
  /\ phase' = "ADMIN_ACTION_REQUIRED"
  /\ \/ endDate # 0 /\ endDate + Grace < now /\ active' = active
     \/ active' = FALSE
  /\ UNCHANGED <<tier, endDate, now>>

Heal ==
  /\ now <= endDate
  /\ phase' = "OK"
  /\ UNCHANGED <<tier, endDate, active, now>>

Downgrade ==
  /\ phase = "ADMIN_ACTION_REQUIRED"
  /\ tier' = "FREE" /\ endDate' = 0 /\ phase' = "OK"
  /\ UNCHANGED <<active, now>>

Tick == now' = now + 1 /\ UNCHANGED <<tier, endDate, phase, active>>

Next == Renew \/ Warn \/ Block \/ Heal \/ Downgrade \/ Tick

Spec == Init /\ [][Next]_vars
=============================================================================
