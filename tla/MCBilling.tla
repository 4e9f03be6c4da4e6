----------------------------- MODULE MCBilling -----------------------------
(* The fair behaviours of Billing for TLC: two payments, or one payment    *)
(* and a handler that is cut off.                                          *)
EXTENDS Billing

\* The actions that fairness is about change neither number, so it stays sound.
MCNext == Next /\ (faults' = 0 \/ Len(payments') <= 1)

MCSpec == Init /\ [][MCNext]_vars /\ Fairness
=============================================================================
