---------------------------- MODULE MCPlatform ----------------------------
(* What the platform does with its schools: it registers them under an     *)
(* address, has them pay, and sends them campaigns.  A behaviour is about  *)
(* one of the three.                                                       *)
EXTENDS Billing, Portals, Campaigns, TLC

CONSTANTS oak, elm, oakSlug, elmSlug, shared    \* two schools, three addresses

VARIABLE focus

\* The names of the two schools lead to the same address first.
MCNamedAfter == [s \in {oak, elm} |-> IF s = oak THEN <<shared, oakSlug>>
                                      ELSE <<shared, elmSlug>>]

MCInit ==
  /\ Init /\ PortalInit /\ CampaignInit
  /\ focus \in {"billing", "portals", "campaigns"}

\* Bound: where handlers overlap there are three days of billing with two payments
\* or one and a fault, and three errands.
MCNext ==
  \/ /\ focus = "billing" /\ Next /\ UNCHANGED <<portalVars, campaignVars, focus>>
     /\ clean' \/ (now' <= 3 /\ (faults' = 0 \/ Len(payments') <= 1))
  \/ /\ focus = "portals" /\ PortalNext /\ UNCHANGED <<vars, campaignVars, focus>>
     /\ orderly' \/ errands' <= 3
  \/ focus = "campaigns" /\ CampaignNext /\ UNCHANGED <<vars, portalVars, focus>>

MCSpec == MCInit /\ [][MCNext]_<<vars, portalVars, campaignVars, focus>>

Symmetry == Permutations(Clerks) \cup Permutations(Owners) \cup Permutations(Pupils)
=============================================================================
