----------------------------- MODULE CreditPool -----------------------------
(***************************************************************************)
(* The AI credits of one school: use, refund, top-up, and what renewals,   *)
(* downgrades and plans write over them.  subscriptions.service.ts,        *)
(* plans.service.ts, and the credits of payments.service.ts and            *)
(* subscription-billing.service.ts; when those two run is in Billing.      *)
(*                                                                         *)
(* A handler reads the subscription and then adds to a counter, which the  *)
(* database does atomically; a renewal writes what it computed.  turn[u]   *)
(* is what the handler of u has read.  The log of uses is left out.        *)
(* Bounds: MaxTurns requests; one cost of a use, one size of a top-up.     *)
(***************************************************************************)
EXTENDS Integers

CONSTANTS
  Users,
  TierCredits,      \* what a period of the PRO tier brings
  Cost, TopUp,      \* of one use, of one top-up
  PlanCredits,      \* what an administrator may write into a plan
  MaxTurns

VARIABLES
  pool,             \* Subscription: tier, aiCredits, aiCreditsUsed, planId, in its period
  turn,             \* requests in flight
  turns,            \* bound: how many requests there were
  charged,          \* uses that may still be given back
  bought, spent,    \* history: credits granted and topped up; used and not given back
  steady,           \* history: nothing met a renewal, downgrade or change of plan
  apart             \* history: no two uses or refunds met

poolVars == <<pool, turn, turns, charged, bought, spent, steady, apart>>
-----------------------------------------------------------------------------
Unlimited == -1
CreditTiers == {"FREE", "PRO", "CUSTOM"}

ASSUME PoolAssumption ==
  /\ TierCredits \in Nat \ {0} /\ Cost \in Nat \ {0} /\ TopUp \in Nat \ {0}
  /\ PlanCredits \subseteq Nat /\ MaxTurns \in Nat

\* getTierLimitCaps
TierCap(tier) ==
  CASE tier = "FREE" -> 0 [] tier = "PRO" -> TierCredits [] tier = "CUSTOM" -> Unlimited

Pool ==
  [tier : CreditTiers, credits : Int, used : Int, plan : CreditTiers \cup {"none"},
   open : BOOLEAN]
TurnOps == {"idle", "use", "topUp", "refund", "renew", "link"}
Turn == [op : TurnOps, tier : CreditTiers, amount : Int]
NoTurn == [op |-> "idle", tier |-> "FREE", amount |-> 0]

PoolTypeOK ==
  /\ pool \in Pool
  /\ turn \in [Users -> Turn] /\ turns \in 0 .. MaxTurns
  /\ charged \in Nat /\ bought \in Int /\ spent \in Int
  /\ steady \in BOOLEAN /\ apart \in BOOLEAN

\* getOrCreateSubscription, with or without a row for the free plan.
PoolInit ==
  /\ \E plan \in {"FREE", "none"}, n \in PlanCredits \cup {TierCap("FREE")} :
       /\ plan = "none" => n = TierCap("FREE")
       /\ pool = [tier |-> "FREE", credits |-> n, used |-> 0, plan |-> plan, open |-> TRUE]
       /\ bought = n
  /\ turn = [u \in Users |-> NoTurn] /\ turns = 0
  /\ charged = 0 /\ spent = 0
  /\ steady = TRUE /\ apart = TRUE
-----------------------------------------------------------------------------
Alone == \A u \in Users : turn[u].op = "idle"
Rewrites == {"renew", "link"}
Counts == {"use", "refund"}

Ask(u, t) ==
  /\ turn[u].op = "idle" /\ turns < MaxTurns
  /\ turn' = [turn EXCEPT ![u] = t] /\ turns' = turns + 1
  /\ steady' = (steady /\ (t.op \in Rewrites => Alone)
                       /\ \A v \in Users : turn[v].op \notin Rewrites)
  /\ apart' = (apart /\ (t.op \in Counts => \A v \in Users : turn[v].op \notin Counts))
  /\ UNCHANGED <<pool, bought, spent>>

Told(u) == turn' = [turn EXCEPT ![u] = NoTurn] /\ UNCHANGED <<turns, apart>>

\* A write without a read before it that matters.
AtOnce ==
  /\ turns < MaxTurns /\ turns' = turns + 1
  /\ UNCHANGED <<turn, charged, apart>>

\* isAiBillingPeriodActive
PeriodActive == pool.tier # "FREE" /\ pool.open
-----------------------------------------------------------------------------
(* useAiCredits: without a limit nothing is counted. *)

Affordable == Cost <= pool.credits - pool.used

UseFree(u) ==
  /\ PeriodActive /\ pool.credits = Unlimited
  /\ turns < MaxTurns /\ turns' = turns + 1
  /\ charged' = charged + 1
  /\ turn[u].op = "idle"
  /\ UNCHANGED <<pool, turn, bought, spent, steady, apart>>

UseRead(u) ==
  /\ PeriodActive /\ pool.credits # Unlimited
  /\ Affordable
  /\ Ask(u, [NoTurn EXCEPT !.op = "use", !.amount = Cost])
  /\ UNCHANGED charged

UseWrite(u) ==
  /\ turn[u].op = "use"
  /\ pool' = [pool EXCEPT !.used = @ + turn[u].amount]
  /\ spent' = spent + turn[u].amount /\ charged' = charged + 1
  /\ Told(u) /\ UNCHANGED <<bought, steady>>

(* refundAiCredits, of a generation that was charged: no more than is used *)
(* by the row it read.                                                     *)

RefundRead(u) ==
  /\ charged > 0 /\ charged' = charged - 1
  /\ Ask(u, [NoTurn EXCEPT !.op = "refund",
                           !.amount = IF pool.used < Cost THEN pool.used ELSE Cost])

RefundWrite(u) ==
  /\ turn[u].op = "refund"
  /\ pool' = [pool EXCEPT !.used = @ - turn[u].amount]
  /\ spent' = spent - turn[u].amount
  /\ Told(u) /\ UNCHANGED <<charged, bought, steady>>

(* topUpAiCreditPool *)

TopUpRead(u) ==
  /\ PeriodActive /\ pool.credits # Unlimited
  /\ Ask(u, [NoTurn EXCEPT !.op = "topUp", !.amount = TopUp])
  /\ UNCHANGED charged

TopUpWrite(u) ==
  /\ turn[u].op = "topUp"
  /\ pool' = [pool EXCEPT !.credits = @ + turn[u].amount]
  /\ bought' = bought + turn[u].amount
  /\ Told(u) /\ UNCHANGED <<charged, spent, steady>>
-----------------------------------------------------------------------------
(* handleSuccessfulPayment reads the subscription with the payment and      *)
(* computes the new credits; onSuccessfulPaidRenewal writes them.           *)

\* A mistake: all credits roll over, the used ones too.
MutantRollAll == pool.credits
Unused == IF pool.credits > pool.used THEN pool.credits - pool.used ELSE 0

Renewed(tier) ==
  IF tier = "PRO" /\ pool.credits # Unlimited THEN TierCap(tier) + Unused ELSE TierCap(tier)

PaidRead(u) ==
  \E tier \in {"PRO", "CUSTOM"} :
    /\ Ask(u, [op |-> "renew", tier |-> tier, amount |-> Renewed(tier)])
    /\ UNCHANGED charged

\* The unused credits are forfeited with a change to or from the tier without limit.
PaidWrite(u) ==
  /\ turn[u].op = "renew"
  /\ LET limited == pool.credits # Unlimited /\ turn[u].tier = "PRO" IN
     /\ bought' = (IF limited THEN bought ELSE 0) + TierCap(turn[u].tier)
     /\ spent' = IF limited THEN spent ELSE 0
  /\ pool' = [pool EXCEPT !.tier = turn[u].tier, !.credits = turn[u].amount,
                          !.used = 0, !.open = TRUE]
  /\ Told(u) /\ UNCHANGED <<charged, steady>>

Lapse ==
  /\ pool.tier # "FREE" /\ pool.open
  /\ pool' = [pool EXCEPT !.open = FALSE]
  /\ UNCHANGED <<turn, turns, charged, bought, spent, steady, apart>>

\* executeDowngradeToFree, with or without a row for the free plan.
ToFree ==
  /\ pool.tier # "FREE"
  /\ \E plan \in {"FREE", pool.plan} :
       pool' = [pool EXCEPT !.tier = "FREE", !.credits = 0, !.used = 0, !.plan = plan]
  /\ bought' = 0 /\ spent' = 0
  /\ steady' = (steady /\ Alone)
  /\ AtOnce
-----------------------------------------------------------------------------
(* Plans.  getOrCreateSubscription links a row without a plan to the one of *)
(* the tier it read, and writes that plan's credits; updatePlan writes them *)
(* to every row linked to the plan, whatever its tier is by now: a renewal *)
(* changes the tier and leaves the plan.                                   *)

LinkRead(u) ==
  /\ pool.plan = "none"
  /\ \E n \in PlanCredits \cup {TierCap(pool.tier)} :
       Ask(u, [op |-> "link", tier |-> pool.tier, amount |-> n])
  /\ UNCHANGED charged

LinkWrite(u) ==
  /\ turn[u].op = "link"
  /\ pool' = [pool EXCEPT !.plan = turn[u].tier, !.credits = turn[u].amount]
  /\ steady' = (steady /\ pool' = [pool EXCEPT !.plan = turn[u].tier])
  /\ Told(u) /\ UNCHANGED <<charged, bought, spent>>

EditPlan ==
  /\ pool.plan # "none"
  /\ \E n \in PlanCredits : pool' = [pool EXCEPT !.credits = n]
  /\ steady' = FALSE
  /\ AtOnce /\ UNCHANGED <<bought, spent>>

\* deletePlan: the foreign key sets planId to null.
DeletePlan ==
  /\ pool.plan # "none"
  /\ pool' = [pool EXCEPT !.plan = "none"]
  /\ AtOnce /\ UNCHANGED <<bought, spent, steady>>
-----------------------------------------------------------------------------
\* The process ends, or a query fails.
Quit(u) ==
  /\ turn[u].op # "idle"
  /\ Told(u) /\ UNCHANGED <<pool, charged, bought, spent, steady>>

ServeUser(u) ==
  \/ UseFree(u) \/ UseRead(u) \/ UseWrite(u) \/ RefundRead(u) \/ RefundWrite(u)
  \/ TopUpRead(u) \/ TopUpWrite(u) \/ PaidRead(u) \/ PaidWrite(u)
  \/ LinkRead(u) \/ LinkWrite(u) \/ Quit(u)

PoolNext ==
  Lapse \/ ToFree \/ EditPlan \/ DeletePlan \/ \E u \in Users : ServeUser(u)

PoolSpec == PoolInit /\ [][PoolNext]_poolVars
-----------------------------------------------------------------------------
(* Properties *)

\* Credits that were bought are either used or still there, through uses,
\* refunds and top-ups in any interleaving and through renewals ("unused credits
\* roll over when you resubscribe"), as long as none of them meets a renewal, a
\* downgrade or a change of plan.  Unless two uses or refunds overlap, none is
\* given away, and no more are used than there are.
CreditsBalance ==
  steady /\ pool.credits # Unlimited =>
    /\ pool.credits - pool.used >= bought - spent
    /\ apart => /\ pool.credits - pool.used = bought - spent
                /\ 0 <= pool.used /\ pool.used <= pool.credits
=============================================================================
