------------------------------ MODULE Billing ------------------------------
(***************************************************************************)
(* The subscription of a school: payments by Paystack, the billing phases  *)
(* and the downgrade to the free tier.                                     *)
(* src/src/payments/payments.service.ts,                                   *)
(* src/src/subscriptions/subscription-billing.service.ts, over the         *)
(* Subscription, SubscriptionPayment and PaymentIdempotency tables.  The   *)
(* credits of a subscription are in SchemeGeneration.                       *)
(*                                                                         *)
(* A handler is one action per await; what it read is in req[p] until the  *)
(* write that uses it.  Hook handles charge.success webhooks, Cron the     *)
(* daily lifecycle (also run at startup), the Requests everything else.    *)
(* Time is in days.  A handler reads the clock once and lasts seconds, so  *)
(* one that straddles midnight behaves like one wholly before it.          *)
(*                                                                         *)
(* Bounds: MaxPayments, MaxNow, MaxFaults, and one handler per process     *)
(* at a time.  One paid tier stands for all.  Left out: the reminders, and *)
(* gracePeriodEndsAt, which nothing reads back.                            *)
(***************************************************************************)
EXTENDS Integers, Sequences, FiniteSetsExt

CONSTANTS
  Requests, Hook, Cron,
  Pupils, FreeSeats,    \* enrollments, and how many the free tier allows
  Staff, FreeStaff,     \* members of staff, likewise
  Period, Grace,        \* paid period and SUBSCRIPTION_GRACE_DAYS
  Price,                \* of a period
  PlanCode,             \* the tier has a plan at Paystack
  MaxPayments, MaxNow, MaxFaults

ASSUME BillingAssumption ==
  /\ Hook \notin Requests /\ Cron \notin Requests /\ Hook # Cron
  /\ IsFiniteSet(Pupils) /\ FreeSeats \in Nat /\ Staff \in Nat /\ FreeStaff \in Nat
  /\ Period \in Nat \ {0} /\ Grace \in Nat /\ Price \in Nat
  /\ MaxPayments \in Nat /\ MaxNow \in Nat \ {0} /\ MaxFaults \in Nat
  /\ PlanCode \in BOOLEAN

VARIABLES
  tier, endDate, phase, active,   \* Subscription; endDate is 0 for null
  tools,       \* agora-ai, the tool of the paid tiers, is ACTIVE
  locked,      \* the enrollments with billingLocked (and not isActive)
  suspended,   \* how many of the staff have billingSuspended
  payments,    \* SubscriptionPayment, in creation order: the reference is the index
  idem,        \* the references PROCESSED in PaymentIdempotency
  charged,     \* Paystack: the references it was paid under
  now,
  req,         \* what each handler in flight does next and has read
  faults,
  clean,       \* history: no two handlers overlapped
  applied,     \* history: the references that renewed the subscription
  reverted,    \* history: a charge.failed arrived after its payment's SUCCESS
  paidUntil    \* history: where the payments put the end date, downgrades aside

row == <<tier, endDate, phase, active>>
school == <<tools, locked, suspended>>
ledger == <<payments, idem>>
history == <<applied, reverted, paidUntil>>
vars == <<tier, endDate, phase, active, tools, locked, suspended, payments, idem,
          charged, now, req, faults, clean, applied, reverted,
          paidUntil>>

Procs == Requests \cup {Hook, Cron}

\* The reference of a charge that Paystack's plan makes by itself.
PlanCharge == MaxPayments + 1
Refs == 1..PlanCharge

Phases == {"OK", "GRACE_PERIOD", "ADMIN_ACTION_REQUIRED"}

\* success: its status is SUCCESS, not PENDING or FAILED.  amount: what the
\* school is charged, which is the plan's own amount when there is a plan.
Payment == [success : BOOLEAN, amount : Nat, paidAt : Nat]

Ops == {"idle", "payMark", "payRenew", "payRecord", "paySync",
        "dailyOk", "dailyGrace", "dailyBlock", "uiHeal", "failWrite",
        "downgrade", "downSync"}

\* Before a first use of a field it has a value that is never read.
Request == [op : Ops, ref : 0..PlanCharge, end : Nat, sync : BOOLEAN,
            drop : SUBSET Pupils]
Idle == [op |-> "idle", ref |-> 0, end |-> 0, sync |-> FALSE, drop |-> {}]

TypeOK ==
  /\ tier \in {"FREE", "PRO"} /\ endDate \in Nat /\ phase \in Phases
  /\ active \in BOOLEAN /\ tools \in BOOLEAN
  /\ locked \subseteq Pupils /\ suspended \in 0..Staff
  /\ payments \in Seq(Payment) /\ Len(payments) <= MaxPayments
  /\ idem \subseteq Refs /\ charged \subseteq Refs
  /\ now \in 1..MaxNow /\ req \in [Procs -> Request] /\ faults \in 0..MaxFaults
  /\ clean \in BOOLEAN /\ applied \subseteq charged /\ reverted \in BOOLEAN
  /\ paidUntil \in Nat

\* getOrCreateSubscription: a school starts on the free tier.
Init ==
  /\ tier = "FREE" /\ endDate = 0 /\ phase = "OK" /\ active = TRUE
  /\ tools = FALSE /\ locked = {} /\ suspended = 0
  /\ payments = << >> /\ idem = {} /\ charged = {}
  /\ now = 1 /\ req = [p \in Procs |-> Idle] /\ faults = 0 /\ clean = TRUE
  /\ applied = {} /\ reverted = FALSE /\ paidUntil = 0
-----------------------------------------------------------------------------
Later(a, b) == IF a >= b THEN a ELSE b
Rows == DOMAIN payments
Quiet == \A p \in Procs : req[p].op = "idle"

\* A handler makes its first query and goes on with what it read.
Start(p, r) ==
  /\ req[p].op = "idle"
  /\ req' = [req EXCEPT ![p] = r]
  /\ clean' = (clean /\ Quiet)
  /\ UNCHANGED <<now, faults>>

Goto(p, from, r) ==
  /\ req[p].op = from
  /\ req' = [req EXCEPT ![p] = r]
  /\ UNCHANGED <<now, faults, clean>>

Go(p, from, to) == Goto(p, from, [req[p] EXCEPT !.op = to])
Finish(p, from) == Goto(p, from, Idle)

\* A step outside the handlers, and a webhook that is one write.
Outside == UNCHANGED <<req, faults, clean>>
OneWrite == UNCHANGED <<req, faults>> /\ clean' = (clean /\ Quiet)
-----------------------------------------------------------------------------
(* initializeSubscription: the price, less the value of the days that are  *)
(* left of the last payment.                                               *)

Successful == {r \in Rows : payments[r].success}

ProratedAmount ==
  IF tier = "FREE" \/ endDate <= now \/ Successful = {} THEN Price
  ELSE LET last == payments[CHOOSE r \in Successful : \A q \in Successful : q <= r]
           total == endDate - last.paidAt
       IN  IF total <= 0 THEN Price
           ELSE Later(0, (Price * total - last.amount * (endDate - now)) \div total)

Initialize ==
  /\ Len(payments) < MaxPayments
  /\ payments' = Append(payments,
       [success |-> FALSE, paidAt |-> 0,
        amount |-> IF PlanCode THEN Price ELSE ProratedAmount])
  /\ UNCHANGED <<row, school, idem, charged, history, now>> /\ Outside

Charge(r) ==
  /\ r \in Rows \ charged
  /\ charged' = charged \cup {r}
  /\ UNCHANGED <<row, school, ledger, history, now>> /\ Outside

\* The plan of a recurring subscription charges the next period.
ChargePlan ==
  /\ PlanCode /\ applied # {}
  /\ PlanCharge \notin charged
  /\ charged' = charged \cup {PlanCharge}
  /\ UNCHANGED <<row, school, ledger, history, now>> /\ Outside
-----------------------------------------------------------------------------
(* handleSuccessfulPayment, by the webhook and by verifyPayment, any number *)
(* of times.  Its two reads are one action: a payment that is marked or    *)
(* recorded between them is not applied either way.                        *)

\* Mutant: a delivery that trusts only PaymentIdempotency.
MutantPayTwice(p, r) ==
  /\ r \in (charged \ idem) \cap Rows
  /\ Start(p, [Idle EXCEPT !.op = "payMark", !.ref = r, !.end = endDate])
  /\ UNCHANGED <<row, school, ledger, charged, history>>

\* A charge without a row ("Payment not found") changes nothing.
PayRead(p, r) ==
  /\ r \in charged \ idem
  /\ r \in Rows
  /\ Start(p, IF r \in Successful
              THEN [Idle EXCEPT !.op = "payRecord", !.ref = r]
              ELSE [Idle EXCEPT !.op = "payMark", !.ref = r, !.end = endDate])
  /\ UNCHANGED <<row, school, ledger, charged, history>>

\* Mutant: the key is recorded before the renewal, which then finds it.
MutantPayMarkOnly(p) ==
  /\ Finish(p, "payMark")
  /\ payments' = [payments EXCEPT ![req[p].ref] = [@ EXCEPT !.success = TRUE]]
  /\ idem' = idem \cup {req[p].ref}
  /\ UNCHANGED <<row, school, charged, history>>

PayMark(p) ==
  /\ Go(p, "payMark", "payRenew")
  /\ payments' = [payments EXCEPT ![req[p].ref] =
                    [@ EXCEPT !.success = TRUE, !.paidAt = IF PlanCode THEN 0 ELSE now]]
  /\ UNCHANGED <<row, school, idem, charged, history>>

\* Mutant: the enrollments stay locked.
MutantRenewLocked(p) ==
  /\ Goto(p, "payRenew", [req[p] EXCEPT !.op = "payRecord", !.sync = TRUE])
  /\ tier' = "PRO" /\ phase' = "OK" /\ active' = TRUE
  /\ endDate' = Later(req[p].end, now) + Period
  /\ suspended' = 0
  /\ applied' = applied \cup {req[p].ref}
  /\ paidUntil' = Later(paidUntil, now) + Period
  /\ UNCHANGED <<tools, locked, ledger, charged, reverted>>

\* onSuccessfulPaidRenewal: one transaction; the end date was read before it.
PayRenew(p) ==
  /\ Goto(p, "payRenew", [req[p] EXCEPT !.op = "payRecord", !.sync = TRUE])
  /\ tier' = "PRO" /\ phase' = "OK" /\ active' = TRUE
  /\ endDate' = Later(req[p].end, now) + Period
  /\ locked' = {} /\ suspended' = 0
  /\ applied' = applied \cup {req[p].ref}
  /\ paidUntil' = IF req[p].ref \in applied THEN paidUntil
                  ELSE Later(paidUntil, now) + Period
  /\ UNCHANGED <<tools, ledger, charged, reverted>>

PayRecord(p) ==
  /\ idem' = idem \cup {req[p].ref}
  /\ IF req[p].sync THEN Go(p, "payRecord", "paySync") ELSE Finish(p, "payRecord")
  /\ UNCHANGED <<row, school, payments, charged, history>>

PaySync(p) ==
  /\ Finish(p, "paySync")
  /\ tools' = TRUE
  /\ UNCHANGED <<row, locked, suspended, ledger, charged, history>>

Pay(p) == PayMark(p) \/ PayRenew(p) \/ PayRecord(p) \/ PaySync(p)

\* charge.failed, of an earlier attempt under the same reference: Paystack
\* does not order its webhooks.  Before the success it changes nothing that a
\* handler looks at; afterwards it may come once (a bound).
ChargeFailed(r) ==
  /\ r \in Successful
  /\ ~reverted
  /\ payments' = [payments EXCEPT ![r] = [@ EXCEPT !.success = FALSE]]
  /\ reverted' = TRUE
  /\ UNCHANGED <<row, school, idem, charged, applied, paidUntil, now>> /\ OneWrite
-----------------------------------------------------------------------------
(* runDailyBillingLifecycle: one snapshot of the subscriptions, then one   *)
(* write by id for each that needs it.                                     *)

\* Mutants: no grace; the job only ever blocks.
MutantNoGrace ==
  IF now <= endDate THEN IF phase # "OK" THEN "dailyOk" ELSE "idle"
  ELSE IF phase # "ADMIN_ACTION_REQUIRED" THEN "dailyBlock" ELSE "idle"
MutantNoHeal ==
  IF now <= endDate THEN "idle"
  ELSE IF now <= endDate + Grace THEN "dailyGrace"
  ELSE IF phase # "ADMIN_ACTION_REQUIRED" THEN "dailyBlock" ELSE "idle"

DailyWork ==
  IF now <= endDate THEN IF phase # "OK" THEN "dailyOk" ELSE "idle"
  ELSE IF now <= endDate + Grace THEN "dailyGrace"
  ELSE IF phase # "ADMIN_ACTION_REQUIRED" THEN "dailyBlock" ELSE "idle"

DailyRead ==
  /\ tier # "FREE" /\ endDate # 0
  /\ DailyWork # "idle"
  /\ Start(Cron, [Idle EXCEPT !.op = DailyWork])
  /\ UNCHANGED <<row, school, ledger, charged, history>>

PhaseWrite(p, from, ph) ==
  /\ Finish(p, from)
  /\ phase' = ph
  /\ UNCHANGED <<tier, endDate, active, school, ledger, charged, history>>

DailyWrite ==
  \/ PhaseWrite(Cron, "dailyOk", "OK")
  \/ PhaseWrite(Cron, "dailyGrace", "GRACE_PERIOD")
  \/ PhaseWrite(Cron, "dailyBlock", "ADMIN_ACTION_REQUIRED")

\* getUiBillingFlags: "Self-heal", when a dashboard is opened.
UiRead(p) ==
  /\ phase # "OK" /\ endDate > now
  /\ Start(p, [Idle EXCEPT !.op = "uiHeal"])
  /\ UNCHANGED <<row, school, ledger, charged, history>>

UiWrite(p) == PhaseWrite(p, "uiHeal", "OK")

\* handleFailedRenewal, on invoice.payment_failed.
FailRead(p) ==
  /\ applied # {}
  /\ phase # "ADMIN_ACTION_REQUIRED"
  /\ Start(p, [Idle EXCEPT !.op = "failWrite"])
  /\ UNCHANGED <<row, school, ledger, charged, history>>

FailWrite(p) == PhaseWrite(p, "failWrite", "GRACE_PERIOD")

\* lockSchoolDueToPayment, on subscription.disable, which Paystack sends once
\* for what a payment subscribed to.
Lock ==
  /\ applied # {} /\ active
  /\ phase' = "ADMIN_ACTION_REQUIRED" /\ active' = FALSE
  /\ UNCHANGED <<tier, endDate, school, ledger, charged, history, now>> /\ OneWrite
-----------------------------------------------------------------------------
(* executeDowngradeToFree                                                  *)

Operational == Pupils \ locked

MayDowngrade == phase = "ADMIN_ACTION_REQUIRED"

\* When the school has more pupils than seats, the principal names as many
\* of them as there are seats; nothing checks that they differ.
DowngradeRead(p, drop) ==
  /\ MayDowngrade
  /\ drop \subseteq Operational
  /\ IF Cardinality(Operational) > FreeSeats
     THEN Cardinality(Operational \ drop) \in 1..FreeSeats
     ELSE drop = {}
  /\ Start(p, [Idle EXCEPT !.op = "downgrade", !.drop = drop])
  /\ UNCHANGED <<row, school, ledger, charged, history>>

Surplus(n, cap) == Later(0, n - cap)

DowngradeTx(p) ==
  /\ Go(p, "downgrade", "downSync")
  /\ tier' = "FREE" /\ endDate' = 0 /\ phase' = "OK"
  /\ locked' = locked \cup req[p].drop
  /\ suspended' = suspended + Surplus(Staff - suspended, FreeStaff)
  /\ UNCHANGED <<active, tools, ledger, charged, history>>

DowngradeSync(p) ==
  /\ Finish(p, "downSync")
  /\ tools' = FALSE
  /\ UNCHANGED <<row, locked, suspended, ledger, charged, history>>
-----------------------------------------------------------------------------
Tick ==
  /\ now < MaxNow /\ Quiet
  /\ now' = now + 1
  /\ UNCHANGED <<row, school, ledger, charged, history>> /\ Outside

\* The handler of p is cut off: a query fails, or the process dies.
Fault(p) ==
  /\ req[p].op # "idle"
  /\ faults < MaxFaults
  /\ faults' = faults + 1
  /\ req' = [req EXCEPT ![p] = Idle]
  /\ UNCHANGED <<row, school, ledger, charged, history, now, clean>>

Continue(p) ==
  \/ Pay(p) \/ UiWrite(p) \/ FailWrite(p)
  \/ DowngradeTx(p) \/ DowngradeSync(p)

Paystack ==
  \/ Initialize
  \/ \E r \in Refs : Charge(r) \/ ChargeFailed(r)
  \/ ChargePlan \/ Lock

Begin(p) ==
  \/ \E r \in Refs : PayRead(p, r)
  \/ UiRead(p) \/ FailRead(p)
  \/ \E drop \in SUBSET Pupils : DowngradeRead(p, drop)

Next ==
  \/ Paystack \/ Tick
  \/ \E r \in Refs : PayRead(Hook, r)
  \/ DailyRead \/ DailyWrite
  \/ \E p \in Requests : Begin(p)
  \/ \E p \in Procs : Continue(p) \/ Fault(p)

Spec == Init /\ [][Next]_vars

\* Paystack repeats a webhook until it is processed, the daily job fires, and
\* Node goes on with every handler it started.
Fairness ==
  /\ \A r \in Refs : WF_vars(PayRead(Hook, r))
  /\ \A p \in Procs : WF_vars(Continue(p))
  /\ WF_vars(DailyRead) /\ WF_vars(DailyWrite)

FairSpec == Spec /\ Fairness
-----------------------------------------------------------------------------
\* Under every interleaving and fault, a school never gets time it did not pay
\* for: a payment moves the end date once however often it is delivered.  (A
\* charge.failed that arrives after the success undoes that protection.)
NoFreeTime == ~reverted => endDate <= paidUntil

\* Pupils are locked and staff suspended only on the free tier, whichever way
\* a renewal and a downgrade interleave.
LockedOnlyWhenFree == tier # "FREE" => locked = {} /\ suspended = 0

\* The subscription's promises, as long as no two handlers overlap.
S == INSTANCE SubscriptionContract
KeepsContract == S!Init /\ [][clean' => [S!Next]_(S!vars)]_vars

\* A school that paid and is blocked all the same, by a stale snapshot of the
\* daily job or by Paystack, is unblocked.
PaidSchoolUnblocked ==
  tier # "FREE" /\ now <= endDate /\ phase = "ADMIN_ACTION_REQUIRED"
    ~> phase # "ADMIN_ACTION_REQUIRED" \/ now > endDate

\* A payment renews the subscription, unless a handler is cut off between its
\* steps: nothing applies a payment that was only marked.
PaymentsAppliedUnlessFault ==
  [](faults = 0) => \A r \in 1..MaxPayments : r \in charged ~> r \in applied
=============================================================================
