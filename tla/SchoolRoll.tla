------------------------------ MODULE SchoolRoll ------------------------------
(***************************************************************************)
(* Who is on the roll of one school: students admitted by an administrator *)
(* or by an approved application (students/student-admission.service.ts),  *)
(* transferred in and out (transfers/transfers.service.ts), and locked and *)
(* unlocked as the school loses and renews its paid plan                   *)
(* (subscriptions/subscription-billing.service.ts).                        *)
(*                                                                         *)
(* A pupil has at most one enrollment row here: one who left does not come *)
(* back.  Class arms and their capacity, parents and users are left out;   *)
(* codes, payments and the billing calendar are modules of their own, and  *)
(* are here only what they do to the roll.                                 *)
(***************************************************************************)
EXTENDS Naturals, FiniteSets

CONSTANTS
  Pupils, Applications,
  Applicant,                \* the pupil, known by e-mail, of an application
  FreeSeats, PaidSeats,     \* maxStudents of the tiers
  Desks, NoPupil, NoApplication,
  MaxDesk                   \* bound: requests

VARIABLES
  known,        \* pupils with a profile on the platform
  rolled,       \* pupils with an enrollment row at this school
  active,       \* isActive of that row
  locked,       \* billingLocked of that row
  elsewhere,    \* pupils with an active enrollment at another school
  leaving,      \* pupils with a code of this school that another took over
  tier, phase,  \* Subscription
  apps,         \* AdmissionApplication
  desk,         \* the requests in flight
  served,       \* bound: how many requests there were
  alone,        \* history: requests came one at a time
  exempt,       \* history: someone was transferred in, or a downgrade kept
                \* fewer than the free seats
  strayed       \* history: pupils locked here while enrolled elsewhere

table == <<known, rolled, active, locked, elsewhere, leaving, tier, phase, apps>>
rollVars == <<table, desk, served, alone, exempt, strayed>>
-----------------------------------------------------------------------------
AppStatus == {"none", "PENDING", "ACCEPTED", "DECLINED"}
Tiers == {"FREE", "PAID"}
Phases == {"OK", "ADMIN_ACTION_REQUIRED"}
DeskOps == {"idle", "limit", "count", "enrol", "accept", "submit",
            "list", "lock", "leave", "enter"}

\* seats: the limit that was read.  lock: the enrollments to lock.
Request ==
  [op : DeskOps, pupil : Pupils \cup {NoPupil},
   app : Applications \cup {NoApplication}, seats : Nat, lock : SUBSET Pupils]
Free == [op |-> "idle", pupil |-> NoPupil, app |-> NoApplication, seats |-> 0,
         lock |-> {}]

ASSUME RollAssumption ==
  /\ Applicant \in [Applications -> Pupils]
  /\ FreeSeats \in Nat /\ PaidSeats \in Nat /\ FreeSeats <= PaidSeats
  /\ MaxDesk \in Nat
  /\ NoPupil \notin Pupils /\ NoApplication \notin Applications
  /\ IsFiniteSet(Pupils)

RollTypeOK ==
  /\ known \subseteq Pupils /\ rolled \subseteq known
  /\ active \subseteq rolled /\ locked \subseteq rolled
  /\ elsewhere \subseteq known /\ leaving \subseteq rolled
  /\ tier \in Tiers /\ phase \in Phases
  /\ apps \in [Applications -> AppStatus]
  /\ desk \in [Desks -> Request]
  /\ served \in Nat /\ alone \in BOOLEAN /\ exempt \in BOOLEAN
  /\ strayed \subseteq Pupils

\* A paid school within its seats, and some pupils of other schools.
RollInit ==
  /\ rolled \in SUBSET Pupils /\ Cardinality(rolled) <= PaidSeats
  /\ elsewhere \in SUBSET (Pupils \ rolled)
  /\ active = rolled /\ known = rolled \cup elsewhere
  /\ locked = {} /\ leaving = {}
  /\ tier = "PAID" /\ phase = "OK"
  /\ apps = [a \in Applications |-> "none"]
  /\ desk = [d \in Desks |-> Free]
  /\ served = 0 /\ alone = TRUE /\ exempt = FALSE /\ strayed = {}
-----------------------------------------------------------------------------
Seats == IF tier = "PAID" THEN PaidSeats ELSE FreeSeats
Operational == active \ locked

\* A request comes to desk d, whose handler goes on with what it has read.
Open(d, request) ==
  /\ desk[d].op = "idle" /\ served < MaxDesk
  /\ desk' = [desk EXCEPT ![d] = request]
  /\ served' = served + 1
  /\ alone' = (alone /\ \A e \in Desks : desk[e].op = "idle")
  /\ UNCHANGED <<table, exempt, strayed>>

Go(d, op) == desk' = [desk EXCEPT ![d].op = op]
Done(d) == desk' = [desk EXCEPT ![d] = Free]
OnlyDesk == UNCHANGED <<table, served, alone, exempt, strayed>>

-----------------------------------------------------------------------------
(* addStudent, by itself or for an approved application: the limit of the  *)
(* subscription, the number of students, then one transaction that makes   *)
(* the user, whose e-mail is unique, and the enrollment.                   *)

Add(d) ==
  \E p \in Pupils : Open(d, [Free EXCEPT !.op = "limit", !.pupil = p])

\* approveApplication
Approve(d) ==
  \E a \in Applications :
    /\ apps[a] = "PENDING"
    /\ Open(d, [Free EXCEPT !.op = "limit", !.pupil = Applicant[a], !.app = a])

ReadLimit(d) ==
  /\ desk[d].op = "limit"
  /\ desk' = [desk EXCEPT ![d].op = "count", ![d].seats = Seats]
  /\ OnlyDesk

\* A mistake: one student more than the plan has seats.
MutantOneMore(count, seats) == count <= seats
CanAdd(count, seats) == count < seats

CountStudents(d) ==
  /\ desk[d].op = "count"
  /\ IF CanAdd(Cardinality(Operational), desk[d].seats)
     THEN Go(d, "enrol") ELSE Done(d)
  /\ OnlyDesk

\* A pupil that is enrolled has a profile.
WithProfile(p) == known \cup {p}

Enrol(d) ==
  /\ desk[d].op = "enrol"
  /\ IF desk[d].pupil \in known
     THEN Done(d) /\ OnlyDesk
     ELSE /\ known' = WithProfile(desk[d].pupil)
          /\ rolled' = rolled \cup {desk[d].pupil}
          /\ active' = active \cup {desk[d].pupil}
          /\ IF desk[d].app = NoApplication THEN Done(d) ELSE Go(d, "accept")
          /\ UNCHANGED <<locked, elsewhere, leaving, tier, phase, apps,
                         served, alone, exempt, strayed>>

SetApp(a, status) ==
  /\ apps' = [apps EXCEPT ![a] = status]
  /\ UNCHANGED <<known, rolled, active, locked, elsewhere, leaving, tier, phase,
                 served, alone, exempt, strayed>>

Accept(d) ==
  /\ desk[d].op = "accept"
  /\ SetApp(desk[d].app, "ACCEPTED")
  /\ Done(d)

\* submitApplication: no profile has the e-mail, then the application is made.
SubmitRead(d) ==
  \E a \in Applications :
    /\ apps[a] = "none" /\ Applicant[a] \notin known
    /\ Open(d, [Free EXCEPT !.op = "submit", !.app = a])

SubmitWrite(d) ==
  /\ desk[d].op = "submit"
  /\ SetApp(desk[d].app, "PENDING")
  /\ Done(d)

\* rejectApplication, whatever has become of the application.
Reject(d) ==
  /\ desk[d].op = "idle"
  /\ \E a \in Applications :
       /\ apps[a] \in {"PENDING", "ACCEPTED"}
       /\ SetApp(a, "DECLINED")
  /\ UNCHANGED desk
-----------------------------------------------------------------------------
(* Transfers.  completeTransfer reads the student's data, and in one       *)
(* transaction enrols at the receiving school and deactivates the row here. *)

\* generateTac for an active enrollment, and another school's initiateTransfer.
IssueCode ==
  /\ \E p \in active \ leaving : leaving' = leaving \cup {p}
  /\ UNCHANGED <<known, rolled, active, locked, elsewhere, tier, phase, apps,
                 desk, served, alone, exempt, strayed>>

LeaveRead(d) ==
  \E p \in leaving : Open(d, [Free EXCEPT !.op = "leave", !.pupil = p])

LeaveTx(d) ==
  /\ desk[d].op = "leave"
  /\ active' = active \ {desk[d].pupil}
  /\ elsewhere' = elsewhere \cup {desk[d].pupil}
  /\ leaving' = leaving \ {desk[d].pupil}
  /\ strayed' = strayed \cup (locked \cap {desk[d].pupil})
  /\ Done(d)
  /\ UNCHANGED <<known, rolled, locked, tier, phase, apps, served, alone, exempt>>

\* The receiving side: nobody asks for the student limit.
EnterRead(d) ==
  \E p \in elsewhere \ rolled : Open(d, [Free EXCEPT !.op = "enter", !.pupil = p])

EnterTx(d) ==
  /\ desk[d].op = "enter"
  /\ IF desk[d].pupil \in rolled     \* a second completion: see Transfers
     THEN UNCHANGED <<rolled, active, elsewhere, exempt>>
     ELSE /\ rolled' = rolled \cup {desk[d].pupil}
          /\ active' = active \cup {desk[d].pupil}
          /\ elsewhere' = elsewhere \ {desk[d].pupil}
          /\ exempt' = TRUE
  /\ Done(d)
  /\ UNCHANGED <<known, locked, leaving, tier, phase, apps, served, alone, strayed>>
-----------------------------------------------------------------------------
(* Billing.                                                                *)

\* The daily job, when the grace period is over.
RequireAction ==
  /\ tier = "PAID" /\ phase = "OK"
  /\ phase' = "ADMIN_ACTION_REQUIRED"
  /\ UNCHANGED <<known, rolled, active, locked, elsewhere, leaving, tier, apps,
                 desk, served, alone, exempt, strayed>>

\* executeDowngradeToFree: the phase, the operational enrollments, then a
\* transaction that locks those that were not picked.  The ids that are kept
\* are counted, not compared with each other, so they may be fewer than the seats.
DowngradeRead(d) ==
  /\ phase = "ADMIN_ACTION_REQUIRED"
  /\ Open(d, [Free EXCEPT !.op = "list"])

Keeps == {K \in SUBSET Operational : (FreeSeats > 0 => K # {}) /\ Cardinality(K) <= FreeSeats}

DowngradeList(d) ==
  /\ desk[d].op = "list"
  /\ IF Cardinality(Operational) > FreeSeats
     THEN \E K \in Keeps :
            /\ desk' = [desk EXCEPT ![d].op = "lock", ![d].lock = Operational \ K]
            /\ exempt' = (exempt \/ Cardinality(K) < FreeSeats)
     ELSE Go(d, "lock") /\ UNCHANGED exempt
  /\ UNCHANGED <<table, served, alone, strayed>>

DowngradeTx(d) ==
  /\ desk[d].op = "lock"
  /\ active' = active \ desk[d].lock
  /\ locked' = locked \cup desk[d].lock
  /\ strayed' = strayed \cup (desk[d].lock \cap elsewhere)
  /\ tier' = "FREE" /\ phase' = "OK"
  /\ Done(d)
  /\ UNCHANGED <<known, rolled, elsewhere, leaving, apps, served, alone, exempt>>

\* A mistake: every row of the school is made active again.
MutantUnlockAll == active' = rolled
Unlock == active' = active \cup locked

\* onSuccessfulPaidRenewal: one transaction.
Renew ==
  /\ Unlock
  /\ locked' = {}
  /\ tier' = "PAID" /\ phase' = "OK"
  /\ UNCHANGED <<known, rolled, elsewhere, leaving, apps,
                 desk, served, alone, exempt, strayed>>
-----------------------------------------------------------------------------
\* The process ends: what is committed stays.
Abort(d) ==
  /\ desk[d].op # "idle"
  /\ Done(d)
  /\ OnlyDesk

Serve(d) ==
  \/ Add(d) \/ Approve(d) \/ ReadLimit(d) \/ CountStudents(d) \/ Enrol(d) \/ Accept(d)
  \/ SubmitRead(d) \/ SubmitWrite(d) \/ Reject(d)
  \/ LeaveRead(d) \/ LeaveTx(d) \/ EnterRead(d) \/ EnterTx(d)
  \/ DowngradeRead(d) \/ DowngradeList(d) \/ DowngradeTx(d)
  \/ Abort(d)

RollNext == IssueCode \/ RequireAction \/ Renew \/ \E d \in Desks : Serve(d)

RollSpec == RollInit /\ [][RollNext]_rollVars
-----------------------------------------------------------------------------
\* With requests one at a time, the students that count are within the seats of
\* the plan, whatever is locked and unlocked in between -- but for transfers in,
\* which ask for no limit, and for a downgrade that kept too few: its school
\* fills the free seats and a renewal unlocks more than the paid ones.
SeatsKept == alone /\ ~exempt => Cardinality(Operational) <= Seats

\* A pupil who left for another school is not enrolled here again by any
\* interleaving, unless the row was locked at the time: a renewal makes a
\* locked row active whoever it belongs to.
LeaverStaysAway == \A p \in active \cap elsewhere : p \in strayed
=============================================================================
