------------------------------ MODULE Portals ------------------------------
(***************************************************************************)
(* The registration of schools and the addresses of their portals:         *)
(* src/src/portals/portals.service.ts, and what calls it in                *)
(* schools/public/school-registration.service.ts and                       *)
(* schools/super-admin/super-admin-schools.service.ts.                     *)
(*                                                                         *)
(* An address (slug) is looked up in two tables, the schools and the       *)
(* redirects of renamed ones, and written later: every query is an action. *)
(* Left out: the format of a slug and the reserved words, custom domains,  *)
(* and isActive -- a closed school keeps its address and shows nothing.    *)
(* Bound: MaxErrands, the number of requests.                              *)
(***************************************************************************)
EXTENDS Naturals, Sequences, FiniteSets

CONSTANTS
  Schools, Slugs, NoSchool, NoSlug,
  Clerks,             \* handlers that may be in flight at once
  NamedAfter,         \* the addresses made of a school's name, as tried
  MaxErrands

VARIABLES
  status,             \* registrationStatus of each school, "none" before its row
  slug, hold,         \* its slug and slugHoldUntil: "none", "held" or "over"
  redirect,           \* SchoolSlugRedirect: where a former slug leads
  errand,             \* the requests in flight
  errands,            \* bound: how many there were
  orderly,            \* history: no request overlapped one of the super admin,
                      \* or another for the same school
  shown               \* history: the schools an address ever showed

portalVars == <<status, slug, hold, redirect, errand, errands, orderly, shown>>
-----------------------------------------------------------------------------
ASSUME PortalsAssumption ==
  /\ NoSchool \notin Schools /\ NoSlug \notin Slugs
  /\ NamedAfter \in [Schools -> Seq(Slugs) \ {<< >>}]
  /\ MaxErrands \in Nat

Kinds == {"register", "create", "ensure", "verify", "reject", "rename"}
Steps == {"release", "school", "redirect", "keep", "write", "insert",
          "ensure", "approve", "lock", "deny", "hold"}

\* old: the slug a rename has read.  rest: the candidates not tried yet.
Errand ==
  [kind : Kinds, at : Steps, school : Schools,
   want : Slugs \cup {NoSlug}, old : Slugs \cup {NoSlug}, rest : Seq(Slugs)]
NoErrand == [kind |-> "none"]

PortalTypeOK ==
  /\ status \in [Schools -> {"none", "UNAPPROVED", "VERIFIED", "REJECTED"}]
  /\ slug \in [Schools -> Slugs \cup {NoSlug}]
  /\ hold \in [Schools -> {"none", "held", "over"}]
  /\ redirect \in [Slugs -> Schools \cup {NoSchool}]
  /\ errand \in [Clerks -> Errand \cup {NoErrand}]
  /\ errands \in Nat /\ orderly \in BOOLEAN
  /\ shown \in [Slugs -> SUBSET Schools]

PortalInit ==
  /\ status = [s \in Schools |-> "none"]
  /\ slug = [s \in Schools |-> NoSlug]
  /\ hold = [s \in Schools |-> "none"]
  /\ redirect = [x \in Slugs |-> NoSchool]
  /\ errand = [c \in Clerks |-> NoErrand]
  /\ errands = 0 /\ orderly = TRUE
  /\ shown = [x \in Slugs |-> {}]

\* The row of a slug; slug is unique.
Holders(x) == {s \in Schools : slug[s] = x}

\* resolveByHost: the verified school of that slug, or else the verified school
\* a redirect names.
Resolve(x) ==
  LET live == {s \in Holders(x) : status[s] = "VERIFIED"}
  IN  IF live # {} THEN live
      ELSE {s \in Schools : redirect[x] = s /\ status[s] = "VERIFIED"}
-----------------------------------------------------------------------------
Busy == {c \in Clerks : errand[c] # NoErrand}
OfAdmin(kind) == kind \in {"verify", "reject", "rename"}

\* A request comes in.
TakeUp(c, kind, at, s, want) ==
  /\ errand[c] = NoErrand /\ errands < MaxErrands
  /\ errands' = errands + 1
  /\ errand' = [errand EXCEPT ![c] =
       [kind |-> kind, at |-> at, school |-> s, want |-> want,
        old |-> IF kind = "rename" THEN slug[s] ELSE NoSlug, rest |-> << >>]]
  /\ orderly' = (orderly /\ \A d \in Busy :
                   ~OfAdmin(kind) /\ ~OfAdmin(errand[d].kind) /\ errand[d].school # s)

At(c, step) == errand[c] # NoErrand /\ errand[c].at = step
Proceed(c, step) == errand' = [errand EXCEPT ![c].at = step]
Leave(c) == errand' = [errand EXCEPT ![c] = NoErrand]

NoRow == UNCHANGED <<status, slug, hold, redirect>>
Same == UNCHANGED <<errands, orderly>>
-----------------------------------------------------------------------------
(* checkSlugAvailable, one query at a time.                                *)

\* Mutant: also the hold of a school that was verified.
MutantRelease(c) ==
  LET x == errand[c].want
      free == {s \in Holders(x) : hold[s] = "over"}
  IN  /\ At(c, "release")
      /\ slug' = [s \in Schools |-> IF s \in free THEN NoSlug ELSE slug[s]]
      /\ hold' = [s \in Schools |-> IF s \in free THEN "none" ELSE hold[s]]
      /\ Proceed(c, "school")
      /\ UNCHANGED <<status, redirect>> /\ Same

\* releaseExpiredHolds: a rejected school whose hold is over loses its slug.
Release(c) ==
  LET x == errand[c].want
      free == {s \in Holders(x) : status[s] = "REJECTED" /\ hold[s] = "over"}
  IN  /\ At(c, "release")
      /\ slug' = [s \in Schools |-> IF s \in free THEN NoSlug ELSE slug[s]]
      /\ hold' = [s \in Schools |-> IF s \in free THEN "none" ELSE hold[s]]
      /\ Proceed(c, "school")
      /\ UNCHANGED <<status, redirect>> /\ Same

\* Not available: the next name made of the school's, when it is one of those,
\* and a refusal otherwise.  A school that registers is except no school.
Refuse(c) ==
  IF errand[c].rest # << >>
  THEN errand' = [errand EXCEPT ![c].at = "release", ![c].want = Head(errand[c].rest),
                                ![c].rest = Tail(errand[c].rest)]
  ELSE Leave(c)

LookAtSchools(c) ==
  /\ At(c, "school")
  /\ IF Holders(errand[c].want) \subseteq {errand[c].school}
     THEN Proceed(c, "redirect") ELSE Refuse(c)
  /\ NoRow /\ Same

LookAtRedirects(c) ==
  LET e == errand[c]
  IN  /\ At(c, "redirect")
      /\ IF redirect[e.want] \notin {NoSchool, e.school} THEN Refuse(c)
         ELSE Proceed(c, CASE e.kind = "register" -> "insert"
                           [] e.kind = "rename" /\ e.old \notin {NoSlug, e.want} -> "keep"
                           [] OTHER -> "write")
      /\ NoRow /\ Same
-----------------------------------------------------------------------------
(* registerSchool: with an address of the owner's choice or without one.   *)

Register(c, s, x) ==
  /\ status[s] = "none"
  /\ \A d \in Busy : errand[d].school # s
  /\ TakeUp(c, "register", IF x = NoSlug THEN "insert" ELSE "release", s, x)
  /\ NoRow

\* The unique index refuses an address that was taken meanwhile.
Insert(c) ==
  LET e == errand[c]
  IN  /\ At(c, "insert")
      /\ IF e.want # NoSlug /\ Holders(e.want) # {} THEN NoRow
         ELSE /\ status' = [status EXCEPT ![e.school] = "UNAPPROVED"]
              /\ slug' = [slug EXCEPT ![e.school] = e.want]
              /\ UNCHANGED <<hold, redirect>>
      /\ Leave(c) /\ Same

\* createSchool by the super admin: the row is VERIFIED, its address follows.
Create(c, s) ==
  /\ status[s] = "none"
  /\ \A d \in Busy : errand[d].school # s
  /\ TakeUp(c, "create", "ensure", s, NoSlug)
  /\ status' = [status EXCEPT ![s] = "VERIFIED"]
  /\ UNCHANGED <<slug, hold, redirect>>

\* Sign-in to a school that has no address yet.
SignIn(c, s) ==
  /\ status[s] = "VERIFIED"
  /\ TakeUp(c, "ensure", "ensure", s, NoSlug)
  /\ NoRow

\* verifySchool refuses a verified school only: a rejected one may be verified.
Verify(c, s) ==
  /\ status[s] \in {"UNAPPROVED", "REJECTED"}
  /\ TakeUp(c, "verify", "ensure", s, NoSlug)
  /\ NoRow

\* What follows once the school has an address.
AfterSlug(kind) ==
  CASE kind = "verify" -> "approve" [] kind = "create" -> "lock" [] OTHER -> "none"
Onward(c, kind) ==
  IF AfterSlug(kind) = "none" THEN Leave(c) ELSE Proceed(c, AfterSlug(kind))

\* ensureSlug: keeps the slug there is, or tries the names in turn.
EnsureSlug(c) ==
  LET e == errand[c]
      names == NamedAfter[e.school]
  IN  /\ At(c, "ensure")
      /\ IF slug[e.school] # NoSlug THEN Onward(c, e.kind)
         ELSE errand' = [errand EXCEPT ![c].at = "release", ![c].want = Head(names),
                                       ![c].rest = Tail(names)]
      /\ NoRow /\ Same

\* The write of ensureSlug and renameSlug, by id; the index may refuse it.
WriteSlug(c) ==
  LET e == errand[c]
  IN  /\ At(c, "write")
      /\ IF Holders(e.want) \ {e.school} # {}
         THEN Leave(c) /\ NoRow
         ELSE /\ slug' = [slug EXCEPT ![e.school] = e.want]
              /\ hold' = IF e.kind = "rename" THEN [hold EXCEPT ![e.school] = "none"]
                         ELSE hold
              /\ Onward(c, e.kind)
              /\ UNCHANGED <<status, redirect>>
      /\ Same

Approve(c) ==
  /\ At(c, "approve")
  /\ status' = [status EXCEPT ![errand[c].school] = "VERIFIED"]
  /\ Proceed(c, "lock")
  /\ UNCHANGED <<slug, hold, redirect>> /\ Same

LockSlug(c) ==
  /\ At(c, "lock")
  /\ hold' = [hold EXCEPT ![errand[c].school] = "none"]
  /\ Leave(c)
  /\ UNCHANGED <<status, slug, redirect>> /\ Same
-----------------------------------------------------------------------------
Reject(c, s) ==
  /\ status[s] \in {"UNAPPROVED", "REJECTED"}
  /\ TakeUp(c, "reject", "deny", s, NoSlug)
  /\ NoRow

Deny(c) ==
  /\ At(c, "deny")
  /\ status' = [status EXCEPT ![errand[c].school] = "REJECTED"]
  /\ Proceed(c, "hold")
  /\ UNCHANGED <<slug, hold, redirect>> /\ Same

HoldSlug(c) ==
  /\ At(c, "hold")
  /\ hold' = [hold EXCEPT ![errand[c].school] = "held"]
  /\ Leave(c)
  /\ UNCHANGED <<status, slug, redirect>> /\ Same

Rename(c, s, x) ==
  /\ status[s] # "none"
  /\ TakeUp(c, "rename", "release", s, x)
  /\ NoRow

\* The redirect is written before the slug is given up.
KeepOldSlug(c) ==
  LET e == errand[c]
  IN  /\ At(c, "keep")
      /\ redirect' = [redirect EXCEPT ![e.old] = e.school]
      /\ Proceed(c, "write")
      /\ UNCHANGED <<status, slug, hold>> /\ Same

\* Thirty days pass.
Expire(s) ==
  /\ hold[s] = "held"
  /\ hold' = [hold EXCEPT ![s] = "over"]
  /\ UNCHANGED <<status, slug, redirect, errand>> /\ Same

\* A query fails, an e-mail rolls a transaction back, or the process dies.
BreakOff(c) ==
  /\ errand[c] # NoErrand
  /\ Leave(c) /\ NoRow /\ Same
-----------------------------------------------------------------------------
Ask(c) ==
  \E s \in Schools :
    \/ \E x \in Slugs \cup {NoSlug} : Register(c, s, x)
    \/ Create(c, s) \/ SignIn(c, s) \/ Verify(c, s) \/ Reject(c, s)
    \/ \E x \in Slugs : Rename(c, s, x)

Work(c) ==
  \/ Release(c) \/ LookAtSchools(c) \/ LookAtRedirects(c) \/ Insert(c)
  \/ EnsureSlug(c) \/ KeepOldSlug(c) \/ WriteSlug(c)
  \/ Approve(c) \/ LockSlug(c) \/ Deny(c) \/ HoldSlug(c)

PortalNext ==
  /\ \/ \E c \in Clerks : Ask(c) \/ Work(c) \/ BreakOff(c)
     \/ \E s \in Schools : Expire(s)
  /\ shown' = [x \in Slugs |-> shown[x] \cup Resolve(x)']

PortalSpec == PortalInit /\ [][PortalNext]_portalVars
-----------------------------------------------------------------------------
(* An address that ever showed the portal of a school never shows another  *)
(* school's, through rejections whose hold runs out, renames back and      *)
(* forth, registrations and sign-ins that overlap, and handlers cut off    *)
(* anywhere (the redirects of renameSlug, the hold of a rejected school).  *)
(* Only what overlaps a request of the super admin, or a request for the   *)
(* same school, is left out: ensureSlug may write over an address another  *)
(* one has just given the school.                                          *)
AddressKept == orderly => \A x \in Slugs : Cardinality(shown[x]) <= 1
=============================================================================
