-------------------------- MODULE Platform_proofs ---------------------------
(***************************************************************************)
(* Proofs about what runs beside the schools: Portals, Campaigns and Billing,*)
(* for any number of schools, names, owners, payments and handlers.        *)
(***************************************************************************)
EXTENDS Billing, Portals, Campaigns, FiniteSetTheorems, TableFacts
-----------------------------------------------------------------------------
(***************************************************************************)
(* Campaigns: an owner gets at most one message for each time the job was  *)
(* cut off, and one more.                                                  *)
(***************************************************************************)

\* What an owner has of a campaign: nothing in this round while the job waits,
\* or while the worker has yet to come to the owner; each earlier round was cut.
RoundOf(c, o) ==
  IF dispatch[c] \in {"none", "waiting"} \/ (dispatch[c] = "active" /\ o \in toSend[c])
  THEN 0 ELSE 1

CampaignInv ==
  /\ CampaignTypeOK
  /\ \A c \in CampaignIds : dispatch[c] \in {"none", "waiting", "active"} => stalls[c] <= 1
  /\ \A c \in CampaignIds, o \in Owners : sent[c][o] <= stalls[c] + RoundOf(c, o)

LEMMA CampaignInitially == CampaignInit => CampaignInv
  BY DEF CampaignInit, CampaignInv, CampaignTypeOK, RoundOf

LEMMA SendOneKeeps ==
  ASSUME CampaignInv, NEW c \in CampaignIds, NEW o \in Owners, SendOne(c, o)
  PROVE  CampaignInv'
<1>1. /\ sent' = [sent EXCEPT ![c] = [sent[c] EXCEPT ![o] = sent[c][o] + 1]]
      /\ toSend' = [toSend EXCEPT ![c] = toSend[c] \ {o}]
      /\ dispatch' = dispatch /\ stalls' = stalls
      /\ dispatch[c] = "active" /\ o \in toSend[c]
      /\ campaign' = campaign /\ emitted' = emitted /\ asks' = asks
  BY DEF SendOne, RowIdle
<1>2. /\ sent \in [CampaignIds -> [Owners -> Nat]] /\ toSend \in [CampaignIds -> SUBSET Owners]
      /\ stalls \in [CampaignIds -> 0 .. 2]
  BY DEF CampaignInv, CampaignTypeOK
<1>3. sent' \in [CampaignIds -> [Owners -> Nat]] /\ toSend' \in [CampaignIds -> SUBSET Owners]
  BY <1>1, <1>2
<1>4. CampaignTypeOK'
  BY <1>1, <1>3 DEF CampaignInv, CampaignTypeOK
<1>5. ASSUME NEW d \in CampaignIds, NEW p \in Owners
      PROVE  sent'[d][p] <= stalls[d] + RoundOf(d, p)'
  <2>1. sent[d][p] <= stalls[d] + RoundOf(d, p)
    BY DEF CampaignInv
  <2>2. CASE d = c /\ p = o
    BY <1>1, <1>2, <2>1, <2>2 DEF RoundOf
  <2>3. CASE d # c \/ p # o
    <3>1. sent'[d][p] = sent[d][p] /\ RoundOf(d, p)' = RoundOf(d, p)
      BY <1>1, <1>2, <2>3 DEF RoundOf
    <3>2. QED
      BY <2>1, <3>1
  <2>4. QED
    BY <2>2, <2>3
<1>6. QED
  BY <1>1, <1>4, <1>5 DEF CampaignInv

\* The worker dies: the round that was cut becomes a stall.
LEMMA WorkerDiesKeeps ==
  ASSUME CampaignInv, WorkerDies
  PROVE  CampaignInv'
<1>1. /\ sent \in [CampaignIds -> [Owners -> Nat]] /\ toSend \in [CampaignIds -> SUBSET Owners]
      /\ stalls \in [CampaignIds -> 0 .. 2]
      /\ dispatch \in [CampaignIds -> {"none", "waiting", "active", "done", "failed"}]
  BY DEF CampaignInv, CampaignTypeOK
<1>2. ASSUME NEW d \in CampaignIds
      PROVE  /\ stalls'[d] = stalls[d] + IF dispatch[d] = "active" THEN 1 ELSE 0
             /\ dispatch'[d] = IF dispatch[d] # "active" THEN dispatch[d]
                               ELSE IF stalls[d] = 0 THEN "waiting" ELSE "failed"
             /\ toSend'[d] = IF dispatch[d] = "active" THEN {} ELSE toSend[d]
  BY DEF WorkerDies
<1>3. ASSUME NEW d \in CampaignIds
      PROVE  /\ stalls'[d] \in 0 .. 2
             /\ dispatch'[d] \in {"none", "waiting", "active", "done", "failed"}
             /\ toSend'[d] \in SUBSET Owners
             /\ dispatch'[d] \in {"none", "waiting", "active"} => stalls'[d] <= 1
  BY <1>1, <1>2 DEF CampaignInv
<1>4. CampaignTypeOK'
  <2>1. /\ emitted' = [c \in CampaignIds |-> 0]
        /\ campaign' = campaign /\ sent' = sent /\ asks' = asks
    BY DEF WorkerDies
  <2>2. /\ stalls' = [d \in CampaignIds |-> stalls'[d]]
        /\ dispatch' = [d \in CampaignIds |-> dispatch'[d]]
        /\ toSend' = [d \in CampaignIds |-> toSend'[d]]
    BY DEF WorkerDies
  <2>3. QED
    BY <1>3, <2>1, <2>2 DEF CampaignInv, CampaignTypeOK
<1>5. ASSUME NEW d \in CampaignIds, NEW p \in Owners
      PROVE  sent'[d][p] <= stalls'[d] + RoundOf(d, p)'
  <2>1. sent[d][p] <= stalls[d] + RoundOf(d, p) /\ sent' = sent
    BY DEF CampaignInv, WorkerDies
  <2>2. CASE dispatch[d] = "active"
    BY <1>1, <1>2, <2>1, <2>2 DEF RoundOf
  <2>3. CASE dispatch[d] # "active"
    BY <1>1, <1>2, <2>1, <2>3 DEF RoundOf
  <2>4. QED
    BY <2>2, <2>3
<1>6. QED
  BY <1>3, <1>4, <1>5 DEF CampaignInv

\* The job of one campaign goes from one status to the next, nothing is sent.
LEMMA DispatchKeeps ==
  ASSUME CampaignInv, NEW c \in CampaignIds, NEW v,
         SetDispatch(c, v) \/ UNCHANGED dispatch,
         \/ dispatch[c] = "none" /\ v = "waiting"
         \/ dispatch[c] = "waiting" /\ v \in {"active", "done"}
         \/ dispatch[c] = "active" /\ v \in {"done", "failed"},
         toSend' \in [CampaignIds -> SUBSET Owners],
         \A d \in CampaignIds : d # c => toSend'[d] = toSend[d],
         dispatch' = dispatch => toSend' = toSend,
         UNCHANGED <<sent, stalls, asks>>,
         campaign' \in [CampaignIds -> {"none", "DRAFT", "ACTIVE", "COMPLETED", "gone"}],
         emitted' \in [CampaignIds -> Nat]
  PROVE  CampaignInv'
<1>1. /\ sent \in [CampaignIds -> [Owners -> Nat]] /\ stalls \in [CampaignIds -> 0 .. 2]
      /\ dispatch \in [CampaignIds -> {"none", "waiting", "active", "done", "failed"}]
  BY DEF CampaignInv, CampaignTypeOK
<1>2. /\ dispatch' \in [CampaignIds -> {"none", "waiting", "active", "done", "failed"}]
      /\ \A d \in CampaignIds : d # c => dispatch'[d] = dispatch[d]
      /\ dispatch' = dispatch \/ dispatch'[c] = v
  BY <1>1 DEF SetDispatch
<1>3. CampaignTypeOK'
  BY <1>2 DEF CampaignInv, CampaignTypeOK
<1>4. ASSUME NEW d \in CampaignIds
      PROVE  dispatch'[d] \in {"none", "waiting", "active"} => stalls[d] <= 1
  BY <1>2 DEF CampaignInv
<1>5. ASSUME NEW d \in CampaignIds, NEW p \in Owners
      PROVE  sent[d][p] <= stalls[d] + RoundOf(d, p)'
  <2>1. sent[d][p] <= stalls[d] + RoundOf(d, p) /\ sent[d][p] \in Nat /\ stalls[d] \in Nat
    BY <1>1 DEF CampaignInv
  <2>2. RoundOf(d, p)' = RoundOf(d, p) \/ (RoundOf(d, p) = 0 /\ RoundOf(d, p)' = 1)
    <3>1. CASE d # c \/ dispatch' = dispatch
      BY <3>1, <1>2 DEF RoundOf
    <3>2. CASE d = c /\ dispatch'[c] = v
      BY <3>2 DEF RoundOf
    <3>3. QED
      BY <3>1, <3>2, <1>2
  <2>3. QED
    BY <2>1, <2>2
<1>6. QED
  BY <1>3, <1>4, <1>5 DEF CampaignInv

LEMMA CampaignStep == CampaignInv /\ [CampaignNext]_campaignVars => CampaignInv'
<1> SUFFICES ASSUME CampaignInv, [CampaignNext]_campaignVars PROVE CampaignInv'
  OBVIOUS
<1> USE DEF CampaignInv
<1>1. CASE UNCHANGED campaignVars
  BY <1>1 DEF campaignVars, CampaignTypeOK, RoundOf
<1>2. ASSUME NEW c \in CampaignIds,
             \/ \E v \in {"DRAFT", "ACTIVE"} : CreateCampaign(c, v)
             \/ ActivateCampaign(c) \/ DeleteCampaign(c)
      PROVE  CampaignInv'
  <2>1. /\ QueueIdle /\ Asked /\ (Emit(c) \/ UNCHANGED emitted)
        /\ \E v \in {"DRAFT", "ACTIVE", "gone"} : SetCampaign(c, v)
    BY <1>2 DEF CreateCampaign, ActivateCampaign, DeleteCampaign
  <2>2. campaign' \in [CampaignIds -> {"none", "DRAFT", "ACTIVE", "COMPLETED", "gone"}]
    BY <2>1 DEF SetCampaign, CampaignTypeOK
  <2>3. emitted' \in [CampaignIds -> Nat] /\ asks' \in Nat
    BY <2>1 DEF Emit, Asked, CampaignTypeOK
  <2>4. QED
    BY <2>1, <2>2, <2>3 DEF QueueIdle, RoundOf, CampaignTypeOK
<1> HIDE DEF CampaignInv
<1>3. ASSUME NEW c \in CampaignIds, QueueDispatch(c) PROVE CampaignInv'
  <2>1. CampaignTypeOK /\ emitted' = [emitted EXCEPT ![c] = @ - 1] /\ emitted[c] > 0
        /\ UNCHANGED <<campaign, toSend, sent, stalls, asks>>
    BY <1>3 DEF QueueDispatch, CampaignInv
  <2>2. emitted' \in [CampaignIds -> Nat]
    BY <2>1 DEF CampaignTypeOK
  <2>3. CASE campaign[c] # "gone" /\ dispatch[c] = "none"
    BY <1>3, <2>1, <2>2, <2>3, DispatchKeeps DEF QueueDispatch, CampaignTypeOK
  <2>4. CASE ~(campaign[c] # "gone" /\ dispatch[c] = "none")
    <3>1. dispatch' = dispatch
      BY <1>3, <2>4 DEF QueueDispatch
    <3>2. QED
      BY <2>1, <2>2, <3>1 DEF CampaignInv, CampaignTypeOK, RoundOf
  <2>5. QED
    BY <2>3, <2>4
<1>4. ASSUME NEW c \in CampaignIds, NEW T \in SUBSET Owners, TakeDispatch(c, T)
      PROVE  CampaignInv'
  <2>1. toSend \in [CampaignIds -> SUBSET Owners] /\ CampaignTypeOK
    BY DEF CampaignInv, CampaignTypeOK
  <2>2. dispatch[c] = "waiting" /\ UNCHANGED <<sent, stalls, asks, campaign, emitted>>
    BY <1>4 DEF TakeDispatch, RowIdle
  <2>3. CASE campaign[c] = "ACTIVE"
    <3>1. SetDispatch(c, "active") /\ toSend' = [toSend EXCEPT ![c] = T]
      BY <1>4, <2>3 DEF TakeDispatch
    <3>2. dispatch' # dispatch
      BY <2>1, <2>2, <3>1 DEF CampaignTypeOK, SetDispatch
    <3>3. QED
      BY <2>1, <2>2, <3>1, <3>2, DispatchKeeps DEF CampaignTypeOK
  <2>4. CASE campaign[c] # "ACTIVE"
    <3>1. SetDispatch(c, "done") /\ toSend' = toSend
      BY <1>4, <2>4 DEF TakeDispatch
    <3>2. QED
      BY <2>1, <2>2, <3>1, DispatchKeeps DEF CampaignTypeOK
  <2>5. QED
    BY <2>3, <2>4
<1>5. ASSUME NEW c \in CampaignIds, CompleteCampaign(c) PROVE CampaignInv'
  <2>1. CampaignTypeOK /\ dispatch[c] = "active"
        /\ UNCHANGED <<toSend, sent, stalls, emitted, asks>>
    BY <1>5 DEF CompleteCampaign, CampaignInv
  <2>2. campaign' \in [CampaignIds -> {"none", "DRAFT", "ACTIVE", "COMPLETED", "gone"}]
    BY <1>5, <2>1 DEF CompleteCampaign, SetCampaign, CampaignTypeOK
  <2>3. PICK v \in {"done", "failed"} : SetDispatch(c, v)
    BY <1>5 DEF CompleteCampaign
  <2>4. QED
    BY <2>1, <2>2, <2>3, DispatchKeeps DEF CampaignTypeOK
<1>6. ASSUME NEW c \in CampaignIds, DispatchFails(c) PROVE CampaignInv'
  <2>1. /\ CampaignTypeOK /\ dispatch[c] = "active" /\ SetDispatch(c, "failed")
        /\ toSend' = [toSend EXCEPT ![c] = {}]
        /\ UNCHANGED <<sent, stalls, emitted, asks, campaign>>
    BY <1>6 DEF DispatchFails, RowIdle, CampaignInv
  <2>2. dispatch' # dispatch
    BY <2>1 DEF CampaignTypeOK, SetDispatch
  <2>3. QED
    BY <2>1, <2>2, DispatchKeeps DEF CampaignTypeOK
<1>7. QED
  BY <1>1, <1>2, <1>3, <1>4, <1>5, <1>6, SendOneKeeps, WorkerDiesKeeps DEF CampaignNext

LEMMA CampaignInvariant == CampaignSpec => []CampaignInv
  BY CampaignInitially, CampaignStep, PTL DEF CampaignSpec

\* However often a campaign is activated, an owner gets it once, and once more
\* for each time the worker of its job died.
THEOREM CampaignSentOnce == CampaignSpec => []SentOnce
<1>1. CampaignInv => SentOnce
  <2> SUFFICES ASSUME CampaignInv, NEW c \in CampaignIds, NEW o \in Owners
               PROVE  sent[c][o] <= 1 + stalls[c]
    BY DEF SentOnce
  <2>1. RoundOf(c, o) \in {0, 1} /\ sent[c][o] \in Nat /\ stalls[c] \in 0 .. 2
    BY DEF RoundOf, CampaignInv, CampaignTypeOK
  <2>2. QED
    BY <2>1 DEF CampaignInv
<1>2. QED
  BY <1>1, CampaignInvariant, PTL
-----------------------------------------------------------------------------
(***************************************************************************)
(* Portals: the address a school shows is its own, and no other school has *)
(* it.                                                                     *)
(***************************************************************************)

\* What an errand is at its step, whatever overlaps.
ErrandSound(e) ==
  /\ e.at = "ensure" => e.kind \in {"create", "ensure", "verify"}
  /\ e.at \in {"release", "school", "redirect"} => e.kind # "reject" /\ e.want # NoSlug
  /\ e.at = "keep" => e.kind = "rename" /\ e.want # NoSlug
  /\ e.at = "write" => e.kind \in {"create", "ensure", "verify", "rename"} /\ e.want # NoSlug
  /\ e.at = "insert" => e.kind = "register"
  /\ e.at \in {"approve", "lock"} => e.kind \in {"create", "verify"}
  /\ e.at \in {"deny", "hold"} => e.kind = "reject"
  /\ e.kind \in {"register", "rename"} => e.rest = << >>

\* What an errand has read or looked up is still so, when none meets the super
\* admin's or one for the same school.
ErrandHolds(e) ==
  /\ e.kind = "register" => status[e.school] = "none"
  /\ e.kind = "reject" => status[e.school] # "VERIFIED"
  /\ e.kind \in {"create", "ensure", "verify"} /\ e.at \in {"release", "school", "redirect", "write"}
       => slug[e.school] = NoSlug
  /\ e.kind = "rename" =>
       slug[e.school] = e.old \/ (status[e.school] = "REJECTED" /\ e.old = e.want)
  /\ e.at \in {"keep", "write", "insert"} /\ e.want # NoSlug =>
       redirect[e.want] \in {NoSchool, e.school}
  /\ e.at = "keep" => e.old \notin {NoSlug, e.want}
  /\ e.at = "write" /\ e.kind = "rename" /\ e.old \notin {NoSlug, e.want} =>
       redirect[e.old] = e.school

Apart ==
  \A c, d \in Busy : c # d =>
    ~OfAdmin(errand[c].kind) /\ ~OfAdmin(errand[d].kind) /\ errand[c].school # errand[d].school

\* An address has one school, and is not the former one of another.
SlugUnique == \A s, t \in Schools : slug[s] # NoSlug /\ slug[s] = slug[t] => s = t
Agreed == \A s \in Schools : slug[s] # NoSlug => redirect[slug[s]] \in {NoSchool, s}

\* A school that an address shows, or would but for another, and the schools it
\* ever showed, still do.
Owns(x, s) == status[s] = "VERIFIED" /\ (slug[s] = x \/ redirect[x] = s)
ShownKept == \A x \in Slugs : \A s \in shown[x] : Owns(x, s)

PortalInv ==
  /\ PortalTypeOK /\ SlugUnique
  /\ \A c \in Busy : ErrandSound(errand[c])
  /\ orderly => Apart /\ Agreed /\ ShownKept /\ \A c \in Busy : ErrandHolds(errand[c])
-----------------------------------------------------------------------------
\* What is known of an errand in flight.
LEMMA ErrandKnown ==
  ASSUME PortalInv, NEW c \in Clerks, errand[c] # NoErrand
  PROVE  /\ c \in Busy /\ errand[c] \in Errand /\ errand \in [Clerks -> Errand \cup {NoErrand}]
         /\ errand[c].kind \in Kinds /\ errand[c].at \in Steps /\ errand[c].school \in Schools
         /\ errand[c].want \in Slugs \cup {NoSlug} /\ errand[c].old \in Slugs \cup {NoSlug}
         /\ errand[c].rest \in Seq(Slugs)
         /\ ErrandSound(errand[c])
         /\ orderly => ErrandHolds(errand[c])
<1>1. c \in Busy /\ errand[c] \in Errand /\ errand \in [Clerks -> Errand \cup {NoErrand}]
  BY DEF PortalInv, PortalTypeOK, Busy
<1>2. QED
  BY <1>1 DEF PortalInv, Errand

LEMMA ErrandBusy == \A e \in Errand : e # NoErrand
  BY DEF Errand, NoErrand, Kinds

LEMMA RowsKnown ==
  ASSUME PortalInv
  PROVE  /\ status \in [Schools -> {"none", "UNAPPROVED", "VERIFIED", "REJECTED"}]
         /\ slug \in [Schools -> Slugs \cup {NoSlug}]
         /\ hold \in [Schools -> {"none", "held", "over"}]
         /\ redirect \in [Slugs -> Schools \cup {NoSchool}]
         /\ errands \in Nat /\ orderly \in BOOLEAN /\ shown \in [Slugs -> SUBSET Schools]
         /\ SlugUnique
         /\ orderly => Apart /\ Agreed /\ ShownKept
  BY DEF PortalInv, PortalTypeOK

\* What is shown is what was or what is resolved now.
LEMMA ShownMoves ==
  ASSUME PortalInv, shown' = [x \in Slugs |-> shown[x] \cup Resolve(x)'],
         orderly, \A x \in Slugs, s \in Schools : Owns(x, s) => Owns(x, s)'
  PROVE  ShownKept'
<1> SUFFICES ASSUME NEW x \in Slugs, NEW s \in shown'[x] PROVE Owns(x, s)'
  BY DEF ShownKept
<1>1. s \in shown[x] \cup Resolve(x)' /\ shown[x] \subseteq Schools
  BY RowsKnown
<1>2. CASE s \in shown[x]
  BY <1>1, <1>2, RowsKnown DEF ShownKept
<1>3. CASE s \in Resolve(x)'
  BY <1>3 DEF Resolve, Holders, Owns
<1>4. QED
  BY <1>1, <1>2, <1>3

LEMMA ShownTyped ==
  ASSUME PortalInv, shown' = [x \in Slugs |-> shown[x] \cup Resolve(x)']
  PROVE  shown' \in [Slugs -> SUBSET Schools]
<1>1. ASSUME NEW x \in Slugs PROVE shown[x] \cup Resolve(x)' \subseteq Schools
  BY RowsKnown DEF Resolve, Holders
<1>2. QED
  BY <1>1

\* A step of one errand that writes nothing of another school's but the end of a hold.
LEMMA WorkKeeps ==
  ASSUME PortalInv, NEW c \in Clerks, errand[c] # NoErrand,
         UNCHANGED <<errands, orderly>>,
         errand' = [errand EXCEPT ![c] = errand'[c]],
         \/ errand'[c] = NoErrand
         \/ /\ errand'[c] \in Errand
            /\ errand'[c].kind = errand[c].kind /\ errand'[c].school = errand[c].school
            /\ ErrandSound(errand[c])'
            /\ orderly => ErrandHolds(errand[c])',
         status' \in [Schools -> {"none", "UNAPPROVED", "VERIFIED", "REJECTED"}],
         slug' \in [Schools -> Slugs \cup {NoSlug}],
         hold' \in [Schools -> {"none", "held", "over"}],
         redirect' \in [Slugs -> Schools \cup {NoSchool}],
         shown' = [x \in Slugs |-> shown[x] \cup Resolve(x)'],
         SlugUnique',
         orderly => Agreed',
         orderly => \A x \in Slugs, s \in Schools : Owns(x, s) => Owns(x, s)',
         \A s \in Schools \ {errand[c].school} :
           status'[s] = status[s] /\ slug'[s] \in {slug[s], NoSlug},
         redirect' = redirect \/ OfAdmin(errand[c].kind)
  PROVE  PortalInv'
<1>1. /\ errand \in [Clerks -> Errand \cup {NoErrand}]
      /\ errand'[c] \in Errand \cup {NoErrand}
      /\ errand' \in [Clerks -> Errand \cup {NoErrand}]
      /\ \A d \in Clerks : d # c => errand'[d] = errand[d]
      /\ Busy' \subseteq Busy /\ c \in Busy
  BY ErrandKnown DEF Busy
<1>2. PortalTypeOK'
  BY <1>1, ShownTyped, RowsKnown DEF PortalTypeOK
<1>3. ASSUME NEW d \in Busy' PROVE ErrandSound(errand[d])'
  <2>1. CASE d = c
    BY <2>1 DEF Busy
  <2>2. CASE d # c
    <3>1. errand'[d] = errand[d] /\ ErrandSound(errand[d])
      BY <1>1, <2>2 DEF PortalInv, Busy
    <3>2. QED
      BY <3>1 DEF ErrandSound
  <2>3. QED
    BY <2>1, <2>2
<1>4. ASSUME orderly PROVE Apart' /\ \A d \in Busy' : ErrandHolds(errand[d])'
  <2>1. Apart /\ \A d \in Busy : ErrandHolds(errand[d])
    BY <1>4 DEF PortalInv
  <2>2. \A d \in Busy' : errand'[d].kind = errand[d].kind /\ errand'[d].school = errand[d].school
    BY <1>1 DEF Busy
  <2>3. Apart'
    BY <1>1, <2>1, <2>2 DEF Apart
  <2>4. ASSUME NEW d \in Busy', d # c PROVE ErrandHolds(errand[d])'
    <3>1. /\ errand'[d] = errand[d] /\ ErrandHolds(errand[d])
          /\ errand[d] \in Errand
          /\ ~OfAdmin(errand[d].kind) /\ ~OfAdmin(errand[c].kind)
          /\ errand[d].school # errand[c].school
      BY <1>1, <2>1, <2>4 DEF Apart, Busy
    <3>2. /\ errand[d].school \in Schools /\ redirect' = redirect
      BY <3>1 DEF Errand
    <3>3. /\ status'[errand[d].school] = status[errand[d].school]
          /\ slug'[errand[d].school] \in {slug[errand[d].school], NoSlug}
      BY <3>1, <3>2
    <3>4. QED
      BY <3>1, <3>2, <3>3 DEF ErrandHolds, OfAdmin
  <2>5. ASSUME NEW d \in Busy', d = c PROVE ErrandHolds(errand[d])'
    BY <1>4, <2>5 DEF Busy
  <2>6. QED
    BY <2>3, <2>4, <2>5
<1>5. orderly => ShownKept'
  BY ShownMoves
<1>6. QED
  BY <1>2, <1>3, <1>4, <1>5 DEF PortalInv

\* The same, when it writes no row.
LEMMA LooksKeeps ==
  ASSUME PortalInv, NEW c \in Clerks, errand[c] # NoErrand, NoRow, Same,
         errand' = [errand EXCEPT ![c] = errand'[c]],
         \/ errand'[c] = NoErrand
         \/ /\ errand'[c] \in Errand
            /\ errand'[c].kind = errand[c].kind /\ errand'[c].school = errand[c].school
            /\ ErrandSound(errand[c])'
            /\ orderly => ErrandHolds(errand[c])',
         shown' = [x \in Slugs |-> shown[x] \cup Resolve(x)']
  PROVE  PortalInv'
<1>1. UNCHANGED <<status, slug, hold, redirect, errands, orderly>>
  BY DEF NoRow, Same
<1>2. SlugUnique' /\ (orderly => Agreed')
  BY <1>1, RowsKnown DEF SlugUnique, Agreed
<1>3. \A x \in Slugs, s \in Schools : Owns(x, s) => Owns(x, s)'
  BY <1>1 DEF Owns
<1>4. QED
  BY <1>1, <1>2, <1>3, RowsKnown, WorkKeeps
-----------------------------------------------------------------------------
\* How an errand goes on.
LEMMA ProceedMoves ==
  ASSUME PortalInv, NEW c \in Clerks, errand[c] # NoErrand, NEW step \in Steps,
         Proceed(c, step)
  PROVE  /\ errand' = [errand EXCEPT ![c] = errand'[c]] /\ errand'[c] \in Errand
         /\ errand'[c].kind = errand[c].kind /\ errand'[c].school = errand[c].school
         /\ errand'[c].at = step /\ errand'[c].want = errand[c].want
         /\ errand'[c].old = errand[c].old /\ errand'[c].rest = errand[c].rest
<1>1. errand'[c] = [errand[c] EXCEPT !.at = step] /\ errand' = [errand EXCEPT ![c] = errand'[c]]
  BY ErrandKnown DEF Proceed
<1>2. errand[c] \in Errand
  BY ErrandKnown
<1>3. QED
  BY <1>1, <1>2 DEF Errand

LEMMA LeaveMoves ==
  ASSUME PortalInv, NEW c \in Clerks, errand[c] # NoErrand, Leave(c)
  PROVE  errand' = [errand EXCEPT ![c] = errand'[c]] /\ errand'[c] = NoErrand
  BY ErrandKnown DEF Leave

\* The next candidate.
LEMMA NextNameMoves ==
  ASSUME PortalInv, NEW c \in Clerks, errand[c] # NoErrand,
         NEW names \in Seq(Slugs), names # << >>,
         errand' = [errand EXCEPT ![c].at = "release", ![c].want = Head(names),
                                  ![c].rest = Tail(names)]
  PROVE  /\ errand' = [errand EXCEPT ![c] = errand'[c]] /\ errand'[c] \in Errand
         /\ errand'[c].kind = errand[c].kind /\ errand'[c].school = errand[c].school
         /\ errand'[c].at = "release" /\ errand'[c].want \in Slugs
         /\ errand'[c].old = errand[c].old
<1> DEFINE e == errand[c]
           f == [e EXCEPT !.at = "release"]
           g == [f EXCEPT !.want = Head(names)]
<1>1. Head(names) \in Slugs /\ Tail(names) \in Seq(Slugs)
  OBVIOUS
<1>2. f \in Errand /\ f.kind = e.kind /\ f.school = e.school /\ f.at = "release" /\ f.old = e.old
  BY ErrandKnown DEF Errand, Steps
<1>3. g \in Errand /\ g.kind = e.kind /\ g.school = e.school /\ g.at = "release"
      /\ g.old = e.old /\ g.want \in Slugs
  <2> HIDE DEF e, f
  <2>1. QED
    BY <1>1, <1>2 DEF Errand
<1> DEFINE r == Tail(names)
           h == [g EXCEPT !.rest = r]
<1>4. errand'[c] = h /\ errand' = [errand EXCEPT ![c] = errand'[c]]
  BY ErrandKnown
<1>5. /\ h \in Errand /\ h.kind = e.kind /\ h.school = e.school
      /\ h.at = "release" /\ h.old = e.old /\ h.want \in Slugs
  <2> HIDE DEF e, g, r
  <2>1. r \in Seq(Slugs)
    BY <1>1 DEF r
  <2>2. QED
    BY <1>3, <2>1 DEF Errand
<1>6. QED
  <2> HIDE DEF h
  <2>1. QED
    BY <1>4, <1>5

LEMMA RefuseMoves ==
  ASSUME PortalInv, NEW c \in Clerks, errand[c] # NoErrand, Refuse(c)
  PROVE  /\ errand' = [errand EXCEPT ![c] = errand'[c]]
         /\ \/ errand'[c] = NoErrand
            \/ /\ errand[c].rest # << >> /\ errand'[c] \in Errand
               /\ errand'[c].kind = errand[c].kind /\ errand'[c].school = errand[c].school
               /\ errand'[c].at = "release" /\ errand'[c].want \in Slugs
               /\ errand'[c].old = errand[c].old
<1>1. CASE errand[c].rest = << >>
  BY <1>1, LeaveMoves DEF Refuse
<1>2. CASE errand[c].rest # << >>
  <2>1. errand[c].rest \in Seq(Slugs)
    BY ErrandKnown
  <2>2. QED
    BY <1>2, <2>1, NextNameMoves DEF Refuse
<1>3. QED
  BY <1>1, <1>2

\* Another name, or none: the errand is as it was before the lookups.
LEMMA RefuseKeeps ==
  ASSUME PortalInv, NEW c \in Clerks, errand[c] # NoErrand, Refuse(c), NoRow, Same,
         errand[c].at \in {"school", "redirect"},
         shown' = [x \in Slugs |-> shown[x] \cup Resolve(x)']
  PROVE  PortalInv'
<1>1. NoSlug \notin Slugs
  BY PortalsAssumption
<1>2. CASE errand'[c] = NoErrand
  BY <1>2, RefuseMoves, LooksKeeps
<1>3. CASE errand'[c] # NoErrand
  <2>1. /\ errand[c].rest # << >> /\ errand'[c] \in Errand
        /\ errand'[c].kind = errand[c].kind /\ errand'[c].school = errand[c].school
        /\ errand'[c].at = "release" /\ errand'[c].want \in Slugs
        /\ errand' = [errand EXCEPT ![c] = errand'[c]]
    BY <1>3, RefuseMoves
  <2>2. ErrandSound(errand[c]) /\ (orderly => ErrandHolds(errand[c]))
    BY ErrandKnown
  <2>3. ErrandSound(errand[c])'
    BY <1>1, <2>1, <2>2 DEF ErrandSound
  <2>4. orderly => ErrandHolds(errand[c])'
    BY <2>1, <2>2 DEF ErrandHolds, ErrandSound, NoRow
  <2>5. QED
    BY <2>1, <2>3, <2>4, LooksKeeps
<1>4. QED
  BY <1>2, <1>3

LEMMA LookAtSchoolsKeeps ==
  ASSUME PortalInv, NEW c \in Clerks, LookAtSchools(c),
         shown' = [x \in Slugs |-> shown[x] \cup Resolve(x)']
  PROVE  PortalInv'
<1>1. errand[c] # NoErrand /\ errand[c].at = "school" /\ NoRow /\ Same
      /\ (Proceed(c, "redirect") \/ Refuse(c))
  BY DEF LookAtSchools, At
<1>2. CASE Proceed(c, "redirect")
  <2>1. /\ errand'[c] \in Errand /\ errand' = [errand EXCEPT ![c] = errand'[c]]
        /\ errand'[c].kind = errand[c].kind /\ errand'[c].school = errand[c].school
        /\ errand'[c].at = "redirect" /\ errand'[c].want = errand[c].want
        /\ errand'[c].old = errand[c].old /\ errand'[c].rest = errand[c].rest
    BY <1>1, <1>2, ProceedMoves DEF Steps
  <2>2. ErrandSound(errand[c]) /\ (orderly => ErrandHolds(errand[c]))
    BY <1>1, ErrandKnown
  <2>3. ErrandSound(errand[c])' /\ (orderly => ErrandHolds(errand[c])')
    BY <1>1, <2>1, <2>2 DEF ErrandSound, ErrandHolds, NoRow
  <2>4. QED
    BY <1>1, <2>1, <2>3, LooksKeeps
<1>3. CASE Refuse(c)
  BY <1>1, <1>3, RefuseKeeps
<1>4. QED
  BY <1>1, <1>2, <1>3

LEMMA LookAtRedirectsKeeps ==
  ASSUME PortalInv, NEW c \in Clerks, LookAtRedirects(c),
         shown' = [x \in Slugs |-> shown[x] \cup Resolve(x)']
  PROVE  PortalInv'
<1> DEFINE e == errand[c]
           step == CASE e.kind = "register" -> "insert"
                     [] e.kind = "rename" /\ e.old \notin {NoSlug, e.want} -> "keep"
                     [] OTHER -> "write"
<1>1. /\ errand[c] # NoErrand /\ e.at = "redirect" /\ NoRow /\ Same
      /\ IF redirect[e.want] \notin {NoSchool, e.school} THEN Refuse(c) ELSE Proceed(c, step)
  BY DEF LookAtRedirects, At
<1>2. CASE Refuse(c)
  BY <1>1, <1>2, RefuseKeeps
<1>3. CASE Proceed(c, step) /\ redirect[e.want] \in {NoSchool, e.school}
  <2>1. /\ step \in {"insert", "keep", "write"} /\ step \in Steps
        /\ step = "insert" <=> e.kind = "register"
        /\ step = "keep" <=> e.kind = "rename" /\ e.old \notin {NoSlug, e.want}
    BY DEF Steps
  <2> HIDE DEF step
  <2>2. /\ errand'[c] \in Errand /\ errand' = [errand EXCEPT ![c] = errand'[c]]
        /\ errand'[c].kind = e.kind /\ errand'[c].school = e.school
        /\ errand'[c].at = step /\ errand'[c].want = e.want
        /\ errand'[c].old = e.old /\ errand'[c].rest = e.rest
    BY <1>1, <1>3, <2>1, ProceedMoves
  <2>3. ErrandSound(errand[c]) /\ (orderly => ErrandHolds(errand[c])) /\ e.kind \in Kinds
    BY <1>1, ErrandKnown
  <2>4. ErrandSound(errand[c])'
    BY <1>1, <2>1, <2>2, <2>3 DEF ErrandSound, Kinds
  <2>5. orderly => ErrandHolds(errand[c])'
    BY <1>1, <1>3, <2>1, <2>2, <2>3 DEF ErrandHolds, NoRow
  <2>6. QED
    BY <1>1, <2>2, <2>4, <2>5, LooksKeeps
<1>4. QED
  BY <1>1, <1>2, <1>3

\* What follows on the address needs nothing of it any more.
LEMMA AfterSlugMoves ==
  ASSUME PortalInv, NEW c \in Clerks, errand[c] # NoErrand, Onward(c, errand[c].kind),
         errand[c].kind \in {"create", "ensure", "verify", "rename"}
  PROVE  /\ errand' = [errand EXCEPT ![c] = errand'[c]]
         /\ \/ errand'[c] = NoErrand
            \/ /\ errand'[c] \in Errand
               /\ errand'[c].kind = errand[c].kind /\ errand'[c].school = errand[c].school
               /\ errand'[c].at \in {"approve", "lock"}
               /\ errand'[c].kind \in {"create", "verify"}
<1>1. CASE errand[c].kind \in {"ensure", "rename"}
  BY <1>1, LeaveMoves DEF Onward, AfterSlug
<1>2. CASE errand[c].kind = "verify"
  <2>1. Proceed(c, "approve") /\ "approve" \in Steps
    BY <1>2 DEF Onward, AfterSlug, Steps
  <2>2. QED
    BY <1>2, <2>1, ProceedMoves
<1>3. CASE errand[c].kind = "create"
  <2>1. Proceed(c, "lock") /\ "lock" \in Steps
    BY <1>3 DEF Onward, AfterSlug, Steps
  <2>2. QED
    BY <1>3, <2>1, ProceedMoves
<1>4. QED
  BY <1>1, <1>2, <1>3

LEMMA EnsureSlugKeeps ==
  ASSUME PortalInv, NEW c \in Clerks, EnsureSlug(c),
         shown' = [x \in Slugs |-> shown[x] \cup Resolve(x)']
  PROVE  PortalInv'
<1> DEFINE names == NamedAfter[errand[c].school]
<1>1. errand[c] # NoErrand /\ errand[c].at = "ensure" /\ NoRow /\ Same
  BY DEF EnsureSlug, At
<1>2. ErrandSound(errand[c]) /\ (orderly => ErrandHolds(errand[c]))
      /\ errand[c].school \in Schools
  BY <1>1, ErrandKnown
<1>3. errand[c].kind \in {"create", "ensure", "verify"}
  BY <1>1, <1>2 DEF ErrandSound
<1>4. CASE slug[errand[c].school] # NoSlug
  <2>1. Onward(c, errand[c].kind)
    BY <1>4 DEF EnsureSlug
  <2>2. CASE errand'[c] = NoErrand
    BY <1>1, <1>3, <2>1, <2>2, AfterSlugMoves, LooksKeeps
  <2>3. CASE errand'[c] # NoErrand
    <3>1. /\ errand' = [errand EXCEPT ![c] = errand'[c]] /\ errand'[c] \in Errand
          /\ errand'[c].kind = errand[c].kind /\ errand'[c].school = errand[c].school
          /\ errand'[c].at \in {"approve", "lock"} /\ errand'[c].kind \in {"create", "verify"}
      BY <1>1, <1>3, <2>1, <2>3, AfterSlugMoves
    <3>2. ErrandSound(errand[c])' /\ ErrandHolds(errand[c])'
      BY <3>1 DEF ErrandSound, ErrandHolds
    <3>3. QED
      BY <1>1, <3>1, <3>2, LooksKeeps
  <2>4. QED
    BY <2>2, <2>3
<1>5. CASE slug[errand[c].school] = NoSlug
  <2>1. names \in Seq(Slugs) /\ names # << >> /\ NoSlug \notin Slugs
    BY <1>2, PortalsAssumption
  <2>2. errand' = [errand EXCEPT ![c].at = "release", ![c].want = Head(names),
                                 ![c].rest = Tail(names)]
    BY <1>5 DEF EnsureSlug
  <2> HIDE DEF names
  <2>3. /\ errand' = [errand EXCEPT ![c] = errand'[c]] /\ errand'[c] \in Errand
        /\ errand'[c].kind = errand[c].kind /\ errand'[c].school = errand[c].school
        /\ errand'[c].at = "release" /\ errand'[c].want \in Slugs
    BY <1>1, <2>1, <2>2, NextNameMoves
  <2>4. ErrandSound(errand[c])'
    BY <1>3, <2>1, <2>3 DEF ErrandSound
  <2>5. orderly => ErrandHolds(errand[c])'
    BY <1>1, <1>3, <1>5, <2>3 DEF ErrandHolds, NoRow
  <2>6. QED
    BY <1>1, <2>3, <2>4, <2>5, LooksKeeps
<1>6. QED
  BY <1>4, <1>5

-----------------------------------------------------------------------------
\* The end of a hold takes nothing from a verified school.
LEMMA ReleaseKeeps ==
  ASSUME PortalInv, NEW c \in Clerks, Release(c),
         shown' = [x \in Slugs |-> shown[x] \cup Resolve(x)']
  PROVE  PortalInv'
<1> DEFINE e == errand[c]
           free == {s \in Holders(e.want) : status[s] = "REJECTED" /\ hold[s] = "over"}
<1>1. /\ errand[c] # NoErrand /\ e.at = "release" /\ Proceed(c, "school")
      /\ slug' = [s \in Schools |-> IF s \in free THEN NoSlug ELSE slug[s]]
      /\ hold' = [s \in Schools |-> IF s \in free THEN "none" ELSE hold[s]]
      /\ UNCHANGED <<status, redirect, errands, orderly>>
  BY DEF Release, At, Same
<1>2. /\ errand'[c] \in Errand /\ errand' = [errand EXCEPT ![c] = errand'[c]]
      /\ errand'[c].kind = e.kind /\ errand'[c].school = e.school
      /\ errand'[c].at = "school" /\ errand'[c].want = e.want
      /\ errand'[c].old = e.old /\ errand'[c].rest = e.rest
  BY <1>1, ProceedMoves DEF Steps
<1>3. ErrandSound(errand[c]) /\ (orderly => ErrandHolds(errand[c])) /\ e.school \in Schools
      /\ e.want # NoSlug
  <2>1. ErrandSound(errand[c]) /\ (orderly => ErrandHolds(errand[c])) /\ e.school \in Schools
    BY <1>1, ErrandKnown
  <2>2. QED
    BY <1>1, <2>1 DEF ErrandSound
<1>4. /\ slug' \in [Schools -> Slugs \cup {NoSlug}]
      /\ hold' \in [Schools -> {"none", "held", "over"}]
  BY <1>1, RowsKnown
<1>5. \A s \in Schools :
        /\ slug'[s] \in {slug[s], NoSlug} /\ (status[s] # "REJECTED" => slug'[s] = slug[s])
        /\ slug'[s] # slug[s] => slug[s] = e.want
  BY <1>1 DEF Holders
<1> HIDE DEF free
<1>6. SlugUnique' /\ (orderly => Agreed')
  BY <1>1, <1>5, RowsKnown DEF SlugUnique, Agreed
<1>7. \A x \in Slugs, s \in Schools : Owns(x, s) => Owns(x, s)'
  BY <1>1, <1>5, RowsKnown DEF Owns
<1>8. ErrandSound(errand[c])'
  BY <1>1, <1>2, <1>3 DEF ErrandSound
<1>9. orderly => ErrandHolds(errand[c])'
  BY <1>1, <1>2, <1>3, <1>5 DEF ErrandHolds
<1>10. QED
  BY <1>1, <1>2, <1>4, <1>5, <1>6, <1>7, <1>8, <1>9, RowsKnown, WorkKeeps

\* A school of which the address was not known to be another's gets it.
LEMMA SlugPut ==
  ASSUME PortalInv, NEW s \in Schools, NEW x \in Slugs \cup {NoSlug},
         slug' = [slug EXCEPT ![s] = x], redirect' = redirect,
         x # NoSlug => \A t \in Schools : slug[t] = x => t = s
  PROVE  /\ slug' \in [Schools -> Slugs \cup {NoSlug}] /\ slug'[s] = x
         /\ \A t \in Schools : t # s => slug'[t] = slug[t]
         /\ SlugUnique'
         /\ orderly /\ (x # NoSlug => redirect[x] \in {NoSchool, s}) => Agreed'
<1>1. /\ slug' \in [Schools -> Slugs \cup {NoSlug}] /\ slug'[s] = x
      /\ \A t \in Schools : t # s => slug'[t] = slug[t]
  BY RowsKnown
<1>2. SlugUnique'
  BY <1>1, RowsKnown DEF SlugUnique
<1>3. orderly /\ (x # NoSlug => redirect[x] \in {NoSchool, s}) => Agreed'
  BY <1>1, RowsKnown DEF Agreed
<1>4. QED
  BY <1>1, <1>2, <1>3

LEMMA InsertKeeps ==
  ASSUME PortalInv, NEW c \in Clerks, Insert(c),
         shown' = [x \in Slugs |-> shown[x] \cup Resolve(x)']
  PROVE  PortalInv'
<1> DEFINE e == errand[c]
<1>1. errand[c] # NoErrand /\ e.at = "insert" /\ Leave(c) /\ Same
  BY DEF Insert, At
<1>2. /\ ErrandSound(errand[c]) /\ (orderly => ErrandHolds(errand[c]))
      /\ e.school \in Schools /\ e.want \in Slugs \cup {NoSlug}
  BY <1>1, ErrandKnown
<1>3. errand' = [errand EXCEPT ![c] = errand'[c]] /\ errand'[c] = NoErrand
  BY <1>1, LeaveMoves
<1>4. CASE e.want # NoSlug /\ Holders(e.want) # {}
  <2>1. NoRow
    BY <1>4 DEF Insert
  <2>2. QED
    BY <1>1, <1>3, <2>1, LooksKeeps
<1>5. CASE ~(e.want # NoSlug /\ Holders(e.want) # {})
  <2>1. /\ status' = [status EXCEPT ![e.school] = "UNAPPROVED"]
        /\ slug' = [slug EXCEPT ![e.school] = e.want]
        /\ UNCHANGED <<hold, redirect>>
    BY <1>5 DEF Insert
  <2>2. /\ slug' \in [Schools -> Slugs \cup {NoSlug}] /\ slug'[e.school] = e.want
        /\ \A t \in Schools : t # e.school => slug'[t] = slug[t]
        /\ SlugUnique'
        /\ orderly /\ (e.want # NoSlug => redirect[e.want] \in {NoSchool, e.school}) => Agreed'
    BY <1>2, <1>5, <2>1, SlugPut DEF Holders
  <2>3. orderly => Agreed' /\ status[e.school] = "none"
    BY <1>1, <1>2, <2>2 DEF ErrandSound, ErrandHolds
  <2>4. /\ status' \in [Schools -> {"none", "UNAPPROVED", "VERIFIED", "REJECTED"}]
        /\ \A t \in Schools : t # e.school => status'[t] = status[t]
    BY <2>1, RowsKnown
  <2>5. orderly => \A x \in Slugs, s \in Schools : Owns(x, s) => Owns(x, s)'
    BY <2>1, <2>2, <2>3, <2>4 DEF Owns
  <2>6. QED
    BY <1>1, <1>3, <2>1, <2>2, <2>3, <2>4, <2>5, RowsKnown, WorkKeeps DEF Same
<1>6. QED
  BY <1>4, <1>5

LEMMA WriteSlugKeeps ==
  ASSUME PortalInv, NEW c \in Clerks, WriteSlug(c),
         shown' = [x \in Slugs |-> shown[x] \cup Resolve(x)']
  PROVE  PortalInv'
<1> DEFINE e == errand[c]
<1>1. errand[c] # NoErrand /\ e.at = "write" /\ Same
  BY DEF WriteSlug, At
<1>2. /\ ErrandSound(errand[c]) /\ (orderly => ErrandHolds(errand[c]))
      /\ e.school \in Schools /\ e.want \in Slugs \cup {NoSlug}
      /\ e.kind \in {"create", "ensure", "verify", "rename"} /\ e.want # NoSlug
  <2>1. /\ ErrandSound(errand[c]) /\ (orderly => ErrandHolds(errand[c]))
        /\ e.school \in Schools /\ e.want \in Slugs \cup {NoSlug}
    BY <1>1, ErrandKnown
  <2>2. QED
    BY <1>1, <2>1 DEF ErrandSound
<1>3. CASE Holders(e.want) \ {e.school} # {}
  <2>1. NoRow /\ Leave(c)
    BY <1>3 DEF WriteSlug
  <2>2. QED
    BY <1>1, <2>1, LeaveMoves, LooksKeeps
<1>4. CASE Holders(e.want) \ {e.school} = {}
  <2>1. /\ slug' = [slug EXCEPT ![e.school] = e.want]
        /\ hold' = (IF e.kind = "rename" THEN [hold EXCEPT ![e.school] = "none"] ELSE hold)
        /\ Onward(c, e.kind)
        /\ UNCHANGED <<status, redirect>>
    BY <1>4 DEF WriteSlug
  <2>2. /\ slug' \in [Schools -> Slugs \cup {NoSlug}] /\ slug'[e.school] = e.want
        /\ \A t \in Schools : t # e.school => slug'[t] = slug[t]
        /\ SlugUnique'
        /\ orderly /\ (e.want # NoSlug => redirect[e.want] \in {NoSchool, e.school}) => Agreed'
    BY <1>2, <1>4, <2>1, SlugPut DEF Holders
  <2>3. orderly => Agreed'
    BY <1>1, <1>2, <2>2 DEF ErrandHolds
  <2>4. hold' \in [Schools -> {"none", "held", "over"}]
    BY <2>1, RowsKnown
  <2>5. ASSUME orderly, NEW x \in Slugs, NEW s \in Schools, Owns(x, s) PROVE Owns(x, s)'
    <3>1. ErrandHolds(errand[c]) /\ NoSlug \notin Slugs
      BY <1>2, <2>5, PortalsAssumption
    <3>2. CASE s = e.school /\ slug[s] = x
      <4>1. e.kind = "rename"
        BY <1>1, <1>2, <3>1, <3>2 DEF ErrandHolds
      <4>2. e.old = x
        BY <2>5, <3>1, <3>2, <4>1 DEF ErrandHolds, Owns
      <4>3. e.want = x \/ redirect[x] = s
        BY <1>1, <3>1, <3>2, <4>1, <4>2 DEF ErrandHolds
      <4>4. QED
        BY <2>1, <2>2, <2>5, <3>2, <4>3 DEF Owns
    <3>3. CASE s # e.school \/ slug[s] # x
      BY <2>1, <2>2, <2>5, <3>3 DEF Owns
    <3>4. QED
      BY <3>2, <3>3
  <2>6. /\ errand' = [errand EXCEPT ![c] = errand'[c]]
        /\ \/ errand'[c] = NoErrand
           \/ /\ errand'[c] \in Errand
              /\ errand'[c].kind = e.kind /\ errand'[c].school = e.school
              /\ errand'[c].at \in {"approve", "lock"}
              /\ errand'[c].kind \in {"create", "verify"}
    BY <1>1, <1>2, <2>1, AfterSlugMoves
  <2>7. errand'[c] # NoErrand => ErrandSound(errand[c])' /\ ErrandHolds(errand[c])'
    BY <2>6 DEF ErrandSound, ErrandHolds
  <2>8. QED
    BY <1>1, <2>1, <2>2, <2>3, <2>4, <2>5, <2>6, <2>7, RowsKnown, WorkKeeps DEF Same
<1>5. QED
  BY <1>3, <1>4

LEMMA KeepOldSlugKeeps ==
  ASSUME PortalInv, NEW c \in Clerks, KeepOldSlug(c),
         shown' = [x \in Slugs |-> shown[x] \cup Resolve(x)']
  PROVE  PortalInv'
<1> DEFINE e == errand[c]
<1>1. /\ errand[c] # NoErrand /\ e.at = "keep" /\ Same /\ Proceed(c, "write")
      /\ redirect' = [redirect EXCEPT ![e.old] = e.school]
      /\ UNCHANGED <<status, slug, hold, errands, orderly>>
  BY DEF KeepOldSlug, At, Same
<1>2. /\ ErrandSound(errand[c]) /\ (orderly => ErrandHolds(errand[c]))
      /\ e.school \in Schools /\ e.old \in Slugs \cup {NoSlug}
      /\ e.want \in Slugs \cup {NoSlug}
  BY <1>1, ErrandKnown
<1>3. e.kind = "rename" /\ e.want # NoSlug
  BY <1>1, <1>2 DEF ErrandSound
<1>4. /\ errand'[c] \in Errand /\ errand' = [errand EXCEPT ![c] = errand'[c]]
      /\ errand'[c].kind = e.kind /\ errand'[c].school = e.school
      /\ errand'[c].at = "write" /\ errand'[c].want = e.want
      /\ errand'[c].old = e.old /\ errand'[c].rest = e.rest
  BY <1>1, ProceedMoves DEF Steps
<1>5. redirect' \in [Slugs -> Schools \cup {NoSchool}]
  BY <1>1, <1>2, RowsKnown
<1>6. SlugUnique'
  BY <1>1, RowsKnown DEF SlugUnique
<1>7. ASSUME orderly
      PROVE  /\ Agreed' /\ ErrandHolds(errand[c])'
             /\ \A x \in Slugs, s \in Schools : Owns(x, s) => Owns(x, s)'
  <2>1. /\ ErrandHolds(errand[c]) /\ e.old \in Slugs /\ e.old # e.want /\ slug[e.school] = e.old
        /\ redirect[e.want] \in {NoSchool, e.school}
    BY <1>1, <1>2, <1>3, <1>7 DEF ErrandHolds
  <2>2. SlugUnique /\ Agreed /\ redirect[e.old] \in {NoSchool, e.school} /\ NoSlug \notin Slugs
    BY <1>2, <1>7, <2>1, RowsKnown, PortalsAssumption DEF Agreed
  <2>3. redirect'[e.old] = e.school /\ \A x \in Slugs : x # e.old => redirect'[x] = redirect[x]
    BY <1>1, <2>1, RowsKnown
  <2>4. Agreed'
    <3> SUFFICES ASSUME NEW s \in Schools, slug[s] # NoSlug
                 PROVE  redirect'[slug[s]] \in {NoSchool, s}
      BY <1>1 DEF Agreed
    <3>1. slug[s] \in Slugs
      BY RowsKnown
    <3>2. CASE slug[s] = e.old
      BY <1>2, <2>1, <2>2, <2>3, <3>2 DEF SlugUnique
    <3>3. CASE slug[s] # e.old
      BY <2>2, <2>3, <3>1, <3>3 DEF Agreed
    <3>4. QED
      BY <3>2, <3>3
  <2>5. ErrandHolds(errand[c])'
    BY <1>1, <1>2, <1>3, <1>4, <2>1, <2>3 DEF ErrandHolds
  <2>6. ASSUME NEW x \in Slugs, NEW s \in Schools, Owns(x, s) PROVE Owns(x, s)'
    <3>1. s # NoSchool
      BY PortalsAssumption
    <3>2. CASE x = e.old
      BY <1>1, <2>2, <2>3, <2>6, <3>1, <3>2 DEF Owns
    <3>3. CASE x # e.old
      BY <1>1, <2>3, <2>6, <3>3 DEF Owns
    <3>4. QED
      BY <3>2, <3>3
  <2>7. QED
    BY <2>4, <2>5, <2>6
<1>8. ErrandSound(errand[c])'
  BY <1>1, <1>2, <1>3, <1>4 DEF ErrandSound
<1>9. OfAdmin(e.kind)
  BY <1>3 DEF OfAdmin
<1>10. QED
  BY <1>1, <1>4, <1>5, <1>6, <1>7, <1>8, <1>9, RowsKnown, WorkKeeps

\* verifySchool and rejectSchool, once the address is done with.
LEMMA StatusKeeps ==
  ASSUME PortalInv, NEW c \in Clerks, Approve(c) \/ Deny(c),
         shown' = [x \in Slugs |-> shown[x] \cup Resolve(x)']
  PROVE  PortalInv'
<1> DEFINE e == errand[c]
           v == IF e.at = "approve" THEN "VERIFIED" ELSE "REJECTED"
           step == IF e.at = "approve" THEN "lock" ELSE "hold"
<1>1. /\ errand[c] # NoErrand /\ e.at \in {"approve", "deny"} /\ Proceed(c, step)
      /\ status' = [status EXCEPT ![e.school] = v]
      /\ UNCHANGED <<slug, hold, redirect, errands, orderly>>
  BY DEF Approve, Deny, At, Same
<1>2. /\ ErrandSound(errand[c]) /\ (orderly => ErrandHolds(errand[c]))
      /\ e.school \in Schools
  BY <1>1, ErrandKnown
<1>3. /\ step \in Steps /\ v \in {"VERIFIED", "REJECTED"}
      /\ e.at = "approve" => step = "lock" /\ e.kind \in {"create", "verify"} /\ v = "VERIFIED"
      /\ e.at = "deny" => step = "hold" /\ e.kind = "reject" /\ v = "REJECTED"
  BY <1>1, <1>2 DEF ErrandSound, Steps
<1> HIDE DEF step, v
<1>4. /\ errand'[c] \in Errand /\ errand' = [errand EXCEPT ![c] = errand'[c]]
      /\ errand'[c].kind = e.kind /\ errand'[c].school = e.school
      /\ errand'[c].at = step
  BY <1>1, <1>3, ProceedMoves
<1>5. /\ status' \in [Schools -> {"none", "UNAPPROVED", "VERIFIED", "REJECTED"}]
      /\ status'[e.school] = v
      /\ \A t \in Schools : t # e.school => status'[t] = status[t]
  BY <1>1, <1>2, <1>3, RowsKnown
<1>6. SlugUnique' /\ (orderly => Agreed')
  BY <1>1, RowsKnown DEF SlugUnique, Agreed
<1>7. orderly => \A x \in Slugs, s \in Schools : Owns(x, s) => Owns(x, s)'
  BY <1>1, <1>2, <1>3, <1>5 DEF Owns, ErrandHolds
<1>8. ErrandSound(errand[c])'
  BY <1>1, <1>3, <1>4 DEF ErrandSound
<1>9. ErrandHolds(errand[c])'
  BY <1>1, <1>3, <1>4, <1>5 DEF ErrandHolds
<1>10. QED
  BY <1>1, <1>4, <1>5, <1>6, <1>7, <1>8, <1>9, RowsKnown, WorkKeeps

LEMMA HoldKeeps ==
  ASSUME PortalInv, NEW c \in Clerks, LockSlug(c) \/ HoldSlug(c),
         shown' = [x \in Slugs |-> shown[x] \cup Resolve(x)']
  PROVE  PortalInv'
<1>1. /\ errand[c] # NoErrand /\ Leave(c)
      /\ \E v \in {"none", "held"} : hold' = [hold EXCEPT ![errand[c].school] = v]
      /\ UNCHANGED <<status, slug, redirect, errands, orderly>>
  BY DEF LockSlug, HoldSlug, At, Same
<1>2. hold' \in [Schools -> {"none", "held", "over"}]
  BY <1>1, RowsKnown
<1>3. SlugUnique' /\ (orderly => Agreed')
  BY <1>1, RowsKnown DEF SlugUnique, Agreed
<1>4. \A x \in Slugs, s \in Schools : Owns(x, s) => Owns(x, s)'
  BY <1>1 DEF Owns
<1>5. QED
  BY <1>1, <1>2, <1>3, <1>4, LeaveMoves, RowsKnown, WorkKeeps

LEMMA BreakOffKeeps ==
  ASSUME PortalInv, NEW c \in Clerks, BreakOff(c),
         shown' = [x \in Slugs |-> shown[x] \cup Resolve(x)']
  PROVE  PortalInv'
  BY LeaveMoves, LooksKeeps DEF BreakOff

\* Time passes for a hold.
LEMMA ExpireKeeps ==
  ASSUME PortalInv, NEW s \in Schools, Expire(s),
         shown' = [x \in Slugs |-> shown[x] \cup Resolve(x)']
  PROVE  PortalInv'
<1>1. hold' = [hold EXCEPT ![s] = "over"]
      /\ UNCHANGED <<status, slug, redirect, errand, errands, orderly>>
  BY DEF Expire, Same
<1>2. hold' \in [Schools -> {"none", "held", "over"}]
  BY <1>1, RowsKnown
<1>3. PortalTypeOK'
  BY <1>1, <1>2, ShownTyped DEF PortalInv, PortalTypeOK
<1>4. \A x \in Slugs, t \in Schools : Owns(x, t) => Owns(x, t)'
  BY <1>1 DEF Owns
<1>5. orderly => ShownKept'
  BY <1>4, ShownMoves
<1>6. /\ SlugUnique' /\ (orderly => Agreed' /\ Apart') /\ Busy' = Busy
      /\ \A c \in Busy : ErrandSound(errand[c])'
      /\ orderly => \A c \in Busy : ErrandHolds(errand[c])'
  BY <1>1 DEF PortalInv, SlugUnique, Agreed, Apart, Busy, ErrandSound, ErrandHolds
<1>7. QED
  BY <1>1, <1>3, <1>5, <1>6 DEF PortalInv

\* A request comes in: while it is orderly it is alone with its school, and alone
\* if it is the super admin's.
LEMMA TakeUpKeeps ==
  ASSUME PortalInv, NEW c \in Clerks, NEW kind \in Kinds, NEW at \in Steps,
         NEW s \in Schools, NEW want \in Slugs \cup {NoSlug},
         TakeUp(c, kind, at, s, want),
         status' = status \/ (status[s] = "none" /\ status' = [status EXCEPT ![s] = "VERIFIED"]),
         UNCHANGED <<slug, hold, redirect>>,
         \/ kind = "register" /\ at = "insert" /\ want = NoSlug
         \/ kind \in {"register", "rename"} /\ at = "release" /\ want # NoSlug
         \/ kind \in {"create", "ensure", "verify"} /\ at = "ensure"
         \/ kind = "reject" /\ at = "deny",
         kind = "register" => status'[s] = "none",
         kind = "reject" => status'[s] # "VERIFIED",
         shown' = [x \in Slugs |-> shown[x] \cup Resolve(x)']
  PROVE  PortalInv'
<1> DEFINE old == IF kind = "rename" THEN slug[s] ELSE NoSlug
           e == [kind |-> kind, at |-> at, school |-> s, want |-> want,
                 old |-> old, rest |-> << >>]
<1>1. old \in Slugs \cup {NoSlug} /\ (kind = "rename" => old = slug[s])
  BY RowsKnown
<1>2. /\ errand[c] = NoErrand /\ errands' = errands + 1
      /\ errand' = [errand EXCEPT ![c] = e]
      /\ orderly' \in BOOLEAN
      /\ orderly' => /\ orderly
                     /\ \A d \in Busy : /\ ~OfAdmin(kind) /\ ~OfAdmin(errand[d].kind)
                                        /\ errand[d].school # s
  BY DEF TakeUp
<1> HIDE DEF old
<1>3. /\ e \in Errand /\ e.kind = kind /\ e.at = at /\ e.school = s /\ e.want = want
      /\ e.old = old /\ e.rest = << >>
  <2>1. << >> \in Seq(Slugs)
    OBVIOUS
  <2>2. QED
    BY <1>1, <2>1 DEF Errand
<1> HIDE DEF e
<1>4. /\ errand \in [Clerks -> Errand \cup {NoErrand}]
      /\ errand' \in [Clerks -> Errand \cup {NoErrand}] /\ errand'[c] = e
      /\ \A d \in Clerks : d # c => errand'[d] = errand[d]
  BY <1>2, <1>3 DEF PortalInv, PortalTypeOK
<1>5. Busy' \subseteq Busy \cup {c} /\ c \notin Busy
  BY <1>2, <1>4 DEF Busy
<1>6. /\ status' \in [Schools -> {"none", "UNAPPROVED", "VERIFIED", "REJECTED"}]
      /\ \A t \in Schools : t # s => status'[t] = status[t]
  BY RowsKnown
<1>7. PortalTypeOK'
  BY <1>2, <1>4, <1>6, ShownTyped, RowsKnown DEF PortalTypeOK
<1>8. SlugUnique' /\ (orderly => Agreed')
  BY RowsKnown DEF SlugUnique, Agreed
<1>9. ErrandSound(errand[c])'
  BY <1>3, <1>4 DEF ErrandSound
<1>10. ASSUME NEW d \in Busy' PROVE ErrandSound(errand[d])'
  <2>1. CASE d = c
    BY <1>9, <2>1
  <2>2. CASE d # c
    <3>1. errand'[d] = errand[d] /\ ErrandSound(errand[d])
      BY <1>4, <1>5, <2>2 DEF PortalInv, Busy
    <3>2. QED
      BY <3>1 DEF ErrandSound
  <2>3. QED
    BY <2>1, <2>2
<1>11. ASSUME orderly'
       PROVE  Apart' /\ ShownKept' /\ \A d \in Busy' : ErrandHolds(errand[d])'
  <2>1. /\ orderly /\ Apart /\ ShownKept /\ \A d \in Busy : ErrandHolds(errand[d])
        /\ \A d \in Busy : /\ ~OfAdmin(kind) /\ ~OfAdmin(errand[d].kind)
                           /\ errand[d].school # s
    BY <1>2, <1>11 DEF PortalInv
  <2>2. Apart'
    BY <1>3, <1>4, <1>5, <2>1 DEF Apart, Busy
  <2>3. \A x \in Slugs, t \in Schools : Owns(x, t) => Owns(x, t)'
    BY <1>6, RowsKnown DEF Owns
  <2>4. ShownKept'
    BY <2>1, <2>3, ShownMoves
  <2>5. ASSUME NEW d \in Busy', d # c PROVE ErrandHolds(errand[d])'
    <3>1. /\ errand'[d] = errand[d] /\ ErrandHolds(errand[d]) /\ errand[d] \in Errand
          /\ errand[d].school # s
      BY <1>4, <1>5, <2>1, <2>5 DEF Busy
    <3>2. errand[d].school \in Schools
      BY <3>1 DEF Errand
    <3>3. status'[errand[d].school] = status[errand[d].school]
      BY <1>6, <3>1, <3>2
    <3>4. QED
      BY <3>1, <3>3 DEF ErrandHolds
  <2>6. ErrandHolds(errand[c])'
    BY <1>1, <1>3, <1>4 DEF ErrandHolds
  <2>7. QED
    BY <2>2, <2>4, <2>5, <2>6
<1>12. QED
  BY <1>2, <1>7, <1>8, <1>10, <1>11 DEF PortalInv

LEMMA AskKeeps ==
  ASSUME PortalInv, NEW c \in Clerks, Ask(c),
         shown' = [x \in Slugs |-> shown[x] \cup Resolve(x)']
  PROVE  PortalInv'
<1>1. PICK s \in Schools :
        \/ \E x \in Slugs \cup {NoSlug} : Register(c, s, x)
        \/ Create(c, s) \/ SignIn(c, s) \/ Verify(c, s) \/ Reject(c, s)
        \/ \E x \in Slugs : Rename(c, s, x)
  BY DEF Ask
<1> USE DEF Kinds, Steps, NoRow
<1>2. ASSUME NEW x \in Slugs \cup {NoSlug}, Register(c, s, x) PROVE PortalInv'
  <2>1. CASE x = NoSlug
    BY <1>2, <2>1, TakeUpKeeps DEF Register
  <2>2. CASE x # NoSlug
    BY <1>2, <2>2, TakeUpKeeps DEF Register
  <2>3. QED
    BY <2>1, <2>2
<1>3. CASE Create(c, s)
  BY <1>3, TakeUpKeeps DEF Create
<1>4. CASE SignIn(c, s)
  BY <1>4, TakeUpKeeps DEF SignIn
<1>5. CASE Verify(c, s)
  BY <1>5, TakeUpKeeps DEF Verify
<1>6. CASE Reject(c, s)
  BY <1>6, TakeUpKeeps DEF Reject
<1>7. ASSUME NEW x \in Slugs, Rename(c, s, x) PROVE PortalInv'
  BY <1>7, TakeUpKeeps, PortalsAssumption DEF Rename
<1>8. QED
  BY <1>1, <1>2, <1>3, <1>4, <1>5, <1>6, <1>7

LEMMA PortalInitially == PortalInit => PortalInv
<1> SUFFICES ASSUME PortalInit PROVE PortalInv
  OBVIOUS
<1>1. Busy = {}
  BY DEF PortalInit, Busy
<1>2. PortalTypeOK
  BY DEF PortalInit, PortalTypeOK
<1>3. QED
  BY <1>1, <1>2 DEF PortalInit, PortalInv, SlugUnique, Apart, Agreed, ShownKept

LEMMA PortalStep == PortalInv /\ [PortalNext]_portalVars => PortalInv'
<1> SUFFICES ASSUME PortalInv, [PortalNext]_portalVars PROVE PortalInv'
  OBVIOUS
<1>1. CASE UNCHANGED portalVars
  BY <1>1 DEF portalVars, PortalInv, PortalTypeOK, SlugUnique, Busy, ErrandSound, Apart,
              Agreed, ShownKept, Owns, ErrandHolds
<1>2. CASE PortalNext
  <2>1. shown' = [x \in Slugs |-> shown[x] \cup Resolve(x)']
    BY <1>2 DEF PortalNext
  <2>2. ASSUME NEW c \in Clerks, Ask(c) \/ Work(c) \/ BreakOff(c) PROVE PortalInv'
    BY <2>1, <2>2, AskKeeps, BreakOffKeeps, ReleaseKeeps, LookAtSchoolsKeeps,
       LookAtRedirectsKeeps, InsertKeeps, EnsureSlugKeeps, KeepOldSlugKeeps,
       WriteSlugKeeps, StatusKeeps, HoldKeeps
    DEF Work
  <2>3. QED
    BY <1>2, <2>1, <2>2, ExpireKeeps DEF PortalNext
<1>3. QED
  BY <1>1, <1>2

\* An address that ever showed the portal of a school never shows another's.
THEOREM PortalAddressKept == PortalSpec => []AddressKept
<1>1. PortalInv => AddressKept
  <2> SUFFICES ASSUME PortalInv, orderly, NEW x \in Slugs
               PROVE  Cardinality(shown[x]) <= 1
    BY DEF AddressKept
  <2>1. SlugUnique /\ Agreed /\ ShownKept /\ shown[x] \subseteq Schools
    BY RowsKnown
  <2>2. NoSlug \notin Slugs /\ NoSchool \notin Schools
    BY PortalsAssumption
  <2>3. \A s, t \in shown[x] : s = t
    BY <2>1, <2>2 DEF SlugUnique, Agreed, ShownKept, Owns
  <2>4. shown[x] = {} \/ \E s \in shown[x] : shown[x] = {s}
    BY <2>3
  <2>5. CASE shown[x] = {}
    <3>1. Cardinality(shown[x]) = 0
      BY <2>5, FS_EmptySet, Zenon
    <3>2. QED
      BY <3>1
  <2>6. CASE \E s \in shown[x] : shown[x] = {s}
    <3>1. Cardinality(shown[x]) = 1
      BY <2>6, FS_Singleton, Zenon
    <3>2. QED
      BY <3>1
  <2>7. QED
    BY <2>4, <2>5, <2>6
<1>2. QED
  BY <1>1, PortalInitially, PortalStep, PTL DEF PortalSpec
-----------------------------------------------------------------------------
(***************************************************************************)
(* Billing: no time that was not paid for, no locks on a paid tier.        *)
(***************************************************************************)

USE DEF row, school, ledger, history, Rows

PayOps == {"payMark", "payRenew", "payRecord", "paySync"}

\* The end date in the hands of a handler is not ahead of what was paid; when
\* another one has already renewed with the same payment, neither is the date
\* it is about to write.
EndOK(q) ==
  IF q.ref \in applied THEN Later(q.end, now) + Period <= paidUntil
  ELSE q.end <= paidUntil

\* What a handler of a payment has read stays true.
HandlerOK(q) ==
  /\ q.op \in PayOps => q.ref \in charged /\ q.ref \in Rows
  /\ ~reverted /\ q.op \in {"payMark", "payRenew"} => EndOK(q)
  /\ ~reverted /\ q.op = "payRenew" => q.ref \in Successful

SubscriptionOK ==
  /\ tier \in {"FREE", "PRO"} /\ endDate \in Nat /\ phase \in Phases
  /\ active \in BOOLEAN /\ tools \in BOOLEAN
  /\ locked \subseteq Pupils /\ suspended \in 0..Staff
  /\ LockedOnlyWhenFree

LedgerOK ==
  /\ payments \in Seq(Payment) /\ Len(payments) <= MaxPayments
  /\ idem \subseteq Refs /\ charged \subseteq Refs
  /\ applied \subseteq charged /\ reverted \in BOOLEAN /\ paidUntil \in Nat
  /\ ~reverted => applied \subseteq Successful

TablesOK ==
  /\ SubscriptionOK /\ LedgerOK /\ NoFreeTime
  /\ now \in 1..MaxNow /\ faults \in 0..MaxFaults /\ clean \in BOOLEAN

IInv ==
  /\ TablesOK
  /\ req \in [Procs -> Request]
  /\ \A p \in Procs : HandlerOK(req[p])
-----------------------------------------------------------------------------
\* A step that takes no charge, payment or success away, and renews nothing.
Kept ==
  /\ charged \subseteq charged' /\ Rows \subseteq Rows'
  /\ Successful \subseteq Successful'
  /\ UNCHANGED <<applied, paidUntil, reverted, now>>

LEMMA IdleOK == Idle \in Request /\ Idle.op \notin PayOps
  BY BillingAssumption DEF Idle, Request, Ops, PlanCharge, PayOps

LEMMA RowIsRef ==
  ASSUME IInv, NEW r \in Rows
  PROVE  r \in Refs /\ r \in 0..PlanCharge /\ r \in 1..MaxPayments
  BY LenProperties, BillingAssumption
  DEF IInv, TablesOK, LedgerOK, Refs, PlanCharge

\* The step of one handler: the others keep what they know.
LEMMA OneHandler ==
  ASSUME IInv, Kept, TablesOK', NEW p \in Procs,
         req' \in [Procs -> Request], \A q \in Procs \ {p} : req'[q] = req[q],
         HandlerOK(req[p])'
  PROVE  IInv'
<1>1. ASSUME NEW q \in Procs, req'[q] = req[q] PROVE HandlerOK(req[q])'
  BY <1>1 DEF IInv, Kept, HandlerOK, EndOK, Later
<1>2. QED
  BY <1>1 DEF IInv

\* A handler that goes on with x, which is none of a payment's.
LEMMA Aside ==
  ASSUME IInv, Kept, TablesOK', NEW p \in Procs, NEW x \in Request,
         x.op \notin PayOps, req' = [req EXCEPT ![p] = x]
  PROVE  IInv'
<1>1. /\ req' \in [Procs -> Request]
      /\ req'[p] = x
      /\ \A q \in Procs \ {p} : req'[q] = req[q]
  BY DEF IInv
<1>2. HandlerOK(req[p])'
  BY <1>1 DEF HandlerOK, PayOps
<1>3. QED
  BY <1>1, <1>2, OneHandler

\* A step that leaves the tables alone.
LEMMA SameTables ==
  ASSUME IInv, UNCHANGED <<row, school, ledger, charged, history, now>>,
         faults' \in 0..MaxFaults, clean' \in BOOLEAN
  PROVE  Kept /\ TablesOK'
  BY DEF IInv, TablesOK, SubscriptionOK, LedgerOK, NoFreeTime,
         LockedOnlyWhenFree, Kept, Successful

\* A step that only writes the subscription.
LEMMA SubscriptionStep ==
  ASSUME IInv, UNCHANGED <<ledger, charged, history, now>>,
         SubscriptionOK', NoFreeTime',
         faults' \in 0..MaxFaults, clean' \in BOOLEAN
  PROVE  Kept /\ TablesOK'
  BY DEF IInv, TablesOK, LedgerOK, Kept, Successful

LEMMA InitIInv == Init => IInv
<1> SUFFICES ASSUME Init PROVE IInv
  OBVIOUS
<1>1. TablesOK
  <2>1. SubscriptionOK /\ NoFreeTime
    <3>1. suspended \in 0..Staff /\ endDate \in Nat
      BY BillingAssumption DEF Init
    <3>2. NoFreeTime /\ LockedOnlyWhenFree
      BY DEF Init, NoFreeTime, LockedOnlyWhenFree
    <3>3. active \in BOOLEAN /\ tools \in BOOLEAN
      BY DEF Init
    <3>4. QED
      BY <3>1, <3>2, <3>3 DEF Init, SubscriptionOK, Phases
  <2>2. payments \in Seq(Payment) /\ Len(payments) = 0
    BY EmptySeq DEF Init
  <2>3. LedgerOK
    <3>1. Len(payments) <= MaxPayments
      BY <2>2, BillingAssumption
    <3>2. reverted \in BOOLEAN
      BY DEF Init
    <3>3. QED
      BY <2>2, <3>1, <3>2 DEF Init, LedgerOK
  <2>4. QED
    BY <2>1, <2>3, BillingAssumption DEF Init, TablesOK
<1>2. req \in [Procs -> Request] /\ \A p \in Procs : HandlerOK(req[p])
  BY IdleOK DEF Init, HandlerOK, PayOps
<1>3. QED
  BY <1>1, <1>2 DEF IInv
-----------------------------------------------------------------------------
(* The price of a renewal is a natural number.                             *)

LEMMA AmountIsNat == IInv => ProratedAmount \in Nat
<1> SUFFICES ASSUME IInv PROVE ProratedAmount \in Nat
  OBVIOUS
<1>1. Price \in Nat /\ endDate \in Nat /\ now \in Nat
  BY BillingAssumption DEF IInv, TablesOK, SubscriptionOK
<1>2. CASE tier = "FREE" \/ endDate <= now \/ Successful = {}
  BY <1>1, <1>2 DEF ProratedAmount
<1>3. CASE ~(tier = "FREE" \/ endDate <= now \/ Successful = {})
  <2> DEFINE r == CHOOSE r \in Successful : \A q \in Successful : q <= r
             last == payments[r]
             total == endDate - last.paidAt
             value == (Price * total - last.amount * (endDate - now)) \div total
  <2>1. r \in Successful
    <3>1. Successful \in SUBSET (1 .. Len(payments)) /\ Len(payments) \in Nat
      BY LenProperties DEF IInv, TablesOK, LedgerOK, Successful
    <3>2. \E s \in Successful : \A q \in Successful : q <= s
      BY <1>3, <3>1, NewestExists
    <3>3. QED
      BY <3>2
  <2>2. last \in Payment
    BY <2>1, ElementOfSeq, LenProperties DEF IInv, TablesOK, LedgerOK, Successful
  <2>3. total \in Int /\ last.amount \in Nat
    BY <1>1, <2>2 DEF Payment
  <2>4. ProratedAmount = IF total <= 0 THEN Price ELSE Later(0, value)
    BY <1>3 DEF ProratedAmount
  <2>5. CASE total <= 0
    BY <1>1, <2>4, <2>5
  <2>6. CASE ~(total <= 0)
    <3> HIDE DEF last, total
    <3> DEFINE n == Price * total - last.amount * (endDate - now)
    <3>1. n \in Int
      BY <1>1, <2>3
    <3>2. total \in Nat \ {0}
      BY <2>3, <2>6
    <3> HIDE DEF n
    <3>3. n \div total \in Int
      BY <3>1, <3>2
    <3>4. Later(0, n \div total) \in Nat
      BY <3>3 DEF Later
    <3>5. QED
      BY <2>4, <2>6, <3>4 DEF n
  <2>7. QED
    BY <2>5, <2>6
<1>4. QED
  BY <1>2, <1>3
-----------------------------------------------------------------------------
(* Paystack, the clock and a handler that is cut off.                      *)

\* Nothing moves in the handlers.
LEMMA NoHandler ==
  ASSUME IInv, Kept, TablesOK', req' = req
  PROVE  IInv'
<1>1. ASSUME NEW p \in Procs PROVE HandlerOK(req[p])'
  BY DEF IInv, Kept, HandlerOK, EndOK, Later
<1>2. QED
  BY <1>1 DEF IInv

LEMMA PaystackStep == IInv /\ Paystack => IInv'
<1> SUFFICES ASSUME IInv, Paystack PROVE IInv'
  OBVIOUS
<1>1. CASE Initialize
  <2> DEFINE new == [success |-> FALSE, paidAt |-> 0,
                     amount |-> IF PlanCode THEN Price ELSE ProratedAmount]
  <2>1. new \in Payment /\ ~new.success
    BY AmountIsNat, BillingAssumption DEF Payment
  <2>2. payments' = Append(payments, new)
    BY <1>1 DEF Initialize
  <2> HIDE DEF new
  <2>3. /\ payments' \in Seq(Payment) /\ Rows \subseteq Rows'
        /\ Len(payments') <= MaxPayments
        /\ \A r \in Rows : payments'[r] = payments[r]
    <3>1. payments \in Seq(Payment)
      BY DEF IInv, TablesOK, LedgerOK
    <3>2. Len(payments) \in Nat /\ Len(payments') = Len(payments) + 1
      BY <2>1, <2>2, <3>1, AppendProperties, LenProperties
    <3>3. Len(payments) < MaxPayments
      BY <1>1 DEF Initialize
    <3>4. QED
      BY <2>1, <2>2, <3>1, <3>2, <3>3, AddRow, BillingAssumption
  <2>4. Kept
    BY <1>1, <2>3 DEF Initialize, Outside, Kept, Successful
  <2>5. TablesOK'
    BY <1>1, <2>3, <2>4
    DEF Initialize, Outside, IInv, TablesOK, SubscriptionOK, LedgerOK,
        NoFreeTime, LockedOnlyWhenFree, Kept
  <2>6. QED
    BY <1>1, <2>4, <2>5, NoHandler DEF Initialize, Outside
<1>2. ASSUME NEW r \in Refs, Charge(r) PROVE IInv'
  <2>1. Kept /\ TablesOK'
    BY <1>2 DEF Charge, Outside, IInv, TablesOK, SubscriptionOK, LedgerOK,
                NoFreeTime, LockedOnlyWhenFree, Kept, Successful
  <2>2. QED
    BY <1>2, <2>1, NoHandler DEF Charge, Outside
<1>3. ASSUME NEW r \in Refs, ChargeFailed(r) PROVE IInv'
  <2> DEFINE failed == [payments[r] EXCEPT !.success = FALSE]
  <2>1. r \in Rows /\ failed \in Payment
    <3>1. r \in Rows /\ payments \in Seq(Payment)
      BY <1>3 DEF ChargeFailed, Successful, IInv, TablesOK, LedgerOK
    <3>2. payments[r] \in Payment
      BY <3>1, ElementOfSeq, LenProperties
    <3>3. QED
      BY <3>1, <3>2 DEF Payment
  <2>2. payments' \in Seq(Payment) /\ Rows' = Rows /\ Len(payments') = Len(payments)
    BY <1>3, <2>1, ExceptSeq, LenProperties
    DEF ChargeFailed, IInv, TablesOK, LedgerOK
  <2>3. reverted' /\ clean' \in BOOLEAN
    BY <1>3 DEF ChargeFailed, OneWrite, IInv, TablesOK, Quiet
  <2>4. TablesOK'
    BY <1>3, <2>2, <2>3
    DEF ChargeFailed, OneWrite, IInv, TablesOK, SubscriptionOK, LedgerOK,
        NoFreeTime, LockedOnlyWhenFree
  <2>5. \A p \in Procs : HandlerOK(req[p])'
    BY <1>3, <2>2, <2>3 DEF ChargeFailed, OneWrite, IInv, HandlerOK
  <2>6. QED
    BY <1>3, <2>4, <2>5 DEF ChargeFailed, OneWrite, IInv
<1>4. CASE ChargePlan
  <2>1. PlanCharge \in Refs
    BY BillingAssumption DEF PlanCharge, Refs
  <2>2. Kept /\ TablesOK'
    BY <1>4, <2>1 DEF ChargePlan, Outside, IInv, TablesOK, SubscriptionOK,
                LedgerOK, NoFreeTime, LockedOnlyWhenFree, Kept, Successful
  <2>3. QED
    BY <1>4, <2>2, NoHandler DEF ChargePlan, Outside
<1>5. CASE Lock
  <2>1. SubscriptionOK' /\ NoFreeTime' /\ clean' \in BOOLEAN
    BY <1>5 DEF Lock, OneWrite, IInv, TablesOK, SubscriptionOK, NoFreeTime,
                LockedOnlyWhenFree, Phases, Quiet
  <2>2. Kept /\ TablesOK'
    BY <1>5, <2>1, SubscriptionStep DEF Lock, OneWrite, IInv, TablesOK
  <2>3. QED
    BY <1>5, <2>2, NoHandler DEF Lock, OneWrite
<1>6. QED
  BY <1>1, <1>2, <1>3, <1>4, <1>5 DEF Paystack

\* No handler is in flight when a day goes by.
LEMMA TickStep == IInv /\ Tick => IInv'
<1> SUFFICES ASSUME IInv, Tick PROVE IInv'
  OBVIOUS
<1>1. now' \in 1..MaxNow
  BY BillingAssumption DEF Tick, IInv, TablesOK
<1>2. TablesOK'
  BY <1>1 DEF Tick, Outside, IInv, TablesOK, SubscriptionOK, LedgerOK,
              NoFreeTime, LockedOnlyWhenFree, Successful
<1>3. \A p \in Procs : HandlerOK(req[p])'
  BY DEF Tick, Quiet, Outside, HandlerOK, PayOps
<1>4. QED
  BY <1>2, <1>3 DEF Tick, Outside, IInv

LEMMA FaultStep == ASSUME IInv, NEW p \in Procs, Fault(p) PROVE IInv'
<1>1. faults' \in 0..MaxFaults /\ clean' \in BOOLEAN
  BY BillingAssumption DEF Fault, IInv, TablesOK
<1>2. Kept /\ TablesOK'
  BY <1>1, SameTables DEF Fault
<1>3. QED
  BY <1>2, IdleOK, Aside DEF Fault
-----------------------------------------------------------------------------
(* The handlers that renew nothing.                                        *)

\* The first query of such a handler.
LEMMA StartStep ==
  ASSUME IInv, NEW p \in Procs, NEW x \in Request, x.op \notin PayOps,
         Start(p, x), UNCHANGED <<row, school, ledger, charged, history>>
  PROVE  IInv'
<1>1. faults' \in 0..MaxFaults /\ clean' \in BOOLEAN
  BY DEF Start, IInv, TablesOK, Quiet
<1>2. Kept /\ TablesOK'
  BY <1>1, SameTables DEF Start
<1>3. QED
  BY <1>2, Aside DEF Start

\* A write of the phase, the last of its handler.
LEMMA PhaseStep ==
  ASSUME IInv, NEW p \in Procs, NEW from, NEW ph \in Phases,
         PhaseWrite(p, from, ph)
  PROVE  IInv'
<1>1. SubscriptionOK' /\ NoFreeTime'
  BY DEF PhaseWrite, IInv, TablesOK, SubscriptionOK, NoFreeTime,
         LockedOnlyWhenFree
<1>2. faults' \in 0..MaxFaults /\ clean' \in BOOLEAN
  BY DEF PhaseWrite, Finish, Goto, IInv, TablesOK
<1>3. Kept /\ TablesOK'
  BY <1>1, <1>2, SubscriptionStep DEF PhaseWrite, Finish, Goto
<1>4. QED
  BY <1>3, IdleOK, Aside DEF PhaseWrite, Finish, Goto

LEMMA DailyStep == IInv /\ (DailyRead \/ DailyWrite) => IInv'
<1> SUFFICES ASSUME IInv, DailyRead \/ DailyWrite PROVE IInv'
  OBVIOUS
<1>1. Cron \in Procs
  BY DEF Procs
<1>2. CASE DailyRead
  <2> DEFINE x == [Idle EXCEPT !.op = DailyWork]
  <2>1. x \in Request /\ x.op \notin PayOps
    BY <1>2, IdleOK DEF DailyRead, DailyWork, Idle, Request, Ops, PayOps
  <2>2. Start(Cron, x) /\ UNCHANGED <<row, school, ledger, charged, history>>
    BY <1>2 DEF DailyRead
  <2> HIDE DEF x
  <2>3. QED
    BY <1>1, <2>1, <2>2, StartStep
<1>3. CASE DailyWrite
  BY <1>1, <1>3, PhaseStep DEF DailyWrite, Phases
<1>4. QED
  BY <1>2, <1>3

\* The transaction of the downgrade: it locks on the free tier.
LEMMA DowngradeStep == ASSUME IInv, NEW p \in Procs, DowngradeTx(p) PROVE IInv'
<1> DEFINE x == [req[p] EXCEPT !.op = "downSync"]
<1>1. req[p] \in Request
  BY DEF IInv
<1>2. x \in Request /\ x.op \notin PayOps
  BY <1>1 DEF Request, Ops, PayOps
<1>3. suspended' \in 0..Staff
  BY BillingAssumption
  DEF DowngradeTx, Surplus, Later, IInv, TablesOK, SubscriptionOK
<1>4. SubscriptionOK' /\ NoFreeTime'
  BY <1>1, <1>3
  DEF DowngradeTx, Request, IInv, TablesOK, SubscriptionOK, LedgerOK,
      NoFreeTime, LockedOnlyWhenFree, Phases
<1>5. faults' \in 0..MaxFaults /\ clean' \in BOOLEAN
  BY DEF DowngradeTx, Go, Goto, IInv, TablesOK
<1>6. Kept /\ TablesOK'
  BY <1>4, <1>5, SubscriptionStep DEF DowngradeTx, Go, Goto
<1>7. QED
  BY <1>2, <1>6, Aside DEF DowngradeTx, Go, Goto

\* A write of the tool, the last of its handler.
LEMMA SyncStep ==
  ASSUME IInv, NEW p \in Procs, PaySync(p) \/ DowngradeSync(p) PROVE IInv'
<1>1. SubscriptionOK' /\ NoFreeTime'
  BY DEF PaySync, DowngradeSync, IInv, TablesOK, SubscriptionOK, NoFreeTime,
         LockedOnlyWhenFree
<1>2. faults' \in 0..MaxFaults /\ clean' \in BOOLEAN
  BY DEF PaySync, DowngradeSync, Finish, Goto, IInv, TablesOK
<1>3. Kept /\ TablesOK'
  BY <1>1, <1>2, SubscriptionStep DEF PaySync, DowngradeSync, Finish, Goto
<1>4. QED
  BY <1>3, IdleOK, Aside DEF PaySync, DowngradeSync, Finish, Goto
-----------------------------------------------------------------------------
(* The handler of a payment.                                               *)

LEMMA PayReadStep ==
  ASSUME IInv, NEW p \in Procs, NEW r \in Refs, PayRead(p, r) PROVE IInv'
<1>1. faults' \in 0..MaxFaults /\ clean' \in BOOLEAN
  BY DEF PayRead, Start, IInv, TablesOK, Quiet
<1>2. Kept /\ TablesOK'
  BY <1>1, SameTables DEF PayRead, Start
<1>3. r \in Rows /\ r \in charged /\ r \in 0..PlanCharge /\ endDate \in Nat
  BY RowIsRef DEF PayRead, IInv, TablesOK, SubscriptionOK
<1> DEFINE x == IF r \in Successful
                THEN [Idle EXCEPT !.op = "payRecord", !.ref = r]
                ELSE [Idle EXCEPT !.op = "payMark", !.ref = r, !.end = endDate]
<1>4. x \in Request /\ x.ref = r
  BY <1>3 DEF Idle, Request, Ops
<1>5. \/ x.op = "payRecord"
      \/ x.op = "payMark" /\ x.end = endDate /\ r \notin Successful
  BY DEF Idle
<1>6. req' = [req EXCEPT ![p] = x]
  BY DEF PayRead, Start
<1> HIDE DEF x
<1>7. /\ req' \in [Procs -> Request]
      /\ req'[p] = x
      /\ \A q \in Procs \ {p} : req'[q] = req[q]
  BY <1>4, <1>6 DEF IInv
<1>8. ~reverted /\ r \notin Successful => r \notin applied
  BY DEF IInv, TablesOK, LedgerOK
<1>9. ~reverted => endDate <= paidUntil
  BY DEF IInv, TablesOK, NoFreeTime
<1>10. HandlerOK(req[p])'
  BY <1>2, <1>3, <1>4, <1>5, <1>7, <1>8, <1>9 DEF HandlerOK, EndOK, Kept
<1>11. QED
  BY <1>2, <1>7, <1>10, OneHandler

LEMMA PayMarkStep == ASSUME IInv, NEW p \in Procs, PayMark(p) PROVE IInv'
<1> DEFINE r == req[p].ref
           x == [req[p] EXCEPT !.op = "payRenew"]
           paid == [payments[r] EXCEPT !.success = TRUE,
                                       !.paidAt = IF PlanCode THEN 0 ELSE now]
<1>1. /\ req[p] \in Request /\ HandlerOK(req[p]) /\ req[p].op = "payMark"
      /\ payments \in Seq(Payment) /\ now \in Nat
  BY DEF PayMark, Go, Goto, IInv, TablesOK, LedgerOK
<1>2. r \in Rows /\ r \in charged
  BY <1>1 DEF HandlerOK, PayOps
<1>3. paid \in Payment /\ paid.success
  <2>1. payments[r] \in Payment
    BY <1>1, <1>2, ElementOfSeq, LenProperties
  <2>2. QED
    BY <1>1, <2>1 DEF Payment
<1>4. payments' = [payments EXCEPT ![r] = paid]
  BY DEF PayMark
<1> HIDE DEF paid
<1>5. /\ payments' \in Seq(Payment) /\ Rows' = Rows /\ Len(payments') = Len(payments)
      /\ \A k \in Rows : payments'[k] = IF k = r THEN paid ELSE payments[k]
  <2>1. payments' \in Seq(Payment) /\ Rows' = Rows
        /\ \A k \in Rows : payments'[k] = IF k = r THEN paid ELSE payments[k]
    BY <1>1, <1>2, <1>3, <1>4, RewriteRow
  <2>2. Len(payments') = Len(payments)
    BY <1>1, <1>2, <1>3, <1>4, ExceptSeq
  <2>3. QED
    BY <2>1, <2>2
<1>6. Successful' = Successful \cup {r}
  BY <1>2, <1>3, <1>5 DEF Successful
<1>7. Kept
  BY <1>5, <1>6 DEF PayMark, Go, Goto, Kept
<1>8. TablesOK'
  BY <1>5, <1>6
  DEF PayMark, Go, Goto, IInv, TablesOK, SubscriptionOK, LedgerOK,
      NoFreeTime, LockedOnlyWhenFree
<1>9. /\ req' \in [Procs -> Request]
      /\ req'[p] = x
      /\ \A q \in Procs \ {p} : req'[q] = req[q]
  <2>1. x \in Request
    BY <1>1 DEF Request, Ops
  <2>2. req' = [req EXCEPT ![p] = x]
    BY DEF PayMark, Go, Goto
  <2> HIDE DEF x
  <2>3. QED
    BY <2>1, <2>2 DEF IInv
<1>10. x.op = "payRenew" /\ x.ref = r /\ x.end = req[p].end
  BY <1>1 DEF Request
<1> HIDE DEF x
<1>11. ~reverted => EndOK(req[p])
  BY <1>1 DEF HandlerOK
<1>12. HandlerOK(req[p])'
  BY <1>2, <1>5, <1>6, <1>7, <1>9, <1>10, <1>11 DEF HandlerOK, EndOK, Kept
<1>13. QED
  BY <1>7, <1>8, <1>9, <1>12, OneHandler

\* The renewal, the one step that buys time.  Whoever comes second with the
\* same payment writes a date that the first has already bought.
LEMMA PayRenewStep == ASSUME IInv, NEW p \in Procs, PayRenew(p) PROVE IInv'
<1> DEFINE r == req[p].ref
           x == [req[p] EXCEPT !.op = "payRecord", !.sync = TRUE]
<1>1. /\ req[p] \in Request /\ HandlerOK(req[p]) /\ req[p].op = "payRenew"
      /\ payments \in Seq(Payment) /\ now \in Nat /\ paidUntil \in Nat
      /\ Period \in Nat /\ req[p].end \in Nat
  BY BillingAssumption DEF PayRenew, Goto, IInv, TablesOK, LedgerOK, Request
<1>2. r \in Rows /\ r \in charged
  BY <1>1 DEF HandlerOK, PayOps
<1>3. ~reverted => EndOK(req[p]) /\ r \in Successful
  BY <1>1 DEF HandlerOK
<1>4. /\ endDate' = Later(req[p].end, now) + Period
      /\ paidUntil' = IF r \in applied THEN paidUntil ELSE Later(paidUntil, now) + Period
      /\ applied' = applied \cup {r}
      /\ UNCHANGED <<payments, idem, charged, now, reverted, tools, faults, clean>>
  BY DEF PayRenew, Goto
<1>5. endDate' \in Nat /\ paidUntil' \in Nat /\ paidUntil <= paidUntil'
  BY <1>1, <1>4 DEF Later
<1>6. ~reverted => endDate' <= paidUntil'
  BY <1>1, <1>3, <1>4 DEF EndOK, Later
<1>7. TablesOK'
  <2>1. SubscriptionOK'
    <3>1. suspended' \in 0..Staff
      BY BillingAssumption DEF PayRenew
    <3>2. QED
      BY <1>5, <3>1
      DEF PayRenew, IInv, TablesOK, SubscriptionOK, LockedOnlyWhenFree, Phases
  <2>2. LedgerOK'
    BY <1>2, <1>3, <1>4, <1>5 DEF IInv, TablesOK, LedgerOK, Successful
  <2>3. NoFreeTime'
    BY <1>4, <1>6 DEF NoFreeTime
  <2>4. QED
    BY <1>4, <2>1, <2>2, <2>3 DEF IInv, TablesOK
<1>8. /\ req' \in [Procs -> Request]
      /\ req'[p] = x
      /\ \A q \in Procs \ {p} : req'[q] = req[q]
  <2>1. x \in Request
    BY <1>1 DEF Request, Ops
  <2>2. req' = [req EXCEPT ![p] = x]
    BY DEF PayRenew, Goto
  <2> HIDE DEF x
  <2>3. QED
    BY <2>1, <2>2 DEF IInv
<1>9. HandlerOK(req[p])'
  <2>1. x.op = "payRecord" /\ x.ref = r
    BY <1>1 DEF Request
  <2> HIDE DEF x
  <2>2. QED
    BY <1>2, <1>4, <1>8, <2>1 DEF HandlerOK
<1>10. ASSUME NEW q \in Procs \ {p} PROVE HandlerOK(req[q])'
  <2>1. HandlerOK(req[q]) /\ req[q] \in Request /\ req'[q] = req[q]
    BY <1>8 DEF IInv
  <2>2. req[q].end \in Nat
    BY <2>1 DEF Request
  <2>3. EndOK(req[q]) => EndOK(req[q])'
    BY <1>1, <1>4, <1>5, <2>1, <2>2 DEF EndOK, Later
  <2>4. Successful' = Successful
    BY <1>4 DEF Successful
  <2>5. QED
    BY <1>4, <2>1, <2>3, <2>4 DEF HandlerOK
<1>11. QED
  BY <1>7, <1>8, <1>9, <1>10 DEF IInv

LEMMA PayRecordStep == ASSUME IInv, NEW p \in Procs, PayRecord(p) PROVE IInv'
<1> DEFINE x == [req[p] EXCEPT !.op = "paySync"]
<1>1. req[p] \in Request /\ HandlerOK(req[p]) /\ req[p].op = "payRecord"
  BY DEF PayRecord, Go, Finish, Goto, IInv
<1>2. req[p].ref \in Rows /\ req[p].ref \in charged /\ req[p].ref \in Refs
  BY <1>1, RowIsRef DEF HandlerOK, PayOps
<1>3. UNCHANGED <<payments, charged, applied, reverted, paidUntil, now, faults, clean>>
  BY DEF PayRecord, Go, Finish, Goto
<1>4. TablesOK'
  BY <1>2, <1>3
  DEF PayRecord, IInv, TablesOK, SubscriptionOK, LedgerOK, NoFreeTime,
      LockedOnlyWhenFree, Successful
<1>5. Kept
  BY <1>3 DEF Kept, Successful
<1>6. CASE req[p].sync
  <2>1. x \in Request /\ x.op = "paySync" /\ x.ref = req[p].ref
    BY <1>1 DEF Request, Ops
  <2>2. req' = [req EXCEPT ![p] = x]
    BY <1>6 DEF PayRecord, Go, Goto
  <2> HIDE DEF x
  <2>3. /\ req' \in [Procs -> Request]
        /\ req'[p] = x
        /\ \A q \in Procs \ {p} : req'[q] = req[q]
    BY <2>1, <2>2 DEF IInv
  <2>4. HandlerOK(req[p])'
    BY <1>2, <1>3, <2>1, <2>3 DEF HandlerOK
  <2>5. QED
    BY <1>4, <1>5, <2>3, <2>4, OneHandler
<1>7. CASE ~req[p].sync
  BY <1>4, <1>5, <1>7, IdleOK, Aside DEF PayRecord, Finish, Goto
<1>8. QED
  BY <1>6, <1>7
-----------------------------------------------------------------------------
LEMMA BeginStep == ASSUME IInv, NEW p \in Requests, Begin(p) PROVE IInv'
<1>1. p \in Procs
  BY DEF Procs
<1>2. ASSUME NEW r \in Refs, PayRead(p, r) PROVE IInv'
  BY <1>1, <1>2, PayReadStep
<1>3. CASE UiRead(p)
  <2>1. [Idle EXCEPT !.op = "uiHeal"] \in Request
    BY IdleOK DEF Idle, Request, Ops
  <2>2. QED
    BY <1>1, <1>3, <2>1, StartStep DEF UiRead, Idle, PayOps
<1>4. CASE FailRead(p)
  <2>1. [Idle EXCEPT !.op = "failWrite"] \in Request
    BY IdleOK DEF Idle, Request, Ops
  <2>2. QED
    BY <1>1, <1>4, <2>1, StartStep DEF FailRead, Idle, PayOps
<1>5. ASSUME NEW drop \in SUBSET Pupils, DowngradeRead(p, drop) PROVE IInv'
  <2>1. [Idle EXCEPT !.op = "downgrade", !.drop = drop] \in Request
    BY IdleOK DEF Idle, Request, Ops
  <2>2. QED
    BY <1>1, <1>5, <2>1, StartStep DEF DowngradeRead, Idle, PayOps
<1>6. QED
  BY <1>2, <1>3, <1>4, <1>5 DEF Begin

LEMMA ContinueStep == ASSUME IInv, NEW p \in Procs, Continue(p) PROVE IInv'
<1>1. CASE Pay(p)
  BY <1>1, PayMarkStep, PayRenewStep, PayRecordStep, SyncStep DEF Pay
<1>2. CASE UiWrite(p) \/ FailWrite(p)
  BY <1>2, PhaseStep DEF UiWrite, FailWrite, Phases
<1>3. CASE DowngradeTx(p) \/ DowngradeSync(p)
  BY <1>3, DowngradeStep, SyncStep
<1>4. QED
  BY <1>1, <1>2, <1>3 DEF Continue

LEMMA StepIInv == IInv /\ [Next]_vars => IInv'
<1> SUFFICES ASSUME IInv, [Next]_vars PROVE IInv'
  OBVIOUS
<1>1. CASE UNCHANGED vars
  <2>1. faults' \in 0..MaxFaults /\ clean' \in BOOLEAN
    BY <1>1 DEF vars, IInv, TablesOK
  <2>2. QED
    BY <1>1, <2>1, SameTables, NoHandler DEF vars
<1>2. CASE Paystack \/ Tick
  BY <1>2, PaystackStep, TickStep
<1>3. ASSUME NEW r \in Refs, PayRead(Hook, r) PROVE IInv'
  BY <1>3, PayReadStep DEF Procs
<1>4. CASE DailyRead \/ DailyWrite
  BY <1>4, DailyStep
<1>5. ASSUME NEW p \in Requests, Begin(p) PROVE IInv'
  BY <1>5, BeginStep
<1>6. ASSUME NEW p \in Procs, Continue(p) \/ Fault(p) PROVE IInv'
  BY <1>6, ContinueStep, FaultStep
<1>7. QED
  BY <1>1, <1>2, <1>3, <1>4, <1>5, <1>6 DEF Next

\* The invariant of every behaviour of the billing.
THEOREM BillingInvariant == Spec => []IInv
  BY InitIInv, StepIInv, PTL DEF Spec

\* The tables and the handlers in flight keep their types; the price of a
\* renewal, prorated or not, is a natural number.
THEOREM BillingTypeCorrect == Spec => []TypeOK
<1>1. IInv => TypeOK
  BY DEF IInv, TablesOK, SubscriptionOK, LedgerOK, TypeOK
<1>2. QED
  BY <1>1, BillingInvariant, PTL

\* However often and by however many handlers a payment is delivered, it moves
\* the end date of a subscription once.
THEOREM NoTimeUnpaid == Spec => []NoFreeTime
<1>1. IInv => NoFreeTime
  BY DEF IInv, TablesOK
<1>2. QED
  BY <1>1, BillingInvariant, PTL

\* However renewals and downgrades interleave, nothing is locked on a paid tier.
THEOREM LocksOnlyWhenFree == Spec => []LockedOnlyWhenFree
<1>1. IInv => LockedOnlyWhenFree
  BY DEF IInv, TablesOK, SubscriptionOK
<1>2. QED
  BY <1>1, BillingInvariant, PTL
-----------------------------------------------------------------------------
(* The subscription's promises. *)

\* What a handler that is alone has read is so when it writes.
LoneOK(q) ==
  /\ q.op \in {"payMark", "payRenew"} => q.end = endDate
  /\ q.op \in {"dailyOk", "uiHeal"} => now <= endDate
  /\ q.op = "dailyGrace" => now <= endDate + Grace
  /\ q.op = "dailyBlock" => endDate # 0 /\ endDate + Grace < now
  /\ q.op = "failWrite" => phase # "ADMIN_ACTION_REQUIRED"
  /\ q.op = "downgrade" => phase = "ADMIN_ACTION_REQUIRED"

\* As long as no two handlers overlapped.
LoneInv ==
  clean => /\ \A p, q \in Procs : req[p].op # "idle" /\ req[q].op # "idle" => p = q
           /\ \A p \in Procs : LoneOK(req[p])

LEMMA LoneInit == Init => LoneInv
  BY DEF Init, LoneInv, LoneOK, Idle

\* The handler p goes on with x, and the others, if nothing overlaps, are idle.
LEMMA LoneGoes ==
  ASSUME IInv, NEW p \in Procs, NEW x, req' = [req EXCEPT ![p] = x],
         clean' => LoneOK(x)' /\ \A q \in Procs : q # p => req[q].op = "idle"
  PROVE  LoneInv'
<1> SUFFICES ASSUME clean'
             PROVE  /\ \A q, r \in Procs :
                         req'[q].op # "idle" /\ req'[r].op # "idle" => q = r
                    /\ \A q \in Procs : LoneOK(req[q])'
  BY DEF LoneInv
<1>1. \A q \in Procs : req'[q] = IF q = p THEN x ELSE req[q]
  BY DEF IInv
<1>2. ASSUME NEW q \in Procs, q # p PROVE LoneOK(req[q])'
  <2>1. req'[q].op = "idle"
    BY <1>1, <1>2
  <2>2. QED
    BY <2>1 DEF LoneOK
<1>3. LoneOK(req[p])'
  BY <1>1
<1>4. QED
  BY <1>1, <1>2, <1>3

LEMMA LoneStarts ==
  ASSUME IInv, LoneInv, NEW p \in Procs, NEW x, Start(p, x),
         UNCHANGED <<endDate, phase>>, LoneOK(x)
  PROVE  LoneInv'
<1>1. clean' => \A q \in Procs : req[q].op = "idle"
  BY DEF Start, Quiet
<1>2. LoneOK(x)'
  BY DEF LoneOK, Start
<1>3. QED
  BY <1>1, <1>2, LoneGoes DEF Start

LEMMA LoneEnds ==
  ASSUME IInv, LoneInv, NEW p \in Procs, req[p].op # "idle", clean' = clean,
         NEW x, req' = [req EXCEPT ![p] = x],
         x.op \in {"idle", "payRecord", "paySync", "downSync"}
  PROVE  LoneInv'
<1>1. clean' => \A q \in Procs : q # p => req[q].op = "idle"
  BY DEF LoneInv
<1>2. LoneOK(x)'
  BY DEF LoneOK
<1>3. QED
  BY <1>1, <1>2, LoneGoes

LEMMA LoneStep == IInv /\ LoneInv /\ [Next]_vars => LoneInv'
<1> SUFFICES ASSUME IInv, LoneInv, [Next]_vars PROVE LoneInv'
  OBVIOUS
<1> USE DEF Procs
<1>1. CASE UNCHANGED vars
  BY <1>1 DEF vars, LoneInv, LoneOK
<1>2. CASE Initialize \/ (\E r \in Refs : Charge(r)) \/ ChargePlan
  BY <1>2 DEF Initialize, Charge, ChargePlan, Outside, LoneInv, LoneOK
<1>3. CASE (\E r \in Refs : ChargeFailed(r)) \/ Lock
  <2>1. req' = req /\ (clean' => clean /\ Quiet)
    BY <1>3 DEF ChargeFailed, Lock, OneWrite
  <2>2. QED
    BY <2>1 DEF LoneInv, LoneOK, Quiet
<1>4. CASE Tick
  BY <1>4 DEF Tick, Quiet, Outside, LoneInv, LoneOK
<1>5. ASSUME NEW p \in Procs, NEW r \in Refs, PayRead(p, r) PROVE LoneInv'
  <2> DEFINE x == IF r \in Successful
                  THEN [Idle EXCEPT !.op = "payRecord", !.ref = r]
                  ELSE [Idle EXCEPT !.op = "payMark", !.ref = r, !.end = endDate]
  <2>1. LoneOK(x)
    BY DEF LoneOK, Idle
  <2>2. Start(p, x) /\ UNCHANGED <<endDate, phase>>
    BY <1>5 DEF PayRead
  <2> HIDE DEF x
  <2>3. QED
    BY <2>1, <2>2, LoneStarts
<1>6. CASE DailyRead
  <2>1. PICK x : x = [Idle EXCEPT !.op = DailyWork]
    OBVIOUS
  <2>2. endDate \in Nat /\ now \in Nat /\ Grace \in Nat
    BY BillingAssumption DEF IInv, TablesOK, SubscriptionOK
  <2>3. LoneOK(x)
    BY <1>6, <2>1, <2>2 DEF DailyRead, DailyWork, LoneOK, Idle
  <2>4. Start(Cron, x) /\ UNCHANGED <<endDate, phase>>
    BY <1>6, <2>1 DEF DailyRead
  <2>5. QED
    BY <2>3, <2>4, LoneStarts
<1>7. ASSUME NEW p \in Procs, NEW from, NEW ph, from # "idle", PhaseWrite(p, from, ph)
      PROVE  LoneInv'
  <2>1. Idle.op = "idle"
    BY DEF Idle
  <2>2. QED
    BY <1>7, <2>1, LoneEnds DEF PhaseWrite, Finish, Goto
<1>8. CASE DailyWrite
  BY <1>7, <1>8 DEF DailyWrite
<1>9. ASSUME NEW p \in Procs, UiRead(p) PROVE LoneInv'
  <2>1. PICK x : x = [Idle EXCEPT !.op = "uiHeal"]
    OBVIOUS
  <2>2. endDate \in Nat /\ now \in Nat
    BY DEF IInv, TablesOK, SubscriptionOK
  <2>3. LoneOK(x)
    BY <1>9, <2>1, <2>2 DEF UiRead, LoneOK, Idle
  <2>4. QED
    BY <1>9, <2>1, <2>3, LoneStarts DEF UiRead
<1>10. ASSUME NEW p \in Procs, FailRead(p) PROVE LoneInv'
  <2>1. PICK x : x = [Idle EXCEPT !.op = "failWrite"]
    OBVIOUS
  <2>2. LoneOK(x)
    BY <1>10, <2>1 DEF FailRead, LoneOK, Idle
  <2>3. QED
    BY <1>10, <2>1, <2>2, LoneStarts DEF FailRead
<1>11. ASSUME NEW p \in Procs, NEW drop, DowngradeRead(p, drop) PROVE LoneInv'
  <2>1. PICK x : x = [Idle EXCEPT !.op = "downgrade", !.drop = drop]
    OBVIOUS
  <2>2. LoneOK(x)
    BY <1>11, <2>1 DEF DowngradeRead, MayDowngrade, LoneOK, Idle
  <2>3. QED
    BY <1>11, <2>1, <2>2, LoneStarts DEF DowngradeRead
<1>12. ASSUME NEW p \in Procs, PayMark(p) PROVE LoneInv'
  <2>1. PICK x : x = [req[p] EXCEPT !.op = "payRenew"]
    OBVIOUS
  <2>2. req[p] \in Request /\ req[p].op = "payMark"
    BY <1>12 DEF IInv, PayMark, Go, Goto
  <2>3. x.op = "payRenew" /\ x.end = req[p].end
    BY <2>1, <2>2 DEF Request
  <2>4. req' = [req EXCEPT ![p] = x] /\ UNCHANGED <<endDate, clean>>
    BY <1>12, <2>1 DEF PayMark, Go, Goto
  <2>5. clean => req[p].end = endDate /\ \A q \in Procs : q # p => req[q].op = "idle"
    BY <2>2 DEF LoneInv, LoneOK
  <2>6. clean' => LoneOK(x)'
    BY <2>3, <2>4, <2>5 DEF LoneOK
  <2>7. QED
    BY <2>4, <2>5, <2>6, LoneGoes
<1>13. ASSUME NEW p \in Procs, PayRenew(p) \/ PayRecord(p) \/ PaySync(p)
       PROVE  LoneInv'
  <2>1. PICK x : req' = [req EXCEPT ![p] = x] /\ x.op \in {"idle", "payRecord", "paySync"}
    <3>1. req[p] \in Request
      BY DEF IInv
    <3>2. /\ [req[p] EXCEPT !.op = "payRecord", !.sync = TRUE].op = "payRecord"
          /\ [req[p] EXCEPT !.op = "paySync"].op = "paySync"
          /\ Idle.op = "idle"
      BY <3>1 DEF Request, Idle
    <3>3. QED
      BY <1>13, <3>2 DEF PayRenew, PayRecord, PaySync, Go, Finish, Goto
  <2>2. req[p].op # "idle" /\ clean' = clean
    BY <1>13 DEF PayRenew, PayRecord, PaySync, Go, Finish, Goto
  <2>3. QED
    BY <2>1, <2>2, LoneEnds
<1>14. ASSUME NEW p \in Procs, UiWrite(p) \/ FailWrite(p) PROVE LoneInv'
  BY <1>7, <1>14 DEF UiWrite, FailWrite
<1>15. ASSUME NEW p \in Procs, DowngradeTx(p) \/ DowngradeSync(p) PROVE LoneInv'
  <2>1. PICK x : req' = [req EXCEPT ![p] = x] /\ x.op \in {"idle", "downSync"}
    <3>1. req[p] \in Request
      BY DEF IInv
    <3>2. [req[p] EXCEPT !.op = "downSync"].op = "downSync" /\ Idle.op = "idle"
      BY <3>1 DEF Request, Idle
    <3>3. QED
      BY <1>15, <3>2 DEF DowngradeTx, DowngradeSync, Go, Finish, Goto
  <2>2. req[p].op # "idle" /\ clean' = clean
    BY <1>15 DEF DowngradeTx, DowngradeSync, Go, Finish, Goto
  <2>3. QED
    BY <2>1, <2>2, LoneEnds
<1>16. ASSUME NEW p \in Procs, Fault(p) PROVE LoneInv'
  <2>1. Idle.op = "idle"
    BY DEF Idle
  <2>2. QED
    BY <1>16, <2>1, LoneEnds DEF Fault
<1>17. QED
  BY <1>1, <1>2, <1>3, <1>4, <1>5, <1>6, <1>8, <1>9, <1>10, <1>11, <1>12, <1>13, <1>14,
     <1>15, <1>16
  DEF Next, Paystack, Begin, Continue, Pay

\* A step of the service is one the contract allows, or changes nothing of it.
LEMMA ContractStep ==
  ASSUME IInv, LoneInv, Next, clean' PROVE [S!Next]_(S!vars)
<1> USE DEF Procs
<1> USE DEF S!Next, S!vars
<1>1. endDate \in Nat /\ now \in Nat /\ Grace \in Nat
  BY BillingAssumption DEF IInv, TablesOK, SubscriptionOK
<1>2. CASE Initialize \/ (\E r \in Refs : Charge(r) \/ ChargeFailed(r)) \/ ChargePlan
  BY <1>2 DEF Initialize, Charge, ChargeFailed, ChargePlan, Outside, OneWrite
<1>3. CASE Lock
  BY <1>3 DEF Lock, S!Block
<1>4. CASE Tick
  BY <1>4 DEF Tick, S!Tick
<1>5. ASSUME NEW p \in Procs,
             \/ \E r \in Refs : PayRead(p, r)
             \/ UiRead(p) \/ FailRead(p)
             \/ \E drop \in SUBSET Pupils : DowngradeRead(p, drop)
      PROVE  UNCHANGED S!vars
  BY <1>5 DEF PayRead, UiRead, FailRead, DowngradeRead, Start
<1>6. CASE DailyRead
  BY <1>6 DEF DailyRead, Start
<1>7. ASSUME NEW p \in Procs, req[p].op # "idle", clean PROVE LoneOK(req[p])
  BY <1>7 DEF LoneInv
<1>8. ASSUME NEW p \in Procs, NEW from, NEW ph, PhaseWrite(p, from, ph)
      PROVE  /\ req[p].op = from /\ phase' = ph /\ clean
             /\ UNCHANGED <<tier, endDate, active, now>>
  BY <1>8 DEF PhaseWrite, Finish, Goto
<1>9. CASE DailyWrite
  <2>1. CASE PhaseWrite(Cron, "dailyOk", "OK")
    BY <1>7, <1>8, <2>1 DEF LoneOK, S!Heal
  <2>2. CASE PhaseWrite(Cron, "dailyGrace", "GRACE_PERIOD")
    BY <1>7, <1>8, <2>2 DEF LoneOK, S!Warn
  <2>3. CASE PhaseWrite(Cron, "dailyBlock", "ADMIN_ACTION_REQUIRED")
    <3>1. /\ req[Cron].op = "dailyBlock" /\ phase' = "ADMIN_ACTION_REQUIRED" /\ clean
          /\ UNCHANGED <<tier, endDate, active, now>>
      BY <1>8, <2>3
    <3>2. endDate # 0 /\ endDate + Grace < now
      BY <1>7, <3>1 DEF LoneOK
    <3>3. S!Block
      BY <3>1, <3>2 DEF S!Block
    <3>4. QED
      BY <3>3
  <2>4. QED
    BY <1>9, <2>1, <2>2, <2>3 DEF DailyWrite
<1>10. ASSUME NEW p \in Procs, UiWrite(p) PROVE S!Heal
  BY <1>7, <1>8, <1>10 DEF UiWrite, LoneOK, S!Heal
<1>11. ASSUME NEW p \in Procs, FailWrite(p) PROVE S!Warn
  BY <1>7, <1>8, <1>11 DEF FailWrite, LoneOK, S!Warn
<1>12. ASSUME NEW p \in Procs, PayRenew(p) PROVE S!Renew
  <2>1. req[p].op = "payRenew" /\ clean
    BY <1>12 DEF PayRenew, Goto
  <2>2. req[p].end = endDate
    BY <1>7, <2>1 DEF LoneOK
  <2>3. S!Later(endDate, now) = Later(endDate, now)
    BY DEF S!Later, Later
  <2>4. QED
    BY <1>12, <2>2, <2>3 DEF PayRenew, Goto, S!Renew
<1>13. ASSUME NEW p \in Procs, PayMark(p) \/ PayRecord(p) \/ PaySync(p) \/ DowngradeSync(p)
       PROVE  UNCHANGED S!vars
  BY <1>13 DEF PayMark, PayRecord, PaySync, DowngradeSync, Go, Finish, Goto
<1>14. ASSUME NEW p \in Procs, DowngradeTx(p) PROVE S!Downgrade
  <2>1. req[p].op = "downgrade" /\ clean
    BY <1>14 DEF DowngradeTx, Go, Goto
  <2>2. phase = "ADMIN_ACTION_REQUIRED"
    BY <1>7, <2>1 DEF LoneOK
  <2>3. QED
    BY <1>14, <2>2 DEF DowngradeTx, Go, Goto, S!Downgrade
<1>15. ASSUME NEW p \in Procs, Fault(p) PROVE UNCHANGED S!vars
  BY <1>15 DEF Fault
<1>16. QED
  BY <1>2, <1>3, <1>4, <1>5, <1>6, <1>9, <1>10, <1>11, <1>12, <1>13, <1>14, <1>15
  DEF Next, Paystack, Begin, Continue, Pay

\* As long as no two handlers overlap, the service keeps the promises of a
\* subscription, whatever is cut off and in which order webhooks come.
THEOREM BillingKeepsContract == Spec => KeepsContract
<1>1. Init => S!Init
  BY DEF Init, S!Init
<1>2. IInv /\ LoneInv /\ [Next]_vars => [clean' => [S!Next]_(S!vars)]_vars
  BY ContractStep
<1>3. QED
  BY <1>1, <1>2, LoneInit, LoneStep, BillingInvariant, PTL DEF Spec, KeepsContract
=============================================================================
