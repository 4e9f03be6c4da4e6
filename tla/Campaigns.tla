----------------------------- MODULE Campaigns -----------------------------
(***************************************************************************)
(* The campaigns a super admin sends to the owners of schools:             *)
(* src/src/engagement/campaign.service.ts, engagement.service.ts and       *)
(* engagement-queue.processor.ts.                                          *)
(*                                                                         *)
(* The row of a campaign, the event that it was activated, and the job of  *)
(* retention-queue are three writes.  The queue keeps a job that ended     *)
(* (no removeOnComplete), known by the id of its campaign, and has no      *)
(* retries; a job whose worker dies is taken once more.  What is sent is a *)
(* row of NotificationLog.  Bound: MaxAsks, the calls of the super admin.  *)
(***************************************************************************)
EXTENDS Naturals, FiniteSets

CONSTANTS
  CampaignIds,
  Owners,             \* the owner of each school; a list that names a school
                      \* twice is left out
  MaxAsks

VARIABLES
  campaign,           \* its row: "none", the status, or "gone" once deleted
  emitted,            \* campaign.activated: events not handled yet
  dispatch,           \* its job: "none", "waiting", "active", "done", "failed"
  toSend,             \* the owners the worker has not come to yet
  sent,               \* the rows of NotificationLog
  stalls,             \* how often the worker of the job died
  asks                \* bound: the calls so far

campaignVars == <<campaign, emitted, dispatch, toSend, sent, stalls, asks>>

CampaignTypeOK ==
  /\ campaign \in [CampaignIds -> {"none", "DRAFT", "ACTIVE", "COMPLETED", "gone"}]
  /\ emitted \in [CampaignIds -> Nat]
  /\ dispatch \in [CampaignIds -> {"none", "waiting", "active", "done", "failed"}]
  /\ toSend \in [CampaignIds -> SUBSET Owners]
  /\ sent \in [CampaignIds -> [Owners -> Nat]]
  /\ stalls \in [CampaignIds -> 0 .. 2] /\ asks \in Nat

CampaignInit ==
  /\ campaign = [c \in CampaignIds |-> "none"]
  /\ emitted = [c \in CampaignIds |-> 0]
  /\ dispatch = [c \in CampaignIds |-> "none"]
  /\ toSend = [c \in CampaignIds |-> {}]
  /\ sent = [c \in CampaignIds |-> [o \in Owners |-> 0]]
  /\ stalls = [c \in CampaignIds |-> 0]
  /\ asks = 0
-----------------------------------------------------------------------------
Asked == asks < MaxAsks /\ asks' = asks + 1
SetCampaign(c, v) == campaign' = [campaign EXCEPT ![c] = v]
SetDispatch(c, v) == dispatch' = [dispatch EXCEPT ![c] = v]
QueueIdle == UNCHANGED <<dispatch, toSend, sent, stalls>>
RowIdle == UNCHANGED <<campaign, emitted, asks>>

Emit(c) == emitted' = [emitted EXCEPT ![c] = @ + 1]

CreateCampaign(c, v) ==
  /\ Asked /\ campaign[c] = "none"
  /\ SetCampaign(c, v)
  /\ IF v = "ACTIVE" THEN Emit(c) ELSE UNCHANGED emitted
  /\ QueueIdle

\* Whatever the status was: also of a campaign that was completed.
ActivateCampaign(c) ==
  /\ Asked /\ campaign[c] \notin {"none", "gone"}
  /\ SetCampaign(c, "ACTIVE")
  /\ Emit(c)
  /\ QueueIdle

DeleteCampaign(c) ==
  /\ Asked /\ campaign[c] \notin {"none", "gone"}
  /\ SetCampaign(c, "gone")
  /\ UNCHANGED emitted /\ QueueIdle

\* Mutant: a job that ended does not keep its id.
MutantQueueDispatch(c) ==
  /\ emitted[c] > 0
  /\ emitted' = [emitted EXCEPT ![c] = @ - 1]
  /\ IF campaign[c] # "gone" /\ dispatch[c] \notin {"waiting", "active"}
     THEN SetDispatch(c, "waiting") ELSE UNCHANGED dispatch
  /\ UNCHANGED <<campaign, toSend, sent, stalls, asks>>

\* dispatchCampaign, on the event: the queue ignores a job whose id it knows.
QueueDispatch(c) ==
  /\ emitted[c] > 0
  /\ emitted' = [emitted EXCEPT ![c] = @ - 1]
  /\ IF campaign[c] # "gone" /\ dispatch[c] = "none"
     THEN SetDispatch(c, "waiting") ELSE UNCHANGED dispatch
  /\ UNCHANGED <<campaign, toSend, sent, stalls, asks>>

\* handleDispatchCampaign: only an active campaign, to owners of all schools or
\* of the chosen ones.
TakeDispatch(c, targets) ==
  /\ dispatch[c] = "waiting"
  /\ IF campaign[c] = "ACTIVE"
     THEN SetDispatch(c, "active") /\ toSend' = [toSend EXCEPT ![c] = targets]
     ELSE SetDispatch(c, "done") /\ targets = {} /\ UNCHANGED toSend
  /\ UNCHANGED <<sent, stalls>> /\ RowIdle

SendOne(c, o) ==
  /\ dispatch[c] = "active" /\ o \in toSend[c]
  /\ sent' = [sent EXCEPT ![c][o] = @ + 1]
  /\ toSend' = [toSend EXCEPT ![c] = @ \ {o}]
  /\ UNCHANGED <<dispatch, stalls>> /\ RowIdle

\* The update of a row that was deleted throws.
CompleteCampaign(c) ==
  /\ dispatch[c] = "active" /\ toSend[c] = {}
  /\ IF campaign[c] = "gone"
     THEN SetDispatch(c, "failed") /\ UNCHANGED campaign
     ELSE SetDispatch(c, "done") /\ SetCampaign(c, "COMPLETED")
  /\ UNCHANGED <<toSend, sent, stalls, emitted, asks>>

\* A query throws: no attempt is left.
DispatchFails(c) ==
  /\ dispatch[c] = "active"
  /\ SetDispatch(c, "failed") /\ toSend' = [toSend EXCEPT ![c] = {}]
  /\ UNCHANGED <<sent, stalls>> /\ RowIdle

\* The process dies: events are lost, and a job that was active stalls, which
\* BullMQ forgives once.
WorkerDies ==
  LET cut == {c \in CampaignIds : dispatch[c] = "active"}
  IN  /\ cut # {} \/ \E c \in CampaignIds : emitted[c] > 0
      /\ emitted' = [c \in CampaignIds |-> 0]
      /\ stalls' = [c \in CampaignIds |-> stalls[c] + IF c \in cut THEN 1 ELSE 0]
      /\ dispatch' = [c \in CampaignIds |->
                        IF c \notin cut THEN dispatch[c]
                        ELSE IF stalls[c] = 0 THEN "waiting" ELSE "failed"]
      /\ toSend' = [c \in CampaignIds |-> IF c \in cut THEN {} ELSE toSend[c]]
      /\ UNCHANGED <<campaign, sent, asks>>

CampaignNext ==
  \/ \E c \in CampaignIds :
       \/ \E v \in {"DRAFT", "ACTIVE"} : CreateCampaign(c, v)
       \/ ActivateCampaign(c) \/ DeleteCampaign(c)
       \/ QueueDispatch(c) \/ \E T \in SUBSET Owners : TakeDispatch(c, T)
       \/ \E o \in Owners : SendOne(c, o)
       \/ CompleteCampaign(c) \/ DispatchFails(c)
  \/ WorkerDies

CampaignSpec == CampaignInit /\ [][CampaignNext]_campaignVars
-----------------------------------------------------------------------------
(* However often a campaign is activated, an owner gets it once, and once  *)
(* more only if the worker died in the middle of a dispatch: nothing reads *)
(* the log that is written "to prevent duplicate spam", what prevents it   *)
(* is the id under which the queue keeps the job.                          *)
SentOnce == \A c \in CampaignIds, o \in Owners : sent[c][o] <= 1 + stalls[c]
=============================================================================
