------------------------- MODULE CurriculumPipeline -------------------------
(***************************************************************************)
(* The master curriculum of one subject and class level: uploaded sources  *)
(* are parsed by jobs of the curriculum-processing queue, parsed sources   *)
(* are merged into a draft by jobs of the curriculum-consolidation queue,  *)
(* the draft is published.                                                 *)
(*   src/src/agora-curriculum/agora-curriculum.service.ts  (the requests   *)
(*     and onModuleInit), curriculum.processor.ts (the two workers),       *)
(*   src/src/ai/ai-curriculum-pipeline.service.ts (what the workers call). *)
(*                                                                         *)
(* The API and both workers are one process: a crash stops all of them and *)
(* leaves the jobs they held active in Redis.  The workers are registered  *)
(* before onModuleInit of the service runs, so they may take a job while   *)
(* it reconciles the queue; requests are only served when it has ended.    *)
(*                                                                         *)
(* Bounds: MaxWaiting jobs of one source waiting when a request is made,   *)
(* MaxDrafts rows of AgoraCurriculum, MaxCrashes crashes.                  *)
(***************************************************************************)
EXTENDS Naturals, Sequences, FiniteSets

CONSTANTS
  Sources, NoSource,
  Requests,          \* the administrator's requests that may be in flight
  Worker,            \* the parse worker, where it enqueues a consolidation
  Attempts,          \* defaultJobOptions.attempts of both queues
  MaxWaiting, MaxDrafts, MaxCrashes

ASSUME NamesAssumption == NoSource \notin Sources /\ Worker \notin Requests

ASSUME BoundAssumption ==
  /\ Attempts \in Nat \ {0} /\ MaxWaiting \in Nat
  /\ MaxDrafts \in Nat /\ MaxCrashes \in Nat

VARIABLES
  source,            \* status of each AgoraCurriculumSource
  waiting, ghosts,   \* parse jobs waiting, and active without a live worker
  parser,            \* the parse worker and the job it holds
  drafts,            \* the AgoraCurriculum table, in creation order
  merges,            \* the consolidation job of each draft (jobId per draft)
  merger,            \* the consolidation worker
  req,               \* what each handler in flight has read so far
  phase,             \* of the process: down, reconciling, or up
  requeue,           \* the pending sources onModuleInit has yet to queue
  crashes,           \* history: how often the process crashed
  hasty              \* history: a draft was deleted under a consolidation

parseVars == <<source, waiting, ghosts, parser>>
draftVars == <<drafts, merges, merger>>
history == <<crashes, hasty>>
bootVars == <<phase, requeue, history>>
vars == <<parseVars, draftVars, req, bootVars>>
-----------------------------------------------------------------------------
Statuses == {"none", "PENDING_PARSE", "PARSING", "PARSED", "FAILED", "deleted"}

\* Parse jobs are counted by source and attempts made.
JobCounts == [Sources \X (0 .. Attempts - 1) -> Nat]

Parser == [source : Sources \cup {NoSource}, made : 0 .. Attempts - 1,
           at : {"idle", "mark", "parse", "auto", "enqueue"}]

\* The topics of a draft that are not deprecated: none as yet, fewer than the
\* 39 weeks of a year (all may have been deleted again), or as many and more.
Weeks == {"none", "short", "full"}

\* ids is sourceIds.
Draft == [version : Nat, status : {"DRAFT", "PUBLISHED", "deleted"},
          ids : SUBSET Sources, weeks : Weeks]

\* What is left of a row when it is deleted: its place, and the jobId with it.
Gone == [version |-> 0, status |-> "deleted", ids |-> {}, weeks |-> "none"]

\* prioritized: as it was added.  waiting: put back after a failure or a stall,
\* which may be BullMQ's delayed, its prioritized or its waiting.
Merge == [state : {"none", "prioritized", "waiting", "active", "ghost"},
          ids : SUBSET Sources, made : 0 .. Attempts - 1]

Merger == [job : Nat, target : Nat, at : {"idle", "assign", "read", "commit"}]

Ops == {"idle", "add", "retry", "cancel", "fail", "delete",
        "latest", "draft", "enqueue", "publish"}

Request == [op : Ops, source : Sources \cup {NoSource}, ids : SUBSET Sources,
            draft : Nat, version : Nat,
            force : BOOLEAN, reuse : BOOLEAN, remove : BOOLEAN]

Idle == [op |-> "idle", source |-> NoSource, ids |-> {}, draft |-> 0,
         version |-> 0, force |-> FALSE, reuse |-> FALSE, remove |-> FALSE]

Resting == [source |-> NoSource, made |-> 0, at |-> "idle"]

NoMerge == [state |-> "none", ids |-> {}, made |-> 0]

Unmerging == [job |-> 0, target |-> 0, at |-> "idle"]

Callers == Requests \cup {Worker}

Phases == {"down", "ghosts", "reset", "drain", "requeue", "up"}

TypeOK ==
  /\ source \in [Sources -> Statuses]
  /\ waiting \in JobCounts /\ ghosts \in JobCounts /\ parser \in Parser
  /\ drafts \in Seq(Draft) /\ merges \in Seq(Merge)
  /\ Len(merges) = Len(drafts) /\ merger \in Merger
  /\ req \in [Callers -> Request]
  /\ phase \in Phases /\ requeue \subseteq Sources
  /\ crashes \in Nat /\ hasty \in BOOLEAN

Init ==
  /\ source = [s \in Sources |-> "none"]
  /\ waiting = [k \in Sources \X (0 .. Attempts - 1) |-> 0]
  /\ ghosts = waiting /\ parser = Resting
  /\ drafts = << >> /\ merges = << >> /\ merger = Unmerging
  /\ req = [c \in Callers |-> Idle]
  /\ phase = "up" /\ requeue = {} /\ crashes = 0 /\ hasty = FALSE
-----------------------------------------------------------------------------
Live(s) == source[s] \notin {"none", "deleted"}

Mark(s, status) == source' = [source EXCEPT ![s] = status]

AddJob(s) == waiting' = [waiting EXCEPT ![<<s, 0>>] = @ + 1]

Held(s) == parser.source = s \/ \E m \in 0 .. Attempts - 1 : ghosts[<<s, m>>] > 0

Queued(s) == \E m \in 0 .. Attempts - 1 : waiting[<<s, m>>] > 0

Rows == {d \in DOMAIN drafts : drafts[d].status # "deleted"}

\* findFirst by version, descending.
Latest ==
  {d \in Rows : \A e \in Rows : drafts[e].version <= drafts[d].version}

Taken(v) == \E d \in Rows : drafts[d].version = v

\* The handler of r, at its first query, goes on with what it read.
Proceed(r, record) ==
  /\ phase = "up"
  /\ req[r].op = "idle"
  /\ req' = [req EXCEPT ![r] = record]

Step(c, op) == req' = [req EXCEPT ![c].op = op]

\* The handler of c ends: it returned or threw.
Finish(c) == req' = [req EXCEPT ![c] = Idle]
-----------------------------------------------------------------------------
(* The administrator's requests about a source.                            *)

\* createSource, uploadAndCreateSource, uploadMultipleSources: the row ...
CreateSource(r, s) ==
  /\ source[s] = "none"
  /\ Proceed(r, [Idle EXCEPT !.op = "add", !.source = s])
  /\ Mark(s, "PENDING_PARSE")
  /\ UNCHANGED <<waiting, ghosts, parser, draftVars, bootVars>>

\* ... and then its job; retrySourceParsing adds one in the same way.
AddSourceJob(r) ==
  /\ req[r].op = "add"
  /\ AddJob(req[r].source)
  /\ Finish(r)
  /\ UNCHANGED <<source, ghosts, parser, draftVars, bootVars>>

RetryRead(r, s) ==
  /\ source[s] \in {"FAILED", "PENDING_PARSE"}
  /\ \A m \in 0 .. Attempts - 1 : waiting[<<s, m>>] < MaxWaiting
  /\ Proceed(r, [Idle EXCEPT !.op = "retry", !.source = s])
  /\ UNCHANGED <<parseVars, draftVars, bootVars>>

RetryMark(r) ==
  /\ req[r].op = "retry"
  /\ \/ Live(req[r].source) /\ Mark(req[r].source, "PENDING_PARSE")
        /\ Step(r, "add")
     \/ ~Live(req[r].source) /\ Finish(r) /\ UNCHANGED source
  /\ UNCHANGED <<waiting, ghosts, parser, draftVars, bootVars>>

CancelRead(r, s) ==
  /\ Live(s)
  /\ Proceed(r, [Idle EXCEPT !.op = "cancel", !.source = s])
  /\ UNCHANGED <<parseVars, draftVars, bootVars>>

\* One job of the source is looked up, an active one first, and removed.  The
\* removal of a job whose lock is held throws, which deleteSource ignores.  A
\* job that waits with a priority, as that of an upload, is not listed: which
\* of those that wait have one is left open.
CancelJob(r) ==
  LET s == req[r].source IN
  /\ req[r].op = "cancel"
  /\ \/ /\ Held(s)
        /\ IF req[r].remove THEN Step(r, "delete") ELSE Finish(r)
        /\ UNCHANGED <<waiting, ghosts>>
     \/ \E m \in 0 .. Attempts - 1 :
          /\ ghosts[<<s, m>>] > 0
          /\ ghosts' = [ghosts EXCEPT ![<<s, m>>] = @ - 1]
          /\ Step(r, "fail")
          /\ UNCHANGED waiting
     \/ \E m \in 0 .. Attempts - 1 :
          /\ ~Held(s) /\ waiting[<<s, m>>] > 0
          /\ waiting' = [waiting EXCEPT ![<<s, m>>] = @ - 1]
          /\ Step(r, "fail")
          /\ UNCHANGED ghosts
     \/ /\ ~Held(s)
        /\ Step(r, "fail")
        /\ UNCHANGED <<waiting, ghosts>>
  /\ UNCHANGED <<source, parser, draftVars, bootVars>>

CancelMark(r) ==
  LET s == req[r].source IN
  /\ req[r].op = "fail"
  /\ IF Live(s) THEN Mark(s, "FAILED") ELSE UNCHANGED source
  /\ IF req[r].remove THEN Step(r, "delete") ELSE Finish(r)
  /\ UNCHANGED <<waiting, ghosts, parser, draftVars, bootVars>>

DeleteRead(r, s) ==
  /\ Live(s)
  /\ ~ \E d \in Rows : s \in drafts[d].ids
  /\ Proceed(r, [Idle EXCEPT !.source = s, !.remove = TRUE,
                   !.op = IF source[s] \in {"PARSING", "PENDING_PARSE"}
                          THEN "cancel" ELSE "delete"])
  /\ UNCHANGED <<parseVars, draftVars, bootVars>>

DeleteRow(r) ==
  LET s == req[r].source IN
  /\ req[r].op = "delete"
  /\ IF Live(s) THEN Mark(s, "deleted") ELSE UNCHANGED source
  /\ Finish(r)
  /\ UNCHANGED <<waiting, ghosts, parser, draftVars, bootVars>>
-----------------------------------------------------------------------------
(* The parse worker: CurriculumProcessor.process, parseCurriculumDocument. *)

Running == phase # "down"

\* BullMQ hands a job over; the pre-flight check skips what is settled.
TakeJob(s, m) ==
  /\ Running /\ parser.at = "idle"
  /\ waiting[<<s, m>>] > 0
  /\ waiting' = [waiting EXCEPT ![<<s, m>>] = @ - 1]
  /\ parser' = IF Live(s) /\ source[s] \notin {"FAILED", "PARSED"}
               THEN [source |-> s, made |-> m, at |-> "mark"] ELSE Resting
  /\ UNCHANGED <<source, ghosts, draftVars, req, bootVars>>

\* process throws: the last attempt marks the source, another is retried.
ParseThrows ==
  LET s == parser.source
      made == parser.made + 1
  IN /\ parser' = Resting
     /\ IF made < Attempts
        THEN waiting' = [waiting EXCEPT ![<<s, made>>] = @ + 1] /\ UNCHANGED source
        ELSE /\ UNCHANGED waiting
             /\ IF Live(s) THEN Mark(s, "FAILED") ELSE UNCHANGED source
     /\ UNCHANGED ghosts

MarkParsing ==
  /\ parser.at = "mark"
  /\ \/ /\ Live(parser.source)
        /\ Mark(parser.source, "PARSING")
        /\ parser' = [parser EXCEPT !.at = "parse"]
        /\ UNCHANGED <<waiting, ghosts>>
     \/ ~Live(parser.source) /\ ParseThrows
  /\ UNCHANGED <<draftVars, req, bootVars>>

\* The model's answer is stored, whatever became of the source meanwhile.
StoreParsed ==
  /\ parser.at = "parse"
  /\ Live(parser.source)
  /\ Mark(parser.source, "PARSED")
  /\ parser' = [parser EXCEPT !.at = "auto"]
  /\ UNCHANGED <<waiting, ghosts, draftVars, req, bootVars>>

\* The model fails, answers nothing usable, or the row is gone.
ParseFails ==
  /\ parser.at = "parse"
  /\ ParseThrows
  /\ UNCHANGED <<draftVars, req, bootVars>>

\* The source is read again; if parsed, all parsed ones are consolidated.
AutoConsolidate ==
  /\ parser.at = "auto"
  /\ \/ /\ source[parser.source] = "PARSED"
        /\ parser' = [parser EXCEPT !.at = "enqueue"]
        /\ req' = [req EXCEPT ![Worker] =
             [Idle EXCEPT !.op = "latest",
                !.ids = {s \in Sources : source[s] = "PARSED"}]]
     \/ source[parser.source] # "PARSED" /\ parser' = Resting /\ UNCHANGED req
  /\ UNCHANGED <<source, waiting, ghosts, draftVars, bootVars>>
-----------------------------------------------------------------------------
(* enqueueConsolidation, called by the parse worker and by an administrator. *)

ConsolidateRead(r, ids, force) ==
  /\ \E s \in ids : source[s] = "PARSED"
  /\ Proceed(r, [Idle EXCEPT !.op = "latest", !.ids = ids, !.force = force])
  /\ UNCHANGED <<parseVars, draftVars, bootVars>>

\* Mutant for OneEmptyDraft: a forced version is new even when the latest draft is empty.
MutantForceIsNew(d, force) ==
  IF drafts[d].status = "PUBLISHED" \/ drafts[d].weeks = "full" \/ force
  THEN {FALSE} ELSE {TRUE}

\* shouldReuseInFlightDraft: with force, a draft without topics only.
Reusable(d, force) ==
  CASE drafts[d].status = "PUBLISHED" \/ drafts[d].weeks = "full" -> {FALSE}
    [] drafts[d].weeks = "short" /\ force -> BOOLEAN
    [] OTHER -> {TRUE}

ReadLatest(c) ==
  /\ req[c].op = "latest"
  /\ \/ Latest = {} /\ req' = [req EXCEPT ![c].op = "draft"]
     \/ \E d \in Latest : \E reuse \in Reusable(d, req[c].force) :
          req' = [req EXCEPT ![c].op = "draft", ![c].draft = d,
                             ![c].version = drafts[d].version,
                             ![c].reuse = reuse]
  /\ UNCHANGED <<parseVars, draftVars, bootVars>>

\* A throw ends the request, or makes the attempt of the parse job fail.
EnqueueThrows(c) ==
  /\ Finish(c)
  /\ IF c = Worker THEN ParseThrows ELSE UNCHANGED parseVars

ReuseDraft(c) ==
  LET d == req[c].draft IN
  /\ req[c].op = "draft" /\ req[c].reuse
  /\ \/ /\ d \in Rows
        /\ drafts' = [drafts EXCEPT ![d].ids = req[c].ids]
        /\ Step(c, "enqueue")
        /\ UNCHANGED parseVars
     \/ d \notin Rows /\ EnqueueThrows(c) /\ UNCHANGED drafts
  /\ UNCHANGED <<merges, merger, bootVars>>

\* nextCurriculumVersion
NextVersion(latest) == latest + 1

NewDraft(v, ids) ==
  [version |-> v, status |-> "DRAFT", ids |-> ids, weeks |-> "none"]

\* The unique index on subject, class level and version refuses a second row.
\* (A row past the bound MaxDrafts is refused in the same way.)
CreateDraft(c) ==
  LET v == NextVersion(req[c].version)
      refused == Taken(v) \/ Len(drafts) = MaxDrafts
  IN
  /\ req[c].op = "draft" /\ ~req[c].reuse
  /\ \/ /\ ~refused
        /\ drafts' = Append(drafts, NewDraft(v, req[c].ids))
        /\ merges' = Append(merges, NoMerge)
        /\ req' = [req EXCEPT ![c].op = "enqueue", ![c].draft = Len(drafts) + 1]
        /\ UNCHANGED parseVars
     \/ refused /\ EnqueueThrows(c) /\ UNCHANGED <<drafts, merges>>
  /\ UNCHANGED <<merger, bootVars>>

\* A job of the draft that is waiting, delayed or active is left as it is.  A
\* prioritized one is removed, and added again with the sources of this call.
QueueMerge(c) ==
  LET d == req[c].draft
      anew == [merges EXCEPT ![d] = [state |-> "prioritized", made |-> 0,
                                     ids |-> req[c].ids]]
  IN
  /\ req[c].op = "enqueue"
  /\ \/ merges[d].state \in {"none", "prioritized", "waiting"} /\ merges' = anew
     \/ merges[d].state \in {"waiting", "active", "ghost"} /\ UNCHANGED merges
  /\ Finish(c)
  /\ parser' = IF c = Worker THEN Resting ELSE parser
  /\ UNCHANGED <<source, waiting, ghosts, drafts, merger, bootVars>>
-----------------------------------------------------------------------------
(* The consolidation worker: ConsolidationProcessor.process and            *)
(* consolidateAgoraCurriculum.                                             *)

MergeThrows(d) ==
  LET m == merges[d] IN
  /\ merges' = [merges EXCEPT ![d] =
       IF m.made + 1 < Attempts
       THEN [m EXCEPT !.state = "waiting", !.made = m.made + 1] ELSE NoMerge]
  /\ merger' = Unmerging

\* The draft of the job; if it was deleted, a first version takes its place.
TakeMerge(d) ==
  LET refused == Taken(1) \/ Len(drafts) = MaxDrafts IN
  /\ Running /\ merger.at = "idle"
  /\ merges[d].state \in {"prioritized", "waiting"}
  /\ \/ /\ d \in Rows
        /\ merges' = [merges EXCEPT ![d].state = "active"]
        /\ merger' = [job |-> d, target |-> d, at |-> "assign"]
        /\ UNCHANGED drafts
     \/ /\ d \notin Rows /\ ~refused
        /\ drafts' = Append(drafts, NewDraft(1, merges[d].ids))
        /\ merges' = Append([merges EXCEPT ![d].state = "active"], NoMerge)
        /\ merger' = [job |-> d, target |-> Len(drafts) + 1,
                      at |-> "assign"]
     \/ d \notin Rows /\ refused /\ MergeThrows(d) /\ UNCHANGED drafts
  /\ UNCHANGED <<parseVars, req, bootVars>>

\* The list of the job replaces the list of the draft.
AssignIds ==
  LET d == merger.target IN
  /\ merger.at = "assign"
  /\ \/ /\ d \in Rows
        /\ drafts' = [drafts EXCEPT ![d].ids = merges[merger.job].ids]
        /\ merger' = [merger EXCEPT !.at = "read"]
        /\ UNCHANGED merges
     \/ d \notin Rows /\ MergeThrows(merger.job) /\ UNCHANGED drafts
  /\ UNCHANGED <<parseVars, req, bootVars>>

EndMerge ==
  /\ merges' = [merges EXCEPT ![merger.job] = NoMerge]
  /\ merger' = Unmerging

\* The draft and its sources are read, and sent to the model.
ReadSources ==
  LET d == merger.target IN
  /\ merger.at = "read"
  /\ \/ /\ d \in Rows
        /\ merger' = [merger EXCEPT !.at = "commit"]
        /\ UNCHANGED merges
     \/ d \notin Rows /\ EndMerge
  /\ UNCHANGED <<parseVars, drafts, req, bootVars>>

\* The normalised answer is a complete year, written in one transaction.
CommitMerge ==
  LET d == merger.target IN
  /\ merger.at = "commit" /\ d \in Rows
  /\ drafts' = [drafts EXCEPT ![d].weeks = "full"]
  /\ EndMerge
  /\ UNCHANGED <<parseVars, req, bootVars>>

MergeFails ==
  /\ merger.at = "commit"
  /\ MergeThrows(merger.job)
  /\ UNCHANGED <<parseVars, drafts, req, bootVars>>
-----------------------------------------------------------------------------
(* The administrator's requests about a draft.                             *)

\* publishCurriculum reads the topics, which must be those of a complete year,
\* and then marks the row.
PublishRead(r, d) ==
  /\ d \in Rows /\ drafts[d].weeks = "full"
  /\ Proceed(r, [Idle EXCEPT !.op = "publish", !.draft = d])
  /\ UNCHANGED <<parseVars, draftVars, bootVars>>

PublishMark(r) ==
  LET d == req[r].draft IN
  /\ req[r].op = "publish"
  /\ drafts' = IF d \in Rows THEN [drafts EXCEPT ![d].status = "PUBLISHED"]
               ELSE drafts
  /\ Finish(r)
  /\ UNCHANGED <<parseVars, merges, merger, bootVars>>

\* publishCurriculum with status DRAFT takes the row back ...
Unpublish(d) ==
  /\ phase = "up" /\ d \in Rows
  /\ drafts' = [drafts EXCEPT ![d].status = "DRAFT"]
  /\ UNCHANGED <<parseVars, merges, merger, req, bootVars>>

\* A job of d is queued, or a call is about to queue one or to open a version.
Consolidating(d) ==
  merges[d].state # "none" \/ \E c \in Callers : req[c].op \in {"draft", "enqueue"}

\* ... and deleteCurriculum deletes it with its topics, but not its job.
DeleteDraft(d) ==
  /\ phase = "up" /\ d \in Rows
  /\ drafts' = [drafts EXCEPT ![d] = Gone]
  /\ hasty' = (hasty \/ Consolidating(d))
  /\ UNCHANGED <<parseVars, merges, merger, req, phase, requeue, crashes>>

\* addTopic and deleteTopic, of any draft, published or not.
EditTopics(d, weeks) ==
  /\ phase = "up" /\ d \in Rows
  /\ weeks = "short" \/ drafts[d].weeks # "none"
  /\ drafts' = [drafts EXCEPT ![d].weeks = weeks]
  /\ UNCHANGED <<parseVars, merges, merger, req, bootVars>>
-----------------------------------------------------------------------------
(* Crash and restart: onModuleInit.                                        *)

Crash ==
  LET s == parser.source IN
  /\ Running /\ crashes < MaxCrashes
  /\ crashes' = crashes + 1
  /\ phase' = "down" /\ requeue' = {}
  /\ ghosts' = IF parser.at = "idle" THEN ghosts
               ELSE [ghosts EXCEPT ![<<s, parser.made>>] = @ + 1]
  /\ parser' = Resting
  /\ merges' = [d \in DOMAIN merges |->
       IF merges[d].state = "active" THEN [merges[d] EXCEPT !.state = "ghost"]
       ELSE merges[d]]
  /\ merger' = Unmerging
  /\ req' = [c \in Callers |-> Idle]
  /\ UNCHANGED <<source, waiting, drafts, hasty>>

Restart ==
  /\ phase = "down" /\ phase' = "ghosts"
  /\ UNCHANGED <<parseVars, draftVars, req, requeue, history>>

\* moveToFailed of every active job throws, and is ignored, unless the lock
\* allows it; a job so moved is retried while it has attempts left.
FailGhosts ==
  /\ phase = "ghosts" /\ phase' = "reset"
  /\ \E K \in SUBSET {k \in DOMAIN ghosts : ghosts[k] > 0},
        D \in SUBSET {d \in DOMAIN merges : merges[d].state = "ghost"} :
       /\ ghosts' = [k \in DOMAIN ghosts |-> IF k \in K THEN 0 ELSE ghosts[k]]
       /\ waiting' = [k \in DOMAIN waiting |->
            IF k[2] > 0 /\ <<k[1], k[2] - 1>> \in K
            THEN waiting[k] + ghosts[<<k[1], k[2] - 1>>] ELSE waiting[k]]
       /\ merges' = [d \in DOMAIN merges |->
            IF d \notin D THEN merges[d]
            ELSE IF merges[d].made + 1 < Attempts
            THEN [merges[d] EXCEPT !.state = "waiting", !.made = @ + 1]
            ELSE NoMerge]
  /\ UNCHANGED <<source, parser, drafts, merger, req, requeue, history>>

\* Mutant for ParsingKeepsJob: onModuleInit leaves the sources that were being parsed.
MutantNoReset ==
  /\ phase = "reset" /\ phase' = "drain"
  /\ UNCHANGED <<parseVars, draftVars, req, requeue, history>>

ResetParsing ==
  /\ phase = "reset" /\ phase' = "drain"
  /\ source' = [s \in Sources |->
       IF source[s] = "PARSING" THEN "FAILED" ELSE source[s]]
  /\ UNCHANGED <<waiting, ghosts, parser, draftVars, req, requeue, history>>

Requeueing(S) ==
  /\ requeue' = S
  /\ phase' = IF S = {} THEN "up" ELSE "requeue"

\* Mutant for PendingTaken: the queue is drained and nothing is queued again.
MutantDrainOnly ==
  /\ phase = "drain" /\ phase' = "up"
  /\ waiting' = [k \in DOMAIN waiting |-> 0]
  /\ UNCHANGED <<source, ghosts, parser, draftVars, req, requeue, history>>

\* The queue is emptied of waiting and delayed jobs, the pending sources read.
DrainQueue ==
  /\ phase = "drain"
  /\ waiting' = [k \in DOMAIN waiting |-> 0]
  /\ Requeueing({s \in Sources : source[s] = "PENDING_PARSE"})
  /\ UNCHANGED <<source, ghosts, parser, draftVars, req, history>>

RequeueSource(s) ==
  /\ phase = "requeue" /\ s \in requeue
  /\ AddJob(s)
  /\ Requeueing(requeue \ {s})
  /\ UNCHANGED <<source, ghosts, parser, draftVars, req, history>>

\* BullMQ finds an active job without a live worker: it waits again, or it
\* fails when that happened to it before.
StalledParse(s, m) ==
  /\ Running /\ ghosts[<<s, m>>] > 0
  /\ ghosts' = [ghosts EXCEPT ![<<s, m>>] = @ - 1]
  /\ waiting' \in {waiting, [waiting EXCEPT ![<<s, m>>] = @ + 1]}
  /\ UNCHANGED <<source, parser, draftVars, req, bootVars>>

StalledMerge(d) ==
  /\ Running /\ merges[d].state = "ghost"
  /\ merges' \in {[merges EXCEPT ![d].state = "waiting"],
                  [merges EXCEPT ![d] = NoMerge]}
  /\ UNCHANGED <<parseVars, drafts, merger, req, bootVars>>
-----------------------------------------------------------------------------
\* What a request does next is a step of its handler.
Continue(r) ==
  \/ AddSourceJob(r) \/ RetryMark(r) \/ CancelJob(r) \/ CancelMark(r)
  \/ DeleteRow(r) \/ PublishMark(r)

Enqueue(c) == ReadLatest(c) \/ ReuseDraft(c) \/ CreateDraft(c) \/ QueueMerge(c)

Parse ==
  \/ \E s \in Sources, m \in 0 .. Attempts - 1 : TakeJob(s, m)
  \/ MarkParsing \/ StoreParsed \/ ParseFails \/ AutoConsolidate

MergeStep ==
  \/ \E d \in DOMAIN merges : TakeMerge(d)
  \/ AssignIds \/ ReadSources \/ CommitMerge \/ MergeFails

Boot ==
  \/ Restart \/ FailGhosts \/ ResetParsing \/ DrainQueue
  \/ \E s \in Sources : RequeueSource(s)

Stalled ==
  \/ \E s \in Sources, m \in 0 .. Attempts - 1 : StalledParse(s, m)
  \/ \E d \in DOMAIN merges : StalledMerge(d)

AskOfSource(r) ==
  \E s \in Sources :
    RetryRead(r, s) \/ CancelRead(r, s) \/ DeleteRead(r, s)

AskOfDraft(r) ==
  \/ \E ids \in SUBSET Sources, force \in BOOLEAN : ConsolidateRead(r, ids, force)
  \/ \E d \in DOMAIN drafts : PublishRead(r, d)

EditDraft ==
  \E d \in DOMAIN drafts :
    \/ Unpublish(d) \/ DeleteDraft(d)
    \/ \E weeks \in Weeks \ {"none"} : EditTopics(d, weeks)

\* What goes on whether or not the administrator asks for anything more.
Proceeding ==
  \/ \E r \in Requests : (\E s \in Sources : CreateSource(r, s)) \/ Continue(r)
  \/ \E c \in Callers : Enqueue(c)
  \/ Parse \/ MergeStep \/ Boot \/ Stalled

Next ==
  \/ Proceeding \/ EditDraft \/ Crash
  \/ \E r \in Requests : AskOfSource(r) \/ AskOfDraft(r)

Spec == Init /\ [][Next]_vars

\* The event loop runs every handler on, BullMQ hands out the jobs that wait
\* and finds the stalled ones, the process is restarted.
Fairness ==
  /\ \A r \in Requests : WF_vars(Continue(r))
  /\ \A c \in Callers : WF_vars(Enqueue(c))
  /\ \A s \in Sources, m \in 0 .. Attempts - 1 : SF_vars(TakeJob(s, m))
  /\ WF_vars(Parse) /\ WF_vars(MergeStep) /\ WF_vars(Boot) /\ WF_vars(Stalled)

FairSpec == Spec /\ Fairness
-----------------------------------------------------------------------------
(* Properties *)

\* A draft that never had a topic is the one in flight.
Empty(d) == drafts[d].status = "DRAFT" /\ drafts[d].weeks = "none"

\* There is one such draft ("One in-flight DRAFT per subject+grade",
\* agora-curriculum.service.ts:614): it breaks when a draft is deleted whose job
\* waits, as the job then opens a first version beside what there is.
OneDraftInFlight == \A d, e \in Rows : Empty(d) /\ Empty(e) => d = e

\* As long as no draft is deleted under a consolidation there is one, whatever
\* else is deleted, edited, published or cut short: two calls that both read
\* the same latest row cannot both add a version, and one that finds an empty
\* draft reuses it.
OneEmptyDraft == hasty \/ OneDraftInFlight

\* The failing of a stalled job, of which the source is told nothing.
Dropped(s, m) ==
  ghosts'[<<s, m>>] < ghosts[<<s, m>>] /\ waiting' = waiting /\ source' = source

Orphaned(s) ==
  /\ phase \in {"drain", "requeue", "up"}
  /\ source[s] = "PARSING" /\ ~Held(s) /\ ~Queued(s)
  /\ ~ \E r \in Requests : req[r].source = s /\ req[r].op \in {"fail", "delete"}

\* A source in PARSING keeps a job that will settle it, or a cancellation
\* about to, over retries, cancellations, crashes and the reconciliation: only
\* the drain of the queue, and BullMQ failing a job that stalled, take the last.
ParsingKeepsJob ==
  [][phase # "drain" =>
       \A s \in Sources :
         Orphaned(s)' => Orphaned(s) \/ \E m \in 0 .. Attempts - 1 : Dropped(s, m)
    ]_vars

\* A source that was uploaded or retried gets its turn with the worker, or is
\* cancelled or deleted, whatever crashes come between the row and its job.
PendingTaken ==
  \A s \in Sources : source[s] = "PENDING_PARSE" ~> source[s] # "PENDING_PARSE"
=============================================================================
