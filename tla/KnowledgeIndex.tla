--------------------------- MODULE KnowledgeIndex ---------------------------
(***************************************************************************)
(* One document of a school's knowledge base and the jobs that compute its *)
(* embedding (school-settings/school-settings.service.ts,                  *)
(* ai/vector.processor.ts, ai/knowledge-indexing.service.ts).              *)
(*                                                                         *)
(* A document is a row without a vector, and jobs that name it.  Jobs have *)
(* no id of their own, so any number may be about one document; of those   *)
(* that have failed BullMQ only keeps a record.  Bounds: Slots jobs at a   *)
(* time, MaxErrors errors of the embedding service, MaxStops restarts.     *)
(***************************************************************************)
EXTENDS Naturals

CONSTANTS
  Slots,
  Attempts,         \* attempts of a job of the vector queue
  MaxErrors, MaxStops

VARIABLES
  chunk,            \* KnowledgeChunk: is it there, and has it a vector?
  embedJobs,        \* the jobs of the vector queue about it
  failedJobs,       \* some job about it has failed for good
  upload, removal, nightly,  \* what the handlers and the cron job do next
  errors, stops

indexVars == <<chunk, embedJobs, failedJobs, upload, removal, nightly, errors, stops>>
-----------------------------------------------------------------------------
ASSUME IndexAssumption ==
  Attempts \in Nat \ {0} /\ MaxErrors \in Nat /\ MaxStops \in Nat

\* read: its job has found the row; vector: the service has answered.
JobStates == {"absent", "waiting", "active", "read", "vector"}
EmbedJob == [state : JobStates, tries : 0 .. Attempts - 1, stalled : BOOLEAN]
NoEmbedJob == [state |-> "absent", tries |-> 0, stalled |-> FALSE]

IndexTypeOK ==
  /\ chunk \in {"none", "plain", "embedded", "gone"}
  /\ embedJobs \in [Slots -> EmbedJob] /\ failedJobs \in BOOLEAN
  /\ upload \in BOOLEAN /\ removal \in BOOLEAN /\ nightly \in BOOLEAN
  /\ errors \in 0 .. MaxErrors /\ stops \in 0 .. MaxStops

IndexInit ==
  /\ chunk = "none" /\ embedJobs = [s \in Slots |-> NoEmbedJob] /\ failedJobs = FALSE
  /\ upload = FALSE /\ removal = FALSE /\ nightly = FALSE
  /\ errors = 0 /\ stops = 0
-----------------------------------------------------------------------------
\* vectorQueue.add
Enqueue ==
  \E s \in Slots :
    /\ embedJobs[s].state = "absent"
    /\ embedJobs' = [embedJobs EXCEPT ![s].state = "waiting"]

\* createKnowledgeDocument: the row, then the job.
Upload ==
  /\ chunk = "none" /\ chunk' = "plain" /\ upload' = TRUE
  /\ UNCHANGED <<embedJobs, failedJobs, removal, nightly, errors, stops>>

UploadQueue ==
  /\ upload /\ upload' = FALSE
  /\ Enqueue
  /\ UNCHANGED <<chunk, failedJobs, removal, nightly, errors, stops>>

\* deleteKnowledgeDocument leaves the jobs alone.
Removal ==
  /\ chunk \in {"plain", "embedded"} /\ ~removal /\ removal' = TRUE
  /\ UNCHANGED <<chunk, embedJobs, failedJobs, upload, nightly, errors, stops>>

RemovalDelete ==
  /\ removal /\ removal' = FALSE
  /\ chunk' = "gone"
  /\ UNCHANGED <<embedJobs, failedJobs, upload, nightly, errors, stops>>

\* syncSchool, by hand: whether there is a vector or not.
Resync ==
  /\ chunk \in {"plain", "embedded"}
  /\ Enqueue
  /\ UNCHANGED <<chunk, failedJobs, upload, removal, nightly, errors, stops>>

\* handleNightlySync: the rows without a vector, then a job for each of them.
\* A mistake: what has failed for good is given up.
MutantMissing == chunk = "plain" /\ ~failedJobs
Missing == chunk = "plain"

NightlyRead ==
  /\ ~nightly /\ nightly' = Missing
  /\ UNCHANGED <<chunk, embedJobs, failedJobs, upload, removal, errors, stops>>

NightlyQueue ==
  /\ nightly /\ nightly' = FALSE
  /\ Enqueue
  /\ UNCHANGED <<chunk, failedJobs, upload, removal, errors, stops>>
-----------------------------------------------------------------------------
(* VectorProcessor, one job at a time. *)

SetJob(s, state) == embedJobs' = [embedJobs EXCEPT ![s].state = state]

TakeJob ==
  /\ \A s \in Slots : embedJobs[s].state \in {"absent", "waiting"}
  /\ \E s \in Slots :
       /\ embedJobs[s].state = "waiting"
       /\ SetJob(s, "active")
  /\ UNCHANGED <<chunk, failedJobs, upload, removal, nightly, errors, stops>>

Done(s) == embedJobs' = [embedJobs EXCEPT ![s] = NoEmbedJob]

\* A failed attempt is made again, up to the number of attempts.
Failed(s) ==
  IF embedJobs[s].tries + 1 < Attempts
  THEN /\ embedJobs' = [embedJobs EXCEPT ![s] =
            [@ EXCEPT !.state = "waiting", !.tries = @ + 1]]
       /\ UNCHANGED failedJobs
  ELSE Done(s) /\ failedJobs' = TRUE

FindChunk(s) ==
  /\ embedJobs[s].state = "active"
  /\ IF chunk \in {"plain", "embedded"} THEN SetJob(s, "read") ELSE Done(s)
  /\ UNCHANGED <<chunk, failedJobs, upload, removal, nightly, errors, stops>>

CreateEmbedding(s) ==
  /\ embedJobs[s].state = "read"
  /\ SetJob(s, "vector")
  /\ UNCHANGED <<chunk, failedJobs, upload, removal, nightly, errors, stops>>

EmbeddingFails(s) ==
  /\ embedJobs[s].state = "read"
  /\ errors < MaxErrors /\ errors' = errors + 1
  /\ Failed(s)
  /\ UNCHANGED <<chunk, upload, removal, nightly, stops>>

\* UPDATE ... WHERE "id" = $2: nothing when the row is gone.
SaveVector(s) ==
  /\ embedJobs[s].state = "vector"
  /\ chunk' = IF chunk = "plain" THEN "embedded" ELSE chunk
  /\ Done(s)
  /\ UNCHANGED <<failedJobs, upload, removal, nightly, errors, stops>>

WorkOn(s) == FindChunk(s) \/ CreateEmbedding(s) \/ EmbeddingFails(s) \/ SaveVector(s)
-----------------------------------------------------------------------------
\* The process restarts: handlers end where they are, and a job that was running
\* is found stalled and waits again, once; the second time it fails.
StopProcess ==
  /\ stops < MaxStops /\ stops' = stops + 1
  /\ embedJobs' = [s \in Slots |->
       LET j == embedJobs[s] IN
       IF j.state \in {"absent", "waiting"} THEN j
       ELSE IF j.stalled THEN NoEmbedJob
       ELSE [j EXCEPT !.state = "waiting", !.stalled = TRUE]]
  /\ failedJobs' = (failedJobs \/ \E s \in Slots :
       embedJobs[s].stalled /\ embedJobs[s].state \notin {"absent", "waiting"})
  /\ upload' = FALSE /\ removal' = FALSE /\ nightly' = FALSE
  /\ UNCHANGED <<chunk, errors>>

IndexNext ==
  \/ Upload \/ UploadQueue \/ Removal \/ RemovalDelete \/ Resync
  \/ NightlyRead \/ NightlyQueue
  \/ TakeJob \/ \E s \in Slots : WorkOn(s)
  \/ StopProcess

IndexSpec == IndexInit /\ [][IndexNext]_indexVars

\* The worker takes jobs and goes on with them, the cron job fires every night and
\* ends; nothing makes the service answer but that its errors are bounded.
IndexFairness ==
  /\ WF_indexVars(TakeJob) /\ WF_indexVars(\E s \in Slots : WorkOn(s))
  /\ WF_indexVars(NightlyRead) /\ WF_indexVars(NightlyQueue)
-----------------------------------------------------------------------------
(* Properties *)

\* Every document gets its vector or is deleted, also when the process died before
\* its job was queued and when its job has failed for good ("Safety net: re-embed
\* handbook/policy chunks that never got a vector").
EmbeddedOrDeleted == chunk = "plain" ~> chunk # "plain"
=============================================================================
