-------------------------- MODULE Curriculum_proofs --------------------------
(***************************************************************************)
(* Proofs about the curriculum library.  FullYear, for any number of       *)
(* terms, weeks and editors, any reserved weeks and any answers of the     *)
(* model: the types, and that what was consolidated is complete.           *)
(* CurriculumPipeline, for any number of sources, drafts, requests,        *)
(* attempts and crashes: the types, that what is being parsed keeps a job, *)
(* and that consolidations leave no two drafts without topics.             *)
(***************************************************************************)
EXTENDS FullYear, CurriculumPipeline, TableFacts
-----------------------------------------------------------------------------
(* The topics of a year.                                                   *)

\* What is about to be committed has its reserved weeks.
JobOK == job.op = "commit" => Asserted(job.year)

\* The inductive invariant.
YearInv == YearTypeOK /\ JobOK /\ ConsolidatedCanBePublished

LEMMA YearInPlaces ==
  /\ Year \subseteq Places
  /\ \A p \in Places : p[1] \in YearTerms /\ p[2] \in 1 .. MaxWeek
  /\ \A p \in Year : p[2] \in 1 .. YearWeeks
BY YearAssumption DEF Year, Places

LEMMA LastWeekTyped ==
  ASSUME YearTypeOK
  PROVE  LastWeek \in 0 .. MaxWeek
<1>1. CASE Present = {}
  BY <1>1, YearAssumption DEF LastWeek
<1>2. CASE Present # {}
  <2> DEFINE W == {p[2] : p \in Present}
  <2>1. W \in SUBSET (1 .. MaxWeek) /\ W # {}
    BY <1>2, YearInPlaces DEF Present
  <2>2. PICK w \in W : \A v \in W : v <= w
    BY <2>1, NewestExists, YearAssumption
  <2>3. \E p \in Present : \A q \in Present : q[2] <= p[2]
    BY <2>2
  <2> DEFINE last == CHOOSE p \in Present : \A q \in Present : q[2] <= p[2]
  <2>4. last \in Present
    BY <2>3
  <2>5. LastWeek = last[2]
    BY <1>2 DEF LastWeek
  <2>6. last[2] \in 1 .. MaxWeek
    BY <2>1, <2>4
  <2>7. QED
    BY <2>5, <2>6, YearAssumption
<1>3. QED
  BY <1>1, <1>2

\* A transaction that knew every row leaves exactly the year.
LEMMA CommitCompletes ==
  ASSUME YearInv, Commit
  PROVE  YearInv'
<1>1. job' = NoJob /\ job' \in Jobs /\ edit' = edit /\ edits' = edits /\ job.op = "commit"
  BY DEF Commit, Jobs
<1>2. job.year \in [Year -> Titles] /\ Asserted(job.year) /\ Known \subseteq Places
      /\ job.seen \in [Known -> Places]
  <2>1. PICK S \in SUBSET Places : job.seen \in [S -> Places]
    BY <1>1 DEF YearInv, YearTypeOK, Jobs, NoJob
  <2>2. Known = S
    BY <2>1 DEF Known
  <2>3. QED
    BY <1>1, <2>1, <2>2 DEF YearInv, YearTypeOK, JobOK, Jobs, NoJob
<1>3. CASE UNCHANGED <<row, title, fresh>>
  BY <1>1, <1>3 DEF YearInv, YearTypeOK, JobOK, NoJob,
     ConsolidatedCanBePublished, Complete, LiveRows
<1>4. CASE /\ ~Clashes
           /\ row' = [p \in Places |-> Merged(p)]
           /\ title' = [p \in Places |-> Retitled(p)]
           /\ fresh' = (~Moved /\ Strangers = {})
  <2>1. \A p \in Places : Merged(p) \in {"none", "live", "deprecated"}
    BY DEF YearInv, YearTypeOK, Merged
  <2>2. ASSUME NEW p \in Places PROVE Retitled(p) \in Titles
    <3>1. ASSUME NEW s \in From(p) \cap Year
          PROVE  job.year[CHOOSE u \in From(p) : TRUE] \in Titles
      <4>1. \A u \in From(p) : u = s
        BY <1>4 DEF From, Clashes
      <4>2. (CHOOSE u \in From(p) : TRUE) = s
        BY <4>1
      <4>3. QED
        BY <4>2, <1>2
    <3>2. title[p] \in Titles /\ {} \in Titles
      BY DEF YearInv, YearTypeOK, Titles
    <3>3. p \in Year => job.year[p] \in Titles
      BY <1>2
    <3>4. QED
      BY <3>1, <3>2, <3>3 DEF Retitled
  <2>3. YearTypeOK'
    <3>1. row' \in [Places -> {"none", "live", "deprecated"}] /\ title' \in [Places -> Titles]
      BY <1>4, <2>1, <2>2
    <3>2. fresh' \in BOOLEAN
      BY <1>4
    <3>3. QED
      BY <1>1, <3>1, <3>2 DEF YearInv, YearTypeOK
  <2>4. ASSUME fresh', NEW p \in Places PROVE From(p) = {p} \cap Known
    <3>1. \A s \in Known : job.seen[s] = s
      BY <1>4, <2>4 DEF Moved
    <3>2. \A s \in Known : Target(s) = s
      BY <3>1, <1>2 DEF Target, Places, Year
    <3>3. QED
      BY <3>2 DEF From
  <2>5. ASSUME fresh' PROVE LiveRows' = Year
    <3>1. ASSUME NEW p \in Places PROVE Merged(p) = "live" <=> p \in Year
      <4>1. From(p) = {p} \cap Known /\ Strangers = {}
        BY <2>4, <2>5, <1>4
      <4>2. QED
        BY <4>1 DEF Merged
    <3>2. QED
      BY <3>1, <1>4, YearInPlaces DEF LiveRows
  <2>6. ASSUME fresh', NEW p \in Year PROVE title'[p] = job.year[p]
    <3>1. From(p) = {p} \cap Known /\ p \in Places
      BY <2>4, <2>6, YearInPlaces
    <3>2. title'[p] = Retitled(p)
      BY <3>1, <1>4
    <3>3. CASE p \in Known
      <4>1. From(p) = {p} /\ From(p) \cap Year # {}
        BY <3>1, <3>3
      <4>2. (CHOOSE s \in From(p) : TRUE) = p
        BY <4>1
      <4>3. QED
        BY <3>2, <3>3, <4>1, <4>2 DEF Retitled
    <3>4. CASE p \notin Known
      BY <3>2, <3>4 DEF Retitled
    <3>5. QED
      BY <3>3, <3>4
  <2>7. ConsolidatedCanBePublished'
    BY <2>5, <2>6, <1>2 DEF ConsolidatedCanBePublished, Complete, Asserted
  <2>8. QED
    BY <2>3, <2>7, <1>1 DEF YearInv, JobOK, NoJob
<1>5. QED
  BY <1>3, <1>4 DEF Commit

\* A row that is moved is followed by the consolidation that has read it.
LEMMA UpdateKeeps ==
  ASSUME YearInv, UpdateTopic
  PROVE  YearInv'
<1>1. PICK p \in Present, q \in Places, t \in Titles, state \in {"live", "deprecated"} :
        /\ row' = [row EXCEPT ![p] = "none", ![q] = state]
        /\ title' = [title EXCEPT ![p] = {}, ![q] = t]
        /\ job' = Followed(p, q)
        /\ edits' = IF q = p THEN edits ELSE edits + 1
  BY DEF UpdateTopic
<1>2. fresh' = FALSE /\ edit' = edit
  BY DEF UpdateTopic
<1>3. job' \in Jobs /\ job'.op = job.op /\ job'.year = job.year
  <2>1. CASE job.op = "commit"
    <3>1. PICK S \in SUBSET Places : job.seen \in [S -> Places]
      BY <2>1 DEF YearInv, YearTypeOK, Jobs, NoJob
    <3> DEFINE seen == [s \in S |-> IF job.seen[s] = p THEN q ELSE job.seen[s]]
    <3>2. seen \in [S -> Places]
      BY <3>1
    <3>3. job \in [op : {"commit"}, seen : UNION {[R -> Places] : R \in SUBSET Places},
                   year : [Year -> Titles]]
      BY <2>1 DEF YearInv, YearTypeOK, Jobs, NoJob
    <3>4. job' = [job EXCEPT !.seen = seen]
      BY <1>1, <2>1, <3>1 DEF Followed
    <3> HIDE DEF seen
    <3>5. seen \in UNION {[R -> Places] : R \in SUBSET Places}
      BY <3>2
    <3>6. job' = [op |-> job.op, seen |-> seen, year |-> job.year]
      BY <3>3, <3>4
    <3>7. QED
      BY <3>3, <3>5, <3>6 DEF Jobs
  <2>2. CASE job.op # "commit"
    BY <1>1, <2>2 DEF Followed, YearInv, YearTypeOK
  <2>3. QED
    BY <2>1, <2>2
<1>4. row' \in [Places -> {"none", "live", "deprecated"}]
  BY <1>1 DEF YearInv, YearTypeOK
<1>5. title' \in [Places -> Titles]
  <2>1. {} \in Titles
    BY DEF Titles
  <2>2. QED
    BY <1>1, <2>1 DEF YearInv, YearTypeOK
<1>6. edits' \in Nat
  BY <1>1 DEF YearInv, YearTypeOK
<1>7. YearTypeOK'
  BY <1>2, <1>3, <1>4, <1>5, <1>6 DEF YearInv, YearTypeOK
<1>8. JobOK' /\ ConsolidatedCanBePublished'
  BY <1>2, <1>3 DEF YearInv, JobOK, ConsolidatedCanBePublished, Asserted
<1>9. QED
  BY <1>7, <1>8 DEF YearInv

LEMMA YearStep ==
  ASSUME YearInv, [YearNext]_yearVars
  PROVE  YearInv'
<1> USE DEF YearInv
<1>1. CASE Consolidate
  <2>1. PICK year \in Outcomes : job' = [op |-> "commit", seen |-> [p \in Present |-> p],
                                         year |-> year]
    BY <1>1 DEF Consolidate
  <2>2. year \in [Year -> Titles] /\ Asserted(year)
    BY DEF Outcomes
  <2>3. job' \in Jobs
    <3>1. Present \subseteq Places
      BY DEF Present
    <3>2. [p \in Present |-> p] \in [Present -> Places]
      BY <3>1
    <3>3. [p \in Present |-> p] \in UNION {[S -> Places] : S \in SUBSET Places}
      BY <3>1, <3>2
    <3>4. QED
      BY <2>1, <2>2, <3>3 DEF Jobs
  <2>4. QED
    BY <1>1, <2>1, <2>2, <2>3 DEF Consolidate, YearTypeOK, JobOK,
       ConsolidatedCanBePublished, Complete, LiveRows
<1>2. CASE Commit
  BY <1>2, CommitCompletes
<1>3. CASE Lose
  BY <1>3 DEF Lose, YearTypeOK, JobOK, Jobs, NoJob,
     ConsolidatedCanBePublished, Complete, LiveRows
<1>4. CASE DeleteTopic
  BY <1>4 DEF DeleteTopic, YearTypeOK, JobOK, ConsolidatedCanBePublished
<1>5. CASE UpdateTopic
  BY <1>5, UpdateKeeps
<1>6. ASSUME NEW e \in Editors, AddRead(e) PROVE YearInv'
  <2>1. PICK t \in YearTerms :
          edit' = [edit EXCEPT ![e] = [op |-> "add", term |-> t, week |-> LastWeek + 1]]
    BY <1>6 DEF AddRead
  <2>2. LastWeek + 1 \in 0 .. MaxWeek + 1
    BY LastWeekTyped, YearAssumption
  <2>3. [op |-> "add", term |-> t, week |-> LastWeek + 1] \in Edits
    BY <2>2 DEF Edits
  <2>4. edit' \in [Editors -> Edits]
    BY <2>1, <2>3 DEF YearTypeOK
  <2>5. QED
    BY <1>6, <2>4 DEF AddRead, YearTypeOK, JobOK, ConsolidatedCanBePublished,
       Complete, LiveRows
<1>7. ASSUME NEW e \in Editors, AddWrite(e) PROVE YearInv'
  <2>1. NoEdit \in Edits
    BY YearAssumption DEF NoEdit, Edits
  <2>2. edit' \in [Editors -> Edits] /\ job' = job /\ edits' = edits
    BY <1>7, <2>1 DEF AddWrite, YearTypeOK
  <2>3. \/ UNCHANGED <<row, title, fresh>>
        \/ /\ row' \in [Places -> {"none", "live", "deprecated"}]
           /\ title' \in [Places -> Titles] /\ fresh' = FALSE
    BY <1>7 DEF AddWrite, YearTypeOK
  <2>4. YearTypeOK'
    BY <2>2, <2>3 DEF YearTypeOK
  <2>5. ConsolidatedCanBePublished'
    BY <2>3 DEF ConsolidatedCanBePublished, Complete, LiveRows
  <2>6. QED
    BY <2>2, <2>4, <2>5 DEF JobOK
<1>8. CASE UNCHANGED yearVars
  BY <1>8 DEF yearVars, YearTypeOK, JobOK, ConsolidatedCanBePublished, Complete, LiveRows
<1>9. QED
  BY <1>1, <1>2, <1>3, <1>4, <1>5, <1>6, <1>7, <1>8 DEF YearNext

LEMMA YearInvariant == YearSpec => []YearInv
<1>1. YearInit => YearInv
  <2> SUFFICES ASSUME YearInit PROVE YearInv
    OBVIOUS
  <2>1. NoEdit \in Edits /\ NoJob \in Jobs /\ {} \in Titles
    BY YearAssumption DEF NoEdit, Edits, Jobs, Titles
  <2>2. YearTypeOK
    BY <2>1 DEF YearInit, YearTypeOK
  <2>3. JobOK /\ ConsolidatedCanBePublished
    BY DEF YearInit, JobOK, NoJob, ConsolidatedCanBePublished
  <2>4. QED
    BY <2>2, <2>3 DEF YearInv
<1>2. YearInv /\ [YearNext]_yearVars => YearInv'
  BY YearStep
<1>3. QED
  BY <1>1, <1>2, PTL DEF YearSpec

\* The rows of a document, the consolidation at work and the editors' requests
\* keep their types, whatever the model answers.
THEOREM YearTyped == YearSpec => []YearTypeOK
<1>1. YearInv => YearTypeOK
  BY DEF YearInv
<1>2. QED
  BY <1>1, YearInvariant, PTL

\* A document that was consolidated and left alone has every week of the year
\* once, and publishCurriculum takes it, whatever the model answered and
\* whatever rows the document had before.
THEOREM ConsolidatedIsComplete == YearSpec => []ConsolidatedCanBePublished
<1>1. YearInv => ConsolidatedCanBePublished
  BY DEF YearInv
<1>2. QED
  BY <1>1, YearInvariant, PTL
-----------------------------------------------------------------------------
(* Sources and drafts.                                                     *)

\* No step of the queue leaves the attempts a job may have.
Made == 0 .. Attempts - 1

\* What a request or a worker has in hand is known: a source, or a draft's place.
SourceOps == {"add", "retry", "cancel", "fail", "delete"}
InHand ==
  \A c \in Callers :
    /\ req[c].op \in SourceOps => req[c].source \in Sources
    /\ req[c].op \in {"enqueue", "publish"} => req[c].draft \in DOMAIN drafts
    /\ req[c].op = "draft" /\ req[c].reuse => req[c].draft \in DOMAIN drafts
    /\ req[c].op = "latest" => ~req[c].reuse /\ req[c].version = 0
AtWork ==
  /\ parser.at = "idle" <=> parser.source = NoSource
  /\ merger.at # "idle" => merger.job \in DOMAIN merges /\ merger.target \in DOMAIN merges

\* The worker's own call is there from AutoConsolidate until it is answered, and
\* then the source it has parsed is not in PARSING again: nobody else sets that.
WorkerOK ==
  /\ req[Worker].op \in {"idle", "latest", "draft", "enqueue"}
  /\ req[Worker].op # "idle" <=> parser.at = "enqueue"
  /\ parser.at \in {"auto", "enqueue"} => source[parser.source] # "PARSING"

PipeInv == TypeOK /\ InHand /\ AtWork /\ WorkerOK
-----------------------------------------------------------------------------
(* What each step does to the request or the worker it belongs to, and to  *)
(* the queue: one lemma per action, named for it.                          *)

LEMMA IdleIs ==
  /\ Idle \in Request /\ Idle.op = "idle" /\ Idle.source = NoSource
  /\ Idle.draft = 0 /\ Idle.version = 0 /\ Idle.reuse = FALSE
BY DEF Idle, Request, Ops

\* What a step of the handler of c leaves of the requests.
Others(c) == req' \in [Callers -> Request] /\ \A o \in Callers \ {c} : req'[o] = req[o]

LEMMA Asked ==
  ASSUME req \in [Callers -> Request], NEW c \in Callers, NEW q \in Request,
         req' = [req EXCEPT ![c] = q]
  PROVE  Others(c) /\ req'[c] = q
BY DEF Others

LEMMA StepDoes ==
  ASSUME req \in [Callers -> Request], NEW c \in Callers, NEW op \in Ops, Step(c, op)
  PROVE  /\ Others(c)
         /\ req'[c].op = op /\ req'[c].source = req[c].source
         /\ req'[c].draft = req[c].draft /\ req'[c].reuse = req[c].reuse
         /\ req'[c].version = req[c].version
<1>1. PICK q \in Request : q = req[c]
  OBVIOUS
<1> DEFINE p == [q EXCEPT !.op = op]
<1>2. p \in Request
  BY DEF Request
<1>3. p.op = op /\ p.source = q.source /\ p.draft = q.draft /\ p.reuse = q.reuse
      /\ p.version = q.version
  BY DEF Request
<1>4. req' = [req EXCEPT ![c] = p]
  BY <1>1 DEF Step
<1> HIDE DEF p
<1>5. Others(c) /\ req'[c] = p
  BY <1>2, <1>4, Asked
<1>6. QED
  BY <1>1, <1>3, <1>5

LEMMA FinishDoes ==
  ASSUME req \in [Callers -> Request], NEW c \in Callers, Finish(c)
  PROVE  Others(c) /\ req'[c] = Idle
BY IdleIs, Asked DEF Finish

LEMMA ProceedDoes ==
  ASSUME req \in [Callers -> Request], NEW c \in Callers, NEW q \in Request, Proceed(c, q)
  PROVE  Others(c) /\ req'[c] = q /\ req[c].op = "idle" /\ phase = "up"
BY Asked DEF Proceed

LEMMA CreateSourceDoes ==
  ASSUME TypeOK, NEW r \in Requests, NEW s \in Sources, CreateSource(r, s)
  PROVE  /\ Others(r) /\ req[r].op = "idle"
         /\ req'[r].op = "add" /\ req'[r].source = s
         /\ phase = "up" /\ source[s] = "none" /\ Mark(s, "PENDING_PARSE")
         /\ UNCHANGED <<waiting, ghosts, parser, draftVars, bootVars>>
<1> DEFINE q == [Idle EXCEPT !.op = "add", !.source = s]
<1>1. q \in Request /\ q.op = "add" /\ q.source = s
  BY DEF Idle, Request, Ops
<1>2. Proceed(r, q) /\ r \in Callers
  BY DEF CreateSource, Callers
<1> HIDE DEF q
<1>3. QED
  BY <1>1, <1>2, ProceedDoes DEF TypeOK, CreateSource

LEMMA RetryReadDoes ==
  ASSUME TypeOK, NEW r \in Requests, NEW s \in Sources, RetryRead(r, s)
  PROVE  /\ Others(r) /\ req[r].op = "idle"
         /\ req'[r].op = "retry" /\ req'[r].source = s
         /\ phase = "up" /\ UNCHANGED <<parseVars, draftVars, bootVars>>
<1> DEFINE q == [Idle EXCEPT !.op = "retry", !.source = s]
<1>1. q \in Request /\ q.op = "retry" /\ q.source = s
  BY DEF Idle, Request, Ops
<1>2. Proceed(r, q) /\ r \in Callers
  BY DEF RetryRead, Callers
<1> HIDE DEF q
<1>3. QED
  BY <1>1, <1>2, ProceedDoes DEF TypeOK, RetryRead

LEMMA CancelReadDoes ==
  ASSUME TypeOK, NEW r \in Requests, NEW s \in Sources, CancelRead(r, s)
  PROVE  /\ Others(r) /\ req[r].op = "idle"
         /\ req'[r].op = "cancel" /\ req'[r].source = s
         /\ phase = "up" /\ UNCHANGED <<parseVars, draftVars, bootVars>>
<1> DEFINE q == [Idle EXCEPT !.op = "cancel", !.source = s]
<1>1. q \in Request /\ q.op = "cancel" /\ q.source = s
  BY DEF Idle, Request, Ops
<1>2. Proceed(r, q) /\ r \in Callers
  BY DEF CancelRead, Callers
<1> HIDE DEF q
<1>3. QED
  BY <1>1, <1>2, ProceedDoes DEF TypeOK, CancelRead

LEMMA DeleteReadDoes ==
  ASSUME TypeOK, NEW r \in Requests, NEW s \in Sources, DeleteRead(r, s)
  PROVE  /\ Others(r) /\ req[r].op = "idle"
         /\ req'[r].op \in {"cancel", "delete"} /\ req'[r].source = s
         /\ phase = "up" /\ UNCHANGED <<parseVars, draftVars, bootVars>>
<1>1. PICK op \in {"cancel", "delete"} :
        op = IF source[s] \in {"PARSING", "PENDING_PARSE"} THEN "cancel" ELSE "delete"
  OBVIOUS
<1> DEFINE q == [Idle EXCEPT !.source = s, !.remove = TRUE, !.op = op]
<1>2. q \in Request /\ q.op = op /\ q.source = s
  BY DEF Idle, Request, Ops
<1>3. Proceed(r, q) /\ r \in Callers
  BY <1>1 DEF DeleteRead, Callers
<1> HIDE DEF q
<1>4. QED
  BY <1>2, <1>3, ProceedDoes DEF TypeOK, DeleteRead

LEMMA ConsolidateReadDoes ==
  ASSUME TypeOK, NEW r \in Requests, NEW ids \in SUBSET Sources, NEW force \in BOOLEAN,
         ConsolidateRead(r, ids, force)
  PROVE  /\ Others(r) /\ req[r].op = "idle"
         /\ req'[r].op = "latest" /\ req'[r].version = 0 /\ ~req'[r].reuse
         /\ phase = "up" /\ UNCHANGED <<parseVars, draftVars, bootVars>>
<1> DEFINE q == [Idle EXCEPT !.op = "latest", !.ids = ids, !.force = force]
<1>1. q \in Request /\ q.op = "latest" /\ q.version = 0 /\ ~q.reuse
  BY DEF Idle, Request, Ops
<1>2. Proceed(r, q) /\ r \in Callers
  BY DEF ConsolidateRead, Callers
<1> HIDE DEF q
<1>3. QED
  BY <1>1, <1>2, ProceedDoes DEF TypeOK, ConsolidateRead

LEMMA PublishReadDoes ==
  ASSUME TypeOK, NEW r \in Requests, NEW d \in DOMAIN drafts, PublishRead(r, d)
  PROVE  /\ Others(r) /\ req[r].op = "idle"
         /\ req'[r].op = "publish" /\ req'[r].draft = d
         /\ d \in Rows /\ drafts[d].weeks = "full"
         /\ phase = "up" /\ UNCHANGED <<parseVars, draftVars, bootVars>>
<1> DEFINE q == [Idle EXCEPT !.op = "publish", !.draft = d]
<1>1. d \in Nat
  BY LenProperties DEF TypeOK
<1>2. q \in Request /\ q.op = "publish" /\ q.draft = d
  BY <1>1 DEF Idle, Request, Ops
<1>3. Proceed(r, q) /\ r \in Callers
  BY DEF PublishRead, Callers
<1> HIDE DEF q
<1>4. QED
  BY <1>2, <1>3, ProceedDoes DEF TypeOK, PublishRead

LEMMA Answered ==
  ASSUME NEW d, NEW force
  PROVE  Reusable(d, force) \subseteq BOOLEAN
BY DEF Reusable

LEMMA ReadLatestDoes ==
  ASSUME TypeOK, NEW c \in Callers, ReadLatest(c)
  PROVE  /\ Others(c) /\ req[c].op = "latest" /\ req'[c].op = "draft"
         /\ \/ /\ Latest = {} /\ req'[c].version = req[c].version
               /\ req'[c].reuse = req[c].reuse /\ req'[c].draft = req[c].draft
            \/ \E d \in Latest :
                 /\ req'[c].draft = d /\ req'[c].version = drafts[d].version
                 /\ req'[c].reuse \in Reusable(d, req[c].force)
         /\ UNCHANGED <<parseVars, draftVars, bootVars>>
<1>1. PICK q \in Request : q = req[c]
  BY DEF TypeOK
<1>2. CASE Latest = {} /\ req' = [req EXCEPT ![c].op = "draft"]
  BY <1>2, StepDoes DEF Step, ReadLatest, TypeOK, Ops
<1>3. ASSUME NEW d \in Latest, NEW reuse \in Reusable(d, req[c].force),
             req' = [req EXCEPT ![c].op = "draft", ![c].draft = d,
                                ![c].version = drafts[d].version, ![c].reuse = reuse]
      PROVE  /\ Others(c) /\ req'[c].op = "draft"
             /\ req'[c].draft = d /\ req'[c].version = drafts[d].version
             /\ req'[c].reuse = reuse
  <2>1. d \in DOMAIN drafts /\ d \in Nat /\ drafts[d] \in Draft
    BY <1>3, LenProperties DEF Latest, Rows, TypeOK
  <2> reuse \in BOOLEAN
    BY <1>3, Answered
  <2>2. PICK v \in Nat : v = drafts[d].version
    BY <2>1 DEF Draft
  <2> DEFINE p == [q EXCEPT !.op = "draft", !.draft = d, !.version = v, !.reuse = reuse]
  <2>3. /\ p \in Request
        /\ p.op = "draft" /\ p.draft = d /\ p.version = v /\ p.reuse = reuse
    BY <2>1 DEF Request, Ops
  <2>4. req' = [req EXCEPT ![c] = p]
    BY <1>1, <1>3, <2>2 DEF TypeOK
  <2> HIDE DEF p
  <2>5. QED
    BY <2>2, <2>3, <2>4, Asked DEF TypeOK
<1>4. QED
  BY <1>2, <1>3 DEF ReadLatest

LEMMA RestingIs ==
  Resting \in Parser /\ Resting.at = "idle" /\ Resting.source = NoSource
BY BoundAssumption DEF Resting, Parser

\* The attempt of a parse job that throws.
LEMMA ParseThrowsDoes ==
  ASSUME TypeOK, parser.source \in Sources, ParseThrows
  PROVE  /\ parser' = Resting /\ ghosts' = ghosts
         /\ waiting' \in JobCounts /\ \A k \in Sources \X Made : waiting'[k] >= waiting[k]
         /\ source' \in [Sources -> Statuses]
         /\ \A s \in Sources : source'[s] # source[s] => source'[s] = "FAILED"
         /\ parser.made + 1 >= Attempts => source'[parser.source] # "PARSING"
         /\ parser.made + 1 < Attempts => waiting'[<<parser.source, parser.made + 1>>] > 0
<1>1. parser.made \in Made
  BY DEF TypeOK, Parser, Made
<1>2. CASE parser.made + 1 < Attempts
  <2>1. <<parser.source, parser.made + 1>> \in Sources \X Made
    BY <1>1, <1>2, BoundAssumption DEF Made
  <2>2. waiting' = [waiting EXCEPT ![<<parser.source, parser.made + 1>>] = @ + 1]
    BY <1>2 DEF ParseThrows
  <2>3. PICK k \in Sources \X Made : k = <<parser.source, parser.made + 1>>
    BY <2>1
  <2>4. waiting \in [Sources \X Made -> Nat] /\ waiting' = [waiting EXCEPT ![k] = @ + 1]
    BY <2>2, <2>3 DEF TypeOK, JobCounts, Made
  <2>5. /\ waiting' \in [Sources \X Made -> Nat] /\ waiting'[k] > 0
        /\ \A i \in Sources \X Made : waiting'[i] >= waiting[i]
    BY <2>4
  <2>6. source' = source /\ parser' = Resting /\ ghosts' = ghosts
    BY <1>2 DEF ParseThrows
  <2>7. \A s \in Sources : source'[s] = source[s]
    BY <2>6
  <2>8. QED
    BY <1>1, <1>2, <2>3, <2>5, <2>6, <2>7, BoundAssumption DEF TypeOK, JobCounts, Made
<1>3. CASE ~(parser.made + 1 < Attempts)
  <2>1. waiting' = waiting /\ parser' = Resting /\ ghosts' = ghosts
    BY <1>3 DEF ParseThrows
  <2>2. IF Live(parser.source) THEN Mark(parser.source, "FAILED") ELSE source' = source
    BY <1>3 DEF ParseThrows
  <2>3. \A k \in Sources \X Made : waiting[k] \in Nat
    BY DEF TypeOK, JobCounts, Made
  <2>4. QED
    BY <1>1, <1>3, <2>1, <2>2, <2>3, BoundAssumption
       DEF TypeOK, Live, Mark, Statuses, Made
<1>4. QED
  BY <1>2, <1>3

\* What a request of the queue, the worker's or an administrator's, sees thrown.
LEMMA EnqueueThrowsDoes ==
  ASSUME PipeInv, NEW c \in Callers, req[c].op # "idle", EnqueueThrows(c)
  PROVE  /\ Others(c) /\ req'[c] = Idle
         /\ \/ c # Worker /\ UNCHANGED parseVars
            \/ /\ c = Worker /\ parser.at = "enqueue" /\ parser.source \in Sources
               /\ ParseThrows
<1>1. Others(c) /\ req'[c] = Idle
  BY FinishDoes DEF EnqueueThrows, PipeInv, TypeOK
<1>2. CASE c = Worker
  <2>1. parser.at = "enqueue" /\ parser.source \in Sources
    BY <1>2 DEF PipeInv, WorkerOK, AtWork, TypeOK, Parser
  <2>2. QED
    BY <1>1, <1>2, <2>1 DEF EnqueueThrows
<1>3. CASE c # Worker
  BY <1>1, <1>3 DEF EnqueueThrows
<1>4. QED
  BY <1>2, <1>3

LEMMA CreateDraftDoes ==
  ASSUME PipeInv, NEW c \in Callers, CreateDraft(c)
  PROVE  /\ req[c].op = "draft" /\ ~req[c].reuse
         /\ \/ /\ Others(c)
               /\ req'[c].op = "enqueue" /\ req'[c].draft = Len(drafts) + 1
               /\ ~Taken(req[c].version + 1)
               /\ drafts' = Append(drafts, NewDraft(req[c].version + 1, req[c].ids))
               /\ merges' = Append(merges, NoMerge)
               /\ UNCHANGED parseVars
            \/ EnqueueThrows(c) /\ UNCHANGED <<drafts, merges>>
<1>1. PICK q \in Request : q = req[c]
  BY DEF PipeInv, TypeOK
<1>2. Len(drafts) + 1 \in Nat
  BY LenProperties DEF PipeInv, TypeOK
<1>3. PICK n \in Nat : n = Len(drafts) + 1
  BY <1>2
<1> DEFINE p == [q EXCEPT !.op = "enqueue", !.draft = n]
<1>4. p \in Request /\ p.op = "enqueue" /\ p.draft = n
  BY DEF Request, Ops
<1> HIDE DEF p
<1>5. ASSUME req' = [req EXCEPT ![c].op = "enqueue", ![c].draft = Len(drafts) + 1]
      PROVE  Others(c) /\ req'[c] = p
  <2>1. req' = [req EXCEPT ![c] = p]
    BY <1>1, <1>3, <1>5 DEF p
  <2>2. QED
    BY <1>4, <2>1, Asked DEF PipeInv, TypeOK
<1>6. QED
  BY <1>3, <1>4, <1>5 DEF CreateDraft, NextVersion

LEMMA AutoConsolidateDoes ==
  ASSUME PipeInv, AutoConsolidate
  PROVE  /\ parser.at = "auto" /\ parser.source \in Sources
         /\ \/ /\ Others(Worker) /\ req'[Worker].op = "latest"
               /\ req'[Worker].version = 0 /\ ~req'[Worker].reuse
               /\ parser' = [parser EXCEPT !.at = "enqueue"]
            \/ req' = req /\ parser' = Resting
         /\ UNCHANGED <<source, waiting, ghosts, draftVars, bootVars>>
<1>1. parser.at = "auto" /\ parser.source \in Sources
  BY DEF PipeInv, AutoConsolidate, AtWork, TypeOK, Parser
<1> DEFINE q == [Idle EXCEPT !.op = "latest",
                   !.ids = {s \in Sources : source[s] = "PARSED"}]
<1>2. q \in Request /\ q.op = "latest" /\ q.version = 0 /\ ~q.reuse
  BY DEF Idle, Request, Ops
<1>3. \/ req' = [req EXCEPT ![Worker] = q] /\ parser' = [parser EXCEPT !.at = "enqueue"]
      \/ req' = req /\ parser' = Resting
  BY DEF AutoConsolidate
<1>5. UNCHANGED <<source, waiting, ghosts, draftVars, bootVars>>
  BY DEF AutoConsolidate
<1> HIDE DEF q
<1>4. QED
  BY <1>1, <1>2, <1>3, <1>5, Asked DEF PipeInv, TypeOK, Callers

\* The parse worker goes on with its job.
LEMMA ParserGoes ==
  ASSUME parser \in Parser, NEW at \in {"mark", "parse", "auto", "enqueue"},
         parser' = [parser EXCEPT !.at = at]
  PROVE  /\ parser' \in Parser /\ parser'.at = at
         /\ parser'.source = parser.source /\ parser'.made = parser.made
BY DEF Parser

LEMMA UnmergingIs ==
  Unmerging \in Merger /\ Unmerging.at = "idle"
BY DEF Unmerging, Merger

LEMMA NoMergeIs ==
  NoMerge \in Merge /\ NoMerge.state = "none"
BY BoundAssumption DEF NoMerge, Merge

LEMMA NewDraftIs ==
  ASSUME NEW v \in Nat, NEW ids \in SUBSET Sources
  PROVE  /\ NewDraft(v, ids) \in Draft /\ NewDraft(v, ids).version = v
         /\ NewDraft(v, ids).status = "DRAFT" /\ NewDraft(v, ids).weeks = "none"
BY DEF NewDraft, Draft, Weeks

\* Counts of jobs: one more, and one less where there is one.
LEMMA OneMore ==
  ASSUME NEW w \in JobCounts, NEW k \in Sources \X Made, NEW v, v = [w EXCEPT ![k] = @ + 1]
  PROVE  /\ v \in JobCounts /\ v[k] > 0
         /\ \A i \in Sources \X Made : v[i] >= w[i]
BY DEF JobCounts, Made

LEMMA OneLess ==
  ASSUME NEW w \in JobCounts, NEW k \in Sources \X Made, w[k] > 0,
         NEW v, v = [w EXCEPT ![k] = @ - 1]
  PROVE  /\ v \in JobCounts
         /\ \A i \in Sources \X Made : i # k => v[i] = w[i]
BY DEF JobCounts, Made

LEMMA AddJobDoes ==
  ASSUME waiting \in JobCounts, NEW s \in Sources, AddJob(s)
  PROVE  /\ waiting' \in JobCounts
         /\ \A k \in Sources \X Made : waiting'[k] >= waiting[k]
<1>1. <<s, 0>> \in Sources \X Made
  BY BoundAssumption DEF Made
<1>2. PICK k \in Sources \X Made : k = <<s, 0>>
  BY <1>1
<1>3. waiting' = [waiting EXCEPT ![k] = @ + 1]
  BY <1>2 DEF AddJob
<1>4. QED
  BY <1>3, OneMore

LEMMA AddSourceJobDoes ==
  ASSUME PipeInv, NEW r \in Requests, AddSourceJob(r)
  PROVE  /\ Others(r) /\ req[r].op = "add" /\ req'[r] = Idle
         /\ waiting' \in JobCounts /\ \A k \in Sources \X Made : waiting'[k] >= waiting[k]
         /\ UNCHANGED <<source, ghosts, parser, draftVars, bootVars>>
<1>1. req[r].op = "add" /\ AddJob(req[r].source) /\ Finish(r) /\ r \in Callers
      /\ UNCHANGED <<source, ghosts, parser, draftVars, bootVars>>
  BY DEF AddSourceJob, Callers
<1>2. req[r].source \in Sources
  BY <1>1 DEF PipeInv, InHand, SourceOps
<1>3. QED
  BY <1>1, <1>2, AddJobDoes, FinishDoes DEF PipeInv, TypeOK

\* The job that a cancellation removes is one of its source, which it fails next.
LEMMA CancelJobDoes ==
  ASSUME PipeInv, NEW r \in Requests, CancelJob(r)
  PROVE  /\ Others(r) /\ req[r].op = "cancel" /\ req[r].source \in Sources
         /\ waiting' \in JobCounts /\ ghosts' \in JobCounts
         /\ UNCHANGED <<source, parser, draftVars, bootVars>>
         /\ \/ /\ \/ req'[r] = Idle
                  \/ req'[r].op = "delete" /\ req'[r].source = req[r].source
               /\ UNCHANGED <<waiting, ghosts>>
            \/ /\ req'[r].op = "fail" /\ req'[r].source = req[r].source
               /\ \A k \in Sources \X Made : k[1] # req[r].source =>
                    waiting'[k] = waiting[k] /\ ghosts'[k] = ghosts[k]
<1>1. r \in Callers /\ req \in [Callers -> Request] /\ waiting \in JobCounts
      /\ ghosts \in JobCounts
  BY DEF Callers, PipeInv, TypeOK
<1>2. req[r].op = "cancel" /\ req[r].source \in Sources
  BY <1>1 DEF CancelJob, PipeInv, InHand, SourceOps
<1>3. PICK s \in Sources : s = req[r].source
  BY <1>2
<1>4. UNCHANGED <<source, parser, draftVars, bootVars>>
  BY DEF CancelJob
<1>5. CASE /\ IF req[r].remove THEN Step(r, "delete") ELSE Finish(r)
           /\ UNCHANGED <<waiting, ghosts>>
  <2>1. Step(r, "delete") \/ Finish(r)
    BY <1>5
  <2>2. /\ Others(r)
        /\ \/ req'[r] = Idle
           \/ req'[r].op = "delete" /\ req'[r].source = req[r].source
    <3>1. CASE Step(r, "delete")
      BY <1>1, <3>1, StepDoes DEF Ops
    <3>2. CASE Finish(r)
      BY <1>1, <3>2, FinishDoes
    <3>3. QED
      BY <2>1, <3>1, <3>2
  <2>3. QED
    BY <1>1, <1>2, <1>4, <1>5, <2>2
<1>6. ASSUME NEW m \in Made, ghosts[<<s, m>>] > 0, Step(r, "fail"), waiting' = waiting,
             ghosts' = [ghosts EXCEPT ![<<s, m>>] = @ - 1]
      PROVE  /\ ghosts' \in JobCounts
             /\ \A k \in Sources \X Made : k[1] # s => ghosts'[k] = ghosts[k]
  <2>1. PICK k \in Sources \X Made : k = <<s, m>>
    OBVIOUS
  <2>2. ghosts[k] > 0 /\ ghosts' = [ghosts EXCEPT ![k] = @ - 1] /\ k[1] = s
    BY <1>6, <2>1
  <2>3. QED
    BY <1>1, <2>2 DEF JobCounts, Made
<1>7. ASSUME NEW m \in Made, waiting[<<s, m>>] > 0, Step(r, "fail"), ghosts' = ghosts,
             waiting' = [waiting EXCEPT ![<<s, m>>] = @ - 1]
      PROVE  /\ waiting' \in JobCounts
             /\ \A k \in Sources \X Made : k[1] # s => waiting'[k] = waiting[k]
  <2>1. PICK k \in Sources \X Made : k = <<s, m>>
    OBVIOUS
  <2>2. waiting[k] > 0 /\ waiting' = [waiting EXCEPT ![k] = @ - 1] /\ k[1] = s
    BY <1>7, <2>1
  <2>3. QED
    BY <1>1, <2>2 DEF JobCounts, Made
<1>8. \/ /\ IF req[r].remove THEN Step(r, "delete") ELSE Finish(r)
         /\ UNCHANGED <<waiting, ghosts>>
      \/ Step(r, "fail") /\ UNCHANGED <<waiting, ghosts>>
      \/ \E m \in Made : /\ ghosts[<<s, m>>] > 0 /\ Step(r, "fail") /\ waiting' = waiting
                         /\ ghosts' = [ghosts EXCEPT ![<<s, m>>] = @ - 1]
      \/ \E m \in Made : /\ waiting[<<s, m>>] > 0 /\ Step(r, "fail") /\ ghosts' = ghosts
                         /\ waiting' = [waiting EXCEPT ![<<s, m>>] = @ - 1]
  BY <1>3 DEF CancelJob, Made
<1>9. Step(r, "fail") => Others(r) /\ req'[r].op = "fail" /\ req'[r].source = req[r].source
  BY <1>1, StepDoes DEF Ops
<1>10. QED
  BY <1>1, <1>2, <1>3, <1>4, <1>5, <1>6, <1>7, <1>8, <1>9

LEMMA TakeJobDoes ==
  ASSUME PipeInv, NEW s \in Sources, NEW m \in Made, TakeJob(s, m)
  PROVE  /\ phase # "down" /\ parser.at = "idle" /\ waiting' \in JobCounts
         /\ \A k \in Sources \X Made : k # <<s, m>> => waiting'[k] = waiting[k]
         /\ IF Live(s) /\ source[s] \notin {"FAILED", "PARSED"}
            THEN parser' = [source |-> s, made |-> m, at |-> "mark"] ELSE parser' = Resting
         /\ UNCHANGED <<source, ghosts, draftVars, req, bootVars>>
<1>1. PICK k \in Sources \X Made : k = <<s, m>>
  OBVIOUS
<1>2. waiting[k] > 0 /\ waiting' = [waiting EXCEPT ![k] = @ - 1]
  BY <1>1 DEF TakeJob
<1>3. waiting' \in JobCounts /\ \A i \in Sources \X Made : i # k => waiting'[i] = waiting[i]
  BY <1>2 DEF PipeInv, TypeOK, JobCounts, Made
<1>4. QED
  BY <1>1, <1>3 DEF TakeJob, Running

LEMMA StalledParseDoes ==
  ASSUME PipeInv, NEW s \in Sources, NEW m \in Made, StalledParse(s, m)
  PROVE  /\ phase # "down" /\ ghosts' \in JobCounts /\ waiting' \in JobCounts
         /\ \A k \in Sources \X Made : k # <<s, m>> => ghosts'[k] = ghosts[k]
         /\ ghosts'[<<s, m>>] < ghosts[<<s, m>>]
         /\ \/ waiting' = waiting
            \/ /\ waiting'[<<s, m>>] > 0
               /\ \A k \in Sources \X Made : waiting'[k] >= waiting[k]
         /\ UNCHANGED <<source, parser, draftVars, req, bootVars>>
<1>1. PICK k \in Sources \X Made : k = <<s, m>>
  OBVIOUS
<1>2. ghosts[k] > 0 /\ ghosts' = [ghosts EXCEPT ![k] = @ - 1]
  BY <1>1 DEF StalledParse
<1>3. /\ ghosts' \in JobCounts /\ ghosts'[k] < ghosts[k]
      /\ \A i \in Sources \X Made : i # k => ghosts'[i] = ghosts[i]
  BY <1>2 DEF PipeInv, TypeOK, JobCounts, Made
<1>4. waiting' = waiting \/ waiting' = [waiting EXCEPT ![k] = @ + 1]
  BY <1>1 DEF StalledParse
<1>5. waiting \in JobCounts
  BY DEF PipeInv, TypeOK
<1>6. /\ waiting' \in JobCounts
      /\ \/ waiting' = waiting
         \/ waiting'[k] > 0 /\ \A i \in Sources \X Made : waiting'[i] >= waiting[i]
  BY <1>4, <1>5, OneMore
<1>7. QED
  BY <1>1, <1>3, <1>6 DEF StalledParse, Running
-----------------------------------------------------------------------------
(* What the steps of a consolidation do to the drafts and to their jobs.   *)

\* The two tables keep their types and have as many rows.
Tables == drafts \in Seq(Draft) /\ merges \in Seq(Merge) /\ Len(merges) = Len(drafts)

LEMMA TablesAlike ==
  ASSUME Tables
  PROVE  DOMAIN merges = DOMAIN drafts /\ DOMAIN drafts \subseteq Nat
         /\ DOMAIN drafts = 1 .. Len(drafts) /\ Len(drafts) \in Nat
BY LenProperties DEF Tables

\* The rows but d are as they were.
OtherRows(d) ==
  /\ drafts' \in Seq(Draft) /\ DOMAIN drafts' = DOMAIN drafts
  /\ \A e \in DOMAIN drafts : e # d => drafts'[e] = drafts[e]

LEMMA RowWritten ==
  ASSUME drafts \in Seq(Draft), NEW d \in DOMAIN drafts, NEW e \in Draft,
         drafts' = [drafts EXCEPT ![d] = e]
  PROVE  OtherRows(d) /\ drafts'[d] = e
BY RewriteRow DEF OtherRows

LEMMA IdsWritten ==
  ASSUME drafts \in Seq(Draft), NEW d \in DOMAIN drafts, NEW x \in SUBSET Sources,
         drafts' = [drafts EXCEPT ![d].ids = x]
  PROVE  /\ OtherRows(d) /\ drafts'[d].version = drafts[d].version
         /\ drafts'[d].status = drafts[d].status /\ drafts'[d].weeks = drafts[d].weeks
<1>1. PICK q \in Draft : q = drafts[d]
  OBVIOUS
<1> DEFINE p == [q EXCEPT !.ids = x]
<1>2. /\ p \in Draft /\ p.version = q.version /\ p.status = q.status /\ p.weeks = q.weeks
  BY DEF Draft
<1>3. drafts' = [drafts EXCEPT ![d] = p]
  BY <1>1
<1> HIDE DEF p
<1>4. QED
  BY <1>1, <1>2, <1>3, RowWritten

LEMMA WeeksWritten ==
  ASSUME drafts \in Seq(Draft), NEW d \in DOMAIN drafts, NEW x \in Weeks,
         drafts' = [drafts EXCEPT ![d].weeks = x]
  PROVE  /\ OtherRows(d) /\ drafts'[d].version = drafts[d].version
         /\ drafts'[d].status = drafts[d].status /\ drafts'[d].weeks = x
<1>1. PICK q \in Draft : q = drafts[d]
  OBVIOUS
<1> DEFINE p == [q EXCEPT !.weeks = x]
<1>2. /\ p \in Draft /\ p.version = q.version /\ p.status = q.status /\ p.weeks = x
  BY DEF Draft
<1>3. drafts' = [drafts EXCEPT ![d] = p]
  BY <1>1
<1> HIDE DEF p
<1>4. QED
  BY <1>1, <1>2, <1>3, RowWritten

LEMMA StatusWritten ==
  ASSUME drafts \in Seq(Draft), NEW d \in DOMAIN drafts,
         NEW x \in {"DRAFT", "PUBLISHED"},
         drafts' = [drafts EXCEPT ![d].status = x]
  PROVE  /\ OtherRows(d) /\ drafts'[d].version = drafts[d].version
         /\ drafts'[d].status = x /\ drafts'[d].weeks = drafts[d].weeks
<1>1. PICK q \in Draft : q = drafts[d]
  OBVIOUS
<1> DEFINE p == [q EXCEPT !.status = x]
<1>2. /\ p \in Draft /\ p.version = q.version /\ p.status = x /\ p.weeks = q.weeks
  BY DEF Draft
<1>3. drafts' = [drafts EXCEPT ![d] = p]
  BY <1>1
<1> HIDE DEF p
<1>4. QED
  BY <1>1, <1>2, <1>3, RowWritten

LEMMA GoneIs == Gone \in Draft /\ Gone.status = "deleted"
BY DEF Gone, Draft, Weeks

\* A row is added to both tables.
Opened(v, ids, m) ==
  LET n == Len(drafts) + 1 IN
  /\ drafts' \in Seq(Draft) /\ DOMAIN drafts' = DOMAIN drafts \cup {n}
  /\ n \notin DOMAIN drafts
  /\ \A e \in DOMAIN drafts : drafts'[e] = drafts[e]
  /\ drafts'[n] = NewDraft(v, ids)
  /\ merges' \in Seq(Merge) /\ DOMAIN merges' = DOMAIN drafts'
  /\ Len(merges') = Len(drafts')
  /\ \A e \in DOMAIN drafts : merges'[e] = m[e]
  /\ merges'[n] = NoMerge

LEMMA RowOpened ==
  ASSUME Tables, NEW v \in Nat, NEW ids \in SUBSET Sources,
         NEW m \in Seq(Merge), Len(m) = Len(merges),
         drafts' = Append(drafts, NewDraft(v, ids)), merges' = Append(m, NoMerge)
  PROVE  Opened(v, ids, m)
<1>1. NewDraft(v, ids) \in Draft /\ NoMerge \in Merge
  BY NewDraftIs, NoMergeIs
<1>2. /\ drafts' \in Seq(Draft) /\ DOMAIN drafts' = DOMAIN drafts \cup {Len(drafts) + 1}
      /\ Len(drafts) + 1 \notin DOMAIN drafts
      /\ \A e \in DOMAIN drafts : drafts'[e] = drafts[e]
      /\ drafts'[Len(drafts) + 1] = NewDraft(v, ids)
  BY <1>1, AddRow DEF Tables
<1>3. /\ merges' \in Seq(Merge) /\ DOMAIN merges' = DOMAIN m \cup {Len(m) + 1}
      /\ \A e \in DOMAIN m : merges'[e] = m[e]
      /\ merges'[Len(m) + 1] = NoMerge
  BY <1>1, AddRow
<1>4. DOMAIN m = DOMAIN drafts /\ Len(m) = Len(drafts)
  BY TablesAlike, LenProperties DEF Tables
<1>5. DOMAIN merges' = DOMAIN drafts' /\ Len(merges') = Len(drafts')
  BY <1>2, <1>3, <1>4, LenProperties
<1>6. QED
  BY <1>2, <1>3, <1>4, <1>5 DEF Opened

\* The jobs but that of d are as they were.
OtherMerges(d) ==
  /\ merges' \in Seq(Merge) /\ Len(merges') = Len(merges) /\ DOMAIN merges' = DOMAIN merges
  /\ \A e \in DOMAIN merges : e # d => merges'[e] = merges[e]

LEMMA MergeWritten ==
  ASSUME merges \in Seq(Merge), NEW d \in DOMAIN merges, NEW m \in Merge,
         merges' = [merges EXCEPT ![d] = m]
  PROVE  OtherMerges(d) /\ merges'[d] = m
BY RewriteRow, LenProperties DEF OtherMerges

LEMMA StateWritten ==
  ASSUME NEW m \in Seq(Merge), NEW d \in DOMAIN m, NEW st \in {"waiting", "active"},
         NEW q \in Merge, q = m[d],
         NEW n, n = [m EXCEPT ![d] = [q EXCEPT !.state = st]]
  PROVE  /\ n \in Seq(Merge) /\ Len(n) = Len(m) /\ DOMAIN n = DOMAIN m
         /\ \A e \in DOMAIN m : e # d => n[e] = m[e]
         /\ n[d].state = st
<1> DEFINE p == [q EXCEPT !.state = st]
<1>2. p \in Merge /\ p.state = st
  BY DEF Merge
<1>3. n = [m EXCEPT ![d] = p]
  OBVIOUS
<1> HIDE DEF p
<1>4. QED
  BY <1>2, <1>3, RewriteRow, LenProperties

\* The attempt of a consolidation that throws.
LEMMA MergeThrowsDoes ==
  ASSUME merges \in Seq(Merge), NEW d \in DOMAIN merges, MergeThrows(d)
  PROVE  OtherMerges(d) /\ merges'[d].state \in {"waiting", "none"} /\ merger' = Unmerging
<1>1. PICK q \in Merge : q = merges[d]
  OBVIOUS
<1>2. q.made \in Made
  BY DEF Merge, Made
<1> DEFINE again == [q EXCEPT !.state = "waiting", !.made = q.made + 1]
           p == IF q.made + 1 < Attempts THEN again ELSE NoMerge
<1>3. p \in Merge /\ p.state \in {"waiting", "none"}
  <2>1. CASE q.made + 1 < Attempts
    <3>1. q.made + 1 \in Made
      BY <1>2, <2>1, BoundAssumption DEF Made
    <3>2. QED
      BY <2>1, <3>1 DEF Merge, Made
  <2>2. CASE ~(q.made + 1 < Attempts)
    BY <2>2, NoMergeIs
  <2>3. QED
    BY <2>1, <2>2
<1>4. merges' = [merges EXCEPT ![d] = p] /\ merger' = Unmerging
  <2>1. CASE q.made + 1 < Attempts
    BY <1>1, <2>1 DEF MergeThrows
  <2>2. CASE ~(q.made + 1 < Attempts)
    BY <1>1, <2>2 DEF MergeThrows
  <2>3. QED
    BY <2>1, <2>2
<1> HIDE DEF p
<1>5. QED
  BY <1>3, <1>4, MergeWritten

\* A row keeps what it says of the draft, but for its sources.
SameDraft(d) ==
  /\ drafts'[d].version = drafts[d].version /\ drafts'[d].status = drafts[d].status
  /\ drafts'[d].weeks = drafts[d].weeks

LEMMA ReuseDraftDoes ==
  ASSUME PipeInv, NEW c \in Callers, ReuseDraft(c)
  PROVE  /\ req[c].op = "draft" /\ req[c].reuse /\ UNCHANGED <<merges, merger, bootVars>>
         /\ \/ /\ req[c].draft \in Rows /\ OtherRows(req[c].draft) /\ SameDraft(req[c].draft)
               /\ Others(c) /\ req'[c].op = "enqueue" /\ req'[c].draft = req[c].draft
               /\ UNCHANGED parseVars
            \/ EnqueueThrows(c) /\ drafts' = drafts /\ req[c].draft \notin Rows
<1>1. /\ req[c].op = "draft" /\ req[c].reuse /\ UNCHANGED <<merges, merger, bootVars>>
      /\ \/ /\ req[c].draft \in Rows /\ Step(c, "enqueue") /\ UNCHANGED parseVars
            /\ drafts' = [drafts EXCEPT ![req[c].draft].ids = req[c].ids]
         \/ EnqueueThrows(c) /\ drafts' = drafts /\ req[c].draft \notin Rows
  BY DEF ReuseDraft
<1>2. req \in [Callers -> Request] /\ drafts \in Seq(Draft)
  BY DEF PipeInv, TypeOK
<1>3. req[c].ids \in SUBSET Sources
  BY <1>2 DEF Request
<1>4. CASE /\ req[c].draft \in Rows /\ Step(c, "enqueue")
           /\ drafts' = [drafts EXCEPT ![req[c].draft].ids = req[c].ids]
  <2>1. Others(c) /\ req'[c].op = "enqueue" /\ req'[c].draft = req[c].draft
    BY <1>2, <1>4, StepDoes DEF Ops
  <2>2. req[c].draft \in DOMAIN drafts
    BY <1>4 DEF Rows
  <2>3. OtherRows(req[c].draft) /\ SameDraft(req[c].draft)
    BY <1>2, <1>3, <1>4, <2>2, IdsWritten DEF SameDraft
  <2>4. QED
    BY <1>1, <1>4, <2>1, <2>3
<1>5. QED
  BY <1>1, <1>4

LEMMA CreateDraftOpens ==
  ASSUME PipeInv, NEW c \in Callers, CreateDraft(c)
  PROVE  /\ req[c].op = "draft" /\ ~req[c].reuse /\ UNCHANGED <<merger, bootVars>>
         /\ \/ /\ Opened(req[c].version + 1, req[c].ids, merges) /\ ~Taken(req[c].version + 1)
               /\ Others(c) /\ req'[c].op = "enqueue" /\ req'[c].draft = Len(drafts) + 1
               /\ UNCHANGED parseVars
            \/ EnqueueThrows(c) /\ UNCHANGED <<drafts, merges>>
<1>1. req[c].version + 1 \in Nat /\ req[c].ids \in SUBSET Sources
  BY DEF PipeInv, TypeOK, Request
<1>2. Tables
  BY DEF PipeInv, TypeOK, Tables
<1>3. \/ Opened(req[c].version + 1, req[c].ids, merges)
      \/ EnqueueThrows(c) /\ UNCHANGED <<drafts, merges>>
  BY <1>1, <1>2, CreateDraftDoes, RowOpened DEF Tables
<1>4. UNCHANGED <<merger, bootVars>>
  BY DEF CreateDraft
<1>5. QED
  BY <1>1, <1>2, <1>4, CreateDraftDoes, RowOpened DEF Tables

LEMMA QueueMergeDoes ==
  ASSUME PipeInv, NEW c \in Callers, QueueMerge(c)
  PROVE  /\ req[c].op = "enqueue" /\ Others(c) /\ req'[c] = Idle
         /\ parser' = (IF c = Worker THEN Resting ELSE parser)
         /\ UNCHANGED <<source, waiting, ghosts, drafts, merger, bootVars>>
         /\ merges' = merges \/ /\ OtherMerges(req[c].draft)
                                /\ merges[req[c].draft].state \in {"none", "prioritized", "waiting"}
                                /\ merges'[req[c].draft].state = "prioritized"
<1>1. /\ req[c].op = "enqueue" /\ Finish(c)
      /\ parser' = (IF c = Worker THEN Resting ELSE parser)
      /\ UNCHANGED <<source, waiting, ghosts, drafts, merger, bootVars>>
  BY DEF QueueMerge
<1>2. Others(c) /\ req'[c] = Idle
  BY <1>1, FinishDoes DEF PipeInv, TypeOK
<1>3. req[c].draft \in DOMAIN merges /\ merges \in Seq(Merge)
  BY <1>1 DEF PipeInv, InHand, TypeOK
<1> DEFINE m == [state |-> "prioritized", made |-> 0, ids |-> req[c].ids]
<1>4. m \in Merge /\ m.state = "prioritized"
  BY BoundAssumption DEF PipeInv, TypeOK, Request, Merge
<1>5. \/ merges' = merges
      \/ /\ merges' = [merges EXCEPT ![req[c].draft] = m]
         /\ merges[req[c].draft].state \in {"none", "prioritized", "waiting"}
  BY DEF QueueMerge
<1> HIDE DEF m
<1>6. merges' = merges \/ /\ OtherMerges(req[c].draft)
                          /\ merges[req[c].draft].state \in {"none", "prioritized", "waiting"}
                          /\ merges'[req[c].draft].state = "prioritized"
  BY <1>3, <1>4, <1>5, MergeWritten
<1>7. QED
  BY <1>1, <1>2, <1>6

LEMMA TakeMergeDoes ==
  ASSUME PipeInv, NEW d \in DOMAIN merges, TakeMerge(d)
  PROVE  /\ merges[d].state \in {"prioritized", "waiting"} /\ merger.at = "idle"
         /\ UNCHANGED <<parseVars, req, bootVars>>
         /\ \/ /\ d \in Rows /\ drafts' = drafts /\ OtherMerges(d)
               /\ merges'[d].state = "active"
               /\ merger' = [job |-> d, target |-> d, at |-> "assign"]
            \/ /\ d \notin Rows /\ ~Taken(1)
               /\ \E ids \in SUBSET Sources, m \in Seq(Merge) : Opened(1, ids, m)
               /\ merger' = [job |-> d, target |-> Len(drafts) + 1, at |-> "assign"]
            \/ /\ d \notin Rows /\ drafts' = drafts /\ OtherMerges(d) /\ merger' = Unmerging
<1>1. /\ merges \in Seq(Merge) /\ Tables
      /\ merges[d].ids \in SUBSET Sources /\ d \in DOMAIN drafts
  <2>1. merges \in Seq(Merge) /\ Tables
    BY DEF PipeInv, TypeOK, Tables
  <2>2. merges[d] \in Merge
    BY <2>1
  <2>3. QED
    BY <2>1, <2>2, TablesAlike DEF Merge
<1> DEFINE m == [merges EXCEPT ![d].state = "active"]
<1>2. /\ m \in Seq(Merge) /\ Len(m) = Len(merges) /\ DOMAIN m = DOMAIN merges
      /\ \A e \in DOMAIN merges : e # d => m[e] = merges[e]
      /\ m[d].state = "active"
  <2>1. PICK n : n = m
    OBVIOUS
  <2>2. PICK q \in Merge : q = merges[d]
    BY <1>1
  <2>3. n = [merges EXCEPT ![d] = [q EXCEPT !.state = "active"]]
    BY <2>1, <2>2
  <2>4. QED
    BY <1>1, <2>1, <2>2, <2>3, StateWritten
<1>3. /\ merges[d].state \in {"prioritized", "waiting"} /\ merger.at = "idle"
      /\ UNCHANGED <<parseVars, req, bootVars>>
      /\ \/ /\ d \in Rows /\ drafts' = drafts /\ merges' = m
            /\ merger' = [job |-> d, target |-> d, at |-> "assign"]
         \/ /\ d \notin Rows /\ ~Taken(1)
            /\ drafts' = Append(drafts, NewDraft(1, merges[d].ids))
            /\ merges' = Append(m, NoMerge)
            /\ merger' = [job |-> d, target |-> Len(drafts) + 1, at |-> "assign"]
         \/ d \notin Rows /\ MergeThrows(d) /\ drafts' = drafts
  BY DEF TakeMerge
<1> HIDE DEF m
<1>4. /\ drafts' = Append(drafts, NewDraft(1, merges[d].ids)) /\ merges' = Append(m, NoMerge)
      => Opened(1, merges[d].ids, m)
  BY <1>1, <1>2, RowOpened
<1>5. merges' = m => OtherMerges(d) /\ merges'[d].state = "active"
  BY <1>2 DEF OtherMerges
<1>6. MergeThrows(d) => OtherMerges(d) /\ merger' = Unmerging
  BY <1>1, MergeThrowsDoes
<1>7. QED
  BY <1>1, <1>2, <1>3, <1>4, <1>5, <1>6

LEMMA MergerGoes ==
  ASSUME merger \in Merger, NEW at \in {"assign", "read", "commit"},
         merger' = [merger EXCEPT !.at = at]
  PROVE  /\ merger' \in Merger /\ merger'.at = at
         /\ merger'.job = merger.job /\ merger'.target = merger.target
BY DEF Merger

\* What a step of the consolidation does with the draft d that is its target and
\* with the job j.
LEMMA AssignIdsDoes ==
  ASSUME PipeInv, AssignIds
  PROVE  /\ merger.at = "assign" /\ UNCHANGED <<parseVars, req, bootVars>>
         /\ \/ /\ merger.target \in Rows /\ OtherRows(merger.target) /\ SameDraft(merger.target)
               /\ merges' = merges /\ merger' = [merger EXCEPT !.at = "read"]
            \/ /\ merger.target \notin Rows /\ drafts' = drafts
               /\ OtherMerges(merger.job) /\ merger' = Unmerging
<1>1. /\ merger.at = "assign" /\ UNCHANGED <<parseVars, req, bootVars>>
      /\ \/ /\ merger.target \in Rows
            /\ drafts' = [drafts EXCEPT ![merger.target].ids = merges[merger.job].ids]
            /\ merges' = merges /\ merger' = [merger EXCEPT !.at = "read"]
         \/ /\ merger.target \notin Rows /\ drafts' = drafts /\ MergeThrows(merger.job)
  BY DEF AssignIds
<1>2. /\ merger.job \in DOMAIN merges /\ merges \in Seq(Merge) /\ drafts \in Seq(Draft)
      /\ merges[merger.job].ids \in SUBSET Sources
  <2>1. merger.job \in DOMAIN merges /\ merges \in Seq(Merge) /\ drafts \in Seq(Draft)
    BY <1>1 DEF PipeInv, TypeOK, AtWork
  <2>2. merges[merger.job] \in Merge
    BY <2>1
  <2>3. QED
    BY <2>1, <2>2 DEF Merge
<1>3. MergeThrows(merger.job) => OtherMerges(merger.job) /\ merger' = Unmerging
  BY <1>2, MergeThrowsDoes
<1>4. /\ merger.target \in Rows
      /\ drafts' = [drafts EXCEPT ![merger.target].ids = merges[merger.job].ids]
      => OtherRows(merger.target) /\ SameDraft(merger.target)
  BY <1>2, IdsWritten DEF Rows, SameDraft
<1>5. QED
  BY <1>1, <1>3, <1>4

LEMMA EndMergeDoes ==
  ASSUME merges \in Seq(Merge), merger.job \in DOMAIN merges, EndMerge
  PROVE  /\ OtherMerges(merger.job) /\ merges'[merger.job].state = "none"
         /\ merger' = Unmerging
BY NoMergeIs, MergeWritten DEF EndMerge

LEMMA ReadSourcesDoes ==
  ASSUME PipeInv, ReadSources
  PROVE  /\ merger.at = "read" /\ UNCHANGED <<parseVars, drafts, req, bootVars>>
         /\ \/ merges' = merges /\ merger' = [merger EXCEPT !.at = "commit"]
            \/ OtherMerges(merger.job) /\ merger' = Unmerging
<1>1. /\ merger.at = "read" /\ UNCHANGED <<parseVars, drafts, req, bootVars>>
      /\ \/ merges' = merges /\ merger' = [merger EXCEPT !.at = "commit"]
         \/ EndMerge
  BY DEF ReadSources
<1>2. merger.job \in DOMAIN merges /\ merges \in Seq(Merge)
  BY <1>1 DEF PipeInv, TypeOK, AtWork
<1>3. EndMerge => OtherMerges(merger.job) /\ merger' = Unmerging
  BY <1>2, EndMergeDoes
<1>4. QED
  BY <1>1, <1>3

LEMMA CommitMergeDoes ==
  ASSUME PipeInv, CommitMerge
  PROVE  /\ merger.at = "commit" /\ UNCHANGED <<parseVars, req, bootVars>>
         /\ merger.target \in Rows /\ OtherRows(merger.target)
         /\ drafts'[merger.target].version = drafts[merger.target].version
         /\ drafts'[merger.target].status = drafts[merger.target].status
         /\ drafts'[merger.target].weeks = "full"
         /\ OtherMerges(merger.job) /\ merger' = Unmerging
<1>1. /\ merger.at = "commit" /\ UNCHANGED <<parseVars, req, bootVars>>
      /\ merger.target \in Rows /\ EndMerge
      /\ drafts' = [drafts EXCEPT ![merger.target].weeks = "full"]
  BY DEF CommitMerge
<1>2. /\ merger.job \in DOMAIN merges /\ merges \in Seq(Merge) /\ drafts \in Seq(Draft)
      /\ merger.target \in DOMAIN drafts
  BY <1>1 DEF PipeInv, TypeOK, AtWork, Rows
<1>3. OtherMerges(merger.job) /\ merger' = Unmerging
  BY <1>1, <1>2, EndMergeDoes
<1>4. "full" \in Weeks
  BY DEF Weeks
<1>5. QED
  BY <1>1, <1>2, <1>3, <1>4, WeeksWritten

LEMMA MergeFailsDoes ==
  ASSUME PipeInv, MergeFails
  PROVE  /\ merger.at = "commit" /\ UNCHANGED <<parseVars, drafts, req, bootVars>>
         /\ OtherMerges(merger.job) /\ merger' = Unmerging
<1>1. /\ merger.at = "commit" /\ MergeThrows(merger.job)
      /\ UNCHANGED <<parseVars, drafts, req, bootVars>>
  BY DEF MergeFails
<1>2. merger.job \in DOMAIN merges /\ merges \in Seq(Merge)
  BY <1>1 DEF PipeInv, TypeOK, AtWork
<1>3. QED
  BY <1>1, <1>2, MergeThrowsDoes

LEMMA PublishMarkDoes ==
  ASSUME PipeInv, NEW r \in Requests, PublishMark(r)
  PROVE  /\ req[r].op = "publish" /\ Others(r) /\ req'[r] = Idle
         /\ UNCHANGED <<parseVars, merges, merger, bootVars>>
         /\ \/ drafts' = drafts
            \/ /\ req[r].draft \in Rows /\ OtherRows(req[r].draft)
               /\ drafts'[req[r].draft].version = drafts[req[r].draft].version
               /\ drafts'[req[r].draft].status = "PUBLISHED"
               /\ drafts'[req[r].draft].weeks = drafts[req[r].draft].weeks
<1>1. /\ req[r].op = "publish" /\ Finish(r) /\ r \in Callers
      /\ UNCHANGED <<parseVars, merges, merger, bootVars>>
      /\ \/ drafts' = drafts
         \/ /\ req[r].draft \in Rows
            /\ drafts' = [drafts EXCEPT ![req[r].draft].status = "PUBLISHED"]
  BY DEF PublishMark, Callers
<1>2. drafts \in Seq(Draft) /\ req \in [Callers -> Request]
  BY DEF PipeInv, TypeOK
<1>3. Others(r) /\ req'[r] = Idle
  BY <1>1, <1>2, FinishDoes
<1>4. QED
  BY <1>1, <1>2, <1>3, StatusWritten DEF Rows

LEMMA UnpublishDoes ==
  ASSUME PipeInv, NEW d \in DOMAIN drafts, Unpublish(d)
  PROVE  /\ d \in Rows /\ OtherRows(d) /\ UNCHANGED <<parseVars, merges, merger, req, bootVars>>
         /\ drafts'[d].version = drafts[d].version /\ drafts'[d].status = "DRAFT"
         /\ drafts'[d].weeks = drafts[d].weeks
BY StatusWritten DEF PipeInv, TypeOK, Unpublish

LEMMA DeleteDraftDoes ==
  ASSUME PipeInv, NEW d \in DOMAIN drafts, DeleteDraft(d)
  PROVE  /\ d \in Rows /\ OtherRows(d) /\ drafts'[d].status = "deleted"
         /\ drafts'[d].weeks = "none" /\ drafts'[d].version = 0
         /\ hasty' = (hasty \/ Consolidating(d))
         /\ UNCHANGED <<parseVars, merges, merger, req, phase, requeue, crashes>>
<1>1. /\ d \in Rows /\ drafts' = [drafts EXCEPT ![d] = Gone]
      /\ hasty' = (hasty \/ Consolidating(d))
      /\ UNCHANGED <<parseVars, merges, merger, req, phase, requeue, crashes>>
  BY DEF DeleteDraft
<1>2. OtherRows(d) /\ drafts'[d] = Gone
  BY <1>1, GoneIs, RowWritten DEF PipeInv, TypeOK
<1>3. QED
  BY <1>1, <1>2 DEF Gone

LEMMA EditTopicsDoes ==
  ASSUME PipeInv, NEW d \in DOMAIN drafts, NEW weeks \in Weeks \ {"none"}, EditTopics(d, weeks)
  PROVE  /\ d \in Rows /\ OtherRows(d) /\ UNCHANGED <<parseVars, merges, merger, req, bootVars>>
         /\ drafts'[d].version = drafts[d].version /\ drafts'[d].status = drafts[d].status
         /\ drafts'[d].weeks = weeks
BY WeeksWritten DEF PipeInv, TypeOK, EditTopics

\* The jobs that were active are ghosts now, as is the parse job at work.
LEMMA CrashDoes ==
  ASSUME PipeInv, Crash
  PROVE  /\ phase' = "down" /\ requeue' = {} /\ crashes' \in Nat /\ hasty' = hasty
         /\ UNCHANGED <<source, waiting, drafts>> /\ ghosts' \in JobCounts
         /\ parser' = Resting /\ merger' = Unmerging
         /\ req' = [c \in Callers |-> Idle]
         /\ merges' \in Seq(Merge) /\ Len(merges') = Len(merges)
         /\ DOMAIN merges' = DOMAIN merges
         /\ \A d \in DOMAIN merges : merges'[d].state # "none" => merges[d].state # "none"
<1>1. /\ phase' = "down" /\ requeue' = {} /\ crashes' = crashes + 1 /\ hasty' = hasty
      /\ UNCHANGED <<source, waiting, drafts>>
      /\ parser' = Resting /\ merger' = Unmerging
      /\ req' = [c \in Callers |-> Idle]
  BY DEF Crash
<1>2. crashes' \in Nat
  BY <1>1 DEF PipeInv, TypeOK
<1>3. ghosts' \in JobCounts
  <2>1. ghosts \in JobCounts
    BY DEF PipeInv, TypeOK
  <2>2. CASE parser.at = "idle"
    BY <2>1, <2>2 DEF Crash
  <2>3. CASE parser.at # "idle"
    <3>1. parser.source \in Sources /\ parser.made \in Made
      BY <2>3 DEF PipeInv, TypeOK, AtWork, Parser, Made
    <3>2. PICK k \in Sources \X Made : k = <<parser.source, parser.made>>
      BY <3>1
    <3>3. ghosts' = [ghosts EXCEPT ![k] = @ + 1]
      BY <2>3, <3>2 DEF Crash
    <3>4. QED
      BY <2>1, <3>3, OneMore
  <2>4. QED
    BY <2>2, <2>3
<1> DEFINE After(d) == IF merges[d].state = "active"
                       THEN [merges[d] EXCEPT !.state = "ghost"] ELSE merges[d]
<1>4. merges' = [d \in DOMAIN merges |-> After(d)]
  BY DEF Crash
<1>5. ASSUME NEW d \in DOMAIN merges
      PROVE  /\ After(d) \in Merge
             /\ After(d).state # "none" => merges[d].state # "none"
  <2>1. PICK q \in Merge : q = merges[d]
    BY DEF PipeInv, TypeOK
  <2>2. [q EXCEPT !.state = "ghost"] \in Merge
    BY DEF Merge
  <2>3. QED
    BY <2>1, <2>2
<1> HIDE DEF After
<1>6. /\ merges' \in Seq(Merge) /\ Len(merges') = Len(merges)
      /\ DOMAIN merges' = DOMAIN merges
      /\ \A d \in DOMAIN merges : merges'[d] = After(d)
  <2>1. Len(merges) \in Nat /\ DOMAIN merges = 1 .. Len(merges)
    BY LenProperties DEF PipeInv, TypeOK
  <2>2. merges' \in [1 .. Len(merges) -> Merge]
    BY <1>4, <1>5, <2>1
  <2>3. merges' \in Seq(Merge)
    BY <2>1, <2>2, IsASeq
  <2>4. QED
    BY <1>4, <2>1, <2>2, <2>3, LenProperties
<1>7. QED
  BY <1>1, <1>2, <1>3, <1>5, <1>6

LEMMA FailGhostsDoes ==
  ASSUME PipeInv, FailGhosts
  PROVE  /\ phase = "ghosts" /\ phase' = "reset"
         /\ UNCHANGED <<source, parser, drafts, merger, req, requeue, history>>
         /\ ghosts' \in JobCounts /\ waiting' \in JobCounts
         /\ merges' \in Seq(Merge) /\ Len(merges') = Len(merges)
         /\ DOMAIN merges' = DOMAIN merges
         /\ \A d \in DOMAIN merges : merges'[d].state # "none" => merges[d].state # "none"
         /\ \A d \in DOMAIN merges : merges[d].state # "ghost" => merges'[d] = merges[d]
<1>1. /\ phase = "ghosts" /\ phase' = "reset"
      /\ UNCHANGED <<source, parser, drafts, merger, req, requeue, history>>
  BY DEF FailGhosts
<1>2. ghosts \in JobCounts /\ waiting \in JobCounts /\ merges \in Seq(Merge)
  BY DEF PipeInv, TypeOK
<1>3. DOMAIN ghosts = Sources \X Made /\ DOMAIN waiting = Sources \X Made
  BY <1>2 DEF JobCounts, Made
<1>4. PICK K \in SUBSET {k \in DOMAIN ghosts : ghosts[k] > 0},
           D \in SUBSET {d \in DOMAIN merges : merges[d].state = "ghost"} :
       /\ ghosts' = [k \in DOMAIN ghosts |-> IF k \in K THEN 0 ELSE ghosts[k]]
       /\ waiting' = [k \in DOMAIN waiting |->
            IF k[2] > 0 /\ <<k[1], k[2] - 1>> \in K
            THEN waiting[k] + ghosts[<<k[1], k[2] - 1>>] ELSE waiting[k]]
       /\ merges' = [d \in DOMAIN merges |->
            IF d \notin D THEN merges[d]
            ELSE IF merges[d].made + 1 < Attempts
            THEN [merges[d] EXCEPT !.state = "waiting", !.made = @ + 1]
            ELSE NoMerge]
  BY DEF FailGhosts
<1>5. ghosts' \in JobCounts
  BY <1>2, <1>3, <1>4 DEF JobCounts, Made
<1>6. waiting' \in JobCounts
  <2> DEFINE More(k) == IF k[2] > 0 /\ <<k[1], k[2] - 1>> \in K
                        THEN waiting[k] + ghosts[<<k[1], k[2] - 1>>] ELSE waiting[k]
  <2>1. ASSUME NEW k \in Sources \X Made
        PROVE  More(k) \in Nat
    <3>1. waiting[k] \in Nat
      BY <1>2 DEF JobCounts, Made
    <3>2. <<k[1], k[2] - 1>> \in K => ghosts[<<k[1], k[2] - 1>>] \in Nat
      BY <1>2, <1>3 DEF JobCounts, Made
    <3>3. QED
      BY <3>1, <3>2
  <2>2. waiting' = [k \in Sources \X Made |-> More(k)]
    BY <1>3, <1>4
  <2> HIDE DEF More
  <2>3. QED
    BY <2>1, <2>2 DEF JobCounts, Made
<1> DEFINE After(d) == IF d \notin D THEN merges[d]
                       ELSE IF merges[d].made + 1 < Attempts
                       THEN [merges[d] EXCEPT !.state = "waiting", !.made = @ + 1]
                       ELSE NoMerge
<1>7. merges' = [d \in DOMAIN merges |-> After(d)]
  BY <1>4
<1>8. ASSUME NEW d \in DOMAIN merges
      PROVE  /\ After(d) \in Merge
             /\ After(d).state # "none" => merges[d].state # "none"
             /\ merges[d].state # "ghost" => After(d) = merges[d]
  <2>1. PICK q \in Merge : q = merges[d]
    BY <1>2
  <2>2. CASE d \notin D
    BY <2>1, <2>2
  <2>3. CASE d \in D /\ q.made + 1 < Attempts
    <3>1. q.made + 1 \in 0 .. Attempts - 1
      BY <2>3, BoundAssumption DEF Merge
    <3>2. [q EXCEPT !.state = "waiting", !.made = q.made + 1] \in Merge
      BY <3>1 DEF Merge
    <3>3. QED
      BY <2>1, <2>3, <3>2
  <2>4. CASE d \in D /\ ~(q.made + 1 < Attempts)
    BY <2>1, <2>4, NoMergeIs
  <2>5. QED
    BY <2>2, <2>3, <2>4
<1> HIDE DEF After
<1>9. /\ merges' \in Seq(Merge) /\ Len(merges') = Len(merges)
      /\ DOMAIN merges' = DOMAIN merges
      /\ \A d \in DOMAIN merges : merges'[d] = After(d)
  <2>1. Len(merges) \in Nat /\ DOMAIN merges = 1 .. Len(merges)
    BY <1>2, LenProperties
  <2>2. merges' \in [1 .. Len(merges) -> Merge]
    BY <1>7, <1>8, <2>1
  <2>3. merges' \in Seq(Merge)
    BY <2>1, <2>2, IsASeq
  <2>4. QED
    BY <1>7, <2>1, <2>2, <2>3, LenProperties
<1>10. QED
  BY <1>1, <1>5, <1>6, <1>8, <1>9

LEMMA StalledMergeDoes ==
  ASSUME PipeInv, NEW d \in DOMAIN merges, StalledMerge(d)
  PROVE  /\ OtherMerges(d) /\ merges[d].state = "ghost" /\ phase # "down"
         /\ UNCHANGED <<parseVars, drafts, merger, req, bootVars>>
<1>1. merges \in Seq(Merge)
  BY DEF PipeInv, TypeOK
<1>2. /\ merges[d].state = "ghost" /\ phase # "down"
      /\ UNCHANGED <<parseVars, drafts, merger, req, bootVars>>
      /\ \/ merges' = [merges EXCEPT ![d].state = "waiting"]
         \/ merges' = [merges EXCEPT ![d] = NoMerge]
  BY DEF StalledMerge, Running
<1>3. CASE merges' = [merges EXCEPT ![d].state = "waiting"]
  <2>1. PICK q \in Merge : q = merges[d]
    BY <1>1
  <2>2. merges' = [merges EXCEPT ![d] = [q EXCEPT !.state = "waiting"]]
    BY <1>3, <2>1
  <2>3. OtherMerges(d)
    BY <1>1, <2>1, <2>2, StateWritten DEF OtherMerges
  <2>4. QED
    BY <1>2, <2>3
<1>4. CASE merges' = [merges EXCEPT ![d] = NoMerge]
  BY <1>1, <1>2, <1>4, NoMergeIs, MergeWritten
<1>5. QED
  BY <1>2, <1>3, <1>4

LEMMA RequeueSourceDoes ==
  ASSUME PipeInv, NEW s \in Sources, RequeueSource(s)
  PROVE  /\ phase = "requeue" /\ phase' \in {"up", "requeue"} /\ requeue' \subseteq Sources
         /\ waiting' \in JobCounts /\ \A k \in Sources \X Made : waiting'[k] >= waiting[k]
         /\ UNCHANGED <<source, ghosts, parser, draftVars, req, history>>
BY AddJobDoes DEF PipeInv, TypeOK, RequeueSource, Requeueing
-----------------------------------------------------------------------------
(* Every step keeps the types and what is in hand: one lemma per action.   *)

\* The types, in two halves.
ParseTyped ==
  /\ source \in [Sources -> Statuses]
  /\ waiting \in JobCounts /\ ghosts \in JobCounts /\ parser \in Parser
  /\ parser.at = "idle" <=> parser.source = NoSource
  /\ phase \in Phases /\ requeue \subseteq Sources /\ crashes \in Nat /\ hasty \in BOOLEAN
DraftTyped ==
  /\ Tables /\ merger \in Merger
  /\ merger.at # "idle" => merger.job \in DOMAIN merges /\ merger.target \in DOMAIN merges

LEMMA Halves ==
  PipeInv <=> ParseTyped /\ DraftTyped /\ req \in [Callers -> Request] /\ InHand /\ WorkerOK
BY DEF PipeInv, ParseTyped, DraftTyped, Tables, TypeOK, AtWork

LEMMA DraftsKept ==
  ASSUME DraftTyped, UNCHANGED draftVars
  PROVE  DraftTyped'
BY DEF DraftTyped, Tables, draftVars

\* A table whose rows are rewritten has as many of them.
LEMMA SameLength ==
  ASSUME NEW S, NEW s \in Seq(S), NEW t \in Seq(S), DOMAIN t = DOMAIN s
  PROVE  Len(t) = Len(s)
<1>1. Len(t) \in Nat /\ Len(s) \in Nat
  BY LenProperties
<1>2. \A i \in Nat : (i \in DOMAIN t <=> 1 <= i /\ i <= Len(t))
      /\ (i \in DOMAIN s <=> 1 <= i /\ i <= Len(s))
  BY LenProperties
<1>3. PICK n \in Nat, m \in Nat : n = Len(t) /\ m = Len(s)
  BY <1>1
<1>4. \A i \in Nat : (1 <= i /\ i <= n) <=> (1 <= i /\ i <= m)
  BY <1>2, <1>3
<1>5. n = m
  BY <1>4
<1>6. QED
  BY <1>3, <1>5

\* A step that rewrites rows and adds none.
LEMMA TablesKept ==
  ASSUME Tables, drafts' \in Seq(Draft), DOMAIN drafts' = DOMAIN drafts,
         merges' \in Seq(Merge), Len(merges') = Len(merges), DOMAIN merges' = DOMAIN merges
  PROVE  Tables'
<1>1. Len(drafts') = Len(drafts)
  BY SameLength DEF Tables
<1>2. QED
  BY <1>1 DEF Tables

LEMMA MergerKept ==
  ASSUME DraftTyped, Tables', DOMAIN merges' = DOMAIN merges,
         \/ merger' = merger \/ merger' = Unmerging
         \/ merger' \in Merger /\ merger'.job \in DOMAIN merges
            /\ merger'.target \in DOMAIN merges
  PROVE  DraftTyped'
BY UnmergingIs DEF DraftTyped

\* A step that adds a row.
LEMMA OpenedTables ==
  ASSUME Tables, NEW v, NEW ids, NEW m, Opened(v, ids, m)
  PROVE  /\ Tables' /\ DOMAIN merges \subseteq DOMAIN merges'
         /\ Len(drafts) + 1 \in DOMAIN merges' /\ DOMAIN drafts \subseteq DOMAIN drafts'
         /\ Len(drafts) + 1 \in DOMAIN drafts'
BY TablesAlike DEF Opened, Tables

LEMMA ParseKept ==
  ASSUME ParseTyped, UNCHANGED bootVars, source' \in [Sources -> Statuses],
         waiting' \in JobCounts, ghosts' \in JobCounts, parser' \in Parser,
         parser'.at = "idle" <=> parser'.source = NoSource
  PROVE  ParseTyped'
BY DEF ParseTyped, bootVars, history

LEMMA CreateSourceKeeps ==
  ASSUME PipeInv, NEW r \in Requests, NEW s \in Sources,
         CreateSource(r, s)
  PROVE  PipeInv'
<1> /\ TypeOK /\ ParseTyped /\ DraftTyped /\ req \in [Callers -> Request] /\ InHand /\ WorkerOK
    /\ Worker \in Callers /\ Worker \notin Requests /\ Requests \subseteq Callers
  BY Halves, NamesAssumption DEF PipeInv, Callers
<1>1. ParseTyped'
  BY CreateSourceDoes, SMTT(10) DEF ParseTyped, Statuses, Mark, bootVars, history
<1>2. req' \in [Callers -> Request] /\ WorkerOK'
  BY CreateSourceDoes, SMTT(10) DEF ParseTyped, WorkerOK, Parser, Others, Mark
<1>3. InHand'
  BY CreateSourceDoes, SMTT(10) DEF InHand, Others, draftVars
<1>4. DraftTyped'
  <2>1. UNCHANGED draftVars
    BY CreateSourceDoes  DEF draftVars
  <2>2. QED
    BY <2>1, DraftsKept
<1>5. QED
  BY <1>1, <1>2, <1>3, <1>4 DEF PipeInv, ParseTyped, DraftTyped, Tables, TypeOK, AtWork

LEMMA AddSourceJobKeeps ==
  ASSUME PipeInv, NEW r \in Requests,
         AddSourceJob(r)
  PROVE  PipeInv'
<1> /\ TypeOK /\ ParseTyped /\ DraftTyped /\ req \in [Callers -> Request] /\ InHand /\ WorkerOK
    /\ Worker \in Callers /\ Worker \notin Requests /\ Requests \subseteq Callers
  BY Halves, NamesAssumption DEF PipeInv, Callers
<1>1. ParseTyped'
  BY AddSourceJobDoes, SMTT(10) DEF ParseTyped, bootVars, history
<1>2. req' \in [Callers -> Request] /\ WorkerOK'
  BY AddSourceJobDoes, SMTT(10) DEF WorkerOK, Others
<1>3. InHand'
  BY AddSourceJobDoes, IdleIs, SMTT(10) DEF InHand, SourceOps, Others, draftVars
<1>4. DraftTyped'
  <2>1. UNCHANGED draftVars
    BY AddSourceJobDoes, IdleIs  DEF draftVars
  <2>2. QED
    BY <2>1, DraftsKept
<1>5. QED
  BY <1>1, <1>2, <1>3, <1>4 DEF PipeInv, ParseTyped, DraftTyped, Tables, TypeOK, AtWork

LEMMA RetryReadKeeps ==
  ASSUME PipeInv, NEW r \in Requests, NEW s \in Sources,
         RetryRead(r, s)
  PROVE  PipeInv'
<1> /\ TypeOK /\ ParseTyped /\ DraftTyped /\ req \in [Callers -> Request] /\ InHand /\ WorkerOK
    /\ Worker \in Callers /\ Worker \notin Requests /\ Requests \subseteq Callers
  BY Halves, NamesAssumption DEF PipeInv, Callers
<1>1. ParseTyped'
  BY RetryReadDoes, SMTT(10) DEF ParseTyped, parseVars, bootVars, history
<1>2. req' \in [Callers -> Request] /\ WorkerOK'
  BY RetryReadDoes, SMTT(10) DEF WorkerOK, Others, parseVars
<1>3. InHand'
  BY RetryReadDoes, SMTT(10) DEF InHand, Others, draftVars
<1>4. DraftTyped'
  <2>1. UNCHANGED draftVars
    BY RetryReadDoes  DEF draftVars
  <2>2. QED
    BY <2>1, DraftsKept
<1>5. QED
  BY <1>1, <1>2, <1>3, <1>4 DEF PipeInv, ParseTyped, DraftTyped, Tables, TypeOK, AtWork

LEMMA RetryMarkKeeps ==
  ASSUME PipeInv, NEW r \in Requests,
         RetryMark(r)
  PROVE  PipeInv'
<1> /\ TypeOK /\ ParseTyped /\ DraftTyped /\ req \in [Callers -> Request] /\ InHand /\ WorkerOK
    /\ Worker \in Callers /\ Worker \notin Requests /\ Requests \subseteq Callers
  BY Halves, NamesAssumption DEF PipeInv, Callers
<1>1. ParseTyped'
  BY SMTT(10) DEF RetryMark, ParseTyped, Statuses, Mark, bootVars, history
<1>2. req' \in [Callers -> Request] /\ WorkerOK'
  BY StepDoes, FinishDoes, SMTT(10)
    DEF RetryMark, ParseTyped, WorkerOK, Parser, Others, Mark, Ops, history
<1>3. InHand'
  BY StepDoes, FinishDoes, IdleIs, SMTT(10)
    DEF RetryMark, InHand, SourceOps, Others, Ops, draftVars
<1>4. DraftTyped'
  <2>1. UNCHANGED draftVars
    BY StepDoes, FinishDoes, IdleIs  DEF RetryMark, draftVars
  <2>2. QED
    BY <2>1, DraftsKept
<1>5. QED
  BY <1>1, <1>2, <1>3, <1>4 DEF PipeInv, ParseTyped, DraftTyped, Tables, TypeOK, AtWork

LEMMA CancelReadKeeps ==
  ASSUME PipeInv, NEW r \in Requests, NEW s \in Sources,
         CancelRead(r, s)
  PROVE  PipeInv'
<1> /\ TypeOK /\ ParseTyped /\ DraftTyped /\ req \in [Callers -> Request] /\ InHand /\ WorkerOK
    /\ Worker \in Callers /\ Worker \notin Requests /\ Requests \subseteq Callers
  BY Halves, NamesAssumption DEF PipeInv, Callers
<1>1. ParseTyped'
  BY CancelReadDoes, SMTT(10) DEF ParseTyped, parseVars, bootVars, history
<1>2. req' \in [Callers -> Request] /\ WorkerOK'
  BY CancelReadDoes, SMTT(10) DEF WorkerOK, Others, parseVars
<1>3. InHand'
  BY CancelReadDoes, SMTT(10) DEF InHand, Others, draftVars
<1>4. DraftTyped'
  <2>1. UNCHANGED draftVars
    BY CancelReadDoes  DEF draftVars
  <2>2. QED
    BY <2>1, DraftsKept
<1>5. QED
  BY <1>1, <1>2, <1>3, <1>4 DEF PipeInv, ParseTyped, DraftTyped, Tables, TypeOK, AtWork

LEMMA CancelJobKeeps ==
  ASSUME PipeInv, NEW r \in Requests,
         CancelJob(r)
  PROVE  PipeInv'
<1> /\ TypeOK /\ ParseTyped /\ DraftTyped /\ req \in [Callers -> Request] /\ InHand /\ WorkerOK
    /\ Worker \in Callers /\ Worker \notin Requests /\ Requests \subseteq Callers
  BY Halves, NamesAssumption DEF PipeInv, Callers
<1>1. ParseTyped'
  BY CancelJobDoes, SMTT(10) DEF ParseTyped, bootVars, history
<1>2. req' \in [Callers -> Request] /\ WorkerOK'
  BY CancelJobDoes, SMTT(10) DEF WorkerOK, Others
<1>3. InHand'
  BY CancelJobDoes, IdleIs, SMTT(10) DEF InHand, SourceOps, Others, draftVars
<1>4. DraftTyped'
  <2>1. UNCHANGED draftVars
    BY CancelJobDoes, IdleIs  DEF draftVars
  <2>2. QED
    BY <2>1, DraftsKept
<1>5. QED
  BY <1>1, <1>2, <1>3, <1>4 DEF PipeInv, ParseTyped, DraftTyped, Tables, TypeOK, AtWork

LEMMA CancelMarkKeeps ==
  ASSUME PipeInv, NEW r \in Requests,
         CancelMark(r)
  PROVE  PipeInv'
<1> /\ TypeOK /\ ParseTyped /\ DraftTyped /\ req \in [Callers -> Request] /\ InHand /\ WorkerOK
    /\ Worker \in Callers /\ Worker \notin Requests /\ Requests \subseteq Callers
  BY Halves, NamesAssumption DEF PipeInv, Callers
<1>1. ParseTyped'
  BY SMTT(10) DEF CancelMark, ParseTyped, Statuses, Mark, bootVars, history
<1>2. req' \in [Callers -> Request] /\ WorkerOK'
  BY StepDoes, FinishDoes, SMTT(10)
    DEF CancelMark, ParseTyped, WorkerOK, Parser, Others, Mark, Ops, history
<1>3. InHand'
  BY StepDoes, FinishDoes, IdleIs, SMTT(10)
    DEF CancelMark, InHand, SourceOps, Others, Ops, draftVars
<1>4. DraftTyped'
  <2>1. UNCHANGED draftVars
    BY StepDoes, FinishDoes, IdleIs  DEF CancelMark, draftVars
  <2>2. QED
    BY <2>1, DraftsKept
<1>5. QED
  BY <1>1, <1>2, <1>3, <1>4 DEF PipeInv, ParseTyped, DraftTyped, Tables, TypeOK, AtWork

LEMMA DeleteReadKeeps ==
  ASSUME PipeInv, NEW r \in Requests, NEW s \in Sources,
         DeleteRead(r, s)
  PROVE  PipeInv'
<1> /\ TypeOK /\ ParseTyped /\ DraftTyped /\ req \in [Callers -> Request] /\ InHand /\ WorkerOK
    /\ Worker \in Callers /\ Worker \notin Requests /\ Requests \subseteq Callers
  BY Halves, NamesAssumption DEF PipeInv, Callers
<1>1. ParseTyped'
  BY DeleteReadDoes, SMTT(10) DEF ParseTyped, parseVars, bootVars, history
<1>2. req' \in [Callers -> Request] /\ WorkerOK'
  BY DeleteReadDoes, SMTT(10) DEF WorkerOK, Others, parseVars
<1>3. InHand'
  BY DeleteReadDoes, SMTT(10) DEF InHand, Others, draftVars
<1>4. DraftTyped'
  <2>1. UNCHANGED draftVars
    BY DeleteReadDoes  DEF draftVars
  <2>2. QED
    BY <2>1, DraftsKept
<1>5. QED
  BY <1>1, <1>2, <1>3, <1>4 DEF PipeInv, ParseTyped, DraftTyped, Tables, TypeOK, AtWork

LEMMA DeleteRowKeeps ==
  ASSUME PipeInv, NEW r \in Requests,
         DeleteRow(r)
  PROVE  PipeInv'
<1> /\ TypeOK /\ ParseTyped /\ DraftTyped /\ req \in [Callers -> Request] /\ InHand /\ WorkerOK
    /\ Worker \in Callers /\ Worker \notin Requests /\ Requests \subseteq Callers
  BY Halves, NamesAssumption DEF PipeInv, Callers
<1>1. ParseTyped'
  BY SMTT(10) DEF DeleteRow, ParseTyped, Statuses, Mark, bootVars, history
<1>2. req' \in [Callers -> Request] /\ WorkerOK'
  BY FinishDoes, SMTT(10)
    DEF DeleteRow, ParseTyped, WorkerOK, Parser, Others, Mark, history
<1>3. InHand'
  BY FinishDoes, IdleIs, SMTT(10) DEF DeleteRow, InHand, SourceOps, Others, draftVars
<1>4. DraftTyped'
  <2>1. UNCHANGED draftVars
    BY StepDoes, FinishDoes, IdleIs  DEF DeleteRow, draftVars
  <2>2. QED
    BY <2>1, DraftsKept
<1>5. QED
  BY <1>1, <1>2, <1>3, <1>4 DEF PipeInv, ParseTyped, DraftTyped, Tables, TypeOK, AtWork

LEMMA TakeJobKeeps ==
  ASSUME PipeInv, NEW s \in Sources, NEW m \in Made,
         TakeJob(s, m)
  PROVE  PipeInv'
<1> /\ TypeOK /\ ParseTyped /\ DraftTyped /\ req \in [Callers -> Request] /\ InHand /\ WorkerOK
    /\ Worker \in Callers /\ Worker \notin Requests /\ Requests \subseteq Callers
  BY Halves, NamesAssumption DEF PipeInv, Callers
<1>1. ParseTyped'
  BY TakeJobDoes, RestingIs, NamesAssumption, SMTT(10)
    DEF ParseTyped, Parser, Made, bootVars, history
<1>2. req' \in [Callers -> Request] /\ WorkerOK'
  BY TakeJobDoes, RestingIs, SMTT(10) DEF WorkerOK
<1>3. InHand'
  BY TakeJobDoes, SMTT(10) DEF InHand, draftVars
<1>4. DraftTyped'
  <2>1. UNCHANGED draftVars
    BY TakeJobDoes, RestingIs  DEF draftVars
  <2>2. QED
    BY <2>1, DraftsKept
<1>5. QED
  BY <1>1, <1>2, <1>3, <1>4 DEF PipeInv, ParseTyped, DraftTyped, Tables, TypeOK, AtWork

LEMMA MarkParsingKeeps ==
  ASSUME PipeInv, MarkParsing
  PROVE  PipeInv'
<1> /\ TypeOK /\ ParseTyped /\ DraftTyped /\ req \in [Callers -> Request] /\ InHand /\ WorkerOK
    /\ Worker \in Callers /\ Worker \notin Requests /\ Requests \subseteq Callers
  BY Halves, NamesAssumption DEF PipeInv, Callers
<1>1. ParseTyped'
  <2>1. parser.source \in Sources /\ parser.source # NoSource /\ parser \in Parser
    BY NamesAssumption DEF MarkParsing, ParseTyped, Parser
  <2>2. CASE /\ Mark(parser.source, "PARSING") /\ UNCHANGED <<waiting, ghosts>>
             /\ parser' = [parser EXCEPT !.at = "parse"]
    <3>1. /\ parser' \in Parser /\ parser'.at = "parse" /\ parser'.source = parser.source
      BY <2>1, <2>2, ParserGoes
    <3>2. source' \in [Sources -> Statuses] /\ waiting' \in JobCounts
          /\ ghosts' \in JobCounts
      BY <2>2 DEF Mark, Statuses, ParseTyped
    <3>3. QED
      BY <2>1, <3>1, <3>2, ParseKept DEF MarkParsing
  <2>3. CASE ParseThrows
    <3>1. /\ source' \in [Sources -> Statuses] /\ waiting' \in JobCounts
          /\ ghosts' = ghosts /\ parser' = Resting
      BY <2>1, <2>3, ParseThrowsDoes
    <3>2. ghosts' \in JobCounts
      BY <3>1 DEF ParseTyped
    <3>3. QED
      BY <3>1, <3>2, RestingIs, ParseKept DEF MarkParsing
  <2>4. QED
    BY <2>2, <2>3 DEF MarkParsing
<1>2. req' \in [Callers -> Request] /\ WorkerOK'
  BY ParseThrowsDoes, RestingIs, SMTT(10) DEF MarkParsing, ParseTyped, WorkerOK, Parser
<1>3. InHand'
  BY SMTT(10) DEF MarkParsing, InHand, draftVars
<1>4. DraftTyped'
  <2>1. UNCHANGED draftVars
    BY ParserGoes, ParseThrowsDoes, RestingIs  DEF MarkParsing, draftVars
  <2>2. QED
    BY <2>1, DraftsKept
<1>5. QED
  BY <1>1, <1>2, <1>3, <1>4 DEF PipeInv, ParseTyped, DraftTyped, Tables, TypeOK, AtWork

LEMMA StoreParsedKeeps ==
  ASSUME PipeInv, StoreParsed
  PROVE  PipeInv'
<1> /\ TypeOK /\ ParseTyped /\ DraftTyped /\ req \in [Callers -> Request] /\ InHand /\ WorkerOK
    /\ Worker \in Callers /\ Worker \notin Requests /\ Requests \subseteq Callers
  BY Halves, NamesAssumption DEF PipeInv, Callers
<1>1. ParseTyped'
  BY SMTT(10) DEF StoreParsed, ParseTyped, Statuses, Parser, Mark, bootVars, history
<1>2. req' \in [Callers -> Request] /\ WorkerOK'
  BY SMTT(10) DEF StoreParsed, ParseTyped, WorkerOK, Parser, Mark
<1>3. InHand'
  BY SMTT(10) DEF StoreParsed, InHand, draftVars
<1>4. DraftTyped'
  <2>1. UNCHANGED draftVars
    BY ParserGoes  DEF StoreParsed, draftVars
  <2>2. QED
    BY <2>1, DraftsKept
<1>5. QED
  BY <1>1, <1>2, <1>3, <1>4 DEF PipeInv, ParseTyped, DraftTyped, Tables, TypeOK, AtWork

LEMMA ParseFailsKeeps ==
  ASSUME PipeInv, ParseFails
  PROVE  PipeInv'
<1> /\ TypeOK /\ ParseTyped /\ DraftTyped /\ req \in [Callers -> Request] /\ InHand /\ WorkerOK
    /\ Worker \in Callers /\ Worker \notin Requests /\ Requests \subseteq Callers
  BY Halves, NamesAssumption DEF PipeInv, Callers
<1>1. ParseTyped'
  BY ParseThrowsDoes, RestingIs, SMTT(10)
    DEF ParseFails, ParseTyped, Parser, bootVars, history
<1>2. req' \in [Callers -> Request] /\ WorkerOK'
  BY ParseThrowsDoes, RestingIs, SMTT(10) DEF ParseFails, ParseTyped, WorkerOK, Parser
<1>3. InHand'
  BY SMTT(10) DEF ParseFails, InHand, draftVars
<1>4. DraftTyped'
  <2>1. UNCHANGED draftVars
    BY ParseThrowsDoes, RestingIs  DEF ParseFails, draftVars
  <2>2. QED
    BY <2>1, DraftsKept
<1>5. QED
  BY <1>1, <1>2, <1>3, <1>4 DEF PipeInv, ParseTyped, DraftTyped, Tables, TypeOK, AtWork

LEMMA AutoConsolidateKeeps ==
  ASSUME PipeInv, AutoConsolidate
  PROVE  PipeInv'
<1> /\ TypeOK /\ ParseTyped /\ DraftTyped /\ req \in [Callers -> Request] /\ InHand /\ WorkerOK
    /\ Worker \in Callers /\ Worker \notin Requests /\ Requests \subseteq Callers
  BY Halves, NamesAssumption DEF PipeInv, Callers
<1>1. ParseTyped'
  <2>1. /\ parser.source \in Sources /\ parser.source # NoSource /\ parser \in Parser
        /\ UNCHANGED <<source, waiting, ghosts, bootVars>>
        /\ parser' = [parser EXCEPT !.at = "enqueue"] \/ parser' = Resting
    BY AutoConsolidateDoes, NamesAssumption DEF ParseTyped
  <2>2. parser' \in Parser /\ (parser'.at = "idle" <=> parser'.source = NoSource)
    BY <2>1, ParserGoes, RestingIs
  <2>3. source' \in [Sources -> Statuses] /\ waiting' \in JobCounts /\ ghosts' \in JobCounts
    BY <2>1 DEF ParseTyped
  <2>4. QED
    BY <2>1, <2>2, <2>3, ParseKept
<1>2. req' \in [Callers -> Request] /\ WorkerOK'
  <2>1. parser.at = "auto" /\ parser \in Parser /\ source' = source
    BY AutoConsolidateDoes DEF ParseTyped
  <2>2. CASE /\ Others(Worker) /\ req'[Worker].op = "latest"
             /\ parser' = [parser EXCEPT !.at = "enqueue"]
    <3>1. parser'.at = "enqueue" /\ parser'.source = parser.source
      BY <2>1, <2>2, ParserGoes
    <3>2. QED
      BY <2>1, <2>2, <3>1 DEF Others, WorkerOK
  <2>3. CASE req' = req /\ parser' = Resting
    BY <2>1, <2>3, RestingIs DEF WorkerOK
  <2>4. QED
    BY <2>2, <2>3, AutoConsolidateDoes
<1>3. InHand'
  <2>1. drafts' = drafts
    BY AutoConsolidateDoes DEF draftVars
  <2>2. CASE /\ Others(Worker) /\ req'[Worker].op = "latest" /\ ~req'[Worker].reuse
             /\ req'[Worker].version = 0
    BY <2>1, <2>2 DEF Others, InHand, SourceOps
  <2>3. CASE req' = req
    BY <2>1, <2>3 DEF InHand
  <2>4. QED
    BY <2>2, <2>3, AutoConsolidateDoes
<1>4. DraftTyped'
  <2>1. UNCHANGED draftVars
    BY AutoConsolidateDoes  DEF draftVars
  <2>2. QED
    BY <2>1, DraftsKept
<1>5. QED
  BY <1>1, <1>2, <1>3, <1>4 DEF PipeInv, ParseTyped, DraftTyped, Tables, TypeOK, AtWork

LEMMA ConsolidateReadKeeps ==
  ASSUME PipeInv, NEW r \in Requests, NEW ids \in SUBSET Sources, NEW force \in BOOLEAN,
         ConsolidateRead(r, ids, force)
  PROVE  PipeInv'
<1> /\ TypeOK /\ ParseTyped /\ DraftTyped /\ req \in [Callers -> Request] /\ InHand /\ WorkerOK
    /\ Worker \in Callers /\ Worker \notin Requests /\ Requests \subseteq Callers
  BY Halves, NamesAssumption DEF PipeInv, Callers
<1>1. ParseTyped'
  BY ConsolidateReadDoes, SMTT(10) DEF ParseTyped, parseVars, bootVars, history
<1>2. req' \in [Callers -> Request] /\ WorkerOK'
  BY ConsolidateReadDoes, SMTT(10) DEF WorkerOK, Others, parseVars
<1>3. InHand'
  BY ConsolidateReadDoes, SMTT(10) DEF InHand, SourceOps, Others, draftVars
<1>4. DraftTyped'
  <2>1. UNCHANGED draftVars
    BY ConsolidateReadDoes  DEF draftVars
  <2>2. QED
    BY <2>1, DraftsKept
<1>5. QED
  BY <1>1, <1>2, <1>3, <1>4 DEF PipeInv, ParseTyped, DraftTyped, Tables, TypeOK, AtWork

LEMMA ReadLatestKeeps ==
  ASSUME PipeInv, NEW c \in Callers,
         ReadLatest(c)
  PROVE  PipeInv'
<1> /\ TypeOK /\ ParseTyped /\ DraftTyped /\ req \in [Callers -> Request] /\ InHand /\ WorkerOK
    /\ Worker \in Callers /\ Worker \notin Requests /\ Requests \subseteq Callers
  BY Halves, NamesAssumption DEF PipeInv, Callers
<1>1. ParseTyped'
  BY ReadLatestDoes, SMTT(10) DEF ParseTyped, parseVars, bootVars, history
<1>2. req' \in [Callers -> Request] /\ WorkerOK'
  BY ReadLatestDoes, SMTT(10) DEF WorkerOK, Others, parseVars
<1>3. InHand'
  <2>1. drafts' = drafts /\ Others(c) /\ req[c].op = "latest" /\ req'[c].op = "draft"
    BY ReadLatestDoes DEF draftVars
  <2>2. ~req'[c].reuse \/ req'[c].draft \in DOMAIN drafts
    <3>1. CASE req'[c].reuse = req[c].reuse
      BY <2>1, <3>1 DEF InHand
    <3>2. CASE \E d \in Latest : req'[c].draft = d
      BY <3>2 DEF Latest, Rows
    <3>3. QED
      BY <3>1, <3>2, ReadLatestDoes
  <2>3. QED
    BY <2>1, <2>2 DEF Others, InHand, SourceOps
<1>4. DraftTyped'
  <2>1. UNCHANGED draftVars
    BY ReadLatestDoes, Answered DEF draftVars
  <2>2. QED
    BY <2>1, DraftsKept
<1>5. QED
  BY <1>1, <1>2, <1>3, <1>4 DEF PipeInv, ParseTyped, DraftTyped, Tables, TypeOK, AtWork

LEMMA ReuseDraftKeeps ==
  ASSUME PipeInv, NEW c \in Callers,
         ReuseDraft(c)
  PROVE  PipeInv'
<1> /\ TypeOK /\ ParseTyped /\ DraftTyped /\ req \in [Callers -> Request] /\ InHand /\ WorkerOK
    /\ Worker \in Callers /\ Worker \notin Requests /\ Requests \subseteq Callers
  BY Halves, NamesAssumption DEF PipeInv, Callers
<1>1. ParseTyped'
  BY ReuseDraftDoes, EnqueueThrowsDoes, ParseThrowsDoes, RestingIs, SMTT(10)
    DEF ParseTyped, parseVars, bootVars, history
<1>2. req' \in [Callers -> Request] /\ WorkerOK'
  BY ReuseDraftDoes, EnqueueThrowsDoes, ParseThrowsDoes, RestingIs, IdleIs, SMTT(10)
    DEF WorkerOK, Others, parseVars
<1>3. InHand'
  BY ReuseDraftDoes, EnqueueThrowsDoes, IdleIs, SMTT(10)
    DEF InHand, SourceOps, Others, OtherRows
<1>4. DraftTyped'
  <2>1. /\ drafts' \in Seq(Draft) /\ DOMAIN drafts' = DOMAIN drafts
        /\ merges' \in Seq(Merge) /\ Len(merges') = Len(merges)
        /\ DOMAIN merges' = DOMAIN merges
    BY ReuseDraftDoes, SMTT(10) DEF OtherRows, DraftTyped, Tables
  <2>2. Tables'
    BY <2>1, TablesKept DEF DraftTyped
  <2>3. \/ merger' = merger \/ merger' = Unmerging
        \/ merger' \in Merger /\ merger'.job \in DOMAIN merges
           /\ merger'.target \in DOMAIN merges
    BY ReuseDraftDoes, SMTT(10)
  <2>4. QED
    BY <2>1, <2>2, <2>3, MergerKept
<1>5. QED
  BY <1>1, <1>2, <1>3, <1>4 DEF PipeInv, ParseTyped, DraftTyped, Tables, TypeOK, AtWork

LEMMA CreateDraftKeeps ==
  ASSUME PipeInv, NEW c \in Callers,
         CreateDraft(c)
  PROVE  PipeInv'
<1> /\ TypeOK /\ ParseTyped /\ DraftTyped /\ req \in [Callers -> Request] /\ InHand /\ WorkerOK
    /\ Worker \in Callers /\ Worker \notin Requests /\ Requests \subseteq Callers
  BY Halves, NamesAssumption DEF PipeInv, Callers
<1>1. ParseTyped'
  BY CreateDraftOpens, EnqueueThrowsDoes, ParseThrowsDoes, RestingIs, BoundAssumption,
     SMTT(10)
    DEF ParseTyped, Phases, parseVars, bootVars, history
<1>2. req' \in [Callers -> Request] /\ WorkerOK'
  BY CreateDraftOpens, EnqueueThrowsDoes, ParseThrowsDoes, RestingIs, IdleIs, SMTT(10)
    DEF WorkerOK, Others, parseVars
<1>3. InHand'
  BY CreateDraftOpens, EnqueueThrowsDoes, IdleIs, SMTT(10)
    DEF InHand, SourceOps, Others, Opened
<1>4. DraftTyped'
  <2>1. CASE Opened(req[c].version + 1, req[c].ids, merges) /\ merger' = merger
    BY <2>1, OpenedTables DEF DraftTyped
  <2>2. CASE EnqueueThrows(c) /\ UNCHANGED <<drafts, merges>> /\ merger' = merger
    BY <2>2, DraftsKept DEF draftVars
  <2>3. QED
    BY <2>1, <2>2, CreateDraftOpens
<1>5. QED
  BY <1>1, <1>2, <1>3, <1>4 DEF PipeInv, ParseTyped, DraftTyped, Tables, TypeOK, AtWork

LEMMA QueueMergeKeeps ==
  ASSUME PipeInv, NEW c \in Callers,
         QueueMerge(c)
  PROVE  PipeInv'
<1> /\ TypeOK /\ ParseTyped /\ DraftTyped /\ req \in [Callers -> Request] /\ InHand /\ WorkerOK
    /\ Worker \in Callers /\ Worker \notin Requests /\ Requests \subseteq Callers
  BY Halves, NamesAssumption DEF PipeInv, Callers
<1>1. ParseTyped'
  BY QueueMergeDoes, RestingIs, SMTT(10) DEF ParseTyped, bootVars, history
<1>2. req' \in [Callers -> Request] /\ WorkerOK'
  BY QueueMergeDoes, IdleIs, RestingIs, SMTT(10) DEF WorkerOK, Others
<1>3. InHand'
  BY QueueMergeDoes, IdleIs, SMTT(10) DEF InHand, SourceOps, Others
<1>4. DraftTyped'
  <2>1. /\ drafts' \in Seq(Draft) /\ DOMAIN drafts' = DOMAIN drafts
        /\ merges' \in Seq(Merge) /\ Len(merges') = Len(merges)
        /\ DOMAIN merges' = DOMAIN merges
    BY QueueMergeDoes, SMTT(10) DEF OtherMerges, DraftTyped, Tables
  <2>2. Tables'
    BY <2>1, TablesKept DEF DraftTyped
  <2>3. \/ merger' = merger \/ merger' = Unmerging
        \/ merger' \in Merger /\ merger'.job \in DOMAIN merges
           /\ merger'.target \in DOMAIN merges
    BY QueueMergeDoes, IdleIs, RestingIs, SMTT(10) DEF DraftTyped
  <2>4. QED
    BY <2>1, <2>2, <2>3, MergerKept
<1>5. QED
  BY <1>1, <1>2, <1>3, <1>4 DEF PipeInv, ParseTyped, DraftTyped, Tables, TypeOK, AtWork

LEMMA TakeMergeKeeps ==
  ASSUME PipeInv, NEW d \in DOMAIN merges,
         TakeMerge(d)
  PROVE  PipeInv'
<1> /\ TypeOK /\ ParseTyped /\ DraftTyped /\ req \in [Callers -> Request] /\ InHand /\ WorkerOK
    /\ Worker \in Callers /\ Worker \notin Requests /\ Requests \subseteq Callers
  BY Halves, NamesAssumption DEF PipeInv, Callers
<1>1. ParseTyped'
  BY TakeMergeDoes, SMTT(10) DEF ParseTyped, parseVars, bootVars, history
<1>2. req' \in [Callers -> Request] /\ WorkerOK'
  BY TakeMergeDoes, SMTT(10) DEF WorkerOK, parseVars
<1>3. InHand'
  BY TakeMergeDoes, SMTT(10) DEF InHand, Opened
<1>4. DraftTyped'
  <2>1. CASE /\ OtherMerges(d) /\ drafts' = drafts
             /\ \/ merger' = [job |-> d, target |-> d, at |-> "assign"] \/ merger' = Unmerging
    <3>1. d \in Nat
      BY TablesAlike DEF DraftTyped
    <3>2. Tables' /\ DOMAIN merges' = DOMAIN merges
      BY <2>1, TablesKept DEF DraftTyped, OtherMerges, Tables
    <3>3. QED
      BY <2>1, <3>1, <3>2, MergerKept DEF Merger
  <2>2. ASSUME NEW ids, NEW m, Opened(1, ids, m),
               merger' = [job |-> d, target |-> Len(drafts) + 1, at |-> "assign"]
        PROVE  DraftTyped'
    <3>1. d \in Nat /\ Len(drafts) + 1 \in Nat
      BY TablesAlike DEF DraftTyped
    <3>2. /\ Tables' /\ DOMAIN merges \subseteq DOMAIN merges'
          /\ Len(drafts) + 1 \in DOMAIN merges'
      BY <2>2, OpenedTables DEF DraftTyped
    <3>3. QED
      BY <2>2, <3>1, <3>2 DEF DraftTyped, Merger
  <2>3. QED
    BY <2>1, <2>2, TakeMergeDoes
<1>5. QED
  BY <1>1, <1>2, <1>3, <1>4 DEF PipeInv, ParseTyped, DraftTyped, Tables, TypeOK, AtWork

LEMMA AssignIdsKeeps ==
  ASSUME PipeInv, AssignIds
  PROVE  PipeInv'
<1> /\ TypeOK /\ ParseTyped /\ DraftTyped /\ req \in [Callers -> Request] /\ InHand /\ WorkerOK
    /\ Worker \in Callers /\ Worker \notin Requests /\ Requests \subseteq Callers
  BY Halves, NamesAssumption DEF PipeInv, Callers
<1>1. ParseTyped'
  BY AssignIdsDoes, SMTT(10) DEF ParseTyped, parseVars, bootVars, history
<1>2. req' \in [Callers -> Request] /\ WorkerOK'
  BY AssignIdsDoes, SMTT(10) DEF WorkerOK, parseVars
<1>3. InHand'
  BY AssignIdsDoes, SMTT(10) DEF InHand, OtherRows
<1>4. DraftTyped'
  <2>1. /\ drafts' \in Seq(Draft) /\ DOMAIN drafts' = DOMAIN drafts
        /\ merges' \in Seq(Merge) /\ Len(merges') = Len(merges)
        /\ DOMAIN merges' = DOMAIN merges
    BY AssignIdsDoes, SMTT(10) DEF OtherRows, OtherMerges, DraftTyped, Tables
  <2>2. Tables'
    BY <2>1, TablesKept DEF DraftTyped
  <2>3. \/ merger' = merger \/ merger' = Unmerging
        \/ merger' \in Merger /\ merger'.job \in DOMAIN merges
           /\ merger'.target \in DOMAIN merges
    BY AssignIdsDoes, MergerGoes, UnmergingIs, SMTT(10) DEF DraftTyped
  <2>4. QED
    BY <2>1, <2>2, <2>3, MergerKept
<1>5. QED
  BY <1>1, <1>2, <1>3, <1>4 DEF PipeInv, ParseTyped, DraftTyped, Tables, TypeOK, AtWork

LEMMA ReadSourcesKeeps ==
  ASSUME PipeInv, ReadSources
  PROVE  PipeInv'
<1> /\ TypeOK /\ ParseTyped /\ DraftTyped /\ req \in [Callers -> Request] /\ InHand /\ WorkerOK
    /\ Worker \in Callers /\ Worker \notin Requests /\ Requests \subseteq Callers
  BY Halves, NamesAssumption DEF PipeInv, Callers
<1>1. ParseTyped'
  BY ReadSourcesDoes, SMTT(10) DEF ParseTyped, parseVars, bootVars, history
<1>2. req' \in [Callers -> Request] /\ WorkerOK'
  BY ReadSourcesDoes, SMTT(10) DEF WorkerOK, parseVars
<1>3. InHand'
  BY ReadSourcesDoes, SMTT(10) DEF InHand
<1>4. DraftTyped'
  <2>1. /\ drafts' \in Seq(Draft) /\ DOMAIN drafts' = DOMAIN drafts
        /\ merges' \in Seq(Merge) /\ Len(merges') = Len(merges)
        /\ DOMAIN merges' = DOMAIN merges
    BY ReadSourcesDoes, SMTT(10) DEF OtherMerges, DraftTyped, Tables
  <2>2. Tables'
    BY <2>1, TablesKept DEF DraftTyped
  <2>3. \/ merger' = merger \/ merger' = Unmerging
        \/ merger' \in Merger /\ merger'.job \in DOMAIN merges
           /\ merger'.target \in DOMAIN merges
    BY ReadSourcesDoes, MergerGoes, UnmergingIs, SMTT(10) DEF DraftTyped
  <2>4. QED
    BY <2>1, <2>2, <2>3, MergerKept
<1>5. QED
  BY <1>1, <1>2, <1>3, <1>4 DEF PipeInv, ParseTyped, DraftTyped, Tables, TypeOK, AtWork

LEMMA CommitMergeKeeps ==
  ASSUME PipeInv, CommitMerge
  PROVE  PipeInv'
<1> /\ TypeOK /\ ParseTyped /\ DraftTyped /\ req \in [Callers -> Request] /\ InHand /\ WorkerOK
    /\ Worker \in Callers /\ Worker \notin Requests /\ Requests \subseteq Callers
  BY Halves, NamesAssumption DEF PipeInv, Callers
<1>1. ParseTyped'
  BY CommitMergeDoes, SMTT(10) DEF ParseTyped, parseVars, bootVars, history
<1>2. req' \in [Callers -> Request] /\ WorkerOK'
  BY CommitMergeDoes, SMTT(10) DEF WorkerOK, parseVars
<1>3. InHand'
  BY CommitMergeDoes, SMTT(10) DEF InHand, OtherRows
<1>4. DraftTyped'
  <2>1. /\ drafts' \in Seq(Draft) /\ DOMAIN drafts' = DOMAIN drafts
        /\ merges' \in Seq(Merge) /\ Len(merges') = Len(merges)
        /\ DOMAIN merges' = DOMAIN merges
    BY CommitMergeDoes, SMTT(10) DEF OtherRows, OtherMerges
  <2>2. Tables'
    BY <2>1, TablesKept DEF DraftTyped
  <2>3. \/ merger' = merger \/ merger' = Unmerging
        \/ merger' \in Merger /\ merger'.job \in DOMAIN merges
           /\ merger'.target \in DOMAIN merges
    BY CommitMergeDoes, UnmergingIs, SMTT(10) DEF DraftTyped
  <2>4. QED
    BY <2>1, <2>2, <2>3, MergerKept
<1>5. QED
  BY <1>1, <1>2, <1>3, <1>4 DEF PipeInv, ParseTyped, DraftTyped, Tables, TypeOK, AtWork

LEMMA MergeFailsKeeps ==
  ASSUME PipeInv, MergeFails
  PROVE  PipeInv'
<1> /\ TypeOK /\ ParseTyped /\ DraftTyped /\ req \in [Callers -> Request] /\ InHand /\ WorkerOK
    /\ Worker \in Callers /\ Worker \notin Requests /\ Requests \subseteq Callers
  BY Halves, NamesAssumption DEF PipeInv, Callers
<1>1. ParseTyped'
  BY MergeFailsDoes, SMTT(10) DEF ParseTyped, parseVars, bootVars, history
<1>2. req' \in [Callers -> Request] /\ WorkerOK'
  BY MergeFailsDoes, SMTT(10) DEF WorkerOK, parseVars
<1>3. InHand'
  BY MergeFailsDoes, SMTT(10) DEF InHand
<1>4. DraftTyped'
  <2>1. /\ drafts' \in Seq(Draft) /\ DOMAIN drafts' = DOMAIN drafts
        /\ merges' \in Seq(Merge) /\ Len(merges') = Len(merges)
        /\ DOMAIN merges' = DOMAIN merges
    BY MergeFailsDoes, SMTT(10) DEF OtherMerges, DraftTyped, Tables
  <2>2. Tables'
    BY <2>1, TablesKept DEF DraftTyped
  <2>3. \/ merger' = merger \/ merger' = Unmerging
        \/ merger' \in Merger /\ merger'.job \in DOMAIN merges
           /\ merger'.target \in DOMAIN merges
    BY MergeFailsDoes, UnmergingIs, SMTT(10) DEF DraftTyped
  <2>4. QED
    BY <2>1, <2>2, <2>3, MergerKept
<1>5. QED
  BY <1>1, <1>2, <1>3, <1>4 DEF PipeInv, ParseTyped, DraftTyped, Tables, TypeOK, AtWork

LEMMA PublishReadKeeps ==
  ASSUME PipeInv, NEW r \in Requests, NEW d \in DOMAIN drafts,
         PublishRead(r, d)
  PROVE  PipeInv'
<1> /\ TypeOK /\ ParseTyped /\ DraftTyped /\ req \in [Callers -> Request] /\ InHand /\ WorkerOK
    /\ Worker \in Callers /\ Worker \notin Requests /\ Requests \subseteq Callers
  BY Halves, NamesAssumption DEF PipeInv, Callers
<1>1. ParseTyped'
  BY PublishReadDoes, SMTT(10) DEF ParseTyped, parseVars, bootVars, history
<1>2. req' \in [Callers -> Request] /\ WorkerOK'
  BY PublishReadDoes, SMTT(10) DEF WorkerOK, Others, parseVars
<1>3. InHand'
  BY PublishReadDoes, SMTT(10) DEF InHand, SourceOps, Others, draftVars
<1>4. DraftTyped'
  <2>1. UNCHANGED draftVars
    BY PublishReadDoes  DEF draftVars
  <2>2. QED
    BY <2>1, DraftsKept
<1>5. QED
  BY <1>1, <1>2, <1>3, <1>4 DEF PipeInv, ParseTyped, DraftTyped, Tables, TypeOK, AtWork

LEMMA PublishMarkKeeps ==
  ASSUME PipeInv, NEW r \in Requests,
         PublishMark(r)
  PROVE  PipeInv'
<1> /\ TypeOK /\ ParseTyped /\ DraftTyped /\ req \in [Callers -> Request] /\ InHand /\ WorkerOK
    /\ Worker \in Callers /\ Worker \notin Requests /\ Requests \subseteq Callers
  BY Halves, NamesAssumption DEF PipeInv, Callers
<1>1. ParseTyped'
  BY PublishMarkDoes, SMTT(10) DEF ParseTyped, parseVars, bootVars, history
<1>2. req' \in [Callers -> Request] /\ WorkerOK'
  BY PublishMarkDoes, SMTT(10) DEF WorkerOK, Others, parseVars
<1>3. InHand'
  BY PublishMarkDoes, IdleIs, SMTT(10) DEF InHand, SourceOps, Others, OtherRows
<1>4. DraftTyped'
  <2>1. /\ drafts' \in Seq(Draft) /\ DOMAIN drafts' = DOMAIN drafts
        /\ merges' \in Seq(Merge) /\ Len(merges') = Len(merges)
        /\ DOMAIN merges' = DOMAIN merges
    BY PublishMarkDoes, SMTT(10) DEF OtherRows, DraftTyped, Tables
  <2>2. Tables'
    BY <2>1, TablesKept DEF DraftTyped
  <2>3. \/ merger' = merger \/ merger' = Unmerging
        \/ merger' \in Merger /\ merger'.job \in DOMAIN merges
           /\ merger'.target \in DOMAIN merges
    BY PublishMarkDoes, IdleIs, SMTT(10) DEF DraftTyped
  <2>4. QED
    BY <2>1, <2>2, <2>3, MergerKept
<1>5. QED
  BY <1>1, <1>2, <1>3, <1>4 DEF PipeInv, ParseTyped, DraftTyped, Tables, TypeOK, AtWork

LEMMA UnpublishKeeps ==
  ASSUME PipeInv, NEW d \in DOMAIN drafts,
         Unpublish(d)
  PROVE  PipeInv'
<1> /\ TypeOK /\ ParseTyped /\ DraftTyped /\ req \in [Callers -> Request] /\ InHand /\ WorkerOK
    /\ Worker \in Callers /\ Worker \notin Requests /\ Requests \subseteq Callers
  BY Halves, NamesAssumption DEF PipeInv, Callers
<1>1. ParseTyped'
  BY UnpublishDoes, SMTT(10) DEF ParseTyped, parseVars, bootVars, history
<1>2. req' \in [Callers -> Request] /\ WorkerOK'
  BY UnpublishDoes, SMTT(10) DEF WorkerOK, parseVars
<1>3. InHand'
  BY UnpublishDoes, SMTT(10) DEF InHand, OtherRows
<1>4. DraftTyped'
  <2>1. /\ drafts' \in Seq(Draft) /\ DOMAIN drafts' = DOMAIN drafts
        /\ merges' \in Seq(Merge) /\ Len(merges') = Len(merges)
        /\ DOMAIN merges' = DOMAIN merges
    BY UnpublishDoes, SMTT(10) DEF OtherRows, DraftTyped, Tables
  <2>2. Tables'
    BY <2>1, TablesKept DEF DraftTyped
  <2>3. \/ merger' = merger \/ merger' = Unmerging
        \/ merger' \in Merger /\ merger'.job \in DOMAIN merges
           /\ merger'.target \in DOMAIN merges
    BY UnpublishDoes, SMTT(10) DEF DraftTyped
  <2>4. QED
    BY <2>1, <2>2, <2>3, MergerKept
<1>5. QED
  BY <1>1, <1>2, <1>3, <1>4 DEF PipeInv, ParseTyped, DraftTyped, Tables, TypeOK, AtWork

LEMMA DeleteDraftKeeps ==
  ASSUME PipeInv, NEW d \in DOMAIN drafts,
         DeleteDraft(d)
  PROVE  PipeInv'
<1> /\ TypeOK /\ ParseTyped /\ DraftTyped /\ req \in [Callers -> Request] /\ InHand /\ WorkerOK
    /\ Worker \in Callers /\ Worker \notin Requests /\ Requests \subseteq Callers
  BY Halves, NamesAssumption DEF PipeInv, Callers
<1>1. ParseTyped'
  <2>1. UNCHANGED <<parseVars, phase, requeue, crashes>> /\ hasty' = (hasty \/ Consolidating(d))
    BY DeleteDraftDoes
  <2>2. hasty' \in BOOLEAN
    BY <2>1, Zenon
  <2>3. QED
    BY <2>1, <2>2 DEF ParseTyped, parseVars
<1>2. req' \in [Callers -> Request] /\ WorkerOK'
  BY DeleteDraftDoes, SMTT(10) DEF WorkerOK, parseVars
<1>3. InHand'
  BY DeleteDraftDoes, SMTT(10) DEF InHand, OtherRows
<1>4. DraftTyped'
  <2>1. /\ drafts' \in Seq(Draft) /\ DOMAIN drafts' = DOMAIN drafts
        /\ merges' \in Seq(Merge) /\ Len(merges') = Len(merges)
        /\ DOMAIN merges' = DOMAIN merges
    BY DeleteDraftDoes, SMTT(10) DEF OtherRows, DraftTyped, Tables
  <2>2. Tables'
    BY <2>1, TablesKept DEF DraftTyped
  <2>3. \/ merger' = merger \/ merger' = Unmerging
        \/ merger' \in Merger /\ merger'.job \in DOMAIN merges
           /\ merger'.target \in DOMAIN merges
    BY DeleteDraftDoes, SMTT(10) DEF DraftTyped
  <2>4. QED
    BY <2>1, <2>2, <2>3, MergerKept
<1>5. QED
  BY <1>1, <1>2, <1>3, <1>4 DEF PipeInv, ParseTyped, DraftTyped, Tables, TypeOK, AtWork

LEMMA EditTopicsKeeps ==
  ASSUME PipeInv, NEW d \in DOMAIN drafts, NEW weeks \in Weeks \ {"none"},
         EditTopics(d, weeks)
  PROVE  PipeInv'
<1> /\ TypeOK /\ ParseTyped /\ DraftTyped /\ req \in [Callers -> Request] /\ InHand /\ WorkerOK
    /\ Worker \in Callers /\ Worker \notin Requests /\ Requests \subseteq Callers
  BY Halves, NamesAssumption DEF PipeInv, Callers
<1>1. ParseTyped'
  BY EditTopicsDoes, SMTT(10) DEF ParseTyped, parseVars, bootVars, history
<1>2. req' \in [Callers -> Request] /\ WorkerOK'
  BY EditTopicsDoes, SMTT(10) DEF WorkerOK, parseVars
<1>3. InHand'
  BY EditTopicsDoes, SMTT(10) DEF InHand, OtherRows
<1>4. DraftTyped'
  <2>1. /\ drafts' \in Seq(Draft) /\ DOMAIN drafts' = DOMAIN drafts
        /\ merges' \in Seq(Merge) /\ Len(merges') = Len(merges)
        /\ DOMAIN merges' = DOMAIN merges
    BY EditTopicsDoes, SMTT(10) DEF OtherRows, DraftTyped, Tables
  <2>2. Tables'
    BY <2>1, TablesKept DEF DraftTyped
  <2>3. \/ merger' = merger \/ merger' = Unmerging
        \/ merger' \in Merger /\ merger'.job \in DOMAIN merges
           /\ merger'.target \in DOMAIN merges
    BY EditTopicsDoes, SMTT(10) DEF DraftTyped
  <2>4. QED
    BY <2>1, <2>2, <2>3, MergerKept
<1>5. QED
  BY <1>1, <1>2, <1>3, <1>4 DEF PipeInv, ParseTyped, DraftTyped, Tables, TypeOK, AtWork

LEMMA CrashKeeps ==
  ASSUME PipeInv, Crash
  PROVE  PipeInv'
<1> /\ TypeOK /\ ParseTyped /\ DraftTyped /\ req \in [Callers -> Request] /\ InHand /\ WorkerOK
    /\ Worker \in Callers /\ Worker \notin Requests /\ Requests \subseteq Callers
  BY Halves, NamesAssumption DEF PipeInv, Callers
<1>1. ParseTyped'
  BY CrashDoes, RestingIs, SMTT(10) DEF ParseTyped, Phases
<1>2. req' \in [Callers -> Request] /\ WorkerOK'
  BY CrashDoes, IdleIs, RestingIs, SMTT(10) DEF WorkerOK
<1>3. InHand'
  BY CrashDoes, IdleIs, SMTT(10) DEF InHand, SourceOps
<1>4. DraftTyped'
  <2>1. /\ drafts' \in Seq(Draft) /\ DOMAIN drafts' = DOMAIN drafts
        /\ merges' \in Seq(Merge) /\ Len(merges') = Len(merges)
        /\ DOMAIN merges' = DOMAIN merges
    BY CrashDoes, SMTT(10) DEF DraftTyped, Tables
  <2>2. Tables'
    BY <2>1, TablesKept DEF DraftTyped
  <2>3. \/ merger' = merger \/ merger' = Unmerging
        \/ merger' \in Merger /\ merger'.job \in DOMAIN merges
           /\ merger'.target \in DOMAIN merges
    BY CrashDoes, SMTT(10)
  <2>4. QED
    BY <2>1, <2>2, <2>3, MergerKept
<1>5. QED
  BY <1>1, <1>2, <1>3, <1>4 DEF PipeInv, ParseTyped, DraftTyped, Tables, TypeOK, AtWork

LEMMA RestartKeeps ==
  ASSUME PipeInv, Restart
  PROVE  PipeInv'
<1> /\ TypeOK /\ ParseTyped /\ DraftTyped /\ req \in [Callers -> Request] /\ InHand /\ WorkerOK
    /\ Worker \in Callers /\ Worker \notin Requests /\ Requests \subseteq Callers
  BY Halves, NamesAssumption DEF PipeInv, Callers
<1>1. ParseTyped'
  BY SMTT(10) DEF Restart, ParseTyped, Phases, parseVars, history
<1>2. req' \in [Callers -> Request] /\ WorkerOK'
  BY SMTT(10) DEF Restart, WorkerOK, parseVars
<1>3. InHand'
  BY SMTT(10) DEF Restart, InHand, draftVars
<1>4. DraftTyped'
  <2>1. UNCHANGED draftVars
    BY DEF Restart, draftVars, history
  <2>2. QED
    BY <2>1, DraftsKept
<1>5. QED
  BY <1>1, <1>2, <1>3, <1>4 DEF PipeInv, ParseTyped, DraftTyped, Tables, TypeOK, AtWork

LEMMA FailGhostsKeeps ==
  ASSUME PipeInv, FailGhosts
  PROVE  PipeInv'
<1> /\ TypeOK /\ ParseTyped /\ DraftTyped /\ req \in [Callers -> Request] /\ InHand /\ WorkerOK
    /\ Worker \in Callers /\ Worker \notin Requests /\ Requests \subseteq Callers
  BY Halves, NamesAssumption DEF PipeInv, Callers
<1>1. ParseTyped'
  BY FailGhostsDoes, SMTT(10) DEF ParseTyped, Phases, history
<1>2. req' \in [Callers -> Request] /\ WorkerOK'
  BY FailGhostsDoes, SMTT(10) DEF WorkerOK
<1>3. InHand'
  BY FailGhostsDoes, SMTT(10) DEF InHand
<1>4. DraftTyped'
  <2>1. /\ drafts' \in Seq(Draft) /\ DOMAIN drafts' = DOMAIN drafts
        /\ merges' \in Seq(Merge) /\ Len(merges') = Len(merges)
        /\ DOMAIN merges' = DOMAIN merges
    BY FailGhostsDoes, SMTT(10) DEF DraftTyped, Tables
  <2>2. Tables'
    BY <2>1, TablesKept DEF DraftTyped
  <2>3. \/ merger' = merger \/ merger' = Unmerging
        \/ merger' \in Merger /\ merger'.job \in DOMAIN merges
           /\ merger'.target \in DOMAIN merges
    BY FailGhostsDoes, SMTT(10) DEF DraftTyped
  <2>4. QED
    BY <2>1, <2>2, <2>3, MergerKept
<1>5. QED
  BY <1>1, <1>2, <1>3, <1>4 DEF PipeInv, ParseTyped, DraftTyped, Tables, TypeOK, AtWork

LEMMA ResetParsingKeeps ==
  ASSUME PipeInv, ResetParsing
  PROVE  PipeInv'
<1> /\ TypeOK /\ ParseTyped /\ DraftTyped /\ req \in [Callers -> Request] /\ InHand /\ WorkerOK
    /\ Worker \in Callers /\ Worker \notin Requests /\ Requests \subseteq Callers
  BY Halves, NamesAssumption DEF PipeInv, Callers
<1>1. ParseTyped'
  BY SMTT(10) DEF ResetParsing, ParseTyped, Statuses, Phases, history
<1>2. req' \in [Callers -> Request] /\ WorkerOK'
  BY SMTT(10) DEF ResetParsing, ParseTyped, WorkerOK, Parser
<1>3. InHand'
  BY SMTT(10) DEF ResetParsing, InHand, draftVars
<1>4. DraftTyped'
  <2>1. UNCHANGED draftVars
    BY DEF ResetParsing, draftVars, history
  <2>2. QED
    BY <2>1, DraftsKept
<1>5. QED
  BY <1>1, <1>2, <1>3, <1>4 DEF PipeInv, ParseTyped, DraftTyped, Tables, TypeOK, AtWork

LEMMA DrainQueueKeeps ==
  ASSUME PipeInv, DrainQueue
  PROVE  PipeInv'
<1> /\ TypeOK /\ ParseTyped /\ DraftTyped /\ req \in [Callers -> Request] /\ InHand /\ WorkerOK
    /\ Worker \in Callers /\ Worker \notin Requests /\ Requests \subseteq Callers
  BY Halves, NamesAssumption DEF PipeInv, Callers
<1>1. ParseTyped'
  BY SMTT(10) DEF DrainQueue, ParseTyped, Phases, Requeueing, JobCounts, history
<1>2. req' \in [Callers -> Request] /\ WorkerOK'
  BY SMTT(10) DEF DrainQueue, WorkerOK
<1>3. InHand'
  BY SMTT(10) DEF DrainQueue, InHand, draftVars
<1>4. DraftTyped'
  <2>1. UNCHANGED draftVars
    BY DEF DrainQueue, draftVars, history
  <2>2. QED
    BY <2>1, DraftsKept
<1>5. QED
  BY <1>1, <1>2, <1>3, <1>4 DEF PipeInv, ParseTyped, DraftTyped, Tables, TypeOK, AtWork

LEMMA RequeueSourceKeeps ==
  ASSUME PipeInv, NEW s \in Sources,
         RequeueSource(s)
  PROVE  PipeInv'
<1> /\ TypeOK /\ ParseTyped /\ DraftTyped /\ req \in [Callers -> Request] /\ InHand /\ WorkerOK
    /\ Worker \in Callers /\ Worker \notin Requests /\ Requests \subseteq Callers
  BY Halves, NamesAssumption DEF PipeInv, Callers
<1>1. ParseTyped'
  BY RequeueSourceDoes, SMTT(10) DEF ParseTyped, Phases, history
<1>2. req' \in [Callers -> Request] /\ WorkerOK'
  BY RequeueSourceDoes, SMTT(10) DEF WorkerOK
<1>3. InHand'
  BY RequeueSourceDoes, SMTT(10) DEF InHand, draftVars
<1>4. DraftTyped'
  <2>1. UNCHANGED draftVars
    BY RequeueSourceDoes  DEF draftVars, history
  <2>2. QED
    BY <2>1, DraftsKept
<1>5. QED
  BY <1>1, <1>2, <1>3, <1>4 DEF PipeInv, ParseTyped, DraftTyped, Tables, TypeOK, AtWork

LEMMA StalledParseKeeps ==
  ASSUME PipeInv, NEW s \in Sources, NEW m \in Made,
         StalledParse(s, m)
  PROVE  PipeInv'
<1> /\ TypeOK /\ ParseTyped /\ DraftTyped /\ req \in [Callers -> Request] /\ InHand /\ WorkerOK
    /\ Worker \in Callers /\ Worker \notin Requests /\ Requests \subseteq Callers
  BY Halves, NamesAssumption DEF PipeInv, Callers
<1>1. ParseTyped'
  <2>1. /\ ghosts' \in JobCounts /\ waiting' \in JobCounts
        /\ UNCHANGED <<source, parser, bootVars>>
    BY StalledParseDoes
  <2>2. QED
    BY <2>1, ParseKept DEF ParseTyped
<1>2. req' \in [Callers -> Request] /\ WorkerOK'
  <2>1. UNCHANGED <<source, parser, req>>
    BY DEF StalledParse
  <2>2. QED
    BY <2>1 DEF WorkerOK
<1>3. InHand'
  <2>1. UNCHANGED <<drafts, req>>
    BY DEF StalledParse, draftVars
  <2>2. QED
    BY <2>1 DEF InHand
<1>4. DraftTyped'
  <2>1. UNCHANGED draftVars
    BY StalledParseDoes  DEF draftVars
  <2>2. QED
    BY <2>1, DraftsKept
<1>5. QED
  BY <1>1, <1>2, <1>3, <1>4 DEF PipeInv, ParseTyped, DraftTyped, Tables, TypeOK, AtWork

LEMMA StalledMergeKeeps ==
  ASSUME PipeInv, NEW d \in DOMAIN merges,
         StalledMerge(d)
  PROVE  PipeInv'
<1> /\ TypeOK /\ ParseTyped /\ DraftTyped /\ req \in [Callers -> Request] /\ InHand /\ WorkerOK
    /\ Worker \in Callers /\ Worker \notin Requests /\ Requests \subseteq Callers
  BY Halves, NamesAssumption DEF PipeInv, Callers
<1>1. ParseTyped'
  BY StalledMergeDoes, SMTT(10) DEF ParseTyped, parseVars, bootVars, history
<1>2. req' \in [Callers -> Request] /\ WorkerOK'
  BY StalledMergeDoes, SMTT(10) DEF WorkerOK, parseVars
<1>3. InHand'
  BY StalledMergeDoes, SMTT(10) DEF InHand
<1>4. DraftTyped'
  <2>1. /\ drafts' \in Seq(Draft) /\ DOMAIN drafts' = DOMAIN drafts
        /\ merges' \in Seq(Merge) /\ Len(merges') = Len(merges)
        /\ DOMAIN merges' = DOMAIN merges
    BY StalledMergeDoes, SMTT(10) DEF OtherMerges, DraftTyped, Tables
  <2>2. Tables'
    BY <2>1, TablesKept DEF DraftTyped
  <2>3. \/ merger' = merger \/ merger' = Unmerging
        \/ merger' \in Merger /\ merger'.job \in DOMAIN merges
           /\ merger'.target \in DOMAIN merges
    BY StalledMergeDoes, SMTT(10) DEF DraftTyped
  <2>4. QED
    BY <2>1, <2>2, <2>3, MergerKept
<1>5. QED
  BY <1>1, <1>2, <1>3, <1>4 DEF PipeInv, ParseTyped, DraftTyped, Tables, TypeOK, AtWork

LEMMA PipeInit == Init => PipeInv
<1> SUFFICES ASSUME Init PROVE PipeInv
  OBVIOUS
<1> USE DEF Init
<1>1. ParseTyped
  BY RestingIs DEF ParseTyped, Statuses, JobCounts, Phases
<1>2. DraftTyped
  BY UnmergingIs, EmptySeq DEF DraftTyped, Tables
<1>3. req \in [Callers -> Request] /\ InHand
  BY IdleIs DEF InHand, SourceOps
<1>4. WorkerOK
  BY IdleIs, RestingIs DEF WorkerOK, Callers
<1>5. QED
  BY <1>1, <1>2, <1>3, <1>4, Halves

LEMMA PipeStutter ==
  ASSUME PipeInv, UNCHANGED vars
  PROVE  PipeInv'
<1>1. UNCHANGED <<parseVars, draftVars, req, bootVars>>
  BY DEF vars
<1>2. ParseTyped'
  BY <1>1, Halves DEF ParseTyped, parseVars, bootVars, history
<1>3. DraftTyped'
  BY <1>1, Halves, DraftsKept
<1>4. (req \in [Callers -> Request])' /\ InHand'
  BY <1>1, Halves DEF InHand, draftVars
<1>5. WorkerOK'
  BY <1>1, Halves DEF WorkerOK, parseVars
<1>6. QED
  BY <1>2, <1>3, <1>4, <1>5 DEF PipeInv, ParseTyped, DraftTyped, Tables, TypeOK, AtWork

LEMMA PipeNext ==
  ASSUME PipeInv, [Next]_vars
  PROVE  PipeInv'
<1>1. ASSUME NEW r \in Requests, NEW s \in Sources, CreateSource(r, s)
      PROVE  PipeInv'
  BY <1>1, CreateSourceKeeps
<1>2. ASSUME NEW r \in Requests, AddSourceJob(r)
      PROVE  PipeInv'
  BY <1>2, AddSourceJobKeeps
<1>3. ASSUME NEW r \in Requests, NEW s \in Sources, RetryRead(r, s)
      PROVE  PipeInv'
  BY <1>3, RetryReadKeeps
<1>4. ASSUME NEW r \in Requests, RetryMark(r)
      PROVE  PipeInv'
  BY <1>4, RetryMarkKeeps
<1>5. ASSUME NEW r \in Requests, NEW s \in Sources, CancelRead(r, s)
      PROVE  PipeInv'
  BY <1>5, CancelReadKeeps
<1>6. ASSUME NEW r \in Requests, CancelJob(r)
      PROVE  PipeInv'
  BY <1>6, CancelJobKeeps
<1>7. ASSUME NEW r \in Requests, CancelMark(r)
      PROVE  PipeInv'
  BY <1>7, CancelMarkKeeps
<1>8. ASSUME NEW r \in Requests, NEW s \in Sources, DeleteRead(r, s)
      PROVE  PipeInv'
  BY <1>8, DeleteReadKeeps
<1>9. ASSUME NEW r \in Requests, DeleteRow(r)
      PROVE  PipeInv'
  BY <1>9, DeleteRowKeeps
<1>10. ASSUME NEW s \in Sources, NEW m \in Made, TakeJob(s, m)
      PROVE  PipeInv'
  BY <1>10, TakeJobKeeps
<1>11. CASE MarkParsing
  BY <1>11, MarkParsingKeeps
<1>12. CASE StoreParsed
  BY <1>12, StoreParsedKeeps
<1>13. CASE ParseFails
  BY <1>13, ParseFailsKeeps
<1>14. CASE AutoConsolidate
  BY <1>14, AutoConsolidateKeeps
<1>15. ASSUME NEW r \in Requests, NEW ids \in SUBSET Sources, NEW force \in BOOLEAN,
              ConsolidateRead(r, ids, force)
      PROVE  PipeInv'
  BY <1>15, ConsolidateReadKeeps
<1>16. ASSUME NEW c \in Callers, ReadLatest(c)
      PROVE  PipeInv'
  BY <1>16, ReadLatestKeeps
<1>17. ASSUME NEW c \in Callers, ReuseDraft(c)
      PROVE  PipeInv'
  BY <1>17, ReuseDraftKeeps
<1>18. ASSUME NEW c \in Callers, CreateDraft(c)
      PROVE  PipeInv'
  BY <1>18, CreateDraftKeeps
<1>19. ASSUME NEW c \in Callers, QueueMerge(c)
      PROVE  PipeInv'
  BY <1>19, QueueMergeKeeps
<1>20. ASSUME NEW d \in DOMAIN merges, TakeMerge(d)
      PROVE  PipeInv'
  BY <1>20, TakeMergeKeeps
<1>21. CASE AssignIds
  BY <1>21, AssignIdsKeeps
<1>22. CASE ReadSources
  BY <1>22, ReadSourcesKeeps
<1>23. CASE CommitMerge
  BY <1>23, CommitMergeKeeps
<1>24. CASE MergeFails
  BY <1>24, MergeFailsKeeps
<1>25. ASSUME NEW r \in Requests, NEW d \in DOMAIN drafts, PublishRead(r, d)
      PROVE  PipeInv'
  BY <1>25, PublishReadKeeps
<1>26. ASSUME NEW r \in Requests, PublishMark(r)
      PROVE  PipeInv'
  BY <1>26, PublishMarkKeeps
<1>27. ASSUME NEW d \in DOMAIN drafts, Unpublish(d)
      PROVE  PipeInv'
  BY <1>27, UnpublishKeeps
<1>28. ASSUME NEW d \in DOMAIN drafts, DeleteDraft(d)
      PROVE  PipeInv'
  BY <1>28, DeleteDraftKeeps
<1>29. ASSUME NEW d \in DOMAIN drafts, NEW weeks \in Weeks \ {"none"}, EditTopics(d, weeks)
      PROVE  PipeInv'
  BY <1>29, EditTopicsKeeps
<1>30. CASE Crash
  BY <1>30, CrashKeeps
<1>31. CASE Restart
  BY <1>31, RestartKeeps
<1>32. CASE FailGhosts
  BY <1>32, FailGhostsKeeps
<1>33. CASE ResetParsing
  BY <1>33, ResetParsingKeeps
<1>34. CASE DrainQueue
  BY <1>34, DrainQueueKeeps
<1>35. ASSUME NEW s \in Sources, RequeueSource(s)
      PROVE  PipeInv'
  BY <1>35, RequeueSourceKeeps
<1>36. ASSUME NEW s \in Sources, NEW m \in Made, StalledParse(s, m)
      PROVE  PipeInv'
  BY <1>36, StalledParseKeeps
<1>37. ASSUME NEW d \in DOMAIN merges, StalledMerge(d)
      PROVE  PipeInv'
  BY <1>37, StalledMergeKeeps
<1>38. CASE UNCHANGED vars
  BY <1>38, PipeStutter
<1>39. CASE \E r \in Requests : AskOfSource(r)
  BY <1>39, <1>3, <1>5, <1>8 DEF AskOfSource
<1>40. CASE \E r \in Requests : AskOfDraft(r)
  BY <1>40, <1>15, <1>25 DEF AskOfDraft
<1>41. CASE EditDraft
  BY <1>41, <1>27, <1>28, <1>29 DEF EditDraft
<1>42. CASE \E r \in Requests : Continue(r)
  BY <1>42, <1>2, <1>4, <1>6, <1>7, <1>9, <1>26 DEF Continue
<1>43. CASE \E c \in Callers : Enqueue(c)
  BY <1>43, <1>16, <1>17, <1>18, <1>19 DEF Enqueue
<1>44. CASE Parse
  BY <1>44, <1>10, <1>11, <1>12, <1>13, <1>14 DEF Parse, Made
<1>45. CASE MergeStep
  BY <1>45, <1>20, <1>21, <1>22, <1>23, <1>24 DEF MergeStep
<1>46. CASE Boot
  BY <1>46, <1>31, <1>32, <1>33, <1>34, <1>35 DEF Boot
<1>47. CASE Stalled
  BY <1>47, <1>36, <1>37 DEF Stalled, Made
<1>48. QED
  BY <1>1, <1>30, <1>38, <1>39, <1>40, <1>41, <1>42, <1>43, <1>44, <1>45, <1>46, <1>47
    DEF Next, Proceeding

\* The rows of sources and drafts, the queue's jobs, and what requests and workers
\* have in hand keep their types, through crashes, drains and stalled jobs.
THEOREM PipelineTyped == Spec => []TypeOK
<1>1. PipeInv => TypeOK
  BY DEF PipeInv
<1>2. QED
  BY <1>1, PipeInit, PipeNext, PTL DEF Spec
-----------------------------------------------------------------------------
(* What is being parsed keeps a job: one lemma per action.                 *)

\* Where a source could be without a job after a step, it was so before.
LEMMA OrphanWas ==
  ASSUME NEW i \in Sources, Orphaned(i)',
         phase \in {"drain", "requeue", "up"}, source[i] = "PARSING",
         Held(i) => Held(i)', Queued(i) => Queued(i)',
         \A r \in Requests : req'[r] = req[r] \/ req[r].op \notin {"fail", "delete"}
                             \/ req[r].source # i
  PROVE  Orphaned(i)
BY DEF Orphaned

\* Jobs are added, none is taken.
LEMMA QueuedKept ==
  ASSUME waiting \in JobCounts, waiting' \in JobCounts, NEW i \in Sources,
         \A k \in Sources \X Made : k[1] = i => waiting'[k] >= waiting[k], Queued(i)
  PROVE  Queued(i)'
<1>1. PICK m \in Made : waiting[<<i, m>>] > 0
  BY DEF Queued, Made
<1>2. PICK k \in Sources \X Made : k = <<i, m>>
  OBVIOUS
<1>3. waiting[k] \in Nat /\ waiting'[k] \in Nat /\ waiting[k] > 0 /\ waiting'[k] >= waiting[k]
  BY <1>1, <1>2 DEF JobCounts, Made
<1>4. waiting'[<<i, m>>] > 0
  BY <1>2, <1>3
<1>5. QED
  BY <1>4 DEF Queued, Made

LEMMA JobsUnchanged ==
  ASSUME UNCHANGED <<waiting, ghosts>>, NEW i, parser.source = i => parser'.source = i
  PROVE  /\ Held(i) => Held(i)'
         /\ Queued(i) => Queued(i)'
BY DEF Held, Queued

\* Steps that touch neither jobs nor sources, nor a cancellation under way.
LEMMA OrphanFrame ==
  ASSUME NEW i \in Sources, Orphaned(i)', UNCHANGED <<parseVars, phase>>,
         \A r \in Requests : req'[r] = req[r] \/ req[r].op \notin {"fail", "delete"}
  PROVE  Orphaned(i)
BY DEF Orphaned, Held, Queued, parseVars

\* The job whose attempt throws waits again, or its source is FAILED.
LEMMA ThrowOrphans ==
  ASSUME PipeInv, NEW i \in Sources, Orphaned(i)', parser.source \in Sources, ParseThrows,
         phase' = phase,
         \A r \in Requests : req'[r] = req[r] \/ req[r].op \notin {"fail", "delete"}
  PROVE  Orphaned(i)
<1>1. TypeOK
  BY DEF PipeInv
<1>2. /\ ghosts' = ghosts /\ parser' = Resting /\ waiting' \in JobCounts
      /\ \A k \in Sources \X Made : waiting'[k] >= waiting[k]
      /\ \A s \in Sources : source'[s] # source[s] => source'[s] = "FAILED"
      /\ parser.made + 1 >= Attempts => source'[parser.source] # "PARSING"
      /\ parser.made + 1 < Attempts => waiting'[<<parser.source, parser.made + 1>>] > 0
  BY <1>1, ParseThrowsDoes
<1>3. source[i] = "PARSING" /\ source'[i] = "PARSING" /\ ~Queued(i)'
  BY <1>2 DEF Orphaned
<1>4. parser.source # i
  <2> SUFFICES ASSUME parser.source = i PROVE FALSE
    OBVIOUS
  <2>1. parser.made \in Nat /\ parser.made + 1 < Attempts
    BY <1>1, <1>2, <1>3, BoundAssumption DEF TypeOK, Parser
  <2>2. PICK m \in Made : m = parser.made + 1
    BY <2>1, BoundAssumption DEF Made
  <2>3. waiting'[<<i, m>>] > 0
    BY <1>2, <2>1, <2>2
  <2>4. QED
    BY <1>3, <2>3 DEF Queued, Made
<1>5. Held(i) => Held(i)'
  BY <1>2, <1>4 DEF Held
<1>6. Queued(i) => Queued(i)'
  BY <1>1, <1>2, QueuedKept DEF TypeOK
<1>7. phase \in {"drain", "requeue", "up"}
  BY DEF Orphaned
<1>8. QED
  BY <1>3, <1>5, <1>6, <1>7, OrphanWas

LEMMA CreateSourceOrphans ==
  ASSUME PipeInv, phase # "drain", NEW i \in Sources, Orphaned(i)',
         NEW r \in Requests, NEW s \in Sources, CreateSource(r, s)
  PROVE  Orphaned(i) \/ \E k \in Made : Dropped(i, k)
<1>1. /\ UNCHANGED <<waiting, ghosts, parser, phase>> /\ source[i] = "PARSING"
      /\ \A o \in Requests : req'[o] = req[o] \/ req[o].op \notin {"fail", "delete"}
                                       \/ req[o].source # i
  BY CreateSourceDoes DEF PipeInv, TypeOK, Orphaned, Others, Callers, bootVars, Mark
<1>2. phase \in {"drain", "requeue", "up"}
  BY <1>1 DEF Orphaned
<1>3. QED
  BY <1>1, <1>2, JobsUnchanged, OrphanWas

LEMMA AddSourceJobOrphans ==
  ASSUME PipeInv, phase # "drain", NEW i \in Sources, Orphaned(i)',
         NEW r \in Requests, AddSourceJob(r)
  PROVE  Orphaned(i) \/ \E k \in Made : Dropped(i, k)
<1>1. /\ UNCHANGED <<source, ghosts, parser>> /\ waiting' \in JobCounts
      /\ \A k \in Sources \X Made : waiting'[k] >= waiting[k]
      /\ phase' = phase \/ phase = "requeue"
      /\ \A o \in Requests : req'[o] = req[o] \/ req[o].op \notin {"fail", "delete"}
  BY AddSourceJobDoes DEF Others, Callers, bootVars
<1>2. phase \in {"drain", "requeue", "up"} /\ source[i] = "PARSING"
  BY <1>1 DEF Orphaned
<1>3. Held(i) => Held(i)'
  BY <1>1 DEF Held
<1>4. Queued(i) => Queued(i)'
  BY <1>1, QueuedKept DEF PipeInv, TypeOK
<1>5. QED
  BY <1>1, <1>2, <1>3, <1>4, OrphanWas

LEMMA RetryReadOrphans ==
  ASSUME PipeInv, phase # "drain", NEW i \in Sources, Orphaned(i)',
         NEW r \in Requests, NEW s \in Sources, RetryRead(r, s)
  PROVE  Orphaned(i) \/ \E k \in Made : Dropped(i, k)
<1>1. UNCHANGED <<parseVars, phase>>
  BY RetryReadDoes DEF bootVars, PipeInv, history
<1>2. \A o \in Requests : req'[o] = req[o] \/ req[o].op \notin {"fail", "delete"}
  BY RetryReadDoes DEF Others, Callers, PipeInv
<1>3. QED
  BY <1>1, <1>2, OrphanFrame

LEMMA RetryMarkOrphans ==
  ASSUME PipeInv, phase # "drain", NEW i \in Sources, Orphaned(i)',
         NEW r \in Requests, RetryMark(r)
  PROVE  Orphaned(i) \/ \E k \in Made : Dropped(i, k)
<1>1. /\ UNCHANGED <<waiting, ghosts, parser, phase>> /\ source[i] = "PARSING"
      /\ \A o \in Requests : req'[o] = req[o] \/ req[o].op \notin {"fail", "delete"}
                                       \/ req[o].source # i
  BY StepDoes, FinishDoes
    DEF RetryMark, Ops, PipeInv, TypeOK, Orphaned, Others, Callers, bootVars, Mark
<1>2. phase \in {"drain", "requeue", "up"}
  BY <1>1 DEF Orphaned
<1>3. QED
  BY <1>1, <1>2, JobsUnchanged, OrphanWas

LEMMA CancelReadOrphans ==
  ASSUME PipeInv, phase # "drain", NEW i \in Sources, Orphaned(i)',
         NEW r \in Requests, NEW s \in Sources, CancelRead(r, s)
  PROVE  Orphaned(i) \/ \E k \in Made : Dropped(i, k)
<1>1. UNCHANGED <<parseVars, phase>>
  BY CancelReadDoes DEF bootVars, PipeInv, history
<1>2. \A o \in Requests : req'[o] = req[o] \/ req[o].op \notin {"fail", "delete"}
  BY CancelReadDoes DEF Others, Callers, PipeInv
<1>3. QED
  BY <1>1, <1>2, OrphanFrame

LEMMA CancelJobOrphans ==
  ASSUME PipeInv, phase # "drain", NEW i \in Sources, Orphaned(i)',
         NEW r \in Requests, CancelJob(r)
  PROVE  Orphaned(i) \/ \E k \in Made : Dropped(i, k)
<1>1. /\ Others(r) /\ req[r].op = "cancel" /\ req[r].source \in Sources
      /\ UNCHANGED <<source, parser, phase>> /\ waiting' \in JobCounts
  BY CancelJobDoes DEF bootVars
<1>2. phase \in {"drain", "requeue", "up"} /\ source[i] = "PARSING"
  BY <1>1 DEF Orphaned
<1>3. \A o \in Requests : req'[o] = req[o] \/ req[o].op \notin {"fail", "delete"}
  BY <1>1 DEF Others, Callers
<1>4. CASE UNCHANGED <<waiting, ghosts>>
  BY <1>1, <1>2, <1>3, <1>4, JobsUnchanged, OrphanWas
<1>5. CASE /\ req'[r].op = "fail" /\ req'[r].source = req[r].source
           /\ \A k \in Sources \X Made : k[1] # req[r].source =>
                waiting'[k] = waiting[k] /\ ghosts'[k] = ghosts[k]
  <2>1. i # req[r].source
    BY <1>5 DEF Orphaned
  <2>2. ASSUME NEW m \in Made
        PROVE  waiting'[<<i, m>>] = waiting[<<i, m>>]
        /\ ghosts'[<<i, m>>] = ghosts[<<i, m>>]
    <3>1. PICK k \in Sources \X Made : k = <<i, m>>
      OBVIOUS
    <3>2. k[1] = i
      BY <3>1
    <3>3. QED
      BY <1>5, <2>1, <3>1, <3>2
  <2>3. (Held(i) => Held(i)') /\ (Queued(i) => Queued(i)')
    BY <1>1, <2>2 DEF Held, Queued, Made
  <2>4. QED
    BY <1>2, <1>3, <2>3, OrphanWas
<1>6. QED
  BY <1>4, <1>5, CancelJobDoes

LEMMA CancelMarkOrphans ==
  ASSUME PipeInv, phase # "drain", NEW i \in Sources, Orphaned(i)',
         NEW r \in Requests, CancelMark(r)
  PROVE  Orphaned(i) \/ \E k \in Made : Dropped(i, k)
<1>1. /\ UNCHANGED <<waiting, ghosts, parser, phase>> /\ source[i] = "PARSING"
      /\ \A o \in Requests : req'[o] = req[o] \/ req[o].op \notin {"fail", "delete"}
                                       \/ req[o].source # i
  BY StepDoes, FinishDoes
    DEF CancelMark, Ops, PipeInv, TypeOK, Orphaned, Others, Callers, bootVars, Mark,
        Live
<1>2. phase \in {"drain", "requeue", "up"}
  BY <1>1 DEF Orphaned
<1>3. QED
  BY <1>1, <1>2, JobsUnchanged, OrphanWas

LEMMA DeleteReadOrphans ==
  ASSUME PipeInv, phase # "drain", NEW i \in Sources, Orphaned(i)',
         NEW r \in Requests, NEW s \in Sources, DeleteRead(r, s)
  PROVE  Orphaned(i) \/ \E k \in Made : Dropped(i, k)
<1>1. UNCHANGED <<parseVars, phase>>
  BY DeleteReadDoes DEF bootVars, PipeInv, history
<1>2. \A o \in Requests : req'[o] = req[o] \/ req[o].op \notin {"fail", "delete"}
  BY DeleteReadDoes DEF Others, Callers, PipeInv
<1>3. QED
  BY <1>1, <1>2, OrphanFrame

LEMMA DeleteRowOrphans ==
  ASSUME PipeInv, phase # "drain", NEW i \in Sources, Orphaned(i)',
         NEW r \in Requests, DeleteRow(r)
  PROVE  Orphaned(i) \/ \E k \in Made : Dropped(i, k)
<1>1. /\ UNCHANGED <<waiting, ghosts, parser, phase>> /\ source[i] = "PARSING"
      /\ \A o \in Requests : req'[o] = req[o] \/ req[o].op \notin {"fail", "delete"}
                                       \/ req[o].source # i
  BY FinishDoes
    DEF DeleteRow, PipeInv, TypeOK, Orphaned, Others, Callers, bootVars, Mark, Live
<1>2. phase \in {"drain", "requeue", "up"}
  BY <1>1 DEF Orphaned
<1>3. QED
  BY <1>1, <1>2, JobsUnchanged, OrphanWas

LEMMA TakeJobOrphans ==
  ASSUME PipeInv, phase # "drain", NEW i \in Sources, Orphaned(i)',
         NEW s \in Sources, NEW m \in Made, TakeJob(s, m)
  PROVE  Orphaned(i) \/ \E k \in Made : Dropped(i, k)
<1>1. /\ parser.at = "idle" /\ UNCHANGED <<source, ghosts, req, phase>>
      /\ \A k \in Sources \X Made : k # <<s, m>> => waiting'[k] = waiting[k]
      /\ IF Live(s) /\ source[s] \notin {"FAILED", "PARSED"}
         THEN parser' = [source |-> s, made |-> m, at |-> "mark"] ELSE parser' = Resting
  BY TakeJobDoes DEF bootVars
<1>2. parser.source = NoSource /\ parser.source # i
  BY <1>1, NamesAssumption DEF PipeInv, AtWork
<1>3. phase \in {"drain", "requeue", "up"} /\ source[i] = "PARSING"
  BY <1>1 DEF Orphaned
<1>4. i # s
  <2> SUFFICES ASSUME i = s PROVE FALSE
    OBVIOUS
  <2>1. parser'.source = i
    BY <1>1, <1>3 DEF Live
  <2>2. QED
    BY <2>1 DEF Orphaned, Held
<1>5. ASSUME NEW n \in Made
      PROVE  waiting'[<<i, n>>] = waiting[<<i, n>>]
  <2>1. PICK k \in Sources \X Made : k = <<i, n>>
    OBVIOUS
  <2>2. k # <<s, m>>
    BY <1>4, <2>1
  <2>3. QED
    BY <1>1, <2>1, <2>2
<1>6. (Held(i) => Held(i)') /\ (Queued(i) => Queued(i)')
  BY <1>1, <1>2, <1>5 DEF Held, Queued, Made
<1>7. QED
  BY <1>1, <1>3, <1>6, OrphanWas

LEMMA MarkParsingOrphans ==
  ASSUME PipeInv, phase # "drain", NEW i \in Sources, Orphaned(i)',
         MarkParsing
  PROVE  Orphaned(i) \/ \E k \in Made : Dropped(i, k)
<1>1. parser.source \in Sources /\ UNCHANGED <<req, phase>>
  BY DEF MarkParsing, PipeInv, AtWork, TypeOK, Parser, bootVars
<1>2. CASE /\ Mark(parser.source, "PARSING") /\ UNCHANGED <<waiting, ghosts>>
           /\ parser' = [parser EXCEPT !.at = "parse"]
  <2>1. parser'.source = parser.source
    BY <1>2, ParserGoes DEF PipeInv, TypeOK
  <2>2. i # parser.source
    BY <2>1 DEF Orphaned, Held
  <2>3. source[i] = "PARSING" /\ phase \in {"drain", "requeue", "up"}
    BY <1>1, <1>2, <2>2 DEF Mark, Orphaned
  <2>4. QED
    BY <1>1, <1>2, <2>1, <2>3, JobsUnchanged, OrphanWas
<1>3. CASE ParseThrows
  BY <1>1, <1>3, ThrowOrphans
<1>4. QED
  BY <1>2, <1>3 DEF MarkParsing

LEMMA StoreParsedOrphans ==
  ASSUME PipeInv, phase # "drain", NEW i \in Sources, Orphaned(i)',
         StoreParsed
  PROVE  Orphaned(i) \/ \E k \in Made : Dropped(i, k)
<1>1. /\ UNCHANGED <<waiting, ghosts, req, phase>> /\ Mark(parser.source, "PARSED")
      /\ parser' = [parser EXCEPT !.at = "auto"]
  BY DEF StoreParsed, bootVars
<1>2. parser'.source = parser.source
  BY <1>1, ParserGoes DEF PipeInv, TypeOK
<1>3. source[i] = "PARSING" /\ phase \in {"drain", "requeue", "up"}
  BY <1>1 DEF Mark, Orphaned, PipeInv, TypeOK
<1>4. QED
  BY <1>1, <1>2, <1>3, JobsUnchanged, OrphanWas

LEMMA ParseFailsOrphans ==
  ASSUME PipeInv, phase # "drain", NEW i \in Sources, Orphaned(i)',
         ParseFails
  PROVE  Orphaned(i) \/ \E k \in Made : Dropped(i, k)
<1>1. parser.source \in Sources /\ ParseThrows /\ UNCHANGED <<req, phase>>
  BY DEF ParseFails, PipeInv, AtWork, TypeOK, Parser, bootVars
<1>2. QED
  BY <1>1, ThrowOrphans

LEMMA AutoConsolidateOrphans ==
  ASSUME PipeInv, phase # "drain", NEW i \in Sources, Orphaned(i)',
         AutoConsolidate
  PROVE  Orphaned(i) \/ \E k \in Made : Dropped(i, k)
<1>1. /\ parser.at = "auto" /\ UNCHANGED <<source, waiting, ghosts, phase>>
      /\ Others(Worker) \/ req' = req
      /\ parser' = [parser EXCEPT !.at = "enqueue"] \/ parser' = Resting
  BY AutoConsolidateDoes DEF bootVars
<1>2. source[i] = "PARSING" /\ phase \in {"drain", "requeue", "up"}
  BY <1>1 DEF Orphaned
<1>3. parser.source # i
  BY <1>1, <1>2 DEF PipeInv, WorkerOK
<1>4. \A o \in Requests : req'[o] = req[o]
  BY <1>1, NamesAssumption DEF Others, Callers
<1>5. QED
  BY <1>1, <1>2, <1>3, <1>4, JobsUnchanged, OrphanWas

LEMMA ConsolidateReadOrphans ==
  ASSUME PipeInv, phase # "drain", NEW i \in Sources, Orphaned(i)',
         NEW r \in Requests, NEW ids \in SUBSET Sources, NEW force \in BOOLEAN,
         ConsolidateRead(r, ids, force)
  PROVE  Orphaned(i) \/ \E k \in Made : Dropped(i, k)
<1>1. UNCHANGED <<parseVars, phase>>
  BY ConsolidateReadDoes DEF bootVars, PipeInv, history
<1>2. \A o \in Requests : req'[o] = req[o] \/ req[o].op \notin {"fail", "delete"}
  BY ConsolidateReadDoes DEF Others, Callers, PipeInv
<1>3. QED
  BY <1>1, <1>2, OrphanFrame

LEMMA ReadLatestOrphans ==
  ASSUME PipeInv, phase # "drain", NEW i \in Sources, Orphaned(i)',
         NEW c \in Callers, ReadLatest(c)
  PROVE  Orphaned(i) \/ \E k \in Made : Dropped(i, k)
<1>1. UNCHANGED <<parseVars, phase>>
  BY ReadLatestDoes, Answered DEF bootVars, PipeInv, history
<1>2. \A o \in Requests : req'[o] = req[o] \/ req[o].op \notin {"fail", "delete"}
  BY ReadLatestDoes, Answered DEF Others, Callers, PipeInv
<1>3. QED
  BY <1>1, <1>2, OrphanFrame

LEMMA ReuseDraftOrphans ==
  ASSUME PipeInv, phase # "drain", NEW i \in Sources, Orphaned(i)',
         NEW c \in Callers, ReuseDraft(c)
  PROVE  Orphaned(i) \/ \E k \in Made : Dropped(i, k)
<1>1. /\ req[c].op = "draft" /\ phase' = phase
      /\ \/ Others(c) /\ UNCHANGED parseVars
         \/ EnqueueThrows(c)
  BY ReuseDraftDoes DEF bootVars
<1>2. CASE Others(c) /\ UNCHANGED parseVars
  <2>1. \A o \in Requests : req'[o] = req[o] \/ req[o].op \notin {"fail", "delete"}
    BY <1>1, <1>2 DEF Others, Callers
  <2>2. QED
    BY <1>1, <1>2, <2>1, OrphanFrame
<1>3. CASE EnqueueThrows(c)
  <2>1. /\ Others(c)
        /\ \/ UNCHANGED parseVars
           \/ parser.source \in Sources /\ ParseThrows
    BY <1>1, <1>3, EnqueueThrowsDoes
  <2>2. \A o \in Requests : req'[o] = req[o] \/ req[o].op \notin {"fail", "delete"}
    BY <1>1, <2>1 DEF Others, Callers
  <2>3. QED
    BY <1>1, <2>1, <2>2, OrphanFrame, ThrowOrphans
<1>4. QED
  BY <1>1, <1>2, <1>3

LEMMA CreateDraftOrphans ==
  ASSUME PipeInv, phase # "drain", NEW i \in Sources, Orphaned(i)',
         NEW c \in Callers, CreateDraft(c)
  PROVE  Orphaned(i) \/ \E k \in Made : Dropped(i, k)
<1>1. /\ req[c].op = "draft" /\ phase' = phase
      /\ \/ Others(c) /\ UNCHANGED parseVars
         \/ EnqueueThrows(c)
  BY CreateDraftOpens DEF bootVars
<1>2. CASE Others(c) /\ UNCHANGED parseVars
  <2>1. \A o \in Requests : req'[o] = req[o] \/ req[o].op \notin {"fail", "delete"}
    BY <1>1, <1>2 DEF Others, Callers
  <2>2. QED
    BY <1>1, <1>2, <2>1, OrphanFrame
<1>3. CASE EnqueueThrows(c)
  <2>1. /\ Others(c)
        /\ \/ UNCHANGED parseVars
           \/ parser.source \in Sources /\ ParseThrows
    BY <1>1, <1>3, EnqueueThrowsDoes
  <2>2. \A o \in Requests : req'[o] = req[o] \/ req[o].op \notin {"fail", "delete"}
    BY <1>1, <2>1 DEF Others, Callers
  <2>3. QED
    BY <1>1, <2>1, <2>2, OrphanFrame, ThrowOrphans
<1>4. QED
  BY <1>1, <1>2, <1>3

LEMMA QueueMergeOrphans ==
  ASSUME PipeInv, phase # "drain", NEW i \in Sources, Orphaned(i)',
         NEW c \in Callers, QueueMerge(c)
  PROVE  Orphaned(i) \/ \E k \in Made : Dropped(i, k)
<1>1. /\ req[c].op = "enqueue" /\ UNCHANGED <<source, waiting, ghosts, phase>>
      /\ parser' = IF c = Worker THEN Resting ELSE parser
  BY DEF QueueMerge, bootVars
<1>2. Others(c)
  BY QueueMergeDoes
<1>3. source[i] = "PARSING" /\ phase \in {"drain", "requeue", "up"}
  BY <1>1 DEF Orphaned
<1>4. c = Worker => parser.source # i
  BY <1>1, <1>3 DEF PipeInv, WorkerOK
<1>5. \A o \in Requests : req'[o] = req[o] \/ req[o].op \notin {"fail", "delete"}
  BY <1>1, <1>2 DEF Others, Callers
<1>6. QED
  BY <1>1, <1>3, <1>4, <1>5, JobsUnchanged, OrphanWas

LEMMA TakeMergeOrphans ==
  ASSUME PipeInv, phase # "drain", NEW i \in Sources, Orphaned(i)',
         NEW d \in DOMAIN merges, TakeMerge(d)
  PROVE  Orphaned(i) \/ \E k \in Made : Dropped(i, k)
<1>1. UNCHANGED <<parseVars, phase>>
  BY TakeMergeDoes DEF bootVars
<1>2. \A o \in Requests : req'[o] = req[o] \/ req[o].op \notin {"fail", "delete"}
  BY TakeMergeDoes, UnmergingIs, TablesAlike DEF PipeInv
<1>3. QED
  BY <1>1, <1>2, OrphanFrame

LEMMA AssignIdsOrphans ==
  ASSUME PipeInv, phase # "drain", NEW i \in Sources, Orphaned(i)',
         AssignIds
  PROVE  Orphaned(i) \/ \E k \in Made : Dropped(i, k)
<1>1. UNCHANGED <<parseVars, phase>>
  BY AssignIdsDoes DEF bootVars
<1>2. \A o \in Requests : req'[o] = req[o] \/ req[o].op \notin {"fail", "delete"}
  BY AssignIdsDoes, MergerGoes, UnmergingIs DEF PipeInv
<1>3. QED
  BY <1>1, <1>2, OrphanFrame

LEMMA ReadSourcesOrphans ==
  ASSUME PipeInv, phase # "drain", NEW i \in Sources, Orphaned(i)',
         ReadSources
  PROVE  Orphaned(i) \/ \E k \in Made : Dropped(i, k)
<1>1. UNCHANGED <<parseVars, phase>>
  BY ReadSourcesDoes DEF bootVars
<1>2. \A o \in Requests : req'[o] = req[o] \/ req[o].op \notin {"fail", "delete"}
  BY ReadSourcesDoes, MergerGoes, UnmergingIs DEF PipeInv
<1>3. QED
  BY <1>1, <1>2, OrphanFrame

LEMMA CommitMergeOrphans ==
  ASSUME PipeInv, phase # "drain", NEW i \in Sources, Orphaned(i)',
         CommitMerge
  PROVE  Orphaned(i) \/ \E k \in Made : Dropped(i, k)
<1>1. UNCHANGED <<parseVars, phase>>
  BY CommitMergeDoes, UnmergingIs DEF bootVars, PipeInv, history
<1>2. \A o \in Requests : req'[o] = req[o] \/ req[o].op \notin {"fail", "delete"}
  BY CommitMergeDoes, UnmergingIs DEF PipeInv
<1>3. QED
  BY <1>1, <1>2, OrphanFrame

LEMMA MergeFailsOrphans ==
  ASSUME PipeInv, phase # "drain", NEW i \in Sources, Orphaned(i)',
         MergeFails
  PROVE  Orphaned(i) \/ \E k \in Made : Dropped(i, k)
<1>1. UNCHANGED <<parseVars, phase>>
  BY MergeFailsDoes, UnmergingIs DEF bootVars, PipeInv, history
<1>2. \A o \in Requests : req'[o] = req[o] \/ req[o].op \notin {"fail", "delete"}
  BY MergeFailsDoes, UnmergingIs DEF PipeInv
<1>3. QED
  BY <1>1, <1>2, OrphanFrame

LEMMA PublishReadOrphans ==
  ASSUME PipeInv, phase # "drain", NEW i \in Sources, Orphaned(i)',
         NEW r \in Requests, NEW d \in DOMAIN drafts, PublishRead(r, d)
  PROVE  Orphaned(i) \/ \E k \in Made : Dropped(i, k)
<1>1. UNCHANGED <<parseVars, phase>>
  BY PublishReadDoes DEF bootVars, PipeInv, history
<1>2. \A o \in Requests : req'[o] = req[o] \/ req[o].op \notin {"fail", "delete"}
  BY PublishReadDoes DEF Others, Callers, PipeInv
<1>3. QED
  BY <1>1, <1>2, OrphanFrame

LEMMA PublishMarkOrphans ==
  ASSUME PipeInv, phase # "drain", NEW i \in Sources, Orphaned(i)',
         NEW r \in Requests, PublishMark(r)
  PROVE  Orphaned(i) \/ \E k \in Made : Dropped(i, k)
<1>1. UNCHANGED <<parseVars, phase>>
  BY PublishMarkDoes, IdleIs DEF bootVars, PipeInv, history
<1>2. \A o \in Requests : req'[o] = req[o] \/ req[o].op \notin {"fail", "delete"}
  BY PublishMarkDoes, IdleIs DEF Others, Callers, PipeInv
<1>3. QED
  BY <1>1, <1>2, OrphanFrame

LEMMA UnpublishOrphans ==
  ASSUME PipeInv, phase # "drain", NEW i \in Sources, Orphaned(i)',
         NEW d \in DOMAIN drafts, Unpublish(d)
  PROVE  Orphaned(i) \/ \E k \in Made : Dropped(i, k)
<1>1. UNCHANGED <<parseVars, phase>>
  BY UnpublishDoes DEF bootVars, PipeInv, history
<1>2. \A o \in Requests : req'[o] = req[o] \/ req[o].op \notin {"fail", "delete"}
  BY UnpublishDoes DEF PipeInv
<1>3. QED
  BY <1>1, <1>2, OrphanFrame

LEMMA DeleteDraftOrphans ==
  ASSUME PipeInv, phase # "drain", NEW i \in Sources, Orphaned(i)',
         NEW d \in DOMAIN drafts, DeleteDraft(d)
  PROVE  Orphaned(i) \/ \E k \in Made : Dropped(i, k)
<1>1. UNCHANGED <<parseVars, phase>>
  BY DeleteDraftDoes DEF PipeInv
<1>2. \A o \in Requests : req'[o] = req[o] \/ req[o].op \notin {"fail", "delete"}
  BY DeleteDraftDoes DEF PipeInv
<1>3. QED
  BY <1>1, <1>2, OrphanFrame

LEMMA EditTopicsOrphans ==
  ASSUME PipeInv, phase # "drain", NEW i \in Sources, Orphaned(i)',
         NEW d \in DOMAIN drafts, NEW weeks \in Weeks \ {"none"}, EditTopics(d, weeks)
  PROVE  Orphaned(i) \/ \E k \in Made : Dropped(i, k)
<1>1. UNCHANGED <<parseVars, phase>>
  BY EditTopicsDoes DEF bootVars, PipeInv, history
<1>2. \A o \in Requests : req'[o] = req[o] \/ req[o].op \notin {"fail", "delete"}
  BY EditTopicsDoes DEF PipeInv
<1>3. QED
  BY <1>1, <1>2, OrphanFrame

LEMMA CrashOrphans ==
  ASSUME PipeInv, phase # "drain", NEW i \in Sources, Orphaned(i)',
         Crash
  PROVE  Orphaned(i) \/ \E k \in Made : Dropped(i, k)
BY DEF Crash, Orphaned

LEMMA RestartOrphans ==
  ASSUME PipeInv, phase # "drain", NEW i \in Sources, Orphaned(i)',
         Restart
  PROVE  Orphaned(i) \/ \E k \in Made : Dropped(i, k)
BY DEF Restart, Orphaned

LEMMA FailGhostsOrphans ==
  ASSUME PipeInv, phase # "drain", NEW i \in Sources, Orphaned(i)',
         FailGhosts
  PROVE  Orphaned(i) \/ \E k \in Made : Dropped(i, k)
BY DEF FailGhosts, Orphaned

LEMMA ResetParsingOrphans ==
  ASSUME PipeInv, phase # "drain", NEW i \in Sources, Orphaned(i)',
         ResetParsing
  PROVE  Orphaned(i) \/ \E k \in Made : Dropped(i, k)
<1>1. source' = [s \in Sources |-> IF source[s] = "PARSING" THEN "FAILED" ELSE source[s]]
  BY DEF ResetParsing
<1>2. source'[i] # "PARSING"
  BY <1>1
<1>3. QED
  BY <1>2 DEF Orphaned

LEMMA DrainQueueOrphans ==
  ASSUME PipeInv, phase # "drain", NEW i \in Sources, Orphaned(i)',
         DrainQueue
  PROVE  Orphaned(i) \/ \E k \in Made : Dropped(i, k)
BY DEF DrainQueue

LEMMA RequeueSourceOrphans ==
  ASSUME PipeInv, phase # "drain", NEW i \in Sources, Orphaned(i)',
         NEW s \in Sources, RequeueSource(s)
  PROVE  Orphaned(i) \/ \E k \in Made : Dropped(i, k)
<1>1. /\ UNCHANGED <<source, ghosts, parser>> /\ waiting' \in JobCounts
      /\ \A k \in Sources \X Made : waiting'[k] >= waiting[k]
      /\ phase' = phase \/ phase = "requeue"
      /\ \A o \in Requests : req'[o] = req[o] \/ req[o].op \notin {"fail", "delete"}
  BY RequeueSourceDoes
<1>2. phase \in {"drain", "requeue", "up"} /\ source[i] = "PARSING"
  BY <1>1 DEF Orphaned
<1>3. Held(i) => Held(i)'
  BY <1>1 DEF Held
<1>4. Queued(i) => Queued(i)'
  BY <1>1, QueuedKept DEF PipeInv, TypeOK
<1>5. QED
  BY <1>1, <1>2, <1>3, <1>4, OrphanWas

LEMMA StalledParseOrphans ==
  ASSUME PipeInv, phase # "drain", NEW i \in Sources, Orphaned(i)',
         NEW s \in Sources, NEW m \in Made, StalledParse(s, m)
  PROVE  Orphaned(i) \/ \E k \in Made : Dropped(i, k)
<1>1. /\ UNCHANGED <<source, parser, req, phase>> /\ waiting' \in JobCounts
      /\ \A k \in Sources \X Made : k # <<s, m>> => ghosts'[k] = ghosts[k]
      /\ ghosts'[<<s, m>>] < ghosts[<<s, m>>]
      /\ \/ waiting' = waiting
         \/ /\ waiting'[<<s, m>>] > 0
            /\ \A k \in Sources \X Made : waiting'[k] >= waiting[k]
  BY StalledParseDoes DEF bootVars
<1>2. source[i] = "PARSING" /\ phase \in {"drain", "requeue", "up"}
  BY <1>1 DEF Orphaned
<1>3. CASE i = s /\ waiting' = waiting
  BY <1>1, <1>3 DEF Dropped
<1>4. CASE i = s /\ waiting'[<<s, m>>] > 0
  BY <1>4 DEF Orphaned, Queued, Made
<1>5. CASE i # s
  <2>1. ASSUME NEW n \in Made
        PROVE  ghosts'[<<i, n>>] = ghosts[<<i, n>>]
    <3>1. PICK k \in Sources \X Made : k = <<i, n>>
      OBVIOUS
    <3>2. k # <<s, m>>
      BY <1>5, <3>1
    <3>3. QED
      BY <1>1, <3>1, <3>2
  <2>2. Held(i) => Held(i)'
    BY <1>1, <2>1 DEF Held, Made
  <2>3. Queued(i) => Queued(i)'
    <3>1. CASE waiting' = waiting
      BY <3>1 DEF Queued
    <3>2. CASE \A k \in Sources \X Made : waiting'[k] >= waiting[k]
      BY <1>1, <3>2, QueuedKept DEF PipeInv, TypeOK
    <3>3. QED
      BY <1>1, <3>1, <3>2
  <2>4. QED
    BY <1>1, <1>2, <2>2, <2>3, OrphanWas
<1>6. QED
  BY <1>1, <1>3, <1>4, <1>5

LEMMA StalledMergeOrphans ==
  ASSUME PipeInv, phase # "drain", NEW i \in Sources, Orphaned(i)',
         NEW d \in DOMAIN merges, StalledMerge(d)
  PROVE  Orphaned(i) \/ \E k \in Made : Dropped(i, k)
<1>1. UNCHANGED <<parseVars, phase>>
  BY StalledMergeDoes DEF bootVars, PipeInv, history
<1>2. \A o \in Requests : req'[o] = req[o] \/ req[o].op \notin {"fail", "delete"}
  BY StalledMergeDoes DEF PipeInv
<1>3. QED
  BY <1>1, <1>2, OrphanFrame

LEMMA OrphanStutter ==
  ASSUME PipeInv, phase # "drain", NEW i \in Sources, Orphaned(i)', UNCHANGED vars
  PROVE  Orphaned(i) \/ \E k \in Made : Dropped(i, k)
<1>1. UNCHANGED <<parseVars, phase, req>>
  BY DEF vars, bootVars
<1>2. QED
  BY <1>1, OrphanFrame

LEMMA OrphanStep ==
  ASSUME PipeInv, phase # "drain", NEW i \in Sources, Orphaned(i)', [Next]_vars
  PROVE  Orphaned(i) \/ \E k \in Made : Dropped(i, k)
<1>1. ASSUME NEW r \in Requests, NEW s \in Sources, CreateSource(r, s)
      PROVE  Orphaned(i) \/ \E k \in Made : Dropped(i, k)
  BY <1>1, CreateSourceOrphans
<1>2. ASSUME NEW r \in Requests, AddSourceJob(r)
      PROVE  Orphaned(i) \/ \E k \in Made : Dropped(i, k)
  BY <1>2, AddSourceJobOrphans
<1>3. ASSUME NEW r \in Requests, NEW s \in Sources, RetryRead(r, s)
      PROVE  Orphaned(i) \/ \E k \in Made : Dropped(i, k)
  BY <1>3, RetryReadOrphans
<1>4. ASSUME NEW r \in Requests, RetryMark(r)
      PROVE  Orphaned(i) \/ \E k \in Made : Dropped(i, k)
  BY <1>4, RetryMarkOrphans
<1>5. ASSUME NEW r \in Requests, NEW s \in Sources, CancelRead(r, s)
      PROVE  Orphaned(i) \/ \E k \in Made : Dropped(i, k)
  BY <1>5, CancelReadOrphans
<1>6. ASSUME NEW r \in Requests, CancelJob(r)
      PROVE  Orphaned(i) \/ \E k \in Made : Dropped(i, k)
  BY <1>6, CancelJobOrphans
<1>7. ASSUME NEW r \in Requests, CancelMark(r)
      PROVE  Orphaned(i) \/ \E k \in Made : Dropped(i, k)
  BY <1>7, CancelMarkOrphans
<1>8. ASSUME NEW r \in Requests, NEW s \in Sources, DeleteRead(r, s)
      PROVE  Orphaned(i) \/ \E k \in Made : Dropped(i, k)
  BY <1>8, DeleteReadOrphans
<1>9. ASSUME NEW r \in Requests, DeleteRow(r)
      PROVE  Orphaned(i) \/ \E k \in Made : Dropped(i, k)
  BY <1>9, DeleteRowOrphans
<1>10. ASSUME NEW s \in Sources, NEW m \in Made, TakeJob(s, m)
      PROVE  Orphaned(i) \/ \E k \in Made : Dropped(i, k)
  BY <1>10, TakeJobOrphans
<1>11. CASE MarkParsing
  BY <1>11, MarkParsingOrphans
<1>12. CASE StoreParsed
  BY <1>12, StoreParsedOrphans
<1>13. CASE ParseFails
  BY <1>13, ParseFailsOrphans
<1>14. CASE AutoConsolidate
  BY <1>14, AutoConsolidateOrphans
<1>15. ASSUME NEW r \in Requests, NEW ids \in SUBSET Sources, NEW force \in BOOLEAN,
              ConsolidateRead(r, ids, force)
      PROVE  Orphaned(i) \/ \E k \in Made : Dropped(i, k)
  BY <1>15, ConsolidateReadOrphans
<1>16. ASSUME NEW c \in Callers, ReadLatest(c)
      PROVE  Orphaned(i) \/ \E k \in Made : Dropped(i, k)
  BY <1>16, ReadLatestOrphans
<1>17. ASSUME NEW c \in Callers, ReuseDraft(c)
      PROVE  Orphaned(i) \/ \E k \in Made : Dropped(i, k)
  BY <1>17, ReuseDraftOrphans
<1>18. ASSUME NEW c \in Callers, CreateDraft(c)
      PROVE  Orphaned(i) \/ \E k \in Made : Dropped(i, k)
  BY <1>18, CreateDraftOrphans
<1>19. ASSUME NEW c \in Callers, QueueMerge(c)
      PROVE  Orphaned(i) \/ \E k \in Made : Dropped(i, k)
  BY <1>19, QueueMergeOrphans
<1>20. ASSUME NEW d \in DOMAIN merges, TakeMerge(d)
      PROVE  Orphaned(i) \/ \E k \in Made : Dropped(i, k)
  BY <1>20, TakeMergeOrphans
<1>21. CASE AssignIds
  BY <1>21, AssignIdsOrphans
<1>22. CASE ReadSources
  BY <1>22, ReadSourcesOrphans
<1>23. CASE CommitMerge
  BY <1>23, CommitMergeOrphans
<1>24. CASE MergeFails
  BY <1>24, MergeFailsOrphans
<1>25. ASSUME NEW r \in Requests, NEW d \in DOMAIN drafts, PublishRead(r, d)
      PROVE  Orphaned(i) \/ \E k \in Made : Dropped(i, k)
  BY <1>25, PublishReadOrphans
<1>26. ASSUME NEW r \in Requests, PublishMark(r)
      PROVE  Orphaned(i) \/ \E k \in Made : Dropped(i, k)
  BY <1>26, PublishMarkOrphans
<1>27. ASSUME NEW d \in DOMAIN drafts, Unpublish(d)
      PROVE  Orphaned(i) \/ \E k \in Made : Dropped(i, k)
  BY <1>27, UnpublishOrphans
<1>28. ASSUME NEW d \in DOMAIN drafts, DeleteDraft(d)
      PROVE  Orphaned(i) \/ \E k \in Made : Dropped(i, k)
  BY <1>28, DeleteDraftOrphans
<1>29. ASSUME NEW d \in DOMAIN drafts, NEW weeks \in Weeks \ {"none"}, EditTopics(d, weeks)
      PROVE  Orphaned(i) \/ \E k \in Made : Dropped(i, k)
  BY <1>29, EditTopicsOrphans
<1>30. CASE Crash
  BY <1>30, CrashOrphans
<1>31. CASE Restart
  BY <1>31, RestartOrphans
<1>32. CASE FailGhosts
  BY <1>32, FailGhostsOrphans
<1>33. CASE ResetParsing
  BY <1>33, ResetParsingOrphans
<1>34. CASE DrainQueue
  BY <1>34, DrainQueueOrphans
<1>35. ASSUME NEW s \in Sources, RequeueSource(s)
      PROVE  Orphaned(i) \/ \E k \in Made : Dropped(i, k)
  BY <1>35, RequeueSourceOrphans
<1>36. ASSUME NEW s \in Sources, NEW m \in Made, StalledParse(s, m)
      PROVE  Orphaned(i) \/ \E k \in Made : Dropped(i, k)
  BY <1>36, StalledParseOrphans
<1>37. ASSUME NEW d \in DOMAIN merges, StalledMerge(d)
      PROVE  Orphaned(i) \/ \E k \in Made : Dropped(i, k)
  BY <1>37, StalledMergeOrphans
<1>38. CASE UNCHANGED vars
  BY <1>38, OrphanStutter
<1>39. CASE \E r \in Requests : AskOfSource(r)
  BY <1>39, <1>3, <1>5, <1>8 DEF AskOfSource
<1>40. CASE \E r \in Requests : AskOfDraft(r)
  BY <1>40, <1>15, <1>25 DEF AskOfDraft
<1>41. CASE EditDraft
  BY <1>41, <1>27, <1>28, <1>29 DEF EditDraft
<1>42. CASE \E r \in Requests : Continue(r)
  BY <1>42, <1>2, <1>4, <1>6, <1>7, <1>9, <1>26 DEF Continue
<1>43. CASE \E c \in Callers : Enqueue(c)
  BY <1>43, <1>16, <1>17, <1>18, <1>19 DEF Enqueue
<1>44. CASE Parse
  BY <1>44, <1>10, <1>11, <1>12, <1>13, <1>14 DEF Parse, Made
<1>45. CASE MergeStep
  BY <1>45, <1>20, <1>21, <1>22, <1>23, <1>24 DEF MergeStep
<1>46. CASE Boot
  BY <1>46, <1>31, <1>32, <1>33, <1>34, <1>35 DEF Boot
<1>47. CASE Stalled
  BY <1>47, <1>36, <1>37 DEF Stalled, Made
<1>48. QED
  BY <1>1, <1>30, <1>38, <1>39, <1>40, <1>41, <1>42, <1>43, <1>44, <1>45, <1>46, <1>47
    DEF Next, Proceeding

\* A source that is PARSING has a job that is waiting, running or stalled, but for
\* the drain at start-up and a stalled job that BullMQ fails for good
\* (curriculum.processor.ts:63): no request of an administrator and no attempt
\* that throws takes the last job of one.
THEOREM PipelineParsingKeepsJob == Spec => ParsingKeepsJob
<1>1. ASSUME PipeInv, [Next]_vars, phase # "drain", NEW s \in Sources, Orphaned(s)'
      PROVE  Orphaned(s) \/ \E m \in 0 .. Attempts - 1 : Dropped(s, m)
  BY <1>1, OrphanStep DEF Made
<1>2. PipeInv /\ [Next]_vars =>
        [phase # "drain" =>
           \A s \in Sources :
             Orphaned(s)' => Orphaned(s) \/ \E m \in 0 .. Attempts - 1 : Dropped(s, m)
        ]_vars
  BY <1>1
<1>3. QED
  BY PipeInit, PipeNext, <1>2, PTL DEF Spec, ParsingKeepsJob
-----------------------------------------------------------------------------
(* No two drafts without topics.                                           *)

\* A call that is about to open a version.
Minting(c) == req[c].op = "draft" /\ ~req[c].reuse

\* Only what has topics is published, and every version is there once.
RowsOK ==
  /\ \A d \in Rows : drafts[d].status = "PUBLISHED" => drafts[d].weeks # "none"
  /\ \A d, e \in Rows : drafts[d].version = drafts[e].version => d = e

\* A version has no higher number than its row.
VersionsBound ==
  /\ \A d \in Rows : drafts[d].version <= Len(drafts)
  /\ \A c \in Callers : req[c].op = "draft" => req[c].version <= Len(drafts)

\* A row about to be published has topics, if it is still there.
PublishOK ==
  \A c \in Callers :
    req[c].op = "publish" /\ req[c].draft \in Rows => drafts[req[c].draft].weeks # "none"

\* While no draft was deleted under a consolidation: the rows that calls and
\* jobs are about are there, ...
OnRows ==
  /\ \A c \in Callers :
       /\ req[c].op = "enqueue" => req[c].draft \in Rows
       /\ req[c].op = "draft" /\ req[c].reuse => req[c].draft \in Rows
  /\ \A d \in DOMAIN merges : merges[d].state # "none" => d \in Rows
  /\ merger.at # "idle" =>
       merger.target = merger.job /\ merges[merger.job].state = "active"

\* ... a row without topics is the latest version, ...
EmptyIsLast ==
  \A d, e \in Rows : drafts[d].weeks = "none" => drafts[e].version <= drafts[d].version

\* ... and a call that will open a version has read the latest one, which has
\* topics, unless that version was opened by another call.
MintOK ==
  \A c \in Callers : Minting(c) =>
    \/ Taken(req[c].version + 1)
    \/ /\ Taken(req[c].version) \/ (req[c].version = 0 /\ Rows = {})
       /\ \A d \in Rows : drafts[d].version <= req[c].version /\ drafts[d].weeks # "none"

DraftInv ==
  /\ RowsOK /\ VersionsBound /\ PublishOK
  /\ ~hasty => OnRows /\ EmptyIsLast /\ MintOK

\* What the rows are is known of each.
LEMMA RowTyped ==
  ASSUME PipeInv
  PROVE  /\ Rows \subseteq DOMAIN drafts /\ DOMAIN drafts \subseteq Nat /\ Len(drafts) \in Nat
         /\ \A d \in DOMAIN drafts : drafts[d].version \in Nat
         /\ \A c \in Callers : req[c].version \in Nat
<1>1. drafts \in Seq(Draft) /\ req \in [Callers -> Request]
  BY DEF PipeInv, TypeOK
<1>2. DOMAIN drafts \subseteq Nat /\ Len(drafts) \in Nat
  BY <1>1, LenProperties
<1>3. ASSUME NEW d \in DOMAIN drafts
      PROVE  drafts[d].version \in Nat
  <2>1. drafts[d] \in Draft
    BY <1>1
  <2>2. QED
    BY <2>1 DEF Draft
<1>4. \A c \in Callers : req[c].version \in Nat
  BY <1>1 DEF Request
<1>5. QED
  BY <1>2, <1>3, <1>4 DEF Rows

\* Two drafts without topics would both be the latest version.
LEMMA OneIsEmpty ==
  ASSUME PipeInv, DraftInv
  PROVE  OneEmptyDraft
<1> SUFFICES ASSUME ~hasty, NEW d \in Rows, NEW e \in Rows, Empty(d), Empty(e)
             PROVE  d = e
  BY DEF OneEmptyDraft, OneDraftInFlight
<1>1. drafts[d].version \in Nat /\ drafts[e].version \in Nat
  BY RowTyped
<1>2. drafts[e].version <= drafts[d].version /\ drafts[d].version <= drafts[e].version
  BY DEF DraftInv, EmptyIsLast, Empty
<1>3. QED
  BY <1>1, <1>2 DEF DraftInv, RowsOK

\* Among the rows there are is a latest version.
LEMMA LatestExists ==
  ASSUME PipeInv, VersionsBound, Rows # {}
  PROVE  Latest # {}
<1> DEFINE I == {drafts[d].version + 1 : d \in Rows}
<1>1. Len(drafts) + 1 \in Nat /\ I \subseteq 1 .. Len(drafts) + 1 /\ I # {}
  BY RowTyped DEF VersionsBound
<1>2. PICK i \in I : \A j \in I : j <= i
  <2> HIDE DEF I
  <2>1. QED
    BY <1>1, NewestExists
<1>3. PICK d \in Rows : i = drafts[d].version + 1
  OBVIOUS
<1>4. ASSUME NEW e \in Rows
      PROVE  drafts[e].version <= drafts[d].version
  <2>1. drafts[e].version + 1 <= drafts[d].version + 1
    BY <1>2, <1>3
  <2>2. QED
    BY <2>1, RowTyped
<1>5. QED
  BY <1>4 DEF Latest

\* A step that opens and deletes no row, and takes no topics from one.
RowsMove ==
  /\ drafts' \in Seq(Draft) /\ DOMAIN drafts' = DOMAIN drafts
  /\ \A d \in DOMAIN drafts :
       /\ drafts'[d].version = drafts[d].version
       /\ drafts'[d].status = "deleted" <=> drafts[d].status = "deleted"
       /\ drafts'[d].weeks = "none" => drafts[d].weeks = "none"

\* What such a step may leave its caller with.
CallsMove ==
  \A c \in Callers :
    \/ req'[c] = req[c]
    \/ req'[c].op \notin {"draft", "enqueue", "publish"}
    \/ req'[c].op = "enqueue" /\ (hasty \/ req'[c].draft \in Rows)
    \/ req'[c].op = "publish" /\ req'[c].draft \in Rows
       /\ drafts[req'[c].draft].weeks # "none"

\* What it may leave of the jobs.
JobsMove ==
  /\ DOMAIN merges' = DOMAIN merges
  /\ \A d \in DOMAIN merges : merges'[d].state # "none"
    => merges[d].state # "none" \/ d \in Rows
  /\ merger'.at # "idle" =>
       merger'.target = merger'.job /\ merges'[merger'.job].state = "active"

LEMMA DraftMoves ==
  ASSUME PipeInv, DraftInv, RowsMove, CallsMove, hasty' = hasty,
         ~hasty => JobsMove,
         \A d \in Rows : drafts'[d].status = "PUBLISHED" => drafts'[d].weeks # "none"
  PROVE  DraftInv'
<1>1. Rows' = Rows /\ Len(drafts') = Len(drafts)
  BY SameLength DEF RowsMove, Rows, PipeInv, TypeOK
<1>2. RowsOK'
  BY <1>1 DEF RowsOK, RowsMove, DraftInv, Rows
<1>3. VersionsBound'
  BY <1>1 DEF VersionsBound, RowsMove, CallsMove, DraftInv, Rows
<1>4. PublishOK'
  BY <1>1 DEF PublishOK, RowsMove, CallsMove, DraftInv, Rows
<1>5. ASSUME ~hasty
      PROVE  OnRows' /\ EmptyIsLast' /\ MintOK'
  <2>1. OnRows /\ EmptyIsLast /\ MintOK /\ JobsMove
    BY <1>5 DEF DraftInv
  <2>2. OnRows'
    BY <1>1, <1>5, <2>1 DEF OnRows, CallsMove, JobsMove
  <2>3. EmptyIsLast'
    BY <1>1, <2>1 DEF EmptyIsLast, RowsMove, Rows
  <2>4. \A v : Taken(v) => Taken(v)'
    BY <1>1 DEF Taken, RowsMove, Rows
  <2>5. MintOK'
    BY <1>1, <2>1, <2>4 DEF MintOK, Minting, CallsMove, RowsMove, Rows
  <2>6. QED
    BY <2>2, <2>3, <2>5
<1>6. QED
  BY <1>2, <1>3, <1>4, <1>5 DEF DraftInv

\* A step that leaves the drafts and their jobs alone.
LEMMA DraftFrame ==
  ASSUME PipeInv, DraftInv, UNCHANGED <<draftVars, hasty>>, CallsMove
  PROVE  DraftInv'
<1>1. RowsMove /\ hasty' = hasty
  BY DEF RowsMove, draftVars, PipeInv, TypeOK
<1>2. \A d \in Rows : drafts'[d].status = "PUBLISHED" => drafts'[d].weeks # "none"
  BY DEF draftVars, DraftInv, RowsOK
<1>3. ~hasty => JobsMove
  BY DEF JobsMove, draftVars, DraftInv, OnRows
<1>4. QED
  BY <1>1, <1>2, <1>3, DraftMoves

\* The two tables when a version is opened.
LEMMA RowsOpened ==
  ASSUME PipeInv, NEW v \in Nat, NEW ids, NEW m, Opened(v + 1, ids, m)
  PROVE  LET n == Len(drafts) + 1 IN
         /\ Rows' = Rows \cup {n} /\ n \notin Rows /\ v \in Nat
         /\ drafts'[n].version = v + 1 /\ drafts'[n].weeks = "none"
         /\ drafts'[n].status = "DRAFT"
         /\ \A d \in Rows : drafts'[d] = drafts[d]
         /\ Len(drafts') = n /\ n \in Nat /\ Len(drafts) \in Nat
<1> DEFINE n == Len(drafts) + 1
<1>1. /\ drafts' \in Seq(Draft) /\ DOMAIN drafts' = DOMAIN drafts \cup {n}
      /\ n \notin DOMAIN drafts
      /\ \A e \in DOMAIN drafts : drafts'[e] = drafts[e]
      /\ drafts'[n] = NewDraft(v + 1, ids)
  BY DEF Opened
<1>2. /\ drafts'[n].version = v + 1 /\ drafts'[n].weeks = "none"
      /\ drafts'[n].status = "DRAFT"
  BY <1>1 DEF NewDraft
<1>3. n \in Nat /\ Len(drafts) \in Nat /\ DOMAIN drafts = 1 .. Len(drafts)
  BY LenProperties DEF PipeInv, TypeOK
<1>4. Len(drafts') = n
  <2>1. Len(drafts') \in Nat
        /\ \A i \in Nat : i \in DOMAIN drafts' <=> 1 <= i /\ i <= Len(drafts')
    BY <1>1, LenProperties
  <2>2. \A i \in Nat : i \in DOMAIN drafts' <=> 1 <= i /\ i <= n
    BY <1>1, <1>3
  <2>3. PICK k \in Nat, l \in Nat : k = Len(drafts') /\ l = n
    BY <1>3, <2>1
  <2>4. \A i \in Nat : (1 <= i /\ i <= k) <=> (1 <= i /\ i <= l)
    BY <2>1, <2>2, <2>3
  <2>5. k = l
    BY <2>4
  <2>6. QED
    BY <2>3, <2>5
<1>5. Rows' = Rows \cup {n}
  BY <1>1, <1>2 DEF Rows
<1>6. n \notin Rows /\ \A d \in Rows : drafts'[d] = drafts[d]
  BY <1>1 DEF Rows
<1>7. QED
  BY <1>2, <1>3, <1>4, <1>5, <1>6

LEMMA JobsOpened ==
  ASSUME PipeInv, NEW v, NEW ids, Opened(v, ids, merges)
  PROVE  LET n == Len(drafts) + 1 IN
         /\ DOMAIN merges' = DOMAIN merges \cup {n} /\ merges'[n].state = "none"
         /\ \A d \in DOMAIN merges : merges'[d] = merges[d]
<1>1. Tables
  BY DEF PipeInv, TypeOK, Tables
<1>2. QED
  BY <1>1, TablesAlike, NoMergeIs DEF Opened

\* Every step keeps DraftInv: one lemma per action.
LEMMA RowsUnmoved ==
  ASSUME PipeInv, DraftInv, drafts' = drafts
  PROVE  /\ RowsMove
         /\ \A d \in Rows : drafts'[d].status = "PUBLISHED" => drafts'[d].weeks # "none"
BY DEF RowsMove, PipeInv, TypeOK, DraftInv, RowsOK

LEMMA CreateSourceDrafts ==
  ASSUME PipeInv, DraftInv, NEW r \in Requests, NEW s \in Sources,
         CreateSource(r, s)
  PROVE  DraftInv'
<1>1. UNCHANGED <<draftVars, hasty>>
  BY CreateSourceDoes DEF bootVars, history, PipeInv
<1>2. CallsMove
  BY CreateSourceDoes, SMTT(10) DEF CallsMove, Others, PipeInv
<1>3. QED
  BY <1>1, <1>2, DraftFrame

LEMMA AddSourceJobDrafts ==
  ASSUME PipeInv, DraftInv, NEW r \in Requests,
         AddSourceJob(r)
  PROVE  DraftInv'
<1>1. UNCHANGED <<draftVars, hasty>>
  BY AddSourceJobDoes DEF bootVars, history
<1>2. CallsMove
  BY AddSourceJobDoes, IdleIs, SMTT(10) DEF CallsMove, Others
<1>3. QED
  BY <1>1, <1>2, DraftFrame

LEMMA RetryReadDrafts ==
  ASSUME PipeInv, DraftInv, NEW r \in Requests, NEW s \in Sources,
         RetryRead(r, s)
  PROVE  DraftInv'
<1>1. UNCHANGED <<draftVars, hasty>>
  BY RetryReadDoes DEF bootVars, history, PipeInv
<1>2. CallsMove
  BY RetryReadDoes, SMTT(10) DEF CallsMove, Others, PipeInv
<1>3. QED
  BY <1>1, <1>2, DraftFrame

LEMMA RetryMarkDrafts ==
  ASSUME PipeInv, DraftInv, NEW r \in Requests,
         RetryMark(r)
  PROVE  DraftInv'
<1>1. UNCHANGED <<draftVars, hasty>>
  BY DEF RetryMark, bootVars, history
<1>2. CallsMove
  BY StepDoes, FinishDoes, IdleIs, SMTT(10)
    DEF RetryMark, CallsMove, Others, Callers, PipeInv, TypeOK, Ops
<1>3. QED
  BY <1>1, <1>2, DraftFrame

LEMMA CancelReadDrafts ==
  ASSUME PipeInv, DraftInv, NEW r \in Requests, NEW s \in Sources,
         CancelRead(r, s)
  PROVE  DraftInv'
<1>1. UNCHANGED <<draftVars, hasty>>
  BY CancelReadDoes DEF bootVars, history, PipeInv
<1>2. CallsMove
  BY CancelReadDoes, SMTT(10) DEF CallsMove, Others, PipeInv
<1>3. QED
  BY <1>1, <1>2, DraftFrame

LEMMA CancelJobDrafts ==
  ASSUME PipeInv, DraftInv, NEW r \in Requests,
         CancelJob(r)
  PROVE  DraftInv'
<1>1. UNCHANGED <<draftVars, hasty>>
  BY CancelJobDoes DEF bootVars, history
<1>2. CallsMove
  BY CancelJobDoes, IdleIs, SMTT(10) DEF CallsMove, Others
<1>3. QED
  BY <1>1, <1>2, DraftFrame

LEMMA CancelMarkDrafts ==
  ASSUME PipeInv, DraftInv, NEW r \in Requests,
         CancelMark(r)
  PROVE  DraftInv'
<1>1. UNCHANGED <<draftVars, hasty>>
  BY DEF CancelMark, bootVars, history
<1>2. CallsMove
  BY StepDoes, FinishDoes, IdleIs, SMTT(10)
    DEF CancelMark, CallsMove, Others, Callers, PipeInv, TypeOK, Ops
<1>3. QED
  BY <1>1, <1>2, DraftFrame

LEMMA DeleteReadDrafts ==
  ASSUME PipeInv, DraftInv, NEW r \in Requests, NEW s \in Sources,
         DeleteRead(r, s)
  PROVE  DraftInv'
<1>1. UNCHANGED <<draftVars, hasty>>
  BY DeleteReadDoes DEF bootVars, history, PipeInv
<1>2. CallsMove
  BY DeleteReadDoes, SMTT(10) DEF CallsMove, Others, PipeInv
<1>3. QED
  BY <1>1, <1>2, DraftFrame

LEMMA DeleteRowDrafts ==
  ASSUME PipeInv, DraftInv, NEW r \in Requests,
         DeleteRow(r)
  PROVE  DraftInv'
<1>1. UNCHANGED <<draftVars, hasty>>
  BY DEF DeleteRow, bootVars, history
<1>2. CallsMove
  BY FinishDoes, IdleIs, SMTT(10)
    DEF DeleteRow, CallsMove, Others, Callers, PipeInv, TypeOK
<1>3. QED
  BY <1>1, <1>2, DraftFrame

LEMMA TakeJobDrafts ==
  ASSUME PipeInv, DraftInv, NEW s \in Sources, NEW m \in Made,
         TakeJob(s, m)
  PROVE  DraftInv'
<1>1. UNCHANGED <<draftVars, hasty>>
  BY TakeJobDoes DEF bootVars, history
<1>2. CallsMove
  BY TakeJobDoes, SMTT(10) DEF CallsMove
<1>3. QED
  BY <1>1, <1>2, DraftFrame

LEMMA MarkParsingDrafts ==
  ASSUME PipeInv, DraftInv, MarkParsing
  PROVE  DraftInv'
<1>1. UNCHANGED <<draftVars, hasty>>
  BY DEF MarkParsing, bootVars, history
<1>2. CallsMove
  BY SMTT(10) DEF MarkParsing, CallsMove
<1>3. QED
  BY <1>1, <1>2, DraftFrame

LEMMA StoreParsedDrafts ==
  ASSUME PipeInv, DraftInv, StoreParsed
  PROVE  DraftInv'
<1>1. UNCHANGED <<draftVars, hasty>>
  BY DEF StoreParsed, bootVars, history
<1>2. CallsMove
  BY SMTT(10) DEF StoreParsed, CallsMove
<1>3. QED
  BY <1>1, <1>2, DraftFrame

LEMMA ParseFailsDrafts ==
  ASSUME PipeInv, DraftInv, ParseFails
  PROVE  DraftInv'
<1>1. UNCHANGED <<draftVars, hasty>>
  BY DEF ParseFails, bootVars, history
<1>2. CallsMove
  BY SMTT(10) DEF ParseFails, CallsMove
<1>3. QED
  BY <1>1, <1>2, DraftFrame

LEMMA AutoConsolidateDrafts ==
  ASSUME PipeInv, DraftInv, AutoConsolidate
  PROVE  DraftInv'
<1>1. UNCHANGED <<draftVars, hasty>>
  BY AutoConsolidateDoes DEF bootVars, history
<1>2. CallsMove
  BY AutoConsolidateDoes, SMTT(10) DEF CallsMove, Others
<1>3. QED
  BY <1>1, <1>2, DraftFrame

LEMMA ConsolidateReadDrafts ==
  ASSUME PipeInv, DraftInv, NEW r \in Requests, NEW ids \in SUBSET Sources, NEW force \in BOOLEAN,
         ConsolidateRead(r, ids, force)
  PROVE  DraftInv'
<1>1. UNCHANGED <<draftVars, hasty>>
  BY ConsolidateReadDoes DEF bootVars, history, PipeInv
<1>2. CallsMove
  BY ConsolidateReadDoes, SMTT(10) DEF CallsMove, Others, PipeInv
<1>3. QED
  BY <1>1, <1>2, DraftFrame

LEMMA ReadLatestDrafts ==
  ASSUME PipeInv, DraftInv, NEW c \in Callers,
         ReadLatest(c)
  PROVE  DraftInv'
<1>1. /\ Others(c) /\ req[c].op = "latest" /\ req'[c].op = "draft"
      /\ UNCHANGED <<draftVars, hasty>>
  BY ReadLatestDoes DEF PipeInv, bootVars, history
<1>2. ~req[c].reuse /\ req[c].version = 0
  BY <1>1 DEF PipeInv, InHand
<1>3. /\ Rows' = Rows /\ drafts' = drafts /\ merges' = merges /\ merger' = merger
      /\ Len(drafts') = Len(drafts) /\ hasty' = hasty
  BY <1>1 DEF Rows, draftVars
<1>4. ASSUME NEW o \in Callers, o # c
      PROVE  req'[o] = req[o]
  BY <1>1, <1>4 DEF Others
<1>5. RowsOK' /\ PublishOK'
  BY <1>1, <1>3, <1>4 DEF RowsOK, PublishOK, DraftInv
<1>6. CASE Latest = {} /\ req'[c].version = req[c].version /\ req'[c].reuse = req[c].reuse
  <2>1. Rows = {}
    BY <1>6, LatestExists DEF DraftInv
  <2>2. req'[c].version = 0 /\ ~req'[c].reuse
    BY <1>2, <1>6
  <2>3. VersionsBound'
    BY <1>3, <1>4, <2>1, <2>2 DEF VersionsBound, DraftInv
  <2>4. ASSUME ~hasty
        PROVE  OnRows' /\ EmptyIsLast' /\ MintOK'
    <3>1. OnRows /\ EmptyIsLast /\ MintOK
      BY <2>4 DEF DraftInv
    <3>2. OnRows'
      BY <1>1, <1>3, <1>4, <2>2, <3>1 DEF OnRows
    <3>3. EmptyIsLast'
      BY <1>3, <2>1 DEF EmptyIsLast
    <3>4. MintOK'
      BY <1>1, <1>3, <1>4, <2>1, <2>2, <3>1 DEF MintOK, Minting, Taken
    <3>5. QED
      BY <3>2, <3>3, <3>4
  <2>5. QED
    BY <1>3, <1>5, <2>3, <2>4 DEF DraftInv
<1>7. ASSUME NEW d \in Latest, req'[c].draft = d, req'[c].version = drafts[d].version,
             req'[c].reuse \in Reusable(d, req[c].force)
      PROVE  DraftInv'
  <2>1. d \in Rows /\ \A e \in Rows : drafts[e].version <= drafts[d].version
    BY DEF Latest
  <2>2. VersionsBound'
    BY <1>3, <1>4, <1>7, <2>1 DEF VersionsBound, DraftInv
  <2>3. ~req'[c].reuse => drafts[d].weeks # "none"
    <3>1. drafts[d].status = "PUBLISHED" => drafts[d].weeks # "none"
      BY <2>1 DEF DraftInv, RowsOK
    <3>2. drafts[d].weeks = "none" => Reusable(d, req[c].force) = {TRUE}
      BY <3>1 DEF Reusable
    <3>3. QED
      BY <1>7, <3>2
  <2>4. ASSUME ~hasty
        PROVE  OnRows' /\ EmptyIsLast' /\ MintOK'
    <3>1. OnRows /\ EmptyIsLast /\ MintOK
      BY <2>4 DEF DraftInv
    <3>2. OnRows'
      BY <1>1, <1>3, <1>4, <1>7, <2>1, <3>1 DEF OnRows
    <3>3. EmptyIsLast'
      BY <1>3, <3>1 DEF EmptyIsLast
    <3>4. ASSUME ~req'[c].reuse, NEW e \in Rows
          PROVE  drafts[e].weeks # "none"
      <4> SUFFICES ASSUME drafts[e].weeks = "none" PROVE FALSE
        OBVIOUS
      <4>1. drafts[d].version <= drafts[e].version /\ drafts[e].version <= drafts[d].version
        BY <2>1, <3>1 DEF EmptyIsLast
      <4>2. e = d
        BY <2>1, <4>1, RowTyped DEF DraftInv, RowsOK
      <4>3. QED
        BY <2>3, <3>4, <4>2
    <3>5. \E e \in Rows' : drafts'[e].version = req'[c].version
      BY <1>3, <1>7, <2>1
    <3>6. MintOK'
      <4> SUFFICES ASSUME NEW o \in Callers, Minting(o)'
                   PROVE  \/ \E e \in Rows' : drafts'[e].version = req'[o].version + 1
                          \/ /\ \/ \E e \in Rows' : drafts'[e].version = req'[o].version
                                \/ req'[o].version = 0 /\ Rows' = {}
                             /\ \A e \in Rows' : drafts'[e].version <= req'[o].version
                                                 /\ drafts'[e].weeks # "none"
        BY DEF MintOK, Taken
      <4>1. CASE o = c
        BY <1>3, <1>7, <2>1, <3>4, <3>5, <4>1 DEF Minting
      <4>2. CASE o # c
        BY <1>3, <1>4, <3>1, <4>2 DEF MintOK, Minting, Taken
      <4>3. QED
        BY <4>1, <4>2
    <3>7. QED
      BY <3>2, <3>3, <3>6
  <2>5. QED
    BY <1>3, <1>5, <2>2, <2>4 DEF DraftInv
<1>8. QED
  BY <1>6, <1>7, ReadLatestDoes DEF PipeInv

LEMMA ReuseDraftDrafts ==
  ASSUME PipeInv, DraftInv, NEW c \in Callers,
         ReuseDraft(c)
  PROVE  DraftInv'
<1>1. TypeOK /\ req[c].op = "draft" /\ UNCHANGED <<merges, merger>> /\ hasty' = hasty
  BY ReuseDraftDoes DEF PipeInv, bootVars, history
<1>2. /\ drafts' \in Seq(Draft) /\ DOMAIN drafts' = DOMAIN drafts
      /\ \A d \in DOMAIN drafts : SameDraft(d)
  BY <1>1, ReuseDraftDoes DEF OtherRows, SameDraft, TypeOK
<1>3. Others(c)
  BY <1>1, ReuseDraftDoes, EnqueueThrowsDoes
<1>4. \/ req'[c].op = "idle"
      \/ req'[c].op = "enqueue" /\ req'[c].draft \in Rows
  BY <1>1, ReuseDraftDoes, EnqueueThrowsDoes, IdleIs
<1>5. RowsMove
  BY <1>2 DEF RowsMove, SameDraft
<1>6. CallsMove
  BY <1>3, <1>4 DEF CallsMove, Others
<1>7. ~hasty => JobsMove
  BY <1>1 DEF JobsMove, DraftInv, OnRows
<1>8. \A d \in Rows : drafts'[d].status = "PUBLISHED" => drafts'[d].weeks # "none"
  BY <1>2 DEF SameDraft, DraftInv, RowsOK, Rows
<1>9. QED
  BY <1>1, <1>5, <1>6, <1>7, <1>8, DraftMoves

LEMMA CreateDraftDrafts ==
  ASSUME PipeInv, DraftInv, NEW c \in Callers,
         CreateDraft(c)
  PROVE  DraftInv'
<1>1. req[c].op = "draft" /\ ~req[c].reuse /\ merger' = merger /\ hasty' = hasty
  BY CreateDraftOpens DEF bootVars, history
<1>2. CASE EnqueueThrows(c) /\ UNCHANGED <<drafts, merges>>
  <2>1. Others(c) /\ req'[c].op = "idle"
    BY <1>1, <1>2, EnqueueThrowsDoes, IdleIs
  <2>2. CallsMove
    BY <2>1 DEF CallsMove, Others
  <2>3. QED
    BY <1>1, <1>2, <2>2, DraftFrame DEF draftVars
<1>3. CASE /\ Opened(req[c].version + 1, req[c].ids, merges) /\ ~Taken(req[c].version + 1)
           /\ Others(c) /\ req'[c].op = "enqueue" /\ req'[c].draft = Len(drafts) + 1
  <2> DEFINE n == Len(drafts) + 1
             v == req[c].version
  <2>1. /\ Rows' = Rows \cup {n} /\ n \notin Rows /\ v \in Nat
        /\ drafts'[n].version = v + 1 /\ drafts'[n].weeks = "none"
        /\ drafts'[n].status = "DRAFT"
        /\ \A d \in Rows : drafts'[d] = drafts[d]
        /\ Len(drafts') = n /\ n \in Nat /\ Len(drafts) \in Nat
    <3>1. v \in Nat /\ Opened(v + 1, req[c].ids, merges)
      BY <1>3, RowTyped
    <3> HIDE DEF v
    <3>2. QED
      BY <3>1, RowsOpened
  <2>2. /\ DOMAIN merges' = DOMAIN merges \cup {n} /\ merges'[n].state = "none"
        /\ \A d \in DOMAIN merges : merges'[d] = merges[d]
    BY <1>3, JobsOpened
  <2>3. \A o \in Callers \ {c} : req'[o] = req[o]
    BY <1>3 DEF Others
  <2> HIDE DEF n, v
  <2>4. req'[c].op = "enqueue" /\ req'[c].draft = n /\ ~Taken(v + 1) /\ v <= Len(drafts)
    BY <1>1, <1>3 DEF n, v, DraftInv, VersionsBound
  <2>5. RowsOK'
    BY <2>1, <2>4 DEF RowsOK, DraftInv, Taken
  <2>6. VersionsBound'
    <3>1. \A d \in Rows : drafts[d].version \in Nat /\ drafts[d].version <= Len(drafts)
      BY RowTyped DEF DraftInv, VersionsBound
    <3>2. n = Len(drafts) + 1
      BY DEF n
    <3>3. \A d \in Rows' : drafts'[d].version <= n
      BY <2>1, <2>4, <3>1, <3>2
    <3>4. \A o \in Callers \ {c} : req[o].op = "draft" => req[o].version <= n
      BY <2>1, <3>2, RowTyped DEF DraftInv, VersionsBound
    <3>5. \A o \in Callers : req'[o].op = "draft" => req'[o].version <= n
      BY <2>3, <2>4, <3>4
    <3>6. QED
      BY <2>1, <3>3, <3>5 DEF VersionsBound
  <2>7. PublishOK'
    <3> SUFFICES ASSUME NEW o \in Callers, req'[o].op = "publish", req'[o].draft \in Rows'
                 PROVE  drafts'[req'[o].draft].weeks # "none"
      BY DEF PublishOK
    <3>1. o # c /\ req'[o] = req[o]
      BY <2>3, <2>4
    <3>2. req[o].draft \in DOMAIN drafts /\ n \notin DOMAIN drafts
      BY <3>1, <1>3 DEF PipeInv, InHand, n
    <3>3. QED
      BY <2>1, <3>1, <3>2 DEF DraftInv, PublishOK
  <2>8. ASSUME ~hasty
        PROVE  OnRows' /\ EmptyIsLast' /\ MintOK'
    <3>1. OnRows /\ EmptyIsLast /\ MintOK
      BY <2>8 DEF DraftInv
    <3>2. /\ Taken(v) \/ (v = 0 /\ Rows = {})
          /\ \A d \in Rows : drafts[d].version <= v /\ drafts[d].weeks # "none"
      BY <1>1, <2>4, <3>1 DEF MintOK, Minting, v
    <3>3. OnRows'
      <4>1. \A o \in Callers :
              /\ req'[o].op = "enqueue" => req'[o].draft \in Rows'
              /\ req'[o].op = "draft" /\ req'[o].reuse => req'[o].draft \in Rows'
        BY <2>1, <2>3, <2>4, <3>1 DEF OnRows
      <4>2. \A d \in DOMAIN merges' : merges'[d].state # "none" => d \in Rows'
        BY <2>1, <2>2, <3>1 DEF OnRows
      <4>3. merger'.at # "idle" =>
              merger'.target = merger'.job /\ merges'[merger'.job].state = "active"
        BY <1>1, <2>2, <3>1 DEF OnRows, PipeInv, AtWork
      <4>4. QED
        BY <4>1, <4>2, <4>3 DEF OnRows
    <3>4. EmptyIsLast'
      <4> SUFFICES ASSUME NEW d \in Rows', NEW e \in Rows', drafts'[d].weeks = "none"
                   PROVE  drafts'[e].version <= drafts'[d].version
        BY DEF EmptyIsLast
      <4>1. d = n
        BY <2>1, <3>2
      <4>2. \A o \in Rows : drafts[o].version <= v + 1
        BY <2>1, <3>2, RowTyped
      <4>3. CASE e = n
        BY <2>1, <4>1, <4>3
      <4>4. CASE e \in Rows
        BY <2>1, <4>1, <4>2, <4>4
      <4>5. QED
        BY <2>1, <4>3, <4>4
    <3>5. MintOK'
      <4> SUFFICES ASSUME NEW o \in Callers, Minting(o)'
                   PROVE  \E e \in Rows' : drafts'[e].version = req'[o].version + 1
        BY DEF MintOK, Taken
      <4>1. o # c /\ req'[o] = req[o] /\ Minting(o)
        BY <2>3, <2>4 DEF Minting
      <4>2. CASE Taken(req[o].version + 1)
        BY <2>1, <4>1, <4>2 DEF Taken
      <4>3. CASE /\ Taken(req[o].version) \/ (req[o].version = 0 /\ Rows = {})
                 /\ \A d \in Rows : drafts[d].version <= req[o].version
        <5>1. req[o].version \in Nat
          BY RowTyped
        <5>2. req[o].version = v
          <6>1. CASE Rows = {}
            BY <3>2, <4>3, <6>1 DEF Taken
          <6>2. CASE Rows # {}
            <7>1. PICK d \in Rows : drafts[d].version = v
              BY <3>2, <6>2 DEF Taken
            <7>2. PICK e \in Rows : drafts[e].version = req[o].version
              BY <4>3, <6>2 DEF Taken
            <7>3. v <= req[o].version /\ req[o].version <= v
              BY <3>2, <4>3, <7>1, <7>2
            <7>4. QED
              BY <2>1, <5>1, <7>3
          <6>3. QED
            BY <6>1, <6>2
        <5>3. QED
          BY <2>1, <4>1, <5>2 DEF Taken
      <4>4. QED
        BY <3>1, <4>1, <4>2, <4>3 DEF MintOK
    <3>6. QED
      BY <3>3, <3>4, <3>5
  <2>9. QED
    BY <1>1, <2>5, <2>6, <2>7, <2>8 DEF DraftInv
<1>4. QED
  BY <1>2, <1>3, CreateDraftOpens

LEMMA QueueMergeDrafts ==
  ASSUME PipeInv, DraftInv, NEW c \in Callers,
         QueueMerge(c)
  PROVE  DraftInv'
<1>1. drafts' = drafts /\ hasty' = hasty
  BY QueueMergeDoes DEF bootVars, history
<1>2. /\ RowsMove
      /\ \A o \in Rows : drafts'[o].status = "PUBLISHED" => drafts'[o].weeks # "none"
  BY <1>1, RowsUnmoved
<1>3. CallsMove
  BY QueueMergeDoes, IdleIs, SMTT(10) DEF CallsMove, Others
<1>4. ~hasty => JobsMove
  BY QueueMergeDoes, SMTT(10) DEF JobsMove, OtherMerges, DraftInv, OnRows, AtWork, PipeInv
<1>5. QED
  BY <1>1, <1>2, <1>3, <1>4, DraftMoves

LEMMA TakeMergeDrafts ==
  ASSUME PipeInv, DraftInv, NEW d \in DOMAIN merges,
         TakeMerge(d)
  PROVE  DraftInv'
<1>1. merges[d].state # "none" /\ req' = req /\ hasty' = hasty /\ TypeOK
  BY TakeMergeDoes DEF PipeInv, bootVars, history
<1>2. CallsMove
  BY <1>1 DEF CallsMove
<1>3. ASSUME drafts' = drafts
      PROVE  /\ RowsMove
             /\ \A o \in Rows : drafts'[o].status = "PUBLISHED" => drafts'[o].weeks # "none"
  BY <1>1, <1>3 DEF RowsMove, TypeOK, DraftInv, RowsOK
<1>4. CASE /\ d \in Rows /\ drafts' = drafts /\ OtherMerges(d) /\ merges'[d].state = "active"
           /\ merger' = [job |-> d, target |-> d, at |-> "assign"]
  <2>1. JobsMove
    BY <1>4 DEF JobsMove, OtherMerges
  <2>2. QED
    BY <1>1, <1>2, <1>3, <1>4, <2>1, DraftMoves
<1>5. CASE d \notin Rows /\ drafts' = drafts
  <2>1. hasty
    BY <1>1, <1>5 DEF DraftInv, OnRows
  <2>2. QED
    BY <1>1, <1>2, <1>3, <1>5, <2>1, DraftMoves
<1>6. ASSUME d \notin Rows, ~Taken(1), NEW ids, NEW m, Opened(1, ids, m)
      PROVE  DraftInv'
  <2>1. hasty'
    BY <1>1, <1>6 DEF DraftInv, OnRows
  <2> DEFINE n == Len(drafts) + 1
  <2>2. Opened(0 + 1, ids, m)
    BY <1>6
  <2>3. /\ Rows' = Rows \cup {n} /\ n \notin Rows
        /\ drafts'[n].version = 1 /\ drafts'[n].status = "DRAFT"
        /\ \A e \in Rows : drafts'[e] = drafts[e]
        /\ Len(drafts') = n /\ n \in Nat /\ Len(drafts) \in Nat
    BY <2>2, RowsOpened
  <2>4. RowsOK'
    BY <1>6, <2>3 DEF RowsOK, DraftInv, Taken
  <2>5. VersionsBound'
    <3>1. \A e \in Rows : drafts[e].version \in Nat /\ drafts[e].version <= Len(drafts)
      BY RowTyped DEF DraftInv, VersionsBound
    <3>2. \A e \in Rows' : drafts'[e].version <= n
      BY <2>3, <3>1
    <3>3. \A o \in Callers : req'[o].op = "draft" => req'[o].version <= n
      BY <1>1, <2>3, RowTyped DEF DraftInv, VersionsBound
    <3>4. QED
      BY <2>3, <3>2, <3>3 DEF VersionsBound
  <2>6. PublishOK'
    <3> SUFFICES ASSUME NEW o \in Callers, req'[o].op = "publish", req'[o].draft \in Rows'
                 PROVE  drafts'[req'[o].draft].weeks # "none"
      BY DEF PublishOK
    <3>1. req[o].draft \in DOMAIN drafts /\ n \notin DOMAIN drafts
      BY <1>1, <2>2 DEF PipeInv, InHand, Opened
    <3>2. QED
      BY <1>1, <2>3, <3>1 DEF DraftInv, PublishOK
  <2>7. QED
    BY <2>1, <2>4, <2>5, <2>6 DEF DraftInv
<1>7. QED
  BY <1>4, <1>5, <1>6, TakeMergeDoes

LEMMA AssignIdsDrafts ==
  ASSUME PipeInv, DraftInv, AssignIds
  PROVE  DraftInv'
<1>1. TypeOK /\ req' = req /\ hasty' = hasty
  BY AssignIdsDoes DEF PipeInv, bootVars, history
<1>2. CallsMove
  BY <1>1 DEF CallsMove
<1>3. CASE /\ merger.target \in Rows /\ OtherRows(merger.target) /\ SameDraft(merger.target)
           /\ merges' = merges /\ merger' = [merger EXCEPT !.at = "read"]
  <2>1. /\ RowsMove
        /\ \A d \in Rows : drafts'[d].status = "PUBLISHED" => drafts'[d].weeks # "none"
    BY <1>1, <1>3 DEF RowsMove, OtherRows, SameDraft, Rows, DraftInv, RowsOK
  <2>2. /\ merger'.at = "read" /\ merger'.job = merger.job /\ merger'.target = merger.target
    BY <1>1, <1>3, MergerGoes DEF TypeOK
  <2>3. ~hasty => JobsMove
    BY <1>3, <2>2, AssignIdsDoes DEF JobsMove, DraftInv, OnRows
  <2>4. QED
    BY <1>1, <1>2, <2>1, <2>3, DraftMoves
<1>4. CASE /\ merger.target \notin Rows /\ drafts' = drafts
           /\ OtherMerges(merger.job) /\ merger' = Unmerging
  <2>1. ~hasty => JobsMove
    BY <1>4, AssignIdsDoes, UnmergingIs DEF JobsMove, OtherMerges, DraftInv, OnRows
  <2>2. QED
    BY <1>1, <1>2, <1>4, <2>1, RowsUnmoved, DraftMoves
<1>5. QED
  BY <1>3, <1>4, AssignIdsDoes

LEMMA ReadSourcesDrafts ==
  ASSUME PipeInv, DraftInv, ReadSources
  PROVE  DraftInv'
<1>1. TypeOK /\ req' = req /\ hasty' = hasty /\ drafts' = drafts
  BY ReadSourcesDoes DEF PipeInv, bootVars, history
<1>2. CallsMove
  BY <1>1 DEF CallsMove
<1>3. ASSUME ~hasty
      PROVE  JobsMove
  <2>1. CASE merges' = merges /\ merger' = [merger EXCEPT !.at = "commit"]
    <3>1. /\ merger'.at = "commit" /\ merger'.job = merger.job
          /\ merger'.target = merger.target
      BY <1>1, <2>1, MergerGoes DEF TypeOK
    <3>2. QED
      BY <1>3, <2>1, <3>1, ReadSourcesDoes DEF JobsMove, DraftInv, OnRows
  <2>2. CASE OtherMerges(merger.job) /\ merger' = Unmerging
    BY <1>3, <2>2, ReadSourcesDoes, UnmergingIs
      DEF JobsMove, OtherMerges, DraftInv, OnRows
  <2>3. QED
    BY <2>1, <2>2, ReadSourcesDoes
<1>4. QED
  BY <1>1, <1>2, <1>3, RowsUnmoved, DraftMoves

LEMMA CommitMergeDrafts ==
  ASSUME PipeInv, DraftInv, CommitMerge
  PROVE  DraftInv'
<1>1. drafts \in Seq(Draft) /\ hasty' = hasty
  BY CommitMergeDoes DEF PipeInv, TypeOK, bootVars, history
<1>2. /\ RowsMove
      /\ \A o \in Rows : drafts'[o].status = "PUBLISHED" => drafts'[o].weeks # "none"
  BY <1>1, CommitMergeDoes, SMTT(10) DEF RowsMove, OtherRows, Rows, DraftInv, RowsOK
<1>3. CallsMove
  BY CommitMergeDoes, UnmergingIs, SMTT(10) DEF CallsMove, Callers
<1>4. ~hasty => JobsMove
  BY CommitMergeDoes, UnmergingIs, SMTT(10) DEF JobsMove, OtherMerges, DraftInv, OnRows
<1>5. QED
  BY <1>1, <1>2, <1>3, <1>4, DraftMoves

LEMMA MergeFailsDrafts ==
  ASSUME PipeInv, DraftInv, MergeFails
  PROVE  DraftInv'
<1>1. drafts' = drafts /\ hasty' = hasty
  BY MergeFailsDoes, UnmergingIs, Zenon DEF bootVars, history
<1>2. /\ RowsMove
      /\ \A o \in Rows : drafts'[o].status = "PUBLISHED" => drafts'[o].weeks # "none"
  BY <1>1, RowsUnmoved
<1>3. CallsMove
  BY MergeFailsDoes, UnmergingIs, SMTT(10) DEF CallsMove, Callers
<1>4. ~hasty => JobsMove
  BY MergeFailsDoes, UnmergingIs, SMTT(10) DEF JobsMove, OtherMerges, DraftInv, OnRows
<1>5. QED
  BY <1>1, <1>2, <1>3, <1>4, DraftMoves

LEMMA PublishReadDrafts ==
  ASSUME PipeInv, DraftInv, NEW r \in Requests, NEW d \in DOMAIN drafts,
         PublishRead(r, d)
  PROVE  DraftInv'
<1>1. UNCHANGED <<draftVars, hasty>>
  BY PublishReadDoes DEF bootVars, history, PipeInv
<1>2. CallsMove
  BY PublishReadDoes, SMTT(10) DEF CallsMove, Others, PipeInv
<1>3. QED
  BY <1>1, <1>2, DraftFrame

LEMMA PublishMarkDrafts ==
  ASSUME PipeInv, DraftInv, NEW r \in Requests,
         PublishMark(r)
  PROVE  DraftInv'
<1>1. /\ req[r].op = "publish" /\ Others(r) /\ req'[r].op = "idle" /\ TypeOK
      /\ UNCHANGED <<merges, merger>> /\ hasty' = hasty /\ r \in Callers
  BY PublishMarkDoes, IdleIs DEF PipeInv, bootVars, history, Callers
<1>2. CallsMove
  BY <1>1 DEF CallsMove, Others
<1>3. ~hasty => JobsMove
  BY <1>1 DEF JobsMove, DraftInv, OnRows
<1>4. CASE drafts' = drafts
  BY <1>1, <1>2, <1>3, <1>4, RowsUnmoved, DraftMoves
<1>5. CASE /\ req[r].draft \in Rows /\ OtherRows(req[r].draft)
           /\ drafts'[req[r].draft].version = drafts[req[r].draft].version
           /\ drafts'[req[r].draft].status = "PUBLISHED"
           /\ drafts'[req[r].draft].weeks = drafts[req[r].draft].weeks
  <2>1. drafts[req[r].draft].weeks # "none"
    BY <1>1, <1>5 DEF DraftInv, PublishOK
  <2>2. RowsMove
    BY <1>5 DEF RowsMove, OtherRows, Rows
  <2>3. \A d \in Rows : drafts'[d].status = "PUBLISHED" => drafts'[d].weeks # "none"
    BY <1>5, <2>1 DEF OtherRows, Rows, DraftInv, RowsOK
  <2>4. QED
    BY <1>1, <1>2, <1>3, <2>2, <2>3, DraftMoves
<1>6. QED
  BY <1>4, <1>5, PublishMarkDoes

LEMMA UnpublishDrafts ==
  ASSUME PipeInv, DraftInv, NEW d \in DOMAIN drafts,
         Unpublish(d)
  PROVE  DraftInv'
<1>1. drafts \in Seq(Draft) /\ hasty' = hasty
  BY UnpublishDoes DEF PipeInv, TypeOK, bootVars, history
<1>2. /\ RowsMove
      /\ \A o \in Rows : drafts'[o].status = "PUBLISHED" => drafts'[o].weeks # "none"
  BY <1>1, UnpublishDoes, SMTT(10) DEF RowsMove, OtherRows, Rows, DraftInv, RowsOK
<1>3. CallsMove
  BY UnpublishDoes, SMTT(10) DEF CallsMove, Callers
<1>4. ~hasty => JobsMove
  BY UnpublishDoes, SMTT(10) DEF JobsMove, DraftInv, OnRows
<1>5. QED
  BY <1>1, <1>2, <1>3, <1>4, DraftMoves

LEMMA DeleteDraftDrafts ==
  ASSUME PipeInv, DraftInv, NEW d \in DOMAIN drafts,
         DeleteDraft(d)
  PROVE  DraftInv'
<1>1. /\ d \in Rows /\ OtherRows(d) /\ drafts'[d].status = "deleted"
      /\ hasty' = (hasty \/ Consolidating(d)) /\ UNCHANGED <<merges, merger, req>>
  BY DeleteDraftDoes
<1>2. /\ Rows' = Rows \ {d} /\ \A e \in Rows' : drafts'[e] = drafts[e]
      /\ Len(drafts') = Len(drafts)
  BY <1>1 DEF OtherRows, Rows
<1>3. RowsOK' /\ VersionsBound' /\ PublishOK'
  BY <1>1, <1>2 DEF DraftInv, RowsOK, VersionsBound, PublishOK
<1>4. ASSUME ~hasty'
      PROVE  OnRows' /\ EmptyIsLast' /\ MintOK'
  <2>1. ~hasty /\ ~Consolidating(d)
    BY <1>1, <1>4
  <2>2. OnRows /\ EmptyIsLast
    BY <2>1 DEF DraftInv
  <2>3. merges[d].state = "none" /\ \A c \in Callers : req[c].op \notin {"draft", "enqueue"}
    BY <2>1 DEF Consolidating
  <2>4. OnRows'
    BY <1>1, <1>2, <2>2, <2>3 DEF OnRows
  <2>5. EmptyIsLast'
    BY <1>2, <2>2 DEF EmptyIsLast
  <2>6. MintOK'
    BY <1>1, <2>3 DEF MintOK, Minting
  <2>7. QED
    BY <2>4, <2>5, <2>6
<1>5. QED
  BY <1>3, <1>4 DEF DraftInv

LEMMA EditTopicsDrafts ==
  ASSUME PipeInv, DraftInv, NEW d \in DOMAIN drafts, NEW weeks \in Weeks \ {"none"},
         EditTopics(d, weeks)
  PROVE  DraftInv'
<1>1. drafts \in Seq(Draft) /\ hasty' = hasty
  BY EditTopicsDoes DEF PipeInv, TypeOK, bootVars, history
<1>2. /\ RowsMove
      /\ \A o \in Rows : drafts'[o].status = "PUBLISHED" => drafts'[o].weeks # "none"
  BY <1>1, EditTopicsDoes, SMTT(10) DEF RowsMove, OtherRows, Rows, DraftInv, RowsOK
<1>3. CallsMove
  BY EditTopicsDoes, SMTT(10) DEF CallsMove, Callers
<1>4. ~hasty => JobsMove
  BY EditTopicsDoes, SMTT(10) DEF JobsMove, DraftInv, OnRows
<1>5. QED
  BY <1>1, <1>2, <1>3, <1>4, DraftMoves

LEMMA CrashDrafts ==
  ASSUME PipeInv, DraftInv, Crash
  PROVE  DraftInv'
<1>1. drafts' = drafts /\ hasty' = hasty
  BY CrashDoes, IdleIs, RestingIs, UnmergingIs, Zenon
<1>2. /\ RowsMove
      /\ \A o \in Rows : drafts'[o].status = "PUBLISHED" => drafts'[o].weeks # "none"
  BY <1>1, RowsUnmoved
<1>3. CallsMove
  BY CrashDoes, IdleIs, SMTT(10) DEF CallsMove
<1>4. ~hasty => JobsMove
  BY CrashDoes, UnmergingIs, SMTT(10) DEF JobsMove
<1>5. QED
  BY <1>1, <1>2, <1>3, <1>4, DraftMoves

LEMMA RestartDrafts ==
  ASSUME PipeInv, DraftInv, Restart
  PROVE  DraftInv'
<1>1. UNCHANGED <<draftVars, hasty>>
  BY Zenon DEF Restart, draftVars, history, PipeInv
<1>2. CallsMove
  BY SMTT(10) DEF Restart, CallsMove
<1>3. QED
  BY <1>1, <1>2, DraftFrame

LEMMA FailGhostsDrafts ==
  ASSUME PipeInv, DraftInv, FailGhosts
  PROVE  DraftInv'
<1>1. drafts' = drafts /\ hasty' = hasty
  BY FailGhostsDoes, Zenon DEF history
<1>2. /\ RowsMove
      /\ \A o \in Rows : drafts'[o].status = "PUBLISHED" => drafts'[o].weeks # "none"
  BY <1>1, RowsUnmoved
<1>3. CallsMove
  BY FailGhostsDoes, SMTT(10) DEF CallsMove, Callers
<1>4. ~hasty => JobsMove
  BY FailGhostsDoes, SMTT(10) DEF JobsMove, DraftInv, OnRows, AtWork, PipeInv
<1>5. QED
  BY <1>1, <1>2, <1>3, <1>4, DraftMoves

LEMMA ResetParsingDrafts ==
  ASSUME PipeInv, DraftInv, ResetParsing
  PROVE  DraftInv'
<1>1. UNCHANGED <<draftVars, hasty>>
  BY Zenon DEF ResetParsing, draftVars, history, PipeInv
<1>2. CallsMove
  BY SMTT(10) DEF ResetParsing, CallsMove
<1>3. QED
  BY <1>1, <1>2, DraftFrame

LEMMA DrainQueueDrafts ==
  ASSUME PipeInv, DraftInv, DrainQueue
  PROVE  DraftInv'
<1>1. UNCHANGED <<draftVars, hasty>>
  BY Zenon DEF DrainQueue, draftVars, history, PipeInv
<1>2. CallsMove
  BY SMTT(10) DEF DrainQueue, CallsMove
<1>3. QED
  BY <1>1, <1>2, DraftFrame

LEMMA RequeueSourceDrafts ==
  ASSUME PipeInv, DraftInv, NEW s \in Sources,
         RequeueSource(s)
  PROVE  DraftInv'
<1>1. UNCHANGED <<draftVars, hasty>>
  BY RequeueSourceDoes, Zenon DEF draftVars, history, PipeInv
<1>2. CallsMove
  BY RequeueSourceDoes, SMTT(10) DEF CallsMove
<1>3. QED
  BY <1>1, <1>2, DraftFrame

LEMMA StalledParseDrafts ==
  ASSUME PipeInv, DraftInv, NEW s \in Sources, NEW m \in Made,
         StalledParse(s, m)
  PROVE  DraftInv'
<1>1. UNCHANGED <<draftVars, hasty, req>>
  BY DEF StalledParse, bootVars, history
<1>2. CallsMove
  BY <1>1 DEF CallsMove
<1>3. QED
  BY <1>1, <1>2, DraftFrame

LEMMA StalledMergeDrafts ==
  ASSUME PipeInv, DraftInv, NEW d \in DOMAIN merges,
         StalledMerge(d)
  PROVE  DraftInv'
<1>1. drafts' = drafts /\ hasty' = hasty
  BY StalledMergeDoes, Zenon DEF bootVars, history
<1>2. /\ RowsMove
      /\ \A o \in Rows : drafts'[o].status = "PUBLISHED" => drafts'[o].weeks # "none"
  BY <1>1, RowsUnmoved
<1>3. CallsMove
  BY StalledMergeDoes, SMTT(10) DEF CallsMove, Callers
<1>4. ~hasty => JobsMove
  BY StalledMergeDoes, SMTT(10)
    DEF JobsMove, OtherMerges, DraftInv, OnRows, AtWork, PipeInv
<1>5. QED
  BY <1>1, <1>2, <1>3, <1>4, DraftMoves

LEMMA DraftInit == Init => DraftInv
<1> SUFFICES ASSUME Init PROVE DraftInv
  OBVIOUS
<1>1. Rows = {} /\ merges = << >> /\ \A c \in Callers : req[c] = Idle
  BY DEF Init, Rows
<1>2. merger.at = "idle" /\ DOMAIN merges = {}
  BY <1>1, UnmergingIs DEF Init
<1>3. RowsOK /\ VersionsBound /\ PublishOK
  BY <1>1, IdleIs DEF RowsOK, VersionsBound, PublishOK
<1>4. OnRows /\ EmptyIsLast /\ MintOK
  BY <1>1, <1>2, IdleIs DEF OnRows, EmptyIsLast, MintOK
<1>5. QED
  BY <1>3, <1>4 DEF DraftInv

LEMMA DraftStutter ==
  ASSUME PipeInv, DraftInv, UNCHANGED vars
  PROVE  DraftInv'
<1>1. UNCHANGED <<draftVars, hasty, req>>
  BY DEF vars, bootVars, history
<1>2. CallsMove
  BY <1>1 DEF CallsMove
<1>3. QED
  BY <1>1, <1>2, DraftFrame

LEMMA DraftNext ==
  ASSUME PipeInv, DraftInv, [Next]_vars
  PROVE  DraftInv'
<1>1. ASSUME NEW r \in Requests, NEW s \in Sources, CreateSource(r, s)
      PROVE  DraftInv'
  BY <1>1, CreateSourceDrafts
<1>2. ASSUME NEW r \in Requests, AddSourceJob(r)
      PROVE  DraftInv'
  BY <1>2, AddSourceJobDrafts
<1>3. ASSUME NEW r \in Requests, NEW s \in Sources, RetryRead(r, s)
      PROVE  DraftInv'
  BY <1>3, RetryReadDrafts
<1>4. ASSUME NEW r \in Requests, RetryMark(r)
      PROVE  DraftInv'
  BY <1>4, RetryMarkDrafts
<1>5. ASSUME NEW r \in Requests, NEW s \in Sources, CancelRead(r, s)
      PROVE  DraftInv'
  BY <1>5, CancelReadDrafts
<1>6. ASSUME NEW r \in Requests, CancelJob(r)
      PROVE  DraftInv'
  BY <1>6, CancelJobDrafts
<1>7. ASSUME NEW r \in Requests, CancelMark(r)
      PROVE  DraftInv'
  BY <1>7, CancelMarkDrafts
<1>8. ASSUME NEW r \in Requests, NEW s \in Sources, DeleteRead(r, s)
      PROVE  DraftInv'
  BY <1>8, DeleteReadDrafts
<1>9. ASSUME NEW r \in Requests, DeleteRow(r)
      PROVE  DraftInv'
  BY <1>9, DeleteRowDrafts
<1>10. ASSUME NEW s \in Sources, NEW m \in Made, TakeJob(s, m)
      PROVE  DraftInv'
  BY <1>10, TakeJobDrafts
<1>11. CASE MarkParsing
  BY <1>11, MarkParsingDrafts
<1>12. CASE StoreParsed
  BY <1>12, StoreParsedDrafts
<1>13. CASE ParseFails
  BY <1>13, ParseFailsDrafts
<1>14. CASE AutoConsolidate
  BY <1>14, AutoConsolidateDrafts
<1>15. ASSUME NEW r \in Requests, NEW ids \in SUBSET Sources, NEW force \in BOOLEAN,
              ConsolidateRead(r, ids, force)
      PROVE  DraftInv'
  BY <1>15, ConsolidateReadDrafts
<1>16. ASSUME NEW c \in Callers, ReadLatest(c)
      PROVE  DraftInv'
  BY <1>16, ReadLatestDrafts
<1>17. ASSUME NEW c \in Callers, ReuseDraft(c)
      PROVE  DraftInv'
  BY <1>17, ReuseDraftDrafts
<1>18. ASSUME NEW c \in Callers, CreateDraft(c)
      PROVE  DraftInv'
  BY <1>18, CreateDraftDrafts
<1>19. ASSUME NEW c \in Callers, QueueMerge(c)
      PROVE  DraftInv'
  BY <1>19, QueueMergeDrafts
<1>20. ASSUME NEW d \in DOMAIN merges, TakeMerge(d)
      PROVE  DraftInv'
  BY <1>20, TakeMergeDrafts
<1>21. CASE AssignIds
  BY <1>21, AssignIdsDrafts
<1>22. CASE ReadSources
  BY <1>22, ReadSourcesDrafts
<1>23. CASE CommitMerge
  BY <1>23, CommitMergeDrafts
<1>24. CASE MergeFails
  BY <1>24, MergeFailsDrafts
<1>25. ASSUME NEW r \in Requests, NEW d \in DOMAIN drafts, PublishRead(r, d)
      PROVE  DraftInv'
  BY <1>25, PublishReadDrafts
<1>26. ASSUME NEW r \in Requests, PublishMark(r)
      PROVE  DraftInv'
  BY <1>26, PublishMarkDrafts
<1>27. ASSUME NEW d \in DOMAIN drafts, Unpublish(d)
      PROVE  DraftInv'
  BY <1>27, UnpublishDrafts
<1>28. ASSUME NEW d \in DOMAIN drafts, DeleteDraft(d)
      PROVE  DraftInv'
  BY <1>28, DeleteDraftDrafts
<1>29. ASSUME NEW d \in DOMAIN drafts, NEW weeks \in Weeks \ {"none"}, EditTopics(d, weeks)
      PROVE  DraftInv'
  BY <1>29, EditTopicsDrafts
<1>30. CASE Crash
  BY <1>30, CrashDrafts
<1>31. CASE Restart
  BY <1>31, RestartDrafts
<1>32. CASE FailGhosts
  BY <1>32, FailGhostsDrafts
<1>33. CASE ResetParsing
  BY <1>33, ResetParsingDrafts
<1>34. CASE DrainQueue
  BY <1>34, DrainQueueDrafts
<1>35. ASSUME NEW s \in Sources, RequeueSource(s)
      PROVE  DraftInv'
  BY <1>35, RequeueSourceDrafts
<1>36. ASSUME NEW s \in Sources, NEW m \in Made, StalledParse(s, m)
      PROVE  DraftInv'
  BY <1>36, StalledParseDrafts
<1>37. ASSUME NEW d \in DOMAIN merges, StalledMerge(d)
      PROVE  DraftInv'
  BY <1>37, StalledMergeDrafts
<1>38. CASE UNCHANGED vars
  BY <1>38, DraftStutter
<1>39. CASE \E r \in Requests : AskOfSource(r)
  BY <1>39, <1>3, <1>5, <1>8 DEF AskOfSource
<1>40. CASE \E r \in Requests : AskOfDraft(r)
  BY <1>40, <1>15, <1>25 DEF AskOfDraft
<1>41. CASE EditDraft
  BY <1>41, <1>27, <1>28, <1>29 DEF EditDraft
<1>42. CASE \E r \in Requests : Continue(r)
  BY <1>42, <1>2, <1>4, <1>6, <1>7, <1>9, <1>26 DEF Continue
<1>43. CASE \E c \in Callers : Enqueue(c)
  BY <1>43, <1>16, <1>17, <1>18, <1>19 DEF Enqueue
<1>44. CASE Parse
  BY <1>44, <1>10, <1>11, <1>12, <1>13, <1>14 DEF Parse, Made
<1>45. CASE MergeStep
  BY <1>45, <1>20, <1>21, <1>22, <1>23, <1>24 DEF MergeStep
<1>46. CASE Boot
  BY <1>46, <1>31, <1>32, <1>33, <1>34, <1>35 DEF Boot
<1>47. CASE Stalled
  BY <1>47, <1>36, <1>37 DEF Stalled, Made
<1>48. QED
  BY <1>1, <1>30, <1>38, <1>39, <1>40, <1>41, <1>42, <1>43, <1>44, <1>45, <1>46, <1>47
    DEF Next, Proceeding

\* As long as no draft is deleted under its consolidation, createDraft never
\* leaves two drafts without topics, whichever administrators and workers read the
\* latest version at once: the unique index refuses the second.
THEOREM PipelineOneEmptyDraft == Spec => []OneEmptyDraft
BY PipeInit, PipeNext, DraftInit, DraftNext, OneIsEmpty, PTL DEF Spec
=============================================================================
