# Verification of the school platform's backend

A TLA+ development kept beside the code in `src/`: models of the parts of the
backend whose correctness depends on the order of things, TLC runs that check
them on small instances, and TLAPS proofs of the main safety properties for
every size. References of the form `file.ts:123` are to files below `src/src/`.

1. [The system](#1-the-system) – 2. [How the code is modelled](#2-how-the-code-is-modelled) –
3. [Modules](#3-modules) – 4. [Runs](#4-runs) – 5. [Fairness](#5-fairness) –
6. [Proofs](#6-proofs) – 7. [Findings](#7-findings) –
8. [What is not modelled](#8-what-is-not-modelled) – 9. [Plan](#9-plan)

## 1. The system

A NestJS application serves many schools from one PostgreSQL database (Prisma),
with Redis and BullMQ for background jobs, Paystack for payments, and language
models for generated content. One Node process runs HTTP handlers, queue workers
and cron jobs on one event loop; several instances may share the database.

Nothing in the services takes a row lock or puts a condition on a write. A handler
reads, decides, and writes *by id*, each query a separate statement at READ
COMMITTED unless it is in a `$transaction`. So what is hard to test here is nearly
always the same: another handler, a worker, a webhook or a restart gets between a
read and the write that relies on it.

| component | state | operations | hard behaviour | correct when |
|---|---|---|---|---|
| Student transfers (`transfers/`) | `Transfer`, `Enrollment` | generate, initiate, complete, reject, revoke; closure codes by a job or on request | stale reads before writes by id; a job run again; a unique index that ignores null terms | a student is always enrolled somewhere; a code is used once; every move is traceable |
| School lifecycle (`schools/lifecycle/`) | the lifecycle columns of `School`, `school-lifecycle-queue` | schedule, cancel, apply, reactivate; hourly sweep | a delayed job known by its id, removals that fail silently, crashes between write and queueing | the announced date is kept; an overdue close is settled; closing issues codes |
| Payments (`payments/`) | `SubscriptionPayment`, `PaymentIdempotency` | initialise, verify, webhooks | webhooks repeated, late, out of order; four writes that are not one transaction | one payment buys one period |
| Subscription billing (`subscriptions/subscription-billing*`) | `Subscription`, `billingLocked`, `billingSuspended` | daily job, self-heal, failed renewal, lock, renewal, downgrade | stale snapshots, renewal against downgrade | a paid school is not blocked; locks only on the free tier |
| Subscriptions and credits (`subscriptions/subscriptions.service.ts`, `subscriptions/plans/`) | `aiCredits`, `aiCreditsUsed`, plans, tool access | use, refund, top-up, renew with roll-over, edit a plan, limits | check and increment apart, refund from a stale read | credits left are those bought less those used |
| Scheme generation (`schools/curriculum/`, `ai/ai-curriculum-pipeline`) | `SchemeOfWork`, its queue | setup, cancel, generate, retry, refund | work queued before its row is committed; cancel against a running attempt; retry after a refund | one live scheme in a slot; refunded at most once; every generation that is answered ends |
| Schemes in the term (`schools/scheme-of-work/`, `scheme-spine.service.ts`) | `SchemeOfWorkWeek` with topics and deliveries | store packed weeks, reorder, mark, unmark, skip, combine | weeks stored one by one; a lock read before the transaction; two ways to count the weeks of a term | the weeks cover the calendar; a taught week keeps its place; none is marked before its dates |
| Curriculum library (`agora-curriculum/`) | sources, drafts, topics, `curriculum-processing` queue | upload, parse, cancel, delete, retry, consolidate, edit, publish, reconcile at start-up | a queue drained while workers and requests use it; read-then-write of the latest draft; a model that answers anything | what waits is taken, what is parsed keeps a job, one empty draft, a consolidated year is complete |
| Sessions and terms (`sessions/`) | `AcademicSession`, `Term`, `Enrollment` | start, end, reactivate, promote, carry over | a migration of many rows without a transaction | one active session and term; nobody drops off the roll |
| Students and admission (`students/`) | student profiles, `AdmissionApplication` | add, apply, approve, reject | limits counted apart from the insert | within the seats of the plan; who left stays away |
| Timetables (`timetable/`) | `TimetablePeriod`, `ClassTeacher` | create, change, delete, replace, master schedule, curator | a conflict check apart from the write, writes that skip it | no class, and no teacher, is booked twice |
| Assessments (`assessments/`, `grades/`) | `Assessment`, `AssessmentSubmission`, `Grade` | start, log a violation, submit, grade, delete | two tabs; a timer kept by the server; answers marked by a model between check and write | the timer starts once; what was handed in stays; points are taken for violations on record only |
| Events (`events/`, `integrations/google-calendar/`) | `Event`, the copy at Google, tokens | create, change, delete, sync, connect | the sync goes on after the answer | the copy follows the event |
| Knowledge index (`school-settings/`, `ai/vector*`) | documents, embeddings, `vector-queue` | upload, embed, retry, nightly query, delete | a row and its job written apart, attempts that run out | every document is indexed or deleted |
| Registration and portals (`portals/`, `schools/public/`, `schools/super-admin/`) | `School.slug`, its hold, `SchoolSlugRedirect`, `registrationStatus` | register, verify, reject, rename, resolve | an address looked up in two tables and written later; a hold that runs out | an address never leads to another school |
| Campaigns (`engagement/`) | `Campaign`, `NotificationLog`, `retention-queue` | create, activate, delete, dispatch | row, event and job apart; a dispatch that dies half way | an owner is written to once |
| Lois | pending plans | propose, confirm, apply | – | not modelled, see section 8 |
| Classes, staff, attendance | one table each | create, update, list | – | not modelled, see section 8 |
| Sign-in, notification, e-mail, storage, export, backup, operations | short-lived or external | – | – | not modelled, see section 8 |

The parts meet in three places. Closing a school queues the job that issues closure
codes, and reactivating does not withdraw it: `SchoolClosure` is that interface, which
`Transfers` is written against and `SchoolLifecycle` is checked to implement. Billing
and transfers both write `Enrollment.isActive`, and so do admissions and migrations:
`SchoolRoll` composes admission, transfers and billing on the roll of one school, and
`Sessions` has an admission beside its migrations. Scheme generation spends the credits
that a renewal resets: `CreditPool` has uses and refunds meet renewals and top-ups.

`PROJECT.json` lists all components with their files, the hazards with their lines
and the properties that cover them, and for every definition the lines it models.

## 2. How the code is modelled

* **One action per await.** A handler is split where another one can get between:
  each query, transaction, or call to the queue or Paystack is an action. What the
  handler has read is in `req[...]` (or `work`, `fail`, `date`) until the write that
  uses it, which writes exactly what the code writes, by id, with no condition of its
  own. A transaction is one action, unless it uses a second connection or queues a
  job inside, as the scheme setup does.
* **Errors.** A handler that throws or returns early ends (`Finish`). `Fault`, `Crash`,
  `Interrupt` and `Restart` cut handlers off between any two steps and keep what is committed; a
  BullMQ job that was running is found stalled and taken again.
* **Tables** with ids in order of creation are sequences; others are functions or sets.
  A unique index is a guard on the insert, with what PostgreSQL does about nulls and
  about rows not yet committed.
* **Time** is a counter (`now`, in days or in parts of the week's delay) or, for an expiry that only
  ever passes, a Boolean.
* **History variables** (`clean`, `applied`, `refunded`, ...) only record; no guard of
  the code's actions reads them. `clean` says that no two handlers have overlapped, so
  that properties the code keeps only then can be stated for exactly those behaviours,
  in a model that still has all the others.
* **Abstracted**: names, texts, prices in detail, e-mails, notifications, audit logs
  and log lines, authorisation, and the digits of codes, which are their rows' ids.

## 3. Modules

| module | what it is |
|---|---|
| `Transfers` | the transfer service |
| `Custody` | what the service promises about where a student is; `Transfers` implements it (`ImplementsCustody`) |
| `TransfersInTurn` | `Transfers` with a history variable, `alone`, for what holds while handlers do not overlap |
| `MCTransfers` | an instance for TLC: one student, three schools, symmetry |
| `SchoolLifecycle` | closing and reopening one school |
| `SchoolClosure` | the interface between the two above |
| `CloseProtocol` | what the notices to a closing school promise |
| `Billing`, and `MCBilling` for TLC | payments, billing phases, downgrade of one school |
| `SubscriptionContract` | what a subscription promises |
| `SchemeGeneration` | setup, worker, failure listener, refund and cancel of paid schemes |
| `Sessions` | sessions, terms, and the migrations of students between them |
| `CurriculumPipeline` | the library's sources and drafts, their queue and its start-up |
| `FullYear` | the topics of one yearly document under consolidation and edits |
| `Timetable` | the weekly timetable of the arms of a school, and the curator |
| `SchoolRoll` | the roll of one school: admission, transfers, locks and renewals |
| `Assessments` | one assessment a student sits: the clock, violations, hand-in, grading |
| `CreditPool` | the AI credits of one subscription |
| `CalendarSync` | one event and its copy in a Google calendar |
| `KnowledgeIndex` | a document of the knowledge base, its jobs and the nightly query |
| `SchemeWeeks` | the weeks of one scheme: laid on the calendar, reordered, marked as taught |
| `Portals` | registration of schools and the addresses of their portals |
| `Campaigns` | a campaign's row, event, job and log |
| `MCScheme` (generation, weeks), `MCCurriculum` (sources and drafts, a year's topics), `MCQueues` (closing, index), `MCOffice` (timetable, roll, paper, credits, calendar, sessions), `MCPlatform` (billing, portals, campaigns) | instances for TLC; each chooses at the start which of its parts a behaviour is about (`focus`, `subject`), as the parts share no table |
| `TableFacts`, `Transfers_proofs`, `SchoolLifecycle_proofs`, `Year_proofs` (sessions, migrations, weeks of a scheme), `Platform_proofs` (billing, portals, campaigns), `Office_proofs` (roll, credits, calendar), `Classroom_proofs` (papers, timetable, scheme generation), `Curriculum_proofs` (sources and drafts, a year's topics) | lemmas on tables, and the proofs |

**Transfers.** `transfers` and `enrollments` are the tables, `req[r]` the handler in
flight as request `r`. `GenerateRead/Write` is `generateTac`; `InitiateRead/Write` is
`initiateTransfer`; `CompleteRead`, `CompleteData`, `CompleteTx`, `CompleteRollback` are
the check, the reading of the student's data, the transaction and its failure on the
unique index in `completeTransfer`; then `RejectRead/Write`, `RevokeRead/Write`;
`ClosureRequest` and `IssueStart/Check/Create/Done` are `ensureClosureTac` asked for by a
student and by the job; `Expire` is time. The `AUTO_ACCEPT` setting calls
`completeTransfer` from `initiateTransfer`, which is a request after a request here.

**SchoolLifecycle.** `life`, `isActive`, `closesAt` are columns, `job` is the delayed
job under its id, which BullMQ keeps after it ran and then ignores an `add` of the same
id, `pc` is the step each handler is at, `issues` the issuing jobs waiting. The module is
about one school since row, job and query are all keyed by it.

**Billing.** `Initialize`, `Charge`, `ChargePlan` are the initialisation and what
happens at Paystack; `PayRead`, `PayMark`, `PayRenew`, `PayRecord`, `PaySync` are the
steps of `handleSuccessfulPayment`, run by the webhook (`Hook`) and by `verifyPayment`;
`DailyRead/Write` is the daily job, a snapshot and then a write by id; `UiRead/Write` the
self-heal; `FailRead/Write`, `ChargeFailed`, `Lock` the other webhooks; `DowngradeRead`,
`DowngradeTx`, `DowngradeSync` the fall-back to the free tier.

**SchemeGeneration.** `SetupRead` to `SetupCommit` is `setupSchemeOfWork`, whose
deduction is outside its transaction and whose job is queued before the commit; `WorkTake`
to `WorkGenerate` is the worker, of which `NoWeeks` is an answer without weeks: the job completes and
the scheme stays GENERATING; `FailRead` to `FailMark` is the `failed` listener, which
BullMQ calls when it has already scheduled the retry, so `job.discard()` in it has no
effect; `CancelRead` to `CancelRefundWrite` is the cancel.

**Sessions.** One school and school type. `sessions` and `terms` are tables,
`roll[st]` the enrollments of a student in order of creation; a handler in flight is `req[r]`. `startNewTerm` creates a session or a term and
then migrates: a promotion (`NEW_SESSION`) or a carry over (`NEW_TERM`) handles one
enrollment after another, each with an insert and then an update, and stops anywhere.
`endTerm`, `endSession`, `reactivateTerm` and `createTerm` are single writes after reads;
an admission that looks for the active term goes on beside them.

**CurriculumPipeline.** `AskOfSource` and `AskOfDraft` are the administrator's requests,
`Proceeding` the parsing worker, the consolidation and what a request in flight does next;
`Crash` stops the process and runs `onModuleInit`, which drains the queue and queues again
what the rows say. A job that waits as it was added has a priority, and BullMQ calls it `prioritized`: `QueueMerge` replaces such a
job, while one that is delayed or active is left as it is, and `CancelJob` may not see one. **FullYear** is the document that `consolidate` writes: `Answers` are
whatever the model may return (`MCAnswers` has missing, unnumbered and doubled weeks and a
term that does not exist), and the weeks it leaves out are filled with the reserved
titles or placeholders before the write. `UpdateTopic` writes any field, so a row may be moved to another
term or week, or un-deprecated: `job.seen` follows each row a consolidation has read (`Followed`), which goes back to its week in
the term it has by then (`Target`), and the unique index may refuse all of it (`Clashes`).

**Timetable.** A request checks (`CreateCheck`, `UpdateCheck`) and then writes; `book[r]` is
what it has found. An update gives some of the fields, each on its own (`Merge`); teacher and room are looked at
only if it names one, the times only if it gives one (`MayUpdate`). Creation, change, deletion, replacement of a whole timetable, the master schedule
the sync of `ClassTeacher` (`SyncRead/Write`), and the curator: `Curate` reads its context,
`FillSlot` decides one slot, `CurateWrite` replaces the timetable of the arm.

**SchoolRoll.** Sets of pupils are the columns: `rolled` who has a row here, `active`,
`locked`, `elsewhere`. `Add`, `ReadLimit`, `CountStudents`, `Enrol`, `Accept` are
`addStudent`, alone or for an application; `LeaveRead/Tx` and `EnterRead/Tx` are the two
ends of `completeTransfer`; `DowngradeRead/List/Tx` and `Renew` are the two billing
transactions.

**Assessments.** `paper` holds the settings a teacher chose (a timer, a due date, how late answers
are punished, the violation threshold), `sub` the submission of one student, `call[c]` the handler of each browser
tab or teacher. The actions are `startAssessment` with its upsert and the start of the clock after it,
`logViolation` with the count and the deduction from a row read before, `submitAssessment` with the check, the marking
of short answers (an await) and the write; then the teacher's grading with the grade book, the deductions it sets or waives (`Cuts`), and deletion.
Marks are whole numbers, also negative or beyond the maximum: nothing clamps what a model answers.

**CreditPool.** `pool` is the subscription's row: tier, plan, credits, used; `turn` the requests in flight. Use and
refund read, then write; a top-up increments; a renewal writes what it computed from an
older row; plans are edited, deleted and linked by the operator.

**CalendarSync.** The answer goes out before the sync: `task` is what each
request or sync in flight has read, `copy` what Google has, `event` the row with its `googleSyncStatus`.

**KnowledgeIndex.** `chunk` is the row and whether it has a vector, `embedJobs` the BullMQ jobs about
it with the step each is at; `NightlyRead/Queue` is the query that adds a job for a row without a
vector; a restart leaves a running job stalled, to be taken again.

**SchemeWeeks.** Days count from the start of the term. `weeks` are the rows under their ids, with
number, date, topics, and who was taught. `PackTopics`, `PackLibrary` and `Restamp` are the three packers;
`LoadPack`, `LoadWeek`, `LoadEnd` store the weeks of a generation or an import one row at a time, `Retried` is
what follows a generation that failed or was cut off;
`ReplaceRead/Write` is the editor's `replaceContentWeeks`, a check and then a transaction, where `Contents` is any list
of the ids it knows, one of them twice too (`PlaceOf` and `Overwritten` say what is written then); `MarkRead` to
`UnmarkWrite` is `updateWeekForSchool`, which first notes a skipped or combined week and then marks or unmarks
it; `SchoolWeek` and `InWindow` are the window in which a week may be marked.

**Portals.** `slug`, `hold`, `status` and `redirect` are columns; `errand[c]` is a handler and the query it comes to
next. `Release`, `LookAtSchools`, `LookAtRedirects` are the three queries of `checkSlugAvailable`, after which
`Insert` (`registerSchool`), `WriteSlug` (`ensureSlug`, which sign-in, creation and verification call) or
`KeepOldSlug` and `WriteSlug` (`renameSlug`) write; `Verify` to `LockSlug` is `verifySchool`, `Reject` to `HoldSlug`
`rejectSchool`. `Resolve` is the school that a host name shows, and `shown` all it ever was.

**Campaigns.** `campaign` is the row, `emitted` the events the process has not handled, `dispatch` the job under
the campaign's id, which BullMQ keeps; `SendOne` is one round of the worker's loop, `sent` the log it writes.

## 4. Runs

Passing runs end with all their reachable states checked. All bounds are constants of the `.cfg`.

| run | states | what it shows |
|---|---|---|
| `transfers` | all interleavings of two handlers, with two codes, restarts; and one handler at a time: three codes, or two and a school that closed, reruns of the job | Each enrollment by transfer goes back to a code and an older enrollment (`ChainOfCustody`), and `Custody` is implemented, whatever was stale, so that a student is never left without enrollment (`NoStudentStranded`, proved apart). One handler at a time: a code is used once (`CodeUsedOnceInTurn`) and a student has one live closure code (`ClosureCodeOnceInTurn`) |
| `tac_reused` | two handlers | *violation*: `TacOneTimeUse` |
| `lifecycle` | of a school: two requests, worker, sweep, one crash; or of a document: two jobs, two attempts, three failures, two restarts | the closing protocol is kept as long as handlers do not overlap and removals succeed; the interface to transfers holds; every overdue close settles; every deactivation issues codes if the process lives. Every document is indexed or deleted (`EmbeddedOrDeleted`) |
| `platform` | of billing: one request, webhook and daily job, two payments and a plan charge, four days, one cut-off (if handlers overlap: three days, with two payments or one and the cut-off). Of portals: two schools and three addresses, two handlers, five requests (three). Of campaigns: one campaign, two owners, four calls, workers that die | `NoFreeTime`, `LockedOnlyWhenFree` under everything; the contract when nothing overlaps (`KeepsContract`). An address never leads to a second school (`AddressKept`); a campaign reaches an owner once, and once more only if its worker died (`SentOnce`) |
| `billing_live` | billing alone with fairness, with two payments, or one payment and a cut-off | a school that paid gets unblocked; confirmed payments are applied |
| `scheme` | of the generation: two requests, three setups or cancels (two, if they overlap and there is a fault), two schemes, two attempts, one failure or restart. Of the weeks: a term of three weeks of which the half term or a holiday takes one, an import or a generation with two attempts, two calls, restarts; calls overlap before the term (1,114,948 distinct states) | credits add up; a calm cancel is final and refunded once; one live scheme; every generation ends, also after a restart, unless the model answers without weeks (`SchemeSettles`). Whatever overlaps, no number is there twice and the stored weeks cover the calendar, except for the weeks an order gives to a row it names again (`CalendarCovered`); one call at a time, a week that was taught stays (`TaughtStays`) and none is marked before its dates (`NotTaughtEarly`) |
| `carry_over_level` | one request at a time, six of them | *violation*: `CarryKeepsLevel` |
| `curriculum` | one source, with a second attempt and a crash, or two drafts, each with one request in flight beside both workers; or a year of two terms of two weeks with one editor, who adds or moves one row and edits any (611,918) | what waits to be parsed gets its turn (`PendingTaken`), what is being parsed keeps a job (`ParsingKeepsJob`), consolidations never leave two empty drafts, as long as none is deleted under one (`OneEmptyDraft`), what was consolidated and left alone can be published (`ConsolidatedCanBePublished`) |
| `two_drafts` | one administrator's requests beside both workers, three drafts | *violation*: `OneDraftInFlight` |
| `office` | timetable: two arms, two clients and the curator, three requests (two, if they overlap). Roll: four pupils, an application and two desks, four requests (three). Paper: two tabs, four calls (three, if hand-in, grading or deletion meet), a clock of two ticks. Credits: two callers, four calls, five turns. Calendar: two hands, three texts. Sessions: two of at most four requests (three, if they overlap) in flight; one student beside, two sessions of two terms, two levels (683,059) | no class has two lessons at once when requests come one at a time (`BookedOnce`), the curator fills empty slots only (`CuratorKeeps`); the seats are kept (`SeatsKept`), who left stays away (`LeaverStaysAway`); the timer never starts again (`TimerNeverRestarts`), what was handed in stays (`HandedInStays`), no points are taken but for violations on record (`PenaltyOnRecord`); the credits add up (`CreditsBalance`); the copy follows the event (`CopyFollows`); nobody's enrollment is let go of without a newer one or the last level reached (`NeverDropped`); one request at a time: one session and one term are active (`OneActive`), and a finished migration leaves nobody behind (`NobodyLeftBehind`) |
| `double_booked` | the same | *violation*: `TeacherBookedOnce` |
| `packed_twice` | a plan of two revision topics | *violation*: `PackedOnce` |

**Why the bounds are enough.** *Transfers*: every race of this code is between two
handlers about one code or one student, since a handler touches the rows of one student
only; three schools are the sender, the receiver and one that takes over or receives
next; two codes (three when handlers are serial) and the enrollments they make allow a
chain, a return to a former school and a second code. One term is enough for the unique
index, and `NoTerm` for a school without one. A school closes where handlers come one at a
time; the proofs cover it together with any number of handlers.
*Lifecycle*: two admin requests with the worker and the sweep is every pair of handlers;
a delay of two ticks and four ticks in all let a school close, reopen and close again;
a tick waits for handlers that have seen one already, as none lasts half a week.
*Billing*: one paid tier stands for all, as no handler compares tiers; two payments can
overlap, follow each other and extend each other, four days are two periods with
grace; two pupils with one seat force a choice. Staff are counted since only their
number matters. *Schemes*: two schemes in one slot are one and its replacement; two
attempts are a retried and a final one; a pool of two prices makes the third setup fail.
*Sessions*: a second session follows a first, with a term before and after; four requests are
two starts with something in between; `MaxNumber = 3` lets a term be one more than the
session has. *Curriculum*: each handler touches one source, and what two sources share is the
queue and the draft, so one source, the draft's own job and one waiting job of either kind are
enough for a job that is overtaken, lost or drained; two drafts are the one reused and the one
opened by mistake, and a row past `MaxDrafts` is refused as a unique violation would be.
In a year, the second week is a reserved one and the answers are up to two blocks for terms
1 to 3 – one does not exist – with weeks missing, unnumbered or doubled; `MaxWeek = 3` is a
topic added after the last week, and one row added or moved (`MaxEdits`) puts a row in the way of
what is to be written; the proof has any number. *Timetable*: a secondary and a primary arm differ in who
teaches; one day of two hours has periods that follow, equal and overlap each other; the six
offers have a lesson, an overlapping one, one without subject, a break and one without type;
an update gives one field, the two times, arm and subject, or all of them (`Updates`): each way to be checked or
not.
*Roll*: of four pupils three are alike and one has an application; two free and three paid
seats let an admission, a lock and a renewal each be the one too many.
*Paper*: two tabs are every pair of handlers of one submission; a due date and a
duration of one tick put a hand-in before, at and after each; scores of nothing and of more than the maximum (`Scores`),
and penalties of 2 against a maximum of 1, put a total on both sides of the clamp. *Credits*: two callers overlap
on one row, four calls are a use, its refund, a top-up and a use between. *Calendar*: a
creation, two changes and a deletion are every order of the three syncs. *Index*: two slots of jobs are the
first and the one the nightly query adds, two attempts (the code has five) a retried and a last
one, and errors are bounded since a model that never answers indexes nothing. *Scheme weeks*: three weeks
of two days, with one taken away in the middle, have a week before and after it; two plans of two topics
leave a week over or reach past the calendar; two calls are a mark and a reorder, or a reorder
and a mark; what overlaps does so before the term, as only a mark asks for the day. Overlaps on the other
days, three calls, and a fifth row, were explored apart, without a further result.
*Portals*: the names of both schools lead to the same address first, and each has one of its own, so a
school can be refused, go on to its second name, or take what another gave up; five requests are a registration,
its rejection, a second school on the freed address, and two of renaming, verifying or signing in. *Campaigns*: campaigns share no row and no job,
so one is enough; four calls create, activate, activate again and delete.
In `billing_live`, `scheme`, `curriculum`, `office`, `platform` the finite ids and requests run out, so
`CHECK_DEADLOCK FALSE`: a quiet system is not an error.

**Mutants.** Every property of a passing run has a mutant in `PROJECT.json`: an operator
`Mutant...` next to the definition it replaces, a mistake one could make in that code
(dropped check, wrong order, missing reset), under which TLC finds the property violated.

## 5. Fairness

Weak fairness, but for one action, and only of what no user decides.

* `SchoolLifecycle!Fairness`: Node goes on with every handler it has started; BullMQ
  takes due and queued jobs; the hourly cron fires. Not assumed: that anybody sends a
  request, or that `Tick` or `Crash` happen.
* `Billing!Fairness`: Node goes on with its handlers, the daily job fires, and Paystack
  repeats `charge.success` until it gets an answer in time. `PaymentsAppliedUnlessFault`
  is stated for behaviours without a cut-off, since after one the repeated webhook finds
  the payment marked and does nothing.
* `SchemeGeneration!EventLoop`: worker, listener and handlers share one event loop; it
  does not idle while one of them has a step. Each is finite, so fairness of the union
  is enough.

* `CurriculumPipeline!Fairness`: the workers and the handlers of the process go on, BullMQ
  finds stalled jobs, the process comes up again after a crash. Strong fairness only of taking
  a given job: the queue is first in, first out, the model takes any of the waiting
  ones, and the drain at start-up disables it from time to time. Crashes are bounded by `MaxCrashes`, since a process that dies in every attempt parses nothing.
* `KnowledgeIndex!IndexFairness`: the worker takes jobs and goes on with them, and the
  nightly query fires and ends. Failures of the embedding model are bounded by `MaxErrors`, restarts by `MaxStops`.

`Custody`, `CloseProtocol`, `SchoolClosure` and `SubscriptionContract` are safety
specifications; nothing is assumed of them.

## 6. Proofs

Checked by TLAPS with SMT, Zenon and, for the temporal steps, LS4. They hold for any
sets of students, schools, terms, pupils and requests, and any bounds, under the
assumptions the modules name (`RollAssumption`, `NoneAssumption`, `BoundAssumption`,
`BillingAssumption`): constants have their types, model values are not members of the
sets, every student starts with an active enrollment. TLC evaluates these in the runs.

**`Transfers_proofs`**: `TypeCorrect`, `NeverStranded`, `CustodyIsChained`,
`ClaimsAreRecorded` (that `tacUsedBy` is true, which has no run of its own), `ReleasesAreClaims`. The properties are not inductive as they stand:
a handler in the middle of `completeTransfer` acts on what it read long ago. `IInv` adds
`RequestOK`, what a handler in flight has read *stays* true of the tables: its code
exists, was issued by another school than the one completing, and its source enrollment
belongs to the code's student at the issuing school. It stays true since no step takes a
row away or changes its student or origin (`CodesKept`, `EnrollmentsKept`), and this is
why stale reads cannot strand a student although they can use a code twice.
`DestinationOK` adds that no school is the destination of its own code. One lemma for the
steps of the environment, one for first queries, one for later steps; each action is a case.

**`TransfersImplementCustody`** (same module) is the refinement itself. The mapping is
the one of `Transfers!C`: where a student is actively enrolled, which schools ever
enrolled the student, which issued a code. A step of the service rewrites a code
(`Stutters`), adds one (`Adds`, an `Issue`) or is the transaction of `completeTransfer`
(`Moves`, a `Claim`): lemma `Effect`. An `Issue` asks that the school once enrolled the
student, which the handler saw before the insert; `CInv` therefore adds `HolderOK` to
`IInv`, that what it saw still holds. The `Claim` gives up the source unless
another active enrollment remains there, which is where the two disjuncts of
`Custody!Claim` come from.

**`CodesUsedOnce`, `ClosureCodesUnique`** (same module) are of `TransfersInTurn`, for the behaviours up to the first
overlap of two handlers (`alone`), as neither holds after it (`tac_reused` shows it of the first). `LoneInv` says that a claimed code is COMPLETED, that the one handler in flight still finds
what it checked (`CheckedOK`), and that each closure code not spent is open, so that the query of
`ensureClosureTac` misses none; a job that is cut off and run again then finds the code of its first run.

**`Platform_proofs`, billing**: `BillingTypeCorrect`, `NoTimeUnpaid`, `LocksOnlyWhenFree`,
`BillingKeepsContract`. For `NoFreeTime` two deliveries of a payment may be past the idempotency check
together, and both renew. `IInv` adds `HandlerOK`: the end date a handler has in hand is not ahead of
what was paid, and if its payment has been applied by another handler, the date it is
*about to write* is not ahead either (`EndOK`); and applied payments are settled ones,
so that no new handler starts with one. A `charge.failed` that arrives after the success
breaks the latter, which is why the property excludes it (`reverted`). No handler is in
flight when a day goes by, so the clock cannot move under it. `AmountIsNat` shows that the prorated
price is a natural number. The contract is the refinement of `SubscriptionContract` for behaviours
whose handlers do not overlap. `LoneInv` adds that at most one handler is in flight then and that
what it has read is still so (`LoneOK`): a grace period is written within the grace, a block after it, a renewal
from the end date of the row. One lemma shows for each step which of the contract's actions it is, or that it is none.

**`Platform_proofs`, portals**: `PortalAddressKept`. An address is somebody's by the school's own column, by a redirect
or by a hold, and a handler checks the three in three queries. `PortalInv` says of any interleaving that no two
schools have one address (the unique index) and which step an errand of each kind can be at
(`ErrandSound`); and as long as nothing meets the super admin's requests or one for the same school, that what
an errand has looked up is still so (`ErrandHolds`), that no address is at once one school's and the
redirect of another (`Agreed`), and that every school an address ever showed still has it (`ShownKept`).
From the last the property follows for any number of schools and addresses.

**`Platform_proofs`, campaigns**: `CampaignSentOnce`. The invariant counts what an owner got against the
deaths of the worker and, while a dispatch runs, whether its loop has come to the owner (`RoundOf`). The queue keeps
a job under the campaign's id, so a second activation adds none.

**`Year_proofs`, sessions**: `SessionsTyped`, `NobodyDropped`, `SessionOneActive`, `MigrationLeavesNobody`. A migration inserts the new
enrollment before it lets go of the old one, and may stop in between; any number of them run
at once. The invariant adds to the property that the enrollments a handler has in hand are
in the table, with a newer one behind the one it is about to let go of. Rows are added at
the end and only `active` changes, so this stays true (lemma `ChangeRoll`), whatever the
other handlers do.

For `SessionOneActive`: between two writes of a start, terms of two sessions, or two
of one, are active; `CalmInv` says for each step of a handler which (`CalmHandler`): only the term it is
about to end and the one it opened, both of the newest session or the one before; that a session which
is active is the newest one, and that terms of higher number than the one to come do not exist. A term
number above those of the session is what `calm` excludes beside overlaps, failures and older sessions.
For `MigrationLeavesNobody`, `MigrationInv` says where each enrollment of the previous term, or of no term, is while a
calm migration runs: still to do, at hand, or dealt with; at the end nothing is left to do.

**`Year_proofs`, weeks of a scheme**: `WeeksTyped`, `WeeksCalendarCovered`, `WeeksTaughtStays`, `WeeksNotTaughtEarly`. What the
three packers return is shown to be dated (`Calendared`): its weeks are numbered from 1 and start with the
instructional weeks of the term, none left out, for which `AscentLists` shows that `InAscent` lists a finite set of
numbers in ascending order, each once. `WeeksInv` then holds for any interleaving: each row has its
number and date once, and of the weeks a generation or import is storing, those before `load.next` are there unless an edit
came between (`LoadOK`). A reorder moves the kept rows to new numbers under their ids. An id named twice has the last of its places
(`PlaceOf`), so every place is that of one row or one of those it is not the last of, which is what `lost` has.
With handlers one after another, `LoneOK` adds that the row about to be marked, or found locked, is as it was read, whence
`TaughtStays`; and `WindowIsDue` that the window a week may be marked in opens no earlier than its dates,
if no holiday takes a week and the first week has lessons (`BegunFirst`), whence `NotTaughtEarly`.

**`Curriculum_proofs`, a year's topics**: `YearTyped`, `ConsolidatedIsComplete`: for any number of terms and
weeks, any reserved weeks and **any answer of the model**, a document that was consolidated
and not touched since has each week of each term once. The property is inductive but for
`JobOK`, that what is about to be committed has its reserved weeks; `YearStep` shows that `Normalized`
gives every week a title for every answer, `CommitCompletes` that the commit then leaves
exactly the year: the rows it knew have not moved and there are no others, so nothing clashes and each
place is written from its own row; `UpdateKeeps` that a moved row is followed.

**`Curriculum_proofs`, sources and drafts**: `PipelineTyped`, `PipelineParsingKeepsJob`, `PipelineOneEmptyDraft`, for
any number of sources, drafts, requests and crashes. For every action there is a lemma of what it does to the
request or worker at work (`...Does`), one that it keeps `PipeInv` (`...Keeps`), one for each of the two properties
(`...Orphans`, `...Drafts`). `PipeInv` has the types and what a handler has in hand; of the worker it says that the
call it makes when a batch is parsed is there until answered, and that the source it then lets go of
is no longer PARSING. With it, a step that takes the last job of a PARSING source is the drain or BullMQ's failing of a
stalled job, and no other. For the drafts, `DraftInv` says that each version is there once and what is published has topics; and, as long as
no draft was deleted under a consolidation, that the rows which jobs and calls are about are there (`OnRows`), that a row
without topics is the latest version (`EmptyIsLast`), and that a call about to open a version has read the
latest one, which has topics, unless that version is taken by now (`MintOK`): the unique index then refuses it.

**`Office_proofs`, the roll**: `RollTyped`, `LeaversStayAway`, `SeatsAreKept`. `Fits` says that what
a request has in hand is on record. For leavers the invariant is `Away`: no pupil is active
here and locked at the same time, and one who is locked here and enrolled elsewhere is
`strayed`; so a renewal brings back no others. For seats it is `SeatInv`: while
requests come one at a time, one desk at most is busy, the seats it has read are those of the
tier, and what it is about to lock or to add leaves the count within them; on the free tier
the locked and the counted together are within the paid seats (`RollFits`), which is why
a renewal may unlock all.

**`Office_proofs`, credits**: `PoolTyped`, `CreditsKept`. That no credit is lost is inductive for any interleaving of
uses and refunds, since a use checks and then increments, and a refund takes back no more than
it read. `SteadyInv` adds for a pool with a limit that a renewal still finds what its roll-over was computed from (`RewriteOK`)
and, while uses and refunds are apart, that a use finds the balance it saw (`CountOK`).

**`Office_proofs`, calendar**: `CalendarCopyFollows`. The sync goes on after the answer, so the invariant follows a task
through its queries (`OnItsWay`): the text it sends is the row's, the row says PENDING until it is saved, a
deletion takes the row or the copy first. `Agree` is what one request leaves and the next one finds.

**`Classroom_proofs`, papers**: `PapersTyped`, `PenaltiesAreOnRecord`, `TimerStartsOnce`, `HandInsStand`. A report of a violation
writes a count it computed from an older row, so `Fits` says that what a request has in hand costs what its own count
says and that this count is on record; reports that overlap lose each other's points and never charge one
twice. The clock of a timed paper is set with the upsert, whence `TimerStartsOnce`; the start of the clock
that follows it is of untimed ones only. For the last, `LoneInv`: while hand-in, grading and deletion
have not met, at most one of them is in flight and it has read the row truly.

**`Classroom_proofs`, timetable**: `TimetableTyped`, `TimetableBookedOnce`, `TimetableCuratorKeeps`. A period that is written
has its id from a counter; `TimeInv` says that what the check found is still so at the write (`Clear`), and that
what the curator has decided so far contains every period of its class that has a subject (`Holds`), slot by slot.

**`Classroom_proofs`, scheme generation**: `SchemeTyped`, `SchemeRefundedOnce`, `SchemeOneLive`, `SchemeCreditsAccounted`,
`SchemeCancelIsFinal`. Up to four parties are at one scheme: the setup between its insert and the commit, an attempt,
the failure listener, and any number of cancels. `Placed` says who can be at it, in which state of row and job.
`OnceInv` says of each of them what it may still give back: as long as anybody may take the
scheme up again nothing was given back (`AmountOK`), two cancels are never both between read and refund
(`CancelOK`), the listener comes after the last attempt (`ListenOK`). `FinalInv` is that nobody who writes the
row is at a cancelled scheme. `LiveInv` and `CreditInv`, for requests one at a time, say what a setup has read of the slot and
that a setup that has paid finds the slot empty and an id free, so that it ends with a row (`SlotOK`, `SumOK`).

**`SchoolLifecycle_proofs`**: `LifecycleTyped`, `ClosesAsAnnounced`, `LifecycleImplementsClosure`. `LInv` has
the types, that the columns agree (`ActiveOK`), and that each handler is at a step of its
kind (`KindsOK`); and while handlers have not overlapped and removals succeeded, `CalmOK`: a job that waits, waits for the date
announced, and a handler in flight has seen the row as it still is. That gives `CloseProtocol` for any
delay. The refinement of `SchoolClosure` needs none of the latter: a handler past its
DEACTIVATED write *owes* the issuing job (`Owing`), and every other step leaves the interface
alone or reopens the school, in any interleaving and through restarts.

**`TableFacts`** has lemmas on sequences used as tables, shared by the proofs.

The type invariants of the modules above are proved and in no run of their own; that of `KnowledgeIndex`, of which
there is only a liveness property, documents the states and was checked with the instance of its run.

**What the attempts showed.** Some properties that TLC had found true were so because of the bounds, or said less than
they seemed to. `OneActive` fails for a term number above the session's, which needs one request more than the run has;
`OneLiveScheme` fails with a third scheme, when a setup replaces one whose job still waits; `RefundedOnce` needs a second
attempt to be left (`Attempts >= 2`); `OneEmptyDraft` fails with a third draft, when one is deleted under its
waiting job, which is finding 5; `NotTaughtEarly` fails when the half term takes the first week, since week 1
is open before the term. Each property now names its exception. What `CreditsAccounted`
subtracts is now kept by a history (`returned`) instead of a sum over the schemes, which would need induction.

*Only model-checked* are the liveness properties, since reasoning about fairness and `ENABLED` is out of the
prover's reach: `PendingTaken`, `OverdueCloseSettles`, `CodesUnlessCrash`, `EmbeddedOrDeleted`, `PaidSchoolUnblocked`,
`PaymentsAppliedUnlessFault` and `SchemeSettles`. Every safety property of a passing run is stated by a theorem. Induction
over data is out of reach too, and no module that is proved about declares a recursive operator.

## 7. Findings

Disagreements between the code and what its documents or comments say, each the
counterexample of a run that expects a violation.

1. `tac_reused` – *"The TAC is one-time use"* (`docs/adr/017…md:25`). `completeTransfer` checks the
   status before its transaction and ends it with an update by id: two that overlap
   both enrol the student.
2. `carry_over_level` – *"Keep students in the exact same ClassArm/Class"*
   (`session.service.ts:1027`). `carryOverStudents` takes the active enrollments of the previous term
   and those without a term (`:1041`), in no order, and skips a student who has one
   in the new term (`:1082`). The enrollment from before the first session has no term and
   is never let go of: after a promotion the next carry over may copy it.
3. `double_booked` – *"Conflict detected (teacher or room already booked)"*
   (`timetable.controller.ts:69`). `detectConflicts` narrows its query to the class of the new
   period (`timetable.service.ts:1197`): a teacher busy in another class is not found.

4. `packed_twice` – *"combines overflow topics onto the last content week"*
   (`scheme-calendar-packer.util.spec.ts:48`, which counts every topic once). `place` puts the revision or exam topics
   that do not fit on the last of their weeks twice, by two loops (`scheme-calendar-packer.util.ts:212`, `:221`);
   the unique index on a week's topics then refuses the week and every attempt of the generation fails.
5. `two_drafts` – *"One in-flight DRAFT per subject+grade. A new version is only minted after the latest draft is a
   complete 39-week year"* (`agora-curriculum.service.ts:614`). A draft that is deleted keeps its job; the worker does not find the
   row and creates version 1 (`curriculum.processor.ts:148`) without a look at what has been opened since.

Noticed while modelling, without a run. None breaks a property above; where a property would
be broken, its comment names the exception.

* **Transfers.** Rejecting a closure transfer that was revoked makes it PENDING without a
  code, and the student gets no other (`transfers.service.ts:861`).
* **Lifecycle.** A crash between the DEACTIVATED write and the queueing of the issuing job loses
  the job: both retries return at the CLOSING check (`school-lifecycle.service.ts:113`). The job
  is not withdrawn by a reactivation (`:138`). `prisma/schema/schools.prisma:29` says `isActive` is
  true only while ACTIVE; `scheduleClose` keeps it true while CLOSING.
* **Payments.** The next charge of a plan has a reference without a row and is dropped
  (`payments.service.ts:316`; `docs/paystack-recurring-payments.md:108` promises automatic renewal).
  The days a proration deducts are kept as well, as the renewal starts at the old end
  date (`:353`). After a fault the tools are not synced (`:399`). The roll-over of AI credits is
  computed from a row read before the transaction (`:366`). The grace period is 14 days in
  `subscription-billing.constants.ts` and 7 in `docs/paystack-recurring-payments.md:102`.
* **Credits.** `useAiCredits` checks the balance and increments it apart
  (`subscriptions.service.ts:503`): overlapping uses overdraw. A renewal leaves `planId` as it was, so an edit of
  the FREE plan (`plans.service.ts:97`) overwrites limits and credits of schools that pay, and one of PRO
  reaches none of them. A refund after a renewal gives nothing back. A top-up that races an
  upgrade to CUSTOM turns the unlimited -1 into a limit.
* **Assessments.** The score of an answer that a model marks is stored as answered, negative or above the maximum
  (`assessments.service.ts:576`). A second submission while the first is being marked overwrites it, GRADED or not
  (`assessments.service.ts:603`). A threshold of 0 violations acts as 1. Violations are logged after the hand-in.
  `gradeSubmission` grades any status; re-grading leaves the grade's `maxScore`, partial
  scores lose the other answers' marks, and the result is published past `gradeApprovalRequired`
  (`grades.service.ts:392`). A re-grading after a promotion makes a second `Grade`.
* **Calendar.** An edit during the first insert is not sent and the row says SYNCED; a deletion during it
  leaves the copy; what FAILED is not repeated; one OAuth2 client object serves all users.
* **Engagement.** The id of a campaign's job is kept after it ran, so a completed campaign that is activated again
  (*"Activate a campaign (starts sending)"*, `campaign.controller.ts`) stays ACTIVE for ever and nothing is sent. The log
  written *"to prevent duplicate spam"* (`engagement-queue.processor.ts:86`) is never read: a job that is run again sends
  twice. Nothing emits `school.verified`, so the onboarding nudges are never scheduled.
* **Portals.** `ensureSlug` of two overlapping requests for one school writes the second address over the first without a
  redirect (`portals.service.ts:172`), and two overlapping renames lose the one in between (`:200`). A rejection that
  overlaps a verification leaves a school REJECTED and active (`super-admin-schools.service.ts:685`).
* **Scheme weeks.** An order that names a week twice is accepted; the row gets the later number, and the earlier week
  of the calendar has no row (`scheme-spine.service.ts:394`, `:451`). SKIPPED and COMBINED never outlive the call that sets them: `updateWeekForSchool` goes
  on to write PENDING or DELIVERED for the same arm (`scheme-of-work.service.ts:298`, `:325`, `:382`), and the
  note is kept when the delivery window then refuses. A week marked between the check of
  the lock and the transaction is deleted (`scheme-spine.service.ts:388`). With a holiday week the window is a week ahead of the dates
  (`scheme-of-work.service.ts:493`); week 1 can be marked before the term, and during a half term that is its first week; weeks past the
  calendar never. A library import is PUBLISHED before its weeks exist, and stays empty when the
  term has no instructional week (`scheme-spine.service.ts:265`).
* **Schemes.** A model that answers without content or weeks leaves the scheme GENERATING for good, its slot taken and
  its credits spent: the block that stores the weeks is skipped and the job completes
  (`ai-curriculum-pipeline.service.ts:749`; *"Final status DRAFT, or FAILED with credit refund"*,
  `docs/architecture.md:343`). More than the cost is given back when a cancel meets a running attempt, or when
  a refusal is refunded and retried (`scheme-of-work.processor.ts:91`). A live scheme is archived
  before the credits are checked (`curriculum.service.ts:1388`). The yearly batch queues its
  job before its transaction commits, with one attempt (`curriculum.service.ts:1350`).
* **Sessions.** Ending the only active term completes the session (`:1138`), and a new term does
  not reopen it; a first term number above 1 makes the session's own first term the
  previous one, and one above the number of terms throws after the session was made
  (`:338`); `reactivateTerm` can leave two active sessions, a new term of an
  older session two active terms; a student with an enrollment of the term and one without a term
  stops a promotion half way at the unique index.
* **Roll.** `completeTransfer` asks for no student limit. A crash in an approval leaves the
  application PENDING, and a second approval fails on the e-mail
  (`student-admission.service.ts:442`). `rejectApplication` looks at no status. A renewal unlocks
  the row of a student who left while locked (`subscription-billing.service.ts:118`). Doubled ids in
  `keepEnrollmentIds` keep fewer than the free seats, and the renewal then exceeds the paid ones.
* **Timetable.** An update that names no teacher and no room is not checked for conflicts, one that gives no time not for
  overlaps either: another day, arm, type or subject is written over whatever is there; a dto without type skips the conflict
  check, as does the fill of a primary arm; `replace` checks nothing, on purpose
  (`timetable.service.ts:1077`), and does not sync class teachers; the curator loses rooms,
  overwrites what was written since it read, uses the times of all days as the slots of each, and its
  daily cap counts this class only.
* **Library.** A source parsed while its draft's consolidation runs, or waits for its next attempt, is not part of it and
  of no later one until another is parsed or somebody asks (`agora-curriculum.service.ts:629`); a cancellation does not find a job that waits with a priority, as
  each upload's does, and the job goes on (`:545`; it skips a source that is FAILED by then); the drain at start-up can orphan a job taken since
  the workers were registered (`curriculum.processor.ts:63`); `moveToFailed` with a foreign token
  fails silently (`:44`); cancel looks at no status. A topic added to a term gets the last week of any term plus one, and a topic added
  during a consolidation stays, so that the year cannot be published until consolidated again. An update may move a topic to any term and week; a
  consolidation that has read it before writes it back to its week, but not to its term.

## 8. What is not modelled

* **Sign-in and authorisation**: sessions, one-time passwords, guards and permissions.
  The models take a request as made by somebody who may make it.
* **Input and output**: e-mail, notifications, files, exports, backups, metrics, streaming,
  prompts. No state of a modelled part depends on their outcome.
* **Lois**: a pending plan is a row of its own that expires; what it does when applied are calls to the
  services above, so its interleavings are theirs. **Bud** is a conversation store behind a credit count, with the check
  and increment apart that `CreditPool` has.
* **Tables with one writer at a time and no protocol** (attendance, staff, classes,
  faculties, settings, resources): their handlers are single writes behind an index. They are most
  of the code that no definition stands for: 386 source files are largely controllers, dtos,
  prompts, mail templates, read-only queries and row writes, whose models would say nothing.
* **Inside the modelled parts.** *Transfers, billing, schemes*: the copy of grades that
  `completeTransfer` returns, the purchase of Bud credits, reminders and audit rows, the yearly
  batch of schemes, approval and publication of a scheme, several paid tiers. *Sessions*: other school types and
  sessions without a type, copying of timetables, dates. *Roll*: capacity of arms, parents,
  imports, reassignment. *Timetable*: TERTIARY classes, exam timetables, the random choices of the
  solver among equals. *Library*: the merging of parsed chunks, an update that moves a topic to another curriculum; errors inside `onModuleInit`. *Portals*: custom
  domains, the one-time codes that hand a session over to a portal, the form of an address. *Engagement*: the onboarding nudges, which nothing schedules.

## 9. Plan

Done, in this order: transfers with custody; lifecycle and its interface; billing with its
contract; scheme generation; sessions; the curriculum library; timetables; the roll of a school as
the composition of admission, transfers and billing; assessments; credits; calendar sync; the knowledge
index; the weeks of a scheme; portals; campaigns; proofs of transfers, custody, lifecycle, sessions, billing with its
contract, migrations, the weeks of a scheme, portals, campaigns, the roll, credits, the calendar, assessments, the timetable, scheme generation, the
curriculum library and the yearly document. What a further step could add:

1. The yearly batch as a second kind of job in `SchemeGeneration`, and `PendingPlan` of Lois.
2. Other school types in `Sessions`, and TERTIARY classes in `Timetable`.
