----------------------- MODULE SchoolLifecycle_proofs -----------------------
(***************************************************************************)
(* Proofs about SchoolLifecycle for any number of requests, any delay and  *)
(* any bounds: the columns agree, the close keeps what was announced, and  *)
(* the transfer service gets the interface it is written against.          *)
(***************************************************************************)
EXTENDS SchoolLifecycle, TLAPS

USE DEF row, Procs

Applying == {"applyRead", "applyWrite", "applyAdd"}

\* The handlers of a request and those of the queue are of two kinds.
KindsOK ==
  /\ \A r \in Requests : pc[r] \in PCs \ Applying
  /\ \A p \in {Worker, Cron} : pc[p] \in Applying \cup {"idle"}

\* A job is active while the worker is at it, and it was due.
ActiveOK ==
  /\ job.state = "active" <=> pc[Worker] # "idle"
  /\ job.state = "active" => job.due <= now

\* What a lone handler has read is still so.
ReadOK(p) ==
  /\ pc[p] = "scheduleWrite" => life = "ACTIVE"
  /\ pc[p] = "scheduleAdd" => life = "CLOSING" /\ date[p] = closesAt
  /\ pc[p] \in {"cancelRemove", "cancelWrite", "applyWrite"} => life = "CLOSING"
  /\ pc[p] \in {"reopenRemove", "reopenWrite"} => life = "DEACTIVATED"
  /\ pc[p] \in {"cancelWrite", "reopenWrite"} => job.state = "absent"

\* As long as no two handlers met and every job was removed when told to: a job
\* that may still fire is the one of the close announced last.
CalmOK ==
  /\ \A p, q \in Procs : pc[p] # "idle" /\ pc[q] # "idle" => p = q
  /\ \A p \in Procs : ReadOK(p)
  /\ job.state \in {"delayed", "active"} => life # "ACTIVE"
  /\ job.state \in {"delayed", "active"} /\ life = "CLOSING" => job.due = closesAt
  /\ pc[Cron] \in Applying /\ life = "CLOSING" => closesAt <= now

LInv ==
  /\ TypeOK /\ KindsOK /\ ActiveOK
  /\ isActive = (life # "DEACTIVATED")
  /\ clean => CalmOK
-----------------------------------------------------------------------------
LEMMA NoJobTyped ==
  /\ NoJob \in [state : {"absent", "delayed", "active", "kept"}, due : 0..(MaxNow + Delay)]
  /\ 0 \in 0..(MaxNow + Delay) /\ 0 \in 0..MaxNow
  /\ 0 \in 0..MaxIssues /\ 0 \in 0..MaxCrashes
  /\ NoJob.state = "absent"
<1>1. /\ 0 \in 0..(MaxNow + Delay) /\ 0 \in 0..MaxNow
      /\ 0 \in 0..MaxIssues /\ 0 \in 0..MaxCrashes
  BY LifecycleAssumption
<1>2. QED
  BY <1>1 DEF NoJob

LEMMA LifecycleInitially == Init => LInv
<1> SUFFICES ASSUME Init PROVE LInv
  OBVIOUS
<1> USE NoJobTyped DEF Init
<1>1. TypeOK
  <2>1. pc \in [Procs -> PCs] /\ date \in [Requests -> 0..(MaxNow + Delay)]
    BY DEF PCs
  <2>2. QED
    BY <2>1 DEF TypeOK
<1>2. KindsOK /\ ActiveOK
  BY DEF KindsOK, ActiveOK, Applying, PCs
<1>3. CalmOK
  BY DEF CalmOK, ReadOK, Applying
<1>4. QED
  BY <1>1, <1>2, <1>3 DEF LInv
-----------------------------------------------------------------------------
(* Every action keeps the types. *)

LEMMA StepTyped == TypeOK /\ [Next]_vars => TypeOK'
<1> SUFFICES ASSUME TypeOK, [Next]_vars PROVE TypeOK'
  OBVIOUS
<1> USE LifecycleAssumption DEF TypeOK, PCs
<1>1. ASSUME NEW r \in Requests, Begin(r) PROVE TypeOK'
  BY <1>1 DEF Begin, ScheduleRead, CancelRead, ReactivateRead, Start
<1>2. ASSUME NEW r \in Requests, Continue(r) PROVE TypeOK'
  <2>1. CASE ScheduleWrite(r)
    BY <2>1 DEF ScheduleWrite, Go, SetRow
  <2>2. CASE ScheduleAdd(r)
    BY <2>2 DEF ScheduleAdd, Go, AddJob
  <2>3. CASE CancelRemove(r)
    BY <2>3, NoJobTyped DEF CancelRemove, Go, RemoveJob
  <2>4. CASE CancelWrite(r)
    BY <2>4 DEF CancelWrite, Step, Go, SetRow
  <2>5. CASE ReactivateRemove(r)
    BY <2>5, NoJobTyped DEF ReactivateRemove, Go, RemoveJob
  <2>6. CASE ReactivateWrite(r)
    BY <2>6 DEF ReactivateWrite, Step, Go, SetRow
  <2>7. QED
    BY <1>2, <2>1, <2>2, <2>3, <2>4, <2>5, <2>6 DEF Continue
<1>3. CASE JobStart
  BY <1>3 DEF JobStart, Start
<1>4. CASE CronStart
  BY <1>4 DEF CronStart, Start
<1>5. CASE IssueStart
  BY <1>5 DEF IssueStart
<1>6. ASSUME NEW p \in {Worker, Cron}, Apply(p) PROVE TypeOK'
  <2>1. CASE ApplyRead(p)
    BY <2>1 DEF ApplyRead, Step, Go, JobOver
  <2>2. CASE ApplyWrite(p)
    BY <2>2 DEF ApplyWrite, Step, Go, SetRow
  <2>3. CASE ApplyAdd(p)
    BY <2>3 DEF ApplyAdd, Step, Go, JobOver
  <2>4. QED
    BY <1>6, <2>1, <2>2, <2>3 DEF Apply
<1>7. CASE Tick
  BY <1>7 DEF Tick
<1>8. CASE Crash
  BY <1>8 DEF Crash
<1>9. CASE UNCHANGED vars
  BY <1>9 DEF vars
<1>10. QED
  BY <1>1, <1>2, <1>3, <1>4, <1>5, <1>6, <1>7, <1>8, <1>9 DEF Next
-----------------------------------------------------------------------------
(* What needs no calm: the kinds of handlers, the job at work, the columns. *)

LEMMA StepShape == LInv /\ [Next]_vars => KindsOK' /\ ActiveOK' /\ (isActive = (life # "DEACTIVATED"))'
<1> SUFFICES ASSUME LInv, [Next]_vars
             PROVE  KindsOK' /\ ActiveOK' /\ isActive' = (life' # "DEACTIVATED")
  OBVIOUS
<1> USE LifecycleAssumption DEF LInv, KindsOK, ActiveOK, Applying, PCs
<1>0. /\ pc \in [Procs -> PCs] /\ now \in Nat
      /\ job \in [state : {"absent", "delayed", "active", "kept"}, due : 0..(MaxNow + Delay)]
      /\ job.due \in Nat
  BY DEF TypeOK
<1>1. ASSUME NEW r \in Requests, Begin(r)
      PROVE  KindsOK' /\ ActiveOK' /\ isActive' = (life' # "DEACTIVATED")
  BY <1>0, <1>1 DEF Begin, ScheduleRead, CancelRead, ReactivateRead, Start
<1>2. ASSUME NEW r \in Requests, Continue(r)
      PROVE  KindsOK' /\ ActiveOK' /\ isActive' = (life' # "DEACTIVATED")
  <2>1. CASE ScheduleWrite(r)
    BY <1>0, <2>1 DEF ScheduleWrite, Go, SetRow
  <2>2. CASE ScheduleAdd(r)
    BY <1>0, <2>2 DEF ScheduleAdd, Go, AddJob
  <2>3. CASE CancelRemove(r)
    BY <1>0, <2>3, NoJobTyped DEF CancelRemove, Go, RemoveJob
  <2>4. CASE CancelWrite(r)
    BY <1>0, <2>4 DEF CancelWrite, Step, Go, SetRow
  <2>5. CASE ReactivateRemove(r)
    BY <1>0, <2>5, NoJobTyped DEF ReactivateRemove, Go, RemoveJob
  <2>6. CASE ReactivateWrite(r)
    BY <1>0, <2>6 DEF ReactivateWrite, Step, Go, SetRow
  <2>7. QED
    BY <1>2, <2>1, <2>2, <2>3, <2>4, <2>5, <2>6 DEF Continue
<1>3. CASE JobStart
  BY <1>0, <1>3 DEF JobStart, Start
<1>4. CASE CronStart
  BY <1>0, <1>4 DEF CronStart, Start
<1>5. CASE IssueStart
  BY <1>0, <1>5 DEF IssueStart
<1>6. ASSUME NEW p \in {Worker, Cron}, Apply(p)
      PROVE  KindsOK' /\ ActiveOK' /\ isActive' = (life' # "DEACTIVATED")
  <2>1. CASE ApplyRead(p)
    BY <1>0, <2>1 DEF ApplyRead, Step, Go, JobOver
  <2>2. CASE ApplyWrite(p)
    BY <1>0, <2>2 DEF ApplyWrite, Step, Go, SetRow
  <2>3. CASE ApplyAdd(p)
    BY <1>0, <2>3 DEF ApplyAdd, Step, Go, JobOver
  <2>4. QED
    BY <1>6, <2>1, <2>2, <2>3 DEF Apply
<1>7. CASE Tick
  BY <1>0, <1>7 DEF Tick
<1>8. CASE Crash
  BY <1>0, <1>8 DEF Crash
<1>9. CASE UNCHANGED vars
  BY <1>0, <1>9 DEF vars
<1>10. QED
  BY <1>1, <1>2, <1>3, <1>4, <1>5, <1>6, <1>7, <1>8, <1>9 DEF Next
-----------------------------------------------------------------------------
(* As long as it is calm, every write of the row is one of the protocol. *)

\* The others are idle, so that calm is about the handler that takes the step.
JobFits ==
  /\ job.state \in {"delayed", "active"} => life # "ACTIVE"
  /\ job.state \in {"delayed", "active"} /\ life = "CLOSING" => job.due = closesAt
  /\ pc[Cron] \in Applying /\ life = "CLOSING" => closesAt <= now

LEMMA StillCalm ==
  ASSUME NEW p \in Procs, \A q \in Procs : q # p => pc'[q] = "idle", ReadOK(p)', JobFits'
  PROVE  CalmOK'
BY DEF CalmOK, ReadOK, JobFits, Applying

LEMMA Alone ==
  ASSUME LInv, clean, NEW p \in Procs, pc[p] # "idle"
  PROVE  /\ \A q \in Procs : q # p => pc[q] = "idle"
         /\ ReadOK(p) /\ JobFits
BY DEF LInv, CalmOK, JobFits

Promised == CalmOK' /\ (P!Next \/ UNCHANGED P!vars)

LEMMA BeginPromised ==
  ASSUME LInv, NEW r \in Requests, Begin(r), clean' PROVE Promised
<1>1. /\ \A q \in Procs : pc[q] = "idle"
      /\ CalmOK
      /\ pc \in [Procs -> PCs]
  BY DEF Begin, ScheduleRead, CancelRead, ReactivateRead, Start, LInv, TypeOK
<1>2. /\ \A q \in Procs : q # r => pc'[q] = "idle"
      /\ UNCHANGED <<life, closesAt, now, job, date>>
      /\ pc'[r] \in {"scheduleWrite", "cancelRemove", "reopenRemove"}
      /\ pc'[r] = "scheduleWrite" => life = "ACTIVE"
      /\ pc'[r] = "cancelRemove" => life = "CLOSING"
      /\ pc'[r] = "reopenRemove" => life = "DEACTIVATED"
  BY <1>1 DEF Begin, ScheduleRead, CancelRead, ReactivateRead, Start, MayCancel, LInv, TypeOK
<1>3. ReadOK(r)'
  BY <1>2 DEF ReadOK
<1>4. JobFits'
  BY <1>1, <1>2, LifecycleAssumption DEF JobFits, CalmOK, Applying
<1>5. CalmOK'
  BY <1>2, <1>3, <1>4, StillCalm
<1>6. QED
  BY <1>2, <1>5 DEF Promised, P!vars

LEMMA StartPromised ==
  ASSUME LInv, JobStart \/ CronStart, clean' PROVE Promised
<1>1. /\ \A q \in Procs : pc[q] = "idle"
      /\ CalmOK
      /\ pc \in [Procs -> PCs]
      /\ job \in [state : {"absent", "delayed", "active", "kept"}, due : 0..(MaxNow + Delay)]
  BY DEF JobStart, CronStart, Start, LInv, TypeOK
<1>2. PICK p \in {Worker, Cron} :
        /\ pc' = [pc EXCEPT ![p] = "applyRead"]
        /\ p = Worker => job' = [job EXCEPT !.state = "active"] /\ job.state = "delayed"
        /\ p = Cron => closesAt <= now /\ job' = job
        /\ UNCHANGED <<life, closesAt, now, date>>
  BY LifecycleAssumption DEF JobStart, CronStart, Start, Overdue
<1>3. p \in Procs /\ pc'[p] = "applyRead" /\ \A q \in Procs : q # p => pc'[q] = "idle"
  BY <1>1, <1>2
<1>4. ReadOK(p)'
  BY <1>3 DEF ReadOK
<1>5. JobFits'
  BY <1>1, <1>2, <1>3, LifecycleAssumption DEF JobFits, CalmOK, Applying
<1>6. CalmOK'
  BY <1>3, <1>4, <1>5, StillCalm
<1>7. QED
  BY <1>2, <1>6 DEF Promised, P!vars

LEMMA ContinuePromised ==
  ASSUME LInv, NEW r \in Requests, Continue(r), clean' PROVE Promised
<1> USE LifecycleAssumption
<1>0. /\ pc \in [Procs -> PCs] /\ r # Worker /\ r # Cron /\ KindsOK /\ ActiveOK
      /\ date \in [Requests -> 0..(MaxNow + Delay)]
      /\ job \in [state : {"absent", "delayed", "active", "kept"}, due : 0..(MaxNow + Delay)]
  BY DEF LInv, TypeOK
<1>1. /\ clean /\ pc[r] # "idle" /\ r \in Procs
      /\ \A q \in Procs : q # r => pc'[q] = pc[q]
  BY <1>0 DEF Continue, ScheduleWrite, ScheduleAdd, CancelRemove, CancelWrite,
     ReactivateRemove, ReactivateWrite, Step, Go, RemoveJob
<1>2. /\ \A q \in Procs : q # r => pc'[q] = "idle" /\ pc[q] = "idle"
      /\ ReadOK(r) /\ JobFits
      /\ pc[Worker] = "idle" /\ job.state # "active" /\ pc'[Cron] = "idle"
  BY <1>0, <1>1, Alone DEF ActiveOK
<1>3. CASE ScheduleWrite(r)
  <2>1. ReadOK(r)' /\ JobFits'
    BY <1>0, <1>2, <1>3 DEF ScheduleWrite, Go, SetRow, ReadOK, JobFits, Applying
  <2>2. P!Next
    BY <1>2, <1>3 DEF ScheduleWrite, Go, SetRow, ReadOK, P!Next, P!Schedule
  <2>3. QED
    BY <1>1, <1>2, <2>1, <2>2, StillCalm DEF Promised
<1>4. CASE ScheduleAdd(r)
  <2>1. ReadOK(r)' /\ JobFits'
    BY <1>0, <1>2, <1>4 DEF ScheduleAdd, AddJob, Go, ReadOK, JobFits, Applying
  <2>2. UNCHANGED P!vars
    BY <1>4 DEF ScheduleAdd, P!vars
  <2>3. QED
    BY <1>1, <1>2, <2>1, <2>2, StillCalm DEF Promised
<1>5. CASE CancelRemove(r) \/ ReactivateRemove(r)
  <2>1. job' = NoJob /\ UNCHANGED <<life, closesAt, now>>
    BY <1>5 DEF CancelRemove, ReactivateRemove, RemoveJob
  <2>2. \/ pc[r] = "cancelRemove" /\ pc'[r] = "cancelWrite"
        \/ pc[r] = "reopenRemove" /\ pc'[r] = "reopenWrite"
    BY <1>0, <1>1, <1>5 DEF CancelRemove, ReactivateRemove, Go
  <2>3. ReadOK(r)'
    BY <1>2, <2>1, <2>2, NoJobTyped DEF ReadOK
  <2>4. JobFits'
    BY <1>2, <2>1, NoJobTyped DEF JobFits, Applying
  <2>5. QED
    BY <1>1, <1>2, <2>1, <2>3, <2>4, StillCalm DEF Promised, P!vars
<1>6. CASE CancelWrite(r) \/ ReactivateWrite(r)
  <2>1. /\ life' = "ACTIVE" /\ closesAt' = 0 /\ UNCHANGED <<now, job>>
        /\ pc'[r] = "idle" /\ pc[r] \in {"cancelWrite", "reopenWrite"}
    BY <1>0, <1>1, <1>6 DEF CancelWrite, ReactivateWrite, Step, Go, SetRow
  <2>2. job.state = "absent" /\ life \in {"CLOSING", "DEACTIVATED"}
    BY <1>2, <2>1 DEF ReadOK
  <2>3. ReadOK(r)' /\ JobFits'
    BY <1>2, <2>1, <2>2 DEF ReadOK, JobFits
  <2>4. P!Next
    BY <2>1, <2>2 DEF P!Next, P!Cancel, P!Reactivate
  <2>5. QED
    BY <1>1, <1>2, <2>3, <2>4, StillCalm DEF Promised
<1>7. QED
  BY <1>3, <1>4, <1>5, <1>6 DEF Continue

LEMMA ApplyPromised ==
  ASSUME LInv, NEW p \in {Worker, Cron}, Apply(p), clean' PROVE Promised
<1> USE LifecycleAssumption
<1>0. /\ pc \in [Procs -> PCs] /\ KindsOK /\ ActiveOK /\ now \in Nat
      /\ job \in [state : {"absent", "delayed", "active", "kept"}, due : 0..(MaxNow + Delay)]
  BY DEF LInv, TypeOK
<1>1. /\ clean /\ pc[p] \in Applying /\ p \in Procs
      /\ \A q \in Procs : q # p => pc'[q] = pc[q]
  BY <1>0 DEF Apply, ApplyRead, ApplyWrite, ApplyAdd, Step, Go, Applying
<1>2. /\ \A q \in Procs : q # p => pc'[q] = "idle" /\ pc[q] = "idle"
      /\ ReadOK(p) /\ JobFits
      /\ job.state = "active" <=> p = Worker
  BY <1>0, <1>1, Alone DEF ActiveOK, Applying
<1>3. pc[p] # "applyAdd" /\ life = "CLOSING" => closesAt <= now
  BY <1>0, <1>1, <1>2 DEF JobFits, ActiveOK
<1>4. CASE ApplyRead(p)
  <2>1. ReadOK(p)' /\ JobFits'
    BY <1>0, <1>1, <1>2, <1>4 DEF ApplyRead, MayApply, JobOver, Step, Go, ReadOK, JobFits, Applying
  <2>2. UNCHANGED P!vars
    BY <1>4 DEF ApplyRead, P!vars
  <2>3. QED
    BY <1>1, <1>2, <2>1, <2>2, StillCalm DEF Promised
<1>5. CASE ApplyWrite(p)
  <2>1. life = "CLOSING" /\ closesAt <= now
    BY <1>0, <1>1, <1>2, <1>3, <1>5 DEF ApplyWrite, Step, Go, ReadOK
  <2>2. ReadOK(p)' /\ JobFits'
    BY <1>0, <1>1, <1>5 DEF ApplyWrite, SetRow, Step, Go, ReadOK, JobFits
  <2>3. P!Next
    BY <1>5, <2>1 DEF ApplyWrite, SetRow, P!Next, P!Close
  <2>4. QED
    BY <1>1, <1>2, <2>2, <2>3, StillCalm DEF Promised
<1>6. CASE ApplyAdd(p)
  <2>1. ReadOK(p)' /\ JobFits'
    BY <1>0, <1>1, <1>2, <1>6 DEF ApplyAdd, JobOver, Step, Go, ReadOK, JobFits, Applying
  <2>2. UNCHANGED P!vars
    BY <1>6 DEF ApplyAdd, P!vars
  <2>3. QED
    BY <1>1, <1>2, <2>1, <2>2, StillCalm DEF Promised
<1>7. QED
  BY <1>4, <1>5, <1>6 DEF Apply

LEMMA OthersPromised ==
  ASSUME LInv, IssueStart \/ Tick \/ Crash \/ UNCHANGED vars, clean' PROVE Promised
<1> USE LifecycleAssumption
<1>0. /\ clean /\ CalmOK /\ pc \in [Procs -> PCs] /\ now \in Nat /\ closesAt \in Nat
      /\ job \in [state : {"absent", "delayed", "active", "kept"}, due : 0..(MaxNow + Delay)]
  <2>1. clean
    <3>1. CASE IssueStart
      BY <3>1 DEF IssueStart
    <3>2. CASE Tick
      BY <3>2 DEF Tick
    <3>3. CASE Crash
      BY <3>3 DEF Crash
    <3>4. CASE UNCHANGED vars
      BY <3>4 DEF vars
    <3>5. QED
      BY <3>1, <3>2, <3>3, <3>4
  <2>2. CalmOK /\ TypeOK
    BY <2>1 DEF LInv
  <2>3. QED
    BY <2>1, <2>2 DEF TypeOK
<1>1. CASE IssueStart \/ UNCHANGED vars
  BY <1>0, <1>1 DEF IssueStart, vars, CalmOK, ReadOK, Promised, P!vars
<1>2. CASE Tick
  <2>1. CalmOK'
    BY <1>0, <1>2 DEF Tick, CalmOK, ReadOK
  <2>2. P!Next
    BY <1>2 DEF Tick, P!Next, P!Tick
  <2>3. QED
    BY <2>1, <2>2 DEF Promised
<1>3. CASE Crash
  BY <1>0, <1>3 DEF Crash, CalmOK, ReadOK, Applying, Promised, P!vars
<1>4. QED
  BY <1>1, <1>2, <1>3

LEMMA StepPromised == LInv /\ [Next]_vars /\ clean' => Promised
BY BeginPromised, StartPromised, ContinuePromised, ApplyPromised, OthersPromised DEF Next

LEMMA LifecycleStep == LInv /\ [Next]_vars => LInv'
BY StepTyped, StepShape, StepPromised DEF LInv, Promised

LEMMA LifecycleHolds == Spec => []LInv
BY LifecycleInitially, LifecycleStep, PTL DEF Spec

\* The columns of the school, the queue's job and every handler in flight keep
\* their types, and isActive is always what the lifecycle status says.
THEOREM LifecycleTyped == Spec => [](TypeOK /\ isActive = (life # "DEACTIVATED"))
<1>1. LInv => TypeOK /\ isActive = (life # "DEACTIVATED")
  BY DEF LInv
<1>2. QED
  BY <1>1, LifecycleHolds, PTL

\* Whatever crashes, as long as handlers do not overlap and jobs are removed when
\* told to: a school is closed on the announced date or later, and only if the
\* close was not cancelled.
THEOREM ClosesAsAnnounced == Spec => KeepsCloseProtocol
<1>1. Init => P!Init
  BY DEF Init, P!Init
<1>2. LInv /\ [Next]_vars => [clean' => [P!Next]_(P!vars)]_vars
  BY StepPromised DEF Promised
<1>3. QED
  BY <1>1, <1>2, LifecycleHolds, PTL DEF Spec, KeepsCloseProtocol
-----------------------------------------------------------------------------
(* What the transfer service sees.                                         *)

Owing == \E p \in Procs : pc[p] = "applyAdd"

\* No step of a request or of a tick makes or ends a handler that owes a job.
LEMMA RequestsOweNothing ==
  ASSUME LInv, NEW r \in Requests, Begin(r) \/ Continue(r)
  PROVE  Owing' = Owing
<1>1. pc \in [Procs -> PCs] /\ pc[r] # "applyAdd"
  BY DEF LInv, TypeOK, KindsOK, Applying
<1>2. CASE Begin(r)
  BY <1>1, <1>2 DEF Begin, ScheduleRead, CancelRead, ReactivateRead, Start, Owing
<1>3. CASE Continue(r)
  <2>1. pc'[r] # "applyAdd" /\ \A p \in Procs : p # r => pc'[p] = pc[p]
    BY <1>1, <1>3 DEF Continue, ScheduleWrite, ScheduleAdd, CancelRemove, CancelWrite,
                      ReactivateRemove, ReactivateWrite, Step, Go
  <2>2. QED
    BY <1>1, <2>1 DEF Owing
<1>4. QED
  BY <1>2, <1>3

LEMMA RequestsInterface ==
  ASSUME LInv, NEW r \in Requests, Begin(r) \/ Continue(r)
  PROVE  [C!Next]_(C!vars)
<1>1. Owing' = Owing /\ issues' = issues
  BY RequestsOweNothing DEF Begin, Continue, ScheduleRead, CancelRead, ReactivateRead,
       ScheduleWrite, ScheduleAdd, CancelRemove, CancelWrite, ReactivateRemove, ReactivateWrite
<1>2. life' = life \/ life' # "DEACTIVATED"
  BY DEF Begin, Continue, ScheduleRead, CancelRead, ReactivateRead, SetRow,
       ScheduleWrite, ScheduleAdd, CancelRemove, CancelWrite, ReactivateRemove, ReactivateWrite
<1>3. CASE life' = life
  BY <1>1, <1>3 DEF C!vars, Owing
<1>4. CASE life' # "DEACTIVATED"
  <2>1. C!Reactivate(School)
    BY <1>1, <1>4 DEF C!Reactivate, Owing
  <2>2. QED
    BY <2>1 DEF C!Next
<1>5. QED
  BY <1>2, <1>3, <1>4

LEMMA ApplyInterface ==
  ASSUME LInv, NEW p \in {Worker, Cron}, Apply(p)
  PROVE  [C!Next]_(C!vars)
<1>0. /\ pc \in [Procs -> PCs] /\ p \in Procs /\ issues \in Nat
  BY LifecycleAssumption DEF LInv, TypeOK
<1>1. CASE ApplyRead(p)
  <2>1. Owing' = Owing /\ issues' = issues /\ life' = life
    BY <1>0, <1>1 DEF ApplyRead, Step, Go, Owing
  <2>2. QED
    BY <2>1 DEF C!vars, Owing
<1>2. CASE ApplyWrite(p)
  <2>1. Owing' /\ issues' = issues /\ life' = "DEACTIVATED"
    BY <1>0, <1>2 DEF ApplyWrite, Step, Go, SetRow, Owing
  <2>2. C!Deactivate(School)
    BY <2>1 DEF C!Deactivate, Owing
  <2>3. QED
    BY <2>2 DEF C!Next
<1>3. CASE ApplyAdd(p)
  <2>1. Owing /\ issues' = issues + 1 /\ life' = life
    BY <1>0, <1>3 DEF ApplyAdd, Step, Go, Owing
  <2>2. C!Queue(School)
    BY <1>0, <2>1 DEF C!Queue, Owing
  <2>3. QED
    BY <2>2 DEF C!Next
<1>4. QED
  BY <1>1, <1>2, <1>3 DEF Apply

LEMMA OthersInterface ==
  ASSUME LInv, JobStart \/ CronStart \/ IssueStart \/ Tick \/ Crash \/ UNCHANGED vars
  PROVE  [C!Next]_(C!vars)
<1>0. /\ pc \in [Procs -> PCs] /\ issues \in Nat
  BY LifecycleAssumption DEF LInv, TypeOK
<1>1. CASE JobStart \/ CronStart
  <2>1. Owing' = Owing /\ issues' = issues /\ life' = life
    BY <1>0, <1>1 DEF JobStart, CronStart, Start, Owing
  <2>2. QED
    BY <2>1 DEF C!vars, Owing
<1>2. CASE IssueStart
  <2>1. Owing' = Owing /\ issues > 0 /\ issues' = issues - 1 /\ life' = life
    BY <1>2 DEF IssueStart, Owing
  <2>2. C!Take(School)
    BY <1>0, <2>1 DEF C!Take, Owing
  <2>3. QED
    BY <2>2 DEF C!Next
<1>3. CASE Tick \/ UNCHANGED vars
  BY <1>3 DEF Tick, vars, C!vars
<1>4. CASE Crash
  <2>1. ~Owing' /\ issues' = issues /\ life' = life
    BY <1>4 DEF Crash, Owing
  <2>2. C!Forget
    BY <2>1 DEF C!Forget, Owing
  <2>3. QED
    BY <2>2 DEF C!Next
<1>5. QED
  BY <1>1, <1>2, <1>3, <1>4

\* Whatever overlaps or crashes, the transfer service gets the interface it is
\* written against: an issuing job is queued for a school only after a handler
\* deactivated it, and a school leaves DEACTIVATED only by being reopened.
THEOREM LifecycleImplementsClosure == Spec => ImplementsSchoolClosure
<1>1. Init => C!Init
  BY DEF Init, C!Init
<1>2. LInv /\ [Next]_vars => [C!Next]_(C!vars)
  BY RequestsInterface, ApplyInterface, OthersInterface DEF Next
<1>3. QED
  BY <1>1, <1>2, LifecycleHolds, PTL DEF Spec, ImplementsSchoolClosure, C!Spec
=============================================================================
