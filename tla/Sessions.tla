------------------------------ MODULE Sessions ------------------------------
(***************************************************************************)
(* Academic sessions, their terms and the enrollments that follow them:    *)
(* src/src/sessions/session.service.ts, and the enrollment a new student   *)
(* gets in src/src/students/student-admission.service.ts.                  *)
(*                                                                         *)
(* One school, one school type.  The service opens no transaction: each    *)
(* handler is one query after another, and every query whose answer or     *)
(* effect another request can get between is an action here.  req[r] keeps *)
(* what the handler of r has read.                                         *)
(*                                                                         *)
(* Sessions are numbered in the order they are created, which is taken to  *)
(* be the order of their start dates.  Bounds: MaxSessions, MaxRequests.   *)
(***************************************************************************)
EXTENDS Naturals, Sequences, FiniteSets

CONSTANTS
  Students, Requests, NoStudent, NoTerm,
  TermCount,        \* 3 terms, 2 semesters for TERTIARY
  MaxNumber,        \* the highest number createTerm accepts, 3
  TopLevel,         \* levels are 1 .. TopLevel, 0 a level of unknown name
  MaxSessions, MaxRequests

VARIABLES
  sessions,         \* status of each academic session
  terms,            \* status of each term: a session and a number
  roll,             \* the enrollments of each student, in creation order
  req,              \* the requests in flight
  started,          \* bound: how many requests there were
  calm              \* history: requests came one at a time, none failed or was
                    \* refused half way, and none started or continued a term
                    \* of a session that is not the newest

vars == <<sessions, terms, roll, req, started, calm>>
-----------------------------------------------------------------------------
SessionIds == 1 .. MaxSessions
Numbers == 1 .. MaxNumber
Terms == SessionIds \X Numbers
Levels == 0 .. TopLevel

ASSUME SessionsAssumption ==
  /\ TermCount \in Nat /\ MaxNumber \in Nat /\ TermCount <= MaxNumber
  /\ TopLevel \in Nat /\ MaxSessions \in Nat /\ MaxRequests \in Nat
  /\ NoTerm \notin Terms /\ NoStudent \notin Students

SessionStatus == {"none", "ACTIVE", "COMPLETED"}
TermStatus == {"none", "DRAFT", "ACTIVE", "COMPLETED"}

Enrollment == [term : Terms \cup {NoTerm}, level : Levels, active : BOOLEAN]

Ops == {"idle", "count", "close", "create", "retire", "addTerm", "endTerms",
        "previous", "select", "move", "insert", "leave", "activate",
        "completePrevious", "endTerm", "endSessionTerms", "endSession",
        "endSiblings", "reactivate", "reopen", "admit"}

\* new: a session is being started.  carry: students keep their level.
\* at: the student and the enrollment the migration has come to.
SessionRequest ==
  [op : Ops, term : Terms \cup {NoTerm}, prev : Terms \cup {NoTerm},
   session : Nat, number : Nat, new : BOOLEAN, carry : BOOLEAN,
   todo : SUBSET (Students \X Nat), student : Students \cup {NoStudent},
   row : Nat]

Idle ==
  [op |-> "idle", term |-> NoTerm, prev |-> NoTerm, session |-> 0,
   number |-> 0, new |-> FALSE, carry |-> FALSE, todo |-> {},
   student |-> NoStudent, row |-> 0]

TypeOK ==
  /\ sessions \in [SessionIds -> SessionStatus]
  /\ terms \in [Terms -> TermStatus]
  /\ roll \in [Students -> Seq(Enrollment)]
  /\ req \in [Requests -> SessionRequest]
  /\ started \in Nat
  /\ calm \in BOOLEAN

Init ==
  /\ sessions = [s \in SessionIds |-> "none"]
  /\ terms = [t \in Terms |-> "none"]
  /\ roll = [st \in Students |-> << >>]
  /\ req = [r \in Requests |-> Idle]
  /\ started = 0
  /\ calm = TRUE
-----------------------------------------------------------------------------
ActiveSessions == {s \in SessionIds : sessions[s] = "ACTIVE"}
ActiveTerms == {t \in Terms : terms[t] = "ACTIVE"}
Known == {s \in SessionIds : sessions[s] # "none"}

\* The order of startDate, then number.
Later(t, u) == t[1] > u[1] \/ (t[1] = u[1] /\ t[2] > u[2])
Newest(T) ==
  IF T = {} THEN NoTerm ELSE CHOOSE t \in T : \A u \in T \ {t} : Later(t, u)

EnrolledIn(st, t) == \E i \in DOMAIN roll[st] : roll[st][i].term = t

Quiet == \A r \in Requests : req[r].op = "idle"

\* A request comes in and its handler goes on with what it has read.
Begin(r, rec, ordinary) ==
  /\ req[r].op = "idle" /\ started < MaxRequests
  /\ req' = [req EXCEPT ![r] = rec]
  /\ started' = started + 1
  /\ calm' = (calm /\ ordinary /\ Quiet)
  /\ UNCHANGED <<sessions, terms, roll>>

Goto(r, op) == req' = [req EXCEPT ![r].op = op]
Finish(r) == req' = [req EXCEPT ![r] = Idle]

SetSession(s, v) ==
  /\ sessions' = [sessions EXCEPT ![s] = v]
  /\ UNCHANGED <<terms, roll, started, calm>>

SetTerms(T, v) ==
  /\ terms' = [t \in Terms |-> IF t \in T THEN v ELSE terms[t]]
  /\ UNCHANGED <<sessions, roll, started, calm>>

SetRoll(st, rows) ==
  /\ roll' = [roll EXCEPT ![st] = rows]
  /\ UNCHANGED <<sessions, terms, started, calm>>

OnlyReq == UNCHANGED <<sessions, terms, roll, started, calm>>
-----------------------------------------------------------------------------
(* startNewTerm, NEW_SESSION.  An active session in the way is completed   *)
(* when it has no active term, and refuses the request otherwise.          *)

StartSession(r, number, carry) ==
  LET rec == [Idle EXCEPT !.new = TRUE, !.number = number, !.carry = carry]
  IN  IF ActiveSessions = {}
      THEN Begin(r, [rec EXCEPT !.op = "create"], TRUE)
      ELSE \E s \in ActiveSessions :
             Begin(r, [rec EXCEPT !.op = "count", !.session = s], TRUE)

\* completeSessionIfNoActiveTerms: the count, then the write.  Refused, a new
\* session is a conflict; endTerm just leaves the session open.
Count(r) ==
  /\ req[r].op = "count"
  /\ IF \E t \in ActiveTerms : t[1] = req[r].session
     THEN Finish(r) ELSE Goto(r, "close")
  /\ OnlyReq

Close(r) ==
  /\ req[r].op = "close"
  /\ SetSession(req[r].session, "COMPLETED")
  /\ IF req[r].new THEN Goto(r, "create") ELSE Finish(r)

CreateSession(r) ==
  /\ req[r].op = "create"
  /\ \E s \in SessionIds \ Known :
       /\ \A u \in SessionIds \ Known : s <= u
       /\ SetSession(s, "ACTIVE")
       /\ req' = [req EXCEPT ![r].op = "retire", ![r].session = s]

\* The other active sessions are completed, and only then is the number of
\* the starting term looked at: refused, the new session stays, with no term.
RetireSessions(r) ==
  /\ req[r].op = "retire"
  /\ sessions' = [s \in SessionIds |->
                    IF s # req[r].session /\ sessions[s] = "ACTIVE"
                    THEN "COMPLETED" ELSE sessions[s]]
  /\ calm' = (calm /\ req[r].number <= TermCount)
  /\ UNCHANGED <<terms, roll, started>>
  /\ IF req[r].number > TermCount
     THEN Finish(r)
     ELSE req' = [req EXCEPT ![r].op = "addTerm", ![r].row = 1,
                             ![r].term = <<req[r].session, req[r].number>>]

\* The terms are created one by one, those before the starting one COMPLETED;
\* a session has one term of each number, so createTerm can get in the way.
FirstStatus(n, starting) ==
  IF n = starting THEN "ACTIVE" ELSE IF n < starting THEN "COMPLETED" ELSE "DRAFT"

AddTerm(r) ==
  LET t == <<req[r].session, req[r].row>>
  IN  /\ req[r].op = "addTerm"
      /\ \/ /\ terms[t] # "none"
            /\ Finish(r) /\ OnlyReq
         \/ /\ terms[t] = "none"
            /\ SetTerms({t}, FirstStatus(req[r].row, req[r].number))
            /\ req' = IF req[r].row < TermCount
                      THEN [req EXCEPT ![r].row = @ + 1]
                      ELSE [req EXCEPT ![r].op = "endTerms", ![r].row = 0]

EndOtherTerms(r) ==
  /\ req[r].op = "endTerms"
  /\ SetTerms(ActiveTerms \ {req[r].term}, "COMPLETED")
  /\ Goto(r, "previous")

\* Both migrations of a new session, and promoteStudents, look for the newest
\* other term that is or was active.
FindPrevious(r) ==
  /\ req[r].op = "previous"
  /\ req' = [req EXCEPT ![r].op = "select",
       ![r].prev = Newest({t \in Terms \ {req[r].term} :
                             terms[t] \in {"ACTIVE", "COMPLETED"}})]
  /\ OnlyReq
-----------------------------------------------------------------------------
(* startNewTerm, NEW_TERM: neither the status of the term nor that of its  *)
(* session is looked at.                                                   *)

StartTerm(r, t) ==
  /\ terms[t] # "none"
  /\ Begin(r, [Idle EXCEPT !.op = "activate", !.term = t, !.carry = TRUE,
                 !.prev = Newest({u \in ActiveTerms \ {t} : u[1] = t[1]})],
           \A s \in Known : s <= t[1])

\* Mutant: leaves the term before as it is.
MutantActivateOnly(r) ==
  /\ req[r].op = "activate"
  /\ SetTerms({req[r].term}, "ACTIVE")
  /\ Goto(r, "select")

Activate(r) ==
  /\ req[r].op = "activate"
  /\ SetTerms({req[r].term}, "ACTIVE")
  /\ Goto(r, IF req[r].prev = NoTerm THEN "select" ELSE "completePrevious")

CompletePrevious(r) ==
  /\ req[r].op = "completePrevious"
  /\ SetTerms({req[r].prev}, "COMPLETED")
  /\ Goto(r, "select")

\* migrateStudents: carry over from the term before, or promote.
Migrate(r, t, carry) ==
  LET before == {u \in Terms : u[1] = t[1] /\ u[2] < t[2] /\ terms[u] # "none"}
      rec == [Idle EXCEPT !.term = t, !.carry = carry]
  IN  /\ terms[t] # "none"
      /\ \/ /\ carry /\ before # {}
            /\ Begin(r, [rec EXCEPT !.op = "select", !.prev = Newest(before)], TRUE)
         \/ /\ ~carry
            /\ Begin(r, [rec EXCEPT !.op = "previous"], TRUE)
-----------------------------------------------------------------------------
(* carryOverStudents, promoteStudents and promoteStudentsWithTracking      *)

\* Mutant: without those of no term.
MutantSelectTermOnly(prev) ==
  {e \in UNION {{st} \X DOMAIN roll[st] : st \in Students} :
     roll[e[1]][e[2]].active /\ roll[e[1]][e[2]].term = prev}

\* The active enrollments of the previous term, and those of no term.
Selected(prev) ==
  {e \in UNION {{st} \X DOMAIN roll[st] : st \in Students} :
     LET row == roll[e[1]][e[2]]
     IN  row.active /\ row.term \in {prev, NoTerm}}

SelectEnrollments(r) ==
  /\ req[r].op = "select"
  /\ req' = [req EXCEPT ![r].op = "move", ![r].todo = Selected(req[r].prev)]
  /\ OnlyReq

Moved(r, e) == [req EXCEPT ![r].op = "move", ![r].todo = @ \ {e},
                           ![r].student = NoStudent, ![r].row = 0]

At(r, e, op) == [req EXCEPT ![r].op = op, ![r].todo = @ \ {e},
                            ![r].student = e[1], ![r].row = e[2]]

\* The level after this one; the last has none, and its students graduate.
LevelAfter(level) == level + 1

Graduates(level) == level = TopLevel

NewRow(t, level) == [term |-> t, level |-> level, active |-> TRUE]
Deactivated(st, i) == [roll[st] EXCEPT ![i].active = FALSE]

\* Carry over: a student who has an enrollment in the term is left alone.
CarryCheck(r, e) ==
  /\ req[r].op = "move" /\ req[r].carry /\ e \in req[r].todo
  /\ req' = IF EnrolledIn(e[1], req[r].term) THEN Moved(r, e) ELSE At(r, e, "insert")
  /\ OnlyReq

\* One enrollment per student and term: the second insert throws, and the
\* migration ends where it is.
CarryInsert(r) ==
  LET st == req[r].student
  IN  /\ req[r].op = "insert"
      /\ \/ /\ EnrolledIn(st, req[r].term)
            /\ Finish(r) /\ OnlyReq
         \/ /\ ~EnrolledIn(st, req[r].term)
            /\ SetRoll(st, Append(roll[st],
                             NewRow(req[r].term, roll[st][req[r].row].level)))
            /\ req' = Moved(r, <<st, req[r].row>>)

\* Mutant: lets go of the old enrollment before the new one is written.
MutantLeaveFirst(r, e) ==
  /\ req[r].op = "move" /\ ~req[r].carry /\ e \in req[r].todo
  /\ SetRoll(e[1], Deactivated(e[1], e[2]))
  /\ req' = At(r, e, "insert")

\* Promotion: into the next level, or out of the last one; a level of unknown
\* name is skipped.
Promote(r, e) ==
  LET st == e[1]
      level == roll[st][e[2]].level
  IN  /\ req[r].op = "move" /\ ~req[r].carry /\ e \in req[r].todo
      /\ \/ /\ level = 0
            /\ req' = Moved(r, e) /\ OnlyReq
         \/ /\ level # 0 /\ Graduates(level)
            /\ SetRoll(st, Deactivated(st, e[2]))
            /\ req' = Moved(r, e)
         \/ /\ level # 0 /\ ~Graduates(level) /\ EnrolledIn(st, req[r].term)
            /\ Finish(r) /\ OnlyReq
         \/ /\ level # 0 /\ ~Graduates(level) /\ ~EnrolledIn(st, req[r].term)
            /\ SetRoll(st, Append(roll[st], NewRow(req[r].term, LevelAfter(level))))
            /\ req' = At(r, e, "leave")

LeaveOld(r) ==
  /\ req[r].op = "leave"
  /\ SetRoll(req[r].student, Deactivated(req[r].student, req[r].row))
  /\ req' = Moved(r, <<req[r].student, req[r].row>>)

MigrationDone(r) ==
  /\ req[r].op = "move" /\ req[r].todo = {}
  /\ Finish(r) /\ OnlyReq
-----------------------------------------------------------------------------
EndTerm(r) ==
  \E t \in ActiveTerms :
    Begin(r, [Idle EXCEPT !.op = "endTerm", !.term = t, !.session = t[1]], TRUE)

EndTermWrite(r) ==
  /\ req[r].op = "endTerm"
  /\ SetTerms({req[r].term}, "COMPLETED")
  /\ Goto(r, "count")

EndSession(r) ==
  \E s \in ActiveSessions :
    Begin(r, [Idle EXCEPT !.op = "endSessionTerms", !.session = s], TRUE)

EndSessionTerms(r) ==
  /\ req[r].op = "endSessionTerms"
  /\ SetTerms({t \in Terms : t[1] = req[r].session /\ terms[t] # "none"}, "COMPLETED")
  /\ Goto(r, "endSession")

EndSessionWrite(r) ==
  /\ req[r].op = "endSession"
  /\ SetSession(req[r].session, "COMPLETED")
  /\ Finish(r)

\* A completed term may be continued as long as its end date has not passed.
Reactivate(r, t) ==
  /\ terms[t] = "COMPLETED"
  /\ Begin(r, [Idle EXCEPT !.op = "endSiblings", !.term = t, !.session = t[1]],
           \A s \in Known : s <= t[1])

EndSiblings(r) ==
  /\ req[r].op = "endSiblings"
  /\ SetTerms({t \in ActiveTerms : t[1] = req[r].session}, "COMPLETED")
  /\ Goto(r, "reactivate")

ReactivateWrite(r) ==
  /\ req[r].op = "reactivate"
  /\ SetTerms({req[r].term}, "ACTIVE")
  /\ Goto(r, "reopen")

Reopen(r) ==
  /\ req[r].op = "reopen"
  /\ SetSession(req[r].session, "ACTIVE")
  /\ Finish(r)

\* createTerm: a number the session does not have yet, in DRAFT.
CreateTerm(t) ==
  /\ sessions[t[1]] # "none" /\ terms[t] = "none"
  /\ started < MaxRequests /\ started' = started + 1
  /\ terms' = [terms EXCEPT ![t] = "DRAFT"]
  /\ calm' = (calm /\ Quiet)
  /\ UNCHANGED <<sessions, roll, req>>
-----------------------------------------------------------------------------
(* addStudent: a new student is enrolled in the active term of an active   *)
(* session (of the highest number), or in no term when there is none.      *)

Admissible ==
  {t \in ActiveTerms : sessions[t[1]] = "ACTIVE"}

AdmitRead(r, st) ==
  \E t \in Terms \cup {NoTerm} :
    /\ roll[st] = << >>
    /\ IF Admissible = {} THEN t = NoTerm
       ELSE t \in Admissible /\ \A u \in Admissible : u[2] <= t[2]
    /\ Begin(r, [Idle EXCEPT !.op = "admit", !.student = st, !.term = t], TRUE)

AdmitWrite(r, level) ==
  LET st == req[r].student
  IN  /\ req[r].op = "admit"
      /\ roll[st] = << >>
      /\ SetRoll(st, << NewRow(req[r].term, level) >>)
      /\ Finish(r)

\* Any query may fail, a check on dates or names may refuse, and a restart
\* ends every handler: what was written stays.
Fail(r) ==
  /\ req[r].op # "idle"
  /\ Finish(r)
  /\ calm' = FALSE
  /\ UNCHANGED <<sessions, terms, roll, started>>
-----------------------------------------------------------------------------
Receive(r) ==
  \/ \E n \in 1 .. MaxNumber, c \in BOOLEAN : StartSession(r, n, c)
  \/ \E t \in Terms : StartTerm(r, t) \/ Reactivate(r, t)
  \/ \E t \in Terms, c \in BOOLEAN : Migrate(r, t, c)
  \/ EndTerm(r) \/ EndSession(r)
  \/ \E st \in Students : AdmitRead(r, st)

Step(r) ==
  \/ Count(r) \/ Close(r) \/ CreateSession(r) \/ RetireSessions(r)
  \/ AddTerm(r) \/ EndOtherTerms(r) \/ FindPrevious(r)
  \/ Activate(r) \/ CompletePrevious(r) \/ SelectEnrollments(r)
  \/ \E e \in req[r].todo : CarryCheck(r, e) \/ Promote(r, e)
  \/ CarryInsert(r) \/ LeaveOld(r) \/ MigrationDone(r)
  \/ EndTermWrite(r) \/ EndSessionTerms(r) \/ EndSessionWrite(r)
  \/ EndSiblings(r) \/ ReactivateWrite(r) \/ Reopen(r)
  \/ \E level \in Levels : AdmitWrite(r, level)

Next ==
  \/ \E r \in Requests : Receive(r) \/ Step(r) \/ Fail(r)
  \/ \E t \in Terms : CreateTerm(t)

Spec == Init /\ [][Next]_vars
-----------------------------------------------------------------------------
(* No student drops off the roll: an enrollment that is no longer active   *)
(* has a newer one after it, or was of the last level.  The promotion      *)
(* writes the new enrollment before it lets go of the old one, so this     *)
(* holds with any number of migrations in each other's way, and when one   *)
(* stops half way (promoteStudents, promoteStudentsWithTracking).          *)
NeverDropped ==
  \A st \in Students : \A i \in DOMAIN roll[st] :
    ~roll[st][i].active =>
      \/ i < Len(roll[st])
      \/ Graduates(roll[st][i].level)

(* As long as requests come one at a time, none fails or is refused half   *)
(* way and terms are started and continued in the newest session only, a   *)
(* school type has one active session and one active term between          *)
(* requests: what getActiveSession's findFirst and endTerm's rely on.      *)
OneActive ==
  calm /\ Quiet =>
    /\ \A s, u \in ActiveSessions : s = u
    /\ \A t, u \in ActiveTerms : t = u

(* A migration that runs to its end leaves nobody behind when requests     *)
(* come one at a time: of the enrollments it is about (those of the        *)
(* previous term and of no term), carry over leaves none without a match   *)
(* in the new term, and promotion none active but those of a level whose   *)
(* name it cannot resolve.                                                 *)
NobodyLeftBehind ==
  [][\A r \in Requests : calm /\ MigrationDone(r) =>
       \A st \in Students : \A i \in DOMAIN roll[st] :
         roll[st][i].active /\ roll[st][i].term \in {req[r].prev, NoTerm} =>
           IF req[r].carry THEN EnrolledIn(st, req[r].term)
           ELSE roll[st][i].level = 0]_vars

NewestRow(st) == roll[st][Len(roll[st])]

(* Carry over keeps students in the exact same class: the enrollment it    *)
(* adds has the level of the student's newest one.                         *)
CarryKeepsLevel ==
  [][\A r \in Requests : calm /\ CarryInsert(r) =>
       \A st \in Students : Len(roll'[st]) > Len(roll[st]) =>
         roll'[st][Len(roll'[st])].level = NewestRow(st).level]_vars
=============================================================================
