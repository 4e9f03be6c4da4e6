------------------------------ MODULE Timetable ------------------------------
(***************************************************************************)
(* The weekly timetable of a school's class arms, for one term:            *)
(* src/src/timetable/timetable.service.ts, and the curator that fills the  *)
(* empty slots of an arm, timetable-curator.service.ts and .solver.ts.     *)
(*                                                                         *)
(* A request checks and then writes; no transaction holds the two          *)
(* together.  book[r] is what the handler of r has found out.  Not here:   *)
(* TERTIARY classes, which have courses for subjects and no arms, exam     *)
(* timetables, and how the curator's random choices are distributed.       *)
(* Bounds: MaxPeriods, MaxBookings, and what Offers and Updates list.      *)
(***************************************************************************)
EXTENDS Naturals, FiniteSets, Functions

CONSTANTS
  Arms, PrimaryArms,        \* the other arms are SECONDARY
  Days, Bell,               \* days are numbers; a period lies in 0 .. Bell
  Subjects, Teachers, Rooms, None,
  FormTeacher,              \* the class teacher of a primary arm, if any
  Competent,                \* the teachers of a subject
  Templates,                \* the bell schedule: start, end and type
  DailyCap, SamePerDay,     \* limits of the curator
  Offers,                   \* what the requests ask for
  Updates,                  \* the fields the dto of an update gives
  Payloads,                 \* timetables the admin's editor sends
  Clients, MaxPeriods, MaxBookings

VARIABLES
  periods,      \* TimetablePeriod
  assigned,     \* ClassTeacher of a subject in a secondary arm
  book,         \* the requests in flight
  made,         \* ids given out
  booked,       \* bound: how many requests there were
  calmly,       \* history: requests came one at a time
  checked       \* history: and no write went past the conflict check

ttVars == <<periods, assigned, book, made, booked, calmly, checked>>
-----------------------------------------------------------------------------
Slot == [day : Days, start : 0 .. Bell, end : 0 .. Bell]

\* A period without its id.  A dto may leave its type out.
Kinds == {"LESSON", "BREAK"}
ContentOf(kinds) ==
  [arm : Arms, day : Days, start : 0 .. Bell, end : 0 .. Bell, type : kinds,
   subject : Subjects \cup {None}, teacher : Teachers \cup {None},
   room : Rooms \cup {None}]
Content == ContentOf(Kinds)
Fields == {"arm", "day", "start", "end", "type", "subject", "teacher", "room"}
Period == [id : 1 .. MaxPeriods, c : Content]

ASSUME TimetableAssumption ==
  /\ PrimaryArms \subseteq Arms /\ Days \subseteq Nat /\ Bell \in Nat
  /\ FormTeacher \in [PrimaryArms -> Teachers \cup {None}]
  /\ Competent \in [Subjects -> SUBSET Teachers]
  /\ None \notin Arms \cup Subjects \cup Teachers \cup Rooms
  /\ IsFiniteSet(Arms) /\ IsFiniteSet(Days)
  /\ IsFiniteSet(Subjects) /\ IsFiniteSet(Teachers) /\ IsFiniteSet(Rooms)
  /\ Offers \subseteq ContentOf(Kinds \cup {"none"})
  /\ Updates \subseteq SUBSET Fields
  /\ Payloads \subseteq SUBSET Content
  /\ Templates \subseteq [start : 0 .. Bell, end : 0 .. Bell, type : Kinds]
  /\ MaxPeriods \in Nat /\ MaxBookings \in Nat

NoBooking == [op |-> "idle"]

\* A handler: about to write a period, to change one, to look after the
\* assignment of a lesson, or filling the slots of an arm.
Booking ==
  {NoBooking}
  \cup [op : {"create", "sync", "assign"}, c : Content]
  \cup [op : {"update"}, id : 1 .. MaxPeriods, c : Content, given : SUBSET Fields]
  \cup [op : {"fill"}, arm : Arms, fill : BOOLEAN, rows : SUBSET Content,
        load : [Teachers \X Days -> Nat], todo : SUBSET Slot]

TimetableTypeOK ==
  /\ periods \subseteq Period
  /\ \A p, q \in periods : p.id = q.id => p = q
  /\ assigned \in [(Arms \ PrimaryArms) \X Subjects -> Teachers \cup {None}]
  /\ book \in [Clients -> Booking]
  /\ made \in 0 .. MaxPeriods /\ booked \in 0 .. MaxBookings
  /\ calmly \in BOOLEAN /\ checked \in BOOLEAN

TimetableInit ==
  /\ periods = {}
  /\ assigned = [x \in (Arms \ PrimaryArms) \X Subjects |-> None]
  /\ book = [r \in Clients |-> NoBooking]
  /\ made = 0 /\ booked = 0
  /\ calmly = TRUE /\ checked = TRUE
-----------------------------------------------------------------------------
Of(arm) == {p \in periods : p.c.arm = arm}

\* The unique index on the class arm, the day and the start.
SameKey(c, d) == c.arm = d.arm /\ c.day = d.day /\ c.start = d.start
KeyTaken(c, P) == \E p \in P : SameKey(p.c, c)

Overlap(c, d) == c.day = d.day /\ c.start < d.end /\ d.start < c.end
SameTeacher(c, d) == c.teacher # None /\ c.teacher = d.teacher
SameRoom(c, d) == c.room # None /\ c.room = d.room

\* detectConflicts asks only for the lessons of the same class arm.
Conflicts(c, P) ==
  /\ c.type = "LESSON"
  /\ \E p \in P : /\ p.c.arm = c.arm /\ p.c.type = "LESSON"
                  /\ Overlap(p.c, c)
                  /\ SameTeacher(p.c, c) \/ SameRoom(p.c, c)

\* PRIMARY lessons without a teacher get the class teacher.
Filled(c) ==
  IF c.arm \in PrimaryArms /\ c.type = "LESSON" /\ c.teacher = None
  THEN [c EXCEPT !.teacher = FormTeacher[c.arm]] ELSE c

\* createMany of contents whose keys differ, or nothing at all.
Insert(C, P) ==
  LET fresh == CHOOSE f \in [C -> made + 1 .. made + Cardinality(C)] :
                 \A c, d \in C : f[c] = f[d] => c = d
  IN  /\ made + Cardinality(C) <= MaxPeriods
      /\ made' = made + Cardinality(C)
      /\ periods' = P \cup {[id |-> fresh[c], c |-> c] : c \in C}

Distinct(C) == \A c, d \in C : SameKey(c, d) => c = d

Arrive(r, safe) ==
  /\ book[r] = NoBooking /\ booked < MaxBookings
  /\ booked' = booked + 1
  /\ calmly' = (calmly /\ \A o \in Clients : book[o] = NoBooking)
  /\ checked' = (checked /\ safe)

Become(r, state) == book' = [book EXCEPT ![r] = state]
OnlyBook == UNCHANGED <<periods, assigned, made, booked, calmly, checked>>

\* A written lesson of a secondary arm is synchronised with ClassTeacher.
Written(r, c) ==
  Become(r, IF c.type = "LESSON" /\ c.subject # None /\ c.teacher # None
            THEN [op |-> "sync", c |-> c] ELSE NoBooking)
-----------------------------------------------------------------------------
(* createPeriod.  An offer whose type is left out is stored as a LESSON    *)
(* and not checked.                                                        *)

CreateCheck(r) ==
  \E o \in Offers :
    LET c == [o EXCEPT !.type = IF @ = "none" THEN "LESSON" ELSE @]
    IN  /\ o.type = "none" \/ ~Conflicts(c, periods)
        /\ c.start < c.end
        /\ Arrive(r, o.type # "none" /\ Filled(c) = c)
        /\ Become(r, [op |-> "create", c |-> Filled(c)])
        /\ UNCHANGED <<periods, assigned, made>>

CreateWrite(r) ==
  /\ book[r].op = "create"
  /\ IF KeyTaken(book[r].c, periods)
     THEN Become(r, NoBooking) /\ UNCHANGED <<periods, made>>
     ELSE Insert({book[r].c}, periods) /\ Written(r, book[r].c)
  /\ UNCHANGED <<assigned, booked, calmly, checked>>

(* updatePeriod.  The dto gives some of the fields, each on its own, and    *)
(* may name nobody for the teacher or the room.                            *)

Merge(c, d, given) ==
  LET from(f) == IF f \in given THEN d ELSE c
  IN  [arm |-> from("arm").arm, day |-> from("day").day,
       start |-> from("start").start, end |-> from("end").end,
       type |-> from("type").type, subject |-> from("subject").subject,
       teacher |-> from("teacher").teacher, room |-> from("room").room]

Timed(given) == given \cap {"start", "end"} # {}

\* The dto names a teacher or a room.
Staffed(d, given) ==
  \/ "teacher" \in given /\ d.teacher # None
  \/ "room" \in given /\ d.room # None

\* A mistake: the times are changed without a look at the arm's other periods.
MutantTimesUnchecked(p, c, given) ==
  /\ Timed(given) => c.start < c.end
  /\ Staffed(c, given) => ~Conflicts(c, periods \ {p})

\* Teacher and room are looked at when the dto names one, the other periods of
\* the arm when it gives a time.
MayUpdate(p, c, given) ==
  LET others == periods \ {p}
  IN  /\ Staffed(c, given) => ~Conflicts(c, others)
      /\ Timed(given) =>
           /\ c.start < c.end
           /\ ~\E q \in others : q.c.arm = c.arm /\ Overlap(q.c, c)

\* Without a teacher, a room or a time, another arm, day or type is written
\* unchecked, and so is the class teacher that is filled in.
UpdateCheck(r) ==
  \E p \in periods, o \in Offers, given \in Updates \ {{}} :
    LET c == Merge(p.c, o, given)
        refill == p.c.teacher = None /\ Filled(c) # c
        past == /\ ~Staffed(c, given) /\ ~Timed(given)
                /\ given \cap {"arm", "day", "type"} # {}
    IN  /\ "type" \in given => o.type # "none"
        /\ MayUpdate(p, c, given)
        /\ Arrive(r, ~past /\ ~refill)
        /\ Become(r, [op |-> "update", id |-> p.id,
                      c |-> IF refill THEN Filled(c) ELSE c,
                      given |-> IF refill THEN given \cup {"teacher"} ELSE given])
        /\ UNCHANGED <<periods, assigned, made>>

UpdateWrite(r) ==
  /\ book[r].op = "update"
  /\ LET now == {p \in periods : p.id = book[r].id}
         new == {[p EXCEPT !.c = Merge(@, book[r].c, book[r].given)] : p \in now}
     IN  IF now = {} \/ \E p \in new : KeyTaken(p.c, periods \ now)
         THEN Become(r, NoBooking) /\ UNCHANGED periods
         ELSE /\ periods' = (periods \ now) \cup new
              /\ \E p \in new : Written(r, p.c)
  /\ UNCHANGED <<assigned, made, booked, calmly, checked>>

(* syncClassTeacherFromPeriod: looks the assignment up, then writes it.    *)

SyncRead(r) ==
  /\ book[r].op = "sync"
  /\ LET c == book[r].c
     IN  IF c.arm \in PrimaryArms \/ assigned[<<c.arm, c.subject>>] = c.teacher
         THEN Become(r, NoBooking) ELSE Become(r, [book[r] EXCEPT !.op = "assign"])
  /\ OnlyBook

SyncWrite(r) ==
  /\ book[r].op = "assign"
  /\ assigned' = [assigned EXCEPT ![<<book[r].c.arm, book[r].c.subject>>] =
                                       book[r].c.teacher]
  /\ Become(r, NoBooking)
  /\ UNCHANGED <<periods, made, booked, calmly, checked>>
-----------------------------------------------------------------------------
(* Writes that are one query, or one transaction.                          *)

\* createMasterSchedule, for one arm or for all: empty periods, those whose
\* key is taken skipped.
MasterSchedule(r) ==
  \E o \in Offers, A \in {Arms} \cup {{a} : a \in Arms} :
    LET bare == [o EXCEPT !.type = IF @ = "none" THEN "LESSON" ELSE @,
                          !.subject = None, !.teacher = None, !.room = None]
        C == {[bare EXCEPT !.arm = a] : a \in A}
    IN  /\ Arrive(r, TRUE)
        /\ Insert({c \in C : ~KeyTaken(c, periods)}, periods)
        /\ UNCHANGED <<assigned, book>>

DeletePeriod(r) ==
  /\ Arrive(r, TRUE)
  /\ \E p \in periods : periods' = periods \ {p}
  /\ UNCHANGED <<assigned, book, made>>

DeleteTimetable(r) ==
  /\ Arrive(r, TRUE)
  /\ \E a \in Arms : periods' = periods \ Of(a)
  /\ UNCHANGED <<assigned, book, made>>

\* replaceTimetable: delete and insert in one transaction, which fails as a
\* whole on two periods with one key.  Nothing is checked or synchronised.
Swap(arm, C) ==
  IF Distinct(C)
  THEN Insert(C, periods \ Of(arm))
  ELSE UNCHANGED <<periods, made>>

Replace(r) ==
  /\ Arrive(r, FALSE)
  /\ \E a \in Arms, C \in Payloads : Swap(a, {[c EXCEPT !.arm = a] : c \in C})
  /\ UNCHANGED <<assigned, book>>

\* handleAutoDeletion, at midnight: the periods older than a year.
AutoDeletion ==
  /\ \E n \in 1 .. MaxPeriods : periods' = {p \in periods : p.id > n}
  /\ periods' # periods
  /\ UNCHANGED <<assigned, book, made, booked, calmly, checked>>
-----------------------------------------------------------------------------
(* The curator: solveTimetable on what loadContext has read, then          *)
(* replaceTimetable with the result, which has lost the rooms.             *)

SlotOf(c) == [day |-> c.day, start |-> c.start, end |-> c.end]
Lesson(arm, s) ==
  [arm |-> arm, day |-> s.day, start |-> s.start, end |-> s.end,
   type |-> "LESSON", subject |-> None, teacher |-> None, room |-> None]

\* With a timetable, the slots of every day are the times its lessons have on
\* any day; without, those of the bell schedule.
Existing(arm, fill) ==
  IF fill THEN {[p.c EXCEPT !.room = None] : p \in Of(arm)} ELSE {}
Breaks(arm) ==
  {[Lesson(arm, [day |-> d, start |-> t.start, end |-> t.end]) EXCEPT !.type = t.type] :
     d \in Days, t \in {u \in Templates : u.type # "LESSON"}}
LessonSlots(rows) ==
  LET lessons == {x \in IF rows = {} THEN Templates ELSE rows : x.type = "LESSON"}
  IN  {[day |-> d, start |-> x.start, end |-> x.end] : d \in Days, x \in lessons}

\* dailyLoadTracker: the lessons a teacher has in this class on a day.
Loads(rows) ==
  [x \in Teachers \X Days |->
     Cardinality({c \in rows : c.teacher = x[1] /\ c.day = x[2]})]

Curate(r) ==
  \E a \in Arms, fill \in BOOLEAN :
    LET rows == Existing(a, fill)
    IN  /\ Arrive(r, FALSE)
        /\ Become(r, [op |-> "fill", arm |-> a, fill |-> fill,
                      rows |-> IF rows = {} THEN Breaks(a) ELSE rows,
                      load |-> Loads(rows),
                      todo |-> LessonSlots(rows)])
        /\ UNCHANGED <<periods, assigned, made>>

OnDay(rows, x, d) == {c \in rows : c.subject = x /\ c.day = d}

\* Not the subject before it, and none that the day has had enough of, while
\* there is another.
Previous(rows, s) ==
  LET before == {c \in rows : /\ c.day = s.day /\ c.start < s.start
                              /\ c.type = "LESSON" /\ c.subject # None}
  IN  {c.subject : c \in {b \in before : \A c \in before : c.start <= b.start}}
Fitting(rows, s) ==
  {x \in Subjects \ Previous(rows, s) : Cardinality(OnDay(rows, x, s.day)) < SamePerDay}
Candidates(rows, s) == IF Fitting(rows, s) = {} THEN Subjects ELSE Fitting(rows, s)

\* Which of the teachers below their cap is the least loaded is left open.
TeachersFor(load, arm, x, s) ==
  LET free == {t \in Competent[x] : load[<<t, s.day>>] < DailyCap}
  IN  IF arm \in PrimaryArms THEN {FormTeacher[arm]}
      ELSE IF free = {} THEN {None} ELSE free

\* A mistake: only a slot that has a teacher as well is passed over.
MutantTaughtOnly(rows, s) ==
  \E c \in rows : SlotOf(c) = s /\ c.subject # None /\ c.teacher # None

\* A slot that has a subject is passed over.  Of the others it is left open
\* which become free periods.
HasSubject(rows, s) == \E c \in rows : SlotOf(c) = s /\ c.subject # None

Put(rows, c) ==
  IF \E b \in rows : SlotOf(b) = SlotOf(c)
  THEN LET old == CHOOSE b \in rows : SlotOf(b) = SlotOf(c)
       IN  (rows \ {old}) \cup
           {[c EXCEPT !.teacher = IF @ = None THEN old.teacher ELSE @]}
  ELSE rows \cup {c}

FillSlot(r) ==
  /\ book[r].op = "fill"
  /\ \E s \in book[r].todo :
       LET b == book[r]
           blank == Lesson(b.arm, s)
           Goes(rows, load) ==
             Become(r, [b EXCEPT !.rows = rows, !.load = load, !.todo = @ \ {s}])
       IN  /\ \A u \in b.todo : u.day > s.day \/ (u.day = s.day /\ u.start >= s.start)
           /\ \/ HasSubject(b.rows, s) /\ Goes(b.rows, b.load)
              \/ /\ ~HasSubject(b.rows, s)
                 /\ Goes(IF \E c \in b.rows : SlotOf(c) = s
                         THEN b.rows ELSE b.rows \cup {blank}, b.load)
              \/ /\ ~HasSubject(b.rows, s)
                 /\ \E x \in Candidates(b.rows, s) :
                      \E t \in TeachersFor(b.load, b.arm, x, s) :
                        Goes(Put(b.rows, [blank EXCEPT !.subject = x, !.teacher = t]),
                             [y \in Teachers \X Days |->
                                IF y = <<t, s.day>> THEN b.load[y] + 1 ELSE b.load[y]])
  /\ OnlyBook

CurateWrite(r) ==
  /\ book[r].op = "fill" /\ book[r].todo = {}
  /\ Swap(book[r].arm, book[r].rows)
  /\ Become(r, NoBooking)
  /\ UNCHANGED <<assigned, booked, calmly, checked>>
-----------------------------------------------------------------------------
Handle(r) ==
  \/ CreateCheck(r) \/ CreateWrite(r) \/ UpdateCheck(r) \/ UpdateWrite(r)
  \/ SyncRead(r) \/ SyncWrite(r)
  \/ MasterSchedule(r) \/ DeletePeriod(r) \/ DeleteTimetable(r) \/ Replace(r)
  \/ Curate(r) \/ FillSlot(r) \/ CurateWrite(r)

TimetableNext == AutoDeletion \/ \E r \in Clients : Handle(r)

TimetableSpec == TimetableInit /\ [][TimetableNext]_ttVars
-----------------------------------------------------------------------------
\* As long as requests come one at a time and none goes past the check, no
\* teacher and no room has two lessons of a class at once.
BookedOnce ==
  calmly /\ checked =>
    \A p, q \in periods :
      /\ p # q /\ p.c.arm = q.c.arm
      /\ p.c.type = "LESSON" /\ q.c.type = "LESSON"
      /\ SameTeacher(p.c, q.c) \/ SameRoom(p.c, q.c)
      => ~Overlap(p.c, q.c)

\* "Conflict detected (teacher or room already booked)"
\* (timetable.controller.ts:69): with requests one at a time that are all
\* checked, a teacher has one lesson at a time, in whichever class.
TeacherBookedOnce ==
  calmly /\ checked =>
    \A p, q \in periods :
      /\ p # q /\ SameTeacher(p.c, q.c)
      /\ p.c.type = "LESSON" /\ q.c.type = "LESSON"
      => ~Overlap(p.c, q.c)

\* The curator fills empty slots and leaves assigned ones: subject, teacher and
\* time are what they were when nobody else wrote in between.
CuratorKeeps ==
  [][\A r \in Clients :
       /\ calmly /\ book[r].op = "fill" /\ book[r].todo = {} /\ book[r].fill
       /\ book'[r] = NoBooking
       => \A p \in Of(book[r].arm) :
            p.c.subject # None =>
              \E q \in periods' : q.c = [p.c EXCEPT !.room = q.c.room]]_ttVars
=============================================================================
