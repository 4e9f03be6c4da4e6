----------------------------- MODULE SchemeWeeks -----------------------------
(***************************************************************************)
(* The weeks of one scheme of work: how a plan is laid onto the calendar   *)
(* of a term, how an admin edits it, and how teachers mark what they have  *)
(* taught.  src/src/schools/curriculum/scheme-calendar-packer.util.ts,     *)
(* src/src/schools/curriculum/scheme-spine.service.ts,                     *)
(* src/src/schools/scheme-of-work/scheme-of-work.service.ts, and the end   *)
(* of generateSchemeOfWork in src/src/ai/ai-curriculum-pipeline.service.ts.*)
(*                                                                         *)
(* Days are counted from the first day of the term; a topic is its key,    *)
(* what its title says it is, and its week in the library.  A handler is   *)
(* one action per await that matters to another handler.                   *)
(*                                                                         *)
(* Bounds: WeekIds, MaxLoads, MaxCalls, MaxContents.  Left out: the texts  *)
(* of a week, lesson notes and the confidence they give, and why a scheme  *)
(* is generated or archived (SchemeGeneration).                            *)
(***************************************************************************)
EXTENDS Integers, SequencesExt

CONSTANTS
  Teams,         \* the handlers that may be in flight together
  Arms, NoArm,   \* class arms that follow the scheme, and none of them
  WeekIds,       \* ids of rows; one is used again when nobody refers to it
  TermDays, WeekLength,
  WorkDays,      \* the days of the term that fall on a working day
  HalfTerms, Holidays,   \* what the half term and the HOLIDAY events may be
  DraftedPlans,  \* the weeks a language model may answer
  LibraryPlans,  \* the topics of a term of a published library curriculum
  InitialStanding,   \* what resolveInitialStatus gives a scheme of a library curriculum
  MaxLoads, MaxCalls, MaxContents

VARIABLES
  halfTerm, holidays,  \* days without lessons
  today,       \* 0 before the term, TermDays + 1 after it
  standing,    \* SchemeOfWork.status
  weeks,       \* the rows of SchemeOfWorkWeek, with their topics and deliveries
  load,        \* the import or the generation at work
  call,        \* the handler each team is at
  loads, calls,    \* counted for the bounds
  stored,      \* history: the weeks were stored to the last
  lost,        \* history: weeks of the calendar the last order gave to a row
               \* that it named again further on
  alone        \* history: no two handlers overlapped

weekVars == <<halfTerm, holidays, today, standing, weeks, load, call, loads, calls,
              stored, lost, alone>>

Kinds == {"CONTENT", "REVISION", "EXAM"}
Deliveries == {"none", "PENDING", "DELIVERED", "SKIPPED", "COMBINED"}
-----------------------------------------------------------------------------
(* Ids and days are numbers, 0 is none of them.  The weeks of a term of    *)
(* the library are positive, as whatever writes them makes them so         *)
(* (full-year-curriculum.util.ts:93), and distinct, by a unique index.     *)
ASSUME WeeksAssumption ==
  /\ WeekIds \subseteq Nat \ {0} /\ IsFiniteSet(WeekIds)
  /\ TermDays \in Nat /\ WeekLength \in Nat \ {0}
  /\ MaxLoads \in Nat /\ MaxCalls \in Nat /\ MaxContents \in Nat
  /\ InitialStanding \in {"DRAFT", "PUBLISHED"}
  /\ NoArm \notin Arms
  /\ \A plan \in LibraryPlans :
       /\ Len(plan) \in Nat /\ DOMAIN plan = 1 .. Len(plan)
       /\ \A i, j \in DOMAIN plan :
            plan[i].week \in Nat \ {0} /\ (plan[i].week = plan[j].week => i = j)
-----------------------------------------------------------------------------
(* The calendar: buildInstructionalWeekRanges and getTeachingWeekInfo.     *)

Term == 1 .. TermDays
Bucket(day) == (day - 1) \div WeekLength
Least(a, b) == IF a < b THEN a ELSE b
InAscent(S) ==
  [n \in 1 .. Cardinality(S) |-> CHOOSE x \in S : Cardinality({y \in S : y < x}) = n - 1]

\* The weeks of the term with a lesson day.
Buckets(off) == {Bucket(d) : d \in (WorkDays \cap Term) \ off}

\* The first day of each instructional week.
WeekRanges(off) ==
  LET weeksOf == InAscent(Buckets(off))
  IN  [n \in DOMAIN weeksOf |-> weeksOf[n] * WeekLength + 1]

\* The packers leave out half term and holidays alike.
Ranges == WeekRanges(halfTerm \cup holidays)

\* The week teachers are held to leaves out half term only.
TotalTeaching == IF Buckets(halfTerm) = {} THEN 1 ELSE Cardinality(Buckets(halfTerm))
TeachingWeek ==
  Least(Cardinality({b \in Buckets(halfTerm) : b <= Bucket(today)}), TotalTeaching)

CalendarWeek ==
  LET past == IF today = 0 THEN 1 ELSE Bucket(today) + 1
      all  == (TermDays + WeekLength - 2) \div WeekLength
  IN  Least(past, IF all = 0 THEN 1 ELSE all)

\* Mutant: weeks without lessons are counted.
MutantSchoolWeek == IF today > TermDays THEN TotalTeaching ELSE CalendarWeek

\* resolveCurrentSchoolWeek
SchoolWeek ==
  IF today > TermDays THEN TotalTeaching
  ELSE IF today > 0 /\ TeachingWeek > 0 THEN Least(CalendarWeek, TeachingWeek)
  ELSE CalendarWeek
-----------------------------------------------------------------------------
(* The packers.                                                            *)

\* A week as it is going to be stored; id is 0 for a row to create.
Packed(num, start, catchUp, topics, id) ==
  [num |-> num, start |-> start, catchUp |-> catchUp, topics |-> topics, id |-> id]

KeysOf(plan, kind) ==
  LET chosen == SelectSeq(plan, LAMBDA t : t.kind = kind)
  IN  [i \in DOMAIN chosen |-> chosen[i].key]

\* One item for each of n slots, the ones left over on the last.
Spread(items, n, slot) ==
  SubSeq(items, slot, IF slot < n THEN Least(slot, Len(items)) ELSE Len(items))

\* What place() puts on the one slot it is given: the items after the first come
\* once from the loop over them and once more from the loop over the overflow.
PlacedOn(items) == items \o (IF items = << >> THEN << >> ELSE Tail(items))

\* The topics packTopicsOntoCalendar lays on the week w.
TopicsOf(plan, w) ==
  LET n == Len(Ranges)
      content == KeysOf(plan, "CONTENT")
      revision == KeysOf(plan, "REVISION")
      exam == KeysOf(plan, "EXAM")
      examWeek == IF exam # << >> THEN n ELSE 0
      revisionWeek == IF revision # << >> /\ n >= 2 THEN Least(7, n - 1) ELSE 0
      free == InAscent((1 .. n) \ {examWeek, revisionWeek})
      slots == IF free = << >> THEN [i \in 1 .. n |-> i] ELSE free
      Onto(items) ==
        IF \E i \in DOMAIN slots : slots[i] = w
        THEN Spread(items, Len(slots), CHOOSE i \in DOMAIN slots : slots[i] = w)
        ELSE << >>
  IN  Onto(content)
      \o (IF revisionWeek = 0 THEN Onto(revision)
          ELSE IF w = revisionWeek THEN PlacedOn(revision) ELSE << >>)
      \o (IF w = examWeek THEN PlacedOn(exam) ELSE << >>)

PackTopics(plan) ==
  [w \in DOMAIN Ranges |-> Packed(w, Ranges[w], FALSE, TopicsOf(plan, w), 0)]

\* Mutant: the week of the calendar after the plan is left out.
MutantCatchUps(used) ==
  LET left == InAscent(DOMAIN Ranges \ (used \cup {Cardinality(used) + 1}))
  IN  [i \in DOMAIN left |-> Packed(left[i], Ranges[left[i]], TRUE, << >>, 0)]

\* What follows the weeks of a plan: the weeks of the calendar it does not use.
CatchUps(used) ==
  LET left == InAscent(DOMAIN Ranges \ used)
  IN  [i \in DOMAIN left |-> Packed(left[i], Ranges[left[i]], TRUE, << >>, 0)]

DateOf(n) == IF n \in DOMAIN Ranges THEN Ranges[n] ELSE 0

\* In the order of their numbers, which are distinct.
InOrder(packed) ==
  LET nums == InAscent({packed[i].num : i \in DOMAIN packed})
  IN  [n \in DOMAIN nums |-> packed[CHOOSE i \in DOMAIN packed : packed[i].num = nums[n]]]

\* packLibraryTopicsPreserveWeeks
PackLibrary(plan) ==
  InOrder([i \in DOMAIN plan |->
             Packed(plan[i].week, DateOf(plan[i].week), FALSE, <<plan[i].key>>, 0)]
          \o CatchUps({plan[i].week : i \in DOMAIN plan}))

\* restampContentWeeksOntoCalendar.  Contents are ids of rows, 0 for a new one.
Restamp(contents) ==
  [i \in DOMAIN contents |-> Packed(i, DateOf(i), FALSE, << >>, contents[i])]
  \o CatchUps(DOMAIN contents)
-----------------------------------------------------------------------------
(* The state.                                                              *)

\* What a handler has read.  What its request asks for is chosen where the handler
\* first uses it.
NoCall == [op |-> "idle", snap |-> {}, week |-> 0, num |-> 0, arm |-> NoArm]

NoLoad == [by |-> "none", plan |-> << >>, packed |-> << >>, next |-> 0]

WeeksInit ==
  /\ halfTerm \in HalfTerms /\ holidays \in Holidays
  /\ today = 0
  /\ standing = "QUEUED"
  /\ weeks = << >>
  /\ \/ \E plan \in DraftedPlans : load = [NoLoad EXCEPT !.by = "drafted", !.plan = plan]
     \/ \E plan \in LibraryPlans : load = [NoLoad EXCEPT !.by = "library", !.plan = plan]
  /\ call = [t \in Teams |-> NoCall]
  /\ loads = 0 /\ calls = 0
  /\ stored = FALSE /\ lost = {} /\ alone = TRUE

Calendar == <<halfTerm, holidays>>
Rows == <<weeks, stored, lost>>
Storing == load.packed # << >>
Unhurried == \A t \in Teams : call[t].op = "idle"

\* An id that no row has and no handler in flight has read.
FreeIds ==
  WeekIds \ (DOMAIN weeks \cup UNION {call[t].snap \cup {call[t].week} : t \in Teams})

NewWeek(p) ==
  [num |-> p.num, start |-> p.start, catchUp |-> p.catchUp, topics |-> p.topics,
   delivered |-> FALSE, arms |-> [a \in Arms |-> "none"]]
-----------------------------------------------------------------------------
(* persistPackedWeeks, after snapshotAgoraOnly or at the end of a          *)
(* generation: the rows of the scheme are deleted and stored one by one.   *)

\* A failed generation may be attempted again; an import is not.
Retried(begun) ==
  IF load.by = "drafted" /\ begun < MaxLoads
  THEN [load EXCEPT !.packed = << >>, !.next = 0] ELSE NoLoad

\* A model that answers without weeks leaves the scheme as it is, a term without
\* lessons fails the generation.
LoadPack ==
  /\ load.by # "none" /\ ~Storing
  /\ loads < MaxLoads /\ loads' = loads + 1
  /\ \/ /\ Ranges # << >>
        /\ standing' = IF load.by = "drafted" THEN "GENERATING" ELSE InitialStanding
        /\ load' = [load EXCEPT !.next = 1, !.packed =
                      IF load.by = "drafted" THEN PackTopics(load.plan) ELSE PackLibrary(load.plan)]
        /\ weeks' = << >> /\ stored' = FALSE /\ lost' = {}
     \/ /\ Ranges = << >>
        /\ standing' = IF load.by = "drafted" THEN "FAILED" ELSE InitialStanding
        /\ load' = Retried(loads + 1)
        /\ UNCHANGED Rows
     \/ /\ load.by = "drafted"
        /\ standing' = "GENERATING"
        /\ load' = NoLoad
        /\ UNCHANGED Rows
  /\ alone' = (alone /\ Unhurried)
  /\ UNCHANGED <<Calendar, today, call, calls>>

LoadFails ==
  /\ load' = Retried(loads)
  /\ standing' = IF load.by = "drafted" THEN "FAILED" ELSE standing

\* Two rows of a number, or a topic twice in a week, are refused by indexes.
LoadWeek ==
  /\ Storing /\ load.next <= Len(load.packed)
  /\ LET p == load.packed[load.next]
         taken == \E w \in DOMAIN weeks : weeks[w].num = p.num
         twice == ~IsInjective(p.topics)
     IN  /\ IF taken THEN weeks' = weeks
            ELSE \E id \in FreeIds :
                   /\ \A other \in FreeIds : id <= other
                   /\ weeks' = [w \in DOMAIN weeks \cup {id} |->
                        IF w # id THEN weeks[w]
                        ELSE NewWeek(IF twice THEN [p EXCEPT !.topics = << >>] ELSE p)]
         /\ IF taken \/ twice THEN LoadFails
            ELSE load' = [load EXCEPT !.next = @ + 1] /\ UNCHANGED standing
  /\ UNCHANGED <<Calendar, today, call, loads, calls, stored, lost, alone>>

LoadEnd ==
  /\ Storing /\ load.next > Len(load.packed)
  /\ load' = NoLoad
  /\ standing' = IF load.by = "drafted" THEN "DRAFT" ELSE standing
  /\ stored' = TRUE
  /\ UNCHANGED <<Calendar, today, weeks, call, loads, calls, lost, alone>>
-----------------------------------------------------------------------------
BeginCall(t, c) ==
  /\ call[t].op = "idle"
  /\ calls < MaxCalls /\ calls' = calls + 1
  /\ call' = [call EXCEPT ![t] = c]
  /\ alone' = (alone /\ Unhurried /\ load.by = "none")
  /\ UNCHANGED <<Calendar, today, standing, Rows, load, loads>>

End(t) == call' = [call EXCEPT ![t] = NoCall]
Then(t, op) == call' = [call EXCEPT ![t].op = op]

Keeps == UNCHANGED <<Calendar, today, standing, load, loads, calls, alone>>
-----------------------------------------------------------------------------
(* replaceContentWeeks.                                                    *)

\* Mutant: a week marked for no arm is overlooked.
MutantTeachingStarted ==
  \E w \in DOMAIN weeks, a \in Arms : weeks[w].arms[a] \notin {"none", "PENDING"}

\* structureEditLock
TeachingStarted ==
  \E w \in DOMAIN weeks :
    \/ weeks[w].delivered
    \/ \E a \in Arms : weeks[w].arms[a] \notin {"none", "PENDING"}

\* The order of a request: ids of rows it knows, also twice, and 0 for new ones.
Contents(known) == SeqOf(known \cup {0}, MaxContents) \ {<< >>}

ReplaceRead(t) ==
  /\ standing \in {"DRAFT", "PUBLISHED"}
  /\ ~TeachingStarted
  /\ Ranges # << >>
  /\ BeginCall(t, [NoCall EXCEPT !.op = "replace", !.snap = DOMAIN weeks])

\* The row of the i-th of the packed weeks: its own, or a new one.
RowId(packed, i) ==
  LET fresh == InAscent({j \in DOMAIN packed : packed[j].id = 0})
  IN  IF packed[i].id # 0 THEN packed[i].id
      ELSE InAscent(FreeIds)[CHOOSE k \in DOMAIN fresh : fresh[k] = i]

\* The places of the calendar an order gives to a row it names again further on.
Overwritten(packed) ==
  {packed[i].num : i \in
     {j \in DOMAIN packed : \E k \in DOMAIN packed :
        j < k /\ packed[j].id = packed[k].id /\ packed[j].id # 0}}

\* The place of a row: the last one it is given.
PlaceOf(packed, id) ==
  CHOOSE i \in DOMAIN packed :
    RowId(packed, i) = id /\ \A j \in DOMAIN packed : RowId(packed, j) = id => j <= i

\* What it has afterwards.  The key of a topic an admin adds is made from the id
\* of its week.
Restamped(p, id) ==
  IF p.id = 0
  THEN NewWeek([p EXCEPT !.topics = IF p.catchUp THEN << >> ELSE <<id>>])
  ELSE [weeks[id] EXCEPT !.num = p.num, !.start = p.start, !.catchUp = FALSE,
                         !.topics = IF @ = << >> THEN <<id>> ELSE @]

\* The transaction: the rows it knows get numbers out of the way, the dropped
\* ones are deleted, then every week of the new order is updated or created.
ReplaceWrite(t) ==
  /\ call[t].op = "replace"
  /\ \E contents \in Contents(call[t].snap) :
     LET packed == Restamp(contents)
         strangers == DOMAIN weeks \ call[t].snap
         rows == {RowId(packed, i) : i \in DOMAIN packed}
         refused == \/ call[t].snap \ DOMAIN weeks # {}
                    \/ \E w \in strangers, i \in DOMAIN packed : weeks[w].num = packed[i].num
     IN  IF refused THEN UNCHANGED Rows
         ELSE /\ Cardinality({i \in DOMAIN packed : packed[i].id = 0}) <= Cardinality(FreeIds)
              /\ weeks' = [w \in strangers \cup rows |->
                   IF w \in strangers THEN weeks[w]
                   ELSE Restamped(packed[PlaceOf(packed, w)], w)]
              /\ stored' = TRUE
              /\ lost' = Overwritten(packed)
  /\ End(t)
  /\ Keeps
-----------------------------------------------------------------------------
(* updateWeekForSchool, by a teacher for an arm or by an admin for none.   *)

MarkRead(t) ==
  \E w \in DOMAIN weeks, a \in Arms \cup {NoArm}, op \in {"skip", "mark", "unmark"} :
    BeginCall(t, [NoCall EXCEPT !.op = op, !.week = w, !.num = weeks[w].num, !.arm = a])

\* A write to a row that is gone throws.
Gone(t) ==
  /\ call[t].op \in {"skip", "mark", "markArm", "unmark", "unmarkWeek"}
  /\ call[t].week \notin DOMAIN weeks
  /\ End(t)
  /\ UNCHANGED Rows /\ Keeps

Doing(t, op) ==
  call[t].op = op /\ call[t].week \in DOMAIN weeks /\ UNCHANGED <<stored, lost>> /\ Keeps

\* persistArmDelivery
SetArm(t, ws, delivery) ==
  IF call[t].arm = NoArm THEN ws ELSE [ws EXCEPT ![call[t].week].arms[call[t].arm] = delivery]

\* A skipped or combined week is noted, the topics of a combined one are copied,
\* and then the handler goes on to mark or unmark the week.
SkipWrite(t) ==
  /\ Doing(t, "skip")
  /\ \E next \in {"mark", "unmark"} :
       \/ \E skip \in {"SKIPPED", "COMBINED"} :
            weeks' = SetArm(t, weeks, skip) /\ Then(t, next)
       \/ \E into \in DOMAIN weeks \ {call[t].week} :
            /\ weeks' = [SetArm(t, weeks, "COMBINED") EXCEPT ![into].topics =
                 @ \o SelectSeq(weeks[call[t].week].topics, LAMBDA k : ~Contains(@, k))]
            /\ Then(t, next)

\* assertDeliveryWindow
InWindow(num, reason) ==
  LET current == Least(SchoolWeek, Max({weeks[w].num : w \in DOMAIN weeks}))
  IN  num <= current /\ (num < current => reason)

MarkWrite(t) ==
  /\ Doing(t, "mark")
  /\ \E reason \in BOOLEAN :
     IF InWindow(call[t].num, reason)
     THEN weeks' = [weeks EXCEPT ![call[t].week].delivered = TRUE] /\ Then(t, "markArm")
     ELSE weeks' = weeks /\ End(t)

MarkArm(t) ==
  /\ Doing(t, "markArm")
  /\ weeks' = SetArm(t, weeks, "DELIVERED")
  /\ End(t)

UnmarkArm(t) ==
  /\ Doing(t, "unmark")
  /\ weeks' = SetArm(t, weeks, "PENDING")
  /\ Then(t, "unmarkWeek")

UnmarkWrite(t) ==
  /\ Doing(t, "unmarkWeek")
  /\ weeks' = [weeks EXCEPT ![call[t].week].delivered = FALSE]
  /\ End(t)
-----------------------------------------------------------------------------
\* updateSchemeStatus takes any status, of which two are told apart here: one that
\* can be edited and one that cannot.
SetStanding ==
  /\ standing' \in {"PUBLISHED", "ARCHIVED"} \ {standing}
  /\ calls < MaxCalls /\ calls' = calls + 1
  /\ UNCHANGED <<Calendar, today, Rows, load, call, loads, alone>>

Dawn ==
  /\ today <= TermDays
  /\ today' = today + 1
  /\ UNCHANGED <<Calendar, standing, Rows, load, call, loads, calls, alone>>

\* The process dies; a generation that was at work is attempted again.
Interrupt ==
  /\ Storing \/ ~Unhurried
  /\ load' = Retried(loads)
  /\ call' = [t \in Teams |-> NoCall]
  /\ UNCHANGED <<Calendar, today, standing, Rows, loads, calls, alone>>

Loading == LoadPack \/ LoadWeek \/ LoadEnd

Teaching(t) ==
  \/ MarkRead(t) \/ Gone(t) \/ SkipWrite(t)
  \/ MarkWrite(t) \/ MarkArm(t) \/ UnmarkArm(t) \/ UnmarkWrite(t)

WeeksNext ==
  \/ Loading \/ SetStanding \/ Dawn \/ Interrupt
  \/ \E t \in Teams : ReplaceRead(t) \/ ReplaceWrite(t) \/ Teaching(t)

WeeksSpec == WeeksInit /\ [][WeeksNext]_weekVars
-----------------------------------------------------------------------------
WeeksTypeOK ==
  /\ today \in 0 .. TermDays + 1
  /\ standing \in {"QUEUED", "GENERATING", "FAILED", "DRAFT", "PUBLISHED", "ARCHIVED"}
  /\ DOMAIN weeks \subseteq WeekIds
  /\ \A w \in DOMAIN weeks :
       /\ weeks[w].num \in Nat \ {0} /\ weeks[w].start \in 0 .. TermDays
       /\ weeks[w].delivered \in BOOLEAN /\ weeks[w].arms \in [Arms -> Deliveries]
  /\ \A t \in Teams : call[t].op \in
       {"idle", "replace", "skip", "mark", "markArm", "unmark", "unmarkWeek"}
  /\ loads \in 0 .. MaxLoads /\ calls \in 0 .. MaxCalls
  /\ stored \in BOOLEAN /\ lost \subseteq Nat /\ alone \in BOOLEAN

\* Whatever overlaps or is cut short: no two rows have the same week, and each has
\* the date of its week, or none past the calendar; and once the weeks were stored,
\* each week of the calendar has a row (scheme-calendar-packer.util.spec.ts:134,
\* :155), unless the last order named one row for it and for a later week.
CalendarCovered ==
  /\ \A v, w \in DOMAIN weeks : weeks[v].num = weeks[w].num => v = w
  /\ \A w \in DOMAIN weeks : weeks[w].start = DateOf(weeks[w].num)
  /\ stored /\ ~Storing =>
       \A n \in DOMAIN Ranges \ lost : \E w \in DOMAIN weeks :
         weeks[w].num = n /\ weeks[w].start = Ranges[n]

\* As long as handlers do not overlap, a week that some arm was taught stays in
\* the scheme at its place ("Teaching has started on this scheme.",
\* scheme-spine.service.ts:364).
Taught(w) == weeks[w].delivered \/ \E a \in Arms : weeks[w].arms[a] = "DELIVERED"
TaughtStays ==
  [][alone' => \A w \in DOMAIN weeks : Taught(w) =>
       w \in DOMAIN weeks' /\ weeks'[w].num = weeks[w].num]_weekVars

\* As long as handlers do not overlap, no holiday is set and the first week of the
\* term has lessons, a week is marked as delivered in the term only when its own
\* dates have come ("You cannot mark it delivered yet.",
\* scheme-of-work.service.ts:531): the packers and the delivery window count the
\* weeks of the term apart.
NotTaughtEarly ==
  [][alone' /\ holidays = {} /\ 0 \in Buckets(halfTerm) /\ today > 0 =>
       \A w \in DOMAIN weeks \cap DOMAIN weeks' :
         weeks'[w].delivered /\ ~weeks[w].delivered => weeks[w].start \in 1 .. today]_weekVars

\* Every topic of a plan is laid on the calendar once, however many the term has
\* room for ("combines overflow topics onto the last content week",
\* scheme-calendar-packer.util.spec.ts:48).
PackedOnce ==
  Storing => \A i \in DOMAIN load.plan :
    Cardinality({at \in (DOMAIN load.packed) \X (1 .. 2 * Len(load.plan)) :
       LET topics == load.packed[at[1]].topics
       IN  at[2] <= Len(topics) /\ topics[at[2]] = load.plan[i].key}) = 1
=============================================================================
