------------------------------- MODULE FullYear -------------------------------
(***************************************************************************)
(* The topics of one curriculum document: how the answer of the language   *)
(* model becomes a full year of terms and weeks                            *)
(* (agora-curriculum/full-year-curriculum.util.ts), how it is merged into  *)
(* the rows there are (ai/ai-curriculum-pipeline.service.ts), and what     *)
(* editors do to the rows meanwhile (agora-curriculum.service.ts).  The    *)
(* jobs that ask for it are CurriculumPipeline.                            *)
(*                                                                         *)
(* Of a title only counts which reserved weeks' patterns it matches: a     *)
(* title is a set of reserved weeks.  Left out: an update that gives a row *)
(* to another curriculum.  Bounds: MaxWeek, MaxEdits.                      *)
(***************************************************************************)
EXTENDS Naturals, Sequences, FiniteSets

CONSTANTS
  YearTerms,        \* 1 .. 3
  YearWeeks,        \* 13
  Reserved,         \* 7, 12 and 13
  Standard,         \* the title a reserved week gets
  Answers,          \* what the model may answer
  NoTerms,          \* an answer without terms
  Editors, MaxWeek, MaxEdits

VARIABLES
  row,          \* the AgoraCurriculumTopic of a term and week, if any
  title,        \* and its title
  job,          \* the consolidation at work
  edit,         \* the editors' requests in flight
  edits,        \* bound: how many were made, and how many rows were moved
  fresh         \* history: consolidated, and not edited since

yearVars == <<row, title, job, edit, edits, fresh>>
-----------------------------------------------------------------------------
\* The unique index on term and week: a row is where it is.
Places == YearTerms \X (1 .. MaxWeek)
Year == YearTerms \X (1 .. YearWeeks)
Titles == SUBSET Reserved
Topic == [week : Nat, title : Titles]
Block == [term : Nat, topics : Seq(Topic)]

ASSUME YearAssumption ==
  /\ YearTerms \subseteq Nat \ {0} /\ YearTerms # {} /\ IsFiniteSet(YearTerms)
  /\ YearWeeks \in Nat /\ MaxWeek \in Nat /\ YearWeeks <= MaxWeek /\ MaxEdits \in Nat
  /\ Reserved \subseteq 1 .. YearWeeks
  /\ Standard \in [Reserved -> Titles] /\ \A w \in Reserved : w \in Standard[w]
  /\ Answers \subseteq Seq(Block) \cup {NoTerms} /\ NoTerms \notin Seq(Block)

\* A row that was read keeps its id: seen says where the row is by now.
NoJob == [op |-> "idle", seen |-> << >>, year |-> << >>]
Jobs == {NoJob} \cup [op : {"commit"}, seen : UNION {[S -> Places] : S \in SUBSET Places},
                      year : [Year -> Titles]]
Edits == [op : {"idle", "add"}, term : YearTerms \cup {0}, week : 0 .. MaxWeek + 1]
NoEdit == [op |-> "idle", term |-> 0, week |-> 0]

YearTypeOK ==
  /\ row \in [Places -> {"none", "live", "deprecated"}]
  /\ title \in [Places -> Titles]
  /\ job \in Jobs
  /\ edit \in [Editors -> Edits]
  /\ edits \in Nat
  /\ fresh \in BOOLEAN

YearInit ==
  /\ row = [p \in Places |-> "none"]
  /\ title = [p \in Places |-> {}]
  /\ job = NoJob
  /\ edit = [e \in Editors |-> NoEdit]
  /\ edits = 0
  /\ fresh = FALSE
-----------------------------------------------------------------------------
(* normalizeConsolidateResult: of the blocks of a term the last one, of    *)
(* its topics of a week the first one, a filler for a week without topic.  *)

WeekOf(topics, i) == IF topics[i].week > 0 THEN topics[i].week ELSE i

\* ensureReservedWeek: the standard title is put before one that does not match.
Reserve(w, t) == IF w \in Reserved /\ w \notin t THEN t \cup Standard[w] ELSE t
\* makeFillerWeek, whose title may continue the one before.
Fillers(w) == IF w \in Reserved THEN {Standard[w]} ELSE Titles

Padded(topics, w, t) ==
  LET at == {i \in DOMAIN topics : WeekOf(topics, i) = w}
  IN  \/ at = {} /\ t \in Fillers(w)
      \/ \E i \in at : (\A j \in at : i <= j) /\ t = Reserve(w, topics[i].title)

TopicsOf(answer, term) ==
  LET at == {i \in DOMAIN answer : answer[i].term = term}
  IN  IF at = {} THEN << >>
      ELSE answer[CHOOSE i \in at : \A j \in at : j <= i].topics

Normalized(answer, year) ==
  \A p \in Year : Padded(TopicsOf(answer, p[1]), p[2], year[p])

\* assertFullYearCurriculum, on what has all its terms and weeks.
Asserted(year) == \A p \in Year : p[2] \in Reserved => p[2] \in year[p]

\* What consolidateAgoraCurriculum goes on with, whatever it was answered.
Outcomes ==
  {year \in [Year -> Titles] :
     \E answer \in Answers \ {NoTerms} : Normalized(answer, year) /\ Asserted(year)}
-----------------------------------------------------------------------------
(* consolidateAgoraCurriculum: the answer, the rows there are, and one     *)
(* transaction that updates or creates a row per week.                     *)

Present == {p \in Places : row[p] # "none"}

Consolidate ==
  /\ job.op = "idle"
  /\ \E year \in Outcomes :
       job' = [op |-> "commit", seen |-> [p \in Present |-> p], year |-> year]
  /\ UNCHANGED <<row, title, edit, edits, fresh>>

Known == DOMAIN job.seen
Moved == \E s \in Known : job.seen[s] # s
Strangers == Present \ {job.seen[s] : s \in Known}

\* The row read at s goes back to its week, in the term it has by now.
Target(s) == IF s \in Year THEN <<job.seen[s][1], s[2]>> ELSE job.seen[s]
From(p) == {s \in Known : Target(s) = p}

\* The unique index refuses a second row in a place.
Clashes ==
  \/ \E s, u \in Known : s # u /\ Target(s) = Target(u)
  \/ \E s \in Known : Target(s) \in (Year \ Known) \cup Strangers
  \/ (Year \ Known) \cap Strangers # {}

\* A mistake: a row that is updated stays deprecated.
MutantStaysDeprecated(p) ==
  IF p \in Year \ Known THEN "live"
  ELSE IF From(p) # {}
  THEN IF From(p) \subseteq Year THEN row[job.seen[CHOOSE s \in From(p) : TRUE]]
       ELSE "deprecated"
  ELSE IF p \in Strangers THEN row[p] ELSE "none"

\* deprecatedAt is reset on the rows of the year and set on the others read.
Merged(p) ==
  IF p \in Year \ Known THEN "live"
  ELSE IF From(p) # {} THEN IF From(p) \subseteq Year THEN "live" ELSE "deprecated"
  ELSE IF p \in Strangers THEN row[p] ELSE "none"

Retitled(p) ==
  IF p \in Year \ Known THEN job.year[p]
  ELSE IF From(p) \cap Year # {} THEN job.year[CHOOSE s \in From(p) : TRUE]
  ELSE IF From(p) # {} \/ p \in Strangers THEN title[p] ELSE {}

\* One update or insert after the other: of rows that were moved, one may meet
\* the place of another that has yet to go, and then all of them are undone.
Commit ==
  /\ job.op = "commit"
  /\ \/ /\ ~Clashes
        /\ row' = [p \in Places |-> Merged(p)]
        /\ title' = [p \in Places |-> Retitled(p)]
        /\ fresh' = (~Moved /\ Strangers = {})
     \/ (Clashes \/ Moved) /\ UNCHANGED <<row, title, fresh>>
  /\ job' = NoJob
  /\ UNCHANGED <<edit, edits>>

\* The process ends before the transaction.
Lose ==
  /\ job.op = "commit"
  /\ job' = NoJob
  /\ UNCHANGED <<row, title, edit, edits, fresh>>
-----------------------------------------------------------------------------
(* The editors.                                                            *)

LastWeek == IF Present = {} THEN 0
            ELSE (CHOOSE p \in Present : \A q \in Present : q[2] <= p[2])[2]

\* addTopic: the week after the last of any term, deprecated ones included.
AddRead(e) ==
  /\ edit[e] = NoEdit /\ edits < MaxEdits
  /\ \E t \in YearTerms :
       edit' = [edit EXCEPT ![e] = [op |-> "add", term |-> t, week |-> LastWeek + 1]]
  /\ edits' = edits + 1
  /\ UNCHANGED <<row, title, job, fresh>>

AddWrite(e) ==
  /\ edit[e].op = "add"
  /\ LET p == <<edit[e].term, edit[e].week>>
     IN  IF p \in Places /\ p \notin Present
         THEN /\ row' = [row EXCEPT ![p] = "live"]
              /\ \E t \in Titles : title' = [title EXCEPT ![p] = t]
              /\ fresh' = FALSE
         ELSE UNCHANGED <<row, title, fresh>>
  /\ edit' = [edit EXCEPT ![e] = NoEdit]
  /\ UNCHANGED <<job, edits>>

DeleteTopic ==
  /\ \E p \in Present : row[p] = "live" /\ row' = [row EXCEPT ![p] = "deprecated"]
  /\ fresh' = FALSE
  /\ UNCHANGED <<title, job, edit, edits>>

\* The row at p is now at q.
Followed(p, q) ==
  IF job.op = "commit"
  THEN [job EXCEPT !.seen = [s \in DOMAIN @ |-> IF @[s] = p THEN q ELSE @[s]]]
  ELSE job

\* Any field may change: the term, the week and deprecatedAt too.
UpdateTopic ==
  /\ \E p \in Present, q \in Places, t \in Titles, state \in {"live", "deprecated"} :
       /\ q # p => q \notin Present /\ edits < MaxEdits
       /\ <<q, t, state>> # <<p, title[p], row[p]>>
       /\ row' = [row EXCEPT ![p] = "none", ![q] = state]
       /\ title' = [title EXCEPT ![p] = {}, ![q] = t]
       /\ job' = Followed(p, q)
       /\ edits' = IF q = p THEN edits ELSE edits + 1
  /\ fresh' = FALSE
  /\ UNCHANGED edit
-----------------------------------------------------------------------------
\* isCompleteFullYearSlots on the rows that are not deprecated.
LiveRows == {p \in Places : row[p] = "live"}
Complete == LiveRows = Year

YearNext ==
  \/ Consolidate \/ Commit \/ Lose \/ DeleteTopic \/ UpdateTopic
  \/ \E e \in Editors : AddRead(e) \/ AddWrite(e)

YearSpec == YearInit /\ [][YearNext]_yearVars

\* Whatever the model answered and whatever the rows were, a curriculum that was
\* consolidated, and not edited during or since, has every week once, the
\* reserved ones with a title that says so: publishCurriculum takes it.
ConsolidatedCanBePublished ==
  fresh => Complete /\ \A p \in Year : p[2] \in Reserved => p[2] \in title[p]
=============================================================================
