---------------------------- MODULE CalendarSync ----------------------------
(***************************************************************************)
(* One event of a school and its copy in the Google calendar of the user   *)
(* who created it (events/event.service.ts,                                *)
(* integrations/google-calendar/google-calendar.service.ts).               *)
(*                                                                         *)
(* A request writes the row and answers; the sync it has started goes on,  *)
(* without a transaction, and nothing repeats it.  task[h] is a request    *)
(* with the sync it has started.  Texts are numbered in the order the      *)
(* requests come in.  Bounds: MaxTexts.                                    *)
(***************************************************************************)
EXTENDS Naturals

CONSTANTS Hands, MaxTexts

VARIABLES
  event,        \* the row: Event
  copy,         \* what Google's calendar shows, or NoCopy
  connected,    \* the user's GoogleCalendarSync
  task,         \* requests and syncs in flight
  texts,        \* how many texts there were
  inTurn,       \* history: none met another
  smooth        \* history: nothing failed, and connected all the time

calendarVars == <<event, copy, connected, task, texts, inTurn, smooth>>
-----------------------------------------------------------------------------
ASSUME CalendarAssumption == MaxTexts \in Nat \ {0}

NoCopy == 0
Texts == 1 .. MaxTexts
SyncStatus == {"PENDING", "SYNCED", "FAILED"}
Event == [state : {"none", "kept", "gone"}, text : 0 .. MaxTexts, linked : BOOLEAN,
          status : SyncStatus]
NoEvent == [state |-> "none", text |-> 0, linked |-> FALSE, status |-> "PENDING"]

TaskOps == {"idle", "edit", "settings", "send", "save", "fail", "remove"}
Task == [op : TaskOps, text : 0 .. MaxTexts, linked : BOOLEAN,
         rest : SUBSET {"row", "settings", "google"}]
NoTask == [op |-> "idle", text |-> 0, linked |-> FALSE, rest |-> {}]

CalendarTypeOK ==
  /\ event \in Event /\ copy \in {NoCopy} \cup Texts /\ connected \in BOOLEAN
  /\ task \in [Hands -> Task] /\ texts \in 0 .. MaxTexts
  /\ inTurn \in BOOLEAN /\ smooth \in BOOLEAN

CalendarInit ==
  /\ event = NoEvent /\ copy = NoCopy /\ connected \in BOOLEAN
  /\ task = [h \in Hands |-> NoTask] /\ texts = 0
  /\ inTurn = TRUE /\ smooth = TRUE
-----------------------------------------------------------------------------
Still == \A h \in Hands : task[h].op = "idle"

Begun(h, t) ==
  /\ task[h].op = "idle"
  /\ task' = [task EXCEPT ![h] = t]
  /\ inTurn' = (inTurn /\ Still)

Now(h, op) == task' = [task EXCEPT ![h].op = op] /\ UNCHANGED inTurn
Over(h) == task' = [task EXCEPT ![h] = NoTask] /\ UNCHANGED inTurn
-----------------------------------------------------------------------------
\* createEvent: the row, and then the sync.
CreateEvent(h) ==
  /\ event.state = "none" /\ texts < MaxTexts /\ texts' = texts + 1
  /\ event' = [state |-> "kept", text |-> texts', linked |-> FALSE, status |-> "PENDING"]
  /\ Begun(h, [NoTask EXCEPT !.op = "settings", !.text = texts'])
  /\ smooth' = connected
  /\ UNCHANGED <<copy, connected>>

\* updateEvent writes by id and syncs what it has written, if the event has a copy.
EditRead(h) ==
  /\ event.state = "kept" /\ texts < MaxTexts /\ texts' = texts + 1
  /\ Begun(h, [NoTask EXCEPT !.op = "edit", !.text = texts', !.linked = event.linked])
  /\ UNCHANGED <<event, copy, connected, smooth>>

\* A mistake: the status stays what it was.
MutantEdited(t) == [event EXCEPT !.text = t.text]
Edited(t) ==
  [event EXCEPT !.text = t.text, !.status = IF t.linked THEN "PENDING" ELSE @]

EditWrite(h) ==
  /\ task[h].op = "edit"
  /\ IF event.state # "kept" THEN Over(h) /\ UNCHANGED event
     ELSE /\ event' = Edited(task[h])
          /\ IF event.linked
             THEN /\ task' = [task EXCEPT ![h] =
                       [@ EXCEPT !.op = "settings", !.linked = TRUE]]
                  /\ UNCHANGED inTurn
             ELSE Over(h)
  /\ UNCHANGED <<copy, connected, texts, smooth>>
-----------------------------------------------------------------------------
(* syncToGoogleCalendar, with syncEventToGoogle: the settings, the call to *)
(* Google, and the status.                                                 *)

ReadSettings(h) ==
  /\ task[h].op = "settings"
  /\ IF connected THEN Now(h, "send") ELSE Over(h)
  /\ UNCHANGED <<event, copy, connected, texts, smooth>>

\* Google has nothing to update when the copy has been erased.
Accepted(t) == t.linked => copy # NoCopy

SendOk(h) ==
  /\ task[h].op = "send" /\ Accepted(task[h])
  /\ copy' = task[h].text /\ Now(h, "save")
  /\ UNCHANGED <<event, connected, texts, smooth>>

SendRefused(h) ==
  /\ task[h].op = "send" /\ ~Accepted(task[h])
  /\ Now(h, "fail")
  /\ UNCHANGED <<event, copy, connected, texts, smooth>>

\* The token cannot be refreshed, the call fails, or its answer is lost.
SendFails(h) ==
  /\ task[h].op = "send"
  /\ \/ UNCHANGED copy
     \/ Accepted(task[h]) /\ copy' = task[h].text
  /\ Now(h, "fail") /\ smooth' = FALSE
  /\ UNCHANGED <<event, connected, texts>>

\* Without the row both writes throw, and are logged.
SaveLink(h) ==
  /\ task[h].op = "save"
  /\ event' = IF event.state = "kept"
              THEN [event EXCEPT !.linked = TRUE, !.status = "SYNCED"] ELSE event
  /\ Over(h)
  /\ UNCHANGED <<copy, connected, texts, smooth>>

SaveFailure(h) ==
  /\ task[h].op = "fail"
  /\ event' = IF event.state = "kept" THEN [event EXCEPT !.status = "FAILED"] ELSE event
  /\ Over(h)
  /\ UNCHANGED <<copy, connected, texts, smooth>>
-----------------------------------------------------------------------------
(* deleteEvent starts the deletion at Google and deletes the row: two       *)
(* chains that do not wait for each other.                                  *)

RemoveRead(h) ==
  /\ event.state = "kept"
  /\ Begun(h, [NoTask EXCEPT !.op = "remove",
                 !.rest = {"row"} \cup (IF event.linked THEN {"settings"} ELSE {})])
  /\ UNCHANGED <<event, copy, connected, texts, smooth>>

Remains(h, rest) ==
  /\ task' = [task EXCEPT ![h] = IF rest = {} THEN NoTask ELSE [@ EXCEPT !.rest = rest]]
  /\ UNCHANGED inTurn

RemoveRow(h) ==
  /\ "row" \in task[h].rest
  /\ event' = [event EXCEPT !.state = "gone"]
  /\ Remains(h, task[h].rest \ {"row"})
  /\ UNCHANGED <<copy, connected, texts, smooth>>

RemoveSettings(h) ==
  /\ "settings" \in task[h].rest
  /\ Remains(h, (task[h].rest \ {"settings"}) \cup (IF connected THEN {"google"} ELSE {}))
  /\ UNCHANGED <<event, copy, connected, texts, smooth>>

EraseCopy(h) ==
  /\ "google" \in task[h].rest
  /\ \/ copy' = NoCopy /\ UNCHANGED smooth
     \/ UNCHANGED copy /\ smooth' = FALSE
  /\ Remains(h, task[h].rest \ {"google"})
  /\ UNCHANGED <<event, connected, texts>>
-----------------------------------------------------------------------------
\* handleCallback and disconnect, of the user who created the event.
Connect ==
  /\ ~connected /\ connected' = TRUE
  /\ UNCHANGED <<event, copy, task, texts, inTurn, smooth>>

Disconnect ==
  /\ connected /\ connected' = FALSE
  /\ smooth' = FALSE
  /\ UNCHANGED <<event, copy, task, texts, inTurn>>

\* The process ends, or a query fails: the rest of the task is not done.
LoseTask(h) ==
  /\ task[h].op # "idle"
  /\ Over(h) /\ smooth' = FALSE
  /\ UNCHANGED <<event, copy, connected, texts>>

HandleEvent(h) ==
  \/ CreateEvent(h) \/ EditRead(h) \/ EditWrite(h) \/ ReadSettings(h)
  \/ SendOk(h) \/ SendRefused(h) \/ SendFails(h) \/ SaveLink(h) \/ SaveFailure(h)
  \/ RemoveRead(h) \/ RemoveRow(h) \/ RemoveSettings(h) \/ EraseCopy(h) \/ LoseTask(h)

CalendarNext == Connect \/ Disconnect \/ \E h \in Hands : HandleEvent(h)

CalendarSpec == CalendarInit /\ [][CalendarNext]_calendarVars
-----------------------------------------------------------------------------
(* Properties *)

\* As long as no request meets the sync of another: the copy of a row that says
\* SYNCED has its text, whatever failed before and whenever the user connected or
\* disconnected (a deletion that fails half way leaves no copy); and unless
\* something failed or was disconnected, every event gets there and a deleted one
\* leaves no copy.
CopyFollows ==
  inTurn /\ Still =>
    /\ event.state = "kept" /\ event.status = "SYNCED" => copy \in {event.text, NoCopy}
    /\ smooth /\ event.state = "kept" => event.status = "SYNCED" /\ copy = event.text
    /\ smooth /\ event.state = "gone" => copy = NoCopy
=============================================================================
