------------------------------ MODULE Calendar ------------------------------
(***************************************************************************)
(* Tasks and events of one project on the calendar (tasks.service,         *)
(* task.repository): one table for both, with time columns that depend on  *)
(* the kind, PATCH that merges what it read with what was sent, the card   *)
(* routes that write the deadline alone, and GET /tasks, read in pages by  *)
(* offset, newest first, with nothing to order the items of one instant.   *)
(***************************************************************************)
EXTENDS Naturals, Sequences, FiniteSets, SequencesExt

CONSTANTS Instants, NoTime,
          Editors,                     \* requests that may run at once
          PerPage,                     \* items on a page
          MaxItems, MaxCalendarWrites  \* bounds on the items and the requests

ASSUME CalendarAssumption ==
  /\ Instants \subseteq Nat /\ NoTime \notin Instants
  /\ PerPage \in Nat \ {0} /\ MaxItems \in Nat /\ MaxCalendarWrites \in Nat

VARIABLES item,      \* the rows, numbered as they were inserted
          edit,      \* PATCH requests: the row as it was read
          listing,   \* a client that reads the calendar page by page
          snoozed,   \* history: events whose deadline a card route wrote last
          calendarWrites

calendarVars == <<item, edit, listing, snoozed, calendarWrites>>

Known == DOMAIN item
NoEdit == [pc |-> "rest", item |-> 0, read |-> <<>>]
NoListing == [pc |-> "rest", kind |-> "ALL", from |-> NoTime, to |-> NoTime, page |-> 1,
              seen |-> {}, stays |-> {}, gone |-> {}, ends |-> {}]
Sent == Instants \cup {NoTime}

-----------------------------------------------------------------------------
\* The time columns: a task has a deadline at most, an event a range, and its start as
\* deadline, which the reminders read.  What is not a range is refused.
timeColumns_AsSent(kind, start, end, deadline) ==
  IF kind = "TASK" THEN [start |-> NoTime, end |-> NoTime, deadline |-> deadline]
  ELSE [start |-> start, end |-> end,
        deadline |-> IF deadline = NoTime THEN start ELSE deadline]
timeColumns(kind, start, end, deadline) ==
  IF kind = "TASK" THEN [start |-> NoTime, end |-> NoTime, deadline |-> deadline]
  ELSE [start |-> start, end |-> end, deadline |-> start]
Accepted(kind, start, end) ==
  kind = "EVENT" => start # NoTime /\ end # NoTime /\ start <= end

NewRow(kind, times, now) ==
  [kind |-> kind, start |-> times.start, end |-> times.end,
   deadline |-> times.deadline, live |-> TRUE, made |-> now]
Bodies == [kind : {"TASK", "EVENT"}, start : Sent, end : Sent, deadline : Sent]
NewRows ==
  {NewRow(body.kind, timeColumns(body.kind, body.start, body.end, body.deadline), now) :
     body \in {x \in Bodies : Accepted(x.kind, x.start, x.end)}, now \in Instants}

CalendarInit ==
  /\ \E there \in 0..MaxItems : item \in [1..there -> NewRows]
  /\ \A i, j \in Known : i < j => item[i].made <= item[j].made
  /\ edit = [w \in Editors |-> NoEdit]
  /\ listing = NoListing /\ snoozed = {} /\ calendarWrites = 0

Counts == calendarWrites < MaxCalendarWrites /\ calendarWrites' = calendarWrites + 1

-----------------------------------------------------------------------------
(* Requests that write.  An item is read and written in two queries, by    *)
(* id: it may have changed, or be deleted, in between.                     *)
\* The instant of creation is the column's default, now(), and two requests may insert at
\* the same one, or in another order than they are seen by the next query: it is any.
create ==
  /\ Counts /\ Len(item) < MaxItems
  /\ \E new \in NewRows : item' = Append(item, new)
  /\ UNCHANGED <<edit, snoozed>>

update(w) ==
  /\ edit[w].pc = "rest" /\ Counts
  /\ \E i \in Known : /\ item[i].live
                      /\ edit' = [edit EXCEPT ![w] = [pc |-> "write", item |-> i, read |-> item[i]]]
  /\ UNCHANGED <<item, snoozed>>

\* What is not sent stays as it was read for an event, as it is for a task; a deadline
\* cannot be removed, and sent for an event, it is ignored, as a range is for a task.
Merged(sent, read) == IF sent = NoTime THEN read ELSE sent
UpdateWrites(w) ==
  /\ edit[w].pc = "write"
  /\ edit' = [edit EXCEPT ![w] = NoEdit]
  /\ LET i == edit[w].item
         read == edit[w].read
     IN \E start, end \in IF read.kind = "EVENT" THEN Sent ELSE {NoTime}, deadline \in Sent :
       LET times == IF read.kind = "EVENT"
                    THEN timeColumns("EVENT", Merged(start, read.start), Merged(end, read.end),
                                     deadline)
                    ELSE timeColumns("TASK", NoTime, NoTime, Merged(deadline, item[i].deadline))
       IN IF Accepted(read.kind, times.start, times.end)
          THEN /\ item' = [item EXCEPT ![i].start = times.start, ![i].end = times.end,
                                       ![i].deadline = times.deadline]
               /\ snoozed' = snoozed \ {i}
          ELSE UNCHANGED <<item, snoozed>>
  /\ UNCHANGED calendarWrites

\* A card route takes any task by its id, and the deadline alone is written.
snoozeItem ==
  /\ Counts
  /\ \E i \in Known, d \in Sent : /\ item[i].live
                                  /\ item' = [item EXCEPT ![i].deadline = d]
                                  /\ snoozed' = snoozed \cup {i}
  /\ UNCHANGED edit

softDelete ==
  /\ Counts
  /\ \E i \in Known : item[i].live /\ item' = [item EXCEPT ![i].live = FALSE]
  /\ UNCHANGED <<edit, snoozed>>
restoreItem ==
  /\ Counts
  /\ \E i \in Known : ~item[i].live /\ item' = [item EXCEPT ![i].live = TRUE]
  /\ UNCHANGED <<edit, snoozed>>

-----------------------------------------------------------------------------
(* The list.  A bound that is not sent does not count, and without any,    *)
(* items without a time are listed too.                                    *)
AtLeast(t, bound) == bound = NoTime \/ (t # NoTime /\ t >= bound)
AtMost(t, bound) == bound = NoTime \/ (t # NoTime /\ t <= bound)

Clause_ByDeadline(i, from, to) == AtLeast(item[i].deadline, from) /\ AtMost(item[i].deadline, to)
Clause(i, from, to) ==
  IF item[i].kind = "TASK"
  THEN AtLeast(item[i].deadline, from) /\ AtMost(item[i].deadline, to)
  ELSE AtMost(item[i].start, to) /\ AtLeast(item[i].end, from)

buildWhere(kind, from, to) ==
  {i \in Known : item[i].live /\ (kind = "ALL" \/ item[i].kind = kind) /\ Clause(i, from, to)}
\* The first k rows, the newest first.  Rows of one instant come in an order that each query
\* chooses anew.
FirstRows(S, k) ==
  {F \in SUBSET S : /\ Cardinality(F) <= k
                    /\ F # S => Cardinality(F) = k
                    /\ \A i \in F, j \in S \ F : item[i].made >= item[j].made}
findMany(kind, from, to, n) ==
  LET rows == buildWhere(kind, from, to)
  IN {page \in SUBSET rows :
        \E skipped \in FirstRows(rows, (n - 1) * PerPage) :
          skipped \cap page = {} /\ skipped \cup page \in FirstRows(rows, n * PerPage)}

\* For the property: the instants at which a page ended between rows of the same one.
Splits(kind, from, to, page) ==
  {item[i].made : i \in page} \cap {item[j].made : j \in buildWhere(kind, from, to) \ page}

\* A client that sends no kind gets the tasks; the calendar sends ALL.
OpenCalendar ==
  /\ listing.pc = "rest"
  /\ \E kind \in {"TASK", "ALL"}, from, to \in Sent :
       /\ from # NoTime /\ to # NoTime => from <= to
       /\ listing' = [NoListing EXCEPT !.pc = "next", !.kind = kind, !.from = from, !.to = to,
                                       !.stays = Known]
  /\ UNCHANGED <<item, edit, snoozed, calendarWrites>>
list ==
  /\ listing.pc = "next"
  /\ \E rows \in findMany(listing.kind, listing.from, listing.to, listing.page) :
       listing' = [listing EXCEPT
         !.pc = IF Cardinality(rows) < PerPage THEN "done" ELSE "next",
         !.page = @ + 1, !.seen = @ \cup rows,
         !.ends = @ \cup Splits(listing.kind, listing.from, listing.to, rows)]
  /\ UNCHANGED <<item, edit, snoozed, calendarWrites>>

\* A request that writes, and what it takes from the list while the client reads it.
Changes ==
  /\ create \/ (\E w \in Editors : update(w) \/ UpdateWrites(w))
     \/ snoozeItem \/ softDelete \/ restoreItem
  /\ LET was == buildWhere(listing.kind, listing.from, listing.to)
     IN listing' = [listing EXCEPT
          !.stays = {i \in @ : item'[i] = item[i]},
          !.gone = IF listing.pc # "next" THEN @
                   ELSE @ \cup {i \in was : item'[i] # item[i]}]

CalendarNext == Changes \/ OpenCalendar \/ list

CalendarSpec == CalendarInit /\ [][CalendarNext]_calendarVars

-----------------------------------------------------------------------------
(* A client that reads all pages of a range has seen every item that       *)
(* stayed as it was and has an instant in common with the range -- an      *)
(* event that began before it and runs into it too -- and none that has    *)
(* not, unless a newer item changed or went while it read, for pages count *)
(* from the newest, or a page ended within the instant at which the item   *)
(* was made: the next query may order that instant differently.            *)
TouchesRange(i, from, to) ==
  LET Within(t) == AtLeast(t, from) /\ AtMost(t, to)
  IN IF item[i].kind = "TASK" THEN Within(item[i].deadline)
     ELSE \E t \in item[i].start..item[i].end : Within(t)
ListMissesNothing ==
  listing.pc = "done" =>
    LET wanted == {i \in listing.stays : /\ item[i].live
                                         /\ listing.kind \in {"ALL", item[i].kind}
                                         /\ TouchesRange(i, listing.from, listing.to)}
    IN /\ \A i \in wanted \ listing.seen :
            \/ item[i].made \in listing.ends
            \/ \E j \in listing.gone : item[j].made > item[i].made
       /\ listing.seen \cap listing.stays \subseteq wanted

(* An event always has a range the table accepts (a request can then not   *)
(* fail on the CHECK), and is reminded of at its start, whatever PATCHes   *)
(* of its start and its end run at once, unless a card route wrote its     *)
(* deadline since the last PATCH: snooze moves the reminder of an event    *)
(* and not the event.                                                      *)
EventsRemindAtStart ==
  \A i \in Known : item[i].kind = "EVENT" =>
    item[i].start <= item[i].end /\ (i \in snoozed \/ item[i].deadline = item[i].start)
=============================================================================
