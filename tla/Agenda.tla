------------------------------- MODULE Agenda -------------------------------
(***************************************************************************)
(* What is late, due and done today (board-agenda.service, board.service   *)
(* computeToday, deadline.util, getStats of tasks.service, statsByProject): five places    *)
(* derive it from the status, the deadline and completedAt of the cards of *)
(* a board, which five routes write.  One request at a time; all of them   *)
(* see one clock.                                                          *)
(***************************************************************************)
EXTENDS Zones, FiniteSets

CONSTANTS AgendaCards, ViewerZones,
          Hours,                 \* those the clock shows
          DeadlineChoices, None,
          MaxAgendaSteps         \* bound on the requests

ASSUME AgendaAssumption ==
  /\ Hours \subseteq Nat /\ Hours # {}
  /\ DeadlineChoices \subseteq Nat /\ MaxAgendaSteps \in Nat
  /\ ViewerZones \subseteq [before : Int, after : Int, change : Int]

\* The clocks of a zone neither skip nor repeat a midnight: the hour that ends at the change
\* is of one day by both offsets.
ASSUME MidnightsAssumption ==
  \A z \in ViewerZones : (z.change + z.before - 1) \div DayHours = (z.change + z.after - 1) \div DayHours

VARIABLES card, viewerZone, time,
          left,          \* history: cards that a PATCH left completed and not DONE
          steps

agendaVars == <<card, viewerZone, time, left, steps>>

Statuses == {"TODO", "DONE", "CANCELLED"}
Closed == {"DONE", "CANCELLED"}

\* A card is created in a list, with the status the list maps to, and not completed.
AgendaInit ==
  /\ card \in [AgendaCards -> [status : {"TODO", "DONE"},
                               deadline : DeadlineChoices \cup {None}, completedAt : {None}]]
  /\ viewerZone \in ViewerZones
  /\ time = CHOOSE h \in Hours : \A g \in Hours : h <= g
  /\ left = {} /\ steps = 0

Stores(t, row) ==
  /\ steps < MaxAgendaSteps /\ steps' = steps + 1
  /\ card' = [card EXCEPT ![t] = row]
  /\ UNCHANGED <<viewerZone, time>>

-----------------------------------------------------------------------------
\* PATCH /tasks/:id: completedAt is set on the way into DONE or as sent, here the time of
\* the request, and never cleared; a null deadline is ignored.
Patch(t) ==
  \E status \in Statuses, deadline \in DeadlineChoices \cup {card[t].deadline}, sent \in BOOLEAN :
    LET completingNow == status = "DONE" /\ card[t].completedAt = None
        at == IF completingNow \/ sent THEN time ELSE card[t].completedAt
    IN /\ Stores(t, [status |-> status, deadline |-> deadline, completedAt |-> at])
       /\ left' = IF status # "DONE" /\ at # None THEN left \cup {t} ELSE left

\* Moving a card into a list that maps to a status.
resolveCompletedAt_Keeps(row, status) ==
  IF status = "DONE" /\ row.completedAt = None THEN time ELSE row.completedAt
resolveCompletedAt(row, status) ==
  CASE status = "DONE" /\ row.completedAt = None -> time
    [] status # "DONE" -> None
    [] OTHER -> row.completedAt
Move(t) ==
  /\ \E status \in Statuses :
       Stores(t, [card[t] EXCEPT !.status = status,
                                 !.completedAt = resolveCompletedAt(card[t], status)])
  /\ left' = left \ {t}

completeCard(t) ==
  /\ Stores(t, [card[t] EXCEPT !.status = "DONE", !.completedAt = time])
  /\ left' = left \ {t}
reopen(t) ==
  /\ Stores(t, [card[t] EXCEPT !.status = "TODO", !.completedAt = None])
  /\ left' = left \ {t}
snoozeCard(t) ==
  /\ \E d \in DeadlineChoices \cup {None} : Stores(t, [card[t] EXCEPT !.deadline = d])
  /\ UNCHANGED left

ClockStrikes ==
  /\ time + 1 \in Hours /\ time' = time + 1
  /\ UNCHANGED <<card, viewerZone, left, steps>>

AgendaNext ==
  \/ \E t \in AgendaCards : Patch(t) \/ Move(t) \/ completeCard(t) \/ reopen(t) \/ snoozeCard(t)
  \/ ClockStrikes

AgendaSpec == AgendaInit /\ [][AgendaNext]_agendaVars

-----------------------------------------------------------------------------
(* The answers. *)
DeadlineStatus(t) ==
  CASE card[t].status = "DONE" ->
         IF card[t].deadline = None \/ card[t].completedAt = None THEN "ON_TIME"
         ELSE IF card[t].completedAt <= card[t].deadline THEN "ON_TIME" ELSE "LATE"
    [] card[t].status # "DONE" /\ card[t].deadline # None ->
         IF card[t].deadline < time THEN "LATE" ELSE "IN_PROGRESS"
    [] OTHER -> "IN_PROGRESS"

Unfinished(t) ==
  card[t].completedAt = None /\ card[t].status \notin Closed /\ card[t].deadline # None
overdueCards == {t \in AgendaCards : Unfinished(t) /\ card[t].deadline < time}
dueTodayCards(from, end) ==
  {t \in AgendaCards : Unfinished(t) /\ from <= card[t].deadline /\ card[t].deadline < end}

todayKey == formatDateKey(viewerZone, time)
todayMetrics ==
  LET day == dayRange(viewerZone, todayKey, time)
  IN [overdue  |-> Cardinality(overdueCards),
      dueToday |-> Cardinality(dueTodayCards(day.start, day.end)),
      doneToday |-> Cardinality({t \in AgendaCards : /\ card[t].completedAt # None
                                               /\ day.start <= card[t].completedAt
                                               /\ card[t].completedAt < day.end})]

\* What is past its deadline belongs to overdue, so the day starts now at the earliest.
agenda(date) ==
  LET day == dayRange(viewerZone, date, time)
  IN [overdue  |-> overdueCards,
      dueToday |-> dueTodayCards(IF day.start > time THEN day.start ELSE time, day.end)]

\* GET /tasks/stats, for all time: performance is the share of onTime in completed.
countCompleted == {t \in AgendaCards : card[t].status = "DONE"}
countOnTimeCompleted ==
  {t \in countCompleted : \/ None \in {card[t].deadline, card[t].completedAt}
                          \/ card[t].completedAt <= card[t].deadline}
getStats == [completed |-> countCompleted, onTime |-> countOnTimeCompleted]

\* GET /projects: open and late tasks of a project.
statsByProject ==
  LET openTasks == {t \in AgendaCards : card[t].status \notin Closed}
  IN [open    |-> openTasks,
      overdue |-> {t \in openTasks : card[t].deadline # None /\ card[t].deadline < time}]

-----------------------------------------------------------------------------
(* Today and any other day are days of the user's calendar, in every zone  *)
(* and across a change of clocks.  The agenda of a day shows an unfinished *)
(* card whose deadline has passed, and one whose deadline is still to come *)
(* on that day, in one section each and no other card ("it is just missing *)
(* rows").  The numbers of the toolbar count what falls on today, past or  *)
(* not, and what was completed on it.                                      *)
DaysAreLocal ==
  LET OnDay(t, date) == t # None /\ formatDateKey(viewerZone, t) = date
      DueOn(date) == {t \in AgendaCards : Unfinished(t) /\ OnDay(card[t].deadline, date)}
  IN /\ \A date \in todayKey - 1..todayKey + 2 :
          LET shown == agenda(date)
          IN /\ shown.overdue \cap shown.dueToday = {}
             /\ shown.overdue \cup shown.dueToday =
                  {t \in AgendaCards : Unfinished(t) /\ card[t].deadline < time} \cup DueOn(date)
     /\ todayMetrics.dueToday = Cardinality(DueOn(todayKey))
     /\ todayMetrics.doneToday =
          Cardinality({t \in AgendaCards : OnDay(card[t].completedAt, todayKey)})

(* The screens agree ("Derived, never stored -- the board and the legacy   *)
(* task screens must agree").  A project counts a task of a project as     *)
(* overdue when it is open and its own screen calls it late, and so does   *)
(* the board, unless a PATCH took it out of DONE, or sent completedAt: the *)
(* board then takes it as completed, and the others do not.  A completed   *)
(* card is late on its screen exactly when the performance of its user     *)
(* counts it late.                                                         *)
ScreensAgree ==
  /\ statsByProject.overdue = {t \in statsByProject.open : DeadlineStatus(t) = "LATE"}
  /\ statsByProject.overdue \ left = overdueCards \ left
  /\ \A t \in getStats.completed : t \in getStats.onTime <=> DeadlineStatus(t) # "LATE"
=============================================================================
