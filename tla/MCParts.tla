------------------------------ MODULE MCParts ------------------------------
(***************************************************************************)
(* The components besides projects and cards, for TLC: the cron jobs with  *)
(* two runs of each, sign-in, the Zalo link, the read-through cache, what  *)
(* hangs on a card, the feed of notes, cards in columns, columns,          *)
(* repeating cards, the agenda and the calendar.  Each keeps its own       *)
(* variables, and one run checks them side by side: the initial state      *)
(* chooses a component, and only that one moves, so that their states add  *)
(* up instead of multiplying.                                              *)
(***************************************************************************)
EXTENDS MCCron, Sessions, ZaloLink, ReadCache, CardDetail, NotesFeed, ListOrder, Repeats,
        Agenda, Calendar

VARIABLE component

otherVars == <<sessionsVars, zaloVars, cacheVars, detailVars, feedVars, columnsVars,
               listOrderVars, repeatsVars, agendaVars, calendarVars>>
partsVars == <<component, cronVars, otherVars>>

-----------------------------------------------------------------------------
(* Values of constants. *)
OneIdentity == [g \in GoogleIds |-> CHOOSE e \in Emails : TRUE]

\* Zones with no change of clocks, and with one forward or back, east and west.
ZoneAt(before, after, change) == [before |-> before, after |-> after, change |-> change]
RepeatZones == {ZoneAt(2, 2, 0), ZoneAt(1, 2, 58 * DayHours + 2),
                ZoneAt(2, 1, 58 * DayHours + 2), ZoneAt(-2, -1, 58 * DayHours + 3)}
AgendaZones == {ZoneAt(2, 2, 0), ZoneAt(1, 2, 32), ZoneAt(2, 1, 32), ZoneAt(-2, -1, 33)}

Rule(unit, interval, weekdays, dayOfMonth, until, remaining) ==
  [unit |-> unit, interval |-> interval, weekdays |-> weekdays, dayOfMonth |-> dayOfMonth,
   until |-> until, remaining |-> remaining]
RepeatRules ==
  {Rule("DAY", 1, {1}, 31, Never, 6), Rule("DAY", 3, {}, Never, 400, 5),
   Rule("WEEK", 1, {}, Never, Never, 2), Rule("WEEK", 2, {1, 4}, Never, Never, 5),
   Rule("WEEK", 3, {0, 6}, Never, Never, 5), Rule("WEEK", 1, {3}, Never, Never, 3),
   Rule("MONTH", 1, {}, 31, Never, Never), Rule("MONTH", 1, {2}, Never, Never, Never),
   Rule("MONTH", 5, {}, 30, Never, Never), Rule("MONTH", 12, {}, 29, Never, Never)}
\* Around the end of January and of February.
RepeatBases == {day * DayHours + h : day \in (26..35) \cup (54..64), h \in 0..DayHours - 1}

ClockHours == 26..38
AgendaDeadlines == {25, 28, 31, 32, 33, 34, 36, 40}

\* The slots, runs, readers and users are the same model values, and none is named.
Symmetry == Permutations(Slots)

\* A bound: the last token is issued only where no Google sign-in took part.
SmallSessions ==
  Len(tokens') = MaxTokens =>
    /\ \A e \in Emails : accounts'[e].google = NoGoogle
    /\ \A r \in Slots : auth'[r].google = NoGoogle

\* A bound: a client pages through a column while one request at most is under way.
SmallColumns ==
  page'.pc # "rest" => Cardinality({w \in Requests : request'[w].pc # "rest"}) <= 1

\* A bound: a client opens the calendar before the first request, which finds any rows, and
\* is followed to its last page; meanwhile a PATCH runs alone, and is the first request.
SmallCalendar ==
  /\ listing.pc # "done"
  /\ listing.pc = "rest" /\ listing'.pc = "next" => calendarWrites = 0
  /\ listing'.pc # "rest" /\ (\E w \in Editors : edit'[w].pc # "rest") => calendarWrites' <= 1

-----------------------------------------------------------------------------
\* A component that does not move stays in one of its initial states.
MCPartsInit ==
  /\ component \in {"cron", "sessions", "zalo", "cache", "detail", "feed", "columns",
                    "lists", "repeats", "agenda", "calendar"}
  /\ MCInit /\ (component # "cron" => job = "mail")
  /\ SessionsInit /\ (component # "sessions" => \A e \in Emails : accounts[e] = NoAccount)
  /\ ZaloInit /\ CacheInit /\ DetailInit /\ NotesFeedInit
  /\ ColumnsInit /\ (component # "columns" => row = <<>>)
  /\ ListOrderInit /\ (component # "lists" => listAt = <<>>)
  /\ CalendarInit /\ (component # "calendar" => item = <<>>)
  /\ IF component = "repeats" THEN RepeatsInit
     ELSE /\ zone = ZoneAt(0, 0, 0) /\ deadline = 0 /\ first = 0
          /\ rule = Rule("DAY", 1, {}, Never, Never, 0)
  /\ IF component = "agenda" THEN AgendaInit
     ELSE /\ card = [t \in AgendaCards |-> [status |-> "TODO", deadline |-> None,
                                            completedAt |-> None]]
          /\ viewerZone = ZoneAt(0, 0, 0) /\ time = 0 /\ left = {} /\ steps = 0

MCPartsNext ==
  /\ UNCHANGED component
  /\ \/ component = "cron" /\ MCNext /\ UNCHANGED otherVars
     \/ /\ component # "cron" /\ UNCHANGED cronVars
        /\ \/ component = "sessions" /\ SessionsNext /\ SmallSessions
           \/ component # "sessions" /\ UNCHANGED sessionsVars
        /\ \/ component = "zalo" /\ ZaloNext
           \/ component # "zalo" /\ UNCHANGED zaloVars
        /\ \/ component = "cache" /\ CacheNext
           \/ component # "cache" /\ UNCHANGED cacheVars
        /\ \/ component = "detail" /\ DetailNext
           \/ component # "detail" /\ UNCHANGED detailVars
        /\ \/ component = "feed" /\ NotesFeedNext
           \/ component # "feed" /\ UNCHANGED feedVars
        /\ \/ component = "columns" /\ ColumnsNext /\ SmallColumns
           \/ component # "columns" /\ UNCHANGED columnsVars
        /\ \/ component = "lists" /\ ListOrderNext
           \/ component # "lists" /\ UNCHANGED listOrderVars
        /\ \/ component = "calendar" /\ CalendarNext /\ SmallCalendar
           \/ component # "calendar" /\ UNCHANGED calendarVars
        /\ \/ component = "repeats" /\ RepeatsNext
           \/ component # "repeats" /\ UNCHANGED repeatsVars
        /\ \/ component = "agenda" /\ AgendaNext
           \/ component # "agenda" /\ UNCHANGED agendaVars

MCPartsSpec == MCPartsInit /\ [][MCPartsNext]_partsVars
=============================================================================
