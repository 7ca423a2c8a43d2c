------------------------------ MODULE Repeats ------------------------------
(***************************************************************************)
(* The chain of a repeating card: each completion makes the next           *)
(* occurrence (board-card.service spawnRepeat, recurrence.util).  Dates    *)
(* are days since the first of January of a leap year.                     *)
(***************************************************************************)
EXTENDS Zones, Sequences, FiniteSets

CONSTANTS ZoneChoices, Rules, Bases,
          FirstWeekday,      \* of day 0; Sunday is 0
          Horizon            \* months the calendar has

ASSUME RepeatsAssumption ==
  /\ FirstWeekday \in 0..6 /\ Horizon \in Nat \ {0}
  /\ Bases \subseteq Int
  /\ Rules \subseteq [unit : {"DAY", "WEEK", "MONTH"}, interval : Nat \ {0},
                      weekdays : SUBSET (0..6), dayOfMonth : -1..31 \ {0},
                      until : Int, remaining : Nat \cup {-1}]
  /\ ZoneChoices \subseteq [before : Int, after : Int, change : Int]

\* Clocks that go forward do so away from midnight: an hour that is skipped has the hours
\* that take its place on its own day.
ASSUME ForwardAssumption ==
  \A z \in ZoneChoices :
    z.before < z.after =>
      (z.change + z.before - (z.after - z.before)) \div DayHours
        = (z.change + z.after + (z.after - z.before) - 1) \div DayHours

VARIABLES rule,       \* the repeat columns of the card
          zone,       \* of the assignee
          deadline,   \* of the occurrence that is open
          first       \* history: the local day of the first one

repeatsVars == <<rule, zone, deadline, first>>

Never == -1            \* null: no end, no day of the month

-----------------------------------------------------------------------------
(* The calendar. *)
daysInMonth(year, month) ==
  CASE month = 2 -> IF year % 4 = 0 THEN 29 ELSE 28
    [] month \in {4, 6, 9, 11} -> 30
    [] OTHER -> 31

\* The day a month starts, by the number of months since the first.
MonthStart[m \in 0..Horizon] ==
  IF m = 0 THEN 0 ELSE MonthStart[m - 1] + daysInMonth((m - 1) \div 12, ((m - 1) % 12) + 1)
MonthOf(day) == CHOOSE m \in 0..Horizon - 1 : MonthStart[m] <= day /\ day < MonthStart[m + 1]
DayOfMonth(day) == day - MonthStart[MonthOf(day)] + 1
Weekday(day) == (day + FirstWeekday) % 7
Least(S) == CHOOSE d \in S : \A e \in S : d <= e

-----------------------------------------------------------------------------
(* repeatColumns: what belongs to another unit is dropped. *)
repeatColumns(input) ==
  [input EXCEPT !.weekdays = IF input.unit = "WEEK" THEN @ ELSE {},
                !.dayOfMonth = IF input.unit = "MONTH" THEN @ ELSE Never]

(* nextOccurrence *)
\* The first chosen weekday of the next week that counts.
NextWeek_EveryWeek(day) == day + 7 - Weekday(day) + Least(rule.weekdays)
NextWeek(day) == day + 7 - Weekday(day) + Least(rule.weekdays) + (rule.interval - 1) * 7

NextDay(day) ==
  LET ahead == {d \in rule.weekdays : d > Weekday(day)}
      month == MonthOf(day) + rule.interval
      length == MonthStart[month + 1] - MonthStart[month]
      wanted == IF rule.dayOfMonth = Never THEN DayOfMonth(day) ELSE rule.dayOfMonth
  IN CASE rule.unit = "WEEK" /\ rule.weekdays # {} ->
            IF ahead # {} THEN day + Least(ahead) - Weekday(day) ELSE NextWeek(day)
       [] rule.unit = "MONTH" ->
            MonthStart[month] + (IF wanted < length THEN wanted ELSE length) - 1
       [] rule.unit = "WEEK" /\ rule.weekdays = {} -> day + 7 * rule.interval
       [] rule.unit = "DAY" -> day + rule.interval

nextOccurrence(base) ==
  fromWallClock(zone, NextDay(formatDateKey(zone, base)) * DayHours + HourOf(zone, base))

Ended(base) == \/ rule.remaining = 0
               \/ rule.until # Never /\ nextOccurrence(base) > rule.until

-----------------------------------------------------------------------------
RepeatsInit ==
  /\ zone \in ZoneChoices
  /\ rule \in {repeatColumns(input) : input \in Rules}
  /\ deadline \in Bases
  /\ first = formatDateKey(zone, deadline)

\* The days the calendar has room for.
InCalendar(day) == /\ 0 <= day /\ day + 7 * rule.interval < MonthStart[Horizon - 1]
                   /\ MonthOf(day) + rule.interval < Horizon - 1

\* The occurrence is completed, and the next one has one fewer to come.
spawnRepeat ==
  /\ InCalendar(formatDateKey(zone, deadline))
  /\ ~Ended(deadline)
  /\ deadline' = nextOccurrence(deadline)
  /\ rule' = [rule EXCEPT !.remaining = IF @ = Never THEN Never ELSE @ - 1]
  /\ UNCHANGED <<zone, first>>

RepeatsNext == spawnRepeat

RepeatsSpec == RepeatsInit /\ [][RepeatsNext]_repeatsVars

-----------------------------------------------------------------------------
(* The rule, said without the code's arithmetic: weekly on chosen days is  *)
(* the first such day after the last occurrence in a week that is a        *)
(* multiple of the interval after the week of the first one; monthly is    *)
(* the last day, not after the one asked for, of the month that many       *)
(* months on.                                                              *)
Week(day) == (day + FirstWeekday) \div 7
OnRule(day, next) ==
  /\ rule.unit = "DAY" => next - day = rule.interval
  /\ rule.unit = "WEEK" /\ rule.weekdays = {} =>
       Weekday(next) = Weekday(day) /\ Week(next) - Week(day) = rule.interval
  /\ rule.unit = "WEEK" /\ rule.weekdays # {} =>
       LET Due(d) == /\ Weekday(d) \in rule.weekdays
                     /\ (Week(d) - Week(first)) % rule.interval = 0
       IN day < next /\ Due(next) /\ \A d \in day + 1..next - 1 : ~Due(d)
  /\ rule.unit = "MONTH" =>
       LET asked == IF rule.dayOfMonth = Never THEN DayOfMonth(day) ELSE rule.dayOfMonth
       IN /\ MonthOf(next) = MonthOf(day) + rule.interval
          /\ DayOfMonth(next) <= asked
          /\ DayOfMonth(next) < asked => MonthOf(next + 1) # MonthOf(next)

Skipped(wall) == \A t \in wall - 2 * DayHours..wall + 2 * DayHours : wallClockIn(zone, t) # wall
OnRuleOrSkipped ==
  LET hour == HourOf(zone, deadline)
      wall == wallClockIn(zone, deadline')
  IN \/ HourOf(zone, deadline') = hour
        /\ OnRule(formatDateKey(zone, deadline), formatDateKey(zone, deadline'))
     \/ \E gap \in {zone.after - zone.before, zone.before - zone.after} :
          Skipped(wall + gap) /\ (wall + gap) % DayHours = hour

(* Every next occurrence falls on the local day the rule says and at the   *)
(* local hour of the one before, across month ends and a change of clocks  *)
(* ("the hour and minute of the old deadline are always kept"), unless the *)
(* clocks skip that hour of that day; then it is one change away.          *)
OccursOnRule == [][<<rule, deadline>>' # <<rule, deadline>> => OnRuleOrSkipped]_repeatsVars
=============================================================================
