------------------------------- MODULE Zones -------------------------------
(***************************************************************************)
(* Instants, wall clocks and days (timezone.util, recurrence.util).  An    *)
(* instant is a number of hours, and so is a wall clock, counted as if it  *)
(* were UTC; a day has DayHours of them.  A zone is ahead of UTC by one    *)
(* offset before its change and by another after it.                       *)
(***************************************************************************)
EXTENDS Integers

CONSTANT DayHours

ASSUME DayAssumption == DayHours \in Nat \ {0}

offsetMs(zone, t) == IF t < zone.change THEN zone.before ELSE zone.after
wallClockIn(zone, t) == t + offsetMs(zone, t)
formatDateKey(zone, t) == wallClockIn(zone, t) \div DayHours
HourOf(zone, t) == wallClockIn(zone, t) % DayHours

\* Intl knows the offset of an instant only: it is sampled near the wall clock first, and
\* at the instant found then.
fromWallClock_Once(zone, wall) == wall - offsetMs(zone, wall)
fromWallClock(zone, wall) == wall - offsetMs(zone, wall - offsetMs(zone, wall))

\* The instants of a local day; the first sample is taken now.
dayRange_Once(zone, day, now) ==
  LET Midnight(d) == d * DayHours - offsetMs(zone, now)
  IN [start |-> Midnight(day), end |-> Midnight(day + 1)]
dayRange(zone, day, now) ==
  LET Midnight(d) ==
        d * DayHours - offsetMs(zone, d * DayHours - offsetMs(zone, now))
  IN [start |-> Midnight(day), end |-> Midnight(day + 1)]
=============================================================================
