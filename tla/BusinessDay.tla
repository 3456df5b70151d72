----------------------------- MODULE BusinessDay ------------------------------
(***************************************************************************)
(* tenants/time.py: the business date of an instant in a tenant's timezone *)
(* and the two instants that bound a business date.                        *)
(*                                                                         *)
(* An instant is a number of ticks of UTC, a wall clock the number of      *)
(* ticks it shows, and midnights are the multiples of Day.  A zone is at   *)
(* one distance from UTC before an instant and at another from then on:    *)
(* the window of one date meets at most one change of a clock.             *)
(***************************************************************************)
EXTENDS Integers

CONSTANTS
  Day,    \* how many ticks a wall clock shows from midnight to midnight
  Zone    \* the timezones: when the clock changes, its offset before and after

ASSUME DayAssumption == Day \in Nat \ {0}
ASSUME ZoneAssumption == Zone \subseteq [at : Int, before : Int, after : Int]

Smaller(a, b) == IF a < b THEN a ELSE b
Larger(a, b) == IF a < b THEN b ELSE a

\* No clock jumps over a midnight from one side to the other, forwards or
\* backwards; it may jump to one or from one, and over a whole day.
ASSUME MidnightAssumption ==
  \A z \in Zone :
    LET here == z.at + z.before
        there == z.at + z.after
    IN  (Larger(here, there) - 1) \div Day <= Smaller(here, there) \div Day

UtcOffset(z, t) == IF t < z.at THEN z.before ELSE z.after

\* get_business_date: now.astimezone(tz).date()
BusinessDate(z, t) == (t + UtcOffset(z, t)) \div Day

\* astimezone(utc) of a wall clock with fold = 0: of two instants that show
\* it the first, of a time that is skipped the one the old offset gives.
ToUtc(z, wall) ==
  IF wall < z.at + Larger(z.before, z.after) THEN wall - z.before ELSE wall - z.after

DayStart(z, d) == ToUtc(z, d * Day)

\* Mutant of Boundary: the end is taken a day of 24 hours after the start.
BoundaryByLength(z, d) == [start |-> DayStart(z, d), end |-> DayStart(z, d) + Day]

\* get_business_day_boundary
Boundary(z, d) == [start |-> DayStart(z, d), end |-> DayStart(z, d + 1)]

\* Mutant of Within: the end belongs to the day.
WithinClosed(window, t) == window.start <= t /\ t <= window.end

\* created_at__gte=start_utc, created_at__lt=end_utc
Within(window, t) == window.start <= t /\ t < window.end
===============================================================================
