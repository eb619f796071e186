-------------------------------- MODULE Utc --------------------------------
(***************************************************************************)
(* The arithmetic of dspic_src/platform/utc.c.                             *)
(*                                                                         *)
(* Labels: counting a UTC second on through an announced leap second.  A   *)
(* label is a Unix second and a flag, the flag marking an inserted         *)
(* 23:59:60 (which repeats the Unix second of :59).  Labels are below 2^32 *)
(* until 2106, so the counts of the model are naturals and never wrap.     *)
(* The synchroniser counts its own label on second by second (keep_time,   *)
(* sync.c) and checks a source's label by counting the edges since the     *)
(* last one all at once (label_follows_on, sync_source.c).  The module     *)
(* runs the first beside the second.                                       *)
(*                                                                         *)
(* The calendar: days since 1970 to a date and back, in 16 bits, and which *)
(* dates are accepted.  The module walks the calendar a day at a time, as  *)
(* a wall calendar does, so that the closed formulas are checked against   *)
(* it over their whole range.  A Unix second is its day and its second of  *)
(* the day, as the code takes it apart.                                    *)
(***************************************************************************)
EXTENDS Integers

CONSTANTS Leaps,    \* the announcements considered
          Starts,   \* the labels counted from
          Horizon   \* the most seconds counted

\* UtcLeap: change is +1 inserted, -1 deleted, 0 none; event is the midnight
\* the change takes effect at.
Leap == [change : {-1, 0, 1}, event : Nat \ {0}]

Label == [utc : Nat, leap : BOOLEAN]

ASSUME UtcAssumption ==
  Leaps \subseteq Leap /\ Starts \subseteq Label /\ Horizon \in Nat

VARIABLES leap,      \* the announcement in force
          start,     \* the label last taken from a source
          elapsed,   \* the edges since
          label      \* the label counted on one second at a time

utcVars == <<leap, start, elapsed, label>>

\* An inserted second that the count has crossed is not taken off again when it
\* is counted from 23:59:60 itself.
UtcAdvanceTwiceOff(from, seconds, announced) ==
  LET result   == from.utc + seconds
      inserted == /\ announced.change = 1 /\ seconds > 0
                  /\ from.utc < announced.event /\ result >= announced.event
  IN  [utc  |-> IF inserted THEN result - 1 ELSE result,
       leap |-> inserted /\ result = announced.event]

\* utc_advance(): the label `seconds` after `from`.
UtcAdvance(from, seconds, announced) ==
  LET result   == from.utc + seconds
      inserted == /\ announced.change = 1
                  /\ seconds > 0
                  /\ ~from.leap
                  /\ from.utc < announced.event
                  /\ result >= announced.event
      deleted  == /\ announced.change = -1
                  /\ seconds > 0
                  /\ from.utc < announced.event - 1
                  /\ result >= announced.event - 1
  IN  [utc  |-> IF inserted THEN result - 1
                ELSE IF deleted THEN result + 1 ELSE result,
       leap |-> \/ inserted /\ result = announced.event
                \/ from.leap /\ seconds = 0]

\* The labels a clock can hold: 23:59:60 only at an inserted leap second, and
\* a deleted 23:59:59 never.
ValidLabel(l, announced) ==
  /\ l.leap => announced.change = 1 /\ l.utc + 1 = announced.event
  /\ announced.change = -1 => l.utc + 1 # announced.event

UtcInit ==
  /\ leap \in Leaps
  /\ start \in {l \in Starts : ValidLabel(l, leap)}
  /\ elapsed = 0
  /\ label = start

\* One edge: the label is counted on.
CountSecond ==
  /\ elapsed < Horizon
  /\ elapsed' = elapsed + 1
  /\ label' = UtcAdvance(label, 1, leap)
  /\ UNCHANGED <<leap, start>>

UtcNext == CountSecond

UtcSpec == UtcInit /\ [][UtcNext]_utcVars

-----------------------------------------------------------------------------
\* One second on, as utc.h draws it.
NextSecond(l, announced) ==
  IF announced.change = 1 /\ ~l.leap /\ l.utc + 1 = announced.event
    THEN [utc |-> l.utc, leap |-> TRUE]              \* 23:59:59 -> 23:59:60
  ELSE IF announced.change = -1 /\ l.utc + 2 = announced.event
    THEN [utc |-> announced.event, leap |-> FALSE]   \* 23:59:58 -> 00:00:00
  ELSE [utc |-> l.utc + 1, leap |-> FALSE]

\* Counting the edges since a label all at once, as a source's labels are
\* checked, gives the very label that counting them one by one keeps, through
\* an inserted or a deleted second and from 23:59:60 itself (utc_advance).
CountsAgree == label = UtcAdvance(start, elapsed, leap)

\* The count shows the seconds of utc.h's drawing, each once and none else.
CountsAsDrawn == [][label' = NextSecond(label, leap)]_utcVars

\* The inductive invariant: the count agrees and its label can exist.
CountInv ==
  /\ leap \in Leap /\ start \in Label /\ elapsed \in Nat /\ label \in Label
  /\ ValidLabel(start, leap) /\ ValidLabel(label, leap)
  /\ CountsAgree

-----------------------------------------------------------------------------
\* The calendar

CONSTANTS FirstDate,   \* 1970-01-01
          LastDate     \* 2106-02-07, the last in 32 bits of seconds

VARIABLES day,         \* days since 1970
          date         \* the date of that day

calendarVars == <<day, date>>

DaysTo1970 == 719468
DaysPerEra == 146097
SecondsPerDay == 86400
UtcLastDay == 49709   \* the last whose every second is in 32 bits

Date == [year : Nat, month : 1 .. 12, day : 1 .. 31]

ASSUME DateAssumption == FirstDate \in Date /\ LastDate \in Date

\* utc_days_from_civil()
DaysFromCivil(d) ==
  LET y    == d.year - (IF d.month <= 2 THEN 1 ELSE 0)
      era  == y \div 400
      yoe  == y - era * 400
      doy  == (153 * (IF d.month > 2 THEN d.month - 3 ELSE d.month + 9) + 2) \div 5
              + d.day - 1
      doe  == yoe * 365 + yoe \div 4 - yoe \div 100 + doy
  IN  (era * DaysPerEra + doe - DaysTo1970) % 65536

\* The correction for the last day of an era's fourth century forgotten, and
\* with it that for the leap day of every fourth year.
CivilFromDaysShort(days) ==
  LET z     == days + DaysTo1970
      era   == z \div DaysPerEra
      doe   == z - era * DaysPerEra
      yoe   == doe \div 365
      doy   == doe - (365 * yoe + yoe \div 4 - yoe \div 100)
      index == (5 * doy + 2) \div 153
      month == IF index < 10 THEN index + 3 ELSE index - 9
  IN  [year  |-> yoe + era * 400 + (IF month <= 2 THEN 1 ELSE 0),
       month |-> month,
       day   |-> doy - (153 * index + 2) \div 5 + 1]

\* utc_civil_from_days()
CivilFromDays(days) ==
  LET z     == days + DaysTo1970
      era   == z \div DaysPerEra
      doe   == z - era * DaysPerEra
      yoe   == (doe - doe \div 1460 + doe \div 36524 - doe \div 146096) \div 365
      doy   == doe - (365 * yoe + yoe \div 4 - yoe \div 100)
      index == (5 * doy + 2) \div 153
      month == IF index < 10 THEN index + 3 ELSE index - 9
  IN  [year  |-> yoe + era * 400 + (IF month <= 2 THEN 1 ELSE 0),
       month |-> month,
       day   |-> doy - (153 * index + 2) \div 5 + 1]

\* days_in_month()
LeapYear(year) == (year % 4 = 0 /\ year % 100 # 0) \/ year % 400 = 0

DaysInMonth(year, month) ==
  CASE month = 2 -> IF LeapYear(year) THEN 29 ELSE 28
    [] month \in {4, 6, 9, 11} -> 30
    [] OTHER -> 31

\* utc_civil_is_valid(), of the date.
DateIsValid(d) ==
  /\ d.year >= 1970 /\ d.year <= LastDate.year
  /\ d.month \in 1 .. 12
  /\ d.day \in 1 .. DaysInMonth(d.year, d.month)
  /\ \/ d.year < LastDate.year
     \/ d.month < LastDate.month
     \/ d.month = LastDate.month /\ d.day <= LastDate.day

\* utc_to_civil()
CivilOf(moment, leapSecond) ==
  [date   |-> CivilFromDays(moment.day),
   hour   |-> moment.second \div 3600,
   minute |-> (moment.second \div 60) % 60,
   second |-> IF leapSecond THEN 60 ELSE moment.second % 60]

\* utc_from_civil(): the caller flags a leap second, which counts as 59.
MomentOf(civil) ==
  [day    |-> DaysFromCivil(civil.date),
   second |-> civil.hour * 3600 + civil.minute * 60 + (IF civil.second > 59 THEN 59 ELSE civil.second)]

\* utc_leap_snap(): the day whose midnight an estimate of a leap event means, if any.
LeapSnap(moment, tolerance) ==
  IF moment.second > SecondsPerDay \div 2
  THEN IF SecondsPerDay - moment.second > tolerance \/ moment.day > UtcLastDay THEN {}
       ELSE {moment.day + 1}
  ELSE IF moment.second > tolerance THEN {} ELSE {moment.day}

\* Leap days as they fell and will fall from 1970 to 2106 (2000 had one).
LeapDays == {y \in 1972 .. 2104 : y % 4 = 0 /\ y # 2100}

CalendarInit == day = 0 /\ date = FirstDate

\* The next leaf of the calendar.
MonthEnds(d) ==
  d.day = CASE d.month = 2 -> IF d.year \in LeapDays THEN 29 ELSE 28
            [] d.month \in {4, 6, 9, 11} -> 30
            [] OTHER -> 31

TurnLeaf ==
  /\ date # LastDate
  /\ day' = day + 1
  /\ date' = IF ~MonthEnds(date) THEN [date EXCEPT !.day = @ + 1]
             ELSE IF date.month < 12
             THEN [date EXCEPT !.month = @ + 1, !.day = 1]
             ELSE [year |-> date.year + 1, month |-> 1, day |-> 1]

CalendarSpec == CalendarInit /\ [][TurnLeaf]_calendarVars

-----------------------------------------------------------------------------
\* Both formulas agree with the calendar on every day they are meant for, and
\* so with each other, in 16 bits (utc_civil_from_days, utc_days_from_civil).
DaysAreDates == CivilFromDays(day) = date /\ DaysFromCivil(date) = day

\* The dates accepted are exactly the calendar's: among the days a month could
\* have, the one after the last of the month is refused, and the last is not
\* (utc_civil_is_valid).
ValidAsCalendar ==
  /\ DateIsValid(date)
  /\ MonthEnds(date) => ~DateIsValid([date EXCEPT !.day = @ + 1])

\* Moments of the day at which something changes, and the tolerances asked for
\* (GNSS_LEAP_EVENT_TOLERANCE_S, 0 of the ESP's announcement, and half a day).
Edges == {0, 2, 3, 59, 60, 3599, 3600, 43199, 43200, 43201, 86339, 86397, 86398, 86399}
Tolerances == {0, 2, 43200}
OfDay == {[day |-> day, second |-> s] : s \in IF day <= UtcLastDay THEN Edges ELSE {0, 1, 59, 60}}

\* A second has one time of day, and an inserted one is 23:59:60 of the second it
\* repeats, there and back (utc_to_civil, utc_from_civil).
TimesThereAndBack ==
  \A m \in OfDay :
    /\ CivilOf(m, FALSE).date = date
    /\ MomentOf(CivilOf(m, FALSE)) = m
    /\ m.second = SecondsPerDay - 1 => MomentOf(CivilOf(m, TRUE)) = m

\* Seconds from a moment to the midnight a day begins with, either way.
ToMidnight(m, d) ==
  LET after == (m.day - d) * SecondsPerDay + m.second
  IN  IF after < 0 THEN 0 - after ELSE after

\* What an estimate is snapped to is the one midnight within the tolerance of
\* it, and if there is one it is found (utc_leap_snap): an event announced a
\* little early or late is counted across where it is, and none is made up.
SnapRight(m, tolerance) ==
  /\ \A d \in LeapSnap(m, tolerance) : ToMidnight(m, d) <= tolerance
  /\ \A d \in {m.day, m.day + 1} :
       ToMidnight(m, d) <= tolerance => \E e \in LeapSnap(m, tolerance) : ToMidnight(m, e) <= ToMidnight(m, d)

SnapsToMidnight == \A m \in OfDay, tolerance \in Tolerances : SnapRight(m, tolerance)

\* Day for day, from the first to the last that 32 bits of seconds reach.
DatesRight == DaysAreDates /\ ValidAsCalendar /\ TimesThereAndBack /\ SnapsToMidnight
=============================================================================
