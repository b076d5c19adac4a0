------------------------------ MODULE TimeCode ------------------------------
(***************************************************************************)
(* What the encoders in src/*-source.cc are built from: words of bits, BCD  *)
(* digits, parity, and the broken-down times of libc.                      *)
(*                                                                         *)
(* A word is the set of the positions of its 1 bits, so "|=" is union.      *)
(***************************************************************************)
EXTENDS Integers, FiniteSets

BitsOf(n) == {i \in 0 .. 6 : (n \div 2^i) % 2 = 1}

Shift(word, by) == {i + by : i \in word}

Flag(condition, position) == IF condition THEN {position} ELSE {}

Digit(n, power) == (n \div power) % 10

to_bcd(n) == BitsOf(Digit(n, 1)) \cup Shift(BitsOf(Digit(n, 10)), 4)

to_padded5_bcd(n) ==
  BitsOf(Digit(n, 1)) \cup Shift(BitsOf(Digit(n, 10)), 5)
                      \cup Shift(BitsOf(Digit(n, 100)), 10)

(* Mutant of parity: the upper bound excluded.                             *)
parity_to_excluding(word, from, to_including) ==
  Cardinality(word \cap (from .. to_including - 1)) % 2 = 1

parity(word, from, to_including) ==
  Cardinality(word \cap (from .. to_including)) % 2 = 1

(* A level and how long it lasts, in tenths of a second; 0 is the rest of   *)
(* the second.                                                             *)
Level(power, tenths) == [power |-> power, ticks |-> tenths]

-----------------------------------------------------------------------------
(* struct tm.  A time is a number of minutes since 1970-01-01 00:00 UTC;    *)
(* gmtime_r and localtime_r are libc's, over the Gregorian calendar.       *)

IsLeap(year) == year % 4 = 0 /\ (year % 100 # 0 \/ year % 400 = 0)

DaysBefore(year) ==    \* days from 1970-01-01 to January 1 of year
  LET y == year - 1
  IN  365 * (year - 1970) + (y \div 4 - y \div 100 + y \div 400) - 477

MonthStart(year) ==    \* tm_yday of the first of each month, and of the next
  LET leap == IF IsLeap(year) THEN 1 ELSE 0
  IN  <<0, 31, 59 + leap, 90 + leap, 120 + leap, 151 + leap, 181 + leap,
        212 + leap, 243 + leap, 273 + leap, 304 + leap, 334 + leap,
        365 + leap>>

YearOf(day) ==
  CHOOSE y \in 1970 + (day \div 366) .. 1970 + (day \div 365) :
    DaysBefore(y) <= day /\ day < DaysBefore(y + 1)

MonthOf(starts, yday) ==
  CHOOSE m \in 0 .. 11 : starts[m + 1] <= yday /\ yday < starts[m + 2]

BrokenDown(t, year, yday, starts, mon) ==
  [min |-> t % 60, hour |-> (t \div 60) % 24,
   mday |-> yday - starts[mon + 1] + 1, mon |-> mon, year |-> year - 1900,
   yday |-> yday, wday |-> ((t \div 1440) + 4) % 7, isdst |-> FALSE]

OnDay(t, year, yday, starts) ==
  BrokenDown(t, year, yday, starts, MonthOf(starts, yday))

InYear(t, year) ==
  OnDay(t, year, (t \div 1440) - DaysBefore(year), MonthStart(year))

gmtime(t) == InYear(t, YearOf(t \div 1440))

(* A zone is its offset from UTC in minutes and whether it keeps summer     *)
(* time, from the last Sunday of March to that of October, changing at      *)
(* 01:00 UTC, as Europe does.                                              *)
Zones == [offset : -1439 .. 1439, summer : BOOLEAN]

LastSunday(year, mon) ==
  LET SundayUpTo(day) == day - ((day + 4) % 7)
  IN  SundayUpTo(DaysBefore(year) + MonthStart(year)[mon + 2] - 1)

InSummer(zone, t) ==
  LET Between(year) == /\ LastSunday(year, 2) * 1440 + 60 <= t
                       /\ t < LastSunday(year, 9) * 1440 + 60
  IN  zone.summer /\ Between(YearOf(t \div 1440))

Offset(zone, t) == zone.offset + IF InSummer(zone, t) THEN 60 ELSE 0

localtime(zone, t) ==
  LET With(dst) == [gmtime(t + zone.offset + IF dst THEN 60 ELSE 0)
                      EXCEPT !.isdst = dst]
  IN  With(InSummer(zone, t))

=============================================================================
