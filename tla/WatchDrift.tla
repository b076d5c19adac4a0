----------------------------- MODULE WatchDrift -----------------------------
(***************************************************************************)
(* calcDrift of the admin page (web/txtempus-web.py:875-896): how far a      *)
(* watch is from the Pi, from the two times of day, and when the watch will   *)
(* believe that it is 02:00.  Times of day are minutes since midnight.       *)
(***************************************************************************)
EXTENDS Integers

Day == 1440

TimeOfDay == 0 .. Day - 1

(* The remainder of JavaScript has the sign of the dividend.                *)
Remainder(a, b) == IF a >= 0 THEN a % b ELSE -((-a) % b)

(* Mutant of Drift: only a watch that seems fast is looked at again.        *)
DriftOneSided(watch, real) ==
  LET diff == watch - real IN IF diff > 720 THEN diff - Day ELSE diff

(* diff                                                                    *)
Drift(watch, real) ==
  LET diff == watch - real
  IN  IF diff > 720 THEN diff - Day
      ELSE IF diff < -720 THEN diff + Day
      ELSE diff

Accurate(watch, real) == Drift(watch, real) \in -1 .. 1

(* real: "watch 02:00 happens at real (02:00 - drift)"                       *)
RealTimeOfTwo(drift) == Remainder(Remainder(120 - drift, Day) + Day, Day)

-----------------------------------------------------------------------------
(* What is reported for one watch: it is that far from the real time, on the  *)
(* nearer way around the clock; and at the time announced for its 02:00 it     *)
(* shows 02:00.                                                            *)
DriftIsRight(watch, real) ==
  LET drift == Drift(watch, real)
      two   == RealTimeOfTwo(drift)
  IN  /\ drift \in -720 .. 720
      /\ (real + drift) % Day = watch
      /\ two \in TimeOfDay
      /\ (two + drift) % Day = 120

=============================================================================
