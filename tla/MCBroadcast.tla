---------------------------- MODULE MCBroadcast ----------------------------
(***************************************************************************)
(* All six stations around the instants at which the fields of a time code  *)
(* carry over or its flags change, each heard for two minutes or more.     *)
(***************************************************************************)
EXTENDS WebTime, WatchDrift, ClockDivider

MCZoneOf(s) ==
  CASE s = "DCF77" -> [offset |-> 60, summer |-> TRUE]
    [] s = "MSF"   -> [offset |-> 0, summer |-> TRUE]
    [] s = "WWVB"  -> [offset |-> -420, summer |-> TRUE]
    [] s = "BPC"   -> [offset |-> 480, summer |-> FALSE]
    [] s \in {"JJY40", "JJY60"} -> [offset |-> 540, summer |-> FALSE]

(* Minutes since 1970-01-01 00:00 UTC of a day and hour.                    *)
At(year, yday, hour, min) == (DaysBefore(year) + yday) * 1440 + hour * 60 + min

Instants ==
  { At(2026, 157, 14, 30),   \* 7 June 2026, 14:30, the time of the golden tests
    At(2026, 365, 0, 0), At(2026, 365, -1, 0),   \* New Year in UTC and in CET
    At(2024, 60, 0, 0), At(2024, 59, 0, 0),      \* into and out of 29 February
    At(2024, 365, 15, 0), At(2024, 366, 7, 0),   \* day 366, west and east
    At(2100, 59, 0, 0),                          \* 2100 is no leap year
    LastSunday(2026, 2) * 1440 + 60,             \* summer time begins ...
    LastSunday(2026, 9) * 1440 + 60,             \* ... and ends
    LastSunday(2026, 2) * 1440 + 60 - 1440,      \* a day before it begins
    At(1999, 365, 0, 0), At(2079, 361, 19, 59), At(2038, 18, 3, 14),
    At(2027, 272, 11, 59), At(2033, 5, 16, 0), At(2055, 198, 4, 20) }

MCListened == UNION {(t - 2) .. (t + 1) : t \in Instants}

MCZoneOffset == {-120, 0, 60}

-----------------------------------------------------------------------------
(* The pure algorithms beside the time codes are tried on inputs that the     *)
(* minutes and seconds of the broadcasts run through: every carrier from      *)
(* 500 Hz to 250 kHz in steps of 500 Hz, and each of the times of day with a   *)
(* watch that differs by up to a day.                                      *)
Requested == 1 + ((60 * (minute % 25) + second) % 500)

Watches(real) ==
  {(real + d) % Day : d \in {-721, -720, -719, -120, -1, 0, 1, 119, 719, 720, 721}}

(***************************************************************************)
(* Of all sources whose divider fits, the one StartClock takes misses the     *)
(* requested frequency by least, and of two that miss it equally the one      *)
(* that oscillates faster is taken; its divider fits the fields of the        *)
(* register and is the largest that is not slower than requested              *)
(* (rpi-control.cc:110-142).                                               *)
(***************************************************************************)
DividerIsBest ==
  /\ TakesBestSource(Requested)
  /\ Synthesizable(Requested) => FitsRegister(Requested)

(***************************************************************************)
(* However the time of day wraps, calcDrift reports the difference between    *)
(* a watch and the Pi on the nearer way around the clock, and a real time at   *)
(* which the watch shows 02:00 (web/txtempus-web.py:875-896).              *)
(***************************************************************************)
DriftIsNearest ==
  LET real == minute % Day
  IN  \A watch \in Watches(real) : DriftIsRight(watch, real)

=============================================================================
