----------------------------- MODULE Broadcast -----------------------------
(***************************************************************************)
(* A time source second by second, as main() in src/txtempus.cc asks for    *)
(* it, and a clock that has been switched on in the middle of a minute and  *)
(* keeps the last seconds it has heard.                                    *)
(***************************************************************************)
EXTENDS TimeSignalSource, Receiver, Patterns

CONSTANTS
  Station,    \* stations considered
  ZoneOf(_),  \* the time zone of the machine that plays a station
  Listened    \* the minutes during which the clock listens

(* A zone is less than a day from UTC, and the first day of 1970 is over.   *)
ASSUME BroadcastAssumption ==
  /\ Station \subseteq Stations
  /\ \A s \in Station : ZoneOf(s) \in Zones
  /\ Listened \subseteq Nat
  /\ \A m \in Listened : m >= 1440

VARIABLES
  station,
  minute,   \* the argument of PrepareMinute
  second,   \* the second about to be sent
  frame,    \* what PrepareMinute left in the source
  heard     \* history: the seconds of the last frame length

vars == <<station, minute, second, frame, heard>>

Init ==
  /\ station \in Station
  /\ minute \in {m \in Listened : m - 1 \notin Listened}
  /\ second \in {0, 17, 41}
  /\ frame = PrepareMinute(station, ZoneOf(station), minute)
  /\ heard = <<>>

Pattern == GetModulationForSecond(station, frame, second)

Hear ==
  LET all == Append(heard, Pattern)
  IN  IF Len(all) > FrameLength(station) THEN Tail(all) ELSE all

SendSecond ==
  /\ second < 59
  /\ second' = second + 1
  /\ heard' = Hear
  /\ UNCHANGED <<station, minute, frame>>

SendLastSecond ==
  /\ second = 59
  /\ second' = 0
  /\ heard' = Hear
  /\ minute' = minute + 1
  /\ frame' = PrepareMinute(station, ZoneOf(station), minute + 1)
  /\ UNCHANGED station

Next == minute \in Listened /\ (SendSecond \/ SendLastSecond)

Spec == Init /\ [][Next]_vars

-----------------------------------------------------------------------------
Complete == Len(heard) = FrameLength(station)

(***************************************************************************)
(* A clock that has heard a whole frame decodes, parity bits included, the  *)
(* time its station means by it: for DCF77 and MSF the minute that begins   *)
(* with the mark, across midnight, the ends of months and years, leap days  *)
(* and both changes of summer time; for the others the minute that is over. *)
(***************************************************************************)
ClockShowsTheTime ==
  Complete /\ FrameEnds(station, heard)
    => Decode(station, heard)
         = TimeMeant(station, ZoneOf(station), minute, second)

(***************************************************************************)
(* The minute mark is unambiguous: whatever the data, a window of seconds   *)
(* looks like a frame exactly when it is one, so a clock switched on at any *)
(* time cannot lock to the wrong second.                                   *)
(***************************************************************************)
MarkIsUnambiguous ==
  Complete => (FrameEnds(station, heard) <=> second % FrameLength(station) = 0)

(***************************************************************************)
(* include/time-signal-source.h:47-57: the durations of a second stay below *)
(* 1000 ms, so target_wait.tv_nsec never leaves the range clock_nanosleep   *)
(* accepts, and only the last level fills up.  What the two platforms rely on *)
(* beside that: there is no LOW after LOW, within a second or from one to the  *)
(* next (rpi-control.cc:324-326), and no station uses both OFF and LOW        *)
(* (jetson/hardware-control-implementation.h:102-105).                     *)
(***************************************************************************)
PatternsFit ==
  LET levels(pattern) == {pattern[i].power : i \in DOMAIN pattern}
  IN  /\ FitsSecond(Pattern, 10)
      /\ NoLowAgain(Pattern)
      /\ heard # <<>> =>
           LET previous == heard[Len(heard)]
           IN  ~LowAgain(previous[Len(previous)], Pattern[1])
      /\ ~({"OFF", "LOW"} \subseteq
             levels(Pattern) \cup UNION {levels(heard[i]) : i \in DOMAIN heard})

=============================================================================
