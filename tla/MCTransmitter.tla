--------------------------- MODULE MCTransmitter ---------------------------
(***************************************************************************)
(* The hardware of the two platforms, of which a build has one               *)
(* (cmake/rpi-control.cmake, cmake/jetson-control.cmake), and the program.   *)
(*                                                                         *)
(* "calls": on the Raspberry Pi one driver that makes any calls and may ask    *)
(* for the carriers of the stations and for one, 2500 Hz, that no clock       *)
(* source can be divided down to; every value of both function select fields  *)
(* at power-up.  "jetson": the same on the Jetson, with the levels of MSF and  *)
(* those of the other stations.                                            *)
(*                                                                         *)
(* "air": the program makes the calls.  Each station with its own patterns    *)
(* and its own carrier, from the last minute of 2026 to the second of 2027,    *)
(* local time; real minutes of sixty seconds of ten ticks.                  *)
(***************************************************************************)
EXTENDS OnAir

CONSTANT p1

MCProc    == {p1}
MCCarrier == {155, 137, 120, 80, 5}

Reachable == {Setting(f) : f \in {g \in MCCarrier : Synthesizable(g)}}

MCLeftBehind ==
  { [ctl |-> c, div |-> d, busy |-> "ENAB" \in c /\ "KILL" \notin c,
     fsel4 |-> f4, fsel17 |-> f17, latch17 |-> l] :
    c \in {{}, {"OSC"}, {"ENAB", "HDMI"}, {"KILL", "OSC"}},
    d \in {<<0, 0>>} \cup {s.div : s \in Reachable},
    f4 \in SUBSET PinBit, f17 \in SUBSET PinBit, l \in BOOLEAN }

(* A machine fresh from boot, and what a killed DCF77 transmitter leaves: the  *)
(* program finds the latter when it is launched in the middle of a minute.    *)
Fresh  == ctl = {} /\ div = <<0, 0>> /\ fsel4 = INPUT /\ fsel17 = INPUT /\ latch17
Killed ==
  /\ ctl = {"ENAB", "HDMI"} /\ div = Setting(155).div
  /\ fsel4 = ALT0 /\ fsel17 = OUTPUT /\ ~latch17

MCZoneOf(s) ==
  CASE s = "DCF77" -> [offset |-> 60, summer |-> TRUE]
    [] s = "MSF"   -> [offset |-> 0, summer |-> TRUE]
    [] s = "WWVB"  -> [offset |-> -420, summer |-> FALSE]
    [] s = "BPC"   -> [offset |-> 480, summer |-> FALSE]
    [] s \in {"JJY40", "JJY60"} -> [offset |-> 540, summer |-> FALSE]

LastMinuteOf2026(s) == DaysBefore(2027) * 1440 - MCZoneOf(s).offset - 1

MCJob == {[source |-> s, ttl |-> 3, offset |-> LastMinuteOf2026(s),
           dry |-> FALSE] : s \in Stations}

-----------------------------------------------------------------------------
VARIABLES
  part,
  channel, running, attenuated,
  pwm, isOn, station, call, step, frequency, keyed, attenuator

program == <<tx, timer, samples, heard>>
jetson  == <<channel, running, attenuated, pwm, isOn, station, call, step,
             frequency, keyed, attenuator>>

Jetson == INSTANCE JetsonControl WITH
            Carrier <- {155, 120}, Station <- {{"OFF", "HIGH"}, {"LOW", "HIGH"}}

ASSUME JetsonStationsFit == Jetson!TwoLevels

ProgramAtRest == clock = 0 /\ Station = "DCF77"

JetsonAtRest == channel = 0 /\ ~running /\ ~attenuated /\ "LOW" \in station

PartInit ==
  /\ AirInit /\ Jetson!Init
  /\ \/ part = "calls" /\ ProgramAtRest /\ JetsonAtRest
     \/ part = "jetson" /\ ProgramAtRest /\ Fresh
     \/ part = "air" /\ (Fresh \/ (Killed /\ clock = 137)) /\ JetsonAtRest

PartNext ==
  \/ part = "calls" /\ Next /\ UNCHANGED <<part, program, jetson>>
  \/ part = "jetson" /\ Jetson!Next /\ UNCHANGED <<part, air>>
  \/ part = "air" /\ AirNext /\ UNCHANGED <<part, jetson>>

PartSpec == PartInit /\ [][PartNext]_<<part, air, jetson>> /\ Fairness

(***************************************************************************)
(* What SetTxPower and StartClock of the Jetson do with the levels that the   *)
(* stations send: see JetsonControl                                        *)
(* (include/jetson/hardware-control-implementation.h:70-114).               *)
(***************************************************************************)
JetsonKeysAsAsked == [][Jetson!KeysAsAsked]_jetson

=============================================================================
