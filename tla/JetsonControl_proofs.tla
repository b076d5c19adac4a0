------------------------ MODULE JetsonControl_proofs ------------------------
(***************************************************************************)
(* The Jetson keys the levels it is asked for, for any frequencies, any       *)
(* stations with two levels each and whatever a program that was killed has   *)
(* left running.                                                           *)
(***************************************************************************)
EXTENDS JetsonControl, TLAPS

JetsonTypes ==
  /\ channel \in Nat /\ frequency \in Nat
  /\ running \in BOOLEAN /\ attenuated \in BOOLEAN /\ pwm \in BOOLEAN
  /\ isOn \in BOOLEAN /\ attenuator \in BOOLEAN
  /\ station \in Station
  /\ call \in {"none", "start", "stop"} \cup Power
  /\ keyed \in {"off", "carrier"} \cup Power

(* Which steps belong to which call, and which calls come after StartClock.   *)
StepInv ==
  /\ \/ step = "idle" /\ call = "none"
     \/ step \in {"make", "start"} /\ call = "start"
     \/ step = "stop" /\ call = "stop"
     \/ step = "enable" /\ call \in Power \cap station
     \/ step = "attenuate" /\ call \in {"LOW", "HIGH"} \cap station
  /\ step = "make" => ~pwm
  /\ call = "start" => keyed = "off"
  /\ call \in {"stop"} \cup Power => keyed # "off"
  /\ step = "start" \/ keyed # "off" => pwm

(* isOn is what the channel does, and the channel has the frequency asked.    *)
ChannelInv ==
  /\ pwm => isOn = running /\ channel = frequency
  /\ ~pwm => ~isOn
  /\ step = "attenuate" => running
  /\ keyed # "off" /\ call # "stop" /\ ~running => "OFF" \in station

(* With OFF among its levels a station never attenuates.                     *)
AttenuatorInv == attenuator /\ "OFF" \in station => ~attenuated

IInv == JetsonTypes /\ StepInv /\ ChannelInv /\ AttenuatorInv /\ LevelIsAsked

LEMMA InitIInv ==
  ASSUME TwoLevels
  PROVE  Init => IInv
<1> SUFFICES ASSUME Init PROVE IInv
  OBVIOUS
<1>1. JetsonTypes
  <2>1. channel \in Nat /\ frequency \in Nat
    BY TwoLevels DEF TwoLevels, Init, NoCarrier
  <2>2. /\ running \in BOOLEAN /\ attenuated \in BOOLEAN /\ pwm \in BOOLEAN
        /\ isOn \in BOOLEAN /\ attenuator \in BOOLEAN
    BY Zenon DEF Init
  <2>3. /\ station \in Station /\ call \in {"none", "start", "stop"} \cup Power
        /\ keyed \in {"off", "carrier"} \cup Power
    BY DEF Init
  <2> QED
    BY <2>1, <2>2, <2>3 DEF JetsonTypes
<1>2. StepInv /\ ChannelInv /\ AttenuatorInv /\ LevelIsAsked
  BY DEF Init, StepInv, ChannelInv, AttenuatorInv, LevelIsAsked, Power
<1> QED
  BY <1>1, <1>2 DEF IInv

LEMMA NextIInv ==
  ASSUME TwoLevels
  PROVE  IInv /\ [Next]_vars => IInv'
<1> SUFFICES ASSUME IInv, [Next]_vars PROVE IInv'
  OBVIOUS
<1> USE TwoLevels
    DEF TwoLevels, IInv, JetsonTypes, StepInv, ChannelInv, AttenuatorInv, LevelIsAsked,
        Level, Power
<1>1. CASE Relaunch
  BY <1>1 DEF Relaunch
<1>2. ASSUME NEW f \in Carrier, StartClock(f) PROVE IInv'
  BY <1>2 DEF StartClock, Enter
<1>3. CASE StopClock
  BY <1>3 DEF StopClock, Enter
<1>4. ASSUME NEW power \in Power, SetTxPower(power) PROVE IInv'
  BY <1>4 DEF SetTxPower, Enter
<1>5. CASE MakePwm
  BY <1>5 DEF MakePwm
<1>6. CASE StartPwm
  BY <1>6 DEF StartPwm, Return
<1>7. CASE StopPwm
  BY <1>7 DEF StopPwm, Return
<1>8. CASE EnableClockOutput
  BY <1>8 DEF EnableClockOutput, Return
<1>9. CASE Attenuate
  BY <1>9 DEF Attenuate, Return
<1>10. CASE UNCHANGED vars
  BY <1>10 DEF vars
<1> QED
  BY <1>1, <1>2, <1>3, <1>4, <1>5, <1>6, <1>7, <1>8, <1>9, <1>10 DEF Next

LEMMA AlwaysIInv ==
  ASSUME TwoLevels
  PROVE  Spec => []IInv
BY InitIInv, NextIInv, PTL DEF Spec

(* A step of SetTxPower leaves the level or sets the one asked for.          *)
LEMMA StepPasses ==
  ASSUME TwoLevels, IInv, [Next]_vars, attenuator, attenuator', call \in Power
  PROVE  Level' \in {Level, call}
<1> USE TwoLevels
    DEF TwoLevels, IInv, JetsonTypes, StepInv, ChannelInv, AttenuatorInv, Level, Power
<1>1. CASE EnableClockOutput
  BY <1>1 DEF EnableClockOutput, Return
<1>2. CASE Attenuate
  BY <1>2 DEF Attenuate
<1>3. CASE UNCHANGED vars
  BY <1>3 DEF vars
<1>4. ~Relaunch /\ ~StopClock /\ ~MakePwm /\ ~StartPwm /\ ~StopPwm
  BY DEF Relaunch, StopClock, MakePwm, StartPwm, StopPwm, Enter
<1>5. /\ \A f \in Carrier : ~StartClock(f)
      /\ \A power \in Power : ~SetTxPower(power)
  BY DEF StartClock, SetTxPower, Enter
<1> QED
  BY <1>1, <1>2, <1>3, <1>4, <1>5 DEF Next

(***************************************************************************)
(* Between its calls the Jetson's driver has the level and the carrier asked  *)
(* for on its pins, and SetTxPower passes no third level on the way, given    *)
(* that a station sends two levels                                         *)
(* (include/jetson/hardware-control-implementation.h:70-114).               *)
(***************************************************************************)
THEOREM JetsonKeys ==
  ASSUME TwoLevels
  PROVE  Spec => []LevelIsAsked /\ [][KeysAsAsked]_vars
<1>1. IInv => LevelIsAsked
  BY DEF IInv
<1>2. IInv /\ IInv' /\ [Next]_vars => [KeysAsAsked]_vars
  <2> SUFFICES ASSUME IInv, IInv', [Next]_vars PROVE KeysAsAsked
    OBVIOUS
  <2>1. LevelIsAsked'
    BY DEF IInv
  <2>2. PassesNoThirdLevel
    BY StepPasses DEF PassesNoThirdLevel
  <2> QED
    BY <2>1, <2>2 DEF KeysAsAsked
<1> QED
  BY <1>1, <1>2, AlwaysIInv, PTL DEF Spec

=============================================================================
