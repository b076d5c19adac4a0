--------------------------- MODULE JetsonControl ---------------------------
(***************************************************************************)
(* include/jetson/hardware-control-implementation.h: the second platform      *)
(* behind include/hardware-control.h.  The carrier is a PWM channel that      *)
(* OFF stops; a pin of its own attenuates it.  JetsonGPIO is external: a      *)
(* PWM is silent until it is started, and a channel runs on when the process  *)
(* that started it is killed.                                              *)
(***************************************************************************)
EXTENDS Integers

CONSTANTS
  Carrier,        \* frequencies asked for
  Station         \* the stations, each as the set of levels it sends

Power == {"OFF", "LOW", "HIGH"}

(* No station sends both OFF and LOW: what PatternsFit in Broadcast shows of   *)
(* the station codes, and what the theorem of JetsonControl_proofs is given.  *)
TwoLevels ==
  /\ Carrier \subseteq Nat \ {0}
  /\ \A s \in Station : s \subseteq Power /\ ~({"OFF", "LOW"} \subseteq s)

NoCarrier == 0

VARIABLES
  channel,        \* the frequency of the PWM channel
  running,        \* the channel is enabled
  attenuated,     \* attenuationPin is high
  pwm,            \* pwm has been made
  isOn,
  station,        \* the station of the process
  call, step,     \* the call it is in, and what of it comes next
  frequency,      \* the argument of StartClock
  keyed,          \* what the last completed call left
  attenuator      \* history: the process has set the attenuation pin

vars == <<channel, running, attenuated, pwm, isOn, station, call, step,
          frequency, keyed, attenuator>>

(* What the antenna circuit sees.                                          *)
Level == IF ~running THEN "OFF" ELSE IF attenuated THEN "LOW" ELSE "HIGH"

-----------------------------------------------------------------------------
Init ==
  /\ channel \in Carrier \cup {NoCarrier}
  /\ running \in BOOLEAN
  /\ attenuated \in BOOLEAN
  /\ pwm = FALSE
  /\ isOn = FALSE
  /\ station \in Station
  /\ call = "none" /\ step = "idle"
  /\ frequency = NoCarrier
  /\ keyed = "off"
  /\ attenuator = FALSE

(* Another program's Init: its pins are set up, and what the attenuation pin  *)
(* then is depends on the library.  The one before has ended or was killed.  *)
Relaunch ==
  /\ attenuated' \in BOOLEAN
  /\ pwm' = FALSE
  /\ isOn' = FALSE
  /\ station' \in Station
  /\ call' = "none" /\ step' = "idle"
  /\ keyed' = "off"
  /\ attenuator' = FALSE
  /\ UNCHANGED <<channel, running, frequency>>

Enter(c, first) ==
  /\ call = "none"
  /\ call' = c /\ step' = first
  /\ UNCHANGED <<channel, running, attenuated, pwm, isOn, station, keyed, attenuator>>

(* The program starts the clock once, and stops it once.                    *)
StartClock(f) == ~pwm /\ Enter("start", "make") /\ frequency' = f

StopClock == keyed # "off" /\ Enter("stop", "stop") /\ UNCHANGED frequency

SetTxPower(power) ==
  /\ keyed # "off" /\ power \in station
  /\ Enter(power, "enable")
  /\ UNCHANGED frequency

Return(result) ==
  /\ call' = "none" /\ step' = "idle"
  /\ keyed' = result

(* if (pwm == nullptr) pwm = ...                                           *)
MakePwm ==
  /\ step = "make"
  /\ channel' = IF pwm THEN channel ELSE frequency
  /\ running' = (running /\ pwm)
  /\ pwm' = TRUE
  /\ step' = "start"
  /\ UNCHANGED <<attenuated, isOn, station, call, frequency, keyed, attenuator>>

StartPwm ==
  /\ step = "start"
  /\ running' = TRUE
  /\ isOn' = TRUE
  /\ Return("carrier")
  /\ UNCHANGED <<channel, attenuated, pwm, station, frequency, attenuator>>

StopPwm ==
  /\ step = "stop"
  /\ IF pwm THEN running' = FALSE /\ isOn' = FALSE ELSE UNCHANGED <<running, isOn>>
  /\ Return("off")
  /\ UNCHANGED <<channel, attenuated, pwm, station, frequency, attenuator>>

(* Mutant of EnableClockOutput: isOn says that the clock was started.         *)
EnableOnce ==
  /\ step = "enable"
  /\ running' = (running /\ call # "OFF")
  /\ isOn' = TRUE
  /\ IF call = "OFF" THEN Return("OFF")
     ELSE step' = "attenuate" /\ UNCHANGED <<call, keyed>>
  /\ UNCHANGED <<channel, attenuated, pwm, station, frequency, attenuator>>

(* if (on == isOn) return; what follows starts or stops the channel.          *)
EnableClockOutput ==
  /\ step = "enable"
  /\ LET on == call # "OFF"
     IN  IF on = isOn THEN UNCHANGED <<running, isOn>>
         ELSE running' = on /\ isOn' = on
  /\ IF call = "OFF" THEN Return("OFF")
     ELSE step' = "attenuate" /\ UNCHANGED <<call, keyed>>
  /\ UNCHANGED <<channel, attenuated, pwm, station, frequency, attenuator>>

(* ApplyAttenuation and StopAttenuation                                    *)
Attenuate ==
  /\ step = "attenuate"
  /\ attenuated' = (call = "LOW")
  /\ attenuator' = TRUE
  /\ Return(call)
  /\ UNCHANGED <<channel, running, pwm, isOn, station, frequency>>

Next ==
  \/ Relaunch
  \/ \E f \in Carrier : StartClock(f)
  \/ StopClock
  \/ \E power \in Power : SetTxPower(power)
  \/ MakePwm \/ StartPwm \/ StopPwm \/ EnableClockOutput \/ Attenuate

Spec == Init /\ [][Next]_vars

-----------------------------------------------------------------------------
(***************************************************************************)
(* Between calls the level is the one asked for last, at the carrier of       *)
(* StartClock, also when the channel had been left running by a program that  *)
(* was killed, and after StopClock there is none.                           *)
(***************************************************************************)
LevelIsAsked ==
  call = "none" =>
    /\ keyed \in Power => Level = keyed
    /\ keyed = "carrier" => running
    /\ keyed # "off" /\ running => channel = frequency
    /\ keyed = "off" /\ pwm => ~running

(***************************************************************************)
(* SetTxPower connects the channel before it sets the attenuation (lines      *)
(* 102-112), so from OFF to LOW it would pass HIGH.  With the levels that the *)
(* stations send it never passes a third level, once it has set the pin for   *)
(* the first time.                                                         *)
(***************************************************************************)
PassesNoThirdLevel ==
  attenuator /\ attenuator' /\ call \in Power => Level' \in {Level, call}

(* A driver of include/hardware-control.h: every step leaves what was asked   *)
(* for, directly.                                                          *)
KeysAsAsked == LevelIsAsked' /\ PassesNoThirdLevel

=============================================================================
