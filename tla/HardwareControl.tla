-------------------------- MODULE HardwareControl --------------------------
(***************************************************************************)
(* What include/hardware-control.h promises to the one program that drives *)
(* the hardware: an oscillator that StartClock tunes and StopClock stops,  *)
(* and a keying stage behind it that SetTxPower sets to OFF, LOW or HIGH.  *)
(* A platform may take as many register accesses as it likes for a call;    *)
(* what the antenna sees is that                                            *)
(*   - the oscillator changes frequency only while it is stopped, and the   *)
(*     output is disconnected before a new frequency is set up;             *)
(*   - SetTxPower moves the level from the old one to the new one at one    *)
(*     instant, without passing through a third;                            *)
(*   - a call has taken its effect when it returns.                         *)
(* The one exception: asking for LOW when the output is LOW already may     *)
(* release the attenuator for a moment.                                     *)
(***************************************************************************)
EXTENDS Integers

CONSTANT Carrier

None    == 0    \* no oscillation
Foreign == -1   \* an oscillation this program did not ask for

Power == {"OFF", "LOW", "HIGH"}

VARIABLES
  tuned,    \* the carrier set up, None when the oscillator is told to stop
  osc,      \* the carrier it oscillates at; it follows "tuned"
  key,      \* the level the keying stage passes on
  call,     \* the call in progress, "none" outside calls
  freq,     \* the frequency of the last StartClock
  settled   \* what the last completed call left

vars == <<tuned, osc, key, call, freq, settled>>

Init ==
  /\ tuned \in Carrier \cup {None, Foreign}
  /\ osc = tuned
  /\ key \in Power
  /\ call = "none"
  /\ freq = None
  /\ settled = "off"

Begin(c) ==
  /\ call = "none"
  /\ call' = c
  /\ UNCHANGED <<tuned, osc, key, settled>>

StartClock(f) == settled = "off" /\ Begin("start") /\ freq' = f

StopClock == settled # "off" /\ Begin("stop") /\ UNCHANGED freq

SetTxPower(p) == settled # "off" /\ Begin(p) /\ UNCHANGED freq

Return(result) == call' = "none" /\ settled' = result

(* From here on the oscillation, if there is one, is nobody's carrier.      *)
Detune ==
  /\ call \in {"start", "stop"}
  /\ tuned' = None
  /\ osc' = IF osc = None THEN None ELSE Foreign
  /\ UNCHANGED <<key, call, freq, settled>>

Stopped == tuned = None /\ osc = None

Disconnect ==
  /\ call = "start" /\ Stopped
  /\ key' = "OFF"
  /\ UNCHANGED <<tuned, osc, call, freq, settled>>

Tune ==
  /\ call = "start" /\ Stopped /\ key = "OFF"
  /\ tuned' = freq
  /\ UNCHANGED <<osc, key, call, freq, settled>>

Connect ==
  /\ call = "start" /\ tuned = freq
  /\ key' \in {"LOW", "HIGH"}
  /\ Return("carrier")
  /\ UNCHANGED <<tuned, osc, freq>>

FinishStop ==
  /\ call = "stop" /\ Stopped
  /\ key' = "OFF"
  /\ Return("off")
  /\ UNCHANGED <<tuned, osc, freq>>

Rekey ==
  /\ call \in Power
  /\ key' = call
  /\ UNCHANGED <<tuned, osc, call, freq, settled>>

Release ==
  /\ call = "LOW" /\ key = "LOW"
  /\ key' = "HIGH"
  /\ UNCHANGED <<tuned, osc, call, freq, settled>>

FinishKeying ==
  /\ call \in Power
  /\ key' = call
  /\ Return(call)
  /\ UNCHANGED <<tuned, osc, freq>>

Oscillator ==
  /\ osc # tuned
  /\ osc = None \/ tuned = None
  /\ osc' = tuned
  /\ UNCHANGED <<tuned, key, call, freq, settled>>

Request ==
  \/ \E f \in Carrier : StartClock(f)
  \/ StopClock
  \/ \E p \in Power : SetTxPower(p)

Prepare == Detune \/ Disconnect \/ Tune
Finish  == Connect \/ FinishStop \/ FinishKeying

Next == Request \/ Prepare \/ Rekey \/ Release \/ Finish \/ Oscillator

(* The oscillator follows its setting, and a call that can return does.     *)
Spec == Init /\ [][Next]_vars /\ WF_vars(Oscillator) /\ WF_vars(Finish)

=============================================================================
