---------------------------- MODULE SingleDriver ----------------------------
(***************************************************************************)
(* RpiControl when one process drives the hardware: the properties its      *)
(* calls then have, and the mapping under which they implement             *)
(* HardwareControl.  With a second process none of them hold.              *)
(***************************************************************************)
EXTENDS RpiControl

CONSTANT Driver

ASSUME DriverAssumption == Proc = {Driver}

Enabled == "ENAB" \in ctl /\ "KILL" \notin ctl

(***************************************************************************)
(* From the return of StartClock to the call of StopClock the generator is  *)
(* enabled and set to the frequency that was asked for: no SetTxPower, in   *)
(* any of its register accesses, disturbs it (rpi-control.cc:142-159,       *)
(* 318-333).                                                               *)
(***************************************************************************)
StaysTuned ==
  settled[Driver] # "off" /\ op[Driver] # "stop"
    => Enabled /\ Tuned(freq[Driver])

(***************************************************************************)
(* After SetTxPower(power) has returned the keying stage passes exactly     *)
(* that power, whatever function and latch the two pins had at power-up:    *)
(* ALT0_GPIO only sets bits, so this rests on an earlier INP_GPIO(4)        *)
(* (rpi-control.cc:47-49, 318-333).                                        *)
(***************************************************************************)
PowerIsKeyed ==
  op[Driver] = "none" /\ settled[Driver] \in Power
    => Key = settled[Driver]

(***************************************************************************)
(* The divider and the source of the generator never change under its       *)
(* feet: the divider is written, and a source selected, only while BUSY is  *)
(* clear (rpi-control.cc:142-152, 174-181).                                *)
(***************************************************************************)
ClockChangesOnlyWhenIdle ==
  [][busy => div' = div /\ ctl' \cap SourceBit \subseteq ctl]_vars

(***************************************************************************)
(* StartClock, SetTxPower and StopClock return: the wait for BUSY in        *)
(* StopClock ends (rpi-control.cc:178-181).                                *)
(***************************************************************************)
CallsReturn == (op[Driver] # "none") ~> (op[Driver] = "none")

-----------------------------------------------------------------------------
(* The inductive invariant behind the three properties above.  D_op and     *)
(* D_pc abbreviate where the driver is.                                    *)
D_op  == op[Driver]
D_pc  == pc[Driver]
Ready == settled[Driver] # "off"     \* StartClock has returned

OpMatchesPc ==
  /\ D_pc = "idle" <=> D_op = "none"
  /\ D_pc \in {"kill", "await"} => D_op \in {"start", "stop"}
  /\ D_pc = "unmux" => D_op \in {"start", "stop", "OFF"}
  /\ D_pc \in {"setdiv", "setctl", "enable", "enabled"} => D_op = "start"
  /\ D_pc = "inp17" => D_op \in {"LOW", "HIGH"}
  /\ D_pc \in {"out17", "drive17", "clear17"} => D_op = "LOW"
  /\ D_pc \in {"mux", "muxed"} => D_op \in {"start", "LOW", "HIGH"}
  /\ D_op = "start" => ~Ready
  /\ D_op \in {"stop"} \cup Power => Ready
  /\ Ready \/ D_op = "start" =>
       freq[Driver] \in Carrier /\ Synthesizable(freq[Driver])

(* The clock registers through StartClock, from the KILL to the ENAB.       *)
ClockSequence ==
  /\ D_pc \in {"await"} => ctl = {"KILL"}
  /\ D_pc \in {"unmux", "setdiv", "setctl"} /\ D_op # "OFF" =>
       ctl = {"KILL"} /\ ~busy
  /\ D_pc \in {"setctl", "enable", "enabled"} =>
       div = Setting(freq[Driver]).div
  /\ D_pc \in {"enable", "enabled"} =>
       ctl = {Setting(freq[Driver]).src} /\ ~busy
  /\ D_pc = "enabled" => held[Driver] = ctl
  /\ (Ready /\ D_op # "stop") \/ (D_op = "start" /\ D_pc \in {"mux", "muxed"}) =>
       /\ ctl = {Setting(freq[Driver]).src, "ENAB"}
       /\ div = Setting(freq[Driver]).div

(* The pins: GPIO 4 has no stray bits once a StopClock has cleared it, and   *)
(* GPIO 17 is set before GPIO 4 lets the carrier out.                       *)
PinSequence ==
  /\ D_op = "start" /\ D_pc \in {"setdiv", "setctl", "enable", "enabled",
                                  "mux", "muxed"} => fsel4 = INPUT
  /\ Ready => fsel4 \in {INPUT, ALT0}
  /\ D_pc = "muxed" => held[Driver] = fsel4
  /\ D_pc \in {"out17", "drive17"} => fsel17 = INPUT
  /\ D_pc = "drive17" => held[Driver] = INPUT
  /\ D_pc = "clear17" => fsel17 = OUTPUT
  /\ D_pc \in {"mux", "muxed"} /\ D_op = "LOW" => fsel17 = OUTPUT /\ ~latch17
  /\ D_pc \in {"mux", "muxed"} /\ D_op = "HIGH" => fsel17 = INPUT

IInv == TypeOK /\ OpMatchesPc /\ ClockSequence /\ PinSequence /\ PowerIsKeyed

-----------------------------------------------------------------------------
(* The generator is enabled, and on the frequency of this program's last    *)
(* StartClock; -1 stands for an oscillation that is nobody's carrier: one   *)
(* found at the start, or one that KILL is about to end.                    *)
Carried ==
  IF /\ Ready \/ (D_op = "start" /\ D_pc \in {"mux", "muxed"})
     /\ Tuned(freq[Driver])
  THEN freq[Driver] ELSE -1

HW == INSTANCE HardwareControl WITH
        tuned   <- IF Enabled THEN Carried ELSE 0,
        osc     <- IF ~busy THEN 0 ELSE IF Enabled THEN Carried ELSE -1,
        key     <- Key,
        call    <- D_op,
        freq    <- freq[Driver],
        settled <- settled[Driver]

(* Every run of the register accesses is a run of HardwareControl: one     *)
(* visible step per call, the level never passing through a third value    *)
(* (include/hardware-control.h:45-54), and calls that return.              *)
ImplementsHardwareControl == HW!Spec

=============================================================================
