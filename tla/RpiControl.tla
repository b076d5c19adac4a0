----------------------------- MODULE RpiControl -----------------------------
(***************************************************************************)
(* src/rpi-control.cc at the level of its register accesses: the clock     *)
(* generator of the Raspberry Pi (CM_GP0CTL, CM_GP0DIV), the function      *)
(* select fields of GPIO 4 (carrier) and GPIO 17 (attenuation), and the    *)
(* calls StartClock, StopClock and SetTxPower that drive them.             *)
(*                                                                         *)
(* The registers are shared by every process that has /dev/mem mapped, so  *)
(* a call is a sequence of steps, one per register access; an "|=" on a    *)
(* register is a read and a later write.  "&= ~7" needs no read step: what *)
(* it writes into the field does not depend on what it read there.         *)
(***************************************************************************)
EXTENDS ClockDivider, FiniteSets

CONSTANTS
  Proc,          \* processes that drive the hardware
  Carrier,       \* carrier frequencies they ask for, in 500 Hz
  LeftBehind     \* register contents the program may find when it starts

(* A function select field is three bits; a field is the set of bits set.  *)
PinBit == {"b0", "b1", "b2"}
INPUT  == {}
OUTPUT == {"b0"}
ALT0   == {"b2"}

(* The bits of the control register the code writes.  CLK_CTL_BUSY is the   *)
(* hardware's: variable busy.                                              *)
SourceBit == {"PLLC", "PLLD", "HDMI", "OSC"}
CtlBit    == {"KILL", "ENAB"} \cup SourceBit

Power == {"OFF", "LOW", "HIGH"}

NoCarrier == 0

ASSUME CarrierAssumption == Carrier \subseteq Nat \ {0}

(* Registers as the firmware, a killed transmitter or another program left *)
(* them, at rest: the generator runs exactly when it is told to.           *)
ASSUME LeftBehindAssumption ==
  /\ LeftBehind \subseteq [ctl : SUBSET CtlBit, div : Nat \X Nat,
                           busy : BOOLEAN, fsel4 : SUBSET PinBit,
                           fsel17 : SUBSET PinBit, latch17 : BOOLEAN]
  /\ \A r \in LeftBehind : r.busy = ("ENAB" \in r.ctl /\ "KILL" \notin r.ctl)

VARIABLES
  ctl,      \* clock_reg_[CLK_CMGP0_CTL]
  div,      \* clock_reg_[CLK_CMGP0_DIV]: <<DIVI, DIVF>>
  busy,     \* the generator oscillates (CLK_CTL_BUSY)
  fsel4,    \* function select field of GPIO 4
  fsel17,   \* function select field of GPIO 17
  latch17,  \* output latch of GPIO 17: driven high when an output
  op,       \* the call a process is in, "none" outside a call
  freq,     \* the argument of its last StartClock
  pc,       \* the next register access of that call
  held,     \* what its last register read returned
  settled   \* what its last completed call left: "off", "carrier" or a power

regs == <<ctl, div, busy, fsel4, fsel17, latch17>>
cpu  == <<op, freq, pc, held, settled>>
vars == <<regs, cpu>>

-----------------------------------------------------------------------------
(* What the antenna circuit sees.  GPIO 17 attenuates while it sinks        *)
(* current: an output driven low.                                          *)

Tuned(f) ==
  /\ Synthesizable(f)
  /\ Setting(f).src \in ctl
  /\ div = Setting(f).div

Key ==
  IF fsel4 # ALT0 THEN "OFF"
  ELSE IF fsel17 = OUTPUT /\ ~latch17 THEN "LOW" ELSE "HIGH"

OnAir(f, level) == busy /\ Tuned(f) /\ Key = level

Silent == ~busy \/ Key = "OFF"

-----------------------------------------------------------------------------
Init ==
  /\ \E r \in LeftBehind :
       /\ ctl = r.ctl /\ div = r.div /\ busy = r.busy
       /\ fsel4 = r.fsel4 /\ fsel17 = r.fsel17 /\ latch17 = r.latch17
  /\ op = [p \in Proc |-> "none"]
  /\ freq = [p \in Proc |-> NoCarrier]
  /\ pc = [p \in Proc |-> "idle"]
  /\ held = [p \in Proc |-> {}]
  /\ settled = [p \in Proc |-> "off"]

(* A step of p's call that leaves p at label "next".                       *)
Goto(p, label, next) ==
  /\ pc[p] = label
  /\ pc' = [pc EXCEPT ![p] = next]
  /\ UNCHANGED <<op, freq, settled>>

(* The last step of p's call.                                              *)
Return(p, label, result) ==
  /\ pc[p] = label
  /\ pc' = [pc EXCEPT ![p] = "idle"]
  /\ op' = [op EXCEPT ![p] = "none"]
  /\ settled' = [settled EXCEPT ![p] = result]
  /\ UNCHANGED freq

Enter(p, call, label) ==
  /\ pc[p] = "idle"
  /\ op' = [op EXCEPT ![p] = call]
  /\ pc' = [pc EXCEPT ![p] = label]
  /\ UNCHANGED <<regs, held, settled>>

-----------------------------------------------------------------------------
(* The calls.                                                              *)

StartClock(p, f) ==
  /\ Synthesizable(f)
  /\ Enter(p, "start", "kill")
  /\ freq' = [freq EXCEPT ![p] = f]

(* "Couldn't find any suitable clock": -1, and no register is touched.     *)
StartClockRefused(p, f) ==
  /\ ~Synthesizable(f)
  /\ pc[p] = "idle"
  /\ UNCHANGED vars

StopClock(p) == Enter(p, "stop", "kill") /\ UNCHANGED freq

SetTxPower(p, power) ==
  /\ Enter(p, power, IF power = "OFF" THEN "unmux" ELSE "inp17")
  /\ UNCHANGED freq

-----------------------------------------------------------------------------
(* Their register accesses.                                                *)

(* Mutant of Kill: without CLK_PASSWD the write is ignored.                *)
KillIgnored(p) ==
  /\ Goto(p, "kill", "await")
  /\ UNCHANGED <<regs, held>>

(* StopClock: clock_reg_[ctl] = KILL ...                                   *)
Kill(p) ==
  /\ Goto(p, "kill", "await")
  /\ ctl' = {"KILL"}
  /\ UNCHANGED <<div, busy, fsel4, fsel17, latch17, held>>

(* Mutant of AwaitIdle: no loop around the test of CLK_CTL_BUSY.           *)
AwaitNothing(p) ==
  /\ Goto(p, "await", "unmux")
  /\ UNCHANGED <<regs, held>>

(* ... while (clock_reg_[ctl] & BUSY) ...                                  *)
AwaitIdle(p) ==
  /\ ~busy
  /\ Goto(p, "await", "unmux")
  /\ UNCHANGED <<regs, held>>

(* Mutant of Unmux: StartClock keeps the output connected.                 *)
UnmuxUnlessStart(p) ==
  /\ \/ op[p] = "start" /\ Goto(p, "unmux", "setdiv")
     \/ op[p] = "stop"  /\ Return(p, "unmux", "off")
     \/ op[p] = "OFF"   /\ Return(p, "unmux", "OFF")
  /\ fsel4' = IF op[p] = "start" THEN fsel4 ELSE INPUT
  /\ UNCHANGED <<ctl, div, busy, fsel17, latch17, held>>

(* ... EnableClockOutput(false), also the whole of SetTxPower(OFF).        *)
Unmux(p) ==
  /\ \/ op[p] = "start" /\ Goto(p, "unmux", "setdiv")
     \/ op[p] = "stop"  /\ Return(p, "unmux", "off")
     \/ op[p] = "OFF"   /\ Return(p, "unmux", "OFF")
  /\ fsel4' = INPUT
  /\ UNCHANGED <<ctl, div, busy, fsel17, latch17, held>>

SetDivider(p) ==
  /\ Goto(p, "setdiv", "setctl")
  /\ div' = Setting(freq[p]).div
  /\ UNCHANGED <<ctl, busy, fsel4, fsel17, latch17, held>>

SetControl(p) ==
  /\ Goto(p, "setctl", "enable")
  /\ ctl' = {Setting(freq[p]).src}
  /\ UNCHANGED <<div, busy, fsel4, fsel17, latch17, held>>

(* clock_reg_[ctl] |= ENAB                                                 *)
ReadControl(p) ==
  /\ Goto(p, "enable", "enabled")
  /\ held' = [held EXCEPT ![p] = ctl]
  /\ UNCHANGED regs

(* Mutant of Enable: "=" for "|=", and the source is lost.                 *)
EnableAlone(p) ==
  /\ Goto(p, "enabled", "mux")
  /\ ctl' = {"ENAB"}
  /\ UNCHANGED <<div, busy, fsel4, fsel17, latch17, held>>

Enable(p) ==
  /\ Goto(p, "enabled", "mux")
  /\ ctl' = held[p] \cup {"ENAB"}
  /\ UNCHANGED <<div, busy, fsel4, fsel17, latch17, held>>

(* Mutant of Float17: only LOW touches the attenuator.                     *)
Float17ForLow(p) ==
  /\ Goto(p, "inp17", IF op[p] = "LOW" THEN "out17" ELSE "mux")
  /\ fsel17' = IF op[p] = "LOW" THEN INPUT ELSE fsel17
  /\ UNCHANGED <<ctl, div, busy, fsel4, latch17, held>>

(* RequestInput(17), and the first half of RequestOutput(17).              *)
Float17(p) ==
  /\ Goto(p, "inp17", IF op[p] = "LOW" THEN "out17" ELSE "mux")
  /\ fsel17' = INPUT
  /\ UNCHANGED <<ctl, div, busy, fsel4, latch17, held>>

ReadFsel17(p) ==
  /\ Goto(p, "out17", "drive17")
  /\ held' = [held EXCEPT ![p] = fsel17]
  /\ UNCHANGED regs

Drive17(p) ==
  /\ Goto(p, "drive17", "clear17")
  /\ fsel17' = held[p] \cup OUTPUT
  /\ UNCHANGED <<ctl, div, busy, fsel4, latch17, held>>

(* ClearBits(17)                                                           *)
Clear17(p) ==
  /\ Goto(p, "clear17", "mux")
  /\ latch17' = FALSE
  /\ UNCHANGED <<ctl, div, busy, fsel4, fsel17, held>>

(* EnableClockOutput(true), the end of StartClock and of SetTxPower.       *)
ReadFsel4(p) ==
  /\ Goto(p, "mux", "muxed")
  /\ held' = [held EXCEPT ![p] = fsel4]
  /\ UNCHANGED regs

(* Mutant of Mux: one result for both callers of EnableClockOutput(true).   *)
MuxSameResult(p) ==
  /\ Return(p, "muxed", op[p])
  /\ fsel4' = held[p] \cup ALT0
  /\ UNCHANGED <<ctl, div, busy, fsel17, latch17, held>>

Mux(p) ==
  /\ Return(p, "muxed", IF op[p] = "start" THEN "carrier" ELSE op[p])
  /\ fsel4' = held[p] \cup ALT0
  /\ UNCHANGED <<ctl, div, busy, fsel17, latch17, held>>

-----------------------------------------------------------------------------
(* The generator follows the control register a few cycles later.          *)

GeneratorStops ==
  /\ busy
  /\ "KILL" \in ctl \/ "ENAB" \notin ctl
  /\ busy' = FALSE
  /\ UNCHANGED <<ctl, div, fsel4, fsel17, latch17, cpu>>

GeneratorStarts ==
  /\ ~busy
  /\ "ENAB" \in ctl /\ "KILL" \notin ctl
  /\ busy' = TRUE
  /\ UNCHANGED <<ctl, div, fsel4, fsel17, latch17, cpu>>

Generator == GeneratorStops \/ GeneratorStarts

RegisterAccess(p) ==
  \/ Kill(p) \/ AwaitIdle(p) \/ Unmux(p)
  \/ SetDivider(p) \/ SetControl(p) \/ ReadControl(p) \/ Enable(p)
  \/ Float17(p) \/ ReadFsel17(p) \/ Drive17(p) \/ Clear17(p)
  \/ ReadFsel4(p) \/ Mux(p)

-----------------------------------------------------------------------------
(* A driver on its own: it starts the clock before it keys the carrier or   *)
(* stops it, as src/txtempus.cc does, and makes one call at a time.        *)

Call(p) ==
  \/ \E f \in Carrier :
       /\ settled[p] = "off"
       /\ StartClock(p, f) \/ StartClockRefused(p, f)
  \/ \E power \in Power : settled[p] # "off" /\ SetTxPower(p, power)
  \/ settled[p] # "off" /\ StopClock(p)

Next == Generator \/ \E p \in Proc : Call(p) \/ RegisterAccess(p)

Fairness ==
  /\ WF_vars(Generator)
  /\ \A p \in Proc : WF_vars(RegisterAccess(p))

Spec == Init /\ [][Next]_vars /\ Fairness

-----------------------------------------------------------------------------
Label == {"idle", "kill", "await", "unmux", "setdiv", "setctl", "enable",
          "enabled", "inp17", "out17", "drive17", "clear17", "mux", "muxed"}

(* Every variable stays in its type.                                       *)
TypeOK ==
  /\ ctl \subseteq CtlBit
  /\ div \in Nat \X Nat
  /\ busy \in BOOLEAN
  /\ fsel4 \subseteq PinBit
  /\ fsel17 \subseteq PinBit
  /\ latch17 \in BOOLEAN
  /\ op \in [Proc -> {"none", "start", "stop"} \cup Power]
  /\ freq \in [Proc -> Carrier \cup {NoCarrier}]
  /\ pc \in [Proc -> Label]
  /\ held \in [Proc -> SUBSET (PinBit \cup CtlBit)]
  /\ settled \in [Proc -> {"off", "carrier"} \cup Power]

=============================================================================
