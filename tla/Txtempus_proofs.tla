--------------------------- MODULE Txtempus_proofs ---------------------------
(***************************************************************************)
(* The driver alone (SingleDriver), for every set of carriers and every       *)
(* content the registers may have at the start.  Then one transmitter, from   *)
(* its launch to its end, for any jobs, patterns, carriers and resolution of  *)
(* the clock: the invariant of SingleDriver carried over to main(), which may *)
(* be signalled or killed at any of its steps; and the timing of the levels   *)
(* it keys, for any lengths of a second and of a minute.  Last, what a radio   *)
(* clock beside its antenna shows, with the five time codes (TimeCode_proofs).  *)
(***************************************************************************)
EXTENDS OnAir, TimeCode_proofs, WellFoundedInduction, TLAPS

-----------------------------------------------------------------------------
(* The driver alone.                                                       *)

(* The source StartClock picks is one of the table, and fits the divider.   *)
LEMMA BestSourceType ==
  ASSUME NEW f \in Nat \ {0}
  PROVE  BestSource(f) \in 0 .. 4
  BY DEF BestSource, Consider, NoSource

(* What StartClock writes to the source field and to the divider register.  *)
LEMMA SettingType ==
  ASSUME NEW f \in Nat \ {0}, Synthesizable(f)
  PROVE  Setting(f).src \in SourceBit /\ Setting(f).div \in Nat \X Nat
<1> DEFINE i == BestSource(f)
<1>1. i \in 1 .. 4
  BY BestSourceType DEF Synthesizable, NoSource
<1>2. Frequency(i) \in Nat /\ ClockSources[i].src \in SourceBit
  BY <1>1 DEF Frequency, ClockSources, SourceBit
<1>3. DivI(i, f) \in Nat
  BY <1>2 DEF DivI
<1>4. DivF(i, f) \in Nat
  BY <1>2 DEF DivF
<1> QED
  BY <1>2, <1>3, <1>4 DEF Setting

(* The invariant holds whatever the registers hold at the start.           *)
LEMMA InitIInv == Init => IInv
  BY DriverAssumption, LeftBehindAssumption
  DEF Init, IInv, TypeOK, OpMatchesPc, ClockSequence, PinSequence,
      PowerIsKeyed, D_op, D_pc, Ready, Label, Power, NoCarrier

-----------------------------------------------------------------------------
(* The invariant is inductive.  The driver is the only process, so every    *)
(* function over Proc has one value; each action then is a step from one    *)
(* label of a call to the next.                                            *)
LEMMA NextIInv == IInv /\ [Next]_vars => IInv'
<1> SUFFICES ASSUME IInv, [Next]_vars
             PROVE  IInv'
  OBVIOUS
<1> USE DriverAssumption, CarrierAssumption
<1> DEFINE d == Driver
<1> USE DEF IInv, TypeOK, OpMatchesPc, ClockSequence, PinSequence, PowerIsKeyed,
            D_op, D_pc, Ready, Label, Power, Key, INPUT, OUTPUT, ALT0,
            PinBit, CtlBit, SourceBit, NoCarrier
<1>1. ASSUME NEW f \in Carrier, settled[d] = "off", StartClock(d, f)
      PROVE  IInv'
  BY <1>1 DEF StartClock, Enter, regs
<1>2. ASSUME NEW f \in Carrier, StartClockRefused(d, f)
      PROVE  IInv'
  BY <1>2 DEF StartClockRefused, vars, regs, cpu
<1>3. ASSUME NEW power \in Power, settled[d] # "off", SetTxPower(d, power)
      PROVE  IInv'
  BY <1>3 DEF SetTxPower, Enter, regs
<1>4. ASSUME settled[d] # "off", StopClock(d)
      PROVE  IInv'
  BY <1>4 DEF StopClock, Enter, regs
<1>5. CASE Kill(d)
  BY <1>5 DEF Kill, Goto
<1>6. CASE AwaitIdle(d)
  BY <1>6 DEF AwaitIdle, Goto, regs
<1>7. CASE Unmux(d)
  BY <1>7 DEF Unmux, Goto, Return
<1>8. CASE SetDivider(d)
  BY <1>8, SettingType DEF SetDivider, Goto
<1>9. CASE SetControl(d)
  BY <1>9, SettingType DEF SetControl, Goto
<1>10. CASE ReadControl(d)
  BY <1>10 DEF ReadControl, Goto, regs
<1>11. CASE Enable(d)
  BY <1>11 DEF Enable, Goto
<1>12. CASE Float17(d)
  BY <1>12 DEF Float17, Goto
<1>13. CASE ReadFsel17(d)
  BY <1>13 DEF ReadFsel17, Goto, regs
<1>14. CASE Drive17(d)
  BY <1>14 DEF Drive17, Goto
<1>15. CASE Clear17(d)
  BY <1>15 DEF Clear17, Goto
<1>16. CASE ReadFsel4(d)
  BY <1>16 DEF ReadFsel4, Goto, regs
<1>17. CASE Mux(d)
  BY <1>17 DEF Mux, Return
<1>18. CASE Generator
  <2>1. Ready \/ D_op = "start" => Setting(freq[d]).src \in SourceBit
    BY SettingType
  <2>2. /\ UNCHANGED <<ctl, div, fsel4, fsel17, latch17, cpu>>
        /\ busy' \in BOOLEAN
        /\ busy' => "ENAB" \in ctl
    BY <1>18 DEF Generator, GeneratorStops, GeneratorStarts
  <2> QED
    BY <2>1, <2>2 DEF cpu
<1>19. CASE UNCHANGED vars
  BY <1>19 DEF vars, regs, cpu
<1> HIDE DEF IInv, Power
<1>20. ASSUME NEW p \in Proc, Call(p)
       PROVE  IInv'
  BY <1>20, <1>1, <1>2, <1>3, <1>4 DEF Call
<1>21. ASSUME NEW p \in Proc, RegisterAccess(p)
       PROVE  IInv'
  BY <1>21, <1>5, <1>6, <1>7, <1>8, <1>9, <1>10, <1>11, <1>12, <1>13, <1>14,
     <1>15, <1>16, <1>17 DEF RegisterAccess
<1> QED
  BY <1>18, <1>19, <1>20, <1>21 DEF Next

-----------------------------------------------------------------------------
(* Every variable keeps its type in every state the calls can reach.        *)
THEOREM TypeCorrect == Spec => []TypeOK
<1>1. IInv => TypeOK
  BY DEF IInv
<1> QED
  BY <1>1, InitIInv, NextIInv, PTL DEF Spec

(* From the return of StartClock to the call of StopClock the generator     *)
(* stays enabled and on the frequency that was asked for, for every set of  *)
(* carriers and whatever the registers held at the start.                  *)
THEOREM GeneratorStaysTuned == Spec => []StaysTuned
<1>1. IInv => StaysTuned
  BY SettingType, CarrierAssumption
  DEF IInv, OpMatchesPc, ClockSequence, StaysTuned, Enabled, Tuned, Ready,
      D_op, D_pc, Power, TypeOK, SourceBit
<1> QED
  BY <1>1, InitIInv, NextIInv, PTL DEF Spec

(* After SetTxPower the level is the one asked for, whatever function and   *)
(* latch the pins had at the start.                                        *)
THEOREM SetTxPowerKeys == Spec => []PowerIsKeyed
<1>1. IInv => PowerIsKeyed
  BY DEF IInv
<1> QED
  BY <1>1, InitIInv, NextIInv, PTL DEF Spec

(* A step from a state of the invariant that finds the generator running     *)
(* changes neither its divider nor the source it is switched to.           *)
LEMMA ClockStep ==
  IInv /\ [Next]_vars
    => [busy => div' = div /\ ctl' \cap SourceBit \subseteq ctl]_vars
<1> SUFFICES ASSUME IInv, [Next]_vars, busy
             PROVE  div' = div /\ ctl' \cap SourceBit \subseteq ctl
  OBVIOUS
<1> USE DriverAssumption
<1>1. \/ div' = div /\ ctl' = ctl
      \/ Kill(Driver) \/ SetDivider(Driver) \/ SetControl(Driver)
      \/ Enable(Driver)
  BY DEF Next, Call, RegisterAccess, StartClock, StartClockRefused, StopClock,
         SetTxPower, Enter, Unmux, AwaitIdle, ReadControl, Float17, ReadFsel17,
         Drive17, Clear17, ReadFsel4, Mux, Generator, GeneratorStops,
         GeneratorStarts, vars, regs
<1>2. CASE Kill(Driver)
  BY <1>2 DEF Kill, SourceBit
<1>3. ASSUME SetDivider(Driver) \/ SetControl(Driver) \/ Enable(Driver)
      PROVE  FALSE
  BY <1>3 DEF SetDivider, SetControl, Enable, Goto, IInv, ClockSequence,
              OpMatchesPc, D_pc, D_op
<1> QED
  BY <1>1, <1>2, <1>3

(* The registers of a running generator are never changed under its feet.   *)
THEOREM ClockUndisturbed == Spec => ClockChangesOnlyWhenIdle
  BY InitIInv, NextIInv, ClockStep, PTL DEF Spec, ClockChangesOnlyWhenIdle

-----------------------------------------------------------------------------
(* What the registers stand for, by where the driver is.                    *)
LEMMA CarriedByPc ==
  ASSUME IInv
  PROVE  /\ Ready /\ D_op # "stop" => Enabled /\ Carried = freq[Driver]
         /\ D_op = "start" /\ D_pc \in {"mux", "muxed"} =>
              Enabled /\ Carried = freq[Driver] /\ freq[Driver] \in Nat \ {0}
         /\ D_pc \in {"await", "setdiv", "setctl", "enable", "enabled"} =>
              ~Enabled
         /\ D_pc = "unmux" /\ D_op # "OFF" => ~Enabled
  BY SettingType, CarrierAssumption
  DEF IInv, TypeOK, OpMatchesPc, ClockSequence, Enabled, Carried, Tuned, Ready,
      D_op, D_pc, Power, SourceBit

(* No carrier is numbered 0, which stands for silence.                      *)
LEMMA CarriedNonzero ==
  ASSUME IInv
  PROVE  Carried # 0
  BY CarrierAssumption DEF Carried, IInv, OpMatchesPc, Ready, D_op, D_pc

LEMMA InitRefines == Init => HW!Init
  BY DriverAssumption, LeftBehindAssumption
  DEF Init, HW!Init, HW!None, HW!Foreign, HW!Power, Key, D_op, D_pc, Ready,
      Carried, Enabled, NoCarrier

(* Every register access is a step of HardwareControl or changes nothing    *)
(* that HardwareControl speaks of.                                         *)
LEMMA NextRefines ==
  IInv /\ IInv' /\ [Next]_vars => [HW!Next]_(HW!vars)
<1> SUFFICES ASSUME IInv, IInv', [Next]_vars
             PROVE  [HW!Next]_(HW!vars)
  OBVIOUS
<1> USE DriverAssumption
<1> DEFINE d == Driver
           tuned == IF Enabled THEN Carried ELSE 0
           osc   == IF ~busy THEN 0 ELSE IF Enabled THEN Carried ELSE -1
<1>0. /\ tuned \in Int /\ osc \in Int /\ Key \in HW!Power
      /\ busy \in BOOLEAN /\ op \in [{d} -> {"none", "start", "stop"} \cup Power]
      /\ pc \in [{d} -> Label] /\ settled \in [{d} -> {"off", "carrier"} \cup Power]
      /\ freq \in [{d} -> Carrier \cup {NoCarrier}]
  <2>1. Carried \in Int
    <3>1. freq[d] \in Carrier \cup {0}
      BY DEF IInv, TypeOK, NoCarrier
    <3>2. Carrier \subseteq Int
      BY CarrierAssumption
    <3>3. freq[d] \in Int
      <4>1. \A x : x \in Carrier \cup {0} => x \in Int
        BY <3>2
      <4> QED
        BY <3>1, <4>1, Zenon
    <3> QED
      BY <3>3 DEF Carried
  <2>2. Key \in HW!Power
    BY DEF Key, HW!Power
  <2> QED
    BY <2>1, <2>2 DEF IInv, TypeOK
<1>1. ASSUME NEW f \in Carrier, settled[d] = "off", StartClock(d, f)
      PROVE  HW!StartClock(f)
  <2>1. tuned' = tuned /\ osc' = osc /\ Key' = Key
    BY <1>1, <1>0 DEF StartClock, Enter, regs, Enabled, Carried, Ready, D_op,
                      D_pc, Key, IInv, OpMatchesPc
  <2> QED
    BY <1>1, <2>1, <1>0 DEF StartClock, Enter, HW!StartClock, HW!Begin, D_op,
                            IInv, OpMatchesPc, D_pc
<1>2. ASSUME NEW power \in Power, settled[d] # "off", SetTxPower(d, power)
      PROVE  HW!SetTxPower(power)
  <2>1. tuned' = tuned /\ osc' = osc /\ Key' = Key
    BY <1>2, <1>0 DEF SetTxPower, Enter, regs, Enabled, Carried, Ready, D_op,
                      D_pc, Key, IInv, OpMatchesPc, Tuned
  <2> QED
    BY <1>2, <2>1, <1>0 DEF SetTxPower, Enter, HW!SetTxPower, HW!Begin, D_op,
                            IInv, OpMatchesPc, D_pc
<1>3. ASSUME settled[d] # "off", StopClock(d)
      PROVE  HW!StopClock
  <2>1. tuned' = tuned /\ osc' = osc /\ Key' = Key
    BY <1>3, <1>0 DEF StopClock, Enter, regs, Enabled, Carried, Ready, D_op,
                      D_pc, Key, IInv, OpMatchesPc, Tuned
  <2> QED
    BY <1>3, <2>1, <1>0 DEF StopClock, Enter, HW!StopClock, HW!Begin, D_op,
                            IInv, OpMatchesPc, D_pc
<1>4. ASSUME Kill(d)
      PROVE  HW!Detune
  <2>1. tuned' = 0 /\ osc' = IF busy THEN -1 ELSE 0
    BY <1>4 DEF Kill, Enabled
  <2>2. osc = 0 <=> ~busy
    BY <1>4, CarriedNonzero DEF Kill, Goto, IInv, OpMatchesPc, ClockSequence,
                                Enabled, D_op, D_pc
  <2>3. D_op \in {"start", "stop"} /\ Key' = Key
    BY <1>4, <1>0 DEF Kill, Goto, IInv, OpMatchesPc, D_op, D_pc, Key
  <2> QED
    BY <1>4, <2>1, <2>2, <2>3, <1>0
    DEF Kill, Goto, HW!Detune, HW!None, HW!Foreign, D_op
(* Steps that HardwareControl does not see.                                 *)
<1>5. ASSUME \/ AwaitIdle(d) \/ SetDivider(d) \/ SetControl(d)
             \/ ReadControl(d) \/ ReadFsel17(d) \/ ReadFsel4(d)
             \/ UNCHANGED vars \/ \E f \in Carrier : StartClockRefused(d, f)
      PROVE  UNCHANGED HW!vars
  <2>1. UNCHANGED <<busy, fsel4, fsel17, latch17, op, freq, settled>>
    BY <1>5 DEF AwaitIdle, SetDivider, SetControl, ReadControl, ReadFsel17,
       ReadFsel4, StartClockRefused, Goto, vars, regs, cpu
  <2>2. UNCHANGED <<Key, D_op, freq[Driver], settled[Driver]>>
    BY <2>1 DEF Key, D_op
  <2>3. CASE AwaitIdle(d) \/ SetDivider(d) \/ SetControl(d) \/ ReadControl(d)
    <3>1. D_pc \in {"await", "setdiv", "setctl", "enable"}
      BY <2>3 DEF AwaitIdle, SetDivider, SetControl, ReadControl, Goto, D_pc
    <3>2. D_pc' \in {"unmux", "setdiv", "setctl", "enable", "enabled"}
          /\ (D_pc' = "unmux" => D_pc = "await")
      BY <2>3, <1>0 DEF AwaitIdle, SetDivider, SetControl, ReadControl, Goto,
                        D_pc, D_op
    <3>3. ~Enabled
      BY <3>1, CarriedByPc
    <3>4. ~Enabled'
      <4>1. CASE SetControl(d)
        <5>1. Setting(freq[d]).src \in SourceBit
          BY <4>1, SettingType, CarrierAssumption
          DEF SetControl, Goto, IInv, OpMatchesPc, D_pc, D_op
        <5> QED
          BY <4>1, <5>1 DEF SetControl, Enabled, SourceBit
      <4>2. CASE ~SetControl(d)
        <5>1. ctl' = ctl
          BY <2>3, <4>2 DEF AwaitIdle, SetDivider, ReadControl, regs
        <5> QED
          BY <3>3, <5>1 DEF Enabled
      <4> QED
        BY <4>1, <4>2
    <3>5. tuned' = tuned /\ osc' = osc
      BY <3>3, <3>4, <2>1
    <3> QED
      BY <2>2, <3>5 DEF HW!vars
  <2>4. CASE ReadFsel17(d)
    <3>1. D_op \in Power /\ UNCHANGED <<ctl, div>>
      BY <2>4 DEF ReadFsel17, Goto, regs, IInv, OpMatchesPc, D_pc, D_op, Power
    <3>2. Tuned(freq[d])' = Tuned(freq[d]) /\ Enabled' = Enabled
          /\ Ready' = Ready /\ D_op' \in Power
      BY <2>1, <3>1 DEF Tuned, Enabled, Ready, D_op
    <3>3. Carried' = Carried
      BY <3>1, <3>2, <2>1 DEF Carried, Power
    <3>4. tuned' = tuned /\ osc' = osc
      BY <3>2, <3>3, <2>1
    <3> QED
      BY <2>2, <3>4 DEF HW!vars
  <2>5. CASE ReadFsel4(d)
    <3>1. D_pc \in {"mux", "muxed"} /\ D_pc' \in {"mux", "muxed"}
      BY <2>5, <1>0 DEF ReadFsel4, Goto, D_pc
    <3>2. Tuned(freq[d])' = Tuned(freq[d]) /\ Enabled' = Enabled
          /\ Ready' = Ready /\ D_op' = D_op
      BY <2>1, <2>5 DEF ReadFsel4, regs, Tuned, Enabled, Ready, D_op
    <3>3. Carried' = Carried
      BY <3>1, <3>2, <2>1 DEF Carried
    <3>4. tuned' = tuned /\ osc' = osc
      BY <3>2, <3>3, <2>1
    <3> QED
      BY <2>2, <3>4 DEF HW!vars
  <2>6. CASE UNCHANGED vars \/ \E f \in Carrier : StartClockRefused(d, f)
    <3>1. UNCHANGED vars
      BY <2>6 DEF StartClockRefused
    <3>2. Enabled' = Enabled /\ Carried' = Carried /\ busy' = busy
      BY <3>1 DEF vars, regs, cpu, Enabled, Carried, Tuned, Ready, D_op, D_pc
    <3>3. tuned' = tuned /\ osc' = osc
      BY <3>2
    <3> QED
      BY <2>2, <3>3 DEF HW!vars
  <2> QED
    BY <1>5, <2>3, <2>4, <2>5, <2>6
<1>6. ASSUME Unmux(d)
      PROVE  HW!Disconnect \/ HW!FinishStop \/ HW!FinishKeying
  <2>1. Key' = "OFF"
    BY <1>6 DEF Unmux, Key, INPUT, ALT0
  <2>2. CASE D_op = "OFF"
    <3>1. tuned' = tuned /\ osc' = osc
      BY <1>6, <2>2, <1>0 DEF Unmux, Goto, Return, Enabled, Carried, Tuned,
         Ready, D_op, D_pc, IInv, OpMatchesPc, Power
    <3> QED
      BY <1>6, <2>1, <2>2, <3>1, <1>0 DEF Unmux, Goto, Return, D_op,
         HW!FinishKeying, HW!Return, HW!Power
  <2>3. CASE D_op \in {"start", "stop"}
    <3>1. ~Enabled /\ ~busy /\ UNCHANGED <<ctl, busy>>
      BY <1>6, <2>3, <1>0 DEF Unmux, Goto, Return, Enabled, IInv, ClockSequence,
                              D_pc, D_op
    <3>2. tuned = 0 /\ osc = 0 /\ tuned' = 0 /\ osc' = 0
      BY <3>1 DEF Enabled
    <3> QED
      BY <1>6, <2>1, <2>3, <3>2, <1>0 DEF Unmux, Goto, Return, D_op,
         HW!Disconnect, HW!FinishStop, HW!Return, HW!Stopped, HW!None
  <2> QED
    BY <1>6, <2>2, <2>3 DEF Unmux, D_op
<1>7. ASSUME Enable(d)
      PROVE  HW!Tune
  <2>1. /\ D_op = "start" /\ D_pc = "enabled" /\ ~busy /\ ~Enabled
        /\ fsel4 = INPUT
    BY <1>7, CarriedByPc DEF Enable, Goto, IInv, OpMatchesPc, ClockSequence,
                             PinSequence, D_op, D_pc
  <2>2. /\ D_op' = "start" /\ D_pc' = "mux"
        /\ UNCHANGED <<busy, fsel4, fsel17, latch17, op, freq, settled>>
    BY <1>7, <2>1, <1>0 DEF Enable, Goto, D_op, D_pc
  <2>3. Enabled' /\ Carried' = freq[d]
    <3>1. /\ ctl' = {Setting(freq[d]').src, "ENAB"}
          /\ div' = Setting(freq[d]').div
          /\ freq[d]' \in Carrier /\ Synthesizable(freq[d]')
      BY <2>2 DEF IInv, OpMatchesPc, ClockSequence
    <3>2. Setting(freq[d]').src \in SourceBit
      BY <3>1, SettingType, CarrierAssumption
    <3> QED
      BY <2>2, <3>1, <3>2 DEF Enabled, Carried, Tuned, SourceBit
  <2>4. /\ tuned = 0 /\ osc = 0 /\ tuned' = freq[d] /\ osc' = 0
        /\ Key = "OFF" /\ Key' = "OFF"
    BY <2>1, <2>2, <2>3 DEF Key, INPUT, ALT0
  <2> QED
    BY <2>1, <2>2, <2>4 DEF HW!Tune, HW!Stopped, HW!None, D_op
<1>8. ASSUME NEW label \in Label,
             Goto(d, label, pc'[d]),
             D_op \in Power,
             UNCHANGED <<ctl, div, busy>>
      PROVE  tuned' = tuned /\ osc' = osc /\ UNCHANGED <<D_op, freq[d], settled[d]>>
  BY <1>8 DEF Goto, Enabled, Carried, Tuned, Ready, D_op, D_pc, Power, IInv,
              OpMatchesPc
<1>9. ASSUME Float17(d)
      PROVE  HW!Rekey \/ HW!Release \/ UNCHANGED HW!vars
  <2>1. D_op \in {"LOW", "HIGH"} /\ D_pc = "inp17"
    BY <1>9 DEF Float17, Goto, IInv, OpMatchesPc, D_pc, D_op
  <2>2. tuned' = tuned /\ osc' = osc /\ UNCHANGED <<D_op, freq[d], settled[d]>>
    BY <1>9, <2>1, <1>0, <1>8 DEF Float17, Goto, Power, Label
  <2>3. Key' = IF Key = "OFF" THEN "OFF" ELSE "HIGH"
    BY <1>9 DEF Float17, Key, INPUT, OUTPUT
  <2>4. Key \in {"OFF", "LOW", "HIGH"}
    BY DEF Key
  <2> QED
    BY <2>1, <2>2, <2>3, <2>4 DEF HW!Rekey, HW!Release, HW!vars, HW!Power
<1>10. ASSUME Drive17(d) \/ Clear17(d)
       PROVE  HW!Rekey \/ UNCHANGED HW!vars
  <2>1. D_op = "LOW"
    BY <1>10 DEF Drive17, Clear17, Goto, IInv, OpMatchesPc, D_pc, D_op
  <2>2. tuned' = tuned /\ osc' = osc /\ UNCHANGED <<D_op, freq[d], settled[d]>>
    BY <1>10, <2>1, <1>0, <1>8 DEF Drive17, Clear17, Goto, Power, Label
  <2>3. Key' \in {Key, "LOW"}
    BY <1>10 DEF Drive17, Clear17, Goto, Key, INPUT, OUTPUT, IInv, PinSequence,
                 D_pc
  <2> QED
    BY <2>1, <2>2, <2>3 DEF HW!Rekey, HW!vars, HW!Power
<1>11. ASSUME Mux(d)
       PROVE  HW!Connect \/ HW!FinishKeying
  <2>1. D_op \in {"start", "LOW", "HIGH"} /\ D_pc = "muxed"
    BY <1>11 DEF Mux, Return, IInv, OpMatchesPc, D_pc, D_op
  <2>2. Key' \in {"LOW", "HIGH"} /\ (D_op \in Power => Key' = D_op)
    BY <1>11, <2>1 DEF Mux, Key, INPUT, OUTPUT, ALT0, IInv, PinSequence, D_pc,
                       D_op, Ready, OpMatchesPc, Power
  <2>3. /\ D_op' = "none" /\ settled[d]' = IF D_op = "start" THEN "carrier" ELSE D_op
        /\ freq[d]' = freq[d]
    BY <1>11, <1>0 DEF Mux, Return, D_op
  <2>4. tuned = freq[d] /\ Enabled
    BY <2>1, CarriedByPc DEF IInv, OpMatchesPc, Power, Ready, D_op
  <2>5. tuned' = tuned /\ osc' = osc
    BY <1>11, <2>1, <2>3, <2>4 DEF Mux, Enabled, Carried, Tuned, Ready, IInv,
                                   ClockSequence, OpMatchesPc, Power, D_op, D_pc
  <2> QED
    BY <2>1, <2>2, <2>3, <2>4, <2>5 DEF HW!Connect, HW!FinishKeying, HW!Return,
                                        HW!Power, Power
<1>12. ASSUME Generator
       PROVE  HW!Oscillator
  <2>1. UNCHANGED <<ctl, div, fsel4, fsel17, latch17, op, freq, pc, settled>>
    BY <1>12 DEF Generator, GeneratorStops, GeneratorStarts, cpu
  <2>2. /\ Enabled' = Enabled /\ Ready' = Ready /\ D_op' = D_op /\ D_pc' = D_pc
        /\ Tuned(freq[d])' = Tuned(freq[d]) /\ Key' = Key
    BY <2>1 DEF Enabled, Ready, D_op, D_pc, Tuned, Key
  <2>3. Carried' = Carried
    BY <2>1, <2>2 DEF Carried
  <2>4. CASE GeneratorStops
    <3>1. busy /\ ~Enabled /\ ~busy'
      BY <2>4 DEF GeneratorStops, Enabled
    <3>2. tuned = 0 /\ osc = -1 /\ tuned' = 0 /\ osc' = 0
      BY <3>1, <2>2
    <3> QED
      BY <3>2, <2>1, <2>2 DEF HW!Oscillator, HW!None, D_op
  <2>5. CASE GeneratorStarts
    <3>1. ~busy /\ Enabled /\ busy'
      BY <2>5 DEF GeneratorStarts, Enabled
    <3>2. tuned = Carried /\ osc = 0 /\ tuned' = Carried /\ osc' = Carried
      BY <3>1, <2>2, <2>3
    <3> QED
      BY <3>2, <2>1, <2>2, CarriedNonzero DEF HW!Oscillator, HW!None, D_op
  <2> QED
    BY <1>12, <2>4, <2>5 DEF Generator
<1> QED
  <2>1. ASSUME Call(d)
        PROVE  HW!Next \/ UNCHANGED HW!vars
    BY <2>1, <1>1, <1>2, <1>3, <1>5 DEF Call, HW!Next, HW!Request, HW!Power, Power
  <2>2. ASSUME RegisterAccess(d)
        PROVE  HW!Next \/ UNCHANGED HW!vars
    BY <2>2, <1>4, <1>5, <1>6, <1>7, <1>9, <1>10, <1>11
    DEF RegisterAccess, HW!Next, HW!Prepare, HW!Finish
  <2> QED
    BY <2>1, <2>2, <1>5, <1>12 DEF Next, HW!Next

(***************************************************************************)
(* The register accesses implement HardwareControl (its safety part): for    *)
(* every set of carriers and every content of the registers at the start,   *)
(* each access is at most one visible step of the call it belongs to.        *)
(***************************************************************************)
THEOREM DriverImplementsHardwareControl ==
  Spec => HW!Init /\ [][HW!Next]_(HW!vars)
  BY InitIInv, NextIInv, InitRefines, NextRefines, PTL DEF Spec

(* The variables of main(), and the ones that do not change after its launch.  *)
MainState == [at : Place, job : Job, now : Nat, minute : Nat,
              ttl : Nat \cup {Forever}, second : 0 .. SecondsPerMinute,
              prepared : Int, moment : Nat \ {0}, wake : Nat,
              interrupted : BOOLEAN]

T == tx[Driver]

-----------------------------------------------------------------------------
(* The inductive invariant.                                                *)

BeforeStart == {"off", "init", "unmapped", "start", "failed", "crashed"}

AtASecond == {"wait", "asleep", "awake", "key", "keyed", "nap", "napping", "next"}

InAMinute == AtASecond \cup {"second"}

InNoCall == D_op = "none" /\ D_pc = "idle"

Resting == busy = Enabled

Stopped == InNoCall /\ ~busy /\ ctl = {"KILL"} /\ fsel4 = INPUT

(* A process that has not been killed keeps the invariant of a driver.        *)
DriverInv == T.at # "killed" => IInv

(* Where main() is tells which hardware call it can be in: none before         *)
(* StartCarrier or in a dry run, StartClock before the first minute,          *)
(* SetTxPower before the wait for the next level, StopClock at the end.       *)
CallInv ==
  /\ T.at \in BeforeStart \/ T.job.dry =>
       InNoCall /\ settled[Driver] = "off" /\ Resting
  /\ T.at = "killed" => InNoCall
  /\ ~T.job.dry =>
       /\ T.at = "minute" => D_op = "start" \/ (InNoCall /\ Ready)
       /\ T.at \in (InAMinute \ {"keyed"}) \cup {"stop"} => InNoCall /\ Ready
       /\ T.at = "keyed" => (InNoCall \/ D_op \in Power) /\ Ready
       /\ T.at = "exit" => D_op = "stop" \/ Stopped
       /\ T.at = "done" => Stopped

(* minute_start and ttl count together.                                     *)
CountInv ==
  /\ T.at # "off" => (T.ttl = Forever <=> T.job.ttl = Forever)
  /\ T.ttl # Forever /\ T.at \in {"init", "unmapped", "start", "minute"} =>
       T.ttl <= T.job.ttl /\ T.minute = (T.job.ttl - T.ttl) * Minute
  /\ T.ttl # Forever /\ T.at \in InAMinute =>
       T.ttl < T.job.ttl /\ T.minute = (T.job.ttl - T.ttl - 1) * Minute

(* The second and the level are ones that the source has.                    *)
PatternInv ==
  /\ T.at \in InAMinute =>
       \E m \in 0 .. LastMinute(T.job) : T.prepared = m + T.job.offset
  /\ T.at \in AtASecond =>
       /\ T.second \in 0 .. SecondsPerMinute - 1
       /\ T.moment \in 1 .. Len(Pattern(Driver))
  /\ T.at \in {"wait", "asleep", "awake"} => T.moment = 1

TxInv == TxTypeOK /\ DriverInv /\ CallInv /\ CountInv /\ PatternInv

-----------------------------------------------------------------------------
(* Minutes.                                                                *)
LEMMA MinuteIsPositive == Minute \in Nat \ {0}
<1>1. \A a, b \in Nat \ {0} : a * b \in Nat \ {0}
  OBVIOUS
<1> QED
  BY <1>1, TimeAssumption DEF Minute

LEMMA DivisionOfNat ==
  ASSUME NEW n \in Nat, NEW d \in Nat \ {0}
  PROVE  n \div d \in Nat /\ n % d \in 0 .. d - 1 /\ n = d * (n \div d) + (n % d)
OBVIOUS

LEMMA MultipleDivided ==
  ASSUME NEW k \in Nat, NEW d \in Nat \ {0}
  PROVE  (k * d) \div d = k
<1> DEFINE n == k * d
           q == n \div d
<1>1. n \in Nat
  OBVIOUS
<1>2. q \in Nat /\ n % d \in 0 .. d - 1 /\ n = d * q + (n % d)
  BY <1>1, DivisionOfNat
<1>3. d * (q - k) \in -(d - 1) .. 0
  BY <1>2
<1>4. CASE q > k
  <2>1. d * (q - k) >= d
    BY <1>2, <1>4
  <2> QED
    BY <1>2, <1>3, <2>1
<1>5. CASE q < k
  <2>1. d * (k - q) >= d
    BY <1>2, <1>5
  <2>2. d * (q - k) = -(d * (k - q))
    BY <1>2
  <2> QED
    BY <1>2, <1>3, <2>1, <2>2
<1> QED
  BY <1>2, <1>4, <1>5

LEMMA DivisionGrows ==
  ASSUME NEW n \in Nat, NEW m \in Nat, n <= m, NEW d \in Nat \ {0}
  PROVE  n \div d <= m \div d
<1> DEFINE q == n \div d
           r == m \div d
<1>1. q \in Nat /\ n % d \in 0 .. d - 1 /\ n = d * q + (n % d)
  BY DivisionOfNat
<1>2. r \in Nat /\ m % d \in 0 .. d - 1 /\ m = d * r + (m % d)
  BY DivisionOfNat
<1> HIDE DEF q, r
<1>3. SUFFICES ASSUME r + 1 <= q PROVE FALSE
  BY <1>1, <1>2 DEF q, r
<1>4. d * (r + 1) <= d * q
  BY <1>1, <1>2, <1>3
<1>5. d * (r + 1) = d * r + d
  BY <1>2
<1> QED
  BY <1>1, <1>2, <1>4, <1>5

-----------------------------------------------------------------------------
(* A step of main(), with what it makes the driver do.                       *)
LEMMA MainStep ==
  ASSUME TxInv, NEW place, place # "killed", NEW new \in MainState,
         From(Driver, place, new), [Next]_vars, UNCHANGED timer
  PROVE  T.at = place /\ T' = new /\ TxTypeOK' /\ DriverInv'
<1> USE DriverAssumption
<1>1. T \in MainState /\ tx \in [Proc -> MainState]
  BY DEF TxInv, TxTypeOK, T, MainState
<1>2. T.at = place /\ tx' = [tx EXCEPT ![Driver] = new]
  BY DEF From, T
<1>3. tx' \in [Proc -> MainState] /\ T' = new
  BY <1>1, <1>2 DEF T
<1>4. IInv'
  BY <1>2, NextIInv DEF TxInv, DriverInv
<1>5. TypeOK'
  BY <1>4 DEF IInv
<1>6. TxTypeOK'
  BY <1>3, <1>5 DEF TxInv, TxTypeOK, MainState, timer
<1> QED
  BY <1>2, <1>3, <1>4, <1>6 DEF DriverInv

(* A step of main() alone.                                                 *)
LEMMA SoftwareStep ==
  ASSUME TxInv, NEW place, place # "killed", NEW new \in MainState,
         From(Driver, place, new), Software
  PROVE  T.at = place /\ T' = new /\ TxTypeOK' /\ DriverInv' /\ UNCHANGED vars
<1>1. UNCHANGED vars /\ UNCHANGED timer
  BY DEF Software
<1> QED
  BY <1>1, MainStep

(* What the invariants say of the registers is unchanged.                    *)
LEMMA RegistersStay ==
  ASSUME UNCHANGED vars
  PROVE  UNCHANGED <<D_op, D_pc, settled, busy, ctl, fsel4, InNoCall, Resting, Stopped, Ready>>
BY DEF vars, regs, cpu, D_op, D_pc, InNoCall, Resting, Stopped, Ready, Enabled

LEMMA MainStateOfDriver == ASSUME TxInv PROVE T \in MainState
BY DriverAssumption DEF TxInv, TxTypeOK, T, MainState

LEMMA LaunchKeeps == ASSUME TxInv, Launch(Driver) PROVE TxInv'
<1> DEFINE new == [To(Driver, "init") EXCEPT
                     !.now    = TruncateTo(clock, Minute),
                     !.minute = TruncateTo(clock, Minute),
                     !.ttl    = tx[Driver].job.ttl]
<1>1. T \in MainState
  BY MainStateOfDriver
<1>2. clock \in Nat /\ clock < Minute /\ Minute \in Nat \ {0}
  BY MinuteIsPositive, TimeAssumption DEF TxInv, TxTypeOK, Launch
<1>3. TruncateTo(clock, Minute) = 0
  BY <1>2 DEF TruncateTo
<1>4. T.job.ttl \in Nat \cup {Forever}
  BY <1>1, JobAssumption DEF MainState
<1>5. new \in MainState
  <2>1. new = [T EXCEPT !.at = "init", !.now = 0, !.minute = 0, !.ttl = T.job.ttl]
    BY <1>3 DEF To, T
  <2> HIDE DEF new
  <2> QED
    BY <1>1, <1>4, <2>1 DEF MainState, Place
<1>6. From(Driver, "off", new) /\ Software
  BY DEF Launch
<1> HIDE DEF new
<1>7. /\ T.at = "off" /\ T' = new /\ TxTypeOK' /\ DriverInv' /\ UNCHANGED vars
  BY <1>5, <1>6, SoftwareStep
<1>8. /\ T'.at = "init" /\ T'.job = T.job /\ T'.ttl = T.job.ttl /\ T'.minute = 0
  BY <1>1, <1>3, <1>7 DEF new, To, T, MainState
<1>9. CallInv'
  BY <1>7, <1>8, RegistersStay DEF TxInv, CallInv, BeforeStart, InAMinute, AtASecond
<1>10. CountInv'
  <2>1. T'.ttl \in Nat => T'.minute = (T'.job.ttl - T'.ttl) * Minute
    BY <1>2, <1>8
  <2> QED
    BY <1>4, <1>8, <2>1 DEF CountInv, InAMinute, AtASecond
<1>11. PatternInv'
  BY <1>8 DEF PatternInv, InAMinute, AtASecond
<1> QED
  BY <1>7, <1>9, <1>10, <1>11 DEF TxInv

(* The steps that only move on.                                            *)
LEMMA MovesOn ==
  ASSUME TxInv, NEW place, place # "killed", NEW next \in Place,
         From(Driver, place, To(Driver, next)), Software
  PROVE  /\ T \in MainState /\ T.at = place /\ T' = [T EXCEPT !.at = next]
         /\ TxTypeOK' /\ DriverInv' /\ UNCHANGED vars
<1>1. T \in MainState
  BY MainStateOfDriver
<1>2. To(Driver, next) = [T EXCEPT !.at = next] /\ [T EXCEPT !.at = next] \in MainState
  BY <1>1 DEF To, T, MainState
<1> QED
  BY <1>1, <1>2, SoftwareStep

LEMMA PatternStays ==
  ASSUME T'.job = T.job, T'.prepared = T.prepared, T'.second = T.second
  PROVE  Pattern(Driver)' = Pattern(Driver)
BY DEF Pattern, T

LEMMA BeginningKeeps ==
  ASSUME TxInv, InitFails(Driver) \/ InitSucceeds(Driver) \/ Crash(Driver)
  PROVE  TxInv'
<1>1. PICK place \in {"init", "unmapped"}, next \in {"failed", "start", "unmapped", "crashed"} :
        From(Driver, place, To(Driver, next)) /\ Software
  BY DEF InitFails, InitSucceeds, Crash
<1>2. /\ T \in MainState /\ T.at = place /\ T' = [T EXCEPT !.at = next]
      /\ TxTypeOK' /\ UNCHANGED vars /\ DriverInv'
  BY <1>1, MovesOn DEF Place, Ended
<1>3. CallInv'
  BY <1>1, <1>2, RegistersStay DEF TxInv, CallInv, BeforeStart, InAMinute, AtASecond, MainState
<1>4. CountInv'
  BY <1>1, <1>2 DEF TxInv, CountInv, InAMinute, AtASecond, MainState
<1>5. PatternInv'
  BY <1>1, <1>2 DEF PatternInv, InAMinute, AtASecond, MainState
<1> QED
  BY <1>2, <1>3, <1>4, <1>5 DEF TxInv

LEMMA StartCarrierKeeps == ASSUME TxInv, StartCarrier(Driver) PROVE TxInv'
<1>1. T \in MainState /\ T.at = "start" /\ From(Driver, "start", To(Driver, "minute"))
  BY MainStateOfDriver DEF StartCarrier, From, T
<1>2. To(Driver, "minute") = [T EXCEPT !.at = "minute"]
  BY DEF To, T
<1>3. To(Driver, "minute") \in MainState
  BY <1>1, <1>2 DEF MainState, Place
<1>4. InNoCall /\ settled[Driver] = "off" /\ Resting /\ IInv
  BY <1>1 DEF TxInv, CallInv, DriverInv, BeforeStart
<1>5. T.job \in Job /\ CarrierOf(T.job.source) \in Carrier
  BY <1>1, JobAssumption DEF MainState
<1>6. UNCHANGED timer
  BY DEF StartCarrier
<1>7. CASE T.job.dry
  <2>1. UNCHANGED vars
    BY <1>7 DEF StartCarrier, T
  <2>2. T' = [T EXCEPT !.at = "minute"] /\ TxTypeOK' /\ DriverInv'
    BY <1>1, <1>2, <1>3, <1>6, <2>1, MainStep
  <2>3. CallInv'
    BY <1>1, <1>4, <1>7, <2>1, <2>2, RegistersStay DEF CallInv, MainState
  <2> QED
    BY <1>1, <2>2, <2>3 DEF TxInv, CountInv, PatternInv, InAMinute, AtASecond, MainState
<1>8. CASE ~T.job.dry
  <2>1. StartClock(Driver, CarrierOf(T.job.source))
    BY <1>8 DEF StartCarrier, T
  <2>2. Next
    BY <1>4, <1>5, <2>1, DriverAssumption DEF Next, Call
  <2>3. T' = [T EXCEPT !.at = "minute"] /\ TxTypeOK' /\ DriverInv'
    BY <1>1, <1>2, <1>3, <1>6, <2>2, MainStep
  <2>4. D_op' = "start"
    BY <1>4, <2>1, DriverAssumption DEF StartClock, Enter, D_op, IInv, TypeOK
  <2>5. CallInv'
    BY <1>1, <1>8, <2>3, <2>4 DEF CallInv, BeforeStart, InAMinute, AtASecond, MainState
  <2> QED
    BY <1>1, <2>3, <2>5 DEF TxInv, CountInv, PatternInv, InAMinute, AtASecond, MainState
<1> QED
  BY <1>7, <1>8

(* What StartClock has left behind when main() goes on.                      *)
LEMMA CallReturned ==
  ASSUME TxInv, T.at \in {"minute", "keyed", "exit"}, pc[Driver] = "idle"
  PROVE  InNoCall /\ IInv
<1>1. IInv
  BY DEF TxInv, DriverInv
<1> QED
  BY <1>1 DEF IInv, OpMatchesPc, InNoCall, D_pc, D_op

LEMMA LeaveLoopKeeps == ASSUME TxInv, LeaveLoop(Driver) PROVE TxInv'
<1>1. /\ T \in MainState /\ T.at = "minute" /\ T' = [T EXCEPT !.at = "stop"]
      /\ TxTypeOK' /\ DriverInv' /\ UNCHANGED vars
  BY MovesOn DEF LeaveLoop, Place
<1>2. InNoCall
  BY <1>1, CallReturned DEF LeaveLoop
<1>3. CallInv'
  BY <1>1, <1>2, RegistersStay DEF TxInv, CallInv, BeforeStart, InAMinute, AtASecond, MainState, InNoCall
<1>4. CountInv' /\ PatternInv'
  BY <1>1 DEF TxInv, CountInv, PatternInv, InAMinute, AtASecond, MainState
<1> QED
  BY <1>1, <1>3, <1>4 DEF TxInv

LEMMA BeginMinuteKeeps == ASSUME TxInv, BeginMinute(Driver) PROVE TxInv'
<1> DEFINE m == T.minute \div Minute
           left == IF T.ttl = Forever THEN T.ttl ELSE T.ttl - 1
           new == [T EXCEPT !.at = "second", !.ttl = left,
                            !.prepared = m + T.job.offset, !.second = 0]
<1>1. T \in MainState /\ T.at = "minute" /\ T.ttl # 0 /\ pc[Driver] = "idle"
  BY MainStateOfDriver DEF BeginMinute, From, T
<1>2. From(Driver, "minute", new) /\ Software
  BY DEF BeginMinute, To, T
<1>3. T.job \in Job /\ T.job.offset \in Int /\ T.job.ttl \in Nat \cup {Forever}
  BY <1>1, JobAssumption DEF MainState
<1>4. T.minute \in Nat /\ Minute \in Nat \ {0} /\ m \in Nat
  BY <1>1, MinuteIsPositive, DivisionOfNat DEF MainState
<1>5. T.ttl \in Nat \cup {Forever} /\ left \in Nat \cup {Forever}
  BY <1>1 DEF MainState, Forever
<1>6. m \in 0 .. LastMinute(T.job)
  <2>1. CASE T.ttl = Forever
    <3>1. T.minute <= MaxTime /\ MaxTime \in Nat
      BY <1>4, <2>1, TimeAssumption DEF BeginMinute, T
    <3>2. m <= MaxTime \div Minute
      BY <1>4, <3>1, DivisionGrows
    <3>3. MaxTime \div Minute \in Nat
      BY <1>4, <3>1, DivisionOfNat
    <3>4. LastMinute(T.job) = MaxTime \div Minute
      BY <1>1, <2>1 DEF TxInv, CountInv, LastMinute
    <3> HIDE DEF m
    <3> QED
      BY <1>4, <3>2, <3>3, <3>4
  <2>2. CASE T.ttl # Forever
    <3>1. /\ T.ttl \in Nat /\ T.job.ttl \in Nat /\ T.ttl <= T.job.ttl
          /\ T.minute = (T.job.ttl - T.ttl) * Minute
      BY <1>1, <1>3, <1>5, <2>2 DEF TxInv, CountInv
    <3>2. T.job.ttl - T.ttl \in 0 .. T.job.ttl
      BY <3>1
    <3>3. m = T.job.ttl - T.ttl
      BY <1>4, <3>1, <3>2, MultipleDivided
    <3>4. LastMinute(T.job) = T.job.ttl
      BY <1>1, <2>2 DEF TxInv, CountInv, LastMinute
    <3> HIDE DEF m
    <3> QED
      BY <3>2, <3>3, <3>4
  <2> QED
    BY <2>1, <2>2
<1> HIDE DEF m, left
<1>7. new \in MainState
  <2>1. m + T.job.offset \in Int /\ 0 \in 0 .. SecondsPerMinute /\ "second" \in Place
    BY <1>3, <1>4, TimeAssumption DEF Place
  <2> QED
    BY <1>1, <1>5, <2>1 DEF MainState
<1> HIDE DEF new
<1>8. T' = new /\ TxTypeOK' /\ DriverInv' /\ UNCHANGED vars
  BY <1>2, <1>7, SoftwareStep
<1>9. /\ T'.at = "second" /\ T'.job = T.job /\ T'.minute = T.minute
      /\ T'.ttl = left /\ T'.prepared = m + T.job.offset
  BY <1>1, <1>8 DEF new, MainState
<1>10. InNoCall
  BY <1>1, CallReturned
<1>11. CallInv'
  BY <1>1, <1>8, <1>9, <1>10, RegistersStay
  DEF TxInv, CallInv, BeforeStart, InAMinute, AtASecond, InNoCall
<1>12. CountInv'
  <2>1. CASE T.ttl = Forever
    BY <1>1, <1>9, <2>1 DEF TxInv, CountInv, left, InAMinute, AtASecond
  <2>2. CASE T.ttl # Forever
    <3>1. T.ttl \in Nat \ {0} /\ left = T.ttl - 1 /\ left # Forever
      BY <1>1, <1>5, <2>2 DEF left, Forever
    <3>2. /\ T.job.ttl # Forever /\ T.job.ttl \in Nat /\ T.ttl <= T.job.ttl
          /\ T.minute = (T.job.ttl - T.ttl) * Minute
      BY <1>1, <1>3, <2>2 DEF TxInv, CountInv
    <3>3. left < T.job.ttl /\ T.job.ttl - left - 1 = T.job.ttl - T.ttl
      BY <3>1, <3>2
    <3> QED
      BY <1>9, <3>1, <3>2, <3>3 DEF CountInv, InAMinute, AtASecond
  <2> QED
    BY <2>1, <2>2
<1>13. PatternInv'
  BY <1>6, <1>9 DEF PatternInv, InAMinute, AtASecond
<1> QED
  BY <1>8, <1>11, <1>12, <1>13 DEF TxInv

-----------------------------------------------------------------------------
(* Within a minute.                                                        *)
LEMMA PatternType ==
  ASSUME TxInv, T.at \in InAMinute, T.second \in 0 .. SecondsPerMinute - 1
  PROVE  /\ Pattern(Driver) \in Seq([power : Power, ticks : Nat])
         /\ Len(Pattern(Driver)) \in Nat \ {0}
<1>1. T \in MainState /\ T.job \in Job
  BY MainStateOfDriver DEF MainState
<1>2. PICK m \in 0 .. LastMinute(T.job) : T.prepared = m + T.job.offset
  BY DEF TxInv, PatternInv
<1>3. Pattern(Driver) = Modulation(T.job.source, m + T.job.offset, T.second)
  BY <1>2 DEF Pattern, T
<1>4. /\ Pattern(Driver) \in Seq([power : Power, ticks : Nat])
      /\ Pattern(Driver) # <<>>
  BY <1>1, <1>3, ModulationAssumption
<1> QED
  BY <1>4

(* No call is under way, and none is begun.                                 *)
LEMMA QuietStep ==
  ASSUME TxInv, UNCHANGED vars, T.at \in InAMinute, InNoCall,
         T'.at \in InAMinute \cup {"minute"}, T'.job = T.job
  PROVE  CallInv'
<1>1. ~T.job.dry => Ready
  BY DEF TxInv, CallInv, InAMinute, AtASecond
<1> QED
  BY <1>1, RegistersStay
  DEF TxInv, CallInv, BeforeStart, InAMinute, AtASecond, InNoCall

(* The minute goes on.                                                     *)
LEMMA MinuteGoesOn ==
  ASSUME TxInv, T.at \in InAMinute, T'.at \in InAMinute, T'.job = T.job,
         T'.ttl = T.ttl, T'.minute = T.minute
  PROVE  CountInv'
BY DEF TxInv, CountInv, InAMinute, AtASecond

(* The second goes on.                                                     *)
LEMMA SecondGoesOn ==
  ASSUME TxInv, T.at \in AtASecond, T'.at \in AtASecond, T'.job = T.job,
         T'.prepared = T.prepared, T'.second = T.second,
         T'.moment \in 1 .. Len(Pattern(Driver)),
         T'.at \in {"wait", "asleep", "awake"} => T'.moment = 1
  PROVE  PatternInv'
<1>1. Pattern(Driver)' = Pattern(Driver)
  BY PatternStays
<1> QED
  BY <1>1 DEF TxInv, PatternInv, InAMinute

(* A second is over.                                                       *)
LEMMA SecondIsOver ==
  ASSUME TxInv, T.at \in AtASecond, InNoCall,
         From(Driver, T.at, NextSecond(Driver)), Software
  PROVE  TxInv'
<1> DEFINE new == [T EXCEPT !.at = "second", !.second = T.second + 1]
<1>1. T \in MainState /\ T.second \in 0 .. SecondsPerMinute - 1 /\ T.at # "killed"
  BY MainStateOfDriver DEF TxInv, PatternInv, AtASecond
<1>2. NextSecond(Driver) = new
  BY DEF NextSecond, To, T
<1>3. new \in MainState
  <2>1. T.second + 1 \in 0 .. SecondsPerMinute /\ "second" \in Place
    BY <1>1, TimeAssumption DEF Place
  <2> QED
    BY <1>1, <2>1 DEF MainState
<1> HIDE DEF new
<1>4. T' = new /\ TxTypeOK' /\ DriverInv' /\ UNCHANGED vars
  BY <1>1, <1>2, <1>3, SoftwareStep
<1>5. /\ T'.at = "second" /\ T'.job = T.job /\ T'.prepared = T.prepared
      /\ T'.ttl = T.ttl /\ T'.minute = T.minute
  BY <1>1, <1>4 DEF new, MainState
<1>6. T.at \in InAMinute /\ "second" \in InAMinute /\ "second" \notin AtASecond
  BY DEF InAMinute, AtASecond
<1>7. CallInv'
  BY <1>4, <1>5, <1>6, QuietStep
<1>8. CountInv'
  BY <1>5, <1>6, MinuteGoesOn
<1>9. PatternInv'
  BY <1>5, <1>6 DEF TxInv, PatternInv, AtASecond
<1> QED
  BY <1>4, <1>7, <1>8, <1>9 DEF TxInv

(* A minute is over, or cut short.                                          *)
LEMMA MinuteIsOver ==
  ASSUME TxInv, T.at \in {"second", "awake"},
         From(Driver, T.at, NextMinute(Driver)), Software
  PROVE  TxInv'
<1> DEFINE new == [T EXCEPT !.at = "minute", !.minute = T.minute + Minute]
<1>1. T \in MainState /\ T.minute \in Nat /\ Minute \in Nat /\ T.at # "killed"
  BY MainStateOfDriver, MinuteIsPositive DEF MainState
<1>2. NextMinute(Driver) = new
  BY DEF NextMinute, To, T
<1>3. new \in MainState
  <2>1. T.minute + Minute \in Nat /\ "minute" \in Place
    BY <1>1 DEF Place
  <2> QED
    BY <1>1, <2>1 DEF MainState
<1> HIDE DEF new
<1>4. T' = new /\ TxTypeOK' /\ DriverInv' /\ UNCHANGED vars
  BY <1>1, <1>2, <1>3, SoftwareStep
<1>5. /\ T'.at = "minute" /\ T'.job = T.job
      /\ T'.ttl = T.ttl /\ T'.minute = T.minute + Minute
  BY <1>1, <1>4 DEF new, MainState
<1>6. T.at \in InAMinute /\ "minute" \notin InAMinute /\ "minute" \notin AtASecond
  BY DEF InAMinute, AtASecond
<1>7. InNoCall
  BY <1>6 DEF TxInv, CallInv, InAMinute, AtASecond
<1>8. CallInv'
  BY <1>4, <1>5, <1>6, <1>7, QuietStep
<1>9. CountInv'
  <2>1. CASE T.ttl = Forever
    BY <1>5, <1>6, <2>1 DEF TxInv, CountInv, InAMinute, AtASecond
  <2>2. CASE T.ttl # Forever
    <3>1. /\ T.ttl \in Nat /\ T.ttl < T.job.ttl /\ T.job.ttl # Forever
          /\ T.minute = (T.job.ttl - T.ttl - 1) * Minute
      BY <1>1, <1>6, <2>2 DEF TxInv, CountInv, MainState, InAMinute, AtASecond
    <3>2. T.job.ttl \in Nat
      BY <1>1, <3>1, JobAssumption DEF MainState
    <3>3. T.minute + Minute = (T.job.ttl - T.ttl) * Minute
      BY <1>1, <3>1, <3>2
    <3>4. T.ttl <= T.job.ttl
      BY <3>1, <3>2
    <3> QED
      BY <1>5, <1>6, <2>2, <3>1, <3>3, <3>4 DEF CountInv
  <2> QED
    BY <2>1, <2>2
<1>10. PatternInv'
  BY <1>5, <1>6 DEF PatternInv, AtASecond
<1> QED
  BY <1>4, <1>8, <1>9, <1>10 DEF TxInv

LEMMA EndMinuteKeeps == ASSUME TxInv, EndMinute(Driver) PROVE TxInv'
<1>1. T.at = "second" /\ From(Driver, T.at, NextMinute(Driver)) /\ Software
  BY DEF EndMinute, From, T
<1> QED
  BY <1>1, MinuteIsOver

LEMMA BeginSecondKeeps == ASSUME TxInv, BeginSecond(Driver) PROVE TxInv'
<1> DEFINE w == T.minute + T.second * TicksPerSecond
           new == [T EXCEPT !.at = "wait", !.moment = 1, !.wake = w]
<1>1. /\ T \in MainState /\ T.at = "second" /\ T.minute \in Nat
      /\ T.second \in 0 .. SecondsPerMinute - 1
  BY MainStateOfDriver, TimeAssumption DEF BeginSecond, From, T, MainState
<1>2. w \in Nat
  <2>1. \A a, b \in Nat : a * b \in Nat
    OBVIOUS
  <2>2. T.second * TicksPerSecond \in Nat
    BY <1>1, <2>1, TimeAssumption
  <2> QED
    BY <1>1, <2>2
<1>3. From(Driver, "second", new) /\ Software
  BY DEF BeginSecond, To, T
<1> HIDE DEF w
<1>4. new \in MainState
  <2>1. T \in MainState /\ "wait" \in Place /\ 1 \in Nat \ {0}
    BY <1>1 DEF Place
  <2> QED
    BY <1>2, <2>1 DEF MainState
<1> HIDE DEF new
<1>5. T' = new /\ TxTypeOK' /\ DriverInv' /\ UNCHANGED vars
  BY <1>3, <1>4, SoftwareStep
<1>6. /\ T'.at = "wait" /\ T'.job = T.job /\ T'.prepared = T.prepared
      /\ T'.ttl = T.ttl /\ T'.minute = T.minute
      /\ T'.second = T.second /\ T'.moment = 1
  BY <1>1, <1>5 DEF new, MainState
<1>7. T.at \in InAMinute /\ "wait" \in InAMinute /\ "wait" \in AtASecond
  BY <1>1 DEF InAMinute, AtASecond
<1>8. CallInv'
  <2>1. InNoCall
    BY <1>1 DEF TxInv, CallInv, InAMinute, AtASecond
  <2> QED
    BY <1>5, <1>6, <1>7, <2>1, QuietStep
<1>9. CountInv'
  BY <1>6, <1>7, MinuteGoesOn
<1>10. PatternInv'
  <2>1. Pattern(Driver)' = Pattern(Driver)
    BY <1>6, PatternStays
  <2>2. 1 \in 1 .. Len(Pattern(Driver))
    BY <1>1, <1>7, PatternType
  <2> QED
    BY <1>1, <1>6, <1>7, <2>1, <2>2 DEF TxInv, PatternInv
<1> QED
  BY <1>5, <1>8, <1>9, <1>10 DEF TxInv

LEMMA NoCallInAMinute ==
  ASSUME TxInv, T.at \in (InAMinute \ {"keyed"}) \cup {"stop"}
  PROVE  InNoCall
BY DEF TxInv, CallInv

(* From one place within a second to the next.                              *)
LEMMA StepsOn ==
  ASSUME TxInv, T.at \in AtASecond, InNoCall, NEW next \in AtASecond,
         From(Driver, T.at, To(Driver, next)), Software,
         next \in {"wait", "asleep", "awake"} => T.at \in {"wait", "asleep", "awake"}
  PROVE  TxInv'
<1>1. T.at # "killed" /\ next \in Place /\ T.at \in InAMinute /\ next \in InAMinute
  BY DEF AtASecond, InAMinute, Place
<1>2. /\ T \in MainState /\ T' = [T EXCEPT !.at = next]
      /\ TxTypeOK' /\ DriverInv' /\ UNCHANGED vars
  BY <1>1, MovesOn
<1>3. /\ T'.at = next /\ T'.job = T.job /\ T'.prepared = T.prepared
      /\ T'.ttl = T.ttl /\ T'.minute = T.minute
      /\ T'.second = T.second /\ T'.moment = T.moment
  BY <1>2 DEF MainState
<1>4. CallInv'
  BY <1>1, <1>2, <1>3, QuietStep
<1>5. CountInv'
  BY <1>1, <1>3, MinuteGoesOn
<1>6. PatternInv'
  <2>1. /\ T.moment \in 1 .. Len(Pattern(Driver))
        /\ T.at \in {"wait", "asleep", "awake"} => T.moment = 1
    BY DEF TxInv, PatternInv
  <2> QED
    BY <1>3, <2>1, SecondGoesOn
<1> QED
  BY <1>2, <1>4, <1>5, <1>6 DEF TxInv

LEMMA SleepKeeps == ASSUME TxInv, Sleep(Driver) PROVE TxInv'
<1>1. /\ T.at \in {"wait", "nap"} /\ Software
      /\ From(Driver, T.at, To(Driver, IF T.at = "wait" THEN "asleep" ELSE "napping"))
  BY DEF Sleep, From, T
<1>2. T.at \in AtASecond /\ InNoCall
  BY <1>1, NoCallInAMinute DEF AtASecond, InAMinute
<1>3. CASE T.at = "wait"
  BY <1>1, <1>2, <1>3, StepsOn DEF AtASecond
<1>4. CASE T.at = "nap"
  BY <1>1, <1>2, <1>4, StepsOn DEF AtASecond
<1> QED
  BY <1>1, <1>3, <1>4

LEMMA WakeUpKeeps == ASSUME TxInv, WakeUp(Driver) PROVE TxInv'
<1>1. /\ T.at \in {"asleep", "napping"} /\ Software
      /\ From(Driver, T.at, To(Driver, IF T.at = "asleep" THEN "awake" ELSE "next"))
  BY DEF WakeUp, Sleeping, Woken, From, T
<1>2. T.at \in AtASecond /\ InNoCall
  BY <1>1, NoCallInAMinute DEF AtASecond, InAMinute
<1>3. CASE T.at = "asleep"
  BY <1>1, <1>2, <1>3, StepsOn DEF AtASecond
<1>4. CASE T.at = "napping"
  BY <1>1, <1>2, <1>4, StepsOn DEF AtASecond
<1> QED
  BY <1>1, <1>3, <1>4

LEMMA AtSecondKeeps == ASSUME TxInv, AtSecond(Driver) PROVE TxInv'
<1>1. T.at = "awake" /\ Software
  BY DEF AtSecond, From, T
<1>2. T.at \in AtASecond /\ InNoCall
  BY <1>1, NoCallInAMinute DEF AtASecond, InAMinute
<1>3. CASE T.interrupted
  <2>1. From(Driver, T.at, NextMinute(Driver))
    BY <1>1, <1>3 DEF AtSecond, T
  <2> QED
    BY <1>1, <2>1, MinuteIsOver
<1>4. CASE ~T.interrupted
  <2>1. From(Driver, T.at, To(Driver, "key"))
    BY <1>1, <1>4 DEF AtSecond, T
  <2> QED
    BY <1>1, <1>2, <2>1, StepsOn DEF AtASecond
<1> QED
  BY <1>3, <1>4

(* The level that the loop over a second has come to.                        *)
LEMMA LevelType ==
  ASSUME TxInv, T.at \in AtASecond
  PROVE  /\ Pattern(Driver)[T.moment].power \in Power
         /\ Pattern(Driver)[T.moment].ticks \in Nat
<1>1. /\ T.at \in InAMinute /\ T.second \in 0 .. SecondsPerMinute - 1
      /\ T.moment \in 1 .. Len(Pattern(Driver))
  BY DEF TxInv, PatternInv, InAMinute
<1>2. Pattern(Driver) \in Seq([power : Power, ticks : Nat])
  BY <1>1, PatternType
<1>3. Pattern(Driver)[T.moment] \in [power : Power, ticks : Nat]
  <2>1. \A S : \A seq \in Seq(S) : \A i \in 1 .. Len(seq) : seq[i] \in S
    OBVIOUS
  <2> QED
    BY <1>1, <1>2, <2>1
<1> QED
  BY <1>3

LEMMA KeyCarrierKeeps == ASSUME TxInv, KeyCarrier(Driver) PROVE TxInv'
<1> DEFINE new == [T EXCEPT !.at = "keyed"]
           level == Pattern(Driver)[T.moment].power
<1>1. /\ T \in MainState /\ T.at = "key" /\ From(Driver, "key", To(Driver, "keyed"))
      /\ UNCHANGED timer /\ To(Driver, "keyed") = new
  BY MainStateOfDriver DEF KeyCarrier, From, To, T
<1>2. T.at \in AtASecond /\ T.at \in InAMinute /\ "keyed" \in AtASecond /\ InNoCall
  BY <1>1, NoCallInAMinute DEF AtASecond, InAMinute
<1>3. CASE T.job.dry
  <2>1. Software
    BY <1>1, <1>3 DEF KeyCarrier, Software, T
  <2> QED
    BY <1>1, <1>2, <2>1, StepsOn
<1>4. CASE ~T.job.dry
  <2>1. SetTxPower(Driver, level) /\ level \in Power
    BY <1>2, <1>4, LevelType DEF KeyCarrier, T
  <2>2. Ready
    BY <1>1, <1>4 DEF TxInv, CallInv, InAMinute, AtASecond
  <2>3. Next
    BY <2>1, <2>2, DriverAssumption DEF Next, Call, Ready
  <2>4. new \in MainState
    BY <1>1 DEF MainState, Place
  <2>5. T' = new /\ TxTypeOK' /\ DriverInv'
    BY <1>1, <2>3, <2>4, MainStep
  <2>6. /\ T'.at = "keyed" /\ T'.job = T.job /\ T'.prepared = T.prepared
        /\ T'.ttl = T.ttl /\ T'.minute = T.minute
        /\ T'.second = T.second /\ T'.moment = T.moment
    BY <1>1, <2>5 DEF MainState
  <2>7. D_op' = level /\ Ready'
    <3>1. IInv
      BY <1>1 DEF TxInv, DriverInv
    <3> QED
      BY <2>1, <2>2, <3>1, DriverAssumption
      DEF SetTxPower, Enter, D_op, Ready, IInv, TypeOK
  <2>8. CallInv'
    BY <1>4, <2>1, <2>6, <2>7 DEF CallInv, BeforeStart, InAMinute, AtASecond
  <2>9. CountInv'
    BY <1>2, <2>6, MinuteGoesOn DEF InAMinute
  <2>10. PatternInv'
    <3>1. T.moment \in 1 .. Len(Pattern(Driver))
      BY <1>2 DEF TxInv, PatternInv
    <3> QED
      BY <1>2, <2>6, <3>1, SecondGoesOn
  <2> QED
    BY <2>5, <2>8, <2>9, <2>10 DEF TxInv
<1> QED
  BY <1>3, <1>4

LEMMA AfterKeyingKeeps == ASSUME TxInv, AfterKeying(Driver) PROVE TxInv'
<1> DEFINE duration == Pattern(Driver)[T.moment].ticks
<1>1. /\ T \in MainState /\ T.at = "keyed" /\ pc[Driver] = "idle" /\ Software
  BY MainStateOfDriver DEF AfterKeying, From, T
<1>2. T.at \in AtASecond /\ T.at \in InAMinute /\ InNoCall
  BY <1>1, CallReturned DEF AtASecond, InAMinute
<1>3. duration \in Nat
  BY <1>2, LevelType
<1>4. CASE duration = 0
  <2>1. From(Driver, T.at, NextSecond(Driver))
    BY <1>1, <1>4 DEF AfterKeying, T
  <2> QED
    BY <1>1, <1>2, <2>1, SecondIsOver
<1>5. CASE duration # 0
  <2> DEFINE new == [T EXCEPT !.at = "nap", !.wake = T.wake + duration]
  <2>1. From(Driver, "keyed", new)
    BY <1>5 DEF AfterKeying, To, T
  <2> HIDE DEF duration
  <2>2. new \in MainState
    <3>1. T.wake + duration \in Nat /\ "nap" \in Place
      BY <1>1, <1>3 DEF MainState, Place
    <3> QED
      BY <1>1, <3>1 DEF MainState
  <2> HIDE DEF new
  <2>3. T' = new /\ TxTypeOK' /\ DriverInv' /\ UNCHANGED vars
    BY <1>1, <2>1, <2>2, SoftwareStep
  <2>4. /\ T'.at = "nap" /\ T'.job = T.job /\ T'.prepared = T.prepared
        /\ T'.ttl = T.ttl /\ T'.minute = T.minute
        /\ T'.second = T.second /\ T'.moment = T.moment
    BY <1>1, <2>3 DEF new, MainState
  <2>5. "nap" \in AtASecond /\ "nap" \in InAMinute
    BY DEF AtASecond, InAMinute
  <2>6. CallInv'
    BY <1>2, <2>3, <2>4, <2>5, QuietStep
  <2>7. CountInv'
    BY <1>2, <2>4, <2>5, MinuteGoesOn
  <2>8. PatternInv'
    <3>1. T.moment \in 1 .. Len(Pattern(Driver))
      BY <1>2 DEF TxInv, PatternInv
    <3> QED
      BY <1>2, <2>4, <2>5, <3>1, SecondGoesOn
  <2> QED
    BY <2>3, <2>6, <2>7, <2>8 DEF TxInv
<1> QED
  BY <1>4, <1>5

LEMMA NextMomentKeeps == ASSUME TxInv, NextMoment(Driver) PROVE TxInv'
<1>1. T \in MainState /\ T.at = "next" /\ Software
  BY MainStateOfDriver DEF NextMoment, From, T
<1>2. T.at \in AtASecond /\ T.at \in InAMinute /\ InNoCall
  BY <1>1, NoCallInAMinute DEF AtASecond, InAMinute
<1>3. CASE T.moment >= Len(Pattern(Driver))
  <2>1. From(Driver, T.at, NextSecond(Driver))
    <3>1. T.moment \in Nat /\ Len(Pattern(Driver)) \in Nat
      BY <1>1, <1>2, PatternType DEF TxInv, PatternInv, MainState
    <3>2. ~(T.moment < Len(Pattern(Driver)))
      BY <1>3, <3>1
    <3> QED
      BY <1>1, <3>2 DEF NextMoment, T
  <2> QED
    BY <1>1, <1>2, <2>1, SecondIsOver
<1>4. CASE T.moment < Len(Pattern(Driver))
  <2> DEFINE new == [T EXCEPT !.at = "key", !.moment = T.moment + 1]
  <2>1. From(Driver, "next", new)
    BY <1>4 DEF NextMoment, To, T
  <2>2. T.moment \in Nat /\ Len(Pattern(Driver)) \in Nat
    BY <1>1, <1>2, PatternType DEF TxInv, PatternInv, MainState
  <2>3. new \in MainState
    <3>1. T.moment + 1 \in Nat \ {0} /\ "key" \in Place
      BY <2>2 DEF Place
    <3> QED
      BY <1>1, <3>1 DEF MainState
  <2> HIDE DEF new
  <2>4. T' = new /\ TxTypeOK' /\ DriverInv' /\ UNCHANGED vars
    BY <1>1, <2>1, <2>3, SoftwareStep
  <2>5. /\ T'.at = "key" /\ T'.job = T.job /\ T'.prepared = T.prepared
        /\ T'.ttl = T.ttl /\ T'.minute = T.minute
        /\ T'.second = T.second /\ T'.moment = T.moment + 1
    BY <1>1, <2>4 DEF new, MainState
  <2>6. "key" \in AtASecond /\ "key" \in InAMinute
    BY DEF AtASecond, InAMinute
  <2>7. CallInv'
    BY <1>2, <2>4, <2>5, <2>6, QuietStep
  <2>8. CountInv'
    BY <1>2, <2>5, <2>6, MinuteGoesOn
  <2>9. PatternInv'
    <3>1. T.moment + 1 \in 1 .. Len(Pattern(Driver))
      BY <1>4, <2>2
    <3> QED
      BY <1>2, <2>5, <2>6, <3>1, SecondGoesOn
  <2> QED
    BY <2>4, <2>7, <2>8, <2>9 DEF TxInv
<1> QED
  <2>1. T.moment \in Nat /\ Len(Pattern(Driver)) \in Nat
    BY <1>1, <1>2, PatternType DEF TxInv, PatternInv, MainState
  <2> QED
    BY <1>3, <1>4, <2>1

-----------------------------------------------------------------------------
(* The end.                                                                *)
LEMMA StopCarrierKeeps == ASSUME TxInv, StopCarrier(Driver) PROVE TxInv'
<1> DEFINE new == [T EXCEPT !.at = "exit"]
<1>1. /\ T \in MainState /\ T.at = "stop" /\ From(Driver, "stop", To(Driver, "exit"))
      /\ UNCHANGED timer /\ To(Driver, "exit") = new
  BY MainStateOfDriver DEF StopCarrier, From, To, T
<1>2. InNoCall
  BY <1>1, NoCallInAMinute
<1>3. new \in MainState
  BY <1>1 DEF MainState, Place
<1>4. [Next]_vars /\ (~T.job.dry => StopClock(Driver) /\ Ready)
  <2>1. CASE T.job.dry
    BY <2>1 DEF StopCarrier, T
  <2>2. CASE ~T.job.dry
    <3>1. StopClock(Driver) /\ Ready
      BY <1>1, <2>2 DEF StopCarrier, TxInv, CallInv, T
    <3> QED
      BY <3>1, DriverAssumption DEF Next, Call, Ready
  <2> QED
    BY <2>1, <2>2
<1>5. T' = new /\ TxTypeOK' /\ DriverInv'
  BY <1>1, <1>3, <1>4, MainStep
<1>6. T'.at = "exit" /\ T'.job = T.job /\ T'.ttl = T.ttl
  BY <1>1, <1>5 DEF MainState
<1>7. CallInv'
  <2>1. CASE T.job.dry
    <3>1. UNCHANGED vars
      BY <2>1 DEF StopCarrier, T
    <3> QED
      BY <1>6, <2>1, <3>1, RegistersStay DEF TxInv, CallInv, BeforeStart
  <2>2. CASE ~T.job.dry
    <3>1. D_op' = "stop"
      BY <1>1, <1>4, <2>2, DriverAssumption
      DEF StopClock, Enter, D_op, TxInv, DriverInv, IInv, TypeOK
    <3> QED
      BY <1>6, <2>2, <3>1 DEF CallInv, BeforeStart, InAMinute, AtASecond
  <2> QED
    BY <2>1, <2>2
<1>8. CountInv' /\ PatternInv'
  BY <1>1, <1>6 DEF TxInv, CountInv, PatternInv, InAMinute, AtASecond
<1> QED
  BY <1>5, <1>7, <1>8 DEF TxInv

LEMMA ExitKeeps == ASSUME TxInv, Exit(Driver) PROVE TxInv'
<1>1. /\ T \in MainState /\ T.at = "exit" /\ T' = [T EXCEPT !.at = "done"]
      /\ TxTypeOK' /\ DriverInv' /\ UNCHANGED vars
  BY MovesOn DEF Exit, Place, Ended
<1>2. T'.at = "done" /\ T'.job = T.job /\ T'.ttl = T.ttl
  BY <1>1 DEF MainState
<1>3. InNoCall
  BY <1>1, CallReturned DEF Exit
<1>4. CallInv'
  BY <1>1, <1>2, <1>3, RegistersStay
  DEF TxInv, CallInv, BeforeStart, InAMinute, AtASecond, InNoCall
<1>5. CountInv' /\ PatternInv'
  BY <1>1, <1>2 DEF TxInv, CountInv, PatternInv, InAMinute, AtASecond
<1> QED
  BY <1>1, <1>4, <1>5 DEF TxInv

(* What a signal does to main().                                            *)
LEMMA SigtermStep ==
  ASSUME TxInv, Sigterm(Driver)
  PROVE  LET next == IF T.at = "init" THEN "killed"
                     ELSE IF T.at = "asleep" THEN "awake"
                     ELSE IF T.at = "napping" THEN "next" ELSE T.at
             flag == IF T.at = "init" THEN T.interrupted ELSE TRUE
         IN  /\ T \in MainState /\ T.at \notin Ended \cup {"off"} /\ Software
             /\ From(Driver, T.at, [T EXCEPT !.at = next, !.interrupted = flag])
<1>1. /\ T \in MainState /\ tx \in [Proc -> MainState]
      /\ T.at \notin Ended \cup {"off"} /\ Software
  BY MainStateOfDriver DEF Sigterm, Live, T, TxInv, TxTypeOK, MainState, Software
<1>2. CASE T.at = "init"
  <2>1. tx' = [tx EXCEPT ![Driver] = To(Driver, "killed")]
    BY <1>1, <1>2, DriverAssumption DEF Sigterm, T
  <2>2. To(Driver, "killed") = [T EXCEPT !.at = "killed", !.interrupted = T.interrupted]
    BY <1>1, <1>2 DEF To, T, MainState
  <2> QED
    BY <1>1, <1>2, <2>1, <2>2 DEF From, T
<1>3. CASE T.at \in {"asleep", "napping"}
  <2>1. tx' = [tx EXCEPT ![Driver] = [Woken(Driver) EXCEPT !.interrupted = TRUE]]
    BY <1>1, <1>3, DriverAssumption DEF Sigterm, Sleeping, T
  <2>2. [Woken(Driver) EXCEPT !.interrupted = TRUE]
          = [T EXCEPT !.at = IF T.at = "asleep" THEN "awake" ELSE "next", !.interrupted = TRUE]
    BY <1>1, <1>3 DEF Woken, To, T, MainState
  <2> QED
    BY <1>1, <1>3, <2>1, <2>2 DEF From, T
<1>4. CASE T.at \notin {"init", "asleep", "napping"}
  <2>1. tx' = [tx EXCEPT ![Driver] = [T EXCEPT !.interrupted = TRUE]]
    BY <1>1, <1>4, DriverAssumption DEF Sigterm, Sleeping, T
  <2>2. [T EXCEPT !.interrupted = TRUE] = [T EXCEPT !.at = T.at, !.interrupted = TRUE]
    BY <1>1, <1>4 DEF MainState
  <2> QED
    BY <1>1, <1>4, <2>1, <2>2 DEF From, T
<1> QED
  BY <1>1, <1>2, <1>3, <1>4

(* A signal sets the flag, and ends a sleep or, before the handler is there,   *)
(* the process.                                                            *)
LEMMA SigtermKeeps == ASSUME TxInv, Sigterm(Driver) PROVE TxInv'
<1> DEFINE next == IF T.at = "init" THEN "killed"
                   ELSE IF T.at = "asleep" THEN "awake"
                   ELSE IF T.at = "napping" THEN "next" ELSE T.at
           flag == IF T.at = "init" THEN T.interrupted ELSE TRUE
           new == [T EXCEPT !.at = next, !.interrupted = flag]
<1>1. /\ T \in MainState /\ T.at \notin Ended \cup {"off"} /\ Software
      /\ UNCHANGED vars /\ From(Driver, T.at, new)
  BY SigtermStep DEF Software
<1>2. next \in Place /\ flag \in BOOLEAN
  BY <1>1 DEF Place, Ended, MainState
<1> HIDE DEF next, flag
<1>5. new \in MainState
  BY <1>1, <1>2 DEF MainState
<1> HIDE DEF new
<1>6. T' = new /\ TxTypeOK' /\ DriverInv'
  BY <1>1, <1>5, SoftwareStep DEF Ended
<1>7. /\ T'.at = next /\ T'.job = T.job /\ T'.prepared = T.prepared
      /\ T'.ttl = T.ttl /\ T'.minute = T.minute
      /\ T'.second = T.second /\ T'.moment = T.moment
  BY <1>1, <1>6 DEF new, MainState
<1>8. CASE T.at = "init"
  <2>1. next = "killed"
    BY <1>8 DEF next
  <2> QED
    BY <1>1, <1>6, <1>7, <1>8, <2>1, RegistersStay
    DEF TxInv, CallInv, CountInv, PatternInv, BeforeStart, InAMinute, AtASecond
<1>9. CASE T.at \in {"asleep", "napping"}
  <2>1. T.at \in AtASecond /\ T.at \in InAMinute /\ next \in AtASecond /\ next \in InAMinute
    BY <1>9 DEF next, AtASecond, InAMinute
  <2>2. InNoCall
    BY <1>9, <2>1, NoCallInAMinute
  <2>3. CallInv' /\ CountInv'
    BY <1>1, <1>7, <2>1, <2>2, QuietStep, MinuteGoesOn
  <2>4. PatternInv'
    <3>1. /\ T.moment \in 1 .. Len(Pattern(Driver))
          /\ T.at = "asleep" => T.moment = 1
          /\ next = "awake" => T.at = "asleep"
          /\ next \notin {"wait", "asleep"}
      BY <1>9, <2>1 DEF TxInv, PatternInv, next
    <3> QED
      BY <1>7, <2>1, <3>1, SecondGoesOn
  <2> QED
    BY <1>6, <2>3, <2>4 DEF TxInv
<1>10. CASE T.at \notin {"init", "asleep", "napping"}
  <2>1. next = T.at
    BY <1>10 DEF next
  <2>2. CallInv' /\ CountInv'
    BY <1>1, <1>7, <2>1, RegistersStay DEF TxInv, CallInv, CountInv
  <2>3. PatternInv'
    <3>1. Pattern(Driver)' = Pattern(Driver)
      BY <1>7, PatternStays
    <3> QED
      BY <1>7, <2>1, <3>1 DEF TxInv, PatternInv
  <2> QED
    BY <1>6, <2>2, <2>3 DEF TxInv
<1> QED
  BY <1>8, <1>9, <1>10

LEMMA SigkillKeeps == ASSUME TxInv, Sigkill(Driver) PROVE TxInv'
<1> DEFINE new == [T EXCEPT !.at = "killed"]
<1>1. T \in MainState /\ tx \in [Proc -> MainState] /\ T.at # "off"
  BY MainStateOfDriver DEF Sigkill, Live, T, TxInv, TxTypeOK, MainState
<1>2. tx' = [tx EXCEPT ![Driver] = new] /\ new \in MainState
  BY <1>1 DEF Sigkill, To, T, MainState, Place, Ended
<1> HIDE DEF new
<1>3. T' = new /\ tx' \in [Proc -> MainState]
  BY <1>1, <1>2, DriverAssumption DEF T
<1>4. /\ T'.at = "killed" /\ T'.job = T.job /\ T'.ttl = T.ttl
  BY <1>1, <1>3 DEF new, MainState
<1>5. TypeOK' /\ InNoCall'
  BY DriverAssumption
  DEF Sigkill, TxInv, TxTypeOK, TypeOK, Label, regs, InNoCall, D_op, D_pc
<1>6. TxTypeOK'
  BY <1>3, <1>5 DEF Sigkill, TxInv, TxTypeOK, MainState, timer
<1>7. CallInv'
  <2>1. settled' = settled /\ (Resting' <=> Resting)
    BY DEF Sigkill, Resting, Enabled, regs
  <2> QED
    BY <1>4, <1>5, <2>1 DEF TxInv, CallInv, BeforeStart, InAMinute, AtASecond
<1>8. DriverInv' /\ CountInv' /\ PatternInv'
  BY <1>1, <1>4 DEF TxInv, DriverInv, CountInv, PatternInv, InAMinute, AtASecond
<1> QED
  BY <1>6, <1>7, <1>8 DEF TxInv

-----------------------------------------------------------------------------
(* What is not main().                                                     *)
LEMMA TxStays ==
  ASSUME TxInv, UNCHANGED tx
  PROVE  T' = T /\ CountInv' /\ PatternInv'
BY DEF TxInv, CountInv, PatternInv, T, Pattern

(* A register access is one of a call, and the last one has done it.          *)
LEMMA Accessed ==
  ASSUME IInv, RegisterAccess(Driver)
  PROVE  /\ D_op # "none"
         /\ \/ D_op' = D_op /\ settled' = settled
            \/ D_op # "stop" /\ InNoCall' /\ Ready'
            \/ D_op = "stop" /\ Stopped'
<1> USE DriverAssumption DEF IInv, TypeOK, D_op, D_pc
<1>1. CASE Unmux(Driver)
  BY <1>1 DEF Unmux, Goto, Return, OpMatchesPc, ClockSequence, InNoCall, Ready, Stopped, INPUT
<1>2. CASE Mux(Driver)
  BY <1>2 DEF Mux, Return, OpMatchesPc, InNoCall, Ready, Power
<1>3. ASSUME NEW label \in Label \ {"idle"}, NEW next, Goto(Driver, label, next)
      PROVE  D_op # "none" /\ D_op' = D_op /\ settled' = settled
  BY <1>3 DEF Goto, OpMatchesPc
<1>4. CASE Kill(Driver) \/ AwaitIdle(Driver) \/ SetDivider(Driver) \/ SetControl(Driver)
  BY <1>3, <1>4 DEF Kill, AwaitIdle, SetDivider, SetControl, Label
<1>5. CASE \/ ReadControl(Driver) \/ Enable(Driver) \/ Float17(Driver) \/ ReadFsel17(Driver)
           \/ Drive17(Driver) \/ Clear17(Driver) \/ ReadFsel4(Driver)
  BY <1>3, <1>5 DEF ReadControl, Enable, Float17, ReadFsel17, Drive17, Clear17, ReadFsel4, Label
<1> QED
  BY <1>1, <1>2, <1>4, <1>5 DEF RegisterAccess

LEMMA HardwareKeeps == ASSUME TxInv, Hardware(Driver) PROVE TxInv'
<1>1. RegisterAccess(Driver) /\ T' = T /\ UNCHANGED tx /\ UNCHANGED timer
  BY DEF Hardware, T
<1>2. pc[Driver] # "idle"
  BY <1>1 DEF RegisterAccess, Kill, AwaitIdle, Unmux, SetDivider, SetControl, ReadControl,
     Enable, Float17, ReadFsel17, Drive17, Clear17, ReadFsel4, Mux, Goto, Return
<1>3. T.at # "killed" /\ T.at \notin BeforeStart /\ ~T.job.dry
  BY <1>2 DEF TxInv, CallInv, InNoCall, D_pc
<1>4. IInv
  BY <1>3 DEF TxInv, DriverInv
<1>5. IInv'
  BY <1>1, <1>4, NextIInv, DriverAssumption DEF Next
<1>6. TxTypeOK' /\ DriverInv'
  BY <1>1, <1>5 DEF TxInv, TxTypeOK, DriverInv, IInv, timer
<1>7. T.at \in {"minute", "keyed", "exit"}
  <2>1. T.at \in Place
    BY MainStateOfDriver DEF MainState
  <2> QED
    BY <1>2, <1>3, <2>1
    DEF TxInv, CallInv, BeforeStart, InAMinute, AtASecond, InNoCall, Stopped, D_pc, Place, Ended
<1>8. /\ D_op # "none"
      /\ \/ D_op' = D_op /\ settled' = settled
         \/ D_op # "stop" /\ InNoCall' /\ Ready'
         \/ D_op = "stop" /\ Stopped'
  BY <1>1, <1>4, Accessed
<1>9. CallInv'
  <2>1. CASE T.at = "minute"
    <3>1. D_op = "start"
      BY <1>3, <1>8, <2>1 DEF TxInv, CallInv, InNoCall
    <3> QED
      BY <1>1, <1>3, <1>8, <2>1, <3>1 DEF CallInv, InAMinute, AtASecond
  <2>2. CASE T.at = "keyed"
    <3>1. D_op \in Power /\ Ready
      BY <1>3, <1>8, <2>2 DEF TxInv, CallInv, InNoCall
    <3>2. (InNoCall' \/ D_op' \in Power) /\ Ready'
      BY <1>8, <3>1 DEF Power, Ready
    <3> QED
      BY <1>1, <1>3, <2>2, <3>2 DEF CallInv, InAMinute, AtASecond
  <2>3. CASE T.at = "exit"
    <3>1. D_op = "stop"
      BY <1>3, <1>8, <2>3 DEF TxInv, CallInv, Stopped, InNoCall
    <3> QED
      BY <1>1, <1>3, <1>8, <2>3, <3>1 DEF CallInv, InAMinute, AtASecond
  <2> QED
    BY <1>7, <2>1, <2>2, <2>3
<1> QED
  BY <1>1, <1>6, <1>9, TxStays DEF TxInv

(* The generator at rest stays at rest.                                     *)
LEMMA GeneratorKeeps == ASSUME TxInv, GeneratorStep PROVE TxInv'
<1>1. Generator /\ UNCHANGED tx /\ UNCHANGED timer /\ T' = T
  BY DEF GeneratorStep, T
<1>2. /\ UNCHANGED <<ctl, div, fsel4, fsel17, latch17, cpu>>
      /\ busy' \in BOOLEAN /\ ~Resting
      /\ ctl = {"KILL"} => busy
  BY <1>1 DEF Generator, GeneratorStops, GeneratorStarts, Resting, Enabled,
     TxInv, TxTypeOK, TypeOK
<1>3. TypeOK'
  BY <1>2 DEF TxInv, TxTypeOK, TypeOK, cpu
<1>4. TxTypeOK'
  BY <1>1, <1>3 DEF TxInv, TxTypeOK, timer
<1>5. DriverInv'
  BY <1>1, NextIInv DEF TxInv, DriverInv, Next
<1>6. CallInv'
  <2>1. T.at \notin BeforeStart /\ ~T.job.dry /\ ~Stopped
    BY <1>2 DEF TxInv, CallInv, Stopped
  <2>2. D_op' = D_op /\ (InNoCall' <=> InNoCall) /\ (Ready' <=> Ready)
    BY <1>2 DEF cpu, InNoCall, Ready, D_op, D_pc
  <2> QED
    BY <1>1, <2>1, <2>2 DEF TxInv, CallInv
<1> QED
  BY <1>1, <1>4, <1>5, <1>6, TxStays DEF TxInv

LEMMA ClockKeeps ==
  ASSUME TxInv, Tick \/ StepClock \/ UNCHANGED all
  PROVE  TxInv'
<1>1. UNCHANGED vars /\ UNCHANGED tx /\ T' = T
  BY DEF Tick, StepClock, all, T
<1>2. clock' \in 0 .. MaxTime /\ stepped' \in 0 .. MaxClockSteps
  BY TimeAssumption DEF Tick, StepClock, all, timer, TxInv, TxTypeOK
<1>3. overtime' \in [Proc -> Nat]
  BY DEF Tick, StepClock, all, timer, TxInv, TxTypeOK
<1>4. TypeOK'
  BY <1>1 DEF TxInv, TxTypeOK, TypeOK, vars, regs, cpu
<1>5. TxTypeOK'
  BY <1>1, <1>2, <1>3, <1>4 DEF TxInv, TxTypeOK
<1>6. DriverInv'
  BY <1>1, NextIInv DEF TxInv, DriverInv
<1>7. CallInv'
  BY <1>1, RegistersStay DEF TxInv, CallInv
<1> QED
  BY <1>1, <1>5, <1>6, <1>7, TxStays DEF TxInv

(* The state before the launch, at whatever time.                           *)
BeforeLaunch ==
  /\ Init
  /\ clock \in 0 .. MaxTime /\ stepped = 0
  /\ tx \in [Proc -> {[at |-> "off", job |-> j, now |-> 0, minute |-> 0,
                       ttl |-> 0, second |-> 0, prepared |-> 0, moment |-> 1,
                       wake |-> 0, interrupted |-> FALSE] : j \in Job}]
  /\ overtime = [p \in Proc |-> 0]

LEMMA TxInitLaunches == TxInit => BeforeLaunch
BY TimeAssumption DEF TxInit, BeforeLaunch

LEMMA LaunchInv == BeforeLaunch => TxInv
<1> SUFFICES ASSUME BeforeLaunch PROVE TxInv
  OBVIOUS
<1>1. IInv /\ InNoCall /\ settled[Driver] = "off" /\ Resting
  <2>1. Init
    BY DEF BeforeLaunch
  <2>2. busy = ("ENAB" \in ctl /\ "KILL" \notin ctl)
    BY <2>1, LeftBehindAssumption DEF Init
  <2> QED
    BY <2>1, <2>2, InitIInv, DriverAssumption
    DEF Init, InNoCall, D_op, D_pc, Resting, Enabled
<1>2. PICK job \in Job :
        T = [at |-> "off", job |-> job, now |-> 0, minute |-> 0,
             ttl |-> 0, second |-> 0, prepared |-> 0, moment |-> 1,
             wake |-> 0, interrupted |-> FALSE]
  BY DriverAssumption DEF BeforeLaunch, T
<1>3. tx \in [Proc -> MainState]
  <2> DEFINE atLaunch(j) == [at |-> "off", job |-> j, now |-> 0, minute |-> 0,
                             ttl |-> 0, second |-> 0, prepared |-> 0, moment |-> 1,
                             wake |-> 0, interrupted |-> FALSE]
  <2>1. ASSUME NEW j \in Job PROVE atLaunch(j) \in MainState
    <3>1. 0 \in 0 .. SecondsPerMinute /\ 1 \in Nat \ {0} /\ "off" \in Place
      BY TimeAssumption DEF Place
    <3> QED
      BY <3>1 DEF MainState
  <2>2. tx \in [Proc -> {atLaunch(j) : j \in Job}]
    BY DEF BeforeLaunch
  <2> HIDE DEF atLaunch
  <2> QED
    BY <2>1, <2>2
<1>4. TxTypeOK
  <2>1. /\ clock \in 0 .. MaxTime /\ stepped \in 0 .. MaxClockSteps
        /\ overtime \in [Proc -> Nat]
    BY TimeAssumption DEF BeforeLaunch
  <2> QED
    BY <1>1, <1>3, <2>1 DEF TxTypeOK, MainState, IInv
<1>5. T.at = "off"
  BY <1>2
<1> QED
  BY <1>1, <1>4, <1>5
  DEF TxInv, DriverInv, CallInv, CountInv, PatternInv, BeforeStart, InAMinute, AtASecond

LEMMA TxNextInv == TxInv /\ [TxNext]_all => TxInv'
<1> SUFFICES ASSUME TxInv, [TxNext]_all PROVE TxInv'
  OBVIOUS
<1>1. CASE Main(Driver)
  BY <1>1, BeginningKeeps, StartCarrierKeeps, BeginMinuteKeeps, LeaveLoopKeeps,
     BeginSecondKeeps, EndMinuteKeeps, SleepKeeps, WakeUpKeeps, AtSecondKeeps,
     KeyCarrierKeeps, AfterKeyingKeeps, NextMomentKeeps, StopCarrierKeeps, ExitKeeps
  DEF Main
<1>2. CASE \/ Launch(Driver) \/ Hardware(Driver) \/ Sigterm(Driver) \/ Sigkill(Driver)
  BY <1>2, LaunchKeeps, HardwareKeeps, SigtermKeeps, SigkillKeeps
<1>3. CASE GeneratorStep \/ Tick \/ StepClock \/ UNCHANGED all
  BY <1>3, GeneratorKeeps, ClockKeeps
<1> QED
  BY <1>1, <1>2, <1>3, DriverAssumption DEF TxNext

LEMMA AlwaysTxInv == TxSpec => []TxInv
<1>1. TxInit => TxInv
  BY TxInitLaunches, LaunchInv
<1> QED
  BY <1>1, TxNextInv, PTL DEF TxSpec

-----------------------------------------------------------------------------
(***************************************************************************)
(* No variable of main() leaves its range, however it is interrupted: the     *)
(* second counts to 60 and no further, ttl is not decremented below 0         *)
(* (txtempus.cc:218-245).                                                  *)
(***************************************************************************)
THEOREM TxTypeCorrect == TxSpec => []TxTypeOK
<1>1. TxInv => TxTypeOK
  BY DEF TxInv
<1> QED
  BY <1>1, AlwaysTxInv, PTL

(***************************************************************************)
(* A process that has gone through its last line has left the generator        *)
(* killed and GPIO 4 an input, wherever it was interrupted and whatever it      *)
(* found in the registers (txtempus.cc:249, rpi-control.cc:174-183).          *)
(***************************************************************************)
THEOREM NothingLeftOnAir == TxSpec => []NoCarrierAfterExit
<1>1. TxInv => NoCarrierAfterExit
  BY DriverAssumption DEF TxInv, CallInv, Stopped, NoCarrierAfterExit, T
<1> QED
  BY <1>1, AlwaysTxInv, PTL

(***************************************************************************)
(* A dry run touches no register (txtempus.cc:52, 57, 66, 249).               *)
(***************************************************************************)
THEOREM DryRunIsDry == TxSpec => DryRunTouchesNothing
<1>1. ASSUME TxInv, [TxNext]_all, \A p \in Proc : tx[p].job.dry
      PROVE  UNCHANGED regs
  <2>1. T.job.dry /\ InNoCall /\ Resting
    BY <1>1, DriverAssumption DEF TxInv, CallInv, T
  <2>2. ~Hardware(Driver)
    BY <2>1 DEF Hardware, RegisterAccess, Kill, AwaitIdle, Unmux, SetDivider,
       SetControl, ReadControl, Enable, Float17, ReadFsel17, Drive17, Clear17,
       ReadFsel4, Mux, Goto, Return, InNoCall, D_pc
  <2>3. ~GeneratorStep
    BY <1>1, <2>1 DEF GeneratorStep, Generator, GeneratorStops, GeneratorStarts,
       Resting, Enabled, TxInv, TxTypeOK, TypeOK
  <2>4. Main(Driver) => UNCHANGED regs
    BY <2>1 DEF Main, InitFails, InitSucceeds, Crash, StartCarrier, BeginMinute,
       LeaveLoop, BeginSecond, EndMinute, Sleep, WakeUp, AtSecond, KeyCarrier,
       AfterKeying, NextMoment, StopCarrier, Exit, Software, vars, T
  <2>5. Launch(Driver) \/ Sigterm(Driver) \/ Sigkill(Driver) \/ Tick \/ StepClock
          \/ UNCHANGED all => UNCHANGED regs
    BY DEF Launch, Sigterm, Sigkill, Tick, StepClock, Software, all, vars
  <2> QED
    BY <1>1, <2>2, <2>3, <2>4, <2>5, DriverAssumption DEF TxNext
<1>2. TxInv /\ [TxNext]_all =>
        [(\A p \in Proc : tx[p].job.dry) => regs' = regs]_all
  BY <1>1
<1> QED
  BY <1>2, AlwaysTxInv, PTL DEF TxSpec, DryRunTouchesNothing

-----------------------------------------------------------------------------
(* The inductive invariant of a process that transmits.                     *)

(* When the second of the loop begins, and the level the loop has come to.   *)
Start == T.minute + T.second * TicksPerSecond

LevelAt(i) == Start + Begins(Pattern(Driver), i)

(* The beginning of the second that comes next, or that is waited for.       *)
Due == IF T.at \in {"minute", "stop"} THEN T.minute ELSE Start

(* What a source sends at a time of the wall clock.                          *)
Sent(j, t) == Modulation(j.source, (t \div Minute) + j.offset,
                         (t % Minute) \div TicksPerSecond)

Proper(pattern) ==
  /\ pattern \in Seq([power : Power, ticks : Nat]) /\ pattern # <<>>
  /\ FitsSecond(pattern, TicksPerSecond)

(* The level that the second before time t ends with, if there was one.       *)
EndsWith(j, t, level) ==
  IF t = 0 THEN level \in {"off", "carrier"}
  ELSE Proper(Sent(j, t - 1)) /\ level = Sent(j, t - 1)[Len(Sent(j, t - 1))].power

(* That level begins by now.                                                *)
LastBegins(j, t, now) ==
  t > 0 => now >= t - TicksPerSecond + Begins(Sent(j, t - 1), Len(Sent(j, t - 1)))

NeverSetBack == stepped = 0 \/ ClockSteps \subseteq Nat

AtALevel == {"key", "keyed", "nap", "napping", "next"}

(* minute_start is full minutes, the one that has been prepared.             *)
MinuteInv ==
  /\ T.now = 0
  /\ T.at # "off" => T.minute = (T.minute \div Minute) * Minute
  /\ T.at = "init" \/ T.at = "start" \/ T.at = "unmapped" => T.minute = 0
  /\ T.at \in InAMinute => T.prepared = (T.minute \div Minute) + T.job.offset
  /\ T.at = "stop" /\ ~T.interrupted =>
       T.job.ttl \in Nat /\ T.minute = T.job.ttl * Minute

(* target_wait is the beginning of a level: of the next one while it naps.    *)
WakeInv ==
  /\ T.at \in {"wait", "asleep", "awake"} => T.wake = Start
  /\ T.at \in {"key", "keyed"} => T.wake = LevelAt(T.moment)
  /\ T.at \in {"nap", "napping", "next"} =>
       T.moment < Len(Pattern(Driver)) /\ T.wake = LevelAt(T.moment + 1)

(* The carrier and the level that are keyed.                                *)
LevelInv ==
  /\ T.at \in {"minute", "stop"} \cup InAMinute =>
       freq[Driver] = CarrierOf(T.job.source)
  /\ T.at = "keyed" =>
       IF D_op = "none" THEN settled[Driver] = Pattern(Driver)[T.moment].power
       ELSE D_op = Pattern(Driver)[T.moment].power
  /\ T.at \in {"nap", "napping", "next"} =>
       settled[Driver] = Pattern(Driver)[T.moment].power
  /\ T.at = "key" /\ T.moment > 1 =>
       settled[Driver] = Pattern(Driver)[T.moment - 1].power
  /\ \/ T.at \in {"wait", "asleep", "awake"}
     \/ T.at = "key" /\ T.moment = 1
     \/ T.at \in {"minute", "second", "stop"} /\ ~T.interrupted
     => EndsWith(T.job, Due, settled[Driver])

(* Nothing is keyed early.                                                 *)
EarlyInv ==
  ~T.interrupted /\ NeverSetBack =>
    /\ T.at \in {"minute", "second", "stop", "wait", "asleep"} =>
         LastBegins(T.job, Due, clock)
    /\ T.at \in {"awake", "key", "keyed", "next"} => clock >= T.wake
    /\ T.at \in {"nap", "napping"} => clock >= LevelAt(T.moment)

(* A process that runs whenever it can is not late either, once the minute     *)
(* of its launch is over.                                                  *)
LateInv ==
  ~T.interrupted /\ stepped = 0 /\ RealTime =>
    /\ T.at \in {"init", "start", "unmapped"} => clock < Minute
    /\ T.at \in {"minute", "second", "stop"} => clock < Minute \/ clock < Due
    /\ T.at \in AtASecond => clock < Minute \/ clock <= T.wake

(* From its first signal on it has no more than a second to sleep.            *)
OverInv ==
  LET over == overtime[Driver]
  IN  /\ T.at = "off" => ~T.interrupted
      /\ ~T.interrupted \/ (T.job.dry /\ RealTime) => over = 0
      /\ Live(Driver) /\ T.interrupted /\ ~T.job.dry /\ RealTime /\ ClockSteps \subseteq Nat =>
           /\ over <= TicksPerSecond
           /\ T.at \in {"wait", "asleep"} => over + T.wake - clock <= TicksPerSecond
           /\ T.at \in AtALevel =>
                over + LevelAt(Len(Pattern(Driver))) - clock <= TicksPerSecond

TimeInv ==
  MinuteInv /\ WakeInv /\ (~T.job.dry => LevelInv /\ EarlyInv /\ LateInv) /\ OverInv

-----------------------------------------------------------------------------
(* Arithmetic of a second.                                                  *)

(* The sums of the durations before each level of a pattern exist.           *)
LEMMA SumsExist ==
  ASSUME NEW pattern
  PROVE  \A n \in Nat : \E f : SumsOf(pattern, n, f)
<1> DEFINE Exists(n) == \E f : SumsOf(pattern, n, f)
           S == {n \in Nat : Exists(n)}
<1>1. Exists(0)
  <2> DEFINE f == [j \in 1 .. 0 |-> 0]
  <2>1. f = [j \in 1 .. 0 |-> IF j = 1 THEN 0 ELSE f[j - 1] + pattern[j - 1].ticks]
    OBVIOUS
  <2> HIDE DEF f
  <2>2. SumsOf(pattern, 0, f)
    BY <2>1 DEF SumsOf
  <2> QED
    BY <2>2
<1>2. ASSUME NEW n \in Nat, Exists(n) PROVE Exists(n + 1)
  <2>1. PICK f : SumsOf(pattern, n, f)
    BY <1>2
  <2> DEFINE g == [j \in 1 .. n + 1 |->
                     IF j = 1 THEN 0 ELSE f[j - 1] + pattern[j - 1].ticks]
  <2>2. \A j \in 1 .. n : g[j] = f[j]
    BY <2>1 DEF SumsOf
  <2>3. g = [j \in 1 .. n + 1 |-> IF j = 1 THEN 0 ELSE g[j - 1] + pattern[j - 1].ticks]
    <3>1. ASSUME NEW j \in 1 .. n + 1
          PROVE  g[j] = IF j = 1 THEN 0 ELSE g[j - 1] + pattern[j - 1].ticks
      <4>1. j # 1 => j - 1 \in 1 .. n
        OBVIOUS
      <4> QED
        BY <2>2, <4>1
    <3>2. DOMAIN g = 1 .. n + 1 /\ g = [j \in 1 .. n + 1 |-> g[j]]
      OBVIOUS
    <3> HIDE DEF g
    <3> QED
      BY <3>1, <3>2
  <2> HIDE DEF g
  <2>4. SumsOf(pattern, n + 1, g)
    BY <2>3 DEF SumsOf
  <2> QED
    BY <2>4
<1> HIDE DEF Exists
<1>3. S \in SUBSET Nat /\ 0 \in S /\ \A n \in S : n + 1 \in S
  BY <1>1, <1>2
<1> HIDE DEF S
<1>4. S = Nat
  BY <1>3, AllNaturals
<1>5. \A n \in Nat : Exists(n)
  BY <1>4 DEF S
<1> QED
  BY <1>5 DEF Exists

(* A longer pattern begins as a shorter one does.                            *)
LEMMA SumsAgree ==
  ASSUME NEW pattern, NEW n \in Nat, NEW f, SumsOf(pattern, n, f),
         NEW m \in Nat, NEW g, SumsOf(pattern, m, g), n <= m
  PROVE  \A i \in 1 .. n : f[i] = g[i]
<1> DEFINE S == {i \in Nat : i \in 1 .. n => f[i] = g[i]}
<1>1. 0 \in S
  OBVIOUS
<1>2. ASSUME NEW i \in S PROVE i + 1 \in S
  <2> SUFFICES ASSUME i + 1 \in 1 .. n PROVE f[i + 1] = g[i + 1]
    OBVIOUS
  <2>1. i + 1 \in 1 .. m
    OBVIOUS
  <2>2. f[i + 1] = IF i + 1 = 1 THEN 0 ELSE f[i] + pattern[i].ticks
    BY DEF SumsOf
  <2>3. g[i + 1] = IF i + 1 = 1 THEN 0 ELSE g[i] + pattern[i].ticks
    BY <2>1 DEF SumsOf
  <2>4. i + 1 # 1 => f[i] = g[i]
    OBVIOUS
  <2> QED
    BY <2>2, <2>3, <2>4
<1> HIDE DEF S
<1>3. S = Nat
  BY <1>1, <1>2, AllNaturals DEF S
<1> QED
  BY <1>3 DEF S

(* What Begins computes.                                                   *)
LEMMA BeginsNext ==
  ASSUME NEW pattern
  PROVE  /\ Begins(pattern, 1) = 0
         /\ \A i \in Nat \ {0} :
              Begins(pattern, i + 1) = Begins(pattern, i) + pattern[i].ticks
<1> DEFINE f(n) == CHOOSE g : SumsOf(pattern, n, g)
<1>1. \A n \in Nat : SumsOf(pattern, n, f(n))
  BY SumsExist
<1>2. \A n : Begins(pattern, n) = f(n)[n]
  BY DEF Begins, SumsOf
<1> HIDE DEF f
<1>3. Begins(pattern, 1) = 0
  <2>1. SumsOf(pattern, 1, f(1)) /\ 1 \in 1 .. 1
    BY <1>1
  <2> QED
    BY <1>2, <2>1 DEF SumsOf
<1>4. ASSUME NEW i \in Nat \ {0}
      PROVE  Begins(pattern, i + 1) = Begins(pattern, i) + pattern[i].ticks
  <2>1. SumsOf(pattern, i, f(i)) /\ SumsOf(pattern, i + 1, f(i + 1))
    BY <1>1
  <2>2. f(i)[i] = f(i + 1)[i]
    BY <2>1, SumsAgree
  <2>3. i + 1 \in 1 .. i + 1 /\ i + 1 # 1 /\ (i + 1) - 1 = i
    OBVIOUS
  <2>4. f(i + 1)[i + 1] = f(i + 1)[i] + pattern[i].ticks
    BY <2>1, <2>3 DEF SumsOf
  <2> QED
    BY <1>2, <2>2, <2>4
<1> QED
  BY <1>3, <1>4

(* The levels of a second begin one after the other.                         *)
LEMMA BeginsRise ==
  ASSUME NEW pattern, Proper(pattern)
  PROVE  /\ Len(pattern) \in Nat \ {0}
         /\ \A i \in 1 .. Len(pattern) :
              /\ Begins(pattern, i) \in Nat
              /\ pattern[i].power \in Power /\ pattern[i].ticks \in Nat
         /\ \A k \in 1 .. Len(pattern) : \A i \in 1 .. k - 1 :
              Begins(pattern, i) < Begins(pattern, k)
<1> DEFINE n == Len(pattern)
           B(i) == Begins(pattern, i)
<1>1. n \in Nat \ {0}
  BY DEF Proper
<1>2. ASSUME NEW i \in 1 .. n
      PROVE  pattern[i].power \in Power /\ pattern[i].ticks \in Nat
  <2>1. \A S : \A seq \in Seq(S) : \A k \in 1 .. Len(seq) : seq[k] \in S
    OBVIOUS
  <2>2. pattern[i] \in [power : Power, ticks : Nat]
    BY <2>1 DEF Proper
  <2> QED
    BY <2>2
<1>3. \A i \in 1 .. n - 1 : pattern[i].ticks \in Nat /\ pattern[i].ticks > 0
  BY <1>1, <1>2 DEF Proper, FitsSecond
<1>4. B(1) = 0 /\ \A i \in 1 .. n - 1 : B(i + 1) = B(i) + pattern[i].ticks
  BY <1>1, BeginsNext
<1> DEFINE S == {k \in Nat : k \in 1 .. n =>
                   B(k) \in Nat /\ \A i \in 1 .. k - 1 : B(i) \in Nat /\ B(i) < B(k)}
<1> HIDE DEF n, B
<1>5. 0 \in S
  OBVIOUS
<1>6. ASSUME NEW k \in S PROVE k + 1 \in S
  <2>1. CASE k = 0
    BY <1>4, <2>1
  <2>2. CASE k + 1 \in 1 .. n /\ k # 0
    <3>1. k \in 1 .. n - 1 /\ k \in 1 .. n
      BY <1>1, <2>2
    <3>2. B(k) \in Nat /\ \A i \in 1 .. k - 1 : B(i) \in Nat /\ B(i) < B(k)
      BY <3>1
    <3>3. B(k + 1) = B(k) + pattern[k].ticks
      BY <1>4, <3>1
    <3>4. pattern[k].ticks \in Nat /\ pattern[k].ticks > 0
      BY <1>3, <3>1
    <3>5. B(k + 1) \in Nat /\ B(k) < B(k + 1)
      BY <3>2, <3>3, <3>4
    <3>6. \A i \in 1 .. (k + 1) - 1 : i = k \/ i \in 1 .. k - 1
      OBVIOUS
    <3>7. \A i \in 1 .. (k + 1) - 1 : B(i) \in Nat /\ B(i) < B(k + 1)
      BY <3>2, <3>5, <3>6
    <3> QED
      BY <3>5, <3>7
  <2> QED
    BY <2>1, <2>2
<1> HIDE DEF S
<1>7. S = Nat
  BY <1>5, <1>6, AllNaturals DEF S
<1>8. ASSUME NEW k \in 1 .. n
      PROVE  B(k) \in Nat /\ \A i \in 1 .. k - 1 : B(i) < B(k)
  <2>1. k \in S
    BY <1>1, <1>7
  <2> QED
    BY <2>1 DEF S
<1> QED
  BY <1>1, <1>2, <1>8 DEF n, B

(* The fields of a time of the wall clock.                                  *)
LEMMA DividedBy ==
  ASSUME NEW k \in Nat, NEW d \in Nat \ {0}, NEW x \in 0 .. d - 1
  PROVE  (k * d + x) \div d = k /\ (k * d + x) % d = x
<1> DEFINE n == k * d + x
           q == n \div d
           r == n % d
<1>1. k * d \in Nat
  OBVIOUS
<1>2. n \in Nat
  BY <1>1
<1>3. q \in Nat /\ r \in 0 .. d - 1 /\ n = d * q + r
  BY <1>2, DivisionOfNat
<1>4. d * (q - k) = x - r
  BY <1>3
<1> HIDE DEF q, r
<1>5. CASE q > k
  <2>1. q - k \in Nat \ {0}
    BY <1>3, <1>5
  <2>2. \A c \in Nat \ {0} : d * c >= d
    OBVIOUS
  <2>3. d * (q - k) >= d
    BY <2>1, <2>2
  <2> QED
    BY <1>3, <1>4, <2>3
<1>6. CASE q < k
  <2>1. k - q \in Nat \ {0}
    BY <1>3, <1>6
  <2>2. \A c \in Nat \ {0} : d * c >= d
    OBVIOUS
  <2>3. d * (k - q) >= d
    BY <2>1, <2>2
  <2>4. d * (q - k) = -(d * (k - q))
    BY <1>3
  <2> QED
    BY <1>3, <1>4, <2>3, <2>4
<1>7. q = k
  BY <1>3, <1>5, <1>6
<1>8. r = x
  BY <1>3, <1>4, <1>7
<1> QED
  BY <1>7, <1>8 DEF q, r

LEMMA Products == \A a, b \in Nat : a * b \in Nat
OBVIOUS

LEMMA ClockReads ==
  ASSUME NEW k \in Nat, NEW s \in 0 .. SecondsPerMinute - 1,
         NEW x \in 0 .. TicksPerSecond - 1
  PROVE  LET t == k * Minute + s * TicksPerSecond + x
         IN  /\ t \in Nat
             /\ t \div Minute = k
             /\ (t % Minute) \div TicksPerSecond = s
             /\ t % TicksPerSecond = x
<1> DEFINE y == s * TicksPerSecond + x
           t == k * Minute + s * TicksPerSecond + x
<1>1. /\ TicksPerSecond \in Nat \ {0} /\ SecondsPerMinute \in Nat \ {0}
      /\ Minute \in Nat \ {0} /\ Minute = SecondsPerMinute * TicksPerSecond
      /\ s \in Nat /\ x \in Nat
  BY TimeAssumption, MinuteIsPositive DEF Minute
<1>2. y \in 0 .. Minute - 1
  <2>1. s * TicksPerSecond \in Nat
    BY <1>1, Products
  <2>2. s * TicksPerSecond <= (SecondsPerMinute - 1) * TicksPerSecond
    BY <1>1
  <2>3. (SecondsPerMinute - 1) * TicksPerSecond = Minute - TicksPerSecond
    BY <1>1
  <2> QED
    BY <1>1, <2>1, <2>2, <2>3
<1>3. k * Minute \in Nat
  BY <1>1, Products
<1>4. t = k * Minute + y /\ t \in Nat
  <2>1. s * TicksPerSecond \in Nat
    BY <1>1, Products
  <2> QED
    BY <1>1, <1>3, <2>1
<1>5. t \div Minute = k /\ t % Minute = y
  BY <1>1, <1>2, <1>4, DividedBy
<1>6. y \div TicksPerSecond = s
  BY <1>1, DividedBy
<1>7. t % TicksPerSecond = x
  <2> DEFINE c == k * SecondsPerMinute + s
  <2>1. k * SecondsPerMinute \in Nat
    BY <1>1, Products
  <2>2. c \in Nat
    BY <1>1, <2>1
  <2>3. t = c * TicksPerSecond + x
    <3>1. k * Minute = k * SecondsPerMinute * TicksPerSecond
      BY <1>1
    <3>2. (k * SecondsPerMinute + s) * TicksPerSecond
            = k * SecondsPerMinute * TicksPerSecond + s * TicksPerSecond
      BY <1>1, <2>1
    <3> QED
      BY <3>1, <3>2
  <2> HIDE DEF c, t
  <2> QED
    BY <1>1, <2>2, <2>3, DividedBy
<1> HIDE DEF y
<1> QED
  BY <1>4, <1>5, <1>6, <1>7


-----------------------------------------------------------------------------
(* What the source sends, and what main() has prepared.                      *)
LEMMA Became ==
  ASSUME TxInv, NEW place, NEW new, From(Driver, place, new)
  PROVE  T \in MainState /\ T.at = place /\ T' = new
BY MainStateOfDriver, DriverAssumption DEF From, T, TxInv, TxTypeOK

LEMMA StartType ==
  ASSUME TxInv
  PROVE  /\ T.minute \in Nat /\ T.second \in Nat /\ TicksPerSecond \in Nat \ {0}
         /\ Minute \in Nat \ {0} /\ Start \in Nat /\ clock \in Nat
         /\ T.wake \in Nat /\ T.moment \in Nat \ {0} /\ overtime[Driver] \in Nat
         /\ T.job \in Job /\ stepped \in Nat
<1>1. T \in MainState
  BY MainStateOfDriver
<1>2. T.minute \in Nat /\ T.second \in Nat /\ TicksPerSecond \in Nat \ {0}
  BY <1>1, TimeAssumption DEF MainState
<1>3. T.second * TicksPerSecond \in Nat
  BY <1>2, Products
<1> QED
  BY <1>1, <1>2, <1>3, MinuteIsPositive, TimeAssumption, DriverAssumption
  DEF Start, MainState, TxInv, TxTypeOK

(* The minute that is prepared, counted from the launch.                     *)
LEMMA PreparedMinute ==
  ASSUME TxInv, MinuteInv, T.at \in InAMinute
  PROVE  \E m \in 0 .. LastMinute(T.job) :
           T.minute = m * Minute /\ T.prepared = m + T.job.offset
<1> DEFINE m == T.minute \div Minute
<1>1. PICK k \in 0 .. LastMinute(T.job) : T.prepared = k + T.job.offset
  BY DEF TxInv, PatternInv
<1>2. T.at # "off"
  BY DEF InAMinute, AtASecond
<1>3. T.minute = m * Minute /\ T.prepared = m + T.job.offset
  BY <1>2 DEF MinuteInv
<1>4. m \in Nat /\ T.job.offset \in Int
  BY StartType, DivisionOfNat, JobAssumption
<1> HIDE DEF m
<1>5. m = k
  BY <1>1, <1>3, <1>4
<1> QED
  BY <1>1, <1>3, <1>5

LEMMA SecondsFollow ==
  ASSUME NEW j \in Job, NEW m \in 0 .. LastMinute(j), NEW s \in 0 .. SecondsPerMinute - 1,
         NEW last, \/ s > 0 /\ last = Modulation(j.source, m + j.offset, s - 1)
                   \/ /\ s = 0 /\ m > 0
                      /\ last = Modulation(j.source, m - 1 + j.offset, SecondsPerMinute - 1)
  PROVE  ~(/\ last[Len(last)].power = "LOW"
           /\ Modulation(j.source, m + j.offset, s)[1].power = "LOW")
<1>1. CASE s > 0
  BY <1>1, PatternsAssumption DEF LowAgain
<1>2. CASE ~(s > 0)
  <2>1. last = Modulation(j.source, m - 1 + j.offset, SecondsPerMinute - 1) /\ m > 0
    BY <1>2
  <2> QED
    BY <1>2, <2>1, PatternsAssumption DEF LowAgain
<1> QED
  BY <1>1, <1>2

LEMMA Seconds ==
  ASSUME NEW j \in Job, NEW m \in 0 .. LastMinute(j), NEW s \in 0 .. SecondsPerMinute - 1
  PROVE  LET pattern == Modulation(j.source, m + j.offset, s)
         IN  /\ Proper(pattern)
             /\ \A i \in 1 .. Len(pattern) - 1 :
                  ~(pattern[i].power = "LOW" /\ pattern[i + 1].power = "LOW")
BY ModulationAssumption, PatternsAssumption DEF Proper, NoLowAgain, LowAgain

(* While a second is sent, main() keys the pattern of that second.            *)
LEMMA PatternIsSent ==
  ASSUME TxInv, MinuteInv, T.at \in AtASecond
  PROVE  /\ Proper(Pattern(Driver))
         /\ \A x \in 0 .. TicksPerSecond - 1 : Sent(T.job, Start + x) = Pattern(Driver)
         /\ \A i \in 1 .. Len(Pattern(Driver)) - 1 :
              ~(/\ Pattern(Driver)[i].power = "LOW"
                /\ Pattern(Driver)[i + 1].power = "LOW")
<1>1. PICK m \in 0 .. LastMinute(T.job) :
        T.minute = m * Minute /\ T.prepared = m + T.job.offset
  BY PreparedMinute DEF InAMinute
<1>2. T.second \in 0 .. SecondsPerMinute - 1
  BY DEF TxInv, PatternInv
<1>3. Pattern(Driver) = Modulation(T.job.source, m + T.job.offset, T.second)
  BY <1>1 DEF Pattern, T
<1>4. T.job \in Job
  BY StartType
<1>5. ASSUME NEW x \in 0 .. TicksPerSecond - 1
      PROVE  Sent(T.job, Start + x) = Pattern(Driver)
  <2>1. m \in Nat
    OBVIOUS
  <2>2. Start + x = m * Minute + T.second * TicksPerSecond + x
    BY <1>1 DEF Start
  <2>3. /\ (Start + x) \div Minute = m
        /\ ((Start + x) % Minute) \div TicksPerSecond = T.second
    BY <1>2, <2>1, <2>2, ClockReads
  <2> QED
    BY <1>3, <2>3 DEF Sent
<1> QED
  BY <1>2, <1>3, <1>4, <1>5, Seconds

(* No second begins with the attenuation that the one before it ended with.   *)
LEMMA SecondsDiffer ==
  ASSUME TxInv, MinuteInv, T.at \in AtASecond, Start > 0
  PROVE  LET last == Sent(T.job, Start - 1)
         IN  ~(last[Len(last)].power = "LOW" /\ Pattern(Driver)[1].power = "LOW")
<1>1. PICK m \in 0 .. LastMinute(T.job) :
        T.minute = m * Minute /\ T.prepared = m + T.job.offset
  BY PreparedMinute DEF InAMinute
<1>2. T.second \in 0 .. SecondsPerMinute - 1
  BY DEF TxInv, PatternInv
<1>3. Pattern(Driver) = Modulation(T.job.source, m + T.job.offset, T.second)
  BY <1>1 DEF Pattern, T
<1>4. /\ T.job \in Job /\ T.job.offset \in Int
      /\ TicksPerSecond \in Nat \ {0} /\ SecondsPerMinute \in Nat \ {0}
      /\ Minute = SecondsPerMinute * TicksPerSecond /\ Minute \in Nat
      /\ m \in Nat /\ Start = m * Minute + T.second * TicksPerSecond
  BY <1>1, StartType, JobAssumption, TimeAssumption DEF Start, Minute
<1>5. CASE T.second > 0
  <2>1. T.second - 1 \in 0 .. SecondsPerMinute - 1
    BY <1>2, <1>4, <1>5
  <2>2. Start - 1 = m * Minute + (T.second - 1) * TicksPerSecond + (TicksPerSecond - 1)
    <3>1. (T.second - 1) * TicksPerSecond = T.second * TicksPerSecond - TicksPerSecond
      BY <1>2, <1>4
    <3>2. T.second * TicksPerSecond \in Nat /\ m * Minute \in Nat
      BY <1>2, <1>4, Products
    <3> QED
      BY <1>4, <3>1, <3>2
  <2>3. TicksPerSecond - 1 \in 0 .. TicksPerSecond - 1 /\ m \in Nat
    BY <1>4
  <2>4. /\ (Start - 1) \div Minute = m
        /\ ((Start - 1) % Minute) \div TicksPerSecond = T.second - 1
    BY <2>1, <2>2, <2>3, ClockReads
  <2>5. Sent(T.job, Start - 1) = Modulation(T.job.source, m + T.job.offset, T.second - 1)
    BY <2>4 DEF Sent
  <2> QED
    BY <1>2, <1>3, <1>4, <1>5, <2>5, SecondsFollow
<1>6. CASE T.second = 0
  <2>1. T.second * TicksPerSecond = 0
    BY <1>4, <1>6
  <2>2. m > 0
    BY <1>4, <2>1
  <2>3. Start - 1 = (m - 1) * Minute + (SecondsPerMinute - 1) * TicksPerSecond
                      + (TicksPerSecond - 1)
    <3>1. (m - 1) * Minute = m * Minute - Minute
      BY <1>4, <2>2
    <3>2. (SecondsPerMinute - 1) * TicksPerSecond = Minute - TicksPerSecond
      BY <1>4
    <3>3. m * Minute \in Nat
      BY <1>4, Products
    <3> QED
      BY <1>4, <2>1, <3>1, <3>2, <3>3
  <2>4. /\ m - 1 \in Nat /\ SecondsPerMinute - 1 \in 0 .. SecondsPerMinute - 1
        /\ TicksPerSecond - 1 \in 0 .. TicksPerSecond - 1
    BY <1>4, <2>2
  <2>5. /\ (Start - 1) \div Minute = m - 1
        /\ ((Start - 1) % Minute) \div TicksPerSecond = SecondsPerMinute - 1
    BY <2>3, <2>4, ClockReads
  <2>6. Sent(T.job, Start - 1)
          = Modulation(T.job.source, m - 1 + T.job.offset, SecondsPerMinute - 1)
    BY <2>5 DEF Sent
  <2> QED
    BY <1>2, <1>3, <1>4, <1>6, <2>2, <2>6, SecondsFollow
<1> QED
  BY <1>2, <1>5, <1>6

(* The levels of the second that is sent.                                    *)
LEMMA LevelsOfSecond ==
  ASSUME TxInv, MinuteInv, T.at \in AtASecond
  PROVE  LET P == Pattern(Driver)
         IN  /\ Proper(P) /\ Len(P) \in Nat \ {0} /\ T.moment \in 1 .. Len(P)
             /\ LevelAt(1) = Start
             /\ \A i \in 1 .. Len(P) :
                  /\ LevelAt(i) \in Nat /\ P[i].power \in Power /\ P[i].ticks \in Nat
                  /\ Start <= LevelAt(i) /\ LevelAt(i) <= LevelAt(Len(P))
                  /\ P[i].ticks = 0 <=> i = Len(P)
                  /\ i < Len(P) => LevelAt(i + 1) = LevelAt(i) + P[i].ticks
             /\ LevelAt(Len(P)) < Start + TicksPerSecond
<1> DEFINE P == Pattern(Driver)
           n == Len(P)
<1>1. Proper(P)
  BY PatternIsSent
<1>2. T.moment \in 1 .. n
  BY DEF TxInv, PatternInv
<1>3. Start \in Nat /\ TicksPerSecond \in Nat
  BY StartType
<1>4. /\ n \in Nat \ {0}
      /\ \A i \in 1 .. n : Begins(P, i) \in Nat /\ P[i].power \in Power /\ P[i].ticks \in Nat
      /\ \A k \in 1 .. n : \A i \in 1 .. k - 1 : Begins(P, i) < Begins(P, k)
  BY <1>1, BeginsRise
<1>5. /\ Begins(P, 1) = 0
      /\ \A i \in Nat \ {0} : Begins(P, i + 1) = Begins(P, i) + P[i].ticks
  BY BeginsNext
<1>6. /\ \A i \in 1 .. n : P[i].ticks = 0 <=> i = n
      /\ Begins(P, n) < TicksPerSecond
  BY <1>1 DEF Proper, FitsSecond
<1> HIDE DEF P, n
<1>7. LevelAt(1) = Start
  BY <1>3, <1>5 DEF LevelAt, P
<1>8. ASSUME NEW i \in 1 .. n
      PROVE  /\ LevelAt(i) \in Nat /\ Start <= LevelAt(i) /\ LevelAt(i) <= LevelAt(n)
             /\ i < n => LevelAt(i + 1) = LevelAt(i) + P[i].ticks
  <2>1. Begins(P, i) \in Nat /\ Begins(P, n) \in Nat /\ Begins(P, i) <= Begins(P, n)
    <3>1. i = n \/ i \in 1 .. n - 1
      BY <1>4
    <3> QED
      BY <1>4, <3>1
  <2>2. Begins(P, i + 1) = Begins(P, i) + P[i].ticks /\ P[i].ticks \in Nat
    BY <1>4, <1>5
  <2> QED
    BY <1>3, <2>1, <2>2 DEF LevelAt, P
<1>9. LevelAt(n) < Start + TicksPerSecond
  BY <1>3, <1>4, <1>6 DEF LevelAt, P
<1> QED
  BY <1>1, <1>2, <1>4, <1>6, <1>7, <1>8, <1>9 DEF P, n


-----------------------------------------------------------------------------
(* The steps that leave the registers and the clock alone.                   *)
LEMMA SoftwareFrame ==
  ASSUME Software
  PROVE  /\ UNCHANGED <<clock, stepped, overtime, settled, freq, pc, D_op>>
         /\ NeverSetBack' <=> NeverSetBack
BY DEF Software, vars, cpu, timer, D_op, NeverSetBack

LEMMA SecondFrame ==
  ASSUME T'.job = T.job, T'.prepared = T.prepared, T'.second = T.second,
         T'.minute = T.minute
  PROVE  /\ Pattern(Driver)' = Pattern(Driver) /\ Start' = Start
         /\ \A i : LevelAt(i)' = LevelAt(i)
<1>1. Pattern(Driver)' = Pattern(Driver) /\ Start' = Start
  BY PatternStays DEF Start
<1> QED
  BY <1>1 DEF LevelAt

(* One that only moves on.                                                  *)
LEMMA MoveFrame ==
  ASSUME TxInv, NEW place, NEW next, From(Driver, place, To(Driver, next)), Software
  PROVE  /\ T.at = place /\ T'.at = next
         /\ T'.job = T.job /\ T'.now = T.now /\ T'.minute = T.minute
         /\ T'.ttl = T.ttl /\ T'.second = T.second /\ T'.prepared = T.prepared
         /\ T'.moment = T.moment /\ T'.wake = T.wake
         /\ T'.interrupted = T.interrupted
         /\ Pattern(Driver)' = Pattern(Driver) /\ Start' = Start
         /\ \A i : LevelAt(i)' = LevelAt(i)
<1>1. T \in MainState /\ T.at = place /\ T' = To(Driver, next)
  BY Became
<1>2. T' = [T EXCEPT !.at = next]
  BY <1>1 DEF To, T
<1> QED
  BY <1>1, <1>2, SecondFrame DEF MainState

LEMMA SleepTimely == ASSUME TxInv, TimeInv, Sleep(Driver) PROVE TimeInv'
<1>1. PICK place \in {"wait", "nap"} :
        /\ From(Driver, place, To(Driver, IF place = "wait" THEN "asleep" ELSE "napping"))
        /\ Software
  BY DEF Sleep
<1> DEFINE next == IF place = "wait" THEN "asleep" ELSE "napping"
<1>2. MinuteInv' /\ WakeInv'
  BY <1>1, MoveFrame DEF TimeInv, MinuteInv, WakeInv, InAMinute, AtASecond
<1>3. ~T.job.dry => LevelInv'
  BY <1>1, MoveFrame, SoftwareFrame DEF TimeInv, LevelInv, InAMinute, AtASecond, Due
<1>4. ~T.job.dry => EarlyInv' /\ LateInv'
  BY <1>1, MoveFrame, SoftwareFrame DEF TimeInv, EarlyInv, LateInv, InAMinute, AtASecond, Due
<1>5. OverInv'
  BY <1>1, MoveFrame, SoftwareFrame DEF TimeInv, OverInv, AtALevel, Live, Ended, T
<1>6. T'.job = T.job
  BY <1>1, MoveFrame
<1> QED
  BY <1>2, <1>3, <1>4, <1>5, <1>6 DEF TimeInv


LEMMA WakeUpTimely == ASSUME TxInv, TimeInv, WakeUp(Driver) PROVE TimeInv'
<1>1. PICK place \in {"asleep", "napping"} :
        /\ From(Driver, place, To(Driver, IF place = "asleep" THEN "awake" ELSE "next"))
        /\ Software
  BY DEF WakeUp, Sleeping, Woken, From
<1>2. T.job.dry \/ clock >= T.wake
  BY DEF WakeUp, T
<1>3. MinuteInv' /\ WakeInv'
  BY <1>1, MoveFrame DEF TimeInv, MinuteInv, WakeInv, InAMinute, AtASecond
<1>4. ~T.job.dry => LevelInv'
  BY <1>1, MoveFrame, SoftwareFrame DEF TimeInv, LevelInv, InAMinute, AtASecond, Due
<1>5. ~T.job.dry => EarlyInv' /\ LateInv'
  BY <1>1, <1>2, MoveFrame, SoftwareFrame
  DEF TimeInv, EarlyInv, LateInv, InAMinute, AtASecond, Due
<1>6. OverInv'
  BY <1>1, MoveFrame, SoftwareFrame DEF TimeInv, OverInv, AtALevel, Live, Ended, T
<1>7. T'.job = T.job
  BY <1>1, MoveFrame
<1> QED
  BY <1>3, <1>4, <1>5, <1>6, <1>7 DEF TimeInv

(* A minute is over, or cut short.                                          *)
LEMMA MinuteOverTimely ==
  ASSUME TxInv, TimeInv, T.at \in {"second", "awake"},
         T.interrupted \/ (T.at = "second" /\ T.second = SecondsPerMinute),
         From(Driver, T.at, NextMinute(Driver)), Software
  PROVE  TimeInv'
<1>1. T \in MainState /\ T' = [T EXCEPT !.at = "minute", !.minute = T.minute + Minute]
  BY Became DEF NextMinute, To, T
<1>2. /\ T'.at = "minute" /\ T'.job = T.job /\ T'.now = T.now
      /\ T'.minute = T.minute + Minute /\ T'.interrupted = T.interrupted
  BY <1>1 DEF MainState
<1>3. T.minute \in Nat /\ Minute \in Nat \ {0} /\ TicksPerSecond \in Nat
  BY StartType
<1>4. T'.minute = (T'.minute \div Minute) * Minute
  <2> DEFINE m == T.minute \div Minute
  <2>1. T.minute = m * Minute /\ m \in Nat
    BY <1>3, DivisionOfNat DEF TimeInv, MinuteInv
  <2> HIDE DEF m
  <2>2. T'.minute = (m + 1) * Minute /\ m + 1 \in Nat
    BY <1>2, <1>3, <2>1
  <2> QED
    BY <1>3, <2>2, MultipleDivided
<1>5. MinuteInv' /\ WakeInv'
  BY <1>2, <1>4 DEF TimeInv, MinuteInv, WakeInv, InAMinute, AtASecond
<1>6. ~T.interrupted => Due' = Due
  <2>1. Due' = T.minute + Minute
    BY <1>2 DEF Due
  <2>2. ~T.interrupted => Due = T.minute + SecondsPerMinute * TicksPerSecond
    BY DEF Due, Start
  <2> QED
    BY <2>1, <2>2 DEF Minute
<1>7. ~T.job.dry => LevelInv'
  BY <1>2, <1>6, SoftwareFrame DEF TimeInv, LevelInv, InAMinute, AtASecond
<1>8. ~T.job.dry => EarlyInv' /\ LateInv'
  BY <1>2, <1>6, SoftwareFrame DEF TimeInv, EarlyInv, LateInv, InAMinute, AtASecond
<1>9. OverInv'
  BY <1>2, SoftwareFrame DEF TimeInv, OverInv, AtALevel, Live, Ended, T
<1> QED
  BY <1>2, <1>5, <1>7, <1>8, <1>9 DEF TimeInv

LEMMA EndMinuteTimely == ASSUME TxInv, TimeInv, EndMinute(Driver) PROVE TimeInv'
<1>1. /\ T.at = "second" /\ From(Driver, T.at, NextMinute(Driver)) /\ Software
      /\ T.second = SecondsPerMinute \/ T.interrupted
  BY DEF EndMinute, From, T
<1> QED
  BY <1>1, MinuteOverTimely

LEMMA AtSecondTimely == ASSUME TxInv, TimeInv, AtSecond(Driver) PROVE TimeInv'
<1>1. T.at = "awake" /\ Software
  BY DEF AtSecond, From, T
<1>2. CASE T.interrupted
  <2>1. From(Driver, T.at, NextMinute(Driver))
    BY <1>1, <1>2 DEF AtSecond, T
  <2> QED
    BY <1>1, <1>2, <2>1, MinuteOverTimely
<1>3. CASE ~T.interrupted
  <2>1. From(Driver, "awake", To(Driver, "key"))
    BY <1>1, <1>3 DEF AtSecond, T
  <2>2. T.moment = 1 /\ LevelAt(1) = Start
    BY <1>1, LevelsOfSecond DEF TimeInv, TxInv, PatternInv, AtASecond
  <2>3. MinuteInv' /\ WakeInv'
    BY <1>1, <2>1, <2>2, MoveFrame DEF TimeInv, MinuteInv, WakeInv, InAMinute, AtASecond
  <2>4. ~T.job.dry => LevelInv'
    BY <1>1, <2>1, <2>2, MoveFrame, SoftwareFrame
    DEF TimeInv, LevelInv, InAMinute, AtASecond, Due
  <2>5. ~T.job.dry => EarlyInv' /\ LateInv'
    BY <1>1, <2>1, MoveFrame, SoftwareFrame
    DEF TimeInv, EarlyInv, LateInv, InAMinute, AtASecond, Due
  <2>6. OverInv'
    BY <1>1, <1>3, <2>1, MoveFrame, SoftwareFrame
    DEF TimeInv, OverInv, AtALevel, Live, Ended, T
  <2>7. T'.job = T.job
    BY <1>1, <2>1, MoveFrame
  <2> QED
    BY <2>3, <2>4, <2>5, <2>6, <2>7 DEF TimeInv
<1> QED
  BY <1>2, <1>3

LEMMA BeginSecondTimely == ASSUME TxInv, TimeInv, BeginSecond(Driver) PROVE TimeInv'
<1>1. /\ T \in MainState /\ T.at = "second" /\ Software /\ ~T.interrupted
      /\ T' = [T EXCEPT !.at = "wait", !.moment = 1, !.wake = Start]
  BY Became DEF BeginSecond, To, T, Start
<1>2. /\ T'.at = "wait" /\ T'.job = T.job /\ T'.now = T.now /\ T'.minute = T.minute
      /\ T'.second = T.second /\ T'.prepared = T.prepared /\ T'.moment = 1
      /\ T'.wake = Start /\ T'.interrupted = T.interrupted
  BY <1>1 DEF MainState
<1>3. Start' = Start
  BY <1>2 DEF Start
<1>4. MinuteInv' /\ WakeInv'
  BY <1>1, <1>2, <1>3 DEF TimeInv, MinuteInv, WakeInv, InAMinute, AtASecond
<1>5. ~T.job.dry => LevelInv'
  BY <1>1, <1>2, <1>3, SoftwareFrame DEF TimeInv, LevelInv, InAMinute, AtASecond, Due
<1>6. ~T.job.dry => EarlyInv' /\ LateInv'
  BY <1>1, <1>2, <1>3, StartType, SoftwareFrame
  DEF TimeInv, EarlyInv, LateInv, InAMinute, AtASecond, Due
<1>7. OverInv'
  BY <1>1, <1>2, SoftwareFrame DEF TimeInv, OverInv
<1> QED
  BY <1>2, <1>4, <1>5, <1>6, <1>7 DEF TimeInv

LEMMA NextMomentTimely == ASSUME TxInv, TimeInv, NextMoment(Driver) PROVE TimeInv'
<1>1. T \in MainState /\ T.at = "next" /\ Software
  BY Became DEF NextMoment
<1>2. T.moment < Len(Pattern(Driver)) /\ T.moment \in Nat \ {0}
  BY <1>1 DEF TimeInv, WakeInv, MainState
<1>3. T' = [T EXCEPT !.at = "key", !.moment = T.moment + 1]
  BY <1>2, Became DEF NextMoment, To, T
<1>4. /\ T'.at = "key" /\ T'.job = T.job /\ T'.now = T.now /\ T'.minute = T.minute
      /\ T'.second = T.second /\ T'.prepared = T.prepared
      /\ T'.moment = T.moment + 1 /\ T'.wake = T.wake /\ T'.interrupted = T.interrupted
  BY <1>1, <1>3 DEF MainState
<1>5. /\ Pattern(Driver)' = Pattern(Driver) /\ Start' = Start
      /\ \A i : LevelAt(i)' = LevelAt(i)
  BY <1>4, SecondFrame
<1>6. MinuteInv' /\ WakeInv'
  BY <1>1, <1>4, <1>5 DEF TimeInv, MinuteInv, WakeInv, InAMinute, AtASecond
<1>7. ~T.job.dry => LevelInv'
  <2>1. T'.moment # 1 /\ T'.moment - 1 = T.moment
    BY <1>2, <1>4
  <2>2. Pattern(Driver)'[T'.moment - 1] = Pattern(Driver)[T.moment]
    BY <1>5, <2>1
  <2>3. /\ freq'[Driver] = freq[Driver] /\ settled'[Driver] = settled[Driver]
        /\ T'.at = "key" /\ T'.job = T.job
    BY <1>1, <1>4, SoftwareFrame
  <2>4. ~T.job.dry => /\ freq[Driver] = CarrierOf(T.job.source)
                      /\ settled[Driver] = Pattern(Driver)[T.moment].power
    BY <1>1 DEF TimeInv, LevelInv, InAMinute, AtASecond
  <2> QED
    BY <2>1, <2>2, <2>3, <2>4 DEF LevelInv
<1>8. ~T.job.dry => EarlyInv' /\ LateInv'
  BY <1>1, <1>4, <1>5, SoftwareFrame
  DEF TimeInv, EarlyInv, LateInv, InAMinute, AtASecond, Due
<1>9. OverInv'
  BY <1>1, <1>4, <1>5, SoftwareFrame DEF TimeInv, OverInv, AtALevel, Live, Ended, T
<1> QED
  BY <1>4, <1>6, <1>7, <1>8, <1>9 DEF TimeInv

LEMMA AfterKeyingTimely == ASSUME TxInv, TimeInv, AfterKeying(Driver) PROVE TimeInv'
<1> DEFINE P == Pattern(Driver)
           n == Len(P)
           duration == P[T.moment].ticks
<1>1. /\ T \in MainState /\ T.at = "keyed" /\ Software /\ D_op = "none"
      /\ T.at \in AtASecond
  <2>1. T \in MainState /\ T.at = "keyed" /\ Software /\ pc[Driver] = "idle"
    BY Became, MainStateOfDriver DEF AfterKeying, From, T
  <2> QED
    BY <2>1, CallReturned DEF InNoCall, AtASecond
<1>2. /\ Proper(P) /\ n \in Nat \ {0} /\ T.moment \in 1 .. n /\ duration \in Nat
      /\ duration = 0 <=> T.moment = n
      /\ T.moment < n => LevelAt(T.moment + 1) = LevelAt(T.moment) + duration
      /\ LevelAt(n) < Start + TicksPerSecond
      /\ LevelAt(T.moment) \in Nat /\ LevelAt(n) \in Nat
  BY <1>1, LevelsOfSecond DEF TimeInv
<1>3. T.wake = LevelAt(T.moment)
  BY <1>1 DEF TimeInv, WakeInv
<1>4. ~T.job.dry => settled[Driver] = P[T.moment].power
  BY <1>1 DEF TimeInv, LevelInv
<1>5. CASE duration = 0
  <2>1. T' = [T EXCEPT !.at = "second", !.second = T.second + 1]
    BY <1>5, Became DEF AfterKeying, NextSecond, To, T
  <2>2. /\ T'.at = "second" /\ T'.job = T.job /\ T'.now = T.now /\ T'.minute = T.minute
        /\ T'.second = T.second + 1 /\ T'.prepared = T.prepared
        /\ T'.interrupted = T.interrupted
    BY <1>1, <2>1 DEF MainState
  <2>3. Start \in Nat /\ TicksPerSecond \in Nat \ {0}
    BY StartType
  <2>4. Due' = Start + TicksPerSecond
    <3>1. Due' = T.minute + (T.second + 1) * TicksPerSecond
      BY <2>2 DEF Due, Start
    <3>2. (T.second + 1) * TicksPerSecond = T.second * TicksPerSecond + TicksPerSecond
      BY StartType
    <3>3. T.second * TicksPerSecond \in Nat
      BY StartType, Products
    <3> QED
      BY <3>1, <3>2, <3>3, StartType DEF Start
  <2>5. Sent(T.job, Due' - 1) = P
    <3>1. TicksPerSecond - 1 \in 0 .. TicksPerSecond - 1
      BY <2>3
    <3>2. Sent(T.job, Start + (TicksPerSecond - 1)) = P
      BY <1>1, <3>1, PatternIsSent DEF TimeInv
    <3>3. Due' - 1 = Start + (TicksPerSecond - 1)
      BY <2>3, <2>4
    <3> QED
      BY <3>2, <3>3
  <2>6. Due' > 0 /\ LevelAt(n) = Due' - TicksPerSecond + Begins(P, n)
    BY <2>3, <2>4 DEF LevelAt
  <2> HIDE DEF P, n, duration
  <2>7. MinuteInv' /\ WakeInv'
    BY <1>1, <2>2 DEF TimeInv, MinuteInv, WakeInv, InAMinute, AtASecond
  <2>8. ~T.job.dry => LevelInv'
    <3>1. ~T.job.dry => EndsWith(T.job, Due', settled[Driver])
      BY <1>2, <1>4, <1>5, <2>5, <2>6 DEF EndsWith, n
    <3> QED
      BY <1>1, <2>2, <3>1, SoftwareFrame DEF TimeInv, LevelInv, InAMinute, AtASecond
  <2>9. ~T.job.dry => EarlyInv' /\ LateInv'
    <3>1. clock >= LevelAt(n) => LastBegins(T.job, Due', clock)
      BY <2>5, <2>6 DEF LastBegins, n
    <3>2. clock <= LevelAt(n) => clock < Due'
      BY <1>2, <2>3, <2>4, StartType
    <3>3. T.wake = LevelAt(n)
      BY <1>2, <1>3, <1>5
    <3> QED
      BY <1>1, <2>2, <3>1, <3>2, <3>3, SoftwareFrame
      DEF TimeInv, EarlyInv, LateInv, InAMinute, AtASecond
  <2>10. OverInv'
    BY <1>1, <2>2, SoftwareFrame DEF TimeInv, OverInv, AtALevel, Live, Ended, T
  <2> QED
    BY <2>2, <2>7, <2>8, <2>9, <2>10 DEF TimeInv
<1>6. CASE duration # 0
  <2>1. T' = [T EXCEPT !.at = "nap", !.wake = T.wake + duration]
    BY <1>6, Became DEF AfterKeying, To, T
  <2>2. /\ T'.at = "nap" /\ T'.job = T.job /\ T'.now = T.now /\ T'.minute = T.minute
        /\ T'.second = T.second /\ T'.prepared = T.prepared
        /\ T'.moment = T.moment /\ T'.wake = T.wake + duration
        /\ T'.interrupted = T.interrupted
    BY <1>1, <2>1 DEF MainState
  <2>3. P' = P /\ Start' = Start /\ \A i : LevelAt(i)' = LevelAt(i)
    BY <2>2, SecondFrame
  <2>4. T.moment < n
    BY <1>2, <1>6
  <2>5. MinuteInv' /\ WakeInv'
    BY <1>1, <1>2, <1>3, <2>2, <2>3, <2>4 DEF TimeInv, MinuteInv, WakeInv, InAMinute, AtASecond
  <2>6. ~T.job.dry => LevelInv'
    BY <1>1, <1>4, <2>2, <2>3, SoftwareFrame DEF TimeInv, LevelInv, InAMinute, AtASecond
  <2>7. ~T.job.dry => EarlyInv' /\ LateInv'
    BY <1>1, <1>2, <1>3, <2>2, <2>3, SoftwareFrame, StartType, SMTT(30)
    DEF TimeInv, EarlyInv, LateInv, InAMinute, AtASecond
  <2>8. OverInv'
    BY <1>1, <2>2, <2>3, SoftwareFrame DEF TimeInv, OverInv, AtALevel, Live, Ended, T
  <2> QED
    BY <2>2, <2>5, <2>6, <2>7, <2>8 DEF TimeInv
<1> QED
  BY <1>5, <1>6


(* What the last access of a call leaves.                                   *)
LEMMA AccessSettles ==
  ASSUME IInv, RegisterAccess(Driver)
  PROVE  \/ D_op' = D_op /\ settled' = settled
         \/ D_op = "start" /\ settled'[Driver] = "carrier"
         \/ D_op \in Power /\ D_op' = "none" /\ settled'[Driver] = D_op
         \/ D_op = "stop"
<1> USE DriverAssumption DEF IInv, TypeOK, D_op, D_pc
<1>1. CASE Unmux(Driver)
  BY <1>1 DEF Unmux, Goto, Return, Power
<1>2. CASE Mux(Driver)
  BY <1>2 DEF Mux, Return, OpMatchesPc, Power
<1>3. ASSUME NEW label, NEW next, Goto(Driver, label, next)
      PROVE  D_op' = D_op /\ settled' = settled
  BY <1>3 DEF Goto
<1>4. CASE Kill(Driver) \/ AwaitIdle(Driver) \/ SetDivider(Driver) \/ SetControl(Driver)
  BY <1>3, <1>4 DEF Kill, AwaitIdle, SetDivider, SetControl
<1>5. CASE \/ ReadControl(Driver) \/ Enable(Driver) \/ Float17(Driver) \/ ReadFsel17(Driver)
           \/ Drive17(Driver) \/ Clear17(Driver) \/ ReadFsel4(Driver)
  BY <1>3, <1>5 DEF ReadControl, Enable, Float17, ReadFsel17, Drive17, Clear17, ReadFsel4
<1> QED
  BY <1>1, <1>2, <1>4, <1>5 DEF RegisterAccess


LEMMA LaunchTimely == ASSUME TxInv, TimeInv, Launch(Driver) PROVE TimeInv'
<1>1. clock \in Nat /\ clock < Minute /\ Minute \in Nat \ {0} /\ Software
  BY StartType DEF Launch
<1>2. TruncateTo(clock, Minute) = 0 /\ (0 \div Minute) * Minute = 0
  <2>1. 0 * Minute = 0
    BY <1>1
  <2>2. 0 \div Minute = 0
    BY <1>1, <2>1, MultipleDivided
  <2> QED
    BY <1>1, <2>1, <2>2 DEF TruncateTo
<1>3. /\ T \in MainState /\ T.at = "off"
      /\ T' = [T EXCEPT !.at = "init", !.now = 0, !.minute = 0, !.ttl = T.job.ttl]
  BY <1>2, Became DEF Launch, To, T
<1>4. /\ T'.at = "init" /\ T'.job = T.job /\ T'.now = 0 /\ T'.minute = 0
      /\ T'.interrupted = T.interrupted
  BY <1>3 DEF MainState
<1>5. MinuteInv' /\ WakeInv'
  BY <1>2, <1>4 DEF MinuteInv, WakeInv, InAMinute, AtASecond
<1>6. LevelInv' /\ EarlyInv' /\ LateInv'
  BY <1>1, <1>4, SoftwareFrame DEF LevelInv, EarlyInv, LateInv, InAMinute, AtASecond
<1>7. OverInv'
  BY <1>1, <1>3, <1>4, SoftwareFrame DEF TimeInv, OverInv
<1> QED
  BY <1>5, <1>6, <1>7 DEF TimeInv

LEMMA BeginningTimely ==
  ASSUME TxInv, TimeInv, InitFails(Driver) \/ InitSucceeds(Driver) \/ Crash(Driver)
  PROVE  TimeInv'
<1>1. PICK place \in {"init", "unmapped"}, next \in {"failed", "start", "unmapped", "crashed"} :
        From(Driver, place, To(Driver, next)) /\ Software
  BY DEF InitFails, InitSucceeds, Crash
<1>2. MinuteInv' /\ WakeInv'
  BY <1>1, MoveFrame DEF TimeInv, MinuteInv, WakeInv, InAMinute, AtASecond
<1>3. LevelInv' /\ EarlyInv'
  BY <1>1, MoveFrame DEF LevelInv, EarlyInv, InAMinute, AtASecond
<1>4. ~T.job.dry => LateInv'
  BY <1>1, MoveFrame, SoftwareFrame DEF TimeInv, LateInv, AtASecond
<1>5. OverInv'
  BY <1>1, MoveFrame, SoftwareFrame DEF TimeInv, OverInv, AtALevel, Live, Ended, T
<1>6. T'.job = T.job
  BY <1>1, MoveFrame
<1> QED
  BY <1>2, <1>3, <1>4, <1>5, <1>6 DEF TimeInv

(* A call of the hardware: the registers may change, the clock does not.      *)
LEMMA CallFrame ==
  ASSUME TxInv, NEW place, NEW next, From(Driver, place, To(Driver, next)), UNCHANGED timer
  PROVE  /\ T.at = place /\ T'.at = next
         /\ T'.job = T.job /\ T'.now = T.now /\ T'.minute = T.minute
         /\ T'.ttl = T.ttl /\ T'.second = T.second /\ T'.prepared = T.prepared
         /\ T'.moment = T.moment /\ T'.wake = T.wake
         /\ T'.interrupted = T.interrupted
         /\ Pattern(Driver)' = Pattern(Driver) /\ Start' = Start
         /\ \A i : LevelAt(i)' = LevelAt(i)
         /\ UNCHANGED <<clock, stepped, overtime>>
         /\ NeverSetBack' <=> NeverSetBack
<1>1. T \in MainState /\ T.at = place /\ T' = To(Driver, next)
  BY Became
<1>2. T' = [T EXCEPT !.at = next]
  BY <1>1 DEF To, T
<1> QED
  BY <1>1, <1>2, SecondFrame DEF MainState, timer, NeverSetBack

LEMMA StartCarrierTimely == ASSUME TxInv, TimeInv, StartCarrier(Driver) PROVE TimeInv'
<1>1. From(Driver, "start", To(Driver, "minute")) /\ UNCHANGED timer
  BY DEF StartCarrier
<1>2. T.at = "start" /\ T'.at = "minute" /\ T'.job = T.job /\ T.minute = 0 /\ Due' = 0
  BY <1>1, CallFrame DEF TimeInv, MinuteInv, Due
<1>3. MinuteInv' /\ WakeInv'
  BY <1>1, <1>2, CallFrame DEF TimeInv, MinuteInv, WakeInv, InAMinute, AtASecond
<1>4. ~T.job.dry => LevelInv'
  <2> SUFFICES ASSUME ~T.job.dry PROVE LevelInv'
    OBVIOUS
  <2>1. StartClock(Driver, CarrierOf(T.job.source))
    BY DEF StartCarrier, T
  <2>2. settled[Driver] = "off" /\ settled' = settled
    BY <1>2, <2>1 DEF TxInv, CallInv, BeforeStart, StartClock, Enter
  <2>3. freq'[Driver] = CarrierOf(T.job.source)
    BY <2>1, DriverAssumption DEF StartClock, TxInv, TxTypeOK, TypeOK
  <2>4. EndsWith(T'.job, Due', settled'[Driver])
    BY <1>2, <2>2 DEF EndsWith
  <2> QED
    BY <1>2, <2>3, <2>4 DEF LevelInv
<1>5. ~T.job.dry => EarlyInv' /\ LateInv'
  <2>1. LastBegins(T'.job, Due', clock')
    BY <1>2 DEF LastBegins
  <2> QED
    BY <1>1, <1>2, <2>1, CallFrame DEF TimeInv, EarlyInv, LateInv, AtASecond
<1>6. OverInv'
  BY <1>1, <1>2, CallFrame DEF TimeInv, OverInv, AtALevel, Live, Ended, T
<1> QED
  BY <1>2, <1>3, <1>4, <1>5, <1>6 DEF TimeInv

LEMMA BeginMinuteTimely == ASSUME TxInv, TimeInv, BeginMinute(Driver) PROVE TimeInv'
<1>1. T \in MainState /\ T.at = "minute" /\ Software
  BY Became DEF BeginMinute
<1>2. T' = [T EXCEPT !.at = "second",
                     !.ttl = IF T.ttl = Forever THEN T.ttl ELSE T.ttl - 1,
                     !.prepared = (T.minute \div Minute) + T.job.offset,
                     !.second = 0]
  BY <1>1, Became DEF BeginMinute, To, T
<1>3. /\ T'.at = "second" /\ T'.job = T.job /\ T'.now = T.now /\ T'.minute = T.minute
      /\ T'.second = 0 /\ T'.prepared = (T.minute \div Minute) + T.job.offset
      /\ T'.interrupted = T.interrupted
  BY <1>1, <1>2 DEF MainState
<1>4. Due' = Due
  BY <1>1, <1>3, StartType DEF Due, Start
<1>5. MinuteInv' /\ WakeInv'
  BY <1>1, <1>3 DEF TimeInv, MinuteInv, WakeInv, InAMinute, AtASecond
<1>6. ~T.job.dry => LevelInv'
  BY <1>1, <1>3, <1>4, SoftwareFrame DEF TimeInv, LevelInv
<1>7. ~T.job.dry => EarlyInv' /\ LateInv'
  BY <1>1, <1>3, <1>4, SoftwareFrame DEF TimeInv, EarlyInv, LateInv, AtASecond
<1>8. OverInv'
  BY <1>1, <1>3, SoftwareFrame DEF TimeInv, OverInv, AtALevel, Live, Ended, T
<1> QED
  BY <1>3, <1>5, <1>6, <1>7, <1>8 DEF TimeInv

LEMMA LeaveLoopTimely == ASSUME TxInv, TimeInv, LeaveLoop(Driver) PROVE TimeInv'
<1>1. /\ From(Driver, "minute", To(Driver, "stop")) /\ Software
      /\ T.interrupted \/ T.ttl = 0
  BY DEF LeaveLoop, T
<1>2. T.at = "minute" /\ T.job \in Job
  BY <1>1, MoveFrame, StartType
<1>3. ~T.interrupted => T.job.ttl \in Nat /\ T.minute = T.job.ttl * Minute
  <2> SUFFICES ASSUME ~T.interrupted PROVE T.job.ttl \in Nat /\ T.minute = T.job.ttl * Minute
    OBVIOUS
  <2>1. T.ttl = 0 /\ T.ttl # Forever
    BY <1>1 DEF Forever
  <2>2. T.job.ttl \in Nat
    BY <1>2, <2>1, JobAssumption DEF TxInv, CountInv
  <2>3. T.minute = (T.job.ttl - T.ttl) * Minute
    BY <1>2, <2>1 DEF TxInv, CountInv
  <2> QED
    BY <2>1, <2>2, <2>3
<1>4. MinuteInv' /\ WakeInv'
  BY <1>1, <1>2, <1>3, MoveFrame DEF TimeInv, MinuteInv, WakeInv, InAMinute, AtASecond
<1>5. ~T.job.dry => LevelInv'
  BY <1>1, <1>2, MoveFrame, SoftwareFrame DEF TimeInv, LevelInv, Due, InAMinute, AtASecond
<1>6. ~T.job.dry => EarlyInv' /\ LateInv'
  BY <1>1, <1>2, MoveFrame, SoftwareFrame DEF TimeInv, EarlyInv, LateInv, Due, AtASecond
<1>7. OverInv'
  BY <1>1, <1>2, MoveFrame, SoftwareFrame DEF TimeInv, OverInv, AtALevel, Live, Ended, T
<1>8. T'.job = T.job
  BY <1>1, MoveFrame
<1> QED
  BY <1>4, <1>5, <1>6, <1>7, <1>8 DEF TimeInv

LEMMA KeyCarrierTimely == ASSUME TxInv, TimeInv, KeyCarrier(Driver) PROVE TimeInv'
<1>1. From(Driver, "key", To(Driver, "keyed")) /\ UNCHANGED timer
  BY DEF KeyCarrier
<1>2. T.at = "key" /\ T'.at = "keyed" /\ T'.job = T.job /\ T.at \in AtASecond
  BY <1>1, CallFrame DEF AtASecond
<1>3. MinuteInv' /\ WakeInv'
  BY <1>1, <1>2, CallFrame DEF TimeInv, MinuteInv, WakeInv, InAMinute, AtASecond
<1>4. ~T.job.dry => LevelInv'
  <2> SUFFICES ASSUME ~T.job.dry PROVE LevelInv'
    OBVIOUS
  <2> DEFINE level == Pattern(Driver)[T.moment].power
  <2>1. SetTxPower(Driver, level)
    BY DEF KeyCarrier, T
  <2>2. level \in Power
    BY <1>2, LevelType
  <2>3. D_op' = level /\ freq' = freq
    BY <2>1, DriverAssumption DEF SetTxPower, Enter, D_op, TxInv, TxTypeOK, TypeOK
  <2>4. freq[Driver] = CarrierOf(T.job.source)
    BY <1>2 DEF TimeInv, LevelInv, InAMinute, AtASecond
  <2>5. T'.moment = T.moment /\ Pattern(Driver)' = Pattern(Driver)
    BY <1>1, CallFrame
  <2> QED
    BY <1>2, <2>2, <2>3, <2>4, <2>5 DEF LevelInv, Power
<1>5. ~T.job.dry => EarlyInv' /\ LateInv'
  BY <1>1, <1>2, CallFrame DEF TimeInv, EarlyInv, LateInv, AtASecond
<1>6. OverInv'
  BY <1>1, <1>2, CallFrame DEF TimeInv, OverInv, AtALevel, Live, Ended, T
<1> QED
  BY <1>2, <1>3, <1>4, <1>5, <1>6 DEF TimeInv

LEMMA EndTimely ==
  ASSUME TxInv, TimeInv, StopCarrier(Driver) \/ Exit(Driver)
  PROVE  TimeInv'
<1>1. PICK place \in {"stop", "exit"}, next \in {"exit", "done"} :
        From(Driver, place, To(Driver, next)) /\ UNCHANGED timer
  BY DEF StopCarrier, Exit, Software
<1>2. MinuteInv' /\ WakeInv'
  BY <1>1, CallFrame DEF TimeInv, MinuteInv, WakeInv, InAMinute, AtASecond
<1>3. LevelInv' /\ EarlyInv' /\ LateInv'
  BY <1>1, CallFrame DEF LevelInv, EarlyInv, LateInv, InAMinute, AtASecond
<1>4. OverInv'
  BY <1>1, CallFrame DEF TimeInv, OverInv, AtALevel, Live, Ended, T
<1> QED
  BY <1>2, <1>3, <1>4 DEF TimeInv

(* A register access: no variable of main() changes.                         *)
LEMMA HardwareTimely == ASSUME TxInv, TimeInv, Hardware(Driver) PROVE TimeInv'
<1>1. /\ RegisterAccess(Driver) /\ T' = T /\ UNCHANGED <<clock, stepped, overtime>>
      /\ UNCHANGED tx
  BY DEF Hardware, timer, T
<1>2. pc[Driver] # "idle" /\ freq' = freq
  BY <1>1 DEF RegisterAccess, Kill, AwaitIdle, Unmux, SetDivider, SetControl, ReadControl,
     Enable, Float17, ReadFsel17, Drive17, Clear17, ReadFsel4, Mux, Goto, Return
<1>3. /\ Pattern(Driver)' = Pattern(Driver) /\ Start' = Start /\ Due' = Due
      /\ \A i : LevelAt(i)' = LevelAt(i)
  BY <1>1, SecondFrame DEF Due
<1>4. MinuteInv' /\ WakeInv'
  BY <1>1, <1>3 DEF TimeInv, MinuteInv, WakeInv
<1>5. EarlyInv' <=> EarlyInv
  BY <1>1, <1>3 DEF EarlyInv, NeverSetBack
<1>6. LateInv' <=> LateInv
  BY <1>1, <1>3 DEF LateInv
<1>7. OverInv'
  BY <1>1, <1>3 DEF TimeInv, OverInv, Live, T
<1>8. ~T.job.dry => LevelInv'
  <2> SUFFICES ASSUME ~T.job.dry PROVE LevelInv'
    OBVIOUS
  <2>1. IInv /\ D_op # "none"
    <3>1. T.at # "killed"
      BY <1>2 DEF TxInv, CallInv, InNoCall, D_pc
    <3>2. IInv
      BY <3>1 DEF TxInv, DriverInv
    <3> QED
      BY <1>1, <3>2, Accessed
  <2>2. T.at \in {"minute", "keyed", "exit"}
    <3>1. T.at \in Place
      BY MainStateOfDriver DEF MainState
    <3> QED
      BY <1>2, <3>1
      DEF TxInv, CallInv, BeforeStart, InAMinute, AtASecond, InNoCall, Stopped, D_pc, Place, Ended
  <2>3. \/ D_op' = D_op /\ settled' = settled
        \/ D_op = "start" /\ settled'[Driver] = "carrier"
        \/ D_op \in Power /\ D_op' = "none" /\ settled'[Driver] = D_op
        \/ D_op = "stop"
    BY <1>1, <2>1, AccessSettles
  <2>4. CASE T.at = "minute"
    <3>1. D_op = "start" /\ settled[Driver] = "off"
      BY <2>1, <2>4 DEF TxInv, CallInv, InNoCall, IInv, OpMatchesPc, Ready
    <3>2. settled'[Driver] \in {"off", "carrier"}
      BY <2>3, <3>1 DEF Power
    <3>3. ~T.interrupted => Due = 0
      <4>1. ~T.interrupted => EndsWith(T.job, Due, "off")
        BY <2>4, <3>1 DEF TimeInv, LevelInv
      <4>2. ASSUME Due # 0, EndsWith(T.job, Due, "off") PROVE FALSE
        <5> DEFINE pattern == Sent(T.job, Due - 1)
        <5>1. Proper(pattern) /\ "off" = pattern[Len(pattern)].power
          BY <4>2 DEF EndsWith
        <5> HIDE DEF pattern
        <5>2. pattern[Len(pattern)].power \in Power
          BY <5>1, BeginsRise
        <5> QED
          BY <5>1, <5>2 DEF Power
      <4> QED
        BY <4>1, <4>2
    <3>4. ~T.interrupted => EndsWith(T.job, Due, settled'[Driver])
      BY <3>2, <3>3 DEF EndsWith
    <3> QED
      BY <1>1, <1>2, <1>3, <2>4, <3>4 DEF TimeInv, LevelInv, InAMinute, AtASecond
  <2>5. CASE T.at = "keyed"
    <3>1. D_op \in Power /\ D_op = Pattern(Driver)[T.moment].power
      BY <2>1, <2>5 DEF TxInv, CallInv, InNoCall, TimeInv, LevelInv
    <3> QED
      BY <1>1, <1>2, <1>3, <2>3, <2>5, <3>1 DEF TimeInv, LevelInv, InAMinute, AtASecond, Power
  <2>6. CASE T.at = "exit"
    BY <1>1, <2>6 DEF LevelInv, InAMinute, AtASecond
  <2> QED
    BY <2>2, <2>4, <2>5, <2>6
<1> QED
  BY <1>1, <1>4, <1>5, <1>6, <1>7, <1>8 DEF TimeInv


(* When a signal may come: a process that was not interrupted has no more      *)
(* than a second to go to its last level or to its next second.              *)
LEMMA SecondToGo ==
  ASSUME TxInv, TimeInv, ~T.job.dry, ~T.interrupted, NeverSetBack
  PROVE  /\ T.at \in {"wait", "asleep"} => T.wake - clock <= TicksPerSecond
         /\ T.at \in AtALevel => LevelAt(Len(Pattern(Driver))) - clock <= TicksPerSecond
<1>1. MinuteInv /\ WakeInv /\ LevelInv /\ EarlyInv
  BY DEF TimeInv
<1>2. Start \in Nat /\ clock \in Nat /\ TicksPerSecond \in Nat \ {0}
  BY StartType
<1>3. CASE T.at \in {"wait", "asleep"}
  <2>1. T.wake = Start /\ Due = Start
    BY <1>1, <1>3 DEF WakeInv, Due
  <2>2. CASE Start = 0
    BY <1>2, <1>3, <2>1, <2>2 DEF AtALevel
  <2>3. CASE Start # 0
    <3> DEFINE pattern == Sent(T.job, Start - 1)
    <3>1. Proper(pattern)
      BY <1>1, <1>3, <2>1, <2>3 DEF LevelInv, EndsWith
    <3>2. clock >= Start - TicksPerSecond + Begins(pattern, Len(pattern))
      BY <1>1, <1>2, <1>3, <2>1, <2>3 DEF EarlyInv, LastBegins
    <3> HIDE DEF pattern
    <3>3. Begins(pattern, Len(pattern)) \in Nat
      <4>1. Len(pattern) \in 1 .. Len(pattern)
        BY <3>1, BeginsRise
      <4> QED
        BY <3>1, <4>1, BeginsRise
    <3> QED
      BY <1>2, <1>3, <2>1, <3>2, <3>3 DEF AtALevel
  <2> QED
    BY <2>2, <2>3
<1>4. CASE T.at \in AtALevel
  <2>1. T.at \in AtASecond
    BY <1>4 DEF AtALevel, AtASecond
  <2> DEFINE n == Len(Pattern(Driver))
  <2>2. /\ T.moment \in 1 .. n /\ n \in Nat \ {0}
        /\ \A i \in 1 .. n : LevelAt(i) \in Nat /\ Start <= LevelAt(i)
        /\ LevelAt(n) < Start + TicksPerSecond
    BY <1>1, <2>1, LevelsOfSecond
  <2>3. LevelAt(T.moment) \in Nat /\ LevelAt(n) \in Nat /\ Start <= LevelAt(T.moment)
    BY <2>2
  <2>4. clock >= LevelAt(T.moment)
    <3>1. CASE T.at \in {"key", "keyed"}
      BY <1>1, <3>1 DEF EarlyInv, WakeInv
    <3>2. CASE T.at \in {"nap", "napping"}
      BY <1>1, <3>2 DEF EarlyInv
    <3>3. CASE T.at = "next"
      <4>1. /\ T.wake = LevelAt(T.moment + 1) /\ T.moment < n /\ clock >= T.wake
            /\ T.moment \in Nat
        BY <1>1, <2>2, <3>3 DEF EarlyInv, WakeInv
      <4>2. LevelAt(T.moment + 1) = LevelAt(T.moment) + Pattern(Driver)[T.moment].ticks
              /\ Pattern(Driver)[T.moment].ticks \in Nat
        BY <1>1, <2>1, <2>2, <4>1, LevelsOfSecond
      <4> QED
        BY <1>2, <2>3, <4>1, <4>2
    <3> QED
      BY <1>4, <3>1, <3>2, <3>3 DEF AtALevel
  <2> HIDE DEF n
  <2>5. LevelAt(n) - clock <= TicksPerSecond
    BY <1>2, <2>2, <2>3, <2>4
  <2> QED
    BY <1>4, <2>5 DEF AtALevel, n
<1> QED
  BY <1>3, <1>4

LEMMA SigtermTimely == ASSUME TxInv, TimeInv, Sigterm(Driver) PROVE TimeInv'
<1> DEFINE next == IF T.at = "init" THEN "killed"
                   ELSE IF T.at = "asleep" THEN "awake"
                   ELSE IF T.at = "napping" THEN "next" ELSE T.at
           flag == IF T.at = "init" THEN T.interrupted ELSE TRUE
<1>1. /\ T \in MainState /\ T.at \notin Ended \cup {"off"} /\ Software
      /\ T' = [T EXCEPT !.at = next, !.interrupted = flag]
  BY SigtermStep, Became
<1>2. /\ T'.at = next /\ T'.job = T.job /\ T'.now = T.now /\ T'.minute = T.minute
      /\ T'.ttl = T.ttl /\ T'.second = T.second /\ T'.prepared = T.prepared
      /\ T'.moment = T.moment /\ T'.wake = T.wake /\ T'.interrupted = flag
  BY <1>1 DEF MainState
<1>3. /\ Pattern(Driver)' = Pattern(Driver) /\ Start' = Start
      /\ \A i : LevelAt(i)' = LevelAt(i)
  BY <1>2, SecondFrame
<1>4. MinuteInv' /\ WakeInv'
  BY <1>1, <1>2, <1>3 DEF TimeInv, MinuteInv, WakeInv, InAMinute, AtASecond
<1>5. ~T.job.dry => LevelInv'
  BY <1>1, <1>2, <1>3, SoftwareFrame DEF TimeInv, LevelInv, InAMinute, AtASecond, Due
<1>6. EarlyInv' /\ LateInv'
  <2>1. CASE T.at = "init"
    BY <1>2, <2>1 DEF EarlyInv, LateInv, AtASecond
  <2>2. CASE T.at # "init"
    BY <1>2, <2>2 DEF EarlyInv, LateInv
  <2> QED
    BY <2>1, <2>2
<1>7. OverInv'
  <2>1. CASE T.at = "init"
    BY <1>1, <1>2, <2>1, SoftwareFrame DEF TimeInv, OverInv, Live, Ended, T
  <2>2. CASE T.at # "init" /\ T.interrupted
    BY <1>1, <1>2, <1>3, <2>2, SoftwareFrame DEF TimeInv, OverInv, AtALevel, Live, Ended, T
  <2>3. CASE T.at # "init" /\ ~T.interrupted
    <3>1. overtime[Driver] = 0 /\ overtime' = overtime /\ clock' = clock
      BY <1>1, <2>3, SoftwareFrame DEF TimeInv, OverInv
    <3>2. clock \in Nat /\ TicksPerSecond \in Nat /\ T.wake \in Nat
      BY StartType
    <3>3. ~T.job.dry /\ ClockSteps \subseteq Nat =>
            /\ next \in {"wait", "asleep"} => 0 + T.wake - clock <= TicksPerSecond
            /\ next \in AtALevel =>
                 0 + LevelAt(Len(Pattern(Driver))) - clock <= TicksPerSecond
      <4> SUFFICES ASSUME ~T.job.dry, ClockSteps \subseteq Nat
                   PROVE  /\ next \in {"wait", "asleep"} => 0 + T.wake - clock <= TicksPerSecond
                          /\ next \in AtALevel =>
                               0 + LevelAt(Len(Pattern(Driver))) - clock <= TicksPerSecond
        OBVIOUS
      <4>1. /\ T.at \in {"wait", "asleep"} => T.wake - clock <= TicksPerSecond
            /\ T.at \in AtALevel => LevelAt(Len(Pattern(Driver))) - clock <= TicksPerSecond
        BY <2>3, SecondToGo DEF NeverSetBack
      <4>2. /\ next \in {"wait", "asleep"} => T.at \in {"wait", "asleep"}
            /\ next \in AtALevel => T.at \in AtALevel
        BY <2>3 DEF AtALevel
      <4>3. next \in AtALevel => LevelAt(Len(Pattern(Driver))) \in Nat
        <5>1. next \in AtALevel => T.at \in AtASecond
          BY <4>2 DEF AtALevel, AtASecond
        <5> QED
          BY <5>1, LevelsOfSecond DEF TimeInv
      <4> HIDE DEF next
      <4> QED
        BY <3>2, <4>1, <4>2, <4>3
    <3> QED
      BY <1>1, <1>2, <1>3, <2>3, <3>1, <3>2, <3>3 DEF OverInv
  <2> QED
    BY <2>1, <2>2, <2>3
<1> QED
  BY <1>2, <1>4, <1>5, <1>6, <1>7 DEF TimeInv

LEMMA SigkillTimely == ASSUME TxInv, TimeInv, Sigkill(Driver) PROVE TimeInv'
<1>1. /\ T \in MainState /\ T' = [T EXCEPT !.at = "killed"]
      /\ UNCHANGED <<clock, stepped, overtime>>
      /\ T.at # "off"
  BY MainStateOfDriver, DriverAssumption DEF Sigkill, To, T, TxInv, TxTypeOK, timer, Live
<1>2. /\ T'.at = "killed" /\ T'.job = T.job /\ T'.now = T.now /\ T'.minute = T.minute
      /\ T'.interrupted = T.interrupted
  BY <1>1 DEF MainState
<1>3. MinuteInv' /\ WakeInv'
  BY <1>1, <1>2 DEF TimeInv, MinuteInv, WakeInv, InAMinute, AtASecond
<1>4. LevelInv' /\ EarlyInv' /\ LateInv'
  BY <1>2 DEF LevelInv, EarlyInv, LateInv, InAMinute, AtASecond
<1>5. OverInv'
  BY <1>1, <1>2 DEF TimeInv, OverInv, Live, Ended, T
<1> QED
  BY <1>3, <1>4, <1>5 DEF TimeInv

-----------------------------------------------------------------------------
(* What is not main().                                                     *)
LEMMA GeneratorTimely ==
  ASSUME TxInv, TimeInv, GeneratorStep \/ UNCHANGED all
  PROVE  TimeInv'
<1>1. /\ T' = T /\ UNCHANGED <<tx, clock, stepped, overtime, settled, freq, D_op>>
  BY DEF GeneratorStep, Generator, GeneratorStops, GeneratorStarts, all, vars, cpu, timer, T, D_op
<1>2. /\ Pattern(Driver)' = Pattern(Driver) /\ Start' = Start /\ Due' = Due
      /\ \A i : LevelAt(i)' = LevelAt(i)
  BY <1>1, SecondFrame DEF Due
<1>3. /\ MinuteInv' <=> MinuteInv
      /\ WakeInv' <=> WakeInv
      /\ LevelInv' <=> LevelInv
      /\ EarlyInv' <=> EarlyInv
      /\ LateInv' <=> LateInv
      /\ OverInv' <=> OverInv
  BY <1>1, <1>2 DEF MinuteInv, WakeInv, LevelInv, EarlyInv, LateInv, OverInv, NeverSetBack, Live
<1> QED
  BY <1>1, <1>3 DEF TimeInv

(* Without main(), the variables of main() stay.                             *)
LEMMA ClockFrame ==
  ASSUME TxInv, TimeInv, UNCHANGED <<vars, tx>>
  PROVE  /\ T' = T /\ Start' = Start /\ Due' = Due
         /\ Pattern(Driver)' = Pattern(Driver) /\ \A i : LevelAt(i)' = LevelAt(i)
         /\ Live(Driver)' <=> Live(Driver)
         /\ MinuteInv' /\ WakeInv' /\ (~T.job.dry => LevelInv')
<1>1. T' = T /\ UNCHANGED <<settled, freq, D_op>>
  BY DEF vars, cpu, T, D_op
<1>2. /\ Pattern(Driver)' = Pattern(Driver) /\ Start' = Start /\ Due' = Due
      /\ \A i : LevelAt(i)' = LevelAt(i)
  BY <1>1, SecondFrame DEF Due
<1>3. /\ MinuteInv' <=> MinuteInv
      /\ WakeInv' <=> WakeInv
      /\ LevelInv' <=> LevelInv
  BY <1>1, <1>2 DEF MinuteInv, WakeInv, LevelInv
<1> QED
  BY <1>1, <1>2, <1>3 DEF TimeInv, Live

(* As the clock goes forward, what had begun has begun.                       *)
LEMMA EarlyStays ==
  ASSUME TxInv, TimeInv, UNCHANGED <<vars, tx>>, clock' \in Nat, clock <= clock',
         NeverSetBack' => NeverSetBack
  PROVE  ~T.job.dry => EarlyInv'
<1> SUFFICES ASSUME ~T.job.dry, EarlyInv, LevelInv, ~T.interrupted, NeverSetBack
             PROVE  EarlyInv'
  BY ClockFrame DEF TimeInv, EarlyInv
<1>1. /\ T' = T /\ Due' = Due /\ Pattern(Driver)' = Pattern(Driver)
      /\ \A i : LevelAt(i)' = LevelAt(i)
  BY ClockFrame
<1>2. clock \in Nat /\ Due \in Nat /\ TicksPerSecond \in Nat /\ T.wake \in Nat
  BY StartType DEF Due
<1>3. ASSUME T.at \in {"minute", "second", "stop", "wait", "asleep"}
      PROVE  LastBegins(T.job, Due, clock')
  <2> SUFFICES ASSUME Due > 0 PROVE LastBegins(T.job, Due, clock')
    BY DEF LastBegins
  <2> DEFINE pattern == Sent(T.job, Due - 1)
  <2>1. Proper(pattern)
    BY <1>2, <1>3 DEF LevelInv, EndsWith
  <2>2. clock >= Due - TicksPerSecond + Begins(pattern, Len(pattern))
    BY <1>3 DEF LastBegins, EarlyInv
  <2> HIDE DEF pattern
  <2>3. Begins(pattern, Len(pattern)) \in Nat
    <3>1. Len(pattern) \in 1 .. Len(pattern)
      BY <2>1, BeginsRise
    <3> QED
      BY <2>1, <3>1, BeginsRise
  <2>4. clock' >= Due - TicksPerSecond + Begins(pattern, Len(pattern))
    BY <1>2, <2>2, <2>3
  <2> QED
    BY <2>4 DEF LastBegins, pattern
<1>4. T.at \in {"nap", "napping"} => LevelAt(T.moment) \in Nat
  <2>1. T.at \in {"nap", "napping"} => T.at \in AtASecond
    BY DEF AtASecond
  <2> QED
    BY <2>1, LevelsOfSecond DEF TimeInv
<1> QED
  BY <1>1, <1>2, <1>3, <1>4 DEF EarlyInv

(* A process that the clock leaves behind sleeps.                            *)
LEMMA AsleepAtTick ==
  ASSUME TxInv, Tick, RealTime, Live(Driver)
  PROVE  ~T.job.dry /\ T.at \in {"asleep", "napping"} /\ clock < T.wake
<1>1. ~Runnable(Driver)
  BY DriverAssumption DEF Tick
<1> QED
  BY <1>1, StartType DEF Runnable, Sleeping, T

LEMMA TickTimely == ASSUME TxInv, TimeInv, Tick PROVE TimeInv'
<1>1. /\ clock' = clock + 1 /\ stepped' = stepped /\ UNCHANGED <<vars, tx>>
      /\ overtime'[Driver] =
           IF Live(Driver) /\ T.interrupted /\ overtime[Driver] <= TicksPerSecond
           THEN overtime[Driver] + 1 ELSE overtime[Driver]
  BY DriverAssumption DEF Tick, T
<1>2. /\ clock \in Nat /\ T.wake \in Nat /\ Start \in Nat /\ overtime[Driver] \in Nat
      /\ TicksPerSecond \in Nat \ {0} /\ T \in MainState
  BY StartType, MainStateOfDriver
<1>3. /\ T' = T /\ Start' = Start /\ Due' = Due
      /\ Pattern(Driver)' = Pattern(Driver) /\ \A i : LevelAt(i)' = LevelAt(i)
      /\ Live(Driver)' <=> Live(Driver)
      /\ MinuteInv' /\ WakeInv' /\ (~T.job.dry => LevelInv')
  BY <1>1, ClockFrame
<1>4. ~T.job.dry => EarlyInv'
  BY <1>1, <1>2, EarlyStays DEF NeverSetBack
<1>5. ~T.job.dry => LateInv'
  <2> SUFFICES ASSUME ~T.job.dry, LateInv, ~T.interrupted, stepped = 0, RealTime
               PROVE  LateInv'
    BY <1>1, <1>3 DEF TimeInv, LateInv
  <2>1. CASE Live(Driver)
    <3>1. T.at \in {"asleep", "napping"} /\ clock < T.wake
      BY <2>1, AsleepAtTick
    <3> QED
      BY <1>1, <1>2, <1>3, <3>1 DEF LateInv
  <2>2. CASE ~Live(Driver)
    <3>1. T.at \in Ended \cup {"off"}
      BY <2>2 DEF Live, T
    <3> QED
      BY <1>3, <3>1 DEF LateInv, Ended, AtASecond
  <2> QED
    BY <2>1, <2>2
<1>6. OverInv'
  <2>1. ~T.interrupted => overtime'[Driver] = 0
    BY <1>1 DEF TimeInv, OverInv
  <2>2. ASSUME T.job.dry, RealTime PROVE overtime'[Driver] = 0
    BY <1>1, <2>2, AsleepAtTick DEF TimeInv, OverInv
  <2>3. ASSUME Live(Driver), T.interrupted, ~T.job.dry, RealTime, ClockSteps \subseteq Nat
        PROVE  LET over == overtime'[Driver]
               IN  /\ over <= TicksPerSecond
                   /\ T.at \in {"wait", "asleep"} => over + T.wake - clock' <= TicksPerSecond
                   /\ T.at \in AtALevel =>
                        over + LevelAt(Len(Pattern(Driver))) - clock' <= TicksPerSecond
    <3>1. T.at \in {"asleep", "napping"} /\ clock < T.wake
      BY <2>3, AsleepAtTick
    <3>2. overtime[Driver] <= TicksPerSecond /\ overtime'[Driver] = overtime[Driver] + 1
      BY <1>1, <2>3 DEF TimeInv, OverInv
    <3>3. CASE T.at = "asleep"
      <4>1. overtime[Driver] + T.wake - clock <= TicksPerSecond
        BY <2>3, <3>3 DEF TimeInv, OverInv
      <4> QED
        BY <1>1, <1>2, <3>1, <3>2, <3>3, <4>1 DEF AtALevel
    <3>4. CASE T.at = "napping"
      <4> DEFINE last == LevelAt(Len(Pattern(Driver)))
      <4>1. overtime[Driver] + last - clock <= TicksPerSecond
        BY <2>3, <3>4 DEF TimeInv, OverInv, AtALevel
      <4>2. T.wake <= last /\ last \in Nat
        <5>1. T.moment < Len(Pattern(Driver)) /\ T.wake = LevelAt(T.moment + 1)
          BY <3>4 DEF TimeInv, WakeInv
        <5>2. T.moment \in Nat /\ Len(Pattern(Driver)) \in Nat \ {0}
          BY <3>4, StartType, LevelsOfSecond DEF TimeInv, AtASecond
        <5>3. /\ T.moment + 1 \in 1 .. Len(Pattern(Driver))
              /\ Len(Pattern(Driver)) \in 1 .. Len(Pattern(Driver))
          BY <5>1, <5>2
        <5> QED
          BY <3>4, <5>1, <5>3, LevelsOfSecond DEF TimeInv, AtASecond
      <4> HIDE DEF last
      <4>3. /\ overtime'[Driver] <= TicksPerSecond
            /\ overtime'[Driver] + last - clock' <= TicksPerSecond
        BY <1>1, <1>2, <3>1, <3>2, <4>1, <4>2
      <4> QED
        BY <3>4, <4>3 DEF last
    <3> QED
      BY <3>1, <3>3, <3>4
  <2> QED
    BY <1>3, <2>1, <2>2, <2>3 DEF TimeInv, OverInv
<1> QED
  BY <1>3, <1>4, <1>5, <1>6 DEF TimeInv


LEMMA StepClockTimely == ASSUME TxInv, TimeInv, StepClock PROVE TimeInv'
<1>1. PICK d \in ClockSteps : clock + d \in 0 .. MaxTime /\ clock' = clock + d
  BY DEF StepClock
<1>2. stepped' = stepped + 1 /\ UNCHANGED <<vars, tx, overtime>>
  BY DEF StepClock
<1>3. /\ clock \in Nat /\ clock' \in Nat /\ stepped' # 0 /\ d \in Int
      /\ T.wake \in Nat /\ TicksPerSecond \in Nat /\ overtime[Driver] \in Nat
  BY <1>1, <1>2, StartType, TimeAssumption
<1>4. /\ T' = T /\ Start' = Start /\ Due' = Due
      /\ Pattern(Driver)' = Pattern(Driver) /\ \A i : LevelAt(i)' = LevelAt(i)
      /\ Live(Driver)' <=> Live(Driver)
      /\ MinuteInv' /\ WakeInv' /\ (~T.job.dry => LevelInv')
  BY <1>2, ClockFrame
<1>5. ClockSteps \subseteq Nat => clock <= clock'
  BY <1>1, <1>3
<1>6. ~T.job.dry => EarlyInv'
  <2>1. CASE ClockSteps \subseteq Nat
    BY <1>2, <1>3, <1>5, <2>1, EarlyStays DEF NeverSetBack
  <2>2. CASE ~(ClockSteps \subseteq Nat)
    BY <1>3, <2>2 DEF EarlyInv, NeverSetBack
  <2> QED
    BY <2>1, <2>2
<1>7. LateInv'
  BY <1>3 DEF LateInv
<1>8. OverInv'
  <2>1. ASSUME T.at \in AtALevel PROVE LevelAt(Len(Pattern(Driver))) \in Nat
    <3>1. T.at \in AtASecond
      BY <2>1 DEF AtALevel, AtASecond
    <3> QED
      BY <3>1, LevelsOfSecond DEF TimeInv
  <2>2. overtime' = overtime
    BY <1>2
  <2>3. ClockSteps \subseteq Nat =>
          \A o, end \in Nat :
            o + end - clock <= TicksPerSecond => o + end - clock' <= TicksPerSecond
    <3> SUFFICES ASSUME clock <= clock', NEW o \in Nat, NEW end \in Nat,
                        o + end - clock <= TicksPerSecond
                 PROVE  o + end - clock' <= TicksPerSecond
      BY <1>5
    <3>1. \A a, b, now, later, second \in Nat :
            now <= later /\ a + b - now <= second => a + b - later <= second
      OBVIOUS
    <3> QED
      BY <1>3, <3>1
  <2>4. /\ T.at = "off" => ~T.interrupted
        /\ ~T.interrupted \/ (T.job.dry /\ RealTime) => overtime[Driver] = 0
    BY DEF TimeInv, OverInv
  <2>5. ASSUME Live(Driver), T.interrupted, ~T.job.dry, RealTime, ClockSteps \subseteq Nat
        PROVE  /\ overtime[Driver] <= TicksPerSecond
               /\ T.at \in {"wait", "asleep"} =>
                    overtime[Driver] + T.wake - clock' <= TicksPerSecond
               /\ T.at \in AtALevel =>
                    overtime[Driver] + LevelAt(Len(Pattern(Driver))) - clock' <= TicksPerSecond
    BY <1>3, <2>1, <2>3, <2>5 DEF TimeInv, OverInv
  <2> QED
    BY <1>4, <2>2, <2>4, <2>5 DEF OverInv
<1> QED
  BY <1>4, <1>6, <1>7, <1>8 DEF TimeInv

LEMMA LaunchIsTimely == BeforeLaunch => TimeInv
<1> SUFFICES ASSUME BeforeLaunch PROVE TimeInv
  OBVIOUS
<1>1. PICK job \in Job :
        T = [at |-> "off", job |-> job, now |-> 0, minute |-> 0,
             ttl |-> 0, second |-> 0, prepared |-> 0, moment |-> 1,
             wake |-> 0, interrupted |-> FALSE]
  BY DriverAssumption DEF BeforeLaunch, T
<1>2. T.at = "off" /\ T.now = 0 /\ ~T.interrupted /\ overtime[Driver] = 0
  BY <1>1, DriverAssumption DEF BeforeLaunch
<1> QED
  BY <1>2
  DEF TimeInv, MinuteInv, WakeInv, LevelInv, EarlyInv, LateInv, OverInv, InAMinute, AtASecond

LEMMA TxNextTimely == TxInv /\ TimeInv /\ [TxNext]_all => TimeInv'
<1> SUFFICES ASSUME TxInv, TimeInv, [TxNext]_all PROVE TimeInv'
  OBVIOUS
<1>1. CASE Main(Driver)
  BY <1>1, BeginningTimely, StartCarrierTimely, BeginMinuteTimely, LeaveLoopTimely,
     BeginSecondTimely, EndMinuteTimely, SleepTimely, WakeUpTimely, AtSecondTimely,
     KeyCarrierTimely, AfterKeyingTimely, NextMomentTimely, EndTimely
  DEF Main
<1>2. CASE \/ Launch(Driver) \/ Hardware(Driver) \/ Sigterm(Driver) \/ Sigkill(Driver)
  BY <1>2, LaunchTimely, HardwareTimely, SigtermTimely, SigkillTimely
<1>3. CASE GeneratorStep \/ Tick \/ StepClock \/ UNCHANGED all
  BY <1>3, GeneratorTimely, TickTimely, StepClockTimely
<1> QED
  BY <1>1, <1>2, <1>3, DriverAssumption DEF TxNext

LEMMA AlwaysTimely == TxSpec => [](TxInv /\ TimeInv)
<1>1. TxInit => TxInv /\ TimeInv
  BY TxInitLaunches, LaunchInv, LaunchIsTimely
<1>2. (TxInv /\ TimeInv) /\ [TxNext]_all => (TxInv /\ TimeInv)'
  BY TxNextInv, TxNextTimely
<1> QED
  BY <1>1, <1>2, PTL DEF TxSpec

-----------------------------------------------------------------------------
(***************************************************************************)
(* However late the process is run, it keys no level before the wall clock     *)
(* reaches the moment at which the level begins: for any patterns, clocks      *)
(* that are set, and delays of the scheduler (txtempus.cc:51-54, 228-242).     *)
(***************************************************************************)
THEOREM LevelsAreNeverEarly == TxSpec => NeverEarly
<1> DEFINE KeyedInTime(p) ==
             tx[p].at = "key" /\ tx[p].at # tx'[p].at
               /\ ~tx[p].interrupted /\ ~tx[p].job.dry /\ stepped = 0
             => clock >= tx[p].minute + tx[p].second * TicksPerSecond
                           + Begins(Pattern(p), tx[p].moment)
<1>1. ASSUME TxInv, TimeInv PROVE \A p \in Proc : KeyedInTime(p)
  <2> SUFFICES ASSUME T.at = "key", ~T.interrupted, ~T.job.dry, stepped = 0
               PROVE  clock >= T.minute + T.second * TicksPerSecond
                                 + Begins(Pattern(Driver), T.moment)
    BY DriverAssumption DEF T
  <2>1. clock >= T.wake /\ T.wake = LevelAt(T.moment)
    BY <1>1 DEF TimeInv, EarlyInv, WakeInv, NeverSetBack
  <2> QED
    BY <2>1 DEF LevelAt, Start
<1>2. TxInv /\ TimeInv => [\A p \in Proc : KeyedInTime(p)]_all
  BY <1>1
<1> QED
  BY <1>2, AlwaysTimely, PTL DEF NeverEarly

(***************************************************************************)
(* -r n is n minutes: an uninterrupted process leaves its loop in the last     *)
(* second of the n-th full minute, for every n (txtempus.cc:145, 218).        *)
(***************************************************************************)
THEOREM RunsItsMinutes == TxSpec => []RunLength
<1>1. ASSUME TxInv, TimeInv PROVE RunLength
  <2> DEFINE end == T.now + T.job.ttl * Minute
  <2> SUFFICES ASSUME T.at = "stop", ~T.interrupted, ~T.job.dry, T.job.ttl > 0, stepped = 0
               PROVE  /\ T.minute = end
                      /\ clock >= end - TicksPerSecond
                      /\ RealTime => clock < end
    BY DriverAssumption DEF RunLength, T
  <2>1. /\ T.job.ttl \in Nat \ {0} /\ T.now = 0 /\ T.minute = T.job.ttl * Minute
        /\ Due = T.minute
    BY <1>1 DEF TimeInv, MinuteInv, Due
  <2>2. /\ clock \in Nat /\ T.minute \in Nat /\ TicksPerSecond \in Nat \ {0}
        /\ Minute \in Nat \ {0}
    BY <1>1, StartType
  <2>3. T.minute >= Minute
    <3>1. \A a, b \in Nat \ {0} : a * b >= b
      OBVIOUS
    <3> QED
      BY <2>1, <2>2, <3>1
  <2> DEFINE pattern == Sent(T.job, T.minute - 1)
  <2>4. Proper(pattern) /\ clock >= T.minute - TicksPerSecond + Begins(pattern, Len(pattern))
    <3>1. EndsWith(T.job, T.minute, settled[Driver]) /\ LastBegins(T.job, T.minute, clock)
      BY <1>1, <2>1 DEF TimeInv, LevelInv, EarlyInv, NeverSetBack
    <3> QED
      BY <2>2, <2>3, <3>1 DEF EndsWith, LastBegins
  <2> HIDE DEF pattern
  <2>5. Begins(pattern, Len(pattern)) \in Nat
    <3>1. Len(pattern) \in 1 .. Len(pattern)
      BY <2>4, BeginsRise
    <3> QED
      BY <2>4, <3>1, BeginsRise
  <2>6. end = T.minute
    BY <2>1, <2>2
  <2>7. RealTime => clock < T.minute
    <3>1. RealTime => clock < Minute \/ clock < Due
      BY <1>1 DEF TimeInv, LateInv
    <3> QED
      BY <2>1, <2>2, <2>3, <3>1
  <2> HIDE DEF end
  <2> QED
    BY <2>2, <2>4, <2>5, <2>6, <2>7
<1> QED
  BY <1>1, AlwaysTimely, PTL

(***************************************************************************)
(* A signal stops a process that is run whenever it can within a second,       *)
(* wherever it hits and however long the patterns of the source are, if the    *)
(* wall clock is only ever set forward (txtempus.cc:224-243).                *)
(***************************************************************************)
THEOREM StopsInTime ==
  ASSUME RealTime, ClockSteps \subseteq Nat
  PROVE  TxSpec => []StopsWithinASecond
<1>1. ASSUME TxInv, TimeInv PROVE StopsWithinASecond
  <2> SUFFICES ASSUME Live(Driver) PROVE overtime[Driver] <= TicksPerSecond
    BY DriverAssumption DEF StopsWithinASecond
  <2>1. CASE ~T.interrupted \/ T.job.dry
    BY <1>1, <2>1, StartType DEF TimeInv, OverInv
  <2>2. CASE T.interrupted /\ ~T.job.dry
    BY <1>1, <2>2 DEF TimeInv, OverInv
  <2> QED
    BY <2>1, <2>2
<1> QED
  BY <1>1, AlwaysTimely, PTL

(* Of all steps only KeyCarrier asks for a level.                           *)
LEMMA OnlyKeyCarrierKeys ==
  ASSUME TxInv, [TxNext]_all, op[Driver] = "none", op'[Driver] = "LOW"
  PROVE  KeyCarrier(Driver)
<1> USE DriverAssumption
<1>1. op \in [Proc -> {"none", "start", "stop"} \cup Power]
  BY DEF TxInv, TxTypeOK, TypeOK
<1>2. CASE Main(Driver)
  <2>1. ~StartCarrier(Driver) /\ ~StopCarrier(Driver)
    BY <1>1 DEF StartCarrier, StopCarrier, StartClock, StopClock, Enter, vars, cpu
  <2>2. ~Software
    BY DEF Software, vars, cpu
  <2> QED
    BY <1>2, <2>1, <2>2
    DEF Main, InitFails, InitSucceeds, Crash, BeginMinute, LeaveLoop, BeginSecond,
        EndMinute, Sleep, WakeUp, AtSecond, AfterKeying, NextMoment, Exit
<1>3. CASE Hardware(Driver)
  <2>1. pc[Driver] # "idle"
    BY <1>3 DEF Hardware, RegisterAccess, Kill, AwaitIdle, Unmux, SetDivider, SetControl,
       ReadControl, Enable, Float17, ReadFsel17, Drive17, Clear17, ReadFsel4, Mux, Goto, Return
  <2>2. D_op # "none"
    BY <2>1 DEF TxInv, DriverInv, IInv, OpMatchesPc, D_pc, D_op, CallInv, InNoCall
  <2> QED
    BY <2>2 DEF D_op
<1>4. CASE \/ Launch(Driver) \/ Sigterm(Driver) \/ Sigkill(Driver)
           \/ GeneratorStep \/ Tick \/ StepClock \/ UNCHANGED all
  BY <1>1, <1>4 DEF Launch, Sigterm, Sigkill, GeneratorStep, Generator, GeneratorStops,
     GeneratorStarts, Tick, StepClock, Software, all, vars, cpu
<1> QED
  BY <1>2, <1>3, <1>4 DEF TxNext

(***************************************************************************)
(* LOW is never asked for while LOW is keyed (rpi-control.cc:323-327), for     *)
(* all patterns that never put one after the other: main() passes over no      *)
(* level and keys none twice, whatever interrupts it (txtempus.cc:228-243).    *)
(***************************************************************************)
THEOREM LowIsKeyedOnce == TxSpec => LowIsNeverRekeyed
<1> DEFINE Once == \A p \in Proc : op[p] = "none" /\ op'[p] = "LOW" => settled[p] # "LOW"
<1>1. ASSUME TxInv, TimeInv, [TxNext]_all PROVE Once
  <2> SUFFICES ASSUME op[Driver] = "none", op'[Driver] = "LOW", settled[Driver] = "LOW"
               PROVE  FALSE
    BY DriverAssumption
  <2>1. KeyCarrier(Driver)
    BY <1>1, OnlyKeyCarrierKeys
  <2> DEFINE P == Pattern(Driver)
  <2>2. T.at = "key" /\ ~T.job.dry /\ P[T.moment].power = "LOW"
    BY <1>1, <2>1, DriverAssumption
    DEF KeyCarrier, From, SetTxPower, Enter, TxInv, TxTypeOK, TypeOK, vars, cpu, T
  <2>3. T.at \in AtASecond /\ MinuteInv /\ LevelInv
    BY <1>1, <2>2 DEF TimeInv, AtASecond
  <2>4. T.moment \in 1 .. Len(P) /\ Len(P) \in Nat \ {0}
    BY <1>1, <2>3, LevelsOfSecond
  <2>5. CASE T.moment = 1
    <3>1. EndsWith(T.job, Start, "LOW") /\ Start \in Nat
      BY <1>1, <2>2, <2>3, <2>5, StartType DEF LevelInv, Due
    <3>2. Start > 0
      BY <3>1 DEF EndsWith
    <3> DEFINE last == Sent(T.job, Start - 1)
    <3>3. last[Len(last)].power = "LOW"
      BY <3>1, <3>2 DEF EndsWith
    <3> QED
      BY <1>1, <2>2, <2>3, <2>5, <3>2, <3>3, SecondsDiffer
  <2>6. CASE T.moment # 1
    <3>1. T.moment > 1 /\ T.moment - 1 \in 1 .. Len(P) - 1 /\ (T.moment - 1) + 1 = T.moment
      BY <2>4, <2>6
    <3>2. P[T.moment - 1].power = "LOW"
      BY <2>2, <2>3, <3>1 DEF LevelInv
    <3> QED
      BY <1>1, <2>2, <2>3, <3>1, <3>2, PatternIsSent
  <2> QED
    BY <2>5, <2>6
<1>2. TxInv /\ TimeInv /\ [TxNext]_all => [Once]_all
  BY <1>1
<1> QED
  BY <1>2, AlwaysTimely, PTL DEF TxSpec, LowIsNeverRekeyed


-----------------------------------------------------------------------------
(* The level that is scheduled for a time within a second: the last that has   *)
(* begun.                                                                  *)
LEMMA LevelScheduled ==
  ASSUME NEW j, NEW k \in Nat, NEW s \in 0 .. SecondsPerMinute - 1,
         NEW x \in 0 .. TicksPerSecond - 1, NEW pattern, Proper(pattern),
         Sent(j, k * Minute + s * TicksPerSecond + x) = pattern,
         NEW i \in 1 .. Len(pattern), Begins(pattern, i) <= x,
         i < Len(pattern) => x < Begins(pattern, i + 1)
  PROVE  Scheduled(j, k * Minute + s * TicksPerSecond + x) = pattern[i].power
<1> DEFINE t == k * Minute + s * TicksPerSecond + x
           begun == {n \in 1 .. Len(pattern) : Begins(pattern, n) <= t % TicksPerSecond}
           latest == CHOOSE n \in begun : \A l \in begun : l <= n
<1>1. t % TicksPerSecond = x
  BY ClockReads
<1>2. pattern = Modulation(j.source, (t \div Minute) + j.offset,
                           (t % Minute) \div TicksPerSecond)
  BY DEF Sent
<1>3. Scheduled(j, t) = pattern[latest].power
  BY <1>2 DEF Scheduled
<1> HIDE DEF t
<1>4. /\ Len(pattern) \in Nat
      /\ \A n \in 1 .. Len(pattern) : Begins(pattern, n) \in Nat
      /\ \A n \in 1 .. Len(pattern) : \A l \in 1 .. n - 1 :
           Begins(pattern, l) < Begins(pattern, n)
  BY BeginsRise
<1>5. i \in begun
  BY <1>1
<1>6. ASSUME NEW l \in begun PROVE l <= i
  <2> SUFFICES ASSUME l > i PROVE FALSE
    OBVIOUS
  <2>1. l \in 1 .. Len(pattern) /\ Begins(pattern, l) <= x
    BY <1>1
  <2>2. i + 1 \in 1 .. Len(pattern) /\ i < Len(pattern)
    BY <1>4, <2>1
  <2>3. l = i + 1 \/ i + 1 \in 1 .. l - 1
    BY <2>1, <2>2
  <2>4. Begins(pattern, i + 1) <= Begins(pattern, l)
    BY <1>4, <2>1, <2>2, <2>3
  <2> QED
    BY <1>4, <2>1, <2>2, <2>4
<1>7. latest \in begun /\ \A l \in begun : l <= latest
  BY <1>5, <1>6
<1> HIDE DEF latest
<1>8. latest = i
  <2>1. latest \in Nat /\ i \in Nat /\ latest <= i /\ i <= latest
    BY <1>5, <1>6, <1>7
  <2> QED
    BY <2>1
<1> QED
  BY <1>3, <1>8 DEF t

(* The fields of the wall clock in the second before this one.               *)
LEMMA SecondBefore ==
  ASSUME TxInv, MinuteInv, T.at \in AtASecond, Start > 0
  PROVE  \E k \in Nat : \E s \in 0 .. SecondsPerMinute - 1 :
           Start - TicksPerSecond = k * Minute + s * TicksPerSecond
<1>1. PICK m \in 0 .. LastMinute(T.job) :
        T.minute = m * Minute /\ T.prepared = m + T.job.offset
  BY PreparedMinute DEF InAMinute
<1>2. T.second \in 0 .. SecondsPerMinute - 1
  BY DEF TxInv, PatternInv
<1>3. /\ TicksPerSecond \in Nat \ {0} /\ SecondsPerMinute \in Nat \ {0}
      /\ Minute = SecondsPerMinute * TicksPerSecond /\ Minute \in Nat
      /\ m \in Nat /\ Start = m * Minute + T.second * TicksPerSecond
  BY <1>1, StartType, TimeAssumption DEF Start, Minute
<1>4. CASE T.second > 0
  <2>1. T.second - 1 \in 0 .. SecondsPerMinute - 1
    BY <1>2, <1>3, <1>4
  <2>2. (T.second - 1) * TicksPerSecond = T.second * TicksPerSecond - TicksPerSecond
    BY <1>2, <1>3
  <2>3. T.second * TicksPerSecond \in Nat /\ m * Minute \in Nat
    BY <1>2, <1>3, Products
  <2>4. Start - TicksPerSecond = m * Minute + (T.second - 1) * TicksPerSecond
    BY <1>3, <2>2, <2>3
  <2> QED
    BY <1>3, <2>1, <2>4
<1>5. CASE T.second = 0
  <2>1. T.second * TicksPerSecond = 0
    BY <1>3, <1>5
  <2>2. m > 0 /\ m - 1 \in Nat
    BY <1>3, <2>1
  <2>3. (m - 1) * Minute = m * Minute - Minute
    BY <1>3, <2>2
  <2>4. (SecondsPerMinute - 1) * TicksPerSecond = Minute - TicksPerSecond
    BY <1>3
  <2>5. m * Minute \in Nat
    BY <1>3, Products
  <2>6. Start - TicksPerSecond = (m - 1) * Minute + (SecondsPerMinute - 1) * TicksPerSecond
    BY <1>3, <2>1, <2>3, <2>4, <2>5
  <2>7. SecondsPerMinute - 1 \in 0 .. SecondsPerMinute - 1
    BY <1>3
  <2> QED
    BY <2>2, <2>6, <2>7
<1> QED
  BY <1>2, <1>4, <1>5

(* A process that sleeps until the next level of a second.                    *)
LEMMA NappingOnSchedule ==
  ASSUME TxInv, TimeInv, T.at = "napping", ~T.job.dry, ~T.interrupted,
         NeverSetBack, clock < T.wake
  PROVE  settled[Driver] = Scheduled(T.job, clock)
<1> DEFINE P == Pattern(Driver)
<1>1. T.at \in AtASecond /\ MinuteInv
  BY DEF AtASecond, TimeInv
<1>2. /\ clock >= LevelAt(T.moment) /\ T.wake = LevelAt(T.moment + 1)
      /\ T.moment < Len(P) /\ settled[Driver] = P[T.moment].power
  BY DEF TimeInv, EarlyInv, WakeInv, LevelInv
<1>3. /\ Proper(P) /\ Len(P) \in Nat \ {0} /\ T.moment \in 1 .. Len(P)
      /\ \A i \in 1 .. Len(P) : Begins(P, i) \in Nat
      /\ Begins(P, Len(P)) < TicksPerSecond
  <2>1. Proper(P) /\ T.moment \in 1 .. Len(P)
    BY <1>1, LevelsOfSecond
  <2> QED
    BY <2>1, BeginsRise DEF Proper, FitsSecond
<1>4. Start \in Nat /\ clock \in Nat /\ TicksPerSecond \in Nat \ {0}
  BY StartType
<1> DEFINE x == clock - Start
<1>5. /\ clock = Start + x /\ x \in 0 .. TicksPerSecond - 1
      /\ Begins(P, T.moment) <= x /\ x < Begins(P, T.moment + 1)
  <2>1. LevelAt(T.moment) = Start + Begins(P, T.moment)
          /\ LevelAt(T.moment + 1) = Start + Begins(P, T.moment + 1)
    BY DEF LevelAt
  <2>2. T.moment + 1 \in 1 .. Len(P)
    BY <1>2, <1>3
  <2>3. /\ Begins(P, T.moment) \in Nat /\ Begins(P, T.moment + 1) \in Nat
        /\ Begins(P, T.moment + 1) <= Begins(P, Len(P)) /\ Begins(P, Len(P)) \in Nat
    <3>1. \A k \in 1 .. Len(P) : \A i \in 1 .. k - 1 : Begins(P, i) < Begins(P, k)
      BY <1>3, BeginsRise
    <3>2. Len(P) \in 1 .. Len(P)
      BY <1>3
    <3>3. T.moment + 1 = Len(P) \/ T.moment + 1 \in 1 .. Len(P) - 1
      BY <1>3, <2>2
    <3>4. /\ Begins(P, T.moment) \in Nat /\ Begins(P, T.moment + 1) \in Nat
          /\ Begins(P, Len(P)) \in Nat
      BY <1>3, <2>2, <3>2
    <3> QED
      BY <3>1, <3>2, <3>3, <3>4
  <2> HIDE DEF P
  <2> QED
    BY <1>2, <1>3, <1>4, <2>1, <2>3, SMTT(30)
<1>6. PICK m \in 0 .. LastMinute(T.job) :
        T.minute = m * Minute /\ T.prepared = m + T.job.offset
  BY <1>1, PreparedMinute DEF InAMinute
<1>7. T.second \in 0 .. SecondsPerMinute - 1 /\ m \in Nat
  BY <1>1 DEF TxInv, PatternInv
<1>8. Sent(T.job, clock) = P
  BY <1>1, <1>5, PatternIsSent
<1> HIDE DEF x, P
<1>9. clock = m * Minute + T.second * TicksPerSecond + x
  BY <1>5, <1>6 DEF Start
<1> QED
  BY <1>2, <1>3, <1>5, <1>7, <1>8, <1>9, LevelScheduled

(* A process that sleeps until the next second: the last level of this one     *)
(* is keyed.                                                               *)
LEMMA AsleepOnSchedule ==
  ASSUME TxInv, TimeInv, T.at = "asleep", ~T.job.dry, ~T.interrupted,
         NeverSetBack, clock < T.wake
  PROVE  settled[Driver] = Scheduled(T.job, clock)
<1>1. T.at \in AtASecond /\ MinuteInv /\ T.wake = Start /\ Due = Start
  BY DEF AtASecond, TimeInv, WakeInv, Due
<1>2. Start \in Nat /\ clock \in Nat /\ TicksPerSecond \in Nat \ {0} /\ Start > 0
  BY <1>1, StartType
<1> DEFINE P == Sent(T.job, Start - 1)
<1>3. /\ Proper(P) /\ settled[Driver] = P[Len(P)].power
      /\ clock >= Start - TicksPerSecond + Begins(P, Len(P))
  BY <1>1, <1>2 DEF TimeInv, LevelInv, EarlyInv, EndsWith, LastBegins
<1>4. PICK k \in Nat, s \in 0 .. SecondsPerMinute - 1 :
        Start - TicksPerSecond = k * Minute + s * TicksPerSecond
  BY <1>1, <1>2, SecondBefore
<1>5. ASSUME NEW x \in 0 .. TicksPerSecond - 1
      PROVE  Sent(T.job, k * Minute + s * TicksPerSecond + x)
               = Modulation(T.job.source, k + T.job.offset, s)
  BY ClockReads DEF Sent
<1>6. P = Modulation(T.job.source, k + T.job.offset, s)
  <2>1. TicksPerSecond - 1 \in 0 .. TicksPerSecond - 1
    BY <1>2
  <2>2. Start - 1 = (Start - TicksPerSecond) + (TicksPerSecond - 1)
    BY <1>2
  <2>3. Start - 1 = k * Minute + s * TicksPerSecond + (TicksPerSecond - 1)
    BY <1>4, <2>2
  <2> QED
    BY <1>5, <2>1, <2>3
<1> HIDE DEF P
<1>7. Len(P) \in 1 .. Len(P) /\ Begins(P, Len(P)) \in Nat
  <2>1. Len(P) \in 1 .. Len(P)
    BY <1>3, BeginsRise
  <2> QED
    BY <1>3, <2>1, BeginsRise
<1> DEFINE x == clock - (Start - TicksPerSecond)
<1>8. x \in 0 .. TicksPerSecond - 1 /\ Begins(P, Len(P)) <= x
      /\ clock = (Start - TicksPerSecond) + x
  BY <1>1, <1>2, <1>3, <1>7
<1> HIDE DEF x
<1>9. clock = k * Minute + s * TicksPerSecond + x
  BY <1>4, <1>8
<1>10. Sent(T.job, k * Minute + s * TicksPerSecond + x) = P
  BY <1>5, <1>6, <1>8
<1>11. ~(Len(P) < Len(P))
  BY <1>7
<1> QED
  BY <1>3, <1>7, <1>8, <1>9, <1>10, <1>11, LevelScheduled

(* Where it sleeps it is on schedule.                                       *)
LEMMA OnScheduleNow ==
  ASSUME TxInv, TimeInv, NeverSetBack
  PROVE  OnSchedule
<1> SUFFICES ASSUME Transmitting(Driver), ~Runnable(Driver), ~GeneratorPending
             PROVE  OnAir(CarrierOf(T.job.source), Scheduled(T.job, clock))
  BY DriverAssumption DEF OnSchedule, T
<1>1. /\ T.at \in {"asleep", "napping"} /\ ~T.job.dry /\ ~T.interrupted
  BY DEF Transmitting, Sleeping, T
<1>2. clock < T.wake
  <2>1. Live(Driver)
    BY <1>1 DEF Live, Ended, T
  <2> QED
    BY <1>1, <2>1, StartType DEF Runnable, T
<1>3. T.at \in InAMinute \ {"keyed"}
  BY <1>1 DEF InAMinute, AtASecond
<1>4. InNoCall /\ Ready /\ IInv
  BY <1>1, <1>3 DEF TxInv, CallInv, DriverInv
<1>5. freq[Driver] = CarrierOf(T.job.source)
  BY <1>1, <1>3 DEF TimeInv, LevelInv
<1>6. settled[Driver] = Scheduled(T.job, clock)
  BY <1>1, <1>2, NappingOnSchedule, AsleepOnSchedule
<1>7. settled[Driver] \in Power
  <2>1. CASE T.at = "napping"
    <3>1. settled[Driver] = Pattern(Driver)[T.moment].power
      BY <1>1, <2>1 DEF TimeInv, LevelInv
    <3> QED
      BY <2>1, <3>1, LevelType DEF AtASecond
  <2>2. CASE T.at = "asleep"
    <3> DEFINE P == Sent(T.job, Start - 1)
    <3>1. Start \in Nat /\ Start # 0 /\ Due = Start
      BY <1>2, <2>2, StartType DEF TimeInv, WakeInv, Due
    <3>2. Proper(P) /\ settled[Driver] = P[Len(P)].power
      BY <1>1, <2>2, <3>1 DEF TimeInv, LevelInv, EndsWith
    <3> HIDE DEF P
    <3>3. Len(P) \in 1 .. Len(P)
      BY <3>2, BeginsRise
    <3> QED
      BY <3>2, <3>3, BeginsRise
  <2> QED
    BY <1>1, <2>1, <2>2
<1>8. Key = Scheduled(T.job, clock)
  BY <1>4, <1>6, <1>7 DEF IInv, PowerIsKeyed, InNoCall, D_op
<1>9. Enabled /\ Tuned(freq[Driver])
  BY <1>4, SettingType, CarrierAssumption
  DEF IInv, OpMatchesPc, ClockSequence, Enabled, Tuned, Ready, InNoCall,
      D_op, D_pc, Power, TypeOK, SourceBit
<1>10. busy
  BY <1>9 DEF GeneratorPending, Enabled, TxInv, TxTypeOK, TypeOK
<1> QED
  BY <1>5, <1>8, <1>9, <1>10 DEF OnAir

(***************************************************************************)
(* Whenever the transmitter sleeps, the level on the air is the one that its   *)
(* source prescribes for this very tick of the wall clock, on its carrier:     *)
(* for any patterns, jobs, registers it found, and times of its launch, for a   *)
(* scheduler that runs it late, and for a clock that is set forward             *)
(* (txtempus.cc:218-243 with rpi-control.cc:142-159, 318-333).               *)
(***************************************************************************)
THEOREM TransmitsOnSchedule ==
  ASSUME ClockSteps \subseteq Nat
  PROVE  TxSpec => []OnSchedule
<1>1. TxInv /\ TimeInv => OnSchedule
  BY OnScheduleNow DEF NeverSetBack
<1> QED
  BY <1>1, AlwaysTimely, PTL

-----------------------------------------------------------------------------
(* Ten samples of a second.                                                  *)

(* Sample x of a second is the level of its pattern that lasts at x.           *)
SampledFrom(p, ten) ==
  \A x \in 1 .. 10 : \A i \in 1 .. Len(p) :
    Begins(p, i) <= x - 1 /\ (i < Len(p) => x - 1 < Begins(p, i + 1))
      => ten[x] = p[i].power

(* The patterns the stations have.                                          *)
OneLevel(v)        == <<Level(v, 0)>>
TwoLevels(v, n, w) == <<Level(v, n), Level(w, 0)>>
FourLevels(a, b)   ==
  <<Level("OFF", 1), Level(a, 1), Level(b, 1), Level("HIGH", 0)>>

(* The levels with which ten samples begin are as many as they look.          *)
LEMMA SecondRead ==
  ASSUME NEW source, NEW ten, NEW n \in 1 .. 10,
         \A x \in 1 .. n : ten[x] = ten[1],
         n < 10 => ten[n + 1] # ten[1]
  PROVE  /\ source = "MSF" /\ n >= 5 =>
              Second(source, ten) = <<Level(ten[1], 5), Level(ten[6], 0)>>
         /\ source = "MSF" /\ n < 5 =>
              Second(source, ten) = <<Level(ten[1], 1), Level(ten[2], 1),
                                      Level(ten[3], 1), Level(ten[4], 0)>>
         /\ source # "MSF" /\ n = 10 => Second(source, ten) = <<Level(ten[1], 0)>>
         /\ source # "MSF" /\ n < 10 =>
              Second(source, ten) = <<Level(ten[1], n), Level(ten[n + 1], 0)>>
<1> DEFINE same == {i \in 1 .. 10 : \A k \in 1 .. i : ten[k] = ten[1]}
           length == Cardinality(same)
<1>1. same = 1 .. n
  <2>1. ASSUME NEW i \in 1 .. n PROVE i \in same
    <3>1. i \in 1 .. 10 /\ \A k \in 1 .. i : k \in 1 .. n
      OBVIOUS
    <3> QED
      BY <3>1
  <2>2. ASSUME NEW i \in same PROVE i \in 1 .. n
    <3>1. i \in 1 .. 10 /\ \A k \in 1 .. i : ten[k] = ten[1]
      OBVIOUS
    <3>2. i > n => n < 10 /\ n + 1 \in 1 .. i
      BY <3>1
    <3>3. i <= n
      BY <3>1, <3>2
    <3> QED
      BY <3>1, <3>3
  <2> QED
    BY <2>1, <2>2
<1>2. length = n
  <2>1. 1 \in Int /\ n \in Int
    OBVIOUS
  <2>2. Cardinality(1 .. n) = IF 1 > n THEN 0 ELSE n - 1 + 1
    BY <2>1, FS_Interval, Zenon
  <2>3. (IF 1 > n THEN 0 ELSE n - 1 + 1) = n
    OBVIOUS
  <2> QED
    BY <1>1, <2>2, <2>3, Zenon
<1>3. Second(source, ten)
        = IF source = "MSF" THEN
            IF length >= 5 THEN <<Level(ten[1], 5), Level(ten[6], 0)>>
            ELSE <<Level(ten[1], 1), Level(ten[2], 1), Level(ten[3], 1), Level(ten[4], 0)>>
          ELSE IF length = 10 THEN <<Level(ten[1], 0)>>
          ELSE <<Level(ten[1], length), Level(ten[length + 1], 0)>>
  BY DEF Second
<1> HIDE DEF length
<1> QED
  BY <1>2, <1>3

(* One level, two levels, and four as the bits of MSF.                        *)
LEMMA OneLevelRead ==
  ASSUME NEW source, source # "MSF", NEW v, NEW ten,
         SampledFrom(OneLevel(v), ten)
  PROVE  Second(source, ten) = OneLevel(v)
<1> DEFINE p == OneLevel(v)
<1>1. Len(p) = 1 /\ p[1].power = v
  BY DEF Level, OneLevel
<1>2. Begins(p, 1) = 0
  BY BeginsNext
<1> HIDE DEF p
<1>3. \A x \in 1 .. 10 : ten[x] = v
  BY <1>1, <1>2 DEF SampledFrom, p
<1>4. Second(source, ten) = <<Level(ten[1], 0)>>
  <2>1. 10 \in 1 .. 10 /\ \A x \in 1 .. 10 : ten[x] = ten[1]
    BY <1>3
  <2> QED
    BY <2>1, SecondRead
<1> QED
  BY <1>3, <1>4 DEF OneLevel

LEMMA TwoLevelsSampled ==
  ASSUME NEW v, NEW w, NEW n \in 1 .. 8, NEW ten,
         SampledFrom(TwoLevels(v, n, w), ten)
  PROVE  /\ \A x \in 1 .. n : ten[x] = v
         /\ \A x \in n + 1 .. 10 : ten[x] = w
<1> DEFINE p == TwoLevels(v, n, w)
<1>1. Len(p) = 2 /\ p[1].power = v /\ p[1].ticks = n /\ p[2].power = w
  BY DEF Level, TwoLevels
<1>2. Begins(p, 1) = 0 /\ Begins(p, 2) = n
  <2>1. Begins(p, 1) = 0 /\ Begins(p, 1 + 1) = Begins(p, 1) + p[1].ticks
    <3> HIDE DEF p
    <3> QED
      BY BeginsNext
  <2> HIDE DEF p
  <2> QED
    BY <1>1, <2>1
<1> HIDE DEF p
<1>3. SampledFrom(p, ten)
  BY DEF p
<1>4. \A x \in 1 .. n : ten[x] = v
  <2> TAKE x \in 1 .. n
  <2>1. x \in 1 .. 10 /\ 1 \in 1 .. Len(p) /\ 0 <= x - 1 /\ x - 1 < n
    BY <1>1
  <2> QED
    BY <1>1, <1>2, <1>3, <2>1 DEF SampledFrom
<1>5. \A x \in n + 1 .. 10 : ten[x] = w
  <2> TAKE x \in n + 1 .. 10
  <2>1. x \in 1 .. 10 /\ 2 \in 1 .. Len(p) /\ n <= x - 1 /\ ~(2 < Len(p))
    BY <1>1
  <2> QED
    BY <1>1, <1>2, <1>3, <2>1 DEF SampledFrom
<1> QED
  BY <1>4, <1>5

LEMMA TwoLevelsRead ==
  ASSUME NEW source, NEW v, NEW w, v # w, NEW n \in 1 .. 8, NEW ten,
         SampledFrom(TwoLevels(v, n, w), ten),
         source = "MSF" => n = 5
  PROVE  Second(source, ten) = TwoLevels(v, n, w)
<1>1. /\ \A x \in 1 .. n : ten[x] = v
      /\ \A x \in n + 1 .. 10 : ten[x] = w
  BY TwoLevelsSampled
<1>2. ten[1] = v /\ ten[n + 1] = w /\ n \in 1 .. 10 /\ n < 10
  BY <1>1
<1>3. /\ source = "MSF" /\ n >= 5 =>
           Second(source, ten) = <<Level(ten[1], 5), Level(ten[6], 0)>>
      /\ source # "MSF" /\ n < 10 =>
           Second(source, ten) = <<Level(ten[1], n), Level(ten[n + 1], 0)>>
  BY <1>1, <1>2, SecondRead
<1>4. CASE source = "MSF"
  <2>1. n = 5 /\ n + 1 = 6
    BY <1>4
  <2> QED
    BY <1>2, <1>3, <1>4, <2>1 DEF TwoLevels
<1>5. CASE source # "MSF"
  BY <1>2, <1>3, <1>5 DEF TwoLevels
<1> QED
  BY <1>4, <1>5

LEMMA FourLevelsRead ==
  ASSUME NEW a, NEW b, NEW ten,
         SampledFrom(FourLevels(a, b), ten)
  PROVE  Second("MSF", ten)
           = FourLevels(a, b)
<1> DEFINE p == FourLevels(a, b)
<1>1. /\ Len(p) = 4
      /\ p[1].power = "OFF" /\ p[2].power = a /\ p[3].power = b /\ p[4].power = "HIGH"
      /\ p[1].ticks = 1 /\ p[2].ticks = 1 /\ p[3].ticks = 1
  BY DEF Level, FourLevels
<1>2. Begins(p, 1) = 0 /\ Begins(p, 2) = 1 /\ Begins(p, 3) = 2 /\ Begins(p, 4) = 3
  <2> HIDE DEF p
  <2>1. /\ Begins(p, 1) = 0 /\ Begins(p, 1 + 1) = Begins(p, 1) + p[1].ticks
        /\ Begins(p, 2 + 1) = Begins(p, 2) + p[2].ticks
        /\ Begins(p, 3 + 1) = Begins(p, 3) + p[3].ticks
    BY BeginsNext
  <2> QED
    BY <1>1, <2>1
<1> HIDE DEF p
<1>3. SampledFrom(p, ten)
  BY DEF p
<1>4. ten[1] = "OFF" /\ ten[2] = a /\ ten[3] = b /\ ten[4] = "HIGH"
  BY <1>1, <1>2, <1>3 DEF SampledFrom
<1>5. PICK n \in 1 .. 3 : (\A x \in 1 .. n : ten[x] = ten[1]) /\ ten[n + 1] # ten[1]
  <2>1. CASE a # "OFF"
    <3>1. (\A x \in 1 .. 1 : ten[x] = ten[1]) /\ ten[1 + 1] # ten[1]
      BY <1>4, <2>1
    <3> QED
      BY <3>1
  <2>2. CASE a = "OFF" /\ b # "OFF"
    <3>1. (\A x \in 1 .. 2 : ten[x] = ten[1]) /\ ten[2 + 1] # ten[1]
      BY <1>4, <2>2
    <3> QED
      BY <3>1
  <2>3. CASE a = "OFF" /\ b = "OFF"
    <3>1. (\A x \in 1 .. 3 : ten[x] = ten[1]) /\ ten[3 + 1] # ten[1]
      BY <1>4, <2>3
    <3> QED
      BY <3>1
  <2> QED
    BY <2>1, <2>2, <2>3
<1>6. n \in 1 .. 10 /\ n < 5
  OBVIOUS
<1>7. Second("MSF", ten) = <<Level(ten[1], 1), Level(ten[2], 1),
                             Level(ten[3], 1), Level(ten[4], 0)>>
  BY <1>5, <1>6, SecondRead
<1> QED
  BY <1>4, <1>7 DEF FourLevels

(* A second of any station is recognized by its samples.                      *)
LEMMA SecondsAreRead ==
  ASSUME NEW source \in Stations, NEW s \in 0 .. 59, NEW p, IsSecond(source, s, p),
         NEW ten, SampledFrom(p, ten)
  PROVE  Second(source, ten) = p
<1>1. CASE p = OneLevel("HIGH") /\ source # "MSF"
  BY <1>1, OneLevelRead
<1>2. ASSUME NEW v, NEW w, v # w, NEW n \in 1 .. 8, source = "MSF" => n = 5,
             p = TwoLevels(v, n, w)
      PROVE  Second(source, ten) = p
  BY <1>2, TwoLevelsRead
<1>3. ASSUME NEW a, NEW b, source = "MSF",
             p = FourLevels(a, b)
      PROVE  Second(source, ten) = p
  BY <1>3, FourLevelsRead
<1>4. ASSUME NEW v \in {"LOW", "HIGH"}, NEW w \in {"LOW", "HIGH"}, v # w,
             source # "MSF",
             \E n \in 1 .. 8 : p = TwoLevels(v, n, w)
      PROVE  Second(source, ten) = p
  BY <1>2, <1>4
<1>5. CASE source \in {"DCF77", "BPC"}
  <2>1. \/ p = OneLevel("HIGH")
        \/ \E n \in 1 .. 8 : p = TwoLevels("LOW", n, "HIGH")
    BY <1>5 DEF IsSecond, IsDCF77Second, IsBPCSecond, OneLevel, TwoLevels
  <2> QED
    BY <1>1, <1>4, <1>5, <2>1
<1>6. CASE source = "WWVB"
  <2>1. \E n \in 1 .. 8 : p = TwoLevels("LOW", n, "HIGH")
    BY <1>6 DEF IsSecond, IsWWVBSecond, TwoLevels
  <2> QED
    BY <1>4, <1>6, <2>1
<1>7. CASE source \in {"JJY40", "JJY60"}
  <2>1. \E n \in 1 .. 8 : p = TwoLevels("HIGH", n, "LOW")
    BY <1>7 DEF IsSecond, IsJJYSecond, TwoLevels
  <2> QED
    BY <1>4, <1>7, <2>1
<1>8. CASE source = "MSF"
  <2>1. CASE p = TwoLevels("OFF", 5, "HIGH")
    BY <1>2, <2>1
  <2>2. CASE \E a, b : p = FourLevels(a, b)
    BY <1>3, <1>8, <2>2
  <2> QED
    BY <1>8, <2>1, <2>2 DEF IsSecond, IsMSFSecond, TwoLevels, FourLevels
<1> QED
  BY <1>5, <1>6, <1>7, <1>8 DEF Stations
-----------------------------------------------------------------------------
(* The wall clock on the air: seconds of ten ticks, minutes of sixty seconds.    *)
LEMMA AirTime == TicksPerSecond = 10 /\ SecondsPerMinute = 60 /\ Minute = 600
BY AirAssumption DEF Minute

LEMMA TickOfTheClock ==
  ASSUME NEW t \in Nat,
         NEW k, k = t \div 600, NEW s, s = (t % 600) \div 10
  PROVE  /\ k \in Nat /\ s \in 0 .. 59 /\ t % 10 \in 0 .. 9
         /\ t % 10 # 9 => /\ (t + 1) % 10 = (t % 10) + 1
                          /\ (t + 1) \div 600 = k
                          /\ ((t + 1) % 600) \div 10 = s
         /\ t % 10 = 9 => /\ (t + 1) % 10 = 0
                          /\ (t + 1) \div 600 = IF s = 59 THEN k + 1 ELSE k
                          /\ ((t + 1) % 600) \div 10 = (s + 1) % 60
                          /\ t - 9 = k * 600 + s * 10
OBVIOUS

LEMMA SequenceOfMore ==
  ASSUME NEW S, NEW R, S \subseteq R, NEW q \in Seq(S)
  PROVE  q \in Seq(R)
OBVIOUS

LEMMA SequenceAppended ==
  ASSUME NEW S, NEW q \in Seq(S), NEW e \in S
  PROVE  /\ Append(q, e) \in Seq(S) /\ Len(Append(q, e)) = Len(q) + 1
         /\ \A i \in 1 .. Len(q) : Append(q, e)[i] = q[i]
         /\ Append(q, e)[Len(q) + 1] = e
OBVIOUS

(* A second that is what its station sends fits the loop of main().            *)
LEMMA SecondIsProper ==
  ASSUME NEW source \in Stations, NEW s \in 0 .. 59, NEW p, IsSecond(source, s, p)
  PROVE  Proper(p)
<1>1. p \in Seq(Levels)
  BY SecondsAreLevels
<1>2. Levels \subseteq [power : Power, ticks : Nat]
  BY DEF Levels, Power
<1>3. p \in Seq([power : Power, ticks : Nat])
  BY <1>1, <1>2, SequenceOfMore
<1>4. FitsSecond(p, 10)
  BY SecondsFit
<1>5. p # <<>>
  BY DEF IsSecond, IsDCF77Second, IsWWVBSecond, IsJJYSecond, IsMSFSecond, IsBPCSecond,
         Stations
<1> QED
  BY <1>3, <1>4, <1>5, AirTime DEF Proper

(* The schedule of a second, sampled at its ten ticks.                        *)
LEMMA ScheduleSampled ==
  ASSUME NEW j, NEW k \in Nat, NEW s \in 0 .. 59, NEW p, Proper(p),
         p = Modulation(j.source, k + j.offset, s),
         NEW ten,
         \A x \in 1 .. 10 : ten[x] = Scheduled(j, k * Minute + s * TicksPerSecond + (x - 1))
  PROVE  SampledFrom(p, ten)
<1> SUFFICES ASSUME NEW x \in 1 .. 10, NEW i \in 1 .. Len(p), Begins(p, i) <= x - 1,
                    i < Len(p) => x - 1 < Begins(p, i + 1)
             PROVE  ten[x] = p[i].power
  BY SMTT(30) DEF SampledFrom
<1>1. PICK y \in 0 .. TicksPerSecond - 1 : y = x - 1
  BY AirTime
<1>2. s \in 0 .. SecondsPerMinute - 1 /\ Begins(p, i) <= y
      /\ (i < Len(p) => y < Begins(p, i + 1))
  BY <1>1, AirTime
<1> DEFINE t == k * Minute + s * TicksPerSecond + y
<1>3. t \div Minute = k /\ (t % Minute) \div TicksPerSecond = s
  BY <1>2, ClockReads, SMTT(30)
<1>4. Sent(j, t) = p
  <2> HIDE DEF t
  <2> QED
    BY <1>3 DEF Sent
<1>5. Scheduled(j, t) = p[i].power
  BY <1>2, <1>4, LevelScheduled, SMTT(30)
<1>6. ten[x] = Scheduled(j, t)
  BY <1>1, SMTT(30)
<1> QED
  BY <1>5, <1>6

-----------------------------------------------------------------------------
(* The radio clock beside a transmitter that runs whenever it can.            *)
AirMinute == (clock \div Minute) + T.job.offset

AirSecond == (clock % Minute) \div TicksPerSecond

(* What it has heard of the current second is what was scheduled for its ticks;  *)
(* only before the first whole second may the first of them be missing.         *)
SamplesInv ==
  /\ samples \in Seq(Power) /\ Len(samples) <= clock % TicksPerSecond
  /\ heard # <<>> => Len(samples) = clock % TicksPerSecond
  /\ \A i \in 1 .. Len(samples) :
       samples[i] = Scheduled(T.job, (clock - Len(samples)) + (i - 1))

(* The seconds it has heard are those that its station sends, up to this one.    *)
HeardInv == HeardUntil(Station, ZoneOf(Station), heard, AirMinute, AirSecond)

AirInv ==
  /\ TxInv /\ TimeInv
  /\ stepped = 0 /\ ~T.interrupted
  /\ SamplesInv /\ HeardInv

(* A tick finds the transmitter asleep, and the field as it is scheduled.       *)
LEMMA FieldIsScheduled ==
  ASSUME TxInv, TimeInv, stepped = 0, ~T.interrupted, Live(Driver), Tick
  PROVE  Field = Scheduled(T.job, clock) /\ Field \in Power
<1>1. ~GeneratorPending /\ ~Runnable(Driver)
  BY AirAssumption, DriverAssumption DEF Tick
<1>2. T.job \in Job
  BY StartType
<1>3. ~T.job.dry /\ CarrierOf(T.job.source) = GetCarrierFrequency(T.job.source)
  BY <1>2, AirAssumption
<1>4. Transmitting(Driver)
  BY <1>1, <1>3 DEF Transmitting, Runnable, T
<1>5. OnAir(GetCarrierFrequency(Station), Scheduled(T.job, clock))
  <2>1. OnSchedule
    BY OnScheduleNow DEF NeverSetBack
  <2> QED
    BY <1>1, <1>3, <1>4, <2>1, DriverAssumption DEF OnSchedule, T, Station
<1> DEFINE received == {level \in Power : OnAir(GetCarrierFrequency(Station), level)}
<1>6. Key \in Power
  BY DEF Key, Power
<1>7. received = {Key}
  BY <1>5, <1>6 DEF OnAir
<1>8. Scheduled(T.job, clock) = Key
  BY <1>5 DEF OnAir
<1> HIDE DEF received
<1>9. Field = IF received = {} THEN "OFF" ELSE CHOOSE level \in received : TRUE
  BY DEF Field, received
<1> QED
  BY <1>6, <1>7, <1>8, <1>9

(* The ten samples of a second, of which the last is of now.                  *)
LEMMA SecondHeard ==
  ASSUME TxInv, clock % 10 = 9, NEW ten, NEW p, p = Second(Station, ten),
         \A x \in 1 .. 10 : ten[x] = Scheduled(T.job, (clock - 9) + (x - 1))
  PROVE  SentAs(Station, ZoneOf(Station), p, AirSecond, AirMinute)
<1> DEFINE j == T.job
           k == clock \div Minute
           s == AirSecond
           sent == Modulation(j.source, k + j.offset, s)
<1>1. clock \in Nat /\ clock <= MaxTime /\ j \in Job /\ MaxTime \in Nat
  BY StartType, TimeAssumption DEF TxInv, TxTypeOK
<1>2. k \in Nat /\ s \in 0 .. 59 /\ clock - 9 = k * 600 + s * 10
  BY <1>1, AirTime, TickOfTheClock DEF AirSecond
<1>3. k \in 0 .. MaxTime \div Minute
  BY <1>1, <1>2, AirTime
<1>4. /\ j.source = Station /\ Station \in Stations
      /\ sent = SourceModulation(Station, k + j.offset, s)
  BY <1>1, <1>2, <1>3, AirAssumption DEF Station, T
<1>5. SentAs(Station, ZoneOf(Station), sent, s, k + j.offset)
  BY <1>4 DEF SentAs, SourceModulation
<1> HIDE DEF k, s, sent
<1>6. IsSecond(Station, s, sent) /\ Proper(sent)
  <2>1. IsSecond(Station, s, sent)
    BY <1>2, <1>4, <1>5, SentIsASecond
  <2> QED
    BY <1>2, <1>4, <2>1, SecondIsProper
<1>7. ASSUME NEW x \in 1 .. 10
      PROVE  ten[x] = Scheduled(j, k * Minute + s * TicksPerSecond + (x - 1))
  <2>1. (clock - 9) + (x - 1) = k * Minute + s * TicksPerSecond + (x - 1)
    BY <1>2, AirTime
  <2> QED
    BY <2>1
<1>8. SampledFrom(sent, ten)
  BY <1>2, <1>6, <1>7, ScheduleSampled DEF sent
<1>9. p = sent
  BY <1>2, <1>4, <1>6, <1>8, SecondsAreRead
<1> QED
  BY <1>5, <1>9 DEF AirMinute, k, s

LEMMA ListenKeeps ==
  ASSUME AirInv, Listen
  PROVE  SamplesInv' /\ HeardInv'
<1> DEFINE n == Len(samples)
           ten == Append(samples, Field)
<1>1. /\ TxInv /\ TimeInv /\ stepped = 0 /\ ~T.interrupted /\ SamplesInv /\ HeardInv
      /\ Live(Driver) /\ Tick
  BY DEF AirInv, Listen
<1>2. clock \in Nat /\ clock' = clock + 1 /\ T' = T /\ Station' = Station
  BY <1>1, StartType DEF Tick, T, Station
<1>3. Field = Scheduled(T.job, clock) /\ Field \in Power
  BY <1>1, FieldIsScheduled
<1>4. samples \in Seq(Power) /\ n \in Nat /\ n <= clock % 10 /\ (heard # <<>> => n = clock % 10)
  BY <1>1, AirTime DEF SamplesInv
<1>5. /\ ten \in Seq(Power) /\ Len(ten) = n + 1
      /\ \A i \in 1 .. n : ten[i] = samples[i]
      /\ ten[n + 1] = Field
  BY <1>3, <1>4, SequenceAppended
<1>6. CASE clock % 10 # 9
  <2>1. clock' % 10 = (clock % 10) + 1 /\ AirMinute' = AirMinute /\ AirSecond' = AirSecond
    BY <1>2, <1>6, AirTime, TickOfTheClock DEF AirMinute, AirSecond
  <2>2. samples' = ten /\ heard' = heard
    BY <1>2, <1>4, <2>1, AirTime DEF Listen
  <2>3. ASSUME NEW i \in 1 .. n + 1
        PROVE  ten[i] = Scheduled(T.job, (clock' - (n + 1)) + (i - 1))
    <3>1. CASE i = n + 1
      <4>1. (clock' - (n + 1)) + (i - 1) = clock
        BY <1>2, <1>4, <3>1
      <4> QED
        BY <1>3, <1>5, <3>1, <4>1
    <3>2. CASE i \in 1 .. n
      <4>1. samples[i] = Scheduled(T.job, (clock - n) + (i - 1))
        BY <1>1, <3>2 DEF SamplesInv
      <4>2. clock' - (n + 1) = clock - n
        BY <1>2, <1>4
      <4> QED
        BY <1>5, <3>2, <4>1, <4>2
    <3> QED
      BY <1>4, <3>1, <3>2
  <2>4. SamplesInv'
    <3>1. Len(samples') = n + 1
      BY <1>5, <2>2
    <3>2. samples' \in Seq(Power) /\ n + 1 <= clock' % 10
          /\ (heard' # <<>> => n + 1 = clock' % 10)
      BY <1>2, <1>4, <1>5, <2>1, <2>2, <1>6
    <3>3. \A i \in 1 .. n + 1 :
            samples'[i] = Scheduled(T.job, (clock' - (n + 1)) + (i - 1))
      BY <2>2, <2>3
    <3> HIDE DEF n
    <3> QED
      BY <1>2, <3>1, <3>2, <3>3, AirTime DEF SamplesInv
  <2>5. HeardInv'
    BY <1>1, <1>2, <2>1, <2>2 DEF HeardInv
  <2> QED
    BY <2>4, <2>5
<1>7. CASE clock % 10 = 9
  <2>1. /\ clock' % 10 = 0 /\ AirSecond \in 0 .. 59 /\ AirMinute \in Int
        /\ AirSecond' = (AirSecond + 1) % 60
        /\ AirMinute' = IF AirSecond = 59 THEN AirMinute + 1 ELSE AirMinute
    <3> DEFINE k == clock \div 600
    <3>1. /\ k \in Nat /\ AirSecond \in 0 .. 59 /\ clock' % 10 = 0
          /\ clock' \div 600 = IF AirSecond = 59 THEN k + 1 ELSE k
          /\ AirSecond' = (AirSecond + 1) % 60
      BY <1>2, <1>7, AirTime, TickOfTheClock DEF AirSecond
    <3>2. PICK o \in Int : o = T.job.offset
      BY <1>1, StartType, JobAssumption
    <3>3. AirMinute = k + o /\ AirMinute' = clock' \div 600 + o
      BY <1>2, <3>2, AirTime DEF AirMinute
    <3> HIDE DEF k
    <3> QED
      BY <3>1, <3>2, <3>3
  <2>2. /\ samples' = <<>>
        /\ heard' = IF Len(ten) < 10 THEN heard
                    ELSE Hearing(Station, heard, Second(Station, ten))
    BY <1>2, <2>1, AirTime DEF Listen, Hearing
  <2>3. SamplesInv'
    BY <2>1, <2>2, AirTime DEF SamplesInv
  <2>4. CASE n < 9
    <3>1. heard' = <<>>
      BY <1>4, <1>5, <1>7, <2>2, <2>4
    <3> QED
      BY <2>3, <3>1, NothingHeard DEF HeardInv
  <2>5. CASE n = 9
    <3> DEFINE p == Second(Station, ten)
    <3>1. SentAs(Station, ZoneOf(Station), p, AirSecond, AirMinute)
      <4>1. ASSUME NEW x \in 1 .. 10
            PROVE  ten[x] = Scheduled(T.job, (clock - 9) + (x - 1))
        <5>1. CASE x = 10
          <6>1. (clock - 9) + (x - 1) = clock
            BY <1>2, <5>1
          <6> QED
            BY <1>3, <1>5, <2>5, <5>1, <6>1
        <5>2. CASE x \in 1 .. 9
          <6>1. samples[x] = Scheduled(T.job, (clock - 9) + (x - 1))
            BY <1>1, <2>5, <5>2 DEF SamplesInv
          <6> QED
            BY <1>5, <2>5, <5>2, <6>1
        <5>3. x = 10 \/ x \in 1 .. 9
          OBVIOUS
        <5> QED
          BY <5>1, <5>2, <5>3
      <4> HIDE DEF ten
      <4> QED
        BY <1>1, <1>7, <4>1, SecondHeard
    <3>2. heard' = Hearing(Station, heard, p)
      BY <1>5, <2>2, <2>5
    <3>3. Station \in Stations
      BY <1>1, StartType, AirAssumption DEF Station, T
    <3> HIDE DEF p
    <3>4. HeardUntil(Station, ZoneOf(Station), Hearing(Station, heard, p), AirMinute', AirSecond')
      BY <1>1, <2>1, <3>1, <3>3, HearsOn DEF HeardInv
    <3> QED
      BY <1>2, <2>3, <3>2, <3>4 DEF HeardInv
  <2>6. n < 9 \/ n = 9
    <3>1. n \in Nat /\ n <= 9
      BY <1>4, <1>7
    <3> HIDE DEF n
    <3> QED
      BY <3>1
  <2> QED
    BY <2>4, <2>5, <2>6
<1> QED
  BY <1>6, <1>7

(* The other steps take no time, and leave the process its job.               *)
KeepsJob(new) == new.job = T.job /\ new.interrupted = T.interrupted

LEMMA JobStays ==
  ASSUME TxInv, Launch(Driver) \/ Main(Driver)
  PROVE  T'.job = T.job /\ T'.interrupted = T.interrupted /\ UNCHANGED timer
<1>1. ASSUME NEW place, NEW new, From(Driver, place, new), KeepsJob(new)
      PROVE  KeepsJob(T')
  BY <1>1, Became
<1>2. ASSUME NEW place
      PROVE  /\ KeepsJob(To(Driver, place))
             /\ \A v : /\ KeepsJob([To(Driver, place) EXCEPT !.minute = v])
                       /\ KeepsJob([To(Driver, place) EXCEPT !.second = v])
                       /\ KeepsJob([To(Driver, place) EXCEPT !.wake = v])
                       /\ KeepsJob([To(Driver, place) EXCEPT !.moment = v])
             /\ \A v, w : KeepsJob([To(Driver, place) EXCEPT !.moment = v, !.wake = w])
             /\ \A v, w, x :
                  /\ KeepsJob([To(Driver, place) EXCEPT !.ttl = v, !.prepared = w, !.second = x])
                  /\ KeepsJob([To(Driver, place) EXCEPT !.now = v, !.minute = w, !.ttl = x])
  <2>1. T \in MainState
    BY MainStateOfDriver
  <2>2. To(Driver, place) = [T EXCEPT !.at = place]
    BY DEF To, T
  <2> QED
    BY <2>1, <2>2 DEF MainState, KeepsJob
<1>3. ASSUME NEW place, NEW next, From(Driver, place, To(Driver, next)) PROVE KeepsJob(T')
  BY <1>1, <1>2, <1>3, Zenon
<1>4. ASSUME Launch(Driver) PROVE KeepsJob(T')
  <2>1. PICK v, w, x :
          From(Driver, "off", [To(Driver, "init") EXCEPT !.now = v, !.minute = w, !.ttl = x])
    BY <1>4, Zenon DEF Launch
  <2> QED
    BY <1>1, <1>2, <2>1, Zenon
<1>5. ASSUME BeginMinute(Driver) PROVE KeepsJob(T')
  <2>1. PICK v, w, x :
          From(Driver, "minute", [To(Driver, "second") EXCEPT
                                    !.ttl = v, !.prepared = w, !.second = x])
    BY <1>5, Zenon DEF BeginMinute
  <2> QED
    BY <1>1, <1>2, <2>1, Zenon
<1>6. ASSUME BeginSecond(Driver) PROVE KeepsJob(T')
  <2>1. PICK v, w :
          From(Driver, "second", [To(Driver, "wait") EXCEPT !.moment = v, !.wake = w])
    BY <1>6, Zenon DEF BeginSecond
  <2> QED
    BY <1>1, <1>2, <2>1, Zenon
<1>7. ASSUME EndMinute(Driver) \/ AtSecond(Driver) \/ AfterKeying(Driver) \/ NextMoment(Driver)
      PROVE  KeepsJob(T')
  <2>1. KeepsJob(NextMinute(Driver)) /\ KeepsJob(NextSecond(Driver))
    BY <1>2, Zenon DEF NextMinute, NextSecond
  <2>2. CASE EndMinute(Driver)
    BY <1>1, <2>1, <2>2 DEF EndMinute
  <2>3. CASE AtSecond(Driver)
    <3>1. \E new \in {NextMinute(Driver), To(Driver, "key")} : From(Driver, "awake", new)
      BY <2>3 DEF AtSecond
    <3> QED
      BY <1>1, <1>2, <2>1, <3>1, Zenon
  <2>4. CASE AfterKeying(Driver)
    <3>1. \/ From(Driver, "keyed", NextSecond(Driver))
          \/ \E v : From(Driver, "keyed", [To(Driver, "nap") EXCEPT !.wake = v])
      BY <2>4, Zenon DEF AfterKeying
    <3>2. CASE From(Driver, "keyed", NextSecond(Driver))
      BY <1>1, <2>1, <3>2, Zenon
    <3>3. CASE \E v : From(Driver, "keyed", [To(Driver, "nap") EXCEPT !.wake = v])
      BY <1>1, <1>2, <3>3, Zenon
    <3> QED
      BY <3>1, <3>2, <3>3
  <2>5. CASE NextMoment(Driver)
    <3>1. \/ From(Driver, "next", NextSecond(Driver))
          \/ \E v : From(Driver, "next", [To(Driver, "key") EXCEPT !.moment = v])
      BY <2>5, Zenon DEF NextMoment
    <3>2. CASE From(Driver, "next", NextSecond(Driver))
      BY <1>1, <2>1, <3>2, Zenon
    <3>3. CASE \E v : From(Driver, "next", [To(Driver, "key") EXCEPT !.moment = v])
      BY <1>1, <1>2, <3>3, Zenon
    <3> QED
      BY <3>1, <3>2, <3>3
  <2> QED
    BY <1>7, <2>2, <2>3, <2>4, <2>5
<1>8. ASSUME WakeUp(Driver) PROVE KeepsJob(T')
  <2>1. PICK next : T' = To(Driver, next)
    BY <1>8, DriverAssumption DEF WakeUp, Woken, T, TxInv, TxTypeOK
  <2> QED
    BY <1>2, <2>1, Zenon
<1>9. KeepsJob(T')
  BY <1>3, <1>4, <1>5, <1>6, <1>7, <1>8
  DEF Main, InitFails, InitSucceeds, Crash, StartCarrier, LeaveLoop, Sleep, KeyCarrier,
      StopCarrier, Exit
<1>10. UNCHANGED timer
  BY DEF Launch, Main, Software, InitFails, InitSucceeds, Crash, StartCarrier, BeginMinute,
         LeaveLoop, BeginSecond, EndMinute, Sleep, WakeUp, AtSecond, KeyCarrier,
         AfterKeying, NextMoment, StopCarrier, Exit
<1> QED
  BY <1>9, <1>10 DEF KeepsJob

LEMMA AirStepIsTxStep ==
  ASSUME AirNext
  PROVE  TxNext
BY DriverAssumption DEF AirNext, Listen, TxNext

LEMMA AirNextInv == AirInv /\ [AirNext]_air => AirInv'
<1> SUFFICES ASSUME AirInv, [AirNext]_air PROVE AirInv'
  OBVIOUS
<1>1. TxInv /\ TimeInv /\ stepped = 0 /\ ~T.interrupted /\ SamplesInv /\ HeardInv
  BY DEF AirInv
<1>2. (TxInv /\ TimeInv)'
  <2>1. [TxNext]_all
    BY AirStepIsTxStep DEF air
  <2> QED
    BY <1>1, <2>1, TxNextInv, TxNextTimely
<1>3. CASE Listen
  <2>1. stepped' = stepped /\ T' = T
    BY <1>3 DEF Listen, Tick, T
  <2> QED
    BY <1>1, <1>2, <1>3, <2>1, ListenKeeps DEF AirInv
<1>4. ASSUME UNCHANGED <<timer, samples, heard>>, T'.job = T.job,
             T'.interrupted = T.interrupted
      PROVE  AirInv'
  <2>1. clock' = clock /\ stepped' = stepped /\ samples' = samples /\ heard' = heard
    BY <1>4 DEF timer
  <2>2. Station' = Station /\ AirMinute' = AirMinute /\ AirSecond' = AirSecond
    BY <1>4, <2>1 DEF Station, AirMinute, AirSecond, T
  <2>3. SamplesInv'
    BY <1>1, <1>4, <2>1 DEF SamplesInv
  <2>4. HeardInv'
    BY <1>1, <2>1, <2>2 DEF HeardInv
  <2> QED
    BY <1>1, <1>2, <1>4, <2>1, <2>3, <2>4 DEF AirInv
<1>5. CASE (Launch(Driver) \/ Main(Driver)) /\ UNCHANGED <<samples, heard>>
  BY <1>1, <1>4, <1>5, JobStays
<1>6. CASE (GeneratorStep \/ Hardware(Driver)) /\ UNCHANGED <<samples, heard>>
  BY <1>4, <1>6 DEF GeneratorStep, Hardware, T
<1>7. CASE UNCHANGED air
  BY <1>4, <1>7 DEF air, all, T
<1> QED
  BY <1>3, <1>5, <1>6, <1>7 DEF AirNext

LEMMA AirInitInv == AirInit => AirInv
<1> SUFFICES ASSUME AirInit PROVE AirInv
  OBVIOUS
<1>1. BeforeLaunch
  BY AirAssumption DEF AirInit, BeforeLaunch
<1>2. TxInv /\ TimeInv
  BY <1>1, LaunchInv, LaunchIsTimely
<1>3. stepped = 0 /\ ~T.interrupted
  BY <1>1, DriverAssumption DEF BeforeLaunch, T
<1>4. samples = <<>> /\ heard = <<>>
  BY DEF AirInit
<1>5. SamplesInv
  <2>1. clock % TicksPerSecond \in Nat
    BY <1>2, StartType
  <2> QED
    BY <1>4, <2>1 DEF SamplesInv
<1>6. HeardInv
  BY <1>4, NothingHeard DEF HeardInv
<1> QED
  BY <1>2, <1>3, <1>5, <1>6 DEF AirInv

(***************************************************************************)
(* End to end: a radio clock beside the antenna that has heard a whole frame   *)
(* recognizes it as one exactly where one ends, and shows the time at which    *)
(* the wall clock of the machine stands, plus the offset of -t and -z: for      *)
(* every station, time zone, time of the launch, length of the run, content    *)
(* of the registers at the start and schedule of the register accesses.       *)
(* What drives the pins is txtempus.cc:215-249, the sources of                *)
(* src/*-source.cc and rpi-control.cc:109-191, 318-333.                       *)
(***************************************************************************)
THEOREM RadioClockIsRight == AirSpec => []RadioClockShowsTheTime
<1>1. ASSUME AirInv PROVE RadioClockShowsTheTime
  <2> DEFINE minute == (clock \div Minute) + tx[Driver].job.offset
             second == (clock % Minute) \div TicksPerSecond
             zone   == ZoneOf(Station)
  <2> SUFFICES ASSUME Len(heard) = FrameLength(Station),
                      second % FrameLength(Station) = 0
               PROVE  /\ FrameEnds(Station, heard)
                      /\ Decode(Station, heard) = TimeMeant(Station, zone, minute, second)
    BY DEF RadioClockShowsTheTime
  <2>1. /\ clock \in Nat /\ T.job \in Job /\ T.job.offset \in Int
    BY <1>1, StartType, JobAssumption DEF AirInv
  <2>2. T.job.offset >= 1440 /\ Station \in Stations /\ zone \in Zones
    BY <2>1, AirAssumption DEF Station, T
  <2>3. second \in 0 .. 59
    BY <2>1, AirTime, TickOfTheClock
  <2>4. minute \in Nat /\ minute >= 1440
    <3>1. clock \div Minute \in Nat
      BY <2>1, AirTime, TickOfTheClock
    <3>2. PICK o \in Int : o = tx[Driver].job.offset /\ o >= 1440
      BY <2>1, <2>2 DEF T
    <3> QED
      BY <3>1, <3>2
  <2>5. HeardUntil(Station, zone, heard, minute, second)
    BY <1>1 DEF AirInv, HeardInv, AirMinute, AirSecond, T
  <2>6. IsWhole(Station, heard) /\ EndsBefore(Station, second)
    BY DEF IsWhole, EndsBefore
  <2> HIDE DEF minute, second, zone
  <2>7. FrameEnds(Station, heard)
    BY <2>2, <2>3, <2>5, <2>6, FrameEndsInTime
  <2>8. Decode(Station, heard) = TimeMeant(Station, zone, minute, second)
    BY <2>2, <2>3, <2>4, <2>5, <2>6, FrameShowsTheTime
  <2> QED
    BY <2>7, <2>8
<1>2. AirInv => RadioClockShowsTheTime
  BY <1>1
<1> QED
  BY <1>2, AirInitInv, AirNextInv, PTL DEF AirSpec

=============================================================================
