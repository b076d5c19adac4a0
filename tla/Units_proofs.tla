---------------------------- MODULE Units_proofs ----------------------------
(***************************************************************************)
(* What holds of the appliance for any number of callers, any stations and    *)
(* any schedules.                                                          *)
(***************************************************************************)
EXTENDS Units, TLAPS

-----------------------------------------------------------------------------
(* A control script that writes the drop-in has read the configuration.      *)
Sourced ==
  \A c \in Caller : at[c] \in Saving \ {"source"} => sourced[c] \in Schedule

TypeInv == UnitsTypeOK /\ Sourced

(* Nothing has met a start: no other is under way, so the environment file     *)
(* is its own, and a unit that it has waited for was started from that.      *)
StartOf(c) ==
  /\ \A d \in Caller \ {c} : at[d] \notin Starting
  /\ env = asked[c] /\ env # None
  /\ at[c] = "starting" /\ unit[ONESHOT_UNIT] = "started" => tx[ONESHOT_UNIT] = env
  /\ at[c] = "started" => tx[ONESHOT_UNIT] \in {env, None}

StartInv == \A c \in alone : at[c] \in Starting => StartOf(c)

(* Nothing has met a stop: no transmitter runs that has not got the signal,   *)
(* and nothing is left that could start one.                               *)
Hushed ==
  /\ ~timer /\ queued = {}
  /\ script.at # "preparing"
  /\ ~Abandoned
  /\ \A s \in Service : tx[s] # None => s \in signalled

StopInv ==
  /\ \A c \in reached : at[c] \in Stopping
  /\ \A c \in alone \cap reached : Hushed /\ (at[c] = "stopped" => Quiet)

(* Nothing has met a save: no other is under way, and each step has left what *)
(* the configuration says.                                                 *)
SaveOf(c) ==
  /\ \A d \in Caller \ {c} : at[d] \notin Saving
  /\ at[c] # "source" =>
       /\ sourced[c].times = Effective(conf.times)
       /\ sourced[c].enabled = conf.enabled
  /\ at[c] = "write" /\ dropin # None => dropin \subseteq Effective(conf.times)
  /\ at[c] \in {"reload", "timer"} => dropin = Effective(conf.times) /\ dropin # None
  /\ at[c] = "timer" => loaded = dropin

SaveInv == \A c \in alone : at[c] \in Saving => SaveOf(c)

IInv == TypeInv /\ StartInv /\ StopInv /\ SaveInv

-----------------------------------------------------------------------------
(* The part of the type that speaks of units and what they run.              *)
UnitsMatch ==
  /\ unit \in [Service -> {"inactive", "started", "deactivating"}]
  /\ script.at \in {"none", "preparing", "transmitting", "terminating", "waiting"}
  /\ script.station \in Station \cup {None}
  /\ tx \in [Service -> Station \cup {None}]
  /\ carrier \in BOOLEAN
  /\ unit[ONESHOT_UNIT] = "inactive" <=> tx[ONESHOT_UNIT] = None
  /\ unit[SCHED_UNIT] = "inactive" <=> script.at = "none"
  /\ tx[SCHED_UNIT] # None => script.at \in {"transmitting", "terminating"}
  /\ queued \cup signalled \subseteq {s \in Service : unit[s] = "deactivating"}
  /\ \A s \in signalled : tx[s] # None

(* The rest of it, but for where the callers are.                           *)
FilesMatch ==
  /\ conf \in Setting
  /\ env \in Station \cup {None}
  /\ dropin \in {None} \cup SUBSET Time /\ loaded \in SUBSET Time
  /\ linked \in BOOLEAN /\ timer \in BOOLEAN
  /\ alone \subseteq Caller /\ reached \subseteq Caller

CallersMatch ==
  /\ at \in [Caller -> Starting \cup Stopping \cup Saving \cup
                       {"idle", "permitted", "previewing"}]
  /\ asked \in [Caller -> Station \cup {None}]
  /\ sourced \in [Caller -> {None} \cup Schedule]
  /\ Sourced

LEMMA TypeParts == TypeInv <=> UnitsMatch /\ FilesMatch /\ CallersMatch
BY DEF TypeInv, UnitsTypeOK, UnitsMatch, FilesMatch, CallersMatch

(* A start job for the scheduler keeps what a unit is and what it runs.       *)
LEMMA JobKeepsUnits ==
  ASSUME UnitsMatch, FilesMatch,
         ScheduleJob \/ UNCHANGED <<unit, queued, signalled, tx, carrier, script>>
  PROVE  UnitsMatch'
BY UnitsAssumption DEF FilesMatch, Setting, UnitsMatch, ScheduleJob,
   StartScheduler,
   ONESHOT_UNIT, SCHED_UNIT, Service

LEMMA StationGiven ==
  ASSUME FilesMatch
  PROVE  OneshotStation \in Station /\ OneshotStation # None
BY UnitsAssumption DEF FilesMatch, Setting, OneshotStation

-----------------------------------------------------------------------------
(* The actions, one by one.                                                *)
LEMMA TimerElapsesIInv ==
  ASSUME IInv, TimerElapses
  PROVE  IInv'
<1> USE UnitsAssumption DEF ONESHOT_UNIT, SCHED_UNIT, Service, Starting, Stopping,
        Saving, TimerElapses, ScheduleJob, StartScheduler
<1>1. TypeInv'
  BY DEF IInv, TypeInv, UnitsTypeOK, Sourced, Setting, Schedule, files,
         systemd, radio, callers, history
<1>2. StartInv'
  BY DEF IInv, TypeInv, UnitsTypeOK, StartInv, StartOf, files, systemd, radio,
         callers, history
<1>3. StopInv'
  BY DEF IInv, TypeInv, UnitsTypeOK, StopInv, Hushed, Quiet, Abandoned, files,
         systemd, radio, callers, history
<1>4. SaveInv'
  BY DEF IInv, TypeInv, UnitsTypeOK, Sourced, SaveInv, SaveOf, Setting,
         Schedule, files, systemd, radio, callers, history
<1> QED
  BY <1>1, <1>2, <1>3, <1>4 DEF IInv

LEMMA OneshotEndsIInv ==
  ASSUME IInv, OneshotEnds
  PROVE  IInv'
<1> USE UnitsAssumption DEF ONESHOT_UNIT, SCHED_UNIT, Service, Starting, Stopping,
        Saving, OneshotEnds, StartOneshot, Transmit
<1>1. TypeInv'
  <2>1. UnitsMatch /\ FilesMatch /\ CallersMatch
    BY TypeParts DEF IInv
  <2>2. UnitsMatch'
    <3>1. OneshotStation \in Station /\ OneshotStation # None
      BY <2>1, StationGiven
    <3>2. CASE ONESHOT_UNIT \in queued
      BY <2>1, <3>1, <3>2 DEF UnitsMatch, radio, files
    <3>3. CASE ~(ONESHOT_UNIT \in queued)
      <4>1. /\ unit' = [unit EXCEPT ![ONESHOT_UNIT] = "inactive"]
            /\ tx' = [tx EXCEPT ![ONESHOT_UNIT] = None]
            /\ carrier' = FALSE /\ script' = script
            /\ signalled' = signalled \ {ONESHOT_UNIT} /\ queued' = queued \ {ONESHOT_UNIT}
        BY <3>3
      <4>2. queued' \cup signalled' \subseteq {s \in Service : unit'[s] = "deactivating"}
        BY <2>1, <4>1 DEF UnitsMatch
      <4>3. \A s \in signalled' : tx'[s] # None
        BY <2>1, <4>1 DEF UnitsMatch
      <4> QED
        BY <2>1, <4>1, <4>2, <4>3 DEF UnitsMatch
    <3> QED
      BY <3>2, <3>3
  <2>3. FilesMatch'
    BY <2>1 DEF FilesMatch, files, systemd, radio, history
  <2>4. CallersMatch'
    BY <2>1 DEF CallersMatch, Sourced, callers
  <2> QED
    BY <2>2, <2>3, <2>4, TypeParts, PTL
<1>2. StartInv'
  BY DEF IInv, TypeInv, UnitsTypeOK, StartInv, StartOf, OneshotStation, files,
         systemd, radio, callers, history
<1>3. StopInv'
  BY DEF IInv, TypeInv, UnitsTypeOK, StopInv, Hushed, Quiet, Abandoned, files,
         systemd, radio, callers, history
<1>4. SaveInv'
  BY DEF IInv, TypeInv, UnitsTypeOK, Sourced, SaveInv, SaveOf, Setting,
         Schedule, files, systemd, radio, callers, history
<1> QED
  BY <1>1, <1>2, <1>3, <1>4 DEF IInv

LEMMA ScriptTransmitsIInv ==
  ASSUME IInv, ScriptTransmits
  PROVE  IInv'
<1> USE UnitsAssumption DEF ONESHOT_UNIT, SCHED_UNIT, Service, Starting, Stopping,
        Saving, ScriptTransmits, Transmit
<1>1. TypeInv'
  BY DEF IInv, TypeInv, UnitsTypeOK, Sourced, Setting, Schedule, files,
         systemd, radio, callers, history
<1>2. StartInv'
  BY DEF IInv, TypeInv, UnitsTypeOK, StartInv, StartOf, files, systemd, radio,
         callers, history
<1>3. StopInv'
  BY DEF IInv, TypeInv, UnitsTypeOK, StopInv, Hushed, Quiet, Abandoned, files,
         systemd, radio, callers, history
<1>4. SaveInv'
  BY DEF IInv, TypeInv, UnitsTypeOK, Sourced, SaveInv, SaveOf, Setting,
         Schedule, files, systemd, radio, callers, history
<1> QED
  BY <1>1, <1>2, <1>3, <1>4 DEF IInv

LEMMA ScheduledTxEndsIInv ==
  ASSUME IInv, ScheduledTxEnds
  PROVE  IInv'
<1> USE UnitsAssumption DEF ONESHOT_UNIT, SCHED_UNIT, Service, Starting, Stopping,
        Saving, ScheduledTxEnds
<1>1. TypeInv'
  BY DEF IInv, TypeInv, UnitsTypeOK, Sourced, Setting, Schedule, files,
         systemd, radio, callers, history
<1>2. StartInv'
  BY DEF IInv, TypeInv, UnitsTypeOK, StartInv, StartOf, files, systemd, radio,
         callers, history
<1>3. StopInv'
  BY DEF IInv, TypeInv, UnitsTypeOK, StopInv, Hushed, Quiet, Abandoned, files,
         systemd, radio, callers, history
<1>4. SaveInv'
  BY DEF IInv, TypeInv, UnitsTypeOK, Sourced, SaveInv, SaveOf, Setting,
         Schedule, files, systemd, radio, callers, history
<1> QED
  BY <1>1, <1>2, <1>3, <1>4 DEF IInv

LEMMA ScriptTimesOutIInv ==
  ASSUME IInv, ScriptTimesOut
  PROVE  IInv'
<1> USE UnitsAssumption DEF ONESHOT_UNIT, SCHED_UNIT, Service, Starting, Stopping,
        Saving, ScriptTimesOut
<1>1. TypeInv'
  BY DEF IInv, TypeInv, UnitsTypeOK, Sourced, Setting, Schedule, files,
         systemd, radio, callers, history
<1>2. StartInv'
  BY DEF IInv, TypeInv, UnitsTypeOK, StartInv, StartOf, files, systemd, radio,
         callers, history
<1>3. StopInv'
  BY DEF IInv, TypeInv, UnitsTypeOK, StopInv, Hushed, Quiet, Abandoned, files,
         systemd, radio, callers, history
<1>4. SaveInv'
  BY DEF IInv, TypeInv, UnitsTypeOK, Sourced, SaveInv, SaveOf, Setting,
         Schedule, files, systemd, radio, callers, history
<1> QED
  BY <1>1, <1>2, <1>3, <1>4 DEF IInv

LEMMA ScriptKillsIInv ==
  ASSUME IInv, ScriptKills
  PROVE  IInv'
<1> USE UnitsAssumption DEF ONESHOT_UNIT, SCHED_UNIT, Service, Starting, Stopping,
        Saving, ScriptKills
<1>1. TypeInv'
  BY DEF IInv, TypeInv, UnitsTypeOK, Sourced, Setting, Schedule, files,
         systemd, radio, callers, history
<1>2. StartInv'
  BY DEF IInv, TypeInv, UnitsTypeOK, StartInv, StartOf, files, systemd, radio,
         callers, history
<1>3. StopInv'
  BY DEF IInv, TypeInv, UnitsTypeOK, StopInv, Hushed, Quiet, Abandoned, files,
         systemd, radio, callers, history
<1>4. SaveInv'
  BY DEF IInv, TypeInv, UnitsTypeOK, Sourced, SaveInv, SaveOf, Setting,
         Schedule, files, systemd, radio, callers, history
<1> QED
  BY <1>1, <1>2, <1>3, <1>4 DEF IInv

LEMMA ScriptWaitsIInv ==
  ASSUME IInv, ScriptWaits
  PROVE  IInv'
<1> USE UnitsAssumption DEF ONESHOT_UNIT, SCHED_UNIT, Service, Starting, Stopping,
        Saving, ScriptWaits
<1>1. TypeInv'
  BY DEF IInv, TypeInv, UnitsTypeOK, Sourced, Setting, Schedule, files,
         systemd, radio, callers, history
<1>2. StartInv'
  BY DEF IInv, TypeInv, UnitsTypeOK, StartInv, StartOf, files, systemd, radio,
         callers, history
<1>3. StopInv'
  BY DEF IInv, TypeInv, UnitsTypeOK, StopInv, Hushed, Quiet, Abandoned, files,
         systemd, radio, callers, history
<1>4. SaveInv'
  BY DEF IInv, TypeInv, UnitsTypeOK, Sourced, SaveInv, SaveOf, Setting,
         Schedule, files, systemd, radio, callers, history
<1> QED
  BY <1>1, <1>2, <1>3, <1>4 DEF IInv

LEMMA SchedulerEndsIInv ==
  ASSUME IInv, SchedulerEnds
  PROVE  IInv'
<1> USE UnitsAssumption DEF ONESHOT_UNIT, SCHED_UNIT, Service, Starting, Stopping,
        Saving, SchedulerEnds, SchedulerIsOver, StartScheduler, NoScript
<1>1. TypeInv'
  BY DEF IInv, TypeInv, UnitsTypeOK, Sourced, Setting, Schedule, files,
         systemd, radio, callers, history
<1>2. StartInv'
  BY DEF IInv, TypeInv, UnitsTypeOK, StartInv, StartOf, files, systemd, radio,
         callers, history
<1>3. StopInv'
  BY DEF IInv, TypeInv, UnitsTypeOK, StopInv, Hushed, Quiet, Abandoned, files,
         systemd, radio, callers, history
<1>4. SaveInv'
  BY DEF IInv, TypeInv, UnitsTypeOK, Sourced, SaveInv, SaveOf, Setting,
         Schedule, files, systemd, radio, callers, history
<1> QED
  BY <1>1, <1>2, <1>3, <1>4 DEF IInv

LEMMA StopTimesOutIInv ==
  ASSUME IInv, StopTimesOut
  PROVE  IInv'
<1> USE UnitsAssumption DEF ONESHOT_UNIT, SCHED_UNIT, Service, Starting, Stopping,
        Saving, StopTimesOut, SchedulerIsOver, StartScheduler, NoScript
<1>1. TypeInv'
  BY DEF IInv, TypeInv, UnitsTypeOK, Sourced, Setting, Schedule, files,
         systemd, radio, callers, history
<1>2. StartInv'
  BY DEF IInv, TypeInv, UnitsTypeOK, StartInv, StartOf, files, systemd, radio,
         callers, history
<1>3. StopInv'
  BY DEF IInv, TypeInv, UnitsTypeOK, StopInv, Hushed, Quiet, Abandoned, files,
         systemd, radio, callers, history
<1>4. SaveInv'
  BY DEF IInv, TypeInv, UnitsTypeOK, Sourced, SaveInv, SaveOf, Setting,
         Schedule, files, systemd, radio, callers, history
<1> QED
  BY <1>1, <1>2, <1>3, <1>4 DEF IInv

LEMMA WriteEnvIInv ==
  ASSUME IInv, NEW c \in Caller, NEW station \in Station, WriteEnv(c, station)
  PROVE  IInv'
<1> USE UnitsAssumption DEF ONESHOT_UNIT, SCHED_UNIT, Service, Starting, Stopping,
        Saving, WriteEnv, Goto, Begin, Undisturbed
<1>1. TypeInv'
  BY DEF IInv, TypeInv, UnitsTypeOK, Sourced, Setting, Schedule, files,
         systemd, radio, callers, history
<1>2. StartInv'
  <2>1. SUFFICES ASSUME NEW d \in alone', at'[d] \in Starting
                 PROVE  StartOf(d)'
    BY DEF StartInv
  <2>2. d = c
    BY <2>1 DEF IInv, TypeInv, UnitsTypeOK, StartInv, StartOf
  <2>3. StartOf(c)'
    BY <2>1, <2>2 DEF IInv, TypeInv, UnitsTypeOK, StartOf
  <2> QED
    BY <2>2, <2>3
<1>3. StopInv'
  BY DEF IInv, TypeInv, UnitsTypeOK, StopInv, Hushed, Quiet, Abandoned, files,
         systemd, radio, callers, history
<1>4. SaveInv'
  BY DEF IInv, TypeInv, UnitsTypeOK, Sourced, SaveInv, SaveOf, Setting,
         Schedule, files, systemd, radio, callers, history
<1> QED
  BY <1>1, <1>2, <1>3, <1>4 DEF IInv

LEMMA SystemctlStartIInv ==
  ASSUME IInv, NEW c \in Caller, SystemctlStart(c)
  PROVE  IInv'
<1> USE UnitsAssumption DEF ONESHOT_UNIT, SCHED_UNIT, Service, Starting, Stopping,
        Saving, SystemctlStart, StartOneshot, Transmit, Goto, Disturb, Undisturbed
<1>1. TypeInv'
  <2>1. UnitsMatch /\ FilesMatch /\ CallersMatch
    BY TypeParts DEF IInv
  <2>2. UnitsMatch'
    <3>1. OneshotStation \in Station /\ OneshotStation # None
      BY <2>1, StationGiven
    <3>2. CASE unit[ONESHOT_UNIT] = "inactive"
      BY <2>1, <3>1, <3>2 DEF UnitsMatch, radio, files
    <3>3. CASE ~(unit[ONESHOT_UNIT] = "inactive")
      BY <2>1, <3>1, <3>3 DEF UnitsMatch, radio, files
    <3> QED
      BY <3>2, <3>3
  <2>3. FilesMatch'
    BY <2>1 DEF FilesMatch, files, systemd, radio, history
  <2>4. CallersMatch'
    BY <2>1 DEF CallersMatch, Sourced, callers
  <2> QED
    BY <2>2, <2>3, <2>4, TypeParts, PTL
<1>2. StartInv'
  BY DEF IInv, TypeInv, UnitsTypeOK, StartInv, StartOf, OneshotStation, files,
         systemd, radio, callers, history
<1>3. StopInv'
  BY DEF IInv, TypeInv, UnitsTypeOK, StopInv, Hushed, Quiet, Abandoned, files,
         systemd, radio, callers, history
<1>4. SaveInv'
  BY DEF IInv, TypeInv, UnitsTypeOK, Sourced, SaveInv, SaveOf, Setting,
         Schedule, files, systemd, radio, callers, history
<1> QED
  BY <1>1, <1>2, <1>3, <1>4 DEF IInv

LEMMA StartReturnsIInv ==
  ASSUME IInv, NEW c \in Caller, StartReturns(c)
  PROVE  IInv'
<1> USE UnitsAssumption DEF ONESHOT_UNIT, SCHED_UNIT, Service, Starting, Stopping,
        Saving, StartReturns, Goto, Forget, Leave
<1>1. TypeInv'
  BY DEF IInv, TypeInv, UnitsTypeOK, Sourced, Setting, Schedule, files,
         systemd, radio, callers, history
<1>2. StartInv'
  BY DEF IInv, TypeInv, UnitsTypeOK, StartInv, StartOf, files, systemd, radio,
         callers, history
<1>3. StopInv'
  BY DEF IInv, TypeInv, UnitsTypeOK, StopInv, Hushed, Quiet, Abandoned, files,
         systemd, radio, callers, history
<1>4. SaveInv'
  BY DEF IInv, TypeInv, UnitsTypeOK, Sourced, SaveInv, SaveOf, Setting,
         Schedule, files, systemd, radio, callers, history
<1> QED
  BY <1>1, <1>2, <1>3, <1>4 DEF IInv

LEMMA EchoIInv ==
  ASSUME IInv, NEW c \in Caller, Echo(c)
  PROVE  IInv'
<1> USE UnitsAssumption DEF ONESHOT_UNIT, SCHED_UNIT, Service, Starting, Stopping,
        Saving, Echo, Goto, Forget, Leave
<1>1. TypeInv'
  BY DEF IInv, TypeInv, UnitsTypeOK, Sourced, Setting, Schedule, files,
         systemd, radio, callers, history
<1>2. StartInv'
  BY DEF IInv, TypeInv, UnitsTypeOK, StartInv, StartOf, files, systemd, radio,
         callers, history
<1>3. StopInv'
  BY DEF IInv, TypeInv, UnitsTypeOK, StopInv, Hushed, Quiet, Abandoned, files,
         systemd, radio, callers, history
<1>4. SaveInv'
  BY DEF IInv, TypeInv, UnitsTypeOK, Sourced, SaveInv, SaveOf, Setting,
         Schedule, files, systemd, radio, callers, history
<1> QED
  BY <1>1, <1>2, <1>3, <1>4 DEF IInv

LEMMA SystemctlStopIInv ==
  ASSUME IInv, NEW c \in Caller, SystemctlStop(c)
  PROVE  IInv'
<1> USE UnitsAssumption DEF ONESHOT_UNIT, SCHED_UNIT, Service, Starting, Stopping,
        Saving, SystemctlStop, StopUnits, Signal, AllSignalled, Goto
<1>1. TypeInv'
  <2>1. UnitsMatch /\ FilesMatch /\ CallersMatch
    BY TypeParts DEF IInv
  <2>2. UnitsMatch'
    BY <2>1 DEF UnitsMatch, radio
  <2>3. FilesMatch'
    BY <2>1 DEF FilesMatch, files, systemd, radio, history
  <2>4. CallersMatch'
    BY <2>1 DEF CallersMatch, Sourced, callers
  <2> QED
    BY <2>2, <2>3, <2>4, TypeParts, PTL
<1>2. StartInv'
  BY DEF IInv, TypeInv, UnitsTypeOK, StartInv, StartOf, files, systemd, radio,
         callers, history
<1>3. StopInv'
  BY DEF IInv, TypeInv, UnitsTypeOK, StopInv, Hushed, Quiet, Abandoned, files,
         systemd, radio, callers, history
<1>4. SaveInv'
  BY DEF IInv, TypeInv, UnitsTypeOK, Sourced, SaveInv, SaveOf, Setting,
         Schedule, files, systemd, radio, callers, history
<1> QED
  BY <1>1, <1>2, <1>3, <1>4 DEF IInv

LEMMA StopReturnsIInv ==
  ASSUME IInv, NEW c \in Caller, StopReturns(c)
  PROVE  IInv'
<1> USE UnitsAssumption DEF ONESHOT_UNIT, SCHED_UNIT, Service, Starting, Stopping,
        Saving, StopReturns, Goto
<1>1. TypeInv'
  BY DEF IInv, TypeInv, UnitsTypeOK, Sourced, Setting, Schedule, files,
         systemd, radio, callers, history
<1>2. StartInv'
  BY DEF IInv, TypeInv, UnitsTypeOK, StartInv, StartOf, files, systemd, radio,
         callers, history
<1>3. StopInv'
  BY DEF IInv, TypeInv, UnitsTypeOK, StopInv, Hushed, Quiet, Abandoned, files,
         systemd, radio, callers, history
<1>4. SaveInv'
  BY DEF IInv, TypeInv, UnitsTypeOK, Sourced, SaveInv, SaveOf, Setting,
         Schedule, files, systemd, radio, callers, history
<1> QED
  BY <1>1, <1>2, <1>3, <1>4 DEF IInv

LEMMA EditConfIInv ==
  ASSUME IInv, NEW times \in Times, EditConf(times)
  PROVE  IInv'
<1> USE UnitsAssumption DEF ONESHOT_UNIT, SCHED_UNIT, Service, Starting, Stopping,
        Saving, EditConf, Disturb, Undisturbed
<1>1. TypeInv'
  BY DEF IInv, TypeInv, UnitsTypeOK, Sourced, Setting, Schedule, files,
         systemd, radio, callers, history
<1>2. StartInv'
  BY DEF IInv, TypeInv, UnitsTypeOK, StartInv, StartOf, files, systemd, radio,
         callers, history
<1>3. StopInv'
  BY DEF IInv, TypeInv, UnitsTypeOK, StopInv, Hushed, Quiet, Abandoned, files,
         systemd, radio, callers, history
<1>4. SaveInv'
  BY DEF IInv, TypeInv, UnitsTypeOK, Sourced, SaveInv, SaveOf, Setting,
         Schedule, files, systemd, radio, callers, history
<1> QED
  BY <1>1, <1>2, <1>3, <1>4 DEF IInv

LEMMA SaveScheduleIInv ==
  ASSUME IInv, NEW c \in Caller, NEW times \in Times, NEW enabled \in BOOLEAN,
         SaveSchedule(c, times, enabled)
  PROVE  IInv'
<1> USE UnitsAssumption DEF ONESHOT_UNIT, SCHED_UNIT, Service, Starting, Stopping,
        Saving, SaveSchedule, Goto, Begin, Undisturbed
<1>1. TypeInv'
  <2>1. UnitsMatch /\ FilesMatch /\ CallersMatch
    BY TypeParts DEF IInv
  <2>2. UnitsMatch'
    BY <2>1 DEF UnitsMatch, systemd, radio
  <2>3. FilesMatch'
    BY <2>1 DEF FilesMatch, Setting, systemd, radio, history
  <2>4. CallersMatch'
    BY <2>1 DEF CallersMatch, Sourced, callers
  <2> QED
    BY <2>2, <2>3, <2>4, TypeParts, PTL
<1>2. StartInv'
  BY DEF IInv, TypeInv, UnitsTypeOK, StartInv, StartOf, files, systemd, radio,
         callers, history
<1>3. StopInv'
  BY DEF IInv, TypeInv, UnitsTypeOK, StopInv, Hushed, Quiet, Abandoned, files,
         systemd, radio, callers, history
<1>4. SaveInv'
  <2>1. SUFFICES ASSUME NEW d \in alone', at'[d] \in Saving
                 PROVE  SaveOf(d)'
    BY DEF SaveInv
  <2>2. d = c
    BY <2>1 DEF IInv, TypeInv, UnitsTypeOK, SaveInv, SaveOf
  <2>3. SaveOf(c)'
    BY <2>1, <2>2 DEF IInv, TypeInv, UnitsTypeOK, SaveOf
  <2> QED
    BY <2>2, <2>3
<1> QED
  BY <1>1, <1>2, <1>3, <1>4 DEF IInv

LEMMA SourceConfIInv ==
  ASSUME IInv, NEW c \in Caller, SourceConf(c)
  PROVE  IInv'
<1> USE UnitsAssumption DEF ONESHOT_UNIT, SCHED_UNIT, Service, Starting, Stopping,
        Saving, SourceConf, Goto, Effective
<1>1. TypeInv'
  BY DEF IInv, TypeInv, UnitsTypeOK, Sourced, Setting, Schedule, files,
         systemd, radio, callers, history
<1>2. StartInv'
  BY DEF IInv, TypeInv, UnitsTypeOK, StartInv, StartOf, files, systemd, radio,
         callers, history
<1>3. StopInv'
  BY DEF IInv, TypeInv, UnitsTypeOK, StopInv, Hushed, Quiet, Abandoned, files,
         systemd, radio, callers, history
<1>4. SaveInv'
  BY DEF IInv, TypeInv, UnitsTypeOK, Sourced, SaveInv, SaveOf, Setting,
         Schedule, files, systemd, radio, callers, history
<1> QED
  BY <1>1, <1>2, <1>3, <1>4 DEF IInv

LEMMA OpenDropinIInv ==
  ASSUME IInv, NEW c \in Caller, OpenDropin(c)
  PROVE  IInv'
<1> USE UnitsAssumption DEF ONESHOT_UNIT, SCHED_UNIT, Service, Starting, Stopping,
        Saving, OpenDropin, Goto, Lines
<1>1. TypeInv'
  BY DEF IInv, TypeInv, UnitsTypeOK, Sourced, Setting, Schedule, files,
         systemd, radio, callers, history
<1>2. StartInv'
  BY DEF IInv, TypeInv, UnitsTypeOK, StartInv, StartOf, files, systemd, radio,
         callers, history
<1>3. StopInv'
  BY DEF IInv, TypeInv, UnitsTypeOK, StopInv, Hushed, Quiet, Abandoned, files,
         systemd, radio, callers, history
<1>4. SaveInv'
  BY DEF IInv, TypeInv, UnitsTypeOK, Sourced, SaveInv, SaveOf, Setting,
         Schedule, files, systemd, radio, callers, history
<1> QED
  BY <1>1, <1>2, <1>3, <1>4 DEF IInv

LEMMA WriteDropinIInv ==
  ASSUME IInv, NEW c \in Caller, WriteDropin(c)
  PROVE  IInv'
<1> USE UnitsAssumption DEF ONESHOT_UNIT, SCHED_UNIT, Service, Starting, Stopping,
        Saving, WriteDropin, Goto, Lines, Overwrite, Calendar, Exit, Leave
<1>1. TypeInv'
  BY DEF IInv, TypeInv, UnitsTypeOK, Sourced, Setting, Schedule, files,
         systemd, radio, callers, history
<1>2. StartInv'
  BY DEF IInv, TypeInv, UnitsTypeOK, StartInv, StartOf, files, systemd, radio,
         callers, history
<1>3. StopInv'
  BY DEF IInv, TypeInv, UnitsTypeOK, StopInv, Hushed, Quiet, Abandoned, files,
         systemd, radio, callers, history
<1>4. SaveInv'
  <2>0. /\ at[c] = "write" /\ alone' \subseteq alone
        /\ \A e \in Caller \ {c} : at'[e] = at[e]
    BY DEF IInv, TypeInv, UnitsTypeOK, history
  <2>1. SUFFICES ASSUME NEW d \in alone', at'[d] \in Saving
                 PROVE  SaveOf(d)'
    BY DEF SaveInv
  <2>2. d = c
    <3>1. SUFFICES ASSUME d # c PROVE FALSE
      OBVIOUS
    <3>2. d \in alone /\ d \in Caller /\ at[d] \in Saving
      BY <2>0, <2>1, <3>1 DEF IInv, TypeInv, UnitsTypeOK
    <3> QED
      BY <2>0, <3>1, <3>2 DEF IInv, SaveInv, SaveOf
  <2>3. /\ c \in alone /\ SaveOf(c) /\ Invalid \notin sourced[c].times
        /\ at'[c] = "reload" /\ UNCHANGED <<conf, sourced>>
    BY <2>0, <2>1, <2>2 DEF IInv, TypeInv, UnitsTypeOK, SaveInv, history
  <2>4. dropin' = Effective(conf.times) /\ dropin' \in SUBSET Time
    <3>1. /\ sourced[c].times = Effective(conf.times)
          /\ sourced[c].times \in SUBSET (Time \cup {Invalid})
          /\ dropin # None => dropin \subseteq Effective(conf.times)
      BY <2>0, <2>3 DEF IInv, TypeInv, Sourced, Schedule, SaveOf
    <3>2. PICK tail \in SUBSET Calendar(dropin) :
            dropin' = Lines(c) \cup (IF dropin = None THEN {} ELSE tail)
      BY <2>3
    <3>3. Lines(c) = Effective(conf.times) /\ Lines(c) \subseteq Time
      BY <2>3, <3>1
    <3>4. dropin' = Lines(c)
      BY <3>1, <3>2, <3>3
    <3> QED
      BY <3>3, <3>4
  <2>5. SaveOf(c)'
    BY <2>0, <2>3, <2>4 DEF SaveOf, Effective
  <2> QED
    BY <2>2, <2>5
<1> QED
  BY <1>1, <1>2, <1>3, <1>4 DEF IInv

LEMMA DaemonReloadIInv ==
  ASSUME IInv, NEW c \in Caller, DaemonReload(c)
  PROVE  IInv'
<1> USE UnitsAssumption DEF ONESHOT_UNIT, SCHED_UNIT, Service, Starting, Stopping,
        Saving, DaemonReload, Goto, Calendar
<1>1. TypeInv'
  BY DEF IInv, TypeInv, UnitsTypeOK, Sourced, Setting, Schedule, files,
         systemd, radio, callers, history
<1>2. StartInv'
  BY DEF IInv, TypeInv, UnitsTypeOK, StartInv, StartOf, files, systemd, radio,
         callers, history
<1>3. StopInv'
  BY DEF IInv, TypeInv, UnitsTypeOK, StopInv, Hushed, Quiet, Abandoned, files,
         systemd, radio, callers, history
<1>4. SaveInv'
  BY DEF IInv, TypeInv, UnitsTypeOK, Sourced, SaveInv, SaveOf, Setting,
         Schedule, files, systemd, radio, callers, history
<1> QED
  BY <1>1, <1>2, <1>3, <1>4 DEF IInv

LEMMA ApplyTimerIInv ==
  ASSUME IInv, NEW c \in Caller, ApplyTimer(c)
  PROVE  IInv'
<1> USE UnitsAssumption DEF ONESHOT_UNIT, SCHED_UNIT, Service, Starting, Stopping,
        Saving, ApplyTimer, SetTimer, EnableTimer, DisableTimer, ScheduleJob,
        StartScheduler, Calendar, Goto, Exit, Undisturbed
<1>1. TypeInv'
  <2>1. UnitsMatch /\ FilesMatch /\ CallersMatch
    BY TypeParts DEF IInv
  <2>2. UnitsMatch'
    BY <2>1, JobKeepsUnits DEF radio, EnableTimer, DisableTimer
  <2>3. FilesMatch'
    BY <2>1 DEF FilesMatch, files, systemd, radio, history
  <2>4. CallersMatch'
    BY <2>1 DEF CallersMatch, Sourced, callers
  <2> QED
    BY <2>2, <2>3, <2>4, TypeParts, PTL
<1>2. StartInv'
  BY DEF IInv, TypeInv, UnitsTypeOK, StartInv, StartOf, files, systemd, radio,
         callers, history
<1>3. StopInv'
  BY DEF IInv, TypeInv, UnitsTypeOK, StopInv, Hushed, Quiet, Abandoned, files,
         systemd, radio, callers, history
<1>4. SaveInv'
  BY DEF IInv, TypeInv, UnitsTypeOK, Sourced, SaveInv, SaveOf, Setting,
         Schedule, files, systemd, radio, callers, history
<1> QED
  BY <1>1, <1>2, <1>3, <1>4 DEF IInv

LEMMA ScheduleOnOffIInv ==
  ASSUME IInv, NEW c \in Caller, NEW on \in BOOLEAN, ScheduleOnOff(c, on)
  PROVE  IInv'
<1> USE UnitsAssumption DEF ONESHOT_UNIT, SCHED_UNIT, Service, Starting, Stopping,
        Saving, ScheduleOnOff, SetTimer, EnableTimer, DisableTimer, ScheduleJob,
        StartScheduler, Calendar, Undisturbed
<1>1. TypeInv'
  <2>1. UnitsMatch /\ FilesMatch /\ CallersMatch
    BY TypeParts DEF IInv
  <2>2. UnitsMatch'
    BY <2>1, JobKeepsUnits DEF radio, EnableTimer, DisableTimer
  <2>3. FilesMatch'
    BY <2>1 DEF FilesMatch, files, systemd, radio, history
  <2>4. CallersMatch'
    BY <2>1 DEF CallersMatch, Sourced, callers
  <2> QED
    BY <2>2, <2>3, <2>4, TypeParts, PTL
<1>2. StartInv'
  BY DEF IInv, TypeInv, UnitsTypeOK, StartInv, StartOf, files, systemd, radio,
         callers, history
<1>3. StopInv'
  BY DEF IInv, TypeInv, UnitsTypeOK, StopInv, Hushed, Quiet, Abandoned, files,
         systemd, radio, callers, history
<1>4. SaveInv'
  BY DEF IInv, TypeInv, UnitsTypeOK, Sourced, SaveInv, SaveOf, Setting,
         Schedule, files, systemd, radio, callers, history
<1> QED
  BY <1>1, <1>2, <1>3, <1>4 DEF IInv

LEMMA SaveStationIInv ==
  ASSUME IInv, NEW c \in Caller, NEW station \in Station, SaveStation(c, station)
  PROVE  IInv'
<1> USE UnitsAssumption DEF ONESHOT_UNIT, SCHED_UNIT, Service, Starting, Stopping,
        Saving, SaveStation
<1>1. TypeInv'
  BY DEF IInv, TypeInv, UnitsTypeOK, Sourced, Setting, Schedule, files,
         systemd, radio, callers, history
<1>2. StartInv'
  BY DEF IInv, TypeInv, UnitsTypeOK, StartInv, StartOf, files, systemd, radio,
         callers, history
<1>3. StopInv'
  BY DEF IInv, TypeInv, UnitsTypeOK, StopInv, Hushed, Quiet, Abandoned, files,
         systemd, radio, callers, history
<1>4. SaveInv'
  BY DEF IInv, TypeInv, UnitsTypeOK, Sourced, SaveInv, SaveOf, Setting,
         Schedule, files, systemd, radio, callers, history
<1> QED
  BY <1>1, <1>2, <1>3, <1>4 DEF IInv

LEMMA PermitPreviewIInv ==
  ASSUME IInv, NEW c \in Caller, PermitPreview(c)
  PROVE  IInv'
<1> USE UnitsAssumption DEF ONESHOT_UNIT, SCHED_UNIT, Service, Starting, Stopping,
        Saving, PermitPreview, Goto
<1>1. TypeInv'
  BY DEF IInv, TypeInv, UnitsTypeOK, Sourced, Setting, Schedule, files,
         systemd, radio, callers, history
<1>2. StartInv'
  BY DEF IInv, TypeInv, UnitsTypeOK, StartInv, StartOf, files, systemd, radio,
         callers, history
<1>3. StopInv'
  BY DEF IInv, TypeInv, UnitsTypeOK, StopInv, Hushed, Quiet, Abandoned, files,
         systemd, radio, callers, history
<1>4. SaveInv'
  BY DEF IInv, TypeInv, UnitsTypeOK, Sourced, SaveInv, SaveOf, Setting,
         Schedule, files, systemd, radio, callers, history
<1> QED
  BY <1>1, <1>2, <1>3, <1>4 DEF IInv

LEMMA PreviewIInv ==
  ASSUME IInv, NEW c \in Caller, Preview(c)
  PROVE  IInv'
<1> USE UnitsAssumption DEF ONESHOT_UNIT, SCHED_UNIT, Service, Starting, Stopping,
        Saving, Preview, Goto
<1>1. TypeInv'
  BY DEF IInv, TypeInv, UnitsTypeOK, Sourced, Setting, Schedule, files,
         systemd, radio, callers, history
<1>2. StartInv'
  BY DEF IInv, TypeInv, UnitsTypeOK, StartInv, StartOf, files, systemd, radio,
         callers, history
<1>3. StopInv'
  BY DEF IInv, TypeInv, UnitsTypeOK, StopInv, Hushed, Quiet, Abandoned, files,
         systemd, radio, callers, history
<1>4. SaveInv'
  BY DEF IInv, TypeInv, UnitsTypeOK, Sourced, SaveInv, SaveOf, Setting,
         Schedule, files, systemd, radio, callers, history
<1> QED
  BY <1>1, <1>2, <1>3, <1>4 DEF IInv

LEMMA RebootIInv ==
  ASSUME IInv, Reboot
  PROVE  IInv'
<1> USE UnitsAssumption DEF ONESHOT_UNIT, SCHED_UNIT, Service, Starting, Stopping,
        Saving, Reboot, NoScript, Calendar
<1>1. TypeInv'
  BY DEF IInv, TypeInv, UnitsTypeOK, Sourced, Setting, Schedule, files,
         systemd, radio, callers, history
<1>2. StartInv'
  BY DEF IInv, TypeInv, UnitsTypeOK, StartInv, StartOf, files, systemd, radio,
         callers, history
<1>3. StopInv'
  BY DEF IInv, TypeInv, UnitsTypeOK, StopInv, Hushed, Quiet, Abandoned, files,
         systemd, radio, callers, history
<1>4. SaveInv'
  BY DEF IInv, TypeInv, UnitsTypeOK, Sourced, SaveInv, SaveOf, Setting,
         Schedule, files, systemd, radio, callers, history
<1> QED
  BY <1>1, <1>2, <1>3, <1>4 DEF IInv

-----------------------------------------------------------------------------
LEMMA InitIInv == Init => IInv
<1> SUFFICES ASSUME Init PROVE IInv
  OBVIOUS
<1> USE UnitsAssumption DEF Init, ONESHOT_UNIT, SCHED_UNIT, Service
<1>1. TypeInv
  <2>1. Effective(conf.times) \in SUBSET Time
    BY DEF Setting, Effective
  <2>2. UnitsMatch
    BY DEF UnitsMatch, NoScript
  <2>3. FilesMatch
    BY <2>1 DEF FilesMatch, Setting
  <2>4. CallersMatch
    BY DEF CallersMatch, Sourced, Saving
  <2> QED
    BY <2>2, <2>3, <2>4, TypeParts
<1>2. StartInv /\ StopInv /\ SaveInv
  BY DEF StartInv, StopInv, SaveInv
<1> QED
  BY <1>1, <1>2 DEF IInv

LEMMA NextIInv == IInv /\ [Next]_vars => IInv'
<1> SUFFICES ASSUME IInv, [Next]_vars PROVE IInv'
  OBVIOUS
<1>1. CASE Systemd
  BY <1>1, TimerElapsesIInv, OneshotEndsIInv, ScriptTransmitsIInv,
     ScheduledTxEndsIInv, ScriptTimesOutIInv, ScriptKillsIInv, ScriptWaitsIInv,
     SchedulerEndsIInv, StopTimesOutIInv DEF Systemd
<1>2. ASSUME NEW c \in Caller, Command(c)
      PROVE  IInv'
  BY <1>2, WriteEnvIInv, SystemctlStopIInv, SaveScheduleIInv,
     ScheduleOnOffIInv,
     SaveStationIInv, PermitPreviewIInv DEF Command
<1>3. ASSUME NEW c \in Caller, Control(c)
      PROVE  IInv'
  BY <1>3, SystemctlStartIInv, StartReturnsIInv, EchoIInv, StopReturnsIInv,
     SourceConfIInv, OpenDropinIInv, WriteDropinIInv, DaemonReloadIInv,
     ApplyTimerIInv, PreviewIInv DEF Control
<1>4. CASE UNCHANGED vars
  <2>1. TypeInv'
    BY <1>4 DEF vars, files, systemd, radio, callers, history, IInv, TypeInv,
                UnitsTypeOK, Sourced
  <2>2. StartInv' /\ StopInv' /\ SaveInv'
    BY <1>4 DEF vars, files, systemd, radio, callers, history, IInv, StartInv,
                StartOf, StopInv, Hushed, Quiet, Abandoned, SaveInv, SaveOf
  <2> QED
    BY <2>1, <2>2 DEF IInv
<1>5. ASSUME NEW times \in Times, EditConf(times)
      PROVE  IInv'
  BY <1>5, EditConfIInv
<1> QED
  BY <1>1, <1>2, <1>3, <1>4, <1>5, RebootIInv DEF Next

LEMMA SpecIInv == Spec => []IInv
BY InitIInv, NextIInv, PTL DEF Spec

-----------------------------------------------------------------------------
(***************************************************************************)
(* A service is inactive exactly when none of its processes is left, and only *)
(* a unit that is being stopped has a start that waits or a transmitter with   *)
(* the signal (deploy/systemd/txtempus-oneshot.service,                     *)
(* txtempus-scheduler.service).                                            *)
(***************************************************************************)
THEOREM UnitsTypeCorrect == Spec => []UnitsTypeOK
<1>1. IInv => UnitsTypeOK
  BY DEF IInv, TypeInv
<1> QED
  BY <1>1, SpecIInv, PTL

(***************************************************************************)
(* A start that says "started" put the station on the air that was asked for, *)
(* also from the queue behind a stop and whatever the configuration became     *)
(* meanwhile: the environment file is still its own when the unit reads it.    *)
(* Only a start that met no other start and found no transmission is meant     *)
(* (deploy/txtempus-control.sh:62-70).                                     *)
(***************************************************************************)
THEOREM StartsWhatWasAsked == Spec => []StartedStationIsOnAir
<1>1. IInv => StartedStationIsOnAir
  BY DEF IInv, StartInv, StartOf, Starting, StartedStationIsOnAir
<1> QED
  BY <1>1, SpecIInv, PTL

(***************************************************************************)
(* A stop whose signal reached every transmitter, and after which nobody has   *)
(* started anything, leaves silence when it returns, and the page says         *)
(* "transmitting" at most for a preview (deploy/txtempus-control.sh:73-77).   *)
(***************************************************************************)
THEOREM StopsSilence == Spec => []StopSilencesTransmitters
<1>1. IInv => StopSilencesTransmitters
  <2> SUFFICES ASSUME IInv, NEW c \in alone \cap reached, at[c] = "stopped"
               PROVE  Quiet /\ (transmitting_now => \E d \in Caller : at[d] = "previewing")
    BY DEF StopSilencesTransmitters
  <2>1. Quiet
    BY DEF IInv, StopInv
  <2>2. ~IsActive(ONESHOT_UNIT) /\ ~IsActive(SCHED_UNIT)
    BY <2>1 DEF IInv, TypeInv, UnitsTypeOK, Quiet, IsActive, Service,
                ONESHOT_UNIT, SCHED_UNIT
  <2> QED
    BY <2>1, <2>2 DEF Quiet, transmitting_now, Service
<1> QED
  BY <1>1, SpecIInv, PTL

(***************************************************************************)
(* When a save that met no other and no edit starts the timer, systemd has     *)
(* read the very times that the configuration has, if it has any, whatever     *)
(* file the reboots, the edits and the invalid times of earlier saves have      *)
(* left (deploy/txtempus-control.sh:79-109).                                *)
(***************************************************************************)
THEOREM SavedScheduleIsApplied == Spec => []AppliedScheduleIsSaved
<1>1. IInv => AppliedScheduleIsSaved
  BY DEF IInv, SaveInv, SaveOf, Saving, Effective, AppliedScheduleIsSaved
<1> QED
  BY <1>1, SpecIInv, PTL

=============================================================================
