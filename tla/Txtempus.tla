------------------------------ MODULE Txtempus ------------------------------
(***************************************************************************)
(* src/txtempus.cc: the process that keys the carrier in step with the      *)
(* wall clock, composed with the register accesses its hardware calls make  *)
(* (RpiControl), the signals it receives and the clock it sleeps on.       *)
(*                                                                         *)
(* What a time source puts on the air is a parameter, Modulation; the       *)
(* encoders that compute it have modules of their own.                     *)
(***************************************************************************)
EXTENDS RpiControl, Sequences

CONSTANTS
  Job,               \* command lines: [source, ttl, offset, dry]
  CarrierOf(_),      \* GetCarrierFrequencyHz of a source, in 500 Hz
  Modulation(_,_,_), \* GetModulationForSecond: (source, minute, second)
  TicksPerSecond,    \* resolution of the model's wall clock
  SecondsPerMinute,  \* 60 in the code
  MaxTime,           \* bound on the wall clock, in ticks
  ClockSteps,        \* jumps of the wall clock (NTP), in ticks
  MaxClockSteps,     \* bound on their number
  RealTime           \* TRUE: no runnable process is kept from running

Minute  == SecondsPerMinute * TicksPerSecond
Forever == -1        \* no -r, or a negative one: ttl never reaches 0

ASSUME TimeAssumption ==
  /\ TicksPerSecond \in Nat \ {0}
  /\ SecondsPerMinute \in Nat \ {0}
  /\ MaxTime \in Nat /\ MaxClockSteps \in Nat
  /\ ClockSteps \subseteq Int
  /\ RealTime \in BOOLEAN

ASSUME JobAssumption ==
  \A j \in Job :
    /\ CarrierOf(j.source) \in Carrier /\ Synthesizable(CarrierOf(j.source))
    /\ j.ttl \in Nat \cup {Forever} /\ j.offset \in Int /\ j.dry \in BOOLEAN

(* Every second of the minutes a job can reach has at least one level.      *)
LastMinute(j) == IF j.ttl = Forever THEN MaxTime \div Minute ELSE j.ttl

ASSUME ModulationAssumption ==
  \A j \in Job : \A m \in 0 .. LastMinute(j), s \in 0 .. SecondsPerMinute - 1 :
    LET pattern == Modulation(j.source, m + j.offset, s)
    IN  pattern \in Seq([power : Power, ticks : Nat]) /\ pattern # <<>>

VARIABLES
  clock,     \* CLOCK_REALTIME
  stepped,   \* number of clock steps so far
  tx,        \* the variables of main(), per process:
             \*   at           where it is
             \*   job          its command line
             \*   now          the full minute it started in
             \*   minute       minute_start
             \*   ttl          minutes left to transmit
             \*   second       second of the minute
             \*   prepared     the minute PrepareMinute last encoded
             \*   moment       index into the second's modulation
             \*   wake         target_wait
             \*   interrupted  set by InterruptHandler
  overtime   \* history: ticks a process has lived since its first signal

timer == <<clock, stepped, overtime>>
all   == <<vars, tx, timer>>

(* main() has ended: hw.Init failed, a fault, a signal that kills, or       *)
(* through its last line.                                                  *)
Ended == {"failed", "crashed", "killed", "done"}

Live(p) == tx[p].at \notin Ended \cup {"off"}

Sleeping(p) == tx[p].at \in {"asleep", "napping"}

-----------------------------------------------------------------------------
(* A step of main() from one place to the next, with its new variables.    *)
From(p, place, new) == tx[p].at = place /\ tx' = [tx EXCEPT ![p] = new]

To(p, place) == [tx[p] EXCEPT !.at = place]

Software == UNCHANGED <<vars, timer>>

TruncateTo(t, d) == t - (t % d)

(* TruncateTo(time(NULL), 60), and the options.  The model launches in its  *)
(* first minute.                                                           *)
Launch(p) ==
  /\ clock < Minute
  /\ From(p, "off", [To(p, "init") EXCEPT
                       !.now    = TruncateTo(clock, Minute),
                       !.minute = TruncateTo(clock, Minute),
                       !.ttl    = tx[p].job.ttl])
  /\ Software

(* hw.Init refuses: a Pi 4 without -f, or no access to the GPIO registers.  *)
InitFails(p) ==
  /\ ~tx[p].job.dry
  /\ From(p, "init", To(p, "failed"))
  /\ Software

(* GPIO::Init compares clock_reg_ with MAP_FAILED, but mmap_bcm_register    *)
(* has turned MAP_FAILED into nullptr: without the clock registers it       *)
(* returns true all the same.                                              *)
InitSucceeds(p) ==
  /\ \/ From(p, "init", To(p, "start"))
     \/ ~tx[p].job.dry /\ From(p, "init", To(p, "unmapped"))
  /\ Software

(* The first store through the null clock_reg_.                            *)
Crash(p) == From(p, "unmapped", To(p, "crashed")) /\ Software

(* StartCarrier                                                            *)
StartCarrier(p) ==
  /\ From(p, "start", To(p, "minute"))
  /\ IF tx[p].job.dry THEN UNCHANGED vars
     ELSE StartClock(p, CarrierOf(tx[p].job.source))
  /\ UNCHANGED timer

(* for (...; !interrupted && ttl--; ...) PrepareMinute(...).                *)
(* An endless run is followed up to MaxTime.                               *)
BeginMinute(p) ==
  /\ pc[p] = "idle"
  /\ ~tx[p].interrupted /\ tx[p].ttl # 0
  /\ tx[p].ttl = Forever => tx[p].minute + Minute <= MaxTime
  /\ From(p, "minute", [To(p, "second") EXCEPT
                          !.ttl = IF @ = Forever THEN @ ELSE @ - 1,
                          !.prepared = (tx[p].minute \div Minute)
                                         + tx[p].job.offset,
                          !.second = 0])
  /\ Software

(* Mutant of LeaveLoop: --ttl for ttl--.                                   *)
LeaveLoopEarly(p) ==
  /\ pc[p] = "idle"
  /\ tx[p].interrupted \/ tx[p].ttl \in {0, 1}
  /\ From(p, "minute", To(p, "stop"))
  /\ Software

(* Mutant of LeaveLoop: only the loop over the seconds tests the flag.      *)
LeaveLoopAtEnd(p) ==
  /\ pc[p] = "idle"
  /\ tx[p].ttl = 0
  /\ From(p, "minute", To(p, "stop"))
  /\ Software

LeaveLoop(p) ==
  /\ pc[p] = "idle"
  /\ tx[p].interrupted \/ tx[p].ttl = 0
  /\ From(p, "minute", To(p, "stop"))
  /\ Software

(* Mutant of BeginSecond: second <= 60.                                    *)
BeginSecondOneMore(p) ==
  /\ tx[p].second <= SecondsPerMinute /\ ~tx[p].interrupted
  /\ From(p, "second", [To(p, "wait") EXCEPT
                          !.moment = 1,
                          !.wake = tx[p].minute
                                     + tx[p].second * TicksPerSecond])
  /\ Software

(* Mutant of BeginSecond: target_wait is the second before.                *)
BeginSecondEarly(p) ==
  /\ tx[p].second < SecondsPerMinute /\ ~tx[p].interrupted
  /\ From(p, "second", [To(p, "wait") EXCEPT
                          !.moment = 1,
                          !.wake = tx[p].minute
                                     + (tx[p].second - 1) * TicksPerSecond])
  /\ Software

(* for (second...; second < 60 && !interrupted; ...): target_wait is set    *)
(* to the beginning of the second.                                         *)
BeginSecond(p) ==
  /\ tx[p].second < SecondsPerMinute /\ ~tx[p].interrupted
  /\ From(p, "second", [To(p, "wait") EXCEPT
                          !.moment = 1,
                          !.wake = tx[p].minute
                                     + tx[p].second * TicksPerSecond])
  /\ Software

NextMinute(p) == [To(p, "minute") EXCEPT !.minute = @ + Minute]

EndMinute(p) ==
  /\ tx[p].second = SecondsPerMinute \/ tx[p].interrupted
  /\ From(p, "second", NextMinute(p))
  /\ Software

(* WaitUntil: clock_nanosleep until an absolute time.  A signal that        *)
(* arrives before the call does not shorten it.                            *)
Sleep(p) ==
  /\ \/ From(p, "wait", To(p, "asleep"))
     \/ From(p, "nap", To(p, "napping"))
  /\ Software

Woken(p) == To(p, IF tx[p].at = "asleep" THEN "awake" ELSE "next")

WakeUp(p) ==
  /\ Sleeping(p)
  /\ tx[p].job.dry \/ clock >= tx[p].wake
  /\ tx' = [tx EXCEPT ![p] = Woken(p)]
  /\ Software

(* Mutant of AtSecond: without "if (interrupted) break".                   *)
AtSecondUnchecked(p) == From(p, "awake", To(p, "key")) /\ Software

(* if (interrupted) break;                                                 *)
AtSecond(p) ==
  /\ From(p, "awake", IF tx[p].interrupted THEN NextMinute(p) ELSE To(p, "key"))
  /\ Software

Pattern(p) == Modulation(tx[p].job.source, tx[p].prepared, tx[p].second)

(* Mutant of KeyCarrier: no test of dryrun.                                *)
KeyCarrierAlways(p) ==
  /\ From(p, "key", To(p, "keyed"))
  /\ SetTxPower(p, Pattern(p)[tx[p].moment].power)
  /\ UNCHANGED timer

KeyCarrier(p) ==
  /\ From(p, "key", To(p, "keyed"))
  /\ IF tx[p].job.dry THEN UNCHANGED vars
     ELSE SetTxPower(p, Pattern(p)[tx[p].moment].power)
  /\ UNCHANGED timer

NextSecond(p) == [To(p, "second") EXCEPT !.second = @ + 1]

(* Mutant of AfterKeying: a duration counts from now.                      *)
AfterKeyingFromNow(p) ==
  LET duration == Pattern(p)[tx[p].moment].ticks
  IN  /\ pc[p] = "idle"
      /\ From(p, "keyed",
              IF duration = 0 THEN NextSecond(p)
              ELSE [To(p, "nap") EXCEPT !.wake = clock + duration])
      /\ Software

(* After SetTxPower: the last level of a second has duration 0 and lasts;   *)
(* the others are timed.                                                   *)
AfterKeying(p) ==
  LET duration == Pattern(p)[tx[p].moment].ticks
  IN  /\ pc[p] = "idle"
      /\ From(p, "keyed",
              IF duration = 0 THEN NextSecond(p)
              ELSE [To(p, "nap") EXCEPT !.wake = @ + duration])
      /\ Software

(* Mutant of NextMoment: the iterator is not advanced.                      *)
NextMomentSame(p) ==
  /\ From(p, "next", IF tx[p].moment < Len(Pattern(p)) THEN To(p, "key")
                     ELSE NextSecond(p))
  /\ Software

(* The next level of the second, if there is one: "interrupted" is not      *)
(* looked at here.                                                         *)
NextMoment(p) ==
  /\ From(p, "next", IF tx[p].moment < Len(Pattern(p))
                     THEN [To(p, "key") EXCEPT !.moment = @ + 1]
                     ELSE NextSecond(p))
  /\ Software

(* Mutant of StopCarrier: an interrupted run returns before StopClock.      *)
StopCarrierUnlessInterrupted(p) ==
  /\ From(p, "stop", To(p, "exit"))
  /\ IF tx[p].job.dry \/ tx[p].interrupted THEN UNCHANGED vars ELSE StopClock(p)
  /\ UNCHANGED timer

StopCarrier(p) ==
  /\ From(p, "stop", To(p, "exit"))
  /\ IF tx[p].job.dry THEN UNCHANGED vars ELSE StopClock(p)
  /\ UNCHANGED timer

Exit(p) == pc[p] = "idle" /\ From(p, "exit", To(p, "done")) /\ Software

Main(p) ==
  \/ InitFails(p) \/ InitSucceeds(p) \/ Crash(p)
  \/ StartCarrier(p) \/ BeginMinute(p) \/ LeaveLoop(p)
  \/ BeginSecond(p) \/ EndMinute(p) \/ Sleep(p) \/ WakeUp(p)
  \/ AtSecond(p) \/ KeyCarrier(p) \/ AfterKeying(p) \/ NextMoment(p)
  \/ StopCarrier(p) \/ Exit(p)

-----------------------------------------------------------------------------
(* SIGTERM or SIGINT: the default action before signal() is called, then    *)
(* InterruptHandler; a sleep in progress ends with EINTR.                  *)
Sigterm(p) ==
  /\ Live(p)
  /\ tx' = [tx EXCEPT ![p] =
              IF @.at \in {"init"} THEN To(p, "killed")
              ELSE IF Sleeping(p) THEN [Woken(p) EXCEPT !.interrupted = TRUE]
              ELSE [@ EXCEPT !.interrupted = TRUE]]
  /\ UNCHANGED <<vars, timer>>

(* SIGKILL: the process is gone in the middle of whatever it did.          *)
Sigkill(p) ==
  /\ Live(p)
  /\ tx' = [tx EXCEPT ![p] = To(p, "killed")]
  /\ pc' = [pc EXCEPT ![p] = "idle"]
  /\ op' = [op EXCEPT ![p] = "none"]
  /\ UNCHANGED <<regs, freq, held, settled, timer>>

(* A process with something to do other than sleep.                        *)
Runnable(p) ==
  /\ Live(p)
  /\ Sleeping(p) => tx[p].job.dry \/ clock >= tx[p].wake

GeneratorPending == busy # ("ENAB" \in ctl /\ "KILL" \notin ctl)

(* With SCHED_FIFO priority 99, locked memory and nothing else to do, the   *)
(* process runs whenever it can (RealTime); without them it may be late.    *)
Tick ==
  /\ clock < MaxTime
  /\ RealTime => ~GeneratorPending /\ \A p \in Proc : ~Runnable(p)
  /\ clock' = clock + 1
  /\ overtime' = [p \in Proc |->
       IF Live(p) /\ tx[p].interrupted /\ overtime[p] <= TicksPerSecond
       THEN overtime[p] + 1 ELSE overtime[p]]
  /\ UNCHANGED <<vars, tx, stepped>>

StepClock ==
  /\ stepped < MaxClockSteps
  /\ \E d \in ClockSteps : clock + d \in 0 .. MaxTime /\ clock' = clock + d
  /\ stepped' = stepped + 1
  /\ UNCHANGED <<vars, tx, overtime>>

-----------------------------------------------------------------------------
TxInit ==
  /\ Init
  /\ clock = 0
  /\ stepped = 0
  /\ tx \in [Proc -> {[at |-> "off", job |-> j, now |-> 0, minute |-> 0,
                       ttl |-> 0, second |-> 0, prepared |-> 0, moment |-> 1,
                       wake |-> 0, interrupted |-> FALSE] : j \in Job}]
  /\ overtime = [p \in Proc |-> 0]

Hardware(p) == RegisterAccess(p) /\ UNCHANGED <<tx, timer>>

GeneratorStep == Generator /\ UNCHANGED <<tx, timer>>

TxNext ==
  \/ GeneratorStep \/ Tick \/ StepClock
  \/ \E p \in Proc : \/ Launch(p) \/ Main(p) \/ Hardware(p)
                     \/ Sigterm(p) \/ Sigkill(p)

(* The kernel runs a runnable process, its clock advances, and the          *)
(* generator obeys; nobody has to launch or signal a process.              *)
TxFairness ==
  /\ WF_all(GeneratorStep)
  /\ WF_all(Tick)
  /\ \A p \in Proc : WF_all(Main(p) \/ Hardware(p))

TxSpec == TxInit /\ [][TxNext]_all /\ TxFairness

-----------------------------------------------------------------------------
Place == {"off", "init", "unmapped", "start", "minute", "second", "wait",
          "asleep", "awake", "key", "keyed", "nap", "napping", "next", "stop",
          "exit"} \cup Ended

TxTypeOK ==
  /\ TypeOK
  /\ clock \in 0 .. MaxTime
  /\ stepped \in 0 .. MaxClockSteps
  /\ overtime \in [Proc -> Nat]
  /\ tx \in [Proc -> [at : Place, job : Job, now : Nat, minute : Nat,
                      ttl : Nat \cup {Forever}, second : 0 .. SecondsPerMinute,
                      prepared : Int, moment : Nat \ {0}, wake : Nat,
                      interrupted : BOOLEAN]]

=============================================================================
