---------------------------- MODULE TxProperties ----------------------------
(***************************************************************************)
(* What src/txtempus.cc does for a receiver and for whoever stops it, when  *)
(* no second transmitter runs beside it.                                   *)
(***************************************************************************)
EXTENDS Txtempus, Patterns

(* What the sources send second by second, minutes counted from the launch:   *)
(* seconds that fit, and never LOW after LOW (see PatternsFit in Broadcast).  *)
ASSUME PatternsAssumption ==
  \A j \in Job : \A m \in 0 .. LastMinute(j), s \in 0 .. SecondsPerMinute - 1 :
    LET Second(i) == Modulation(j.source, m + j.offset, i)
        Before    == IF s > 0 THEN Second(s - 1)
                     ELSE Modulation(j.source, m - 1 + j.offset, SecondsPerMinute - 1)
    IN  /\ FitsSecond(Second(s), TicksPerSecond)
        /\ NoLowAgain(Second(s))
        /\ m > 0 \/ s > 0 => ~LowAgain(Before[Len(Before)], Second(s)[1])

(* The level a receiver is entitled to at a time of the wall clock.        *)
Scheduled(j, t) ==
  LET pattern == Modulation(j.source, (t \div Minute) + j.offset,
                            (t % Minute) \div TicksPerSecond)
      begun   == {i \in 1 .. Len(pattern) :
                    Begins(pattern, i) <= t % TicksPerSecond}
  IN pattern[CHOOSE i \in begun : \A k \in begun : k <= i].power

Transmitting(p) ==
  Sleeping(p) /\ ~tx[p].job.dry /\ ~tx[p].interrupted

(***************************************************************************)
(* A transmitter that gets the processor whenever it can run is on schedule *)
(* in every tick: the level on the air is the one its source prescribes for *)
(* this tick of the wall clock (plus the offset of -t and -z), at its       *)
(* carrier.  This holds from the first sleep on, wherever in the minute the *)
(* process was launched and however far the clock was set forward, because  *)
(* main() runs through the moments that are past without waiting            *)
(* (txtempus.cc:218-243).                                                  *)
(***************************************************************************)
OnSchedule ==
  \A p \in Proc :
    Transmitting(p) /\ ~Runnable(p) /\ ~GeneratorPending
      => OnAir(CarrierOf(tx[p].job.source), Scheduled(tx[p].job, clock))

(***************************************************************************)
(* However late the process is run, it is never early: unless it has been   *)
(* interrupted, it keys a level no sooner than the wall clock reaches the   *)
(* moment at which the level begins (txtempus.cc:51-54, 228-242).           *)
(***************************************************************************)
NeverEarly ==
  [][\A p \in Proc :
       tx[p].at = "key" /\ tx[p].at # tx'[p].at
         /\ ~tx[p].interrupted /\ ~tx[p].job.dry /\ stepped = 0
       => clock >= tx[p].minute + tx[p].second * TicksPerSecond
                     + Begins(Pattern(p), tx[p].moment)]_all

(***************************************************************************)
(* A signal stops the process within a second, although the flag is only    *)
(* looked at between seconds and a signal that comes between a test of the  *)
(* flag and the sleep does not cut the sleep short (txtempus.cc:224-243).   *)
(***************************************************************************)
StopsWithinASecond ==
  \A p \in Proc : Live(p) => overtime[p] <= TicksPerSecond

(***************************************************************************)
(* Whatever main() was doing, after SIGTERM or SIGINT it reaches StopClock  *)
(* and its last line, and leaves no carrier, unless it is killed or faults  *)
(* (txtempus.cc:195-196, 218-249).                                         *)
(***************************************************************************)
SignalledProcessStops ==
  \A p \in Proc :
    (Live(p) /\ tx[p].interrupted)
      ~> \/ tx[p].at = "done" /\ (tx[p].job.dry \/ Silent)
         \/ tx[p].at \in {"killed", "crashed"}

(***************************************************************************)
(* A process that has gone through its last line has left the generator     *)
(* killed and GPIO 4 an input, on every path there: no minute to transmit,  *)
(* all minutes transmitted, or interrupted anywhere (txtempus.cc:249,       *)
(* rpi-control.cc:174-183).                                                *)
(***************************************************************************)
NoCarrierAfterExit ==
  \A p \in Proc :
    tx[p].at = "done" /\ ~tx[p].job.dry
      => ~busy /\ ctl = {"KILL"} /\ fsel4 = INPUT

(***************************************************************************)
(* -r n is n minutes, counted from the full minute before the launch: a     *)
(* process that nobody interrupted leaves its loop in the last second of    *)
(* the n-th minute, neither sooner nor, with the processor at its disposal, *)
(* later (txtempus.cc:145, 218).                                           *)
(***************************************************************************)
RunLength ==
  \A p \in Proc :
    LET end == tx[p].now + tx[p].job.ttl * Minute
    IN  tx[p].at = "stop" /\ ~tx[p].interrupted /\ ~tx[p].job.dry
            /\ tx[p].job.ttl > 0 /\ stepped = 0
          => /\ tx[p].minute = end
             /\ clock >= end - TicksPerSecond
             /\ RealTime => clock < end

(***************************************************************************)
(* -n never writes a register (txtempus.cc:52, 57, 66, 249).                *)
(***************************************************************************)
DryRunTouchesNothing ==
  [][(\A p \in Proc : tx[p].job.dry) => regs' = regs]_all

(***************************************************************************)
(* SetTxPower(LOW), which floats GPIO 17 before it drives it, is never      *)
(* asked for while LOW is keyed already, so the attenuation a second ends   *)
(* with is never released for a moment: every pattern begins at a level     *)
(* other than the one the pattern before it ended with                     *)
(* (rpi-control.cc:323-327 with GetModulationForSecond of the sources).     *)
(***************************************************************************)
LowIsNeverRekeyed ==
  [][\A p \in Proc :
       op[p] = "none" /\ op'[p] = "LOW" => settled[p] # "LOW"]_all

(***************************************************************************)
(* include/hardware-control.h:40-42: Init returns false if it could not get *)
(* hold of the hardware.  A process past Init has its clock registers.      *)
(***************************************************************************)
InitializedMeansMapped == \A p \in Proc : tx[p].at # "unmapped"

=============================================================================
