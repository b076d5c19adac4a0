---------------------------- MODULE ClockDivider ----------------------------
(***************************************************************************)
(* The choice GPIO::StartClock makes in src/rpi-control.cc before it       *)
(* touches any register: which clock source feeds the general-purpose     *)
(* clock of the Raspberry Pi, and by which integer and 1/1024 fractional   *)
(* divider, for a requested carrier frequency.                             *)
(*                                                                         *)
(* Frequencies are integers in units of 500 Hz, which divides every source *)
(* and every carrier of include/time-signal-source.h; the code's doubles   *)
(* become exact quotients, compared by cross multiplication.               *)
(***************************************************************************)
EXTENDS Integers, Sequences

(* kClockSources: the oscillators in the order they are tried, and the     *)
(* name of the value that CLK_CTL_SRC puts into the control register.      *)
ClockSources ==
  << [src |-> "PLLC", frequency |-> 2000000],
     [src |-> "PLLD", frequency |-> 1000000],
     [src |-> "HDMI", frequency |->  432000],
     [src |-> "OSC",  frequency |->   38400] >>

SourceIndex == 1 .. 4

Frequency(i) == ClockSources[i].frequency

(* The dividers that fit the register: 2 <= division <= 4095.              *)
InRange(i, requested) ==
  /\ 2 * requested <= Frequency(i)
  /\ Frequency(i) <= 4095 * requested

DivI(i, requested) == Frequency(i) \div requested

DivF(i, requested) == ((Frequency(i) % requested) * 1024) \div requested

(* The divider in 1/1024 steps: the clock runs at 1024 * Frequency / Steps. *)
Steps(i, requested) == 1024 * DivI(i, requested) + DivF(i, requested)

(* |requested - freq| is Excess / Steps: truncation never makes the clock   *)
(* slower than requested.                                                  *)
Excess(i, requested) ==
  1024 * Frequency(i) - requested * Steps(i, requested)

SmallerError(i, j, requested) ==
  Excess(i, requested) * Steps(j, requested)
    < Excess(j, requested) * Steps(i, requested)

NoSource == 0

(* Mutant of Consider: error > smallest_error_so_far for >=.               *)
ConsiderLaterOnTies(best, i, requested) ==
  IF /\ InRange(i, requested)
     /\ best = NoSource \/ ~SmallerError(best, i, requested)
  THEN i ELSE best

(* The body of the loop over kClockSources: a later source replaces the     *)
(* best one so far only with a strictly smaller error.                     *)
Consider(best, i, requested) ==
  IF /\ InRange(i, requested)
     /\ best = NoSource \/ SmallerError(i, best, requested)
  THEN i ELSE best

(* The loop, unrolled: the table has four entries.                         *)
BestSource(requested) ==
  LET best1 == Consider(NoSource, 1, requested)
      best2 == Consider(best1, 2, requested)
      best3 == Consider(best2, 3, requested)
  IN  Consider(best3, 4, requested)

Synthesizable(requested) == BestSource(requested) # NoSource

(* What StartClock writes for a carrier it can synthesize.                 *)
Setting(requested) ==
  LET i == BestSource(requested)
  IN  [src |-> ClockSources[i].src,
       div |-> <<DivI(i, requested), DivF(i, requested)>>]

-----------------------------------------------------------------------------
(* No source whose divider fits misses the carrier by less than the one that  *)
(* is taken, and none before it in the table by as little.                  *)
TakesBestSource(requested) ==
  LET best == BestSource(requested)
  IN  \A i \in SourceIndex :
        InRange(i, requested) =>
          /\ best # NoSource
          /\ ~SmallerError(i, best, requested)
          /\ i < best => SmallerError(best, i, requested)

(* The integer and fractional fields hold the divider, and one step more      *)
(* would be too slow.                                                      *)
FitsRegister(requested) ==
  LET best == BestSource(requested)
  IN  /\ DivI(best, requested) \in 2 .. 4095
      /\ DivF(best, requested) \in 0 .. 1023
      /\ requested * Steps(best, requested) <= 1024 * Frequency(best)
      /\ 1024 * Frequency(best) < requested * (Steps(best, requested) + 1)

=============================================================================
