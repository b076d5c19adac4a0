------------------------------ MODULE Patterns ------------------------------
(***************************************************************************)
(* include/time-signal-source.h:44-61: the modulation of a second, levels     *)
(* one after the other, each with how long it lasts, and 0 for the last one,  *)
(* which lasts for the rest of the second.                                 *)
(***************************************************************************)
EXTENDS Integers, Sequences

(* The time within the second at which the i-th level of a pattern begins.   *)
Begins(pattern, i) ==
  LET Sum[j \in 1 .. i] == IF j = 1 THEN 0 ELSE Sum[j - 1] + pattern[j - 1].ticks
  IN Sum[i]

(* Only the last level of a second is not timed, and it begins in time.       *)
FitsSecond(pattern, length) ==
  /\ \A i \in 1 .. Len(pattern) : pattern[i].ticks = 0 <=> i = Len(pattern)
  /\ Begins(pattern, Len(pattern)) < length

(* LOW while LOW is keyed already.                                         *)
LowAgain(one, next) == one.power = "LOW" /\ next.power = "LOW"

NoLowAgain(pattern) ==
  \A i \in 1 .. Len(pattern) - 1 : ~LowAgain(pattern[i], pattern[i + 1])

=============================================================================
