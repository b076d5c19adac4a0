--------------------------- MODULE MCStatusCache ---------------------------
(***************************************************************************)
(* Two threads and entries that live for one tick.                          *)
(***************************************************************************)
EXTENDS StatusHistory, TLC

CONSTANTS t1, t2

MCThread == {t1, t2}

Symmetry == Permutations(Thread)

=============================================================================
