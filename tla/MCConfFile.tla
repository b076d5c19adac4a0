----------------------------- MODULE MCConfFile -----------------------------
(***************************************************************************)
(* Two threads.  Station and schedule have a long and a short value, so that *)
(* a file may be shorter than the one it is written over.  The older of the  *)
(* two installed files lacks the schedule's times, which are then appended.  *)
(***************************************************************************)
EXTENDS ConfFile

CONSTANTS t1, t2, i1, i2, i3, i4

MCThread == {t1, t2}
MCInode  == {i1, i2, i3, i4}
MCKey    == {"STATION", "SCHEDULE_TIMES", "RUN_DURATION"}
MCValue  == {"long", "short"}
MCWidth  == [long |-> 2, short |-> 1]

Sets(k, v) == [key |-> k, value |-> v]

MCInstalled ==
  { << Comment, Sets("STATION", "long"), Comment,
       Sets("RUN_DURATION", "short"), Sets("SCHEDULE_TIMES", "long") >>,
    << Sets("STATION", "short"), Comment, Sets("RUN_DURATION", "long") >> }

MCRequest ==
  [{"STATION"} -> MCValue] \cup [{"SCHEDULE_TIMES", "RUN_DURATION"} -> MCValue]

Symmetry == Permutations(MCThread) \cup Permutations(MCInode)

=============================================================================
