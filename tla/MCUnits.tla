------------------------------ MODULE MCUnits ------------------------------
(***************************************************************************)
(* Two callers, two stations, and three schedules: without a time, with one,  *)
(* and with the same one beside an entry that is no time.                    *)
(***************************************************************************)
EXTENDS Units, TLC

CONSTANTS c1, c2, s1, s2, night, standard, typo

MCCaller  == {c1, c2}
MCStation == {s1, s2}
MCTime    == {night, standard}
MCTimes   == {{}, {night}, {night, typo}}
MCDefault == {standard}

-----------------------------------------------------------------------------
(* A bound on what is explored together: while the schedule is not at rest    *)
(* one of the stations is in use, by the scheduler alone, no transmitter has   *)
(* been killed and no start or preview is under way (stops, the timer, its     *)
(* script and reboots go on).                                              *)
InUse ==
  {conf.station, env, script.station, tx[ONESHOT_UNIT], tx[SCHED_UNIT]}
    \cup {asked[c] : c \in Caller}

ScheduleAtRest ==
  /\ conf.times = {night} /\ dropin = {night} /\ loaded = {night}
  /\ \A c \in Caller : at[c] \notin Saving

Bound ==
  \/ ScheduleAtRest
  \/ /\ s2 \notin InUse /\ unit[ONESHOT_UNIT] = "inactive" /\ ~Abandoned
     /\ \A c \in Caller : at[c] \in Saving \cup Stopping \cup {"idle"}

Symmetry == Permutations(Caller)

=============================================================================
