--------------------------- MODULE MCWebRequests ---------------------------
(***************************************************************************)
(* Two threads.  The bodies have valid and invalid fields, numbers beyond     *)
(* both ends of the range, texts that are no numbers, times with blanks.      *)
(* Of the two installed files one is incomplete and has been edited by hand;  *)
(* the longer values make a file that sticks out under a shorter one.         *)
(***************************************************************************)
EXTENDS WebRequests

CONSTANTS t1, t2, i1, i2, i3, i4

MCThread == {t1, t2}
MCInode  == {i1, i2, i3, i4}
MCKey    == {"STATION", "RUN_DURATION", "ZONE_OFFSET", "SCHEDULE_TIMES",
             "SCHEDULE_ENABLED"}

MCSTATIONS == {"DCF77", "MSF"}

MCint == ("0" :> 0) @@ ("10" :> 10) @@ ("1" :> 1) @@ ("120" :> 120) @@ ("500" :> 500)
           @@ ("+60" :> 60) @@ ("60" :> 60)

Text(n) == CHOOSE v \in DOMAIN MCint : MCint[v] = n /\ v # "+60"

MCHHMM  == {"01:59", "02:59", "03:59"}

MCsplit ==
  ("" :> <<"">>) @@ ("02:59" :> <<"02:59">>) @@ (",02:59" :> <<"", "02:59">>)
  @@ ("01:59,02:59,03:59" :> <<"01:59", "02:59", "03:59">>)
  @@ ("2:59" :> <<"2:59">>)

MCValue == MCSTATIONS \cup DOMAIN MCint \cup DOMAIN MCsplit \cup {"true", "True", "false", "east"}
MCWidth == [v \in MCValue |-> IF v \in {"DCF77", "01:59,02:59,03:59", "120"} THEN 2 ELSE 1]

Sets(k, v) == [key |-> k, value |-> v]

MCInstalled ==
  { << Comment, Sets("STATION", "DCF77"), Sets("RUN_DURATION", "10"),
       Sets("ZONE_OFFSET", "0"), Comment,
       Sets("SCHEDULE_TIMES", "01:59,02:59,03:59"), Sets("SCHEDULE_ENABLED", "true") >>,
    << Sets("STATION", "MSF"), Sets("ZONE_OFFSET", "+60"),
       Sets("SCHEDULE_ENABLED", "True"), Comment >> }

MCConfigBody ==
  { [station |-> "MSF", run_duration |-> "east", zone_offset |-> "0"],
    [station |-> "DCF77", run_duration |-> "500", zone_offset |-> "+60"],
    [station |-> "MSF", run_duration |-> "0", zone_offset |-> "east"],
    [station |-> "XYZ"], NoUpdate }

MCScheduleBody ==
  { [times |-> ",02:59", enabled |-> "true", duration |-> "0"],
    [times |-> "", enabled |-> "false"],
    [times |-> "2:59", enabled |-> "false"], NoUpdate }

MCStartBody ==
  { [minutes |-> "east"], [station |-> "XYZ"], [zone |-> "east"],
    [station |-> "DCF77", minutes |-> "500", zone |-> "+60"] }

MCRequest ==
  {ConfigUpdates(b) : b \in {c \in MCConfigBody : ConfigAccepted(c)}}
    \cup {ScheduleUpdates(b) :
            b \in {c \in MCScheduleBody \ {NoUpdate} : ScheduleAccepted(c)}}

Symmetry == Permutations(MCThread) \cup Permutations(MCInode)

=============================================================================
