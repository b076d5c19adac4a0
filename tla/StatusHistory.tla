--------------------------- MODULE StatusHistory ---------------------------
(***************************************************************************)
(* StatusCache implements StatusServer.  Two history variables say how many   *)
(* changes there had been some time ago, and from which of them on the       *)
(* answer to a request may be.                                             *)
(***************************************************************************)
EXTENDS StatusCache, Integers

VARIABLES
  ago,            \* ago[n] : the changes when the clock became now - n
  floor           \* floor[t] : the least that the answer to t's GET may know

hvars == <<vars, ago, floor>>

Nothing == -1

HistoryInit ==
  /\ Init
  /\ ago = [n \in 0..TTL |-> 0]
  /\ floor = [t \in Thread |-> Nothing]

Arrives(t) == at[t] = "idle" /\ at'[t] = "peek"
Leaves(t)  == at[t] = "answer" /\ at'[t] = "idle"

HistoryNext ==
  /\ Next
  /\ ago' = IF now' = now THEN ago
            ELSE [n \in 0..TTL |-> IF n = 0 THEN changes ELSE ago[n - 1]]
  /\ floor' = [t \in Thread |->
       IF Arrives(t) THEN IF req'[t].forced THEN changes ELSE ago[TTL]
       ELSE IF Leaves(t) THEN Nothing
       ELSE floor[t]]

HistorySpec == HistoryInit /\ [][HistoryNext]_hvars

(* The answer that has been decided on.                                     *)
Sent == [t \in Thread |->
           IF at[t] = "answer" THEN status[t].changes ELSE Nothing]

Server == INSTANCE StatusServer WITH old <- ago[TTL], sent <- Sent

(***************************************************************************)
(* However requests are interleaved, the server with its cache is one that    *)
(* answers no status which was out of date, by more than STATUS_TTL_S, when   *)
(* the request came, and with ?fresh=1 none which was out of date at all      *)
(* (web/txtempus-web.py:41-46, 300-352).                                   *)
(***************************************************************************)
ImplementsStatusServer == Server!Spec

=============================================================================
