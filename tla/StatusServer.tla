---------------------------- MODULE StatusServer ----------------------------
(***************************************************************************)
(* What GET /api/status promises to a page that asks, whatever the cache     *)
(* and the threads of the server do: an answer may be behind the present,     *)
(* but not behind what had already been old when the request came; with      *)
(* ?fresh=1 not behind the present of that moment                           *)
(* (web/txtempus-web.py:41-46, 300-352).                                   *)
(*                                                                         *)
(* A status is reduced to the number of changes the system had gone through. *)
(***************************************************************************)
EXTENDS Integers

CONSTANTS
  Thread,         \* requests that can be served at a time
  MaxChanges      \* bound: changes of the system

ASSUME ServerAssumption == MaxChanges \in Nat

Nothing == -1

VARIABLES
  changes,        \* how often the system has changed
  old,            \* how many of the changes are older than STATUS_TTL_S
  floor,          \* floor[t] : the least an answer to a request may know
  sent            \* sent[t] : the answer

server == <<changes, old, floor, sent>>

Init ==
  /\ changes = 0
  /\ old = 0
  /\ floor = [t \in Thread |-> Nothing]
  /\ sent = [t \in Thread |-> Nothing]

Open(t) == floor[t] # Nothing

Change ==
  /\ changes < MaxChanges
  /\ changes' = changes + 1
  /\ UNCHANGED <<old, floor, sent>>

Age ==
  /\ old' \in old + 1 .. changes
  /\ UNCHANGED <<changes, floor, sent>>

Ask(t, force) ==
  /\ ~Open(t)
  /\ floor' = [floor EXCEPT ![t] = IF force THEN changes ELSE old]
  /\ UNCHANGED <<changes, old, sent>>

Answer(t) ==
  /\ Open(t) /\ sent[t] = Nothing
  /\ \E known \in floor[t] .. changes : sent' = [sent EXCEPT ![t] = known]
  /\ UNCHANGED <<changes, old, floor>>

Close(t) ==
  /\ Open(t) /\ sent[t] # Nothing
  /\ floor' = [floor EXCEPT ![t] = Nothing]
  /\ sent' = [sent EXCEPT ![t] = Nothing]
  /\ UNCHANGED <<changes, old>>

Request(t) == \E force \in BOOLEAN : Ask(t, force)

Next ==
  \/ Change \/ Age
  \/ \E t \in Thread : Request(t) \/ Answer(t) \/ Close(t)

Spec == Init /\ [][Next]_server

=============================================================================
