---------------------------- MODULE StatusCache ----------------------------
(***************************************************************************)
(* GET /api/status and the POST handlers of the web server                  *)
(* (web/txtempus-web.py:300-352, 510-560): threads that share               *)
(* _status_cache, a time stamp and the status of that time.  Building a      *)
(* status runs a dozen commands and takes seconds, in which other requests   *)
(* are served and the system changes.                                       *)
(*                                                                         *)
(* A status is abstracted to when it was taken and to the number of changes  *)
(* that the system had then gone through.                                   *)
(***************************************************************************)
EXTENDS Naturals

CONSTANTS
  Thread,
  TTL,            \* STATUS_TTL_S
  Preemptive,     \* TRUE: the interpreter may switch threads between any two
                  \* statements (CPython to 3.9), FALSE: only in calls
  MaxTime,        \* bound: the monotonic clock
  MaxChanges      \* bound: changes of the system

None == [taken |-> 0, changes |-> 0, overtaken |-> FALSE, built |-> FALSE]
Status == [taken : 0..MaxTime, changes : 0..MaxChanges,
           overtaken : BOOLEAN,       \* history: see Overtake
           built : {TRUE}]

ASSUME StatusAssumption ==
  TTL \in Nat /\ MaxTime \in Nat /\ MaxChanges \in Nat /\ Preemptive \in BOOLEAN

VARIABLES
  now,            \* time.monotonic()
  changes,        \* how often the system has changed: a transmission begins or
                  \* ends, a setting or the timer is changed
  cache,          \* _status_cache
  at,             \* at[t] : what a thread is about to do
  req,            \* req[t] : the GET it serves, and when it came
  status,         \* status[t] : cached, then data, of build_status
  effect,         \* effect[t] : the change that a POST has made
  posted          \* history: the latest change of a POST that was answered

vars == <<now, changes, cache, at, req, status, effect, posted>>

NoRequest == [forced |-> FALSE, came |-> 0, due |-> 0]
Steps == {"idle", "peek", "compare", "gather", "stamp", "store", "answer",
          "control", "drop"}

Init ==
  /\ now = 0
  /\ changes = 0
  /\ cache = [at |-> 0, data |-> None]
  /\ at = [t \in Thread |-> "idle"]
  /\ req = [t \in Thread |-> NoRequest]
  /\ status = [t \in Thread |-> None]
  /\ effect = [t \in Thread |-> 0]
  /\ posted = 0

(* A thread has the interpreter.  Between the two reads of the cache, and    *)
(* between the two writes, there is no call in which it could lose it.      *)
HasInterpreter(t) ==
  Preemptive \/ \A s \in Thread \ {t} : at[s] \notin {"compare", "store"}

Goto(t, step) == at' = [at EXCEPT ![t] = step]

-----------------------------------------------------------------------------
(* build_status(force) is called and looks at the clock.                    *)
Get(t, force) ==
  /\ at[t] = "idle"
  /\ req' = [req EXCEPT ![t] = [forced |-> force, came |-> now, due |-> posted]]
  /\ Goto(t, "peek")
  /\ UNCHANGED <<now, changes, cache, status, effect, posted>>

(* cached = _status_cache["data"]                                           *)
Peek(t) ==
  /\ at[t] = "peek"
  /\ status' = [status EXCEPT ![t] = cache.data]
  /\ Goto(t, "compare")
  /\ UNCHANGED <<now, changes, cache, req, effect, posted>>

(* now_mono - _status_cache["at"] < STATUS_TTL_S; the clock was read before  *)
(* the stamp and may be behind it.                                          *)
Young(t) == req[t].came < cache.at + TTL

(* Mutant of Compare: ?fresh=1 is not looked at.                            *)
CompareUnforced(t) ==
  /\ at[t] = "compare"
  /\ IF status[t] # None /\ Young(t) THEN Goto(t, "answer") ELSE Goto(t, "gather")
  /\ UNCHANGED <<now, changes, cache, req, status, effect, posted>>

(* Mutant of Compare: it is not tested whether there is a cached status.     *)
CompareUntested(t) ==
  /\ at[t] = "compare"
  /\ IF ~req[t].forced /\ Young(t) THEN Goto(t, "answer") ELSE Goto(t, "gather")
  /\ UNCHANGED <<now, changes, cache, req, status, effect, posted>>

Compare(t) ==
  /\ at[t] = "compare"
  /\ IF ~req[t].forced /\ status[t] # None /\ Young(t)
     THEN Goto(t, "answer")
     ELSE Goto(t, "gather")
  /\ UNCHANGED <<now, changes, cache, req, status, effect, posted>>

(* The configuration is read and the commands are run.                      *)
Gather(t) ==
  /\ at[t] = "gather"
  /\ status' = [status EXCEPT
       ![t] = [taken |-> now, changes |-> changes,
                 overtaken |-> FALSE, built |-> TRUE]]
  /\ Goto(t, "stamp")
  /\ UNCHANGED <<now, changes, cache, req, effect, posted>>

(* Mutant of Stamp: the time is taken after the commands have been run.      *)
StampLate(t) ==
  /\ at[t] = "stamp"
  /\ cache' = [cache EXCEPT !.at = now]
  /\ Goto(t, "store")
  /\ UNCHANGED <<now, changes, req, status, effect, posted>>

(* _status_cache["at"] = now_mono                                           *)
Stamp(t) ==
  /\ at[t] = "stamp"
  /\ cache' = [cache EXCEPT !.at = req[t].came]
  /\ Goto(t, "store")
  /\ UNCHANGED <<now, changes, req, status, effect, posted>>

(* _status_cache["data"] = data                                             *)
Store(t) ==
  /\ at[t] = "store"
  /\ cache' = [cache EXCEPT !.data = status[t]]
  /\ Goto(t, "answer")
  /\ UNCHANGED <<now, changes, req, status, effect, posted>>

Answer(t) ==
  /\ at[t] = "answer"
  /\ req' = [req EXCEPT ![t] = NoRequest]
  /\ status' = [status EXCEPT ![t] = None]
  /\ Goto(t, "idle")
  /\ UNCHANGED <<now, changes, cache, effect, posted>>

-----------------------------------------------------------------------------
(* A POST that passes its checks calls update_conf or the control script.    *)
Post(t) ==
  /\ at[t] = "idle"
  /\ Goto(t, "control")
  /\ UNCHANGED <<now, changes, cache, req, status, effect, posted>>

ControlSucceeds(t) ==
  /\ at[t] = "control"
  /\ changes < MaxChanges
  /\ changes' = changes + 1
  /\ effect' = [effect EXCEPT ![t] = changes + 1]
  /\ Goto(t, "drop")
  /\ UNCHANGED <<now, cache, req, status, posted>>

(* The script fails or takes more than twenty seconds: the answer is an      *)
(* error, the cache stays.  What was begun may yet happen: SystemChanges.    *)
ControlFails(t) ==
  /\ at[t] = "control"
  /\ Goto(t, "idle")
  /\ UNCHANGED <<now, changes, cache, req, status, effect, posted>>

(* A POST drops the cache while another thread is about to store what it    *)
(* has gathered: its status may be older than the change.                   *)
Overtake ==
  status' = [s \in Thread |->
               IF at[s] \in {"stamp", "store"}
               THEN [status[s] EXCEPT !.overtaken = TRUE]
               ELSE status[s]]

(* Mutant of Drop: the entry's time is reset, but Young accepts 0 as any     *)
(* other time.                                                             *)
DropStamp(t) ==
  /\ at[t] = "drop"
  /\ cache' = [cache EXCEPT !.at = 0]
  /\ posted' = IF effect[t] > posted THEN effect[t] ELSE posted
  /\ effect' = [effect EXCEPT ![t] = 0]
  /\ Overtake
  /\ Goto(t, "idle")
  /\ UNCHANGED <<now, changes, req>>

(* "State just changed; drop the cached status so the next poll is live."    *)
Drop(t) ==
  /\ at[t] = "drop"
  /\ cache' = [cache EXCEPT !.data = None]
  /\ posted' = IF effect[t] > posted THEN effect[t] ELSE posted
  /\ effect' = [effect EXCEPT ![t] = 0]
  /\ Overtake
  /\ Goto(t, "idle")
  /\ UNCHANGED <<now, changes, req>>

-----------------------------------------------------------------------------
(* A transmission ends, the timer elapses, someone uses the shell.           *)
SystemChanges ==
  /\ changes < MaxChanges
  /\ changes' = changes + 1
  /\ UNCHANGED <<now, cache, at, req, status, effect, posted>>

Tick ==
  /\ now < MaxTime
  /\ now' = now + 1
  /\ UNCHANGED <<changes, cache, at, req, status, effect, posted>>

Serve(t) ==
  /\ HasInterpreter(t)
  /\ \/ \E force \in BOOLEAN : Get(t, force)
     \/ Peek(t) \/ Compare(t) \/ Gather(t) \/ Stamp(t) \/ Store(t) \/ Answer(t)
     \/ Post(t) \/ ControlSucceeds(t) \/ ControlFails(t) \/ Drop(t)

Next == SystemChanges \/ Tick \/ \E t \in Thread : Serve(t)

Spec == Init /\ [][Next]_vars

-----------------------------------------------------------------------------
(***************************************************************************)
(* The type of the variables; in particular a status that is sent has been   *)
(* built: cached is a local copy, so a POST that drops the cache between the  *)
(* test and the use does not make dict(cached) fail                         *)
(* (web/txtempus-web.py:302-306).                                          *)
(***************************************************************************)
StatusTypeOK ==
  /\ now \in 0..MaxTime
  /\ changes \in 0..MaxChanges
  /\ cache \in [at : 0..MaxTime, data : Status \cup {None}]
  /\ at \in [Thread -> Steps]
  /\ req \in [Thread -> [forced : BOOLEAN, came : 0..MaxTime, due : 0..MaxChanges]]
  /\ status \in [Thread -> Status \cup {None}]
  /\ effect \in [Thread -> 0..MaxChanges]
  /\ posted \in 0..MaxChanges
  /\ \A t \in Thread : at[t] = "answer" => status[t] \in Status

Answering(t) == at[t] = "answer"

(***************************************************************************)
(* ?fresh=1 is answered with a status taken after the request came, and so   *)
(* with the effect of every POST answered before it, whatever other threads   *)
(* do: the page asks so after each action (web/txtempus-web.py:304, 513-515). *)
(***************************************************************************)
ForcedIsLive ==
  \A t \in Thread : Answering(t) /\ req[t].forced =>
    status[t].taken >= req[t].came /\ status[t].changes >= req[t].due

(***************************************************************************)
(* No answer is older than STATUS_TTL_S when its request comes: the stamp is  *)
(* the time before the commands were run, and travels with the data it        *)
(* belongs to (web/txtempus-web.py:301-306, 350-351).                       *)
(***************************************************************************)
AgeIsBounded ==
  \A t \in Thread : Answering(t) => status[t].taken + TTL >= req[t].came

(***************************************************************************)
(* After a POST has been answered no status from before it is sent to a      *)
(* request that comes later, other than by a GET that had gathered it before  *)
(* the POST dropped the cache and stored it afterwards: that entry, which no   *)
(* lock keeps out, is the only one (web/txtempus-web.py:350-351, 554-558).   *)
(***************************************************************************)
LiveAfterPost ==
  \A t \in Thread : Answering(t) /\ ~status[t].overtaken =>
    status[t].changes >= req[t].due

=============================================================================
