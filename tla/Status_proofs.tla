---------------------------- MODULE Status_proofs ----------------------------
(***************************************************************************)
(* The status cache, for any threads, TTL and bounds.  A forced answer is     *)
(* live, and no answer is too old as long as the interpreter does not switch *)
(* threads between the two reads or the two writes of the cache; then the     *)
(* server with its threads and its cache implements StatusServer.           *)
(***************************************************************************)
EXTENDS StatusHistory, TLAPS

-----------------------------------------------------------------------------
(* The inductive invariants.                                               *)

(* A thread that has gathered, or is to answer, has a status.               *)
HasStatus(t) == at[t] \in {"stamp", "store", "answer"} => status[t] \in Status

(* Nothing is ahead of the clock, or of the changes there have been.        *)
NothingAhead ==
  /\ posted <= changes
  /\ \A t \in Thread :
       effect[t] <= changes /\ req[t].came <= now /\ req[t].due <= changes

(* What is gathered for a request is no older than the request.             *)
GatheredLater(t) ==
  (at[t] \in {"stamp", "store"} \/ (at[t] = "answer" /\ req[t].forced)) =>
    status[t].taken >= req[t].came /\ status[t].changes >= req[t].due

LiveInv ==
  /\ StatusTypeOK
  /\ NothingAhead
  /\ \A t \in Thread : HasStatus(t) /\ GatheredLater(t)

(* One thread at most is between two accesses of the cache; when none is     *)
(* between the writes, the stamp is no later than the data.                 *)
OneAccess ==
  \A t, s \in Thread :
    at[t] \in {"compare", "store"} /\ at[s] \in {"compare", "store"} => t = s

StampedBefore ==
  (\A t \in Thread : at[t] # "store") /\ cache.data # None =>
    cache.at <= cache.data.taken

BetweenAccesses(t) ==
  /\ at[t] = "compare" => status[t] = cache.data
  /\ at[t] = "store" => cache.at = req[t].came

AgeInv ==
  /\ OneAccess
  /\ StampedBefore
  /\ \A t \in Thread : BetweenAccesses(t)
  /\ AgeIsBounded

-----------------------------------------------------------------------------
LEMMA InitLiveInv == Init => LiveInv
  BY StatusAssumption
  DEF Init, LiveInv, StatusTypeOK, NothingAhead, HasStatus, GatheredLater,
      None, Status, NoRequest, Steps

(* The fields of a status that has been built.                              *)
LEMMA StatusFields ==
  ASSUME NEW s \in Status
  PROVE  s.taken \in 0..MaxTime /\ s.changes \in 0..MaxChanges
  BY DEF Status

LEMMA BuiltIsNotNone ==
  ASSUME NEW s \in Status
  PROVE  s # None
<1>1. s.built
  BY DEF Status
<1>2. ~None.built
  BY DEF None
<1> QED
  BY <1>1, <1>2

(* Overtake marks a status and leaves it what it is otherwise.               *)
LEMMA OvertakeMarks ==
  ASSUME LiveInv, Overtake
  PROVE  /\ status' \in [Thread -> Status \cup {None}]
         /\ \A t \in Thread :
              /\ status'[t].taken = status[t].taken
              /\ status'[t].changes = status[t].changes
              /\ status[t] \in Status => status'[t] \in Status
              /\ at[t] \notin {"stamp", "store"} => status'[t] = status[t]
              /\ at[t] \in {"stamp", "store"} => status'[t].overtaken
<1>1. ASSUME NEW t \in Thread, status[t] \in Status
      PROVE  LET marked == [status[t] EXCEPT !.overtaken = TRUE] IN
             /\ marked \in Status
             /\ marked.taken = status[t].taken
             /\ marked.changes = status[t].changes
             /\ marked.overtaken
  BY <1>1 DEF Status
<1>2. \A t \in Thread : at[t] \in {"stamp", "store"} => status[t] \in Status
  BY DEF LiveInv, HasStatus
<1> QED
  BY <1>1, <1>2 DEF Overtake, LiveInv, StatusTypeOK

(* A step of a thread, of the system or of the clock keeps LiveInv: what is   *)
(* gathered is gathered now, and nothing is ahead of now.                    *)
LEMMA NextLiveInv == LiveInv /\ [Next]_vars => LiveInv'
<1> SUFFICES ASSUME LiveInv, [Next]_vars
             PROVE  LiveInv'
  OBVIOUS
<1>0. /\ now \in Nat /\ changes \in Nat /\ posted \in Nat
      /\ \A t \in Thread :
           /\ effect[t] \in Nat /\ req[t].came \in Nat /\ req[t].due \in Nat
           /\ status[t].taken \in Nat /\ status[t].changes \in Nat
  <2>1. /\ now \in 0..MaxTime /\ changes \in 0..MaxChanges
        /\ posted \in 0..MaxChanges
        /\ \A t \in Thread : effect[t] \in 0..MaxChanges
    BY DEF LiveInv, StatusTypeOK
  <2>2. ASSUME NEW t \in Thread
        PROVE  req[t].came \in Nat /\ req[t].due \in Nat
    BY StatusAssumption DEF LiveInv, StatusTypeOK
  <2>3. ASSUME NEW t \in Thread
        PROVE  status[t].taken \in Nat /\ status[t].changes \in Nat
    <3>1. CASE status[t] \in Status
      BY <3>1, StatusFields, StatusAssumption
    <3>2. CASE status[t] = None
      BY <3>2 DEF None
    <3> QED
      BY <3>1, <3>2 DEF LiveInv, StatusTypeOK
  <2> QED
    BY <2>1, <2>2, <2>3, StatusAssumption
<1>1. CASE SystemChanges
  BY <1>1, <1>0, StatusAssumption
  DEF SystemChanges, LiveInv, Goto, StatusTypeOK, NothingAhead, HasStatus,
      GatheredLater, NoRequest, Steps
<1>2. CASE Tick
  BY <1>2, <1>0, StatusAssumption
  DEF Tick, LiveInv, Goto, StatusTypeOK, NothingAhead, HasStatus,
      GatheredLater, NoRequest, Steps
<1>3. ASSUME NEW t \in Thread, Serve(t)
      PROVE  LiveInv'
  <2>1. ASSUME NEW force \in BOOLEAN, Get(t, force)
        PROVE  LiveInv'
    BY <2>1, <1>0, StatusAssumption
    DEF Get, LiveInv, Goto, StatusTypeOK, NothingAhead, HasStatus,
        GatheredLater, NoRequest, Steps
  <2>2. CASE Peek(t)
    BY <2>2, <1>0, StatusAssumption
    DEF Peek, LiveInv, Goto, StatusTypeOK, NothingAhead, HasStatus,
        GatheredLater, NoRequest, Steps
  <2>3. CASE Compare(t)
    BY <2>3, <1>0, StatusAssumption
    DEF Compare, Young, LiveInv, Goto, StatusTypeOK, NothingAhead, HasStatus,
        GatheredLater, NoRequest, Steps
  <2>4. CASE Gather(t)
    <3>1. StatusTypeOK'
      BY <2>4, <1>0, StatusAssumption
      DEF Gather, LiveInv, Goto, StatusTypeOK, NoRequest, Steps, Status
    <3>2. NothingAhead'
      BY <2>4, <1>0, StatusAssumption
      DEF Gather, LiveInv, Goto, NothingAhead, NoRequest, StatusTypeOK
    <3>3. (\A s \in Thread : HasStatus(s) /\ GatheredLater(s))'
      BY <2>4, <1>0, StatusAssumption
      DEF Gather, LiveInv, Goto, HasStatus, GatheredLater, NothingAhead,
          NoRequest, Status, StatusTypeOK
    <3> QED
      BY <3>1, <3>2, <3>3 DEF LiveInv
  <2>5. CASE Stamp(t)
    BY <2>5, <1>0, StatusAssumption
    DEF Stamp, LiveInv, Goto, StatusTypeOK, NothingAhead, HasStatus,
        GatheredLater, NoRequest, Steps
  <2>6. CASE Store(t)
    BY <2>6, <1>0, StatusAssumption
    DEF Store, LiveInv, Goto, StatusTypeOK, NothingAhead, HasStatus,
        GatheredLater, NoRequest, Steps
  <2>7. CASE Answer(t)
    BY <2>7, <1>0, StatusAssumption
    DEF Answer, LiveInv, Goto, StatusTypeOK, NothingAhead, HasStatus,
        GatheredLater, NoRequest, Steps
  <2>8. CASE Post(t)
    BY <2>8, <1>0, StatusAssumption
    DEF Post, LiveInv, Goto, StatusTypeOK, NothingAhead, HasStatus,
        GatheredLater, NoRequest, Steps
  <2>9. CASE ControlSucceeds(t)
    BY <2>9, <1>0, StatusAssumption
    DEF ControlSucceeds, LiveInv, Goto, StatusTypeOK, NothingAhead,
        HasStatus, GatheredLater, NoRequest, Steps
  <2>10. CASE ControlFails(t)
    BY <2>10, <1>0, StatusAssumption
    DEF ControlFails, LiveInv, Goto, StatusTypeOK, NothingAhead, HasStatus,
        GatheredLater, NoRequest, Steps
  <2>11. CASE Drop(t)
    <3>1. Overtake
      BY <2>11 DEF Drop
    <3>2. StatusTypeOK'
      BY <2>11, <3>1, OvertakeMarks, <1>0, StatusAssumption
      DEF Drop, LiveInv, Goto, StatusTypeOK, NoRequest, Steps
    <3>3. NothingAhead'
      BY <2>11, <1>0, StatusAssumption
      DEF Drop, LiveInv, Goto, NothingAhead, StatusTypeOK
    <3>4. (\A s \in Thread : HasStatus(s) /\ GatheredLater(s))'
      BY <2>11, <3>1, OvertakeMarks, <1>0
      DEF Drop, LiveInv, Goto, HasStatus, GatheredLater, StatusTypeOK
    <3> QED
      BY <3>2, <3>3, <3>4 DEF LiveInv
  <2> QED
    BY <1>3, <2>1, <2>2, <2>3, <2>4, <2>5, <2>6, <2>7, <2>8, <2>9, <2>10,
       <2>11
    DEF Serve
<1>4. CASE UNCHANGED vars
  BY <1>4 DEF vars, LiveInv, StatusTypeOK, NothingAhead, HasStatus, GatheredLater
<1> QED
  BY <1>1, <1>2, <1>3, <1>4 DEF Next

LEMMA AlwaysLiveInv == Spec => []LiveInv
  BY InitLiveInv, NextLiveInv, PTL DEF Spec

-----------------------------------------------------------------------------
(***************************************************************************)
(* Every variable has its type and a status that is sent has been built      *)
(* (web/txtempus-web.py:302-306).                                          *)
(***************************************************************************)
THEOREM StatusTypeCorrect == Spec => []StatusTypeOK
<1>1. LiveInv => StatusTypeOK
  BY DEF LiveInv
<1> QED
  BY <1>1, AlwaysLiveInv, PTL

(***************************************************************************)
(* ?fresh=1 is always answered with the present state, however the threads    *)
(* of the server are interleaved (web/txtempus-web.py:304, 513-515).          *)
(***************************************************************************)
THEOREM FreshIsLive == Spec => []ForcedIsLive
<1>1. LiveInv => ForcedIsLive
  BY DEF LiveInv, GatheredLater, ForcedIsLive, Answering
<1> QED
  BY <1>1, AlwaysLiveInv, PTL

-----------------------------------------------------------------------------
LEMMA InitAgeInv == Init => AgeInv
  BY DEF Init, AgeInv, OneAccess, StampedBefore, BetweenAccesses, AgeIsBounded,
         Answering, None

(* A thread that acts is alone: nobody else is between two accesses.  So what  *)
(* it compares, or stores, fits the stamp in the cache.                     *)
LEMMA NextAgeInv ==
  ASSUME ~Preemptive, LiveInv, AgeInv, [Next]_vars
  PROVE  AgeInv'
<1> USE DEF Goto
<1>0. /\ now \in Nat /\ TTL \in Nat
      /\ cache \in [at : Nat, data : Status \cup {None}]
      /\ \A t \in Thread :
           /\ req[t].came \in Nat
           /\ status[t] \in Status \cup {None}
           /\ status[t].taken \in Nat
  <2>1. now \in 0..MaxTime /\ cache \in [at : 0..MaxTime, data : Status \cup {None}]
    BY DEF LiveInv, StatusTypeOK
  <2>2. ASSUME NEW t \in Thread
        PROVE  req[t].came \in Nat /\ status[t] \in Status \cup {None}
    BY StatusAssumption DEF LiveInv, StatusTypeOK
  <2>3. ASSUME NEW t \in Thread
        PROVE  status[t].taken \in Nat
    BY <2>2, StatusFields, StatusAssumption DEF None
  <2> QED
    BY <2>1, <2>2, <2>3, StatusAssumption
<1>a. at \in [Thread -> Steps] /\ DOMAIN status = Thread /\ DOMAIN req = Thread
  BY DEF LiveInv, StatusTypeOK
<1>1. CASE SystemChanges
  BY <1>1 DEF SystemChanges, AgeInv, OneAccess, StampedBefore, BetweenAccesses,
              AgeIsBounded, Answering
<1>2. CASE Tick
  BY <1>2 DEF Tick, AgeInv, OneAccess, StampedBefore, BetweenAccesses,
              AgeIsBounded, Answering
<1>3. ASSUME NEW t \in Thread, Serve(t)
      PROVE  AgeInv'
  <2>0. \A s \in Thread \ {t} : at[s] \notin {"compare", "store"}
    BY <1>3 DEF Serve, HasInterpreter
  <2>1. ASSUME NEW force \in BOOLEAN, Get(t, force)
        PROVE  AgeInv'
    BY <2>1, <2>0, <1>0, <1>a
    DEF Get, AgeInv, OneAccess, StampedBefore, BetweenAccesses, AgeIsBounded,
        Answering, LiveInv, GatheredLater, NoRequest
  <2>2. CASE Peek(t)
    BY <2>2, <2>0, <1>0, <1>a
    DEF Peek, AgeInv, OneAccess, StampedBefore, BetweenAccesses,
        AgeIsBounded, Answering, LiveInv, GatheredLater, NoRequest
  <2>3. CASE Compare(t)
    BY <2>3, <2>0, <1>0, <1>a
    DEF Compare, Young, AgeInv, OneAccess, StampedBefore, BetweenAccesses,
        AgeIsBounded, Answering, LiveInv, GatheredLater, NoRequest
  <2>4. CASE Gather(t)
    BY <2>4, <2>0, <1>0, <1>a
    DEF Gather, AgeInv, OneAccess, StampedBefore, BetweenAccesses,
        AgeIsBounded, Answering, LiveInv, GatheredLater, NoRequest
  <2>5. CASE Stamp(t)
    BY <2>5, <2>0, <1>0, <1>a
    DEF Stamp, AgeInv, OneAccess, StampedBefore, BetweenAccesses,
        AgeIsBounded, Answering, LiveInv, GatheredLater, NoRequest
  <2>6. CASE Store(t)
    BY <2>6, <2>0, <1>0, <1>a
    DEF Store, AgeInv, OneAccess, StampedBefore, BetweenAccesses,
        AgeIsBounded, Answering, LiveInv, GatheredLater, NoRequest
  <2>7. CASE Answer(t)
    BY <2>7, <2>0, <1>0, <1>a
    DEF Answer, AgeInv, OneAccess, StampedBefore, BetweenAccesses,
        AgeIsBounded, Answering, LiveInv, GatheredLater, NoRequest
  <2>8. CASE Post(t)
    BY <2>8, <2>0, <1>0, <1>a
    DEF Post, AgeInv, OneAccess, StampedBefore, BetweenAccesses,
        AgeIsBounded, Answering, LiveInv, GatheredLater, NoRequest
  <2>9. CASE ControlSucceeds(t)
    BY <2>9, <2>0, <1>0, <1>a
    DEF ControlSucceeds, AgeInv, OneAccess, StampedBefore, BetweenAccesses,
        AgeIsBounded, Answering, LiveInv, GatheredLater, NoRequest
  <2>10. CASE ControlFails(t)
    BY <2>10, <2>0, <1>0, <1>a
    DEF ControlFails, AgeInv, OneAccess, StampedBefore, BetweenAccesses,
        AgeIsBounded, Answering, LiveInv, GatheredLater, NoRequest
  <2>11. CASE Drop(t)
    BY <2>11, <2>0, <1>0, <1>a, OvertakeMarks
    DEF Drop, AgeInv, OneAccess, StampedBefore, BetweenAccesses,
        AgeIsBounded, Answering, LiveInv, GatheredLater, NoRequest
  <2> QED
    BY <1>3, <2>1, <2>2, <2>3, <2>4, <2>5, <2>6, <2>7, <2>8, <2>9, <2>10,
       <2>11
    DEF Serve
<1>4. CASE UNCHANGED vars
  BY <1>4 DEF vars, AgeInv, OneAccess, StampedBefore, BetweenAccesses,
              AgeIsBounded, Answering
<1> QED
  BY <1>1, <1>2, <1>3, <1>4 DEF Next

(***************************************************************************)
(* No answer is older than STATUS_TTL_S when its request comes, where threads *)
(* are switched in calls only: the stamp never says more than the data does  *)
(* (web/txtempus-web.py:301-306, 350-351).                                  *)
(***************************************************************************)
THEOREM AgeStaysBounded ==
  ASSUME ~Preemptive
  PROVE  Spec => []AgeIsBounded
<1>1. LiveInv /\ AgeInv /\ [Next]_vars => AgeInv'
  BY NextAgeInv
<1>2. AgeInv => AgeIsBounded
  BY DEF AgeInv
<1> QED
  BY <1>1, <1>2, InitAgeInv, AlwaysLiveInv, PTL DEF Spec

-----------------------------------------------------------------------------
(* No POST has been answered that a status does not have, whether a thread    *)
(* is about to store it, the cache holds it or a thread has read it there:    *)
(* but for those that a POST has overtaken.                                 *)
PostInv ==
  /\ ~cache.data.overtaken /\ cache.data # None => cache.data.changes >= posted
  /\ \A t \in Thread :
       /\ req[t].due <= posted
       /\ at[t] \in {"stamp", "store"} /\ ~status[t].overtaken =>
            status[t].changes >= posted
       /\ at[t] \in {"compare", "answer"} /\ status[t] # None
            /\ ~status[t].overtaken => status[t].changes >= req[t].due

LEMMA InitPostInv == Init => PostInv
  BY DEF Init, PostInv, None, NoRequest

LEMMA NextPostInv ==
  ASSUME LiveInv, PostInv, [Next]_vars
  PROVE  PostInv'
<1> USE DEF Goto
<1>0. /\ posted \in Nat /\ posted <= changes /\ changes \in Nat
      /\ cache.data \in Status \cup {None} /\ cache.data.changes \in Nat
      /\ cache \in [at : 0..MaxTime, data : Status \cup {None}]
      /\ \A t \in Thread :
           /\ req[t].due \in Nat /\ effect[t] \in Nat
           /\ status[t] \in Status \cup {None}
           /\ status[t].changes \in Nat
           /\ at[t] \in {"stamp", "store"} => status[t] # None
  <2>1. /\ changes \in 0..MaxChanges /\ posted \in 0..MaxChanges
        /\ cache \in [at : 0..MaxTime, data : Status \cup {None}]
        /\ \A t \in Thread : effect[t] \in 0..MaxChanges
    BY DEF LiveInv, StatusTypeOK
  <2>2. ASSUME NEW t \in Thread
        PROVE  req[t].due \in Nat /\ status[t] \in Status \cup {None}
    BY StatusAssumption DEF LiveInv, StatusTypeOK
  <2>3. ASSUME NEW s \in Status \cup {None}
        PROVE  s.changes \in Nat
    BY StatusFields, StatusAssumption DEF None
  <2>4. ASSUME NEW t \in Thread, at[t] \in {"stamp", "store"}
        PROVE  status[t] # None
    BY <2>4, BuiltIsNotNone DEF LiveInv, HasStatus
  <2> QED
    BY <2>1, <2>2, <2>3, <2>4, StatusAssumption DEF LiveInv, NothingAhead
<1>a. at \in [Thread -> Steps] /\ DOMAIN status = Thread /\ DOMAIN req = Thread
  BY DEF LiveInv, StatusTypeOK
<1>1. CASE SystemChanges
  BY <1>1, <1>0 DEF SystemChanges, PostInv
<1>2. CASE Tick
  BY <1>2, <1>0 DEF Tick, PostInv
<1>3. ASSUME NEW t \in Thread, Serve(t)
      PROVE  PostInv'
  <2>1. ASSUME NEW force \in BOOLEAN, Get(t, force)
        PROVE  PostInv'
    BY <2>1, <1>0, <1>a DEF Get, PostInv
  <2>2. CASE Peek(t)
    BY <2>2, <1>0, <1>a DEF Peek, PostInv
  <2>3. CASE Compare(t)
    BY <2>3, <1>0, <1>a DEF Compare, PostInv
  <2>4. CASE Gather(t)
    BY <2>4, <1>0, <1>a DEF Gather, PostInv
  <2>5. CASE Stamp(t)
    BY <2>5, <1>0, <1>a DEF Stamp, PostInv
  <2>6. CASE Store(t)
    BY <2>6, <1>0, <1>a DEF Store, PostInv
  <2>7. CASE Answer(t)
    BY <2>7, <1>0, <1>a DEF Answer, PostInv, NoRequest
  <2>8. CASE Post(t)
    BY <2>8, <1>0, <1>a DEF Post, PostInv
  <2>9. CASE ControlSucceeds(t)
    BY <2>9, <1>0, <1>a DEF ControlSucceeds, PostInv
  <2>10. CASE ControlFails(t)
    BY <2>10, <1>0, <1>a DEF ControlFails, PostInv
  <2>11. CASE Drop(t)
    BY <2>11, <1>0, <1>a, OvertakeMarks DEF Drop, PostInv
  <2> QED
    BY <1>3, <2>1, <2>2, <2>3, <2>4, <2>5, <2>6, <2>7, <2>8, <2>9, <2>10,
       <2>11
    DEF Serve
<1>4. CASE UNCHANGED vars
  BY <1>4 DEF vars, PostInv
<1> QED
  BY <1>1, <1>2, <1>3, <1>4 DEF Next

(***************************************************************************)
(* After a POST no older status is sent to a later request, but for the one   *)
(* that a GET had gathered before the POST dropped the cache: wherever the    *)
(* interpreter switches threads (web/txtempus-web.py:350-351, 554-558).       *)
(***************************************************************************)
THEOREM PostsAreSeen == Spec => []LiveAfterPost
<1>1. LiveInv /\ PostInv /\ [Next]_vars => PostInv'
  BY NextPostInv
<1>2. LiveInv /\ PostInv => LiveAfterPost
  <2> SUFFICES ASSUME LiveInv, PostInv, NEW t \in Thread, Answering(t),
                      ~status[t].overtaken
               PROVE  status[t].changes >= req[t].due
    BY DEF LiveAfterPost
  <2>1. status[t] # None
    BY BuiltIsNotNone DEF LiveInv, HasStatus, Answering
  <2> QED
    BY <2>1 DEF PostInv, Answering
<1> QED
  BY <1>1, <1>2, InitPostInv, AlwaysLiveInv, PTL DEF Spec

-----------------------------------------------------------------------------
(* The refinement.  What is known of the states before the present one.      *)

(* Every status there is: in the cache, or in the hands of a thread.          *)
Known == ({cache.data} \cup {status[t] : t \in Thread}) \ {None}

(* A status that is no older than n ticks knows what had changed by then.     *)
Knows(s) == \A n \in 0 .. TTL : s.taken >= now - n => s.changes >= ago[n]

(* A status that is young enough for a request knows what it must know.       *)
Suits(s, t) == s.taken + TTL >= req[t].came => s.changes >= floor[t]

Waiting(t) == at[t] \in {"peek", "compare"} /\ ~req[t].forced

AgoInv ==
  /\ ago \in [0 .. TTL -> Nat]
  /\ \A n \in 0 .. TTL : ago[n] <= changes
  /\ \A n \in 1 .. TTL : ago[n] <= ago[n - 1]

KnownInv ==
  \A s \in Known :
    /\ s.taken <= now /\ s.changes <= changes
    /\ Knows(s)
    /\ \A t \in Thread : Waiting(t) => Suits(s, t)

FloorInv ==
  /\ floor \in [Thread -> Int]
  /\ \A t \in Thread :
       IF at[t] \in {"idle", "control", "drop"} THEN floor[t] = Nothing
       ELSE floor[t] \in 0 .. changes
  /\ \A t \in Thread :
       at[t] \in {"stamp", "store", "answer"} => status[t].changes >= floor[t]

HistoryInv == AgoInv /\ KnownInv /\ FloorInv

-----------------------------------------------------------------------------
LEMMA InitHistoryInv == HistoryInit => HistoryInv
<1> SUFFICES ASSUME HistoryInit
             PROVE  HistoryInv
  OBVIOUS
<1>1. Known = {}
  BY DEF HistoryInit, Init, Known
<1>2. AgoInv /\ FloorInv
  BY StatusAssumption DEF HistoryInit, Init, AgoInv, FloorInv, Nothing
<1> QED
  BY <1>1, <1>2 DEF HistoryInv, KnownInv

LEMMA Numbers ==
  ASSUME LiveInv
  PROVE  /\ now \in Nat /\ changes \in 0 .. MaxChanges /\ changes \in Nat
         /\ TTL \in Nat
         /\ at \in [Thread -> Steps]
         /\ \A t \in Thread :
              /\ req[t].came \in Nat /\ req[t].came <= now
              /\ req[t].forced \in BOOLEAN
              /\ status[t] \in Status \cup {None}
         /\ cache.data \in Status \cup {None}
         /\ \A s \in Status \cup {None} : s.taken \in Nat /\ s.changes \in Nat
<1>1. /\ now \in 0 .. MaxTime /\ changes \in 0 .. MaxChanges
      /\ at \in [Thread -> Steps]
      /\ cache \in [at : 0 .. MaxTime, data : Status \cup {None}]
      /\ status \in [Thread -> Status \cup {None}]
  BY DEF LiveInv, StatusTypeOK
<1>2. ASSUME NEW t \in Thread
      PROVE  req[t].came \in Nat /\ req[t].forced \in BOOLEAN
  BY StatusAssumption DEF LiveInv, StatusTypeOK
<1>3. \A t \in Thread : req[t].came <= now
  BY DEF LiveInv, NothingAhead
<1>4. \A s \in Status \cup {None} : s.taken \in Nat /\ s.changes \in Nat
  BY StatusFields, StatusAssumption DEF None
<1> QED
  BY <1>1, <1>2, <1>3, <1>4, StatusAssumption

(* A step makes no status but one that is taken now; Overtake only marks.     *)
LEMMA KnownStep ==
  ASSUME LiveInv, [Next]_vars, NEW s \in Known'
  PROVE  \/ \E old \in Known : s.taken = old.taken /\ s.changes = old.changes
         \/ s.taken = now /\ s.changes = changes
<1> USE DEF Goto
<1>a. /\ DOMAIN status = Thread
      /\ cache \in [at : 0 .. MaxTime, data : Status \cup {None}]
  BY DEF LiveInv, StatusTypeOK
<1>b. s # None /\ (s = cache'.data \/ \E t \in Thread : s = status'[t])
  BY DEF Known
<1>1. CASE UNCHANGED <<cache, status>>
  BY <1>1 DEF Known
<1>2. ASSUME NEW t \in Thread, Serve(t)
      PROVE  \/ \E old \in Known : s.taken = old.taken /\ s.changes = old.changes
             \/ s.taken = now /\ s.changes = changes
  <2>1. CASE Peek(t)
    BY <1>a, <1>b, <2>1 DEF Peek, Known
  <2>2. CASE Gather(t)
    BY <1>a, <1>b, <2>2 DEF Gather, Known
  <2>3. CASE Stamp(t)
    BY <1>a, <1>b, <2>3 DEF Stamp, Known
  <2>4. CASE Store(t)
    BY <1>a, <1>b, <2>4 DEF Store, Known
  <2>5. CASE Answer(t)
    BY <1>a, <1>b, <2>5 DEF Answer, Known
  <2>6. CASE Drop(t)
    <3>1. Overtake
      BY <2>6 DEF Drop
    <3>2. PICK u \in Thread : s = status'[u]
      BY <1>a, <1>b, <2>6 DEF Drop
    <3>3. /\ s.taken = status[u].taken /\ s.changes = status[u].changes
          /\ at[u] \notin {"stamp", "store"} => s = status[u]
          /\ at[u] \in {"stamp", "store"} => status[u] # None
      BY <3>1, <3>2, OvertakeMarks, BuiltIsNotNone DEF LiveInv, HasStatus
    <3>4. status[u] \in Known
      BY <1>b, <3>3 DEF Known
    <3> QED
      BY <3>3, <3>4
  <2>7. CASE \/ \E force \in BOOLEAN : Get(t, force)
             \/ Compare(t) \/ Post(t) \/ ControlSucceeds(t) \/ ControlFails(t)
    <3>1. UNCHANGED <<cache, status>>
      BY <2>7 DEF Get, Compare, Post, ControlSucceeds, ControlFails
    <3> QED
      BY <1>1, <3>1
  <2> QED
    BY <1>2, <2>1, <2>2, <2>3, <2>4, <2>5, <2>6, <2>7 DEF Serve
<1>3. CASE SystemChanges \/ Tick \/ UNCHANGED vars
  BY <1>1, <1>3 DEF SystemChanges, Tick, vars
<1> QED
  BY <1>2, <1>3 DEF Next

(* Time and the changes go on one at a time, and not both in a step.          *)
LEMMA TimeStep ==
  ASSUME LiveInv, [Next]_vars
  PROVE  /\ changes' \in {changes, changes + 1}
         /\ \/ now' = now
            \/ now' = now + 1 /\ Tick
<1>1. CASE UNCHANGED vars
  BY <1>1 DEF vars
<1>2. CASE SystemChanges \/ Tick
  BY <1>2 DEF SystemChanges, Tick
<1>3. ASSUME NEW t \in Thread, Serve(t)
      PROVE  changes' \in {changes, changes + 1} /\ now' = now
  BY <1>3
  DEF Serve, Get, Peek, Compare, Gather, Stamp, Store, Answer, Post,
      ControlSucceeds, ControlFails, Drop
<1> QED
  BY <1>1, <1>2, <1>3 DEF Next

(* Who waits after a step waited before it or has just arrived, and a         *)
(* request is not changed meanwhile.                                       *)
LEMMA WaitingStep ==
  ASSUME LiveInv, [Next]_vars, NEW t \in Thread, Waiting(t)'
  PROVE  \/ Waiting(t) /\ req'[t] = req[t] /\ ~Arrives(t) /\ ~Leaves(t)
         \/ /\ Arrives(t) /\ req'[t].came = now /\ ~req'[t].forced
            /\ UNCHANGED <<now, changes, cache, status>>
<1> USE DEF Goto
<1>a. DOMAIN at = Thread /\ DOMAIN req = Thread
  BY DEF LiveInv, StatusTypeOK
<1>1. CASE SystemChanges \/ Tick \/ UNCHANGED vars
  BY <1>1 DEF SystemChanges, Tick, vars, Waiting, Arrives, Leaves
<1>2. ASSUME NEW u \in Thread, Serve(u)
      PROVE  \/ Waiting(t) /\ req'[t] = req[t] /\ ~Arrives(t) /\ ~Leaves(t)
             \/ /\ Arrives(t) /\ req'[t].came = now /\ ~req'[t].forced
                /\ UNCHANGED <<now, changes, cache, status>>
  <2>1. ASSUME NEW force \in BOOLEAN, Get(u, force)
        PROVE  \/ Waiting(t) /\ req'[t] = req[t] /\ ~Arrives(t) /\ ~Leaves(t)
               \/ /\ Arrives(t) /\ req'[t].came = now /\ ~req'[t].forced
                  /\ UNCHANGED <<now, changes, cache, status>>
    BY <1>a, <2>1 DEF Get, Waiting, Arrives, Leaves
  <2>2. CASE Peek(u) \/ Compare(u) \/ Gather(u) \/ Stamp(u) \/ Store(u)
    BY <1>a, <2>2
    DEF Peek, Compare, Gather, Stamp, Store, Waiting, Arrives, Leaves
  <2>3. CASE \/ Answer(u) \/ Post(u) \/ ControlSucceeds(u) \/ ControlFails(u)
             \/ Drop(u)
    BY <1>a, <2>3
    DEF Answer, Post, ControlSucceeds, ControlFails, Drop, Waiting, Arrives,
        Leaves
  <2> QED
    BY <1>2, <2>1, <2>2, <2>3 DEF Serve
<1> QED
  BY <1>1, <1>2 DEF Next

-----------------------------------------------------------------------------
LEMMA NextAgoInv ==
  ASSUME LiveInv, AgoInv, [HistoryNext]_hvars
  PROVE  AgoInv'
<1>1. CASE UNCHANGED hvars
  BY <1>1 DEF hvars, vars, AgoInv
<1>2. CASE HistoryNext /\ now' = now
  <2>1. ago' = ago /\ changes' \in {changes, changes + 1}
    BY <1>2, TimeStep DEF HistoryNext
  <2>2. changes \in Nat /\ \A n \in 0 .. TTL : ago[n] \in Nat /\ ago[n] <= changes
    BY Numbers DEF AgoInv
  <2>3. \A n \in 0 .. TTL : ago[n] <= changes'
    BY <2>1, <2>2
  <2> QED
    BY <2>1, <2>3 DEF AgoInv
<1>3. CASE HistoryNext /\ now' # now
  <2>1. /\ changes' = changes
        /\ ago' = [n \in 0 .. TTL |-> IF n = 0 THEN changes ELSE ago[n - 1]]
    BY <1>3, TimeStep DEF HistoryNext, Tick
  <2>2. \A n \in 1 .. TTL : n - 1 \in 0 .. TTL /\ ago[n - 1] \in Nat
    BY Numbers DEF AgoInv
  <2> QED
    BY <2>1, <2>2, Numbers DEF AgoInv
<1> QED
  BY <1>1, <1>2, <1>3

LEMMA NextKnownInv ==
  ASSUME LiveInv, HistoryInv, [HistoryNext]_hvars
  PROVE  KnownInv'
<1>1. CASE UNCHANGED hvars
  BY <1>1 DEF hvars, vars, HistoryInv, KnownInv, Known, Knows, Suits, Waiting
<1>2. ASSUME HistoryNext, NEW s \in Known'
      PROVE  /\ s.taken <= now' /\ s.changes <= changes'
             /\ Knows(s)'
             /\ \A t \in Thread : Waiting(t)' => Suits(s, t)'
  <2>0. [Next]_vars
    BY <1>2 DEF HistoryNext
  <2>1. /\ s.taken \in Nat /\ s.changes \in Nat
        /\ s.taken <= now /\ s.changes <= changes
        /\ Knows(s)
        /\ \A t \in Thread : Waiting(t) => Suits(s, t)
    <3>1. CASE \E old \in Known :
                 s.taken = old.taken /\ s.changes = old.changes
      <4>1. PICK old \in Known :
                 s.taken = old.taken /\ s.changes = old.changes
        BY <3>1
      <4>2. old \in Status \cup {None}
        BY Numbers DEF Known
      <4> QED
        BY <4>1, <4>2, Numbers DEF HistoryInv, KnownInv, Knows, Suits
    <3>2. CASE s.taken = now /\ s.changes = changes
      <4>1. Knows(s)
        BY <3>2 DEF HistoryInv, AgoInv, Knows
      <4>2. \A t \in Thread : Waiting(t) => floor[t] <= changes
        BY Numbers DEF HistoryInv, FloorInv, Waiting
      <4> QED
        BY <3>2, <4>1, <4>2, Numbers DEF Suits
    <3> QED
      BY <2>0, <3>1, <3>2, KnownStep
  <2>2. s.taken <= now' /\ s.changes <= changes'
    BY <2>0, <2>1, TimeStep, Numbers
  <2>3. Knows(s)'
    <3>1. CASE now' = now
      BY <1>2, <2>1, <3>1 DEF HistoryNext, Knows
    <3>2. CASE now' = now + 1
      <4> SUFFICES ASSUME NEW n \in 0 .. TTL, s.taken >= now' - n
                   PROVE  s.changes >= ago'[n]
        BY DEF Knows
      <4>1. n # 0
        BY <2>1, <3>2, Numbers
      <4>2. n - 1 \in 0 .. TTL /\ s.taken >= now - (n - 1)
        BY <2>1, <3>2, <4>1, Numbers
      <4>3. ago'[n] = ago[n - 1]
        BY <1>2, <3>2, <4>1, Numbers DEF HistoryNext
      <4> QED
        BY <2>1, <4>2, <4>3 DEF Knows
    <3> QED
      BY <2>0, <3>1, <3>2, TimeStep
  <2>4. ASSUME NEW t \in Thread, Waiting(t)'
        PROVE  Suits(s, t)'
    <3>1. CASE Waiting(t) /\ req'[t] = req[t] /\ ~Arrives(t) /\ ~Leaves(t)
      <4>1. floor'[t] = floor[t]
        BY <1>2, <3>1 DEF HistoryNext
      <4> QED
        BY <2>1, <3>1, <4>1 DEF Suits
    <3>2. CASE Arrives(t) /\ req'[t].came = now /\ ~req'[t].forced
      <4>1. floor'[t] = ago[TTL] /\ TTL \in 0 .. TTL
        BY <1>2, <3>2, Numbers DEF HistoryNext
      <4>2. s.taken + TTL >= now => s.changes >= ago[TTL]
        BY <2>1, <4>1, Numbers DEF Knows
      <4> QED
        BY <3>2, <4>1, <4>2 DEF Suits
    <3> QED
      BY <2>0, <2>4, <3>1, <3>2, WaitingStep
  <2> QED
    BY <2>2, <2>3, <2>4
<1> QED
  BY <1>1, <1>2 DEF KnownInv

(* A step of a thread opens its own request, closes it, or leaves it.         *)
LEMMA FloorStep ==
  ASSUME LiveInv, HistoryInv, HistoryNext, NEW t \in Thread, Serve(t)
  PROVE  /\ \A u \in Thread \ {t} : floor'[u] = floor[u] /\ at'[u] = at[u]
         /\ at[t] = "idle" /\ at'[t] = "peek" =>
              floor'[t] = IF req'[t].forced THEN changes ELSE ago[TTL]
         /\ at[t] = "answer" /\ at'[t] = "idle" => floor'[t] = Nothing
         /\ \/ at[t] = "idle" /\ at'[t] = "peek"
            \/ at[t] = "answer" /\ at'[t] = "idle"
            \/ floor' = floor
<1>1. at' = [at EXCEPT ![t] = at'[t]] /\ DOMAIN at = Thread
  BY DEF Serve, Get, Peek, Compare, Gather, Stamp, Store, Answer, Post,
         ControlSucceeds, ControlFails, Drop, Goto, LiveInv, StatusTypeOK
<1>2. \A u \in Thread \ {t} : at'[u] = at[u]
  BY <1>1
<1>3. \A u \in Thread :
        floor'[u] = IF Arrives(u) THEN IF req'[u].forced THEN changes ELSE ago[TTL]
                    ELSE IF Leaves(u) THEN Nothing
                    ELSE floor[u]
  BY DEF HistoryNext
<1>4. \A u \in Thread \ {t} : floor'[u] = floor[u]
  BY <1>2, <1>3 DEF Arrives, Leaves
<1>5. ASSUME ~Arrives(t), ~Leaves(t)
      PROVE  floor' = floor
  <2>1. \A u \in Thread : floor'[u] = floor[u]
    BY <1>3, <1>4, <1>5
  <2>2. /\ floor' = [u \in Thread |-> floor'[u]]
        /\ floor = [u \in Thread |-> floor[u]]
    BY DEF HistoryNext, HistoryInv, FloorInv
  <2> QED
    BY <2>1, <2>2
<1> QED
  BY <1>2, <1>3, <1>4, <1>5 DEF Arrives, Leaves

(* A step that is no thread's leaves the requests alone.                     *)
LEMMA FloorRests ==
  ASSUME HistoryInv, HistoryNext, UNCHANGED at
  PROVE  floor' = floor
<1>1. \A u \in Thread : ~Arrives(u) /\ ~Leaves(u)
  BY DEF Arrives, Leaves
<1>2. floor' = [u \in Thread |-> floor[u]]
  BY <1>1 DEF HistoryNext
<1> QED
  BY <1>2 DEF HistoryInv, FloorInv

(* What is decided on or has been gathered knows enough.  Only a cached       *)
(* status needs an argument: it is young enough, so it suits the request.     *)
LEMMA KnowsEnough ==
  ASSUME ~Preemptive, LiveInv, AgeInv, HistoryInv, HistoryNext,
         NEW t \in Thread, Serve(t),
         NEW u \in Thread, at'[u] \in {"stamp", "store", "answer"}
  PROVE  status'[u].changes >= floor'[u]
<1> USE DEF Goto
<1>a. /\ DOMAIN at = Thread /\ DOMAIN status = Thread
      /\ \A v \in Thread :
           at[v] \in {"stamp", "store", "answer"} => status[v].changes >= floor[v]
  BY DEF LiveInv, StatusTypeOK, HistoryInv, FloorInv
<1>1. CASE u # t
  <2>1. floor'[u] = floor[u] /\ at'[u] = at[u]
    BY <1>1, FloorStep
  <2>2. status'[u].changes = status[u].changes
    <3>1. CASE Drop(t)
      BY <3>1, OvertakeMarks DEF Drop
    <3>2. CASE ~Drop(t)
      BY <1>1, <1>a, <3>2
      DEF Serve, Get, Peek, Compare, Gather, Stamp, Store, Answer, Post,
          ControlSucceeds, ControlFails
    <3> QED
      BY <3>1, <3>2
  <2> QED
    BY <1>a, <2>1, <2>2
<1>2. CASE u = t
  <2>1. CASE Compare(t)
    <3>1. /\ at[t] = "compare" /\ at'[t] = "answer"
          /\ ~req[t].forced /\ status[t] # None
          /\ status' = status /\ req' = req
      BY <1>2, <1>a, <2>1 DEF Compare
    <3>2. floor' = floor
      BY <1>2, <3>1, FloorStep
    <3>3. status[t].taken + TTL >= req[t].came
      <4>1. AgeIsBounded'
        BY NextAgeInv DEF HistoryNext, AgeInv
      <4> QED
        BY <3>1, <4>1 DEF AgeIsBounded, Answering
    <3>4. status[t] \in Known /\ Waiting(t)
      BY <3>1 DEF Known, Waiting
    <3> QED
      BY <1>2, <3>1, <3>2, <3>3, <3>4 DEF HistoryInv, KnownInv, Suits
  <2>2. CASE Gather(t)
    <3>1. at[t] = "gather" /\ floor' = floor /\ status'[t].changes = changes
      BY <1>2, <1>a, <2>2, FloorStep DEF Gather
    <3> QED
      BY <1>2, <3>1, Numbers DEF HistoryInv, FloorInv
  <2>3. CASE Stamp(t) \/ Store(t)
    <3>1. /\ at[t] \in {"stamp", "store"} /\ status' = status
          /\ floor' = floor
      BY <1>2, <1>a, <2>3, FloorStep DEF Stamp, Store
    <3> QED
      BY <1>2, <1>a, <3>1
  <2>4. CASE \/ \E force \in BOOLEAN : Get(t, force)
             \/ Peek(t) \/ Answer(t) \/ Post(t) \/ ControlSucceeds(t)
             \/ ControlFails(t) \/ Drop(t)
    BY <1>2, <1>a, <2>4
    DEF Get, Peek, Answer, Post, ControlSucceeds, ControlFails, Drop
  <2> QED
    BY <2>1, <2>2, <2>3, <2>4 DEF Serve
<1> QED
  BY <1>1, <1>2

LEMMA NextFloorInv ==
  ASSUME ~Preemptive, LiveInv, AgeInv, HistoryInv, [HistoryNext]_hvars
  PROVE  FloorInv'
<1> USE DEF Goto
<1>a. /\ changes \in Nat /\ changes' \in Nat /\ changes <= changes'
      /\ ago[TTL] \in 0 .. changes
      /\ \A u \in Thread : status[u].changes \in Nat
      /\ DOMAIN at = Thread /\ DOMAIN status = Thread
  <2>1. [Next]_vars
    BY DEF HistoryNext, hvars, vars
  <2>2. TTL \in 0 .. TTL
    BY Numbers
  <2> QED
    BY <2>1, <2>2, TimeStep, Numbers
    DEF HistoryInv, AgoInv, LiveInv, StatusTypeOK
<1>1. CASE UNCHANGED hvars
  BY <1>1 DEF hvars, vars, HistoryInv, FloorInv
<1>2. CASE HistoryNext /\ (SystemChanges \/ Tick)
  <2>1. UNCHANGED <<at, status>>
    BY <1>2 DEF SystemChanges, Tick
  <2>2. floor' = floor
    BY <1>2, <2>1, FloorRests
  <2> QED
    BY <1>a, <2>1, <2>2 DEF HistoryInv, FloorInv
<1>3. ASSUME HistoryNext, NEW t \in Thread, Serve(t)
      PROVE  FloorInv'
  <2>1. floor' \in [Thread -> Int]
    <3>1. \A u \in Thread : floor'[u] \in Int
      BY <1>3, <1>a DEF HistoryNext, HistoryInv, FloorInv, Nothing
    <3>2. floor' = [u \in Thread |-> floor'[u]]
      BY <1>3 DEF HistoryNext
    <3> QED
      BY <3>1, <3>2
  <2>2. ASSUME NEW u \in Thread
        PROVE  IF at'[u] \in {"idle", "control", "drop"} THEN floor'[u] = Nothing
               ELSE floor'[u] \in 0 .. changes'
    <3>1. CASE u # t
      BY <1>3, <1>a, <3>1, FloorStep DEF HistoryInv, FloorInv
    <3>2. CASE u = t
      <4>1. CASE \E force \in BOOLEAN : Get(t, force)
        BY <1>3, <1>a, <3>2, <4>1, FloorStep DEF Get, HistoryInv, FloorInv
      <4>2. CASE Peek(t) \/ Compare(t) \/ Gather(t) \/ Stamp(t) \/ Store(t)
        BY <1>3, <1>a, <3>2, <4>2, FloorStep
        DEF Peek, Compare, Gather, Stamp, Store, HistoryInv, FloorInv
      <4>3. CASE Answer(t)
        BY <1>3, <1>a, <3>2, <4>3, FloorStep DEF Answer, HistoryInv, FloorInv
      <4>4. CASE Post(t) \/ ControlSucceeds(t) \/ ControlFails(t) \/ Drop(t)
        BY <1>3, <1>a, <3>2, <4>4, FloorStep
        DEF Post, ControlSucceeds, ControlFails, Drop, HistoryInv, FloorInv
      <4> QED
        BY <1>3, <4>1, <4>2, <4>3, <4>4 DEF Serve
    <3> QED
      BY <3>1, <3>2
  <2>3. ASSUME NEW u \in Thread, at'[u] \in {"stamp", "store", "answer"}
        PROVE  status'[u].changes >= floor'[u]
    BY <1>3, <2>3, KnowsEnough
  <2> QED
    BY <2>1, <2>2, <2>3 DEF FloorInv
<1> QED
  BY <1>1, <1>2, <1>3 DEF HistoryNext, Next

-----------------------------------------------------------------------------
(* Outside of "answer" nothing is sent, and an answer that is due stays.      *)
LEMMA SentStep ==
  ASSUME LiveInv, NEW t \in Thread, Serve(t)
  PROVE  \A u \in Thread \ {t} : Sent'[u] = Sent[u]
<1>1. SUFFICES ASSUME NEW u \in Thread \ {t}
               PROVE  Sent'[u] = Sent[u]
  OBVIOUS
<1>2. DOMAIN at = Thread /\ DOMAIN status = Thread
  BY DEF LiveInv, StatusTypeOK
<1>3. at'[u] = at[u] /\ status'[u].changes = status[u].changes
  <2>1. CASE Drop(t)
    BY <1>1, <1>2, <2>1, OvertakeMarks DEF Drop, Goto
  <2>2. CASE ~Drop(t)
    BY <1>1, <1>2, <2>2
    DEF Serve, Get, Peek, Compare, Gather, Stamp, Store, Answer, Post,
        ControlSucceeds, ControlFails, Goto
  <2> QED
    BY <2>1, <2>2
<1> QED
  BY <1>3 DEF Sent

LEMMA InitRefines == HistoryInit => Server!Init
  BY StatusAssumption
  DEF HistoryInit, Init, Server!Init, Sent, Nothing, Server!Nothing

LEMMA StepRefines ==
  ASSUME ~Preemptive, LiveInv, AgeInv, HistoryInv, [HistoryNext]_hvars
  PROVE  [Server!Next]_(Server!server)
<1> USE DEF Goto
<1>a. /\ changes \in 0 .. MaxChanges /\ changes \in Nat
      /\ ago[TTL] \in 0 .. changes
      /\ DOMAIN at = Thread /\ DOMAIN status = Thread /\ DOMAIN req = Thread
      /\ floor \in [Thread -> Int]
      /\ \A u \in Thread : status[u].changes \in Nat
      /\ Sent = [u \in Thread |-> Sent[u]]
      /\ \A u \in Thread : at[u] # "answer" => Sent[u] = Nothing
  <2>1. TTL \in 0 .. TTL
    BY Numbers
  <2> QED
    BY <2>1, Numbers
    DEF HistoryInv, AgoInv, FloorInv, LiveInv, StatusTypeOK, Sent
<1>1. CASE UNCHANGED hvars
  BY <1>1 DEF hvars, vars, Server!server, Sent
<1>2. CASE HistoryNext /\ SystemChanges
  <2>1. UNCHANGED <<ago, Sent>> /\ floor' = floor
    BY <1>2, FloorRests DEF SystemChanges, HistoryNext, Sent
  <2>2. Server!Change
    BY <1>2, <2>1 DEF SystemChanges, Server!Change
  <2> QED
    BY <2>2 DEF Server!Next
<1>3. CASE HistoryNext /\ Tick
  <2>1. UNCHANGED <<changes, Sent>> /\ floor' = floor
    BY <1>3, FloorRests DEF Tick, Sent
  <2>2. ago'[TTL] \in ago[TTL] .. changes
    <3>1. now' # now
      BY <1>3, Numbers DEF Tick
    <3>2. ago'[TTL] = IF TTL = 0 THEN changes ELSE ago[TTL - 1]
      BY <1>3, <3>1, Numbers DEF HistoryNext
    <3>3. /\ ago \in [0 .. TTL -> Nat]
          /\ TTL # 0 => /\ TTL - 1 \in 0 .. TTL
                        /\ ago[TTL] <= ago[TTL - 1]
                        /\ ago[TTL - 1] <= changes
      BY Numbers DEF HistoryInv, AgoInv
    <3> QED
      BY <1>a, <3>2, <3>3
  <2>3. CASE ago'[TTL] = ago[TTL]
    BY <2>1, <2>3 DEF Server!server
  <2>4. CASE ago'[TTL] # ago[TTL]
    <3>1. Server!Age
      BY <1>a, <2>1, <2>2, <2>4 DEF Server!Age
    <3> QED
      BY <3>1 DEF Server!Next
  <2> QED
    BY <2>3, <2>4
<1>4. ASSUME HistoryNext, NEW t \in Thread, Serve(t)
      PROVE  [Server!Next]_(Server!server)
  <2>1. ago' = ago
    BY <1>4
    DEF HistoryNext, Serve, Get, Peek, Compare, Gather, Stamp, Store, Answer,
        Post, ControlSucceeds, ControlFails, Drop
  <2>2. Sent' = [Sent EXCEPT ![t] = Sent'[t]]
    <3>1. Sent' = [u \in Thread |-> Sent'[u]]
      BY DEF Sent
    <3> QED
      BY <1>4, <1>a, <3>1, SentStep
  <2>3. floor' = [floor EXCEPT ![t] = floor'[t]]
    <3>1. floor' = [u \in Thread |-> floor'[u]]
      BY <1>4 DEF HistoryNext
    <3> QED
      BY <1>4, <1>a, <3>1, FloorStep
  <2>4. ASSUME NEW force \in BOOLEAN, Get(t, force)
        PROVE  Server!Next
    <3>1. /\ at[t] = "idle" /\ at'[t] = "peek" /\ changes' = changes
          /\ req'[t].forced = force
      BY <1>a, <2>4 DEF Get
    <3>2. floor'[t] = IF force THEN changes ELSE ago[TTL]
      BY <1>4, <3>1, FloorStep
    <3>3. floor[t] = Server!Nothing
      BY <3>1 DEF HistoryInv, FloorInv, Nothing, Server!Nothing
    <3>4. Sent' = Sent
      BY <1>a, <2>2, <3>1 DEF Sent
    <3>5. Server!Ask(t, force)
      BY <2>1, <2>3, <3>1, <3>2, <3>3, <3>4 DEF Server!Ask, Server!Open
    <3> QED
      BY <3>5 DEF Server!Next, Server!Request
  <2>5. CASE at[t] # "answer" /\ at'[t] = "answer"
    <3>1. changes' = changes /\ at[t] \in {"compare", "store"}
      BY <1>4, <1>a, <2>5
      DEF Serve, Get, Peek, Compare, Gather, Stamp, Store, Answer, Post,
          ControlSucceeds, ControlFails, Drop
    <3>2. floor' = floor
      BY <1>4, <2>5, <3>1, FloorStep
    <3>3. floor[t] \in 0 .. changes
      BY <3>1 DEF HistoryInv, FloorInv
    <3>4. Sent[t] = Server!Nothing
      BY <1>a, <2>5 DEF Nothing, Server!Nothing
    <3>5. Sent'[t] \in floor[t] .. changes
      <4>1. Sent'[t] = status'[t].changes
        BY <2>5 DEF Sent
      <4>2. status'[t].changes >= floor[t]
        BY <1>4, <2>5, <3>2, KnowsEnough
      <4>3. status'[t] = status[t] /\ status[t].changes <= changes
        <5>1. status'[t] = status[t] /\ status[t] # None
          BY <1>4, <1>a, <2>5, <3>1, BuiltIsNotNone
          DEF Serve, Get, Peek, Compare, Gather, Stamp, Store, Answer, Post,
              ControlSucceeds, ControlFails, Drop, LiveInv, HasStatus
        <5>2. status[t] \in Known
          BY <5>1 DEF Known
        <5> QED
          BY <5>1, <5>2 DEF HistoryInv, KnownInv
      <4> QED
        BY <1>a, <3>3, <4>1, <4>2, <4>3
    <3>6. Server!Answer(t)
      BY <2>1, <2>2, <3>1, <3>2, <3>3, <3>4, <3>5
      DEF Server!Answer, Server!Open, Server!Nothing
    <3> QED
      BY <3>6 DEF Server!Next
  <2>6. CASE Answer(t)
    <3>1. at[t] = "answer" /\ at'[t] = "idle" /\ changes' = changes
      BY <1>a, <2>6 DEF Answer
    <3>2. floor'[t] = Nothing /\ Sent'[t] = Nothing
      BY <1>4, <3>1, FloorStep DEF Sent
    <3>3. floor[t] \in 0 .. changes /\ Sent[t] \in Nat
      BY <1>a, <3>1 DEF HistoryInv, FloorInv, Sent
    <3>4. Server!Close(t)
      BY <2>1, <2>2, <2>3, <3>1, <3>2, <3>3
      DEF Server!Close, Server!Open, Server!Nothing, Nothing
    <3> QED
      BY <3>4 DEF Server!Next
  <2>7. CASE ControlSucceeds(t)
    <3>1. /\ changes < MaxChanges /\ changes' = changes + 1
          /\ at[t] = "control" /\ at'[t] = "drop"
      BY <1>a, <2>7 DEF ControlSucceeds
    <3>2. floor' = floor
      BY <1>4, <3>1, FloorStep
    <3>3. Sent' = Sent
      BY <1>a, <2>2, <3>1 DEF Sent
    <3>4. Server!Change
      BY <2>1, <3>1, <3>2, <3>3 DEF Server!Change
    <3> QED
      BY <3>4 DEF Server!Next
  <2>8. CASE /\ at'[t] # "answer"
             /\ \/ Peek(t) \/ Compare(t) \/ Gather(t) \/ Stamp(t)
                \/ Post(t) \/ ControlFails(t) \/ Drop(t)
    <3>1. /\ changes' = changes /\ at[t] # "answer"
          /\ ~(at[t] = "idle" /\ at'[t] = "peek")
      BY <1>a, <2>8
      DEF Peek, Compare, Gather, Stamp, Post, ControlFails, Drop
    <3>2. floor' = floor
      BY <1>4, <3>1, FloorStep
    <3>3. Sent' = Sent
      BY <1>a, <2>2, <2>8, <3>1 DEF Sent
    <3> QED
      BY <2>1, <3>1, <3>2, <3>3 DEF Server!server
  <2>9. Store(t) => at[t] # "answer" /\ at'[t] = "answer"
    BY <1>a DEF Store
  <2>10. \/ Peek(t) \/ Compare(t) \/ Gather(t) \/ Stamp(t)
         \/ Post(t) \/ ControlFails(t) \/ Drop(t)
         => at[t] # "answer"
    BY DEF Peek, Compare, Gather, Stamp, Post, ControlFails, Drop
  <2> QED
    BY <1>4, <2>4, <2>5, <2>6, <2>7, <2>8, <2>9, <2>10 DEF Serve
<1> QED
  BY <1>1, <1>2, <1>3, <1>4 DEF HistoryNext, Next

(***************************************************************************)
(* With any number of threads, any TTL and any bounds, no interleaving of     *)
(* requests makes the server answer a status that was out of date, by more    *)
(* than STATUS_TTL_S, when the request came, or with ?fresh=1 one that was    *)
(* out of date at all, where the interpreter switches threads in calls only   *)
(* (web/txtempus-web.py:41-46, 300-352).                                   *)
(***************************************************************************)
THEOREM CacheImplementsServer ==
  ASSUME ~Preemptive
  PROVE  HistorySpec => ImplementsStatusServer
<1>1. HistoryInit => LiveInv /\ AgeInv /\ HistoryInv
  BY InitLiveInv, InitAgeInv, InitHistoryInv DEF HistoryInit
<1>2. LiveInv /\ AgeInv /\ HistoryInv /\ [HistoryNext]_hvars
        => LiveInv' /\ AgeInv' /\ HistoryInv'
  <2> SUFFICES ASSUME LiveInv, AgeInv, HistoryInv, [HistoryNext]_hvars
               PROVE  LiveInv' /\ AgeInv' /\ HistoryInv'
    OBVIOUS
  <2>1. [Next]_vars
    BY DEF HistoryNext, hvars, vars
  <2>2. LiveInv' /\ AgeInv'
    BY <2>1, NextLiveInv, NextAgeInv
  <2>3. AgoInv' /\ KnownInv' /\ FloorInv'
    BY NextAgoInv, NextKnownInv, NextFloorInv DEF HistoryInv
  <2> QED
    BY <2>2, <2>3 DEF HistoryInv
<1>3. HistoryInit => Server!Init
  BY InitRefines
<1>4. LiveInv /\ AgeInv /\ HistoryInv /\ [HistoryNext]_hvars
        => [Server!Next]_(Server!server)
  BY StepRefines
<1> QED
  BY <1>1, <1>2, <1>3, <1>4, PTL DEF HistorySpec, ImplementsStatusServer, Server!Spec

=============================================================================
