--------------------------- MODULE WebPage_proofs ---------------------------
(***************************************************************************)
(* What the page's polling keeps up and what it shows after an action, for    *)
(* any number of requests in flight and of changes.                        *)
(***************************************************************************)
EXTENDS WebPage, TLAPS

(* An answer knows at least what its request has to be told.                *)
ServerInv ==
  /\ changes \in Nat /\ old \in 0 .. changes
  /\ floor \in [Thread -> Int]
  /\ sent \in [Thread -> Int]
  /\ \A t \in Thread :
       IF Open(t) THEN /\ floor[t] \in Nat
                       /\ sent[t] # Nothing => sent[t] >= floor[t]
       ELSE sent[t] = Nothing

(* The requests made since the last POST was answered are in flight, and     *)
(* each has to be told of it.                                              *)
SinceInv ==
  /\ due \in 0 .. changes
  /\ since \subseteq Flying
  /\ \A t \in since : floor[t] >= due

PageInv == ServerInv /\ SinceInv /\ PollingGoesOn /\ ActionIsShown

-----------------------------------------------------------------------------
LEMMA InitPageInv == PageInit => PageInv
BY DEF PageInit, Init, PageInv, ServerInv, SinceInv, PollingGoesOn,
       ActionIsShown, Open, Flying, Nothing

(* A request that is made is one more in flight.                             *)
LEMMA AskServer ==
  ASSUME ServerInv, NEW t \in Thread, NEW force \in BOOLEAN, Ask(t, force)
  PROVE  /\ ServerInv'
         /\ Flying' = Flying \cup {t} /\ t \notin Flying
         /\ \A u \in Flying : floor'[u] = floor[u]
         /\ force => floor'[t] = changes
         /\ changes' = changes
<1>1. /\ floor' = [floor EXCEPT ![t] = IF force THEN changes ELSE old]
      /\ UNCHANGED <<changes, old, sent>> /\ ~Open(t)
  BY DEF Ask
<1>2. /\ floor' \in [Thread -> Int]
      /\ \A u \in Thread \ {t} : floor'[u] = floor[u]
      /\ floor'[t] \in Nat /\ floor'[t] = IF force THEN changes ELSE old
  BY <1>1 DEF ServerInv
<1>3. Flying' = Flying \cup {t} /\ t \notin Flying
  BY <1>1, <1>2 DEF Flying, Open, Nothing
<1>4. ServerInv'
  BY <1>1, <1>2 DEF ServerInv, Open, Nothing
<1> QED
  BY <1>1, <1>2, <1>3, <1>4 DEF Flying

(* What it is made for besides polling asks for the present state.           *)
LEMMA refreshKeeps ==
  ASSUME PageInv, refresh(TRUE)
  PROVE  PageInv'
<1>1. PICK t \in Thread :
        /\ Ask(t, TRUE) /\ since' = since \cup {t}
        /\ UNCHANGED <<status, due, live>>
  BY DEF refresh
<1>2. /\ ServerInv' /\ Flying' = Flying \cup {t} /\ t \notin Flying
      /\ \A u \in Flying : floor'[u] = floor[u]
      /\ floor'[t] = changes /\ changes' = changes
  BY <1>1, AskServer DEF PageInv
<1>3. SinceInv'
  BY <1>1, <1>2 DEF PageInv, SinceInv, ServerInv
<1> QED
  BY <1>1, <1>2, <1>3 DEF PageInv, PollingGoesOn, ActionIsShown

(* A request that ends, with an answer or without, leaves the others.         *)
LEMMA EndKeeps ==
  ASSUME PageInv, NEW t \in Thread, Open(t),
         floor' = [floor EXCEPT ![t] = Nothing],
         sent' = [sent EXCEPT ![t] = Nothing],
         since' = since \ {t}, UNCHANGED <<changes, old, due>>
  PROVE  ServerInv' /\ SinceInv'
<1>1. /\ floor' \in [Thread -> Int] /\ sent' \in [Thread -> Int]
      /\ \A u \in Thread \ {t} : floor'[u] = floor[u] /\ sent'[u] = sent[u]
      /\ floor'[t] = Nothing /\ sent'[t] = Nothing
  BY DEF PageInv, ServerInv, Nothing
<1>2. Flying' = Flying \ {t}
  BY <1>1 DEF Flying, Open
<1> QED
  BY <1>1, <1>2 DEF PageInv, ServerInv, SinceInv, Open, Flying

LEMMA NextPageInv == PageInv /\ [PageNext]_vars => PageInv'
<1> SUFFICES ASSUME PageInv, [PageNext]_vars
             PROVE  PageInv'
  OBVIOUS
<1> USE DEF PageInv
<1>1. CASE Server
  <2>1. CASE Change
    BY <1>1, <2>1
    DEF Server, Change, ServerInv, SinceInv, page, history, PollingGoesOn,
        ActionIsShown, Flying, Open
  <2>2. CASE Age
    BY <1>1, <2>2
    DEF Server, Age, ServerInv, SinceInv, page, history, PollingGoesOn,
        ActionIsShown, Flying, Open
  <2>3. ASSUME NEW t \in Thread, Answer(t), UNCHANGED <<page, history>>
        PROVE  PageInv'
    <3>1. /\ sent' \in [Thread -> Int] /\ UNCHANGED <<changes, old, floor>>
          /\ \A u \in Thread \ {t} : sent'[u] = sent[u]
          /\ sent'[t] >= floor[t] /\ Open(t)
      BY <2>3 DEF Answer, ServerInv
    <3> QED
      BY <2>3, <3>1
      DEF ServerInv, SinceInv, page, history, PollingGoesOn, ActionIsShown,
          Flying, Open
  <2> QED
    BY <1>1, <2>1, <2>2, <2>3 DEF Server
<1>2. CASE LoadConfig \/ FollowUp \/ Click \/ Show
  BY <1>2, refreshKeeps DEF LoadConfig, FollowUp, Click, Show
<1>3. CASE LoadConfigFails \/ Hide \/ postJSON \/ PostFails
  BY <1>3
  DEF LoadConfigFails, Hide, postJSON, PostFails, NoRefresh, server, history,
      ServerInv, SinceInv, PollingGoesOn, ActionIsShown, Flying, Open
<1>4. CASE Poll
  <2>1. CASE hidden
    BY <1>4, <2>1
    DEF Poll, server, history, ServerInv, SinceInv, PollingGoesOn,
        ActionIsShown, Flying, Open
  <2>2. CASE ~hidden
    <3>1. PICK t \in Thread : Ask(t, FALSE)
      BY <1>4, <2>2 DEF Poll
    <3> QED
      BY <1>4, <3>1, AskServer
      DEF Poll, history, SinceInv, PollingGoesOn, ActionIsShown
  <2> QED
    BY <2>1, <2>2
<1>5. ASSUME NEW t \in Thread, Receive(t)
      PROVE  PageInv'
  <2>1. /\ Open(t) /\ sent[t] # Nothing
        /\ floor' = [floor EXCEPT ![t] = Nothing]
        /\ sent' = [sent EXCEPT ![t] = Nothing]
        /\ since' = since \ {t} /\ UNCHANGED <<changes, old, due>>
    BY <1>5 DEF Receive, Close
  <2>2. ServerInv' /\ SinceInv'
    BY <2>1, EndKeeps
  <2>3. ActionIsShown'
    <3>1. t \in since => sent[t] >= due
      BY <2>1 DEF ServerInv, SinceInv
    <3> QED
      BY <1>5, <3>1 DEF Receive, ActionIsShown
  <2>4. PollingGoesOn'
    BY <1>5 DEF Receive, schedulePoll, PollingGoesOn
  <2> QED
    BY <2>2, <2>3, <2>4
<1>6. ASSUME NEW t \in Thread, Lose(t)
      PROVE  PageInv'
  <2>1. ServerInv' /\ SinceInv'
    BY <1>6, EndKeeps DEF Lose
  <2> QED
    BY <1>6, <2>1 DEF Lose, schedulePoll, PollingGoesOn, ActionIsShown
<1>7. CASE TakesEffect
  BY <1>7
  DEF TakesEffect, Change, history, ServerInv, SinceInv, PollingGoesOn,
      ActionIsShown, Flying, Open
<1>8. CASE Saved
  <2>1. PICK t \in Thread : Ask(t, TRUE) /\ since' = {t}
    BY <1>8 DEF Saved
  <2>2. /\ ServerInv' /\ Flying' = Flying \cup {t}
        /\ floor'[t] = changes /\ changes' = changes
    BY <2>1, AskServer
  <2> QED
    BY <1>8, <2>1, <2>2
    DEF Saved, Answered, ServerInv, SinceInv, PollingGoesOn, ActionIsShown
<1>9. CASE Transmitted
  BY <1>9
  DEF Transmitted, Answered, server, ServerInv, SinceInv, PollingGoesOn,
      ActionIsShown, Flying, Open
<1>10. CASE UNCHANGED vars
  BY <1>10
  DEF vars, server, page, history, ServerInv, SinceInv, PollingGoesOn,
      ActionIsShown, Flying, Open
<1> QED
  BY <1>1, <1>2, <1>3, <1>4, <1>5, <1>6, <1>7, <1>8, <1>9, <1>10
  DEF PageNext, Browser, User, Reply

LEMMA AlwaysPageInv == PageSpec => []PageInv
  BY InitPageInv, NextPageInv, PTL DEF PageSpec

(***************************************************************************)
(* A visible page that has begun to ask always has a timer set or a request   *)
(* in flight that sets it again (web/txtempus-web.py:849-873, 968).           *)
(***************************************************************************)
THEOREM PollingNeverStops == PageSpec => []PollingGoesOn
<1>1. PageInv => PollingGoesOn
  BY DEF PageInv
<1> QED
  BY <1>1, AlwaysPageInv, PTL

(***************************************************************************)
(* However answers overtake each other, the first one to a request made after *)
(* an action shows the action (web/txtempus-web.py:907-921).                 *)
(***************************************************************************)
THEOREM ActionsAreShown == PageSpec => []ActionIsShown
<1>1. PageInv => ActionIsShown
  BY DEF PageInv
<1> QED
  BY <1>1, AlwaysPageInv, PTL

=============================================================================
