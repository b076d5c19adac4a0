------------------------------ MODULE WebPage ------------------------------
(***************************************************************************)
(* The script of the admin page (web/txtempus-web.py:712-973) in one browser *)
(* tab: it polls the status while it is visible, asks afresh after each of    *)
(* its own actions, and shows whatever answer arrives last.  Requests are in *)
(* flight together, are answered in any order and may fail.                 *)
(*                                                                         *)
(* The server is StatusServer.  How long a poll is put off (POLL_TX_MS,      *)
(* POLL_IDLE_MS, POLL_ERR_MS) is left out: a timer that is set runs out.     *)
(***************************************************************************)
EXTENDS StatusServer

VARIABLES
  loading,        \* loadConfig() has not returned yet
  hidden,         \* document.hidden
  pollTimer,      \* pollTimer is set
  followUp,       \* a setTimeout(() => refresh(true), 600) is set
  status,         \* the status shown
  posting,        \* the POST under way: none, sent, or the change it has made
  started,        \* history: refresh has been called
  due,            \* history: the change made by the last POST answered
  since,          \* history: the requests made after it, other than polls
  live            \* history: status is the answer to one of those

page    == <<loading, hidden, pollTimer, followUp, status, posting>>
history == <<started, due, since, live>>
vars    == <<server, page, history>>

Flying == {t \in Thread : Open(t)}

PageInit ==
  /\ Init
  /\ loading = TRUE
  /\ hidden \in BOOLEAN
  /\ pollTimer = FALSE
  /\ followUp = FALSE
  /\ status = Nothing
  /\ posting = "none"
  /\ started = FALSE
  /\ due = 0
  /\ since = {}
  /\ live = FALSE

-----------------------------------------------------------------------------
(* refresh(force) up to its fetch; what it is called for is no poll.         *)
refresh(force) ==
  \E t \in Thread :
    /\ Ask(t, force)
    /\ since' = since \cup {t}
    /\ started' = TRUE
    /\ UNCHANGED <<status, due, live>>

NoRefresh == UNCHANGED <<server, status, history>>

(* schedulePoll: the old timer is cleared, and a hidden tab gets no new one. *)
schedulePoll == pollTimer' = ~hidden

(* loadConfig().then(() => refresh(true))                                   *)
LoadConfig ==
  /\ loading
  /\ loading' = FALSE
  /\ refresh(TRUE)
  /\ UNCHANGED <<hidden, pollTimer, followUp, posting>>

(* fetch or json() rejects, and nobody catches it.                          *)
LoadConfigFails ==
  /\ loading
  /\ loading' = FALSE
  /\ NoRefresh
  /\ UNCHANGED <<hidden, pollTimer, followUp, posting>>

(* The timer calls refresh(), which returns at once in a hidden tab.         *)
Poll ==
  /\ pollTimer
  /\ pollTimer' = FALSE
  /\ IF hidden THEN UNCHANGED server ELSE \E t \in Thread : Ask(t, FALSE)
  /\ UNCHANGED <<loading, hidden, followUp, status, posting, history>>

(* The rest of refresh: the answer is shown, whichever request it is to.     *)
Receive(t) ==
  /\ Close(t)
  /\ status' = sent[t]
  /\ live' = (t \in since)
  /\ since' = since \ {t}
  /\ schedulePoll
  /\ UNCHANGED <<loading, hidden, followUp, posting, started, due>>

(* Mutant of Lose: no catch around the fetch.                               *)
LoseAndDie(t) ==
  /\ Open(t)
  /\ floor' = [floor EXCEPT ![t] = Nothing]
  /\ sent' = [sent EXCEPT ![t] = Nothing]
  /\ since' = since \ {t}
  /\ UNCHANGED <<changes, old, loading, hidden, pollTimer, followUp, status,
                 posting, started, due, live>>

(* "transient failure: retry, don't die"                                    *)
Lose(t) ==
  /\ Open(t)
  /\ floor' = [floor EXCEPT ![t] = Nothing]
  /\ sent' = [sent EXCEPT ![t] = Nothing]
  /\ since' = since \ {t}
  /\ schedulePoll
  /\ UNCHANGED <<changes, old, loading, hidden, followUp, status, posting,
                 started, due, live>>

(* The refresh button.                                                     *)
Click ==
  /\ refresh(TRUE)
  /\ UNCHANGED <<loading, hidden, pollTimer, followUp, posting>>

Hide ==
  /\ ~hidden
  /\ hidden' = TRUE
  /\ NoRefresh
  /\ UNCHANGED <<loading, pollTimer, followUp, posting>>

(* Mutant of Show: nobody listens to visibilitychange.                      *)
ShowUnheard ==
  /\ hidden
  /\ hidden' = FALSE
  /\ NoRefresh
  /\ UNCHANGED <<loading, pollTimer, followUp, posting>>

(* visibilitychange                                                        *)
Show ==
  /\ hidden
  /\ hidden' = FALSE
  /\ refresh(TRUE)
  /\ UNCHANGED <<loading, pollTimer, followUp, posting>>

-----------------------------------------------------------------------------
(* saveStation, saveZone, saveSchedule, txStart, txStop: one at a time.      *)
postJSON ==
  /\ posting = "none"
  /\ posting' = "sent"
  /\ NoRefresh
  /\ UNCHANGED <<loading, hidden, pollTimer, followUp>>

TakesEffect ==
  /\ posting = "sent"
  /\ posting' = "done"
  /\ Change
  /\ UNCHANGED <<loading, hidden, pollTimer, followUp, status, history>>

Answered ==
  /\ posting = "done"
  /\ posting' = "none"
  /\ due' = changes
  /\ live' = FALSE
  /\ UNCHANGED started

(* Mutant of Saved: refresh() instead of refresh(true).                     *)
SavedUnforced ==
  /\ Answered
  /\ \E t \in Thread : Ask(t, FALSE) /\ since' = {t}
  /\ UNCHANGED <<loading, hidden, pollTimer, followUp, status>>

(* The three save functions go on with refresh(true), ...                   *)
Saved ==
  /\ Answered
  /\ \E t \in Thread : Ask(t, TRUE) /\ since' = {t}
  /\ UNCHANGED <<loading, hidden, pollTimer, followUp, status>>

(* ... txStart and txStop wait for 600 ms first.                            *)
Transmitted ==
  /\ Answered
  /\ since' = {}
  /\ followUp' = TRUE
  /\ UNCHANGED <<server, loading, hidden, pollTimer, status>>

FollowUp ==
  /\ followUp
  /\ followUp' = FALSE
  /\ refresh(TRUE)
  /\ UNCHANGED <<loading, hidden, pollTimer, posting>>

(* The answer is an error, or none comes, whether the POST took effect or     *)
(* not: postJSON throws and its caller goes no further.                      *)
PostFails ==
  /\ posting # "none"
  /\ posting' = "none"
  /\ NoRefresh
  /\ UNCHANGED <<loading, hidden, pollTimer, followUp>>

-----------------------------------------------------------------------------
Server ==
  /\ Change \/ Age \/ \E t \in Thread : Answer(t)
  /\ UNCHANGED <<page, history>>

Browser ==
  \/ LoadConfig \/ LoadConfigFails \/ Poll \/ FollowUp
  \/ \E t \in Thread : Receive(t) \/ Lose(t)

User == Click \/ Hide \/ Show \/ postJSON

Reply == TakesEffect \/ Saved \/ Transmitted \/ PostFails

PageNext == Server \/ Browser \/ User \/ Reply

(* A timer that is set runs out, a request is answered or fails, and they do  *)
(* not fail for ever.                                                      *)
PageSpec ==
  /\ PageInit /\ [][PageNext]_vars
  /\ WF_vars(Poll)
  /\ WF_vars(Age /\ UNCHANGED <<page, history>>)
  /\ \A t \in Thread : WF_vars(Receive(t) \/ Lose(t))
  /\ SF_vars(\E t \in Thread : Answer(t) /\ UNCHANGED <<page, history>>)
  /\ SF_vars(\E t \in Thread : Receive(t))

-----------------------------------------------------------------------------
(***************************************************************************)
(* Once a page has asked for its first status it never stops: while it is     *)
(* visible the timer is set or a request is in flight that will set it again, *)
(* however requests fail, overtake each other, or the tab is hidden and shown *)
(* meanwhile (web/txtempus-web.py:849-873, 968).                           *)
(***************************************************************************)
PollingGoesOn == started /\ ~hidden => pollTimer \/ Flying # {}

(***************************************************************************)
(* A page that stays visible and has begun to ask ends up showing what there  *)
(* is, whoever made the last change and whatever late answer it has shown     *)
(* before (web/txtempus-web.py:849-873).                                   *)
(***************************************************************************)
PageCatchesUp == <>[]~hidden /\ <>started => <>[](status = changes)

(***************************************************************************)
(* After an action of its own the page shows it with the first answer to a    *)
(* request it made afterwards, and goes on to until it polls or an answer to  *)
(* an earlier request comes late (web/txtempus-web.py:907-921).            *)
(***************************************************************************)
ActionIsShown == live => status >= due

=============================================================================
