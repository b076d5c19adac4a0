------------------------------- MODULE Units -------------------------------
(***************************************************************************)
(* The appliance around the transmitter: the control script                 *)
(* (deploy/txtempus-control.sh) as the web server and the shell call it, the  *)
(* units it drives (deploy/systemd/), and the scheduler script as far as it    *)
(* decides when a transmitter runs.                                         *)
(*                                                                         *)
(* systemd is external and does what its manual says: starting a unit that   *)
(* runs does nothing; a start while the unit is being stopped replaces the   *)
(* stop and is carried out afterwards; starting the timer starts what it      *)
(* Requires=, stopping that by name stops the timer; stopping sends SIGTERM    *)
(* to every process of a unit and, 90 seconds later, SIGKILL to the rest.    *)
(*                                                                         *)
(* Simplified: update_conf is one step here (ConfFile has its steps), and so  *)
(* is the transmitter's use of the clock generator: it sets the carrier when  *)
(* it starts and silences it when it exits.  That a transmitter with a signal *)
(* exits through StopClock, whatever it was doing, is what Txtempus_proofs     *)
(* shows of it (StopsInTime, NothingLeftOnAir); before its handler is          *)
(* installed the signal ends it, and the generator has not been touched.     *)
(***************************************************************************)
EXTENDS Naturals

CONSTANTS
  Caller,         \* requests of the web server, and shells
  Station,
  Time,           \* times HH:MM
  Invalid,        \* an entry that is no time
  Times,          \* values of SCHEDULE_TIMES, each a set of entries
  Default,        \* 01:59,02:59,03:59
  None

ONESHOT_UNIT == "txtempus-oneshot.service"
SCHED_UNIT   == "txtempus-scheduler.service"
Service      == {ONESHOT_UNIT, SCHED_UNIT}

ASSUME UnitsAssumption ==
  /\ None \notin Station /\ Invalid \notin Time
  /\ Times \subseteq SUBSET (Time \cup {Invalid})
  /\ Default \in SUBSET Time \ {{}}
  /\ \A times \in SUBSET Time : times # None

VARIABLES
  conf,           \* STATION, SCHEDULE_TIMES, SCHEDULE_ENABLED of the configuration
  env,            \* STATION in /run/txtempus/oneshot.env
  dropin,         \* the times in the timer's drop-in, None while it is empty
  loaded,         \* the times systemd has read
  linked,         \* the timer is enabled (UnitFileState)
  timer,          \* the timer is active
  unit,           \* unit[s] : the state of a service
  queued,         \* the services with a start job that waits for the stop
  signalled,      \* the services whose transmitter has got SIGTERM
  script,         \* where the scheduler script is, and the station it will send
  tx,             \* tx[s] : the station of the service's txtempus process
  carrier,        \* the clock generator is on
  at,             \* at[c] : where a caller is
  asked,          \* asked[c] : the station it starts
  sourced,        \* sourced[c] : the settings its control script has read
  alone,          \* history: the callers whose command no other has met
  reached         \* history: the stops whose signal has got to every transmitter

systemd == <<loaded, linked, timer, unit, queued, signalled>>
radio   == <<tx, carrier, script>>
files   == <<conf, env, dropin>>
callers == <<at, asked, sourced>>
history == <<alone, reached>>
vars    == <<files, systemd, radio, callers, history>>

Setting  == [station : Station, times : Times, enabled : BOOLEAN]
Schedule == [times : SUBSET (Time \cup {Invalid}), enabled : BOOLEAN]

(* "${SCHEDULE_TIMES:-01:59,02:59,03:59}": the script takes a value that is    *)
(* empty for one that is missing.                                          *)
Effective(times) == IF times = {} THEN Default ELSE times

(* The timer has the default times of its own; a drop-in with a first line    *)
(* resets them.                                                            *)
Calendar(file) == IF file = None THEN Default ELSE file

NoScript == [at |-> "none", station |-> None]

Init ==
  /\ conf \in Setting /\ Invalid \notin conf.times
  /\ env = None
  /\ dropin = Effective(conf.times)
  /\ loaded = Effective(conf.times)
  /\ linked = conf.enabled
  /\ timer = conf.enabled
  /\ unit = [s \in Service |-> "inactive"]
  /\ queued = {}
  /\ signalled = {}
  /\ script = NoScript
  /\ tx = [s \in Service |-> None]
  /\ carrier = FALSE
  /\ at = [c \in Caller |-> "idle"]
  /\ asked = [c \in Caller |-> None]
  /\ sourced = [c \in Caller |-> None]
  /\ alone = {} /\ reached = {}

Goto(c, step) == at' = [at EXCEPT ![c] = step]

(* The steps of three commands.  Each is disturbed by another of its kind     *)
(* that begins meanwhile, a stop by whatever starts something.              *)
Starting == {"start", "starting", "started"}
Stopping == {"stopping", "stopped"}
Saving   == {"source", "dropin", "write", "reload", "timer"}

Undisturbed(steps) == {c \in alone : at[c] \notin steps}
Disturb(steps)     == alone' = Undisturbed(steps) /\ UNCHANGED reached

Begin(c, steps) ==
  /\ alone' = (Undisturbed(steps) \ {c}) \cup
              {d \in {c} : \A e \in Caller : at[e] \notin steps}
  /\ UNCHANGED reached

Leave(c) == alone' = alone \ {c} /\ reached' = reached \ {c}

-----------------------------------------------------------------------------
(* The units.                                                              *)

Transmit(s, station) ==
  /\ tx' = [tx EXCEPT ![s] = station]
  /\ carrier' = TRUE

(* Mutant of OneshotStation: the environment files in the other order.       *)
OneshotStationConf == conf.station

(* The environment files of the one-shot unit: the later one wins.          *)
OneshotStation == IF env = None THEN conf.station ELSE env

StartOneshot ==
  /\ unit' = [unit EXCEPT ![ONESHOT_UNIT] = "started"]
  /\ Transmit(ONESHOT_UNIT, OneshotStation)

StartScheduler ==
  /\ unit' = [unit EXCEPT ![SCHED_UNIT] = "started"]
  /\ script' = [at |-> "preparing", station |-> conf.station]

(* A start job for the scheduler, whoever asks for it.                      *)
ScheduleJob ==
  \/ /\ unit[SCHED_UNIT] = "inactive"
     /\ StartScheduler
     /\ UNCHANGED <<queued, signalled, tx, carrier>>
  \/ /\ unit[SCHED_UNIT] = "started"
     /\ UNCHANGED <<unit, queued, signalled, tx, carrier, script>>
  \/ /\ unit[SCHED_UNIT] = "deactivating"
     /\ queued' = queued \cup {SCHED_UNIT}
     /\ UNCHANGED <<unit, signalled, tx, carrier, script>>

TimerElapses ==
  /\ timer /\ loaded # {}
  /\ ScheduleJob
  /\ UNCHANGED <<files, loaded, linked, timer, callers, history>>

(* The one-shot unit's txtempus ends, after its run time or a signal: it     *)
(* silences the generator, and with it the unit is over.                    *)
OneshotEnds ==
  /\ unit[ONESHOT_UNIT] # "inactive"
  /\ signalled' = signalled \ {ONESHOT_UNIT}
  /\ queued' = queued \ {ONESHOT_UNIT}
  /\ IF ONESHOT_UNIT \in queued
     THEN StartOneshot
     ELSE /\ unit' = [unit EXCEPT ![ONESHOT_UNIT] = "inactive"]
          /\ tx' = [tx EXCEPT ![ONESHOT_UNIT] = None]
          /\ carrier' = FALSE
  /\ UNCHANGED <<files, loaded, linked, timer, callers, script, history>>

(* run_txtempus.  The trap on SIGTERM runs cleanup and returns: a script     *)
(* that was still setting the clock goes on and comes here all the same.     *)
ScriptTransmits ==
  /\ script.at = "preparing"
  /\ script' = [at |-> "transmitting", station |-> None]
  /\ Transmit(SCHED_UNIT, script.station)
  /\ UNCHANGED <<files, systemd, callers, history>>

ScheduledTxEnds ==
  /\ tx[SCHED_UNIT] # None
  /\ tx' = [tx EXCEPT ![SCHED_UNIT] = None]
  /\ carrier' = FALSE
  /\ signalled' = signalled \ {SCHED_UNIT}
  /\ UNCHANGED <<files, loaded, linked, timer, unit, queued, script, callers, history>>

(* A minute after its time txtempus should be gone: the script sends it       *)
(* SIGTERM ...                                                             *)
ScriptTimesOut ==
  /\ script.at = "transmitting"
  /\ tx[SCHED_UNIT] # None
  /\ script' = [script EXCEPT !.at = "terminating"]
  /\ UNCHANGED <<files, systemd, tx, carrier, callers, history>>

(* ... and two seconds later, whatever has become of it, SIGKILL.  Who is     *)
(* killed leaves the generator running.                                    *)
ScriptKills ==
  /\ script.at = "terminating"
  /\ script' = [script EXCEPT !.at = "waiting"]
  /\ tx' = [tx EXCEPT ![SCHED_UNIT] = None]
  /\ signalled' = signalled \ {SCHED_UNIT}
  /\ reached' = IF tx[SCHED_UNIT] # None THEN {} ELSE reached
  /\ UNCHANGED <<files, loaded, linked, timer, unit, queued, carrier, callers, alone>>

(* The script waits for the temperature monitor.                            *)
ScriptWaits ==
  /\ script.at = "transmitting"
  /\ tx[SCHED_UNIT] = None
  /\ script' = [script EXCEPT !.at = "waiting"]
  /\ UNCHANGED <<files, systemd, tx, carrier, callers, history>>

SchedulerIsOver ==
  /\ queued' = queued \ {SCHED_UNIT}
  /\ IF SCHED_UNIT \in queued
     THEN StartScheduler
     ELSE /\ unit' = [unit EXCEPT ![SCHED_UNIT] = "inactive"]
          /\ script' = NoScript
  /\ UNCHANGED <<files, loaded, linked, timer, callers, history>>

(* Mutant of SchedulerEnds: the script does not wait for txtempus.           *)
SchedulerEndsEarly ==
  /\ unit[SCHED_UNIT] # "inactive"
  /\ script.at # "preparing"
  /\ SchedulerIsOver
  /\ UNCHANGED <<signalled, tx, carrier>>

(* The script ends when the monitor does, when a check fails before it has   *)
(* transmitted, or when the signal makes a command fail.                    *)
SchedulerEnds ==
  /\ unit[SCHED_UNIT] # "inactive"
  /\ script.at \in {"transmitting", "terminating"} =>
       unit[SCHED_UNIT] = "deactivating"
  /\ tx[SCHED_UNIT] = None
  /\ SchedulerIsOver
  /\ UNCHANGED <<signalled, tx, carrier>>

(* A transmitter that was started after the signal has not got it: when the  *)
(* time for stopping is over it is killed and leaves the generator running.   *)
StopTimesOut ==
  /\ unit[SCHED_UNIT] = "deactivating"
  /\ tx[SCHED_UNIT] # None
  /\ SCHED_UNIT \notin signalled
  /\ tx' = [tx EXCEPT ![SCHED_UNIT] = None]
  /\ SchedulerIsOver
  /\ UNCHANGED <<signalled, carrier>>

-----------------------------------------------------------------------------
(* txtempus-control.sh start STATION: the environment file is written, then  *)
(* the unit is started.                                                     *)
WriteEnv(c, station) ==
  /\ at[c] = "idle"
  /\ env' = station
  /\ asked' = [asked EXCEPT ![c] = station]
  /\ Goto(c, "start")
  /\ Begin(c, Starting)
  /\ UNCHANGED <<conf, dropin, systemd, radio, sourced>>

(* Starting a unit that runs does nothing: its station stays.               *)
SystemctlStart(c) ==
  /\ at[c] = "start"
  /\ \/ /\ unit[ONESHOT_UNIT] = "inactive"
        /\ StartOneshot
        /\ Goto(c, "started")
        /\ Disturb(Stopping)
        /\ UNCHANGED queued
     \/ /\ unit[ONESHOT_UNIT] = "started"
        /\ Goto(c, "started")
        /\ alone' = Undisturbed(Stopping) \ {c}
        /\ UNCHANGED <<unit, queued, tx, carrier, reached>>
     \/ /\ unit[ONESHOT_UNIT] = "deactivating"
        /\ queued' = queued \cup {ONESHOT_UNIT}
        /\ Goto(c, "starting")
        /\ Disturb(Stopping)
        /\ UNCHANGED <<unit, tx, carrier>>
  /\ UNCHANGED <<files, loaded, linked, timer, signalled, script, asked, sourced>>

Forget(c) == asked' = [asked EXCEPT ![c] = None]

(* The job has been carried out, or a stop has replaced it.                 *)
StartReturns(c) ==
  /\ at[c] = "starting"
  /\ ONESHOT_UNIT \notin queued
  /\ IF unit[ONESHOT_UNIT] = "started"
     THEN Goto(c, "started") /\ UNCHANGED <<asked, history>>
     ELSE Goto(c, "idle") /\ Forget(c) /\ Leave(c)
  /\ UNCHANGED <<files, systemd, radio, sourced>>

(* echo "started: ..." or echo "stopped", and the script exits.             *)
Echo(c) ==
  /\ at[c] \in {"started", "stopped"}
  /\ Goto(c, "idle")
  /\ Forget(c)
  /\ Leave(c)
  /\ UNCHANGED <<files, systemd, radio, sourced>>

(* txtempus-control.sh stop: both services are stopped by name, and with the *)
(* scheduler the timer that requires it.  A transmitter that runs gets the   *)
(* signal unless its unit was already being stopped.                        *)
Abandoned == carrier /\ \A s \in Service : tx[s] = None

Signal(services) ==
  signalled' = signalled \cup
    {s \in services : unit[s] = "started" /\ tx[s] # None}

StopUnits(services) ==
  unit' = [s \in Service |->
             IF s \in services /\ unit[s] = "started" THEN "deactivating" ELSE unit[s]]

(* Every transmitter there is, or that a preparing script would start, is     *)
(* reached by the signal.                                                  *)
AllSignalled ==
  /\ script.at # "preparing"
  /\ ~Abandoned
  /\ \A s \in Service : tx[s] # None => s \in signalled'

(* Mutant of SystemctlStop: only the one-shot unit is stopped, as web.md     *)
(* first planned.                                                           *)
SystemctlStopOneshot(c) ==
  /\ at[c] = "idle"
  /\ StopUnits({ONESHOT_UNIT})
  /\ Signal({ONESHOT_UNIT})
  /\ queued' = queued \ {ONESHOT_UNIT}
  /\ alone' = alone \cup {c} /\ reached' = reached \cup {c}
  /\ Goto(c, "stopping")
  /\ UNCHANGED <<files, loaded, linked, timer, radio, asked, sourced>>

SystemctlStop(c) ==
  /\ at[c] = "idle"
  /\ StopUnits(Service)
  /\ Signal(Service)
  /\ queued' = {}
  /\ timer' = FALSE
  /\ alone' = alone \cup {c}
  /\ reached' = reached \cup {d \in {c} : AllSignalled}
  /\ Goto(c, "stopping")
  /\ UNCHANGED <<files, loaded, linked, radio, asked, sourced>>

StopReturns(c) ==
  /\ at[c] = "stopping"
  /\ \A s \in Service : unit[s] = "deactivating" => s \in queued
  /\ Goto(c, "stopped")
  /\ UNCHANGED <<files, systemd, radio, asked, sourced, history>>

-----------------------------------------------------------------------------
(* The configuration is there to be edited by hand, too.                    *)
EditConf(times) ==
  /\ conf' = [conf EXCEPT !.times = times]
  /\ Disturb(Saving)
  /\ UNCHANGED <<env, dropin, systemd, radio, callers>>

(* POST /api/schedule: update_conf with valid times, or with none given the   *)
(* times that are there, then txtempus-control.sh apply-schedule.           *)
SaveSchedule(c, times, enabled) ==
  /\ at[c] = "idle"
  /\ Invalid \in times => times = conf.times
  /\ conf' = [conf EXCEPT !.times = times, !.enabled = enabled]
  /\ Goto(c, "source")
  /\ Begin(c, Saving)
  /\ UNCHANGED <<env, dropin, systemd, radio, asked, sourced>>

SourceConf(c) ==
  /\ at[c] = "source"
  /\ sourced' = [sourced EXCEPT ![c] =
                  [times |-> Effective(conf.times), enabled |-> conf.enabled]]
  /\ Goto(c, "dropin")
  /\ UNCHANGED <<files, systemd, radio, asked, history>>

(* The shell truncates the drop-in before the lines are written one by one:   *)
(* some of them may be all that others, or a power cut, find.               *)
Lines(c) == sourced[c].times \ {Invalid}

OpenDropin(c) ==
  /\ at[c] = "dropin"
  /\ dropin' \in {None} \cup SUBSET Lines(c)
  /\ Goto(c, "write")
  /\ UNCHANGED <<conf, env, systemd, radio, asked, sourced, history>>

(* The lines are written over what the file holds: of what another script    *)
(* has written to it since, the tail stays.                                *)
Overwrite(lines) ==
  \E tail \in SUBSET Calendar(dropin) :
    dropin' = lines \cup (IF dropin = None THEN {} ELSE tail)

Exit(c) ==
  /\ sourced' = [sourced EXCEPT ![c] = None]
  /\ Goto(c, "idle")

(* A time that is invalid ends the script where it stands: the lines before   *)
(* it are in the drop-in, and systemd is told nothing.                      *)
WriteDropin(c) ==
  /\ at[c] = "write"
  /\ IF Invalid \in sourced[c].times
     THEN /\ \E lines \in SUBSET Lines(c) : Overwrite(lines)
          /\ Exit(c)
          /\ Leave(c)
     ELSE /\ Overwrite(Lines(c))
          /\ Goto(c, "reload")
          /\ UNCHANGED <<sourced, history>>
  /\ UNCHANGED <<conf, env, systemd, radio, asked>>

(* Mutant of DaemonReload: the drop-in is written, systemd is not told.      *)
DaemonReloadForgotten(c) ==
  /\ at[c] = "reload"
  /\ Goto(c, "timer")
  /\ UNCHANGED <<files, systemd, radio, asked, sourced, history>>

DaemonReload(c) ==
  /\ at[c] = "reload"
  /\ loaded' = Calendar(dropin)
  /\ Goto(c, "timer")
  /\ UNCHANGED <<files, linked, timer, unit, queued, signalled, radio,
                 asked, sourced, history>>

(* systemctl enable, which reloads too, and restart or --now.  A timer         *)
(* without any time cannot be started.                                     *)
EnableTimer ==
  /\ linked' = TRUE
  /\ loaded' = Calendar(dropin)
  /\ IF loaded' = {}
     THEN UNCHANGED <<timer, unit, queued, signalled, radio>>
     ELSE timer' = TRUE /\ ScheduleJob

(* systemctl disable --now                                                 *)
DisableTimer ==
  /\ linked' = FALSE
  /\ loaded' = Calendar(dropin)
  /\ timer' = FALSE
  /\ UNCHANGED <<unit, queued, signalled, radio>>

SetTimer(on) ==
  /\ IF on THEN EnableTimer ELSE DisableTimer
  /\ UNCHANGED files

ApplyTimer(c) ==
  /\ at[c] = "timer"
  /\ SetTimer(sourced[c].enabled)
  /\ Exit(c)
  /\ alone' = (IF sourced[c].enabled THEN Undisturbed(Stopping) ELSE alone) \ {c}
  /\ UNCHANGED <<asked, reached>>

(* txtempus-control.sh schedule on|off                                      *)
ScheduleOnOff(c, on) ==
  /\ at[c] = "idle"
  /\ SetTimer(on)
  /\ alone' = IF on THEN Undisturbed(Stopping) ELSE alone
  /\ UNCHANGED <<callers, reached>>

(* POST /api/config                                                        *)
SaveStation(c, station) ==
  /\ at[c] = "idle"
  /\ conf' = [conf EXCEPT !.station = station]
  /\ UNCHANGED <<env, dropin, systemd, radio, callers, history>>

-----------------------------------------------------------------------------
(* transmitting_now of the web server.  The scheduler service is of           *)
(* Type=oneshot: while it runs it is "activating", not "active".            *)
IsActive(s) == s = ONESHOT_UNIT /\ unit[s] = "started"

(* pgrep -x txtempus finds every process of that name, a preview's, too.     *)
transmitting_now ==
  \/ \E s \in Service : IsActive(s)
  \/ \E s \in Service : tx[s] # None
  \/ \E c \in Caller : at[c] = "previewing"

(* do_preview: the test, and the dry run that it permits.                   *)
PermitPreview(c) ==
  /\ at[c] = "idle"
  /\ ~transmitting_now
  /\ Goto(c, "permitted")
  /\ UNCHANGED <<files, systemd, radio, asked, sourced, history>>

Preview(c) ==
  /\ \/ at[c] = "permitted" /\ Goto(c, "previewing")
     \/ at[c] = "previewing" /\ Goto(c, "idle")
  /\ UNCHANGED <<files, systemd, radio, asked, sourced, history>>

-----------------------------------------------------------------------------
(* /run is empty, the generator is off, an enabled timer is started, and     *)
(* with it what it requires.                                               *)
Reboot ==
  /\ env' = None
  /\ loaded' = Calendar(dropin)
  /\ timer' = (linked /\ loaded' # {})
  /\ unit' = [s \in Service |->
                IF timer' /\ s = SCHED_UNIT THEN "started" ELSE "inactive"]
  /\ script' = IF timer' THEN [at |-> "preparing", station |-> conf.station]
               ELSE NoScript
  /\ queued' = {}
  /\ signalled' = {}
  /\ tx' = [s \in Service |-> None]
  /\ carrier' = FALSE
  /\ at' = [c \in Caller |-> "idle"]
  /\ asked' = [c \in Caller |-> None]
  /\ sourced' = [c \in Caller |-> None]
  /\ alone' = {} /\ reached' = {}
  /\ UNCHANGED <<conf, dropin, linked>>

Control(c) ==
  \/ SystemctlStart(c) \/ StartReturns(c) \/ Echo(c) \/ StopReturns(c)
  \/ SourceConf(c) \/ OpenDropin(c) \/ WriteDropin(c) \/ DaemonReload(c)
  \/ ApplyTimer(c) \/ Preview(c)

Command(c) ==
  \/ SystemctlStop(c) \/ PermitPreview(c)
  \/ \E station \in Station : WriteEnv(c, station) \/ SaveStation(c, station)
  \/ \E on \in BOOLEAN : ScheduleOnOff(c, on)
  \/ \E times \in Times, on \in BOOLEAN : SaveSchedule(c, times, on)

Systemd ==
  \/ TimerElapses \/ OneshotEnds \/ ScriptTransmits \/ ScheduledTxEnds
  \/ ScriptTimesOut \/ ScriptKills \/ ScriptWaits \/ SchedulerEnds
  \/ StopTimesOut

Next ==
  \/ Reboot \/ Systemd
  \/ \E times \in Times : EditConf(times)
  \/ \E c \in Caller : Command(c) \/ Control(c)

Spec == Init /\ [][Next]_vars

-----------------------------------------------------------------------------
(***************************************************************************)
(* The type of the variables; and a unit is inactive exactly when none of    *)
(* its processes is left, a start waits only where a stop is under way, and   *)
(* only a transmitter that runs under a stop has the signal                  *)
(* (deploy/systemd/txtempus-oneshot.service, txtempus-scheduler.service).    *)
(***************************************************************************)
UnitsTypeOK ==
  /\ conf \in Setting
  /\ env \in Station \cup {None}
  /\ dropin \in {None} \cup SUBSET Time /\ loaded \in SUBSET Time
  /\ linked \in BOOLEAN /\ timer \in BOOLEAN
  /\ unit \in [Service -> {"inactive", "started", "deactivating"}]
  /\ script.at \in {"none", "preparing", "transmitting", "terminating", "waiting"}
  /\ script.station \in Station \cup {None}
  /\ tx \in [Service -> Station \cup {None}]
  /\ carrier \in BOOLEAN
  /\ at \in [Caller -> Starting \cup Stopping \cup Saving \cup
                       {"idle", "permitted", "previewing"}]
  /\ asked \in [Caller -> Station \cup {None}]
  /\ sourced \in [Caller -> {None} \cup Schedule]
  /\ alone \subseteq Caller /\ reached \subseteq Caller
  /\ unit[ONESHOT_UNIT] = "inactive" <=> tx[ONESHOT_UNIT] = None
  /\ unit[SCHED_UNIT] = "inactive" <=> script.at = "none"
  /\ tx[SCHED_UNIT] # None => script.at \in {"transmitting", "terminating"}
  /\ queued \cup signalled \subseteq {s \in Service : unit[s] = "deactivating"}
  /\ \A s \in signalled : tx[s] # None

(***************************************************************************)
(* When txtempus-control.sh start says "started", what is on the air for it,  *)
(* unless it is over already, is the station that was asked for: neither the  *)
(* configured one nor that of an earlier start, also where the start had to    *)
(* wait for a stop.  Of two starts at once, which share the environment file,  *)
(* and of a start that finds a transmission running, which leaves it alone,    *)
(* nothing is said (deploy/txtempus-control.sh:62-70,                        *)
(* deploy/systemd/txtempus-oneshot.service:13-15).                         *)
(***************************************************************************)
StartedStationIsOnAir ==
  \A c \in Caller : at[c] = "started" /\ c \in alone =>
    tx[ONESHOT_UNIT] \in {asked[c], None}

(***************************************************************************)
(* When txtempus-control.sh stop says "stopped", no transmitter runs, there   *)
(* is no carrier, and the page does not say "transmitting" unless it is       *)
(* deceived by a preview, whatever ran before in whichever of the two units:  *)
(* if every transmitter could be reached by the signal and nobody else has     *)
(* started something since.  The timer has not: it was stopped too            *)
(* (deploy/txtempus-control.sh:73-77, web/txtempus-web.py:243-248).         *)
(***************************************************************************)
Quiet == ~carrier /\ \A s \in Service : tx[s] = None

StopSilencesTransmitters ==
  \A c \in alone \cap reached : at[c] = "stopped" =>
    Quiet /\ (transmitting_now => \E d \in Caller : at[d] = "previewing")

(***************************************************************************)
(* The timer that apply-schedule is about to start runs at the times that     *)
(* the configuration has, if it has any and nobody else saves or edits it      *)
(* meanwhile: the drop-in was written from it and systemd has read it, also    *)
(* after a power cut, a time that was invalid or a reload between two steps of  *)
(* an earlier save (deploy/txtempus-control.sh:79-109).                     *)
(***************************************************************************)
AppliedScheduleIsSaved ==
  \A c \in alone : at[c] = "timer" /\ conf.times # {} =>
    loaded = conf.times /\ sourced[c].enabled = conf.enabled

(***************************************************************************)
(* "Empty = no times." (deploy/txtempus.conf:31): when apply-schedule is about *)
(* to start the timer of an enabled schedule without times, the timer has     *)
(* none.                                                                   *)
(***************************************************************************)
EmptyMeansNoTimes ==
  \A c \in alone : at[c] = "timer" /\ conf.enabled /\ conf.times = {} => loaded = {}

(***************************************************************************)
(* "stop: stop any transmit" (deploy/txtempus-control.sh:12): when it says     *)
(* "stopped" and nobody else has started anything since, there is silence.   *)
(***************************************************************************)
StopSilences == \A c \in alone : at[c] = "stopped" => Quiet

=============================================================================
