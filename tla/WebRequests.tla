---------------------------- MODULE WebRequests ----------------------------
(***************************************************************************)
(* The POST handlers of the web server and GET /api/config                  *)
(* (web/txtempus-web.py:138-173, 368-380, 400-461), each in a thread of its  *)
(* own, over the configuration file of ConfFile: what they make of a        *)
(* request's fields, when they read the configuration and what they write.   *)
(* A start reads it up to three times, a save reads it again for its answer;  *)
(* between any two reads another request may be saved.                      *)
(*                                                                         *)
(* A field is a text: Python's int() and json make the same number of 200    *)
(* and "200".  The PIN, the JSON and the status are checked and sent          *)
(* around this; a dry run changes nothing; a stop does not look at the        *)
(* configuration.                                                          *)
(***************************************************************************)
EXTENDS ConfFile, FiniteSetsExt

CONSTANTS
  STATIONS,           \* the stations the server knows
  int,                \* int[text] : the number of a text that is one
  split,              \* split[text] : text.split(",")
  HHMM,               \* the texts that match TIME_RE
  Minutes(_),         \* Minutes(n) : the text of a number, str(n)
  ConfigBody,         \* bodies of POST /api/config
  ScheduleBody,       \* bodies of POST /api/schedule
  StartBody,          \* bodies of POST /api/transmit/start
  MaxMissed           \* bound: updates while a request is served

VARIABLES
  task,           \* task[t] : the request a thread serves, and how far it is
  offered         \* history: the settings saved since the request came, or
                  \* since its own update

web == <<task, offered>>

NoTask == [do |-> "nothing"]

Task(do, body, step) == [do |-> do, body |-> body, step |-> step, found |-> NoUpdate]

Has(b, field) == field \in DOMAIN b

-----------------------------------------------------------------------------
(* Validation.                                                             *)
valid_station(s) == s \in STATIONS

valid_zone(v) == v \in DOMAIN int

clamp_minutes(v, default) ==
  IF v \in DOMAIN int THEN Minutes(Max({1, Min({120, int[v]})})) ELSE default

(* clean_times: the times that are not blank, unless one of them is none.   *)
Times(v)  == SelectSeq(split[v], LAMBDA t : t # "")
AllTimes(v) == ToSet(Times(v)) \subseteq HHMM
Join(times) ==
  IF times = <<>> THEN "" ELSE CHOOSE v \in DOMAIN split : split[v] = times

(* What read_conf().get(key, default) makes of the settings in a file.      *)
GetConf(settings, k, default) == IF k \in DOMAIN settings THEN settings[k] ELSE default

(* Digits alone, unlike a number with a plus sign or blanks around it.      *)
IsDigits(v) == v \in DOMAIN int /\ v = Minutes(int[v])

(* The texts that lower() makes "true" of.                                  *)
LowersToTrue == {"true", "True", "TRUE"}

(* get_config: the settings as the page shows them.                        *)
get_config(settings) ==
  [station   |-> GetConf(settings, "STATION", "DCF77"),
   duration  |-> clamp_minutes(GetConf(settings, "RUN_DURATION", ""), Minutes(10)),
   zone      |-> LET z == GetConf(settings, "ZONE_OFFSET", "0")
                 IN  IF IsDigits(z) THEN z ELSE Minutes(0),
   times     |-> LET v == GetConf(settings, "SCHEDULE_TIMES", "")
                 IN  IF AllTimes(v) THEN Times(v) ELSE <<>>,
   enabled   |-> GetConf(settings, "SCHEDULE_ENABLED", "true") \in LowersToTrue]

(* What deploy/txtempus-control.sh makes of the same file: ${KEY:-default}.  *)
ShellValue(settings, k, default) ==
  LET v == GetConf(settings, k, "") IN IF v = "" THEN default ELSE v

ShellConf(settings) ==
  [station   |-> ShellValue(settings, "STATION", "DCF77"),
   duration  |-> ShellValue(settings, "RUN_DURATION", "10"),
   zone      |-> ShellValue(settings, "ZONE_OFFSET", "0"),
   times     |-> Times(ShellValue(settings, "SCHEDULE_TIMES", "01:59,02:59,03:59")),
   enabled   |-> ShellValue(settings, "SCHEDULE_ENABLED", "true") = "true"]

-----------------------------------------------------------------------------
(* The fields of a body that name a setting, as they are saved.             *)
ConfigAccepted(b) ==
  /\ b # NoUpdate
  /\ Has(b, "station") => valid_station(b.station)
  /\ Has(b, "zone_offset") => valid_zone(b.zone_offset)

ConfigKey == [station |-> "STATION", run_duration |-> "RUN_DURATION",
              zone_offset |-> "ZONE_OFFSET"]

(* Mutant of ConfigUpdates: the duration is saved as it was sent.           *)
ConfigUpdatesUnclamped(b) ==
  [k \in {ConfigKey[field] : field \in DOMAIN b} |->
     CASE k = "STATION"      -> b.station
       [] k = "RUN_DURATION" -> b.run_duration
       [] k = "ZONE_OFFSET"  -> Minutes(int[b.zone_offset])]

ConfigUpdates(b) ==
  [k \in {ConfigKey[field] : field \in DOMAIN b} |->
     CASE k = "STATION"      -> b.station
       [] k = "RUN_DURATION" -> clamp_minutes(b.run_duration, Minutes(10))
       [] k = "ZONE_OFFSET"  -> Minutes(int[b.zone_offset])]

ScheduleAccepted(b) == Has(b, "times") => AllTimes(b.times)

ScheduleKey == [times |-> "SCHEDULE_TIMES", enabled |-> "SCHEDULE_ENABLED",
                duration |-> "RUN_DURATION"]

ScheduleUpdates(b) ==
  [k \in {ScheduleKey[field] : field \in DOMAIN b} |->
     CASE k = "SCHEDULE_TIMES"   -> Join(Times(b.times))
       [] k = "SCHEDULE_ENABLED" -> b.enabled
       [] k = "RUN_DURATION"     -> clamp_minutes(b.duration, Minutes(10))]

(* The updates that come of the bodies are among those of ConfFile.         *)
ASSUME WebAssumption ==
  /\ \A b \in ConfigBody : ConfigAccepted(b) => ConfigUpdates(b) \in Request
  /\ \A b \in ScheduleBody \ {NoUpdate} :
       ScheduleAccepted(b) => ScheduleUpdates(b) \in Request

(* The values that the page and the scripts take alike; all that the handlers  *)
(* save are.  read_conf has no defaults for an empty one, takes no zone with a *)
(* plus sign, and does not mind capitals.                                  *)
Plain(k, v) ==
  /\ k \in {"STATION", "RUN_DURATION", "SCHEDULE_ENABLED"} => v # ""
  /\ k = "RUN_DURATION" => v = clamp_minutes(v, "")
  /\ k = "ZONE_OFFSET" => IsDigits(v)
  /\ k = "SCHEDULE_TIMES" => AllTimes(v)
  /\ k = "SCHEDULE_ENABLED" => (v \in LowersToTrue => v = "true")

(* A value that an editor has put into the installed file, as none is saved.  *)
ByHand(lines, k, v) ==
  /\ ~Plain(k, v)
  /\ \E i \in 1 .. Len(lines) :
       IsSetting(lines[i]) /\ lines[i].key = k /\ lines[i].value = v

(* str() and int(), join() and split() undo each other; no station, number or  *)
(* time is the empty text; and a body enables a schedule or does not.        *)
ASSUME TextAssumption ==
  /\ Minutes(0) = "0" /\ Minutes(10) = "10"
  /\ \A n \in {0, 1, 10, 120} \cup {int[v] : v \in DOMAIN int} :
       n \in Int /\ Minutes(n) \in DOMAIN int /\ int[Minutes(n)] = n
  /\ "" \notin STATIONS \cup DOMAIN int
  /\ Times("") = <<>>
  /\ \A v \in DOMAIN split : Times(Join(Times(v))) = Times(v)
  /\ \A b \in ConfigBody : DOMAIN b \subseteq DOMAIN ConfigKey
  /\ \A b \in ScheduleBody :
       /\ DOMAIN b \subseteq DOMAIN ScheduleKey
       /\ Has(b, "times") => b.times \in DOMAIN split
       /\ Has(b, "enabled") => b.enabled \in {"true", "false"}

-----------------------------------------------------------------------------
WebInit ==
  /\ Init
  /\ task = [t \in Thread |-> NoTask]
  /\ offered = [t \in Thread |-> {}]

Idle(t) == task[t] = NoTask

Serving(t, do, step) == task[t].do \in do /\ task[t].step = step

Goto(t, step) == task' = [task EXCEPT ![t].step = step]

Refused(t) == task' = [task EXCEPT ![t] = Task("error", NoUpdate, "refused")]

Find(t, found, step) ==
  task' = [task EXCEPT ![t].step = step, ![t].found = found]

(* A request that has been answered, or whose thread has died.              *)
Leave(t) ==
  /\ task' = [task EXCEPT ![t] = NoTask]
  /\ offered' = [offered EXCEPT ![t] = {}]

Begin(t, do, body, step) ==
  /\ Idle(t)
  /\ overlaps < MaxOverlaps
  /\ task' = [task EXCEPT ![t] = Task(do, body, step)]
  /\ offered' = [offered EXCEPT ![t] = {saved}]

(* do_save_config and do_save_schedule: a body with a bad field is refused   *)
(* before anything is written; the body is not looked at after that.       *)
Refuse(t) == Begin(t, "error", NoUpdate, "refused") /\ UNCHANGED vars

Save(t, do, updated) ==
  /\ \A s \in Thread : Cardinality(offered[s]) <= MaxMissed
  /\ Begin(t, do, NoUpdate, "save")
  /\ Read(t, updated)

PostConfig(t, b) ==
  IF ConfigAccepted(b)
  THEN Save(t, "config", ConfigUpdates(b))
  ELSE Refuse(t)

PostSchedule(t, b) ==
  CASE ~ScheduleAccepted(b) -> Refuse(t)
    [] b = NoUpdate -> Begin(t, "schedule", NoUpdate, "apply") /\ UNCHANGED vars
    [] OTHER -> Save(t, "schedule", ScheduleUpdates(b))

Update(t) ==
  /\ Open(t) \/ Write(t)
  /\ UNCHANGED web

(* Mutant of Saved: the answer's configuration is read before the rename.    *)
SavedReadEarly(t) ==
  /\ Replace(t)
  /\ Find(t, get_config(Settings(Conf)), "answer")
  /\ offered' = [s \in Thread |-> IF s = t THEN {saved'}
                                  ELSE IF Idle(s) THEN {}
                                  ELSE offered[s] \cup {saved'}]

Saved(t) ==
  /\ Replace(t)
  /\ Goto(t, IF task[t].do = "schedule" THEN "apply" ELSE "show")
  /\ offered' = [s \in Thread |-> IF s = t THEN {saved'}
                                  ELSE IF Idle(s) THEN {}
                                  ELSE offered[s] \cup {saved'}]

(* os.replace raises in the handler: its thread ends, nothing is answered.   *)
SaveFails(t) == ReplaceFails(t) /\ Leave(t)

(* control("apply-schedule"); on an error the answer has no configuration.   *)
Apply(t) ==
  /\ Serving(t, {"schedule"}, "apply")
  /\ Goto(t, "show") \/ Refused(t)
  /\ UNCHANGED <<vars, offered>>

(* GET /api/config, and the end of a save: get_config for the answer.       *)
GetConfig(t) == Begin(t, "get", NoUpdate, "show") /\ UNCHANGED vars

Show(t) ==
  /\ Serving(t, {"get", "config", "schedule"}, "show")
  /\ Find(t, get_config(Settings(Conf)), "answer")
  /\ UNCHANGED <<vars, offered>>

-----------------------------------------------------------------------------
(* do_transmit_start: the station of the body, or the configured one; then    *)
(* the minutes, whose default is read in any case; then the zone.           *)
PostStart(t, b) == Begin(t, "start", b, "station") /\ UNCHANGED vars

StartStation(t) ==
  /\ Serving(t, {"start"}, "station")
  /\ LET b == task[t].body
         s == IF Has(b, "station") THEN b.station
              ELSE GetConf(Settings(Conf), "STATION", "DCF77")
     IN  IF valid_station(s) THEN Find(t, [station |-> s], "minutes")
         ELSE Refused(t)
  /\ UNCHANGED <<vars, offered>>

StartMinutes(t) ==
  /\ Serving(t, {"start"}, "minutes")
  /\ LET b == task[t].body
         configured == clamp_minutes(GetConf(Settings(Conf), "RUN_DURATION", ""),
                                     Minutes(10))
         minutes == IF Has(b, "minutes") THEN clamp_minutes(b.minutes, configured)
                    ELSE configured
     IN  Find(t, [station |-> task[t].found.station, duration |-> minutes], "zone")
  /\ UNCHANGED <<vars, offered>>

StartZone(t) ==
  /\ Serving(t, {"start"}, "zone")
  /\ LET b == task[t].body
         z == IF Has(b, "zone") THEN b.zone
              ELSE GetConf(Settings(Conf), "ZONE_OFFSET", "0")
     IN  IF valid_zone(z)
         THEN Find(t, [station  |-> task[t].found.station,
                       duration |-> task[t].found.duration,
                       zone     |-> Minutes(int[z])], "control")
         ELSE Refused(t)
  /\ UNCHANGED <<vars, offered>>

Start(t) == StartStation(t) \/ StartMinutes(t) \/ StartZone(t)

(* The answer is sent, or the command has returned.                        *)
Answer(t) ==
  /\ ~Idle(t) /\ task[t].step \in {"answer", "control", "refused"}
  /\ Leave(t)
  /\ UNCHANGED vars

WebRestart ==
  /\ \E t \in Thread : ~Idle(t)
  /\ IF \E t \in Thread : at[t] # "idle" THEN Restart ELSE UNCHANGED vars
  /\ task' = [t \in Thread |-> NoTask]
  /\ offered' = [t \in Thread |-> {}]

Serve(t) ==
  \/ \E b \in ConfigBody : PostConfig(t, b)
  \/ \E b \in ScheduleBody : PostSchedule(t, b)
  \/ \E b \in StartBody : PostStart(t, b)
  \/ GetConfig(t)
  \/ Update(t) \/ Saved(t) \/ SaveFails(t)
  \/ Apply(t) \/ Show(t)
  \/ Start(t)
  \/ Answer(t)

WebNext == WebRestart \/ \E t \in Thread : Serve(t)

WebSpec == WebInit /\ [][WebNext]_<<vars, web>>

-----------------------------------------------------------------------------
(***************************************************************************)
(* A thread is in update_conf exactly while its request is being saved, and   *)
(* the file and the threads have their types (web/txtempus-web.py:427-461).  *)
(***************************************************************************)
WebTypeOK ==
  /\ ConfTypeOK
  /\ \A t \in Thread :
       /\ Idle(t) \/ task[t].do \in {"config", "schedule", "start", "get", "error"}
       /\ at[t] # "idle" <=> ~Idle(t) /\ task[t].step = "save"
       /\ offered[t] = {} <=> Idle(t)

(* The zone of a start that reads it in these settings.                     *)
StartsWithZone(settings) == Minutes(int[GetConf(settings, "ZONE_OFFSET", "0")])

(***************************************************************************)
(* As long as updates have come one after the other, a request sees only     *)
(* settings that were saved while it was served, wherever its reads fall      *)
(* among the steps of the updates: an answer shows one configuration, which   *)
(* for a save includes what it saved; a start is given the fields of its      *)
(* body and, for each it lacks, a setting that was the saved one at some time  *)
(* (web/txtempus-web.py:400-417, 442, 461).                                *)
(***************************************************************************)
SeesSavedSettings ==
  overlaps = 0 =>
    \A t \in Thread : ~Idle(t) =>
      /\ task[t].step = "answer" =>
           \E s \in offered[t] : task[t].found = get_config(s)
      /\ task[t].step = "control" =>
           LET b == task[t].body
               found == task[t].found
               shown == {get_config(s) : s \in offered[t]}
           IN  /\ found.station \in IF Has(b, "station") THEN {b.station}
                                    ELSE {c.station : c \in shown}
               /\ found.zone \in IF Has(b, "zone") THEN {Minutes(int[b.zone])}
                                 ELSE {StartsWithZone(s) : s \in offered[t]}
               /\ found.duration \in
                    IF Has(b, "minutes") /\ b.minutes \in DOMAIN int
                    THEN {clamp_minutes(b.minutes, "")}
                    ELSE {c.duration : c \in shown}

(* The setting that a field of the page shows.                              *)
FieldKey == [station |-> "STATION", duration |-> "RUN_DURATION",
             zone |-> "ZONE_OFFSET", times |-> "SCHEDULE_TIMES",
             enabled |-> "SCHEDULE_ENABLED"]

(***************************************************************************)
(* The page shows each setting as the scripts read it, although each side has *)
(* a parser and defaults of its own, after any requests, valid or not, and in  *)
(* a file that two updates at once have emptied or mixed, too.  There are two   *)
(* exceptions: times that are empty or missing, of which the page makes none   *)
(* and the scripts their default (see EmptyMeansNoTimes of Units), and a value  *)
(* that somebody has put into the installed file by hand in a form that the    *)
(* handlers never save (web/txtempus-web.py:368-380,                        *)
(* deploy/txtempus-control.sh:22-26, deploy/txtempus.conf:3).                *)
(***************************************************************************)
PageShowsWhatRuns ==
  LET settings == Settings(Conf)
  IN  \A field \in DOMAIN FieldKey :
        LET k == FieldKey[field]
        IN  \/ get_config(settings)[field] = ShellConf(settings)[field]
            \/ k = "SCHEDULE_TIMES" /\ GetConf(settings, k, "") = ""
            \/ k \in DOMAIN settings /\ ByHand(installed, k, settings[k])

=============================================================================
