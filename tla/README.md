# TLA+ specifications of txtempus

txtempus turns a Raspberry Pi into a transmitter that sets radio-controlled
clocks: a C++ program keys a long-wave carrier on a GPIO pin in step with the
wall clock, and around it a set of systemd units, shell scripts and a small web
server decide when it runs. This directory holds TLA+ models of that system,
the TLC configurations that check them and TLAPS proofs about them.

File names below are relative to the repository root (`src/rpi-control.cc`,
`deploy/...`, `web/...`).

## 1. Inventory

| Part | State it keeps | Operations | Talks to |
|---|---|---|---|
| Clock divider choice, `src/rpi-control.cc:109-142` | none | the loop over `kClockSources` | hardware control |
| Raspberry Pi hardware control, `src/rpi-control.cc`, behind `include/hardware-control.h` | the registers: clock control and divider, function select of GPIO 4 and 17, output latch of GPIO 17; BUSY belongs to the hardware | `Init`, `StartClock`, `StopClock`, `SetTxPower` | the main loop calls it; every process with `/dev/mem` shares the registers |
| Jetson hardware control, `include/jetson/` | PWM object, `isOn`, pins | the same calls | the main loop |
| Time signal sources, `src/*-source.cc` | the bits of one minute | `PrepareMinute`, `GetModulationForSecond` | the main loop calls them; libc breaks times down |
| Main loop, `src/txtempus.cc` | `minute_start`, `ttl`, second, index of the level, `target_wait`, `interrupted` | launch, sleep, key, handle a signal, stop | hardware control, sources, kernel clock, signals |
| Scheduler script, `deploy/txtempus-scheduler.sh` | PID files, last-run file, elapsed time | validate, sync the clock, run, monitor, clean up | starts and kills the transmitter; started by systemd |
| Control script, `deploy/txtempus-control.sh` | `oneshot.env`, timer drop-in | start, stop, apply-schedule, schedule on/off | systemd; called by the web server |
| systemd units, `deploy/systemd/` | active/activating/inactive per unit, next elapse | start, stop, timer elapse | scheduler script, transmitter |
| Configuration, `/etc/txtempus.conf` | keys and values | `read_conf`, `update_conf`, `source` in shell | web server, both scripts, oneshot unit |
| Web server requests, `web/txtempus-web.py:138-173, 368-461` | none of its own: it reads and edits the configuration | GET config/preview, POST start/stop/config/schedule | control script, configuration |
| Web server status, `web/txtempus-web.py:41-55, 179-352` | status cache | GET status, with and without `?fresh=1` | systemctl, `/proc`, configuration |
| Web page, `web/txtempus-web.py:712-973` | the status shown, the poll timer, whether the tab is hidden, requests in flight | polling, `refresh`, saves, start, stop, the announced time, `calcDrift` | web server |
| Watch presets, `web/watches.json` | none | a table shown | web page |
| Installation, `deploy/install.sh`, `uninstall.sh` | files and units on disk | install, migrate, uninstall | configuration, systemd |

What is hard here, and what makes each part correct:

* *Hardware control.* A call is a sequence of register accesses, some of them
  read-modify-write, on registers that a previous program left in any state and
  that a second process may write in between. The generator follows its control
  register only later. Correct means: the carrier that was asked for, from the
  return of `StartClock` to the call of `StopClock`; the level that was asked
  for when `SetTxPower` returns, and no third level on the way; nothing changed
  under a running generator; every call returns.
* *Main loop.* Sleeps on absolute times of a clock that NTP may step, and a
  signal may end any sleep or come between the test of `interrupted` and the
  sleep. Correct means: the level on the air is the scheduled one in every
  instant, also right after a start in the middle of a minute; a signal stops
  the process within a second; no carrier is left behind; `-r` is what it says;
  a dry run touches nothing.
* *Sources.* Bit fields, parity and carries over midnight, year, leap day and
  summer time. Correct means: an independent receiver, switched on at any
  second, finds the minute and decodes the right time.
* *Scheduler, control script, units, configuration.* Processes that share files,
  units and the one clock generator without locks; timeouts against late
  answers; a crash between two steps. Correct means: a start puts on the air what it
  was asked for, a stop stops, the timer has the times that were saved, no setting
  lost.
* *Web server.* Threads that share a status cache without a lock, and handlers
  that read the configuration several times while others rewrite it. Correct
  means: no answer older than the cache allows, a forced one live; every value a
  request sees was saved at some time while it was served; page and scripts make
  the same of the file (for times that are empty they do not, see `units_empty`).
* *Web page.* A chain of one-shot timers that a failed fetch or a hidden tab may
  break; answers that arrive in another order than they were asked for. Correct
  means: it keeps polling, it ends up showing what there is, it shows the effect
  of its own actions, and the time it announces is the one that is sent.

`PROJECT.json` lists under "hazards" the places in the code where each of these
bites and the properties that cover it.

## 2. Modules

### Hardware control

| Module | What it is |
|---|---|
| `ClockDivider` | the choice of clock source and divider in `StartClock`, exact in integers: frequencies in units of 500 Hz, doubles as quotients compared by cross multiplication |
| `RpiControl` | the registers and the calls on them, one action per register access, for any set of processes; the generator as two actions of its own |
| `HardwareControl` | what a driver of `include/hardware-control.h` may rely on: an oscillator that is tuned and stopped and a keying stage behind it; one visible step per effect |
| `SingleDriver` | `RpiControl` with one driver: the properties, the inductive invariant and the refinement mapping to `HardwareControl` |
| `JetsonControl` | the second platform: a PWM channel and an attenuation pin, driven by a program that may be killed and launched again at any step |
| `JetsonControl_proofs` | the theorems about the Jetson; those about `SingleDriver` are in `Txtempus_proofs`, those about the divider in `Broadcast_proofs` |

A variable of `RpiControl` is a register (`ctl`, `div`, `fsel4`, `fsel17`,
`latch17`), the hardware's BUSY flag (`busy`), or what a process is about to do:
`op` is the call, `pc` the next access, `held` the value of the last register
read, `freq` the argument of `StartClock`, `settled` what the last completed call
left. `StartClock` runs through

    kill  await  unmux  setdiv  setctl  enable  enabled  mux  muxed

`StopClock` through the first three of these, `SetTxPower(LOW)` through
`inp17 out17 drive17 clear17 mux muxed`, `SetTxPower(HIGH)` through
`inp17 mux muxed`, `SetTxPower(OFF)` through `unmux`. A `|=` is two accesses, a
read and a write of what was read; `&= ~7` is one, because what it writes into
the field does not depend on the value read there. A function select field is
the set of its bits, so `OUT_GPIO` and `ALT0_GPIO` are unions, as in the code.

In `JetsonControl` the calls are far shorter; what counts is the order of the two
pins, and that `isOn` and `pwm` are the program's while the channel is the
hardware's and runs on when the program is gone. JetsonGPIO is external: a PWM
that has been made is silent until it is started, and where `GPIO::setup` leaves
the attenuation pin is left open.

### Transmitter

| Module | What it is |
|---|---|
| `Txtempus` | `main()` per process, extending `RpiControl`: launch, `Init`, both loops, sleeps, signals, the wall clock |
| `Patterns` | what a pattern of levels is: when each begins, whether it fits a second |
| `TxProperties` | the properties of `main()` |
| `OnAir` | `Txtempus` with the real sources and a radio clock that samples the field ten times a second |
| `Txtempus_proofs` | the theorems about `SingleDriver`, those about `main()`, which rest on its invariant, and the one about `OnAir`, which rests on both and on `TimeCode_proofs` |

`tx[p].at` is where `main()` is; each action is the code between two places
where something else can happen: a sleep, a hardware call, a test of
`interrupted`. A hardware call is started by the action and runs in `pc[p]`;
`main()` goes on when `pc[p]` is idle again. `Sleep` and `WakeUp` are separate,
so a signal can come between the test of the flag and the sleep, and is then
not seen until the sleep is over. `Sigterm` before `signal()` is called kills;
in a sleep it ends the sleep; anywhere else it sets the flag. `Sigkill` is
possible everywhere.

`InitSucceeds` has a second outcome: `mmap_bcm_register` failed for the clock
registers and `GPIO::Init` returned true all the same. The next store faults
(`Crash`).

`OnAir` has one process (`Driver`), launched at one of the ticks in `LaunchTime` of a
machine in the time zone `ZoneOf(source)`. `Listen` is a tick of the clock with what the
antenna gives in it; every other action is one of `Txtempus`. The radio clock knows the
carrier and nothing of the program: `Second` turns ten samples back into levels, and
`Receiver` does the rest.

### Time codes

| Module | What it is |
|---|---|
| `TimeCode` | words as sets of bit positions, BCD, parity; libc's `gmtime_r` and `localtime_r` over the Gregorian calendar (external) |
| `Dcf77`, `Wwvb`, `Jjy`, `Msf`, `Bpc` | `PrepareMinute` and `GetModulationForSecond` of a source |
| `TimeSignalSource` | the six stations behind one interface |
| `Receiver` | the reference: how a clock finds the end of a frame and decodes it, from the field tables of the codes, independent of the encoders |
| `Broadcast` | a source sent second by second to a clock switched on in the middle of a minute |
| `TimeCode_proofs` | the theorems about the codes as functions: the shape of their seconds, encoded and decoded again, what a frame that was sent shows |
| `Broadcast_proofs` | those about `Broadcast` and `WebTime`, the divider and `calcDrift` |

The encoders agree with all 360 seconds of `test/golden/*.txt` (six stations,
2026-06-07 14:30).

### Configuration and web server

| Module | What it is |
|---|---|
| `ConfFile` | `update_conf` in the threads of the web server, one action per step that others can see: read, open and truncate the temporary file, write, rename; the directory as names of inodes, so that a thread can write to a file that has been renamed under it; kill and restart of the server |
| `WebRequests` | the handlers around it, extending `ConfFile`: validation of the bodies, what is saved, each read of the configuration by a start and by the answer to a save; `get_config` and what the shell makes of the same file |
| `StatusCache` | `build_status` and the POST handlers as threads that share `_status_cache` |
| `StatusServer` | what GET `/api/status` promises to a page, without cache and threads |
| `StatusHistory` | `StatusCache` with two history variables, and the mapping to `StatusServer` |
| `WebRequests_proofs`, `Status_proofs` | the theorems, those about `ConfFile` in the former |

A file is a sequence of lines, a line a comment or a setting; `Settings` is what
`read_conf` makes of it (the last occurrence of a key counts), `Edit` what
`update_conf` does to the lines. In `WebRequests`, `task[t]` is the request that
thread `t` serves, how far it is and what it has found so far; `offered[t]`
(history) holds the settings that were the saved ones at some time since the
request came or, for a save, since its own update.

In `StatusCache` a status is reduced to the time it was taken and the number of
changes the system had gone through by then. `at[t]` names the next step of a
thread; a POST is a change of the system that succeeds (`ControlSucceeds`) or is
reported as failed (`ControlFails`), whether it happens later or not
(`SystemChanges`). `HasInterpreter` is the global lock of CPython: where it is
released in calls only (`Preemptive = FALSE`), nobody comes between the two reads
or the two writes of the cache. `StatusServer` knows no clock: `old` is how many of
the changes are older than the TTL, and an answer may be behind the present but not
behind `floor[t]`, which is `old`, or with `?fresh=1` the present, of the moment of
the request. `StatusHistory` computes both: `ago[n]` is how many changes there were
`n` ticks ago.

### Web page

| Module | What it is |
|---|---|
| `WebPage` | the script of the page in one tab, extending `StatusServer`: the timer, hidden and shown tab, requests in flight that are answered in any order or fail, saves, start and stop with their delayed refresh |
| `WebTime` | `transmitted_info`, the live fields and `tick`: the time the page announces |
| `WatchDrift` | `calcDrift` in minutes since midnight |
| `WebPage_proofs` | the theorems |

The page is composed with the abstract server and not with `StatusCache`: what it
relies on is exactly what `StatusServer` promises, and `StatusHistory` shows that
the cache keeps the promise. `since` and `due` (history) are the requests made after
the last action, and the change this action made.

### Appliance

| Module | What it is |
|---|---|
| `Units` | `deploy/txtempus-control.sh` as several callers run it, the one-shot and scheduler services and the timer, the phases of the scheduler script with its own timeout, `transmitting_now` and the previews of the web server, an editor, a reboot |
| `Units_proofs` | its theorems |

systemd is external and modelled by what its manual says of the settings these
units use: starting a unit that runs does nothing; a start during a stop waits
for it (`queued`) and is cancelled by the next stop; `Requires=` makes a start of
the timer a start of the scheduler and a stop of the scheduler, by name, a stop of
the timer; a stop is SIGTERM to every process of the unit (`signalled`) and, 90
seconds later, SIGKILL (`StopTimesOut`). `at[c]` is where a control script is:
between `WriteEnv` and `SystemctlStart`, between the save of a schedule and the
steps of apply-schedule, inside a systemctl that has not returned, or (the web
server) between the test of a preview and the end of its dry run; `asked[c]` is the
station it starts, `sourced[c]` what it has read of the configuration. The
scheduler script is `preparing` (validate, NTP), `transmitting` or `waiting` for
its monitor. Its trap on SIGTERM returns, so `ScriptTransmits` needs only that it
was preparing. When txtempus outlives the script's own timeout the script sends
SIGTERM (`terminating`, `ScriptTimesOut`) and two seconds later SIGKILL
(`ScriptKills`), which leaves the carrier. `Effective` is the shell's
`${SCHEDULE_TIMES:-...}`, which takes an empty schedule for a missing one.

`write_dropin` is two steps, the truncation (`OpenDropin`, after which any of the
lines may be all that a power cut leaves) and the lines (`WriteDropin`). A time that
is no time ends the script there (`die`, `deploy/txtempus-control.sh:91`): the lines
before it are in the drop-in, and systemd is told nothing. POST `/api/schedule` saves
valid times only; such a time gets into the configuration by hand (`EditConf`) and is
met by the next apply-schedule that does not bring times of its own. What the drop-in
says, `Calendar`, is read by the next reload, whoever asks for it.

`transmitting_now` is what the page shows: a service that is "active", or any process
named txtempus, which is that of either service and also the `txtempus -n` of a preview
(`Preview`), so that the page says "transmitting" during one and a second is refused.

The transmitters share one `carrier`: starting sets it, exiting clears it, being
killed leaves it. The register-level truth of that is in `RpiControl` and
`Txtempus`: that a transmitter with a signal exits, and through `StopClock`, is not
assumed out of the blue but what `StopsInTime` and `NothingLeftOnAir` prove of
`main()`, for one that gets the processor; and before its handler is installed, when
the signal just ends it, it has not touched the generator. update_conf is one step
here because `ConfFile` has its steps.

Definitions named "Mutant of X" in these modules are X with one plausible
mistake; nothing uses them. `PROJECT.json` names for each property the mutant
that breaks it.

## 3. What TLC checks

| Run | States | Shows |
|---|---|---|
| `transmitter` | 93,039 | Raspberry Pi, one driver, any calls, any initial registers: type, `StaysTuned`, `PowerIsKeyed`, `ClockChangesOnlyWhenIdle`, `CallsReturn`, and the refinement `ImplementsHardwareControl` with its liveness; Jetson: `JetsonKeysAsAsked`; program, sources and registers together: the radio clock shows the right time |
| `txtempus` | 1.47 million | a transmitter that gets the processor when it needs it |
| `txtempus_late` | 231,447 | a transmitter that may be late without limit, and a clock that may step back |
| `init_without_clock` | - | violated: `Init` reports success without clock registers, against `include/hardware-control.h:40-42` |
| `broadcast` | 35,462 | the six codes at seventeen instants where fields carry over or flags change, the time the page announces meanwhile, and the two pure algorithms beside them: `calcDrift` and the choice of the divider |
| `web_requests` | 153,987 | two threads and kills: the file is whole and holds what was answered, and requests see saved settings, while updates do not overlap; page and scripts read each setting alike, with two exceptions |
| `conf_threads` | - | violated: two requests at once share the temporary file, and one truncates what the other renames, against `web/txtempus-web.py:79` |
| `status_threads` | 2.54 million | a forced answer is live, no answer is older than the TTL, a POST is seen by later requests, and the refinement `ImplementsStatusServer` |
| `web_page` | 342,406 | the page goes on polling, ends up showing what there is, shows its own actions |
| `units` | 1.72 million | two callers, an editor, the timer, the script's timeout, previews, reboots: a start puts the right station on the air, a stop silences both units, an applied schedule is the saved one |
| `units_stop` | - | violated: a stop while the scheduler script prepares leaves the carrier on, against `deploy/txtempus-control.sh:12` |
| `units_empty` | - | violated: a schedule without times runs at the default times, against `deploy/txtempus.conf:31` and `web.md:160` |

### Properties and bounds

`transmitter` has three kinds of behaviours (`part`). A build has one of the two
platforms, so a behaviour is of one. "calls": on the Raspberry Pi carriers of three stations that use different sources and
dividers and one that cannot be synthesized; the initial registers are all 64
combinations of the two function select fields, both latches, a generator that
runs or not, killed or not, with any of the dividers. The length of the run is
not bounded. Nothing in `RpiControl` depends on a carrier's value except through
`Setting`, and the theorems below cover every set of carriers. "jetson": two
frequencies, the levels of MSF and those of the other stations, and a program that
is killed and launched again any number of times: `SetTxPower` connects the channel
before it sets the attenuation, so from OFF to LOW it would pass HIGH, and it is the
stations, none of which sends both, that keep it from doing so. `PatternsFit` checks
that of the real sources. The first HIGH after a launch is exempt, where the
attenuation pin is whatever the library left.

"air": the program makes the calls, in the last minute of 2026 and the first second of
2027 for each station, at ten ticks a second and sixty seconds a minute, launched at tick 0, in the middle of a second and near
the end of the minute, on a machine fresh from boot and (in the middle of a second) after
a DCF77 transmitter that was killed. Nobody stops the process and the clock is not
stepped: those are the business of `txtempus`. `RadioClockIsRight` proves the same for
any job, any zone, any registers and any tick of launch. The driver's properties are
checked along these behaviours, too.

`txtempus`: minutes of three seconds of ten ticks, up to three of them, so that
a launch can fall on any tick of a minute and the loop over minutes is passed
through twice and more. The patterns have the shapes of the sources: two levels
with LOW first (DCF77, WWVB, BPC), a second without reduction, HIGH first
(JJY), four levels (MSF). Jobs run for 0 or 2 minutes or for ever, with an
offset. The wall clock may be set forward once, by a part of a second or by
more than a minute. `RealTime` is TRUE: the clock does not advance while the
process has something to do, which is what SCHED_FIFO at priority 99 with
locked memory is there for (`src/txtempus.cc:198-213`).

* `OnSchedule` says that in every tick between signals the level on the air is
  the one the source prescribes for this tick. It includes the start in the
  middle of a minute, when the code runs through the levels that are past.
* `StopsWithinASecond`: the flag is looked at between seconds only, a signal
  that comes just before a sleep is noticed at its end, and still the process is
  gone within one second.
* `NoCarrierAfterExit` and `DryRunTouchesNothing` say what they are called.
* `LowIsNeverRekeyed`: `SetTxPower(LOW)` floats the attenuator pin before it
  drives it, so LOW on LOW would be a spike at full power. No pattern ever does
  that. (`HardwareControl` has an action for it, `Release`; this property shows
  that the program never makes it happen.)

`txtempus_late`: `RealTime` is FALSE, minutes of two seconds of four ticks, one
clock step of either sign. `NeverEarly` holds as long as the clock has not been
stepped. `RunLength` includes a consequence of the code: the loop is left, and the
carrier stopped, in the last second of the last minute and not at its end, since
the last level of a second is not waited for. `SignalledProcessStops` is the
liveness counterpart of `StopsWithinASecond` when no bound can hold.

`broadcast`: four minutes around each instant: the golden time, New Year in two
zones, into and out of 29 February, day 366, 2100 (no leap year), both changes
of summer time and the day before, and five more that fill the digits. The
clock is switched on at seconds 0, 17 and 41. `MarkIsUnambiguous` considers
every window of a frame's length, not only those that begin with a frame.
Patterns depend on a minute's fields one by one, which is why instants that
change every field and flag are enough to see one wrong bit position.

* `PageAnnouncesTheTime` relates the page to the time code: what `tick` makes of a
  status that is up to a minute old, for a zone offset of two hours back, none and
  one hour, is the time that the code sent then means. It leaves out polls from
  before a change of summer time, and times within the zone offset of one: there
  the page is off by the hour, see below.
* `DriftIsNearest` and `DividerIsBest` are about functions and need no behaviour;
  they are evaluated along the broadcasts, whose minutes and seconds number the
  inputs. `DividerIsBest` sees every carrier from 500 Hz to 250 kHz in steps of
  500 Hz, `DriftIsNearest` watches that differ by around 0, one minute, two hours
  and half a day in both directions. Both are proved for all inputs.

`web_requests`: two threads, and a server that may be killed between any two steps.
The bodies have valid and invalid fields, numbers beyond both ends of the range,
texts that are no numbers, times with blanks; of the two files to begin with one
lacks some keys and has been edited by hand (a zone of +60, SCHEDULE_ENABLED=True). `MaxOverlaps` bounds how often two updates are under way
together, `MaxMissed` how many settings are saved while one request is served: with
one of each, a request can begin before an update and read after it.
`WholeUnlessOverlapped`, `AnsweredMeansStored` and `SeesSavedSettings` speak of
updates that do not overlap, which is what the code can promise: it takes no lock,
and `conf_threads` shows what two at once do. `PageShowsWhatRuns` holds of the mixed
files too, setting by setting. It leaves out two things in which the code does differ:
times that are empty or missing, which is the finding of `units_empty`, and a value that
the installed file already has in a form that no handler saves. The edited file is
there to make sure that a save of another setting, a kill or a mixed file extends the
latter exemption to nothing else. `ReplaceFails` is the second rename of a temporary file that is gone.

`status_threads`: two threads, a TTL of one tick, a clock from 0 to 3, two
changes of the system, and any number of requests. Two changes are what it takes
for two POSTs to be answered in the opposite order; four instants for an entry to be
stored, expire, be stored and expire again. `LiveAfterPost` exempts one kind of
entry: a GET that had gathered its status before a POST dropped the cache stores
it afterwards. Such a status is marked `overtaken`, and the property says that
nothing else is stale. The page asks with `?fresh=1` after its own actions, and
`ForcedIsLive` covers that without an exemption.

`web_page`: two requests in flight and two changes, so that an answer can be
overtaken by a later one before and after an action. `PollingGoesOn` speaks of the
time after the first refresh (line 970 comes before it, see below). `PageCatchesUp`
says that a page that stays visible while nothing changes any more ends up showing
the last change, for which a poll, its answer and the age of the server's entry must
come together. `ActionIsShown` is the reason for the `refresh(true)`: the first
answer to a request made after an action shows the action, whatever answers of
earlier requests come between.

`units`: two callers, two stations, and schedules without a time, with one, and with
one beside an entry that is no time. One caller is enough for each of the script's
commands; the second is the shell beside the web server, so that every step of one may
fall between two steps of the other. `Bound` keeps apart what does not interact, to
keep the run short: while the schedule is not at rest (a save is under way, or
configuration, drop-in and timer are not all at the one time) only the scheduler
transmits, one station is in use, no transmitter has been killed, and callers save and
stop; they start and preview while it is at rest. `units_stop` and `units_empty` do
without it, and so do the theorems.

Two history variables say what a command can be held to. `alone` holds the callers
whose command no other has met: for a stop, nobody has started anything since; for a
save, nobody has saved or edited; for a start, no other start is under way and it did
not find a transmission running. `reached` holds the stops whose signal has got to
every transmitter there is: not one that a preparing script is still to start, nor one
that is killed before it can exit, nor a carrier that nobody drives any more. The timer
is no excuse: the stop has stopped it, too, which is part of what is checked.

* `StartedStationIsOnAir`: what a start that says "started" has put on the air is the
  station it was asked for. The unit takes it from `oneshot.env` when it is started,
  which may be after a stop that was under way has returned.
* `StopSilencesTransmitters`: after a stop that is in `alone` and `reached` there is no
  transmitter and no carrier, and the page says "transmitting" for a preview at most.
  `StopSilences` is the same without `reached`, and is violated (`units_stop`): a boot with
  an enabled schedule begins a broadcast, a stop meets the script while it prepares, the
  trap returns, the script starts txtempus after the signal, systemd kills it 90 seconds
  later, and the stop says "stopped" while the generator runs on. Nobody else has started
  anything in this trace.
* `AppliedScheduleIsSaved` compares the timer's times with those of the configuration
  themselves, whenever there are any: whatever reboots, edits, invalid times and
  half-written drop-ins came before. When there are none, `EmptyMeansNoTimes` says what
  the configuration file promises, and is violated (`units_empty`): the timer of an
  enabled schedule without times gets the three default ones.

`CHECK_DEADLOCK FALSE` is set where a model really ends or its bounds end it: the
broadcast run enumerates a finite range, a transmitter run ends when the process has
and the clock is at `MaxTime`, and `ConfFile`, `WebRequests` and `StatusCache` stop
at their bounds on overlaps, updates, time and changes. An endless job is followed
until its next minute would reach past `MaxTime`. Symmetry is used where threads,
inodes and callers are interchangeable and only safety is checked.

### Fairness

`RpiControl`: weak fairness for the generator (BUSY follows the control register
within cycles) and for the next register access of a process (the kernel runs
it). Calls are not fair: nobody has to make one. `HardwareControl` asks for the
same: the oscillator follows, and a call that can return does.
`Txtempus`: weak fairness for the generator, for the wall clock and for the
program and its register accesses; launches, signals, kills and clock steps are
not fair. With `SIGKILL` possible at every step, `SignalledProcessStops` allows
that a process is killed instead of stopping on its own.
`WebPage`: weak fairness for the poll timer (a timer that is set runs out), for
the passing of time at the server, and for each request (it is answered or fails);
strong fairness for an answer being given and being received, which says that
requests do not fail for ever: a page that is cut off for good shows nothing new.
Clicks, hiding and showing, and changes of the system are not fair.
`ConfFile`, `WebRequests`, `StatusCache`, `Units` and `JetsonControl` state safety
only and have no fairness: nobody has to ask the web server for anything, and
nothing bounds how long the scheduler script prepares.

## 4. What is proved

Every theorem is for all values of the constants that satisfy the assumptions it
names. TLC evaluates each of them for the constants of the runs.

### Hardware control

The first part of `Txtempus_proofs`, for every set of carriers, every content of the
registers at the start and every driver (assumptions: carriers are positive, `CarrierAssumption`;
the generator found at the start is at rest, `LeftBehindAssumption`; there is one
driver, `DriverAssumption`):

| Theorem | States |
|---|---|
| `TypeCorrect` | `Spec => []TypeOK` |
| `GeneratorStaysTuned` | `Spec => []StaysTuned` |
| `SetTxPowerKeys` | `Spec => []PowerIsKeyed` |
| `ClockUndisturbed` | `Spec => ClockChangesOnlyWhenIdle` |
| `DriverImplementsHardwareControl` | `Spec => HW!Init /\ [][HW!Next]_(HW!vars)` |

None of these properties is inductive. `StaysTuned` speaks of the time after
`StartClock` only; what makes it true is what each access of `StartClock` has
established before the next one. `IInv` says so in three parts:

* `OpMatchesPc`: which accesses belong to which call, and that a driver which is
  in a call other than `StartClock` has completed a `StartClock` for a carrier
  that can be synthesized;
* `ClockSequence`: what is in the clock registers at each access from the KILL
  to the ENAB, and that the value read for `|= ENAB` is still the one there;
* `PinSequence`: GPIO 4 has no stray bits from the first `StopClock` on, so
  that OR-ing ALT0 into it gives ALT0, and GPIO 17 is set before GPIO 4 lets
  the carrier out.

`InitIInv` and `NextIInv` show it inductive, one step per action. The refinement
maps each access to a step of `HardwareControl` or to none: `Kill` is `Detune`,
`Unmux` is `Disconnect`, `FinishStop` or `FinishKeying`, `Enable` is `Tune`,
`Float17`, `Drive17` and `Clear17` are `Rekey`, `Release` or nothing, `Mux` is
`Connect` or `FinishKeying`.

`JetsonControl_proofs`, for any frequencies and any stations of which none sends
both OFF and LOW (`TwoLevels`, a hypothesis of the theorem, which `MCTransmitter`
also evaluates): `JetsonKeys` is
`Spec => []LevelIsAsked /\ [][KeysAsAsked]_vars`, of which the run checks an instance
(`JetsonKeysAsAsked`). The invariant says that `isOn` is what the channel does once
there is a PWM object (`ChannelInv`), and that a station with OFF has not attenuated since the process set
the pin (`AttenuatorInv`): the latter, with the assumption, is why no third level
is passed. That no source does send both is part of `EverySecondFits` below.

### Transmitter

`Txtempus_proofs`, for any jobs, carriers and patterns, any resolution and any steps
of the clock, whether the process gets the processor or not (assumptions:
`TimeAssumption`, `JobAssumption`; `ModulationAssumption`: each second of the minutes
a job reaches has at least one level; `DriverAssumption`):

| Theorem | States |
|---|---|
| `TxTypeCorrect` | `TxSpec => []TxTypeOK` |
| `NothingLeftOnAir` | `TxSpec => []NoCarrierAfterExit` |
| `DryRunIsDry` | `TxSpec => DryRunTouchesNothing` |
| `LowIsKeyedOnce` | `TxSpec => LowIsNeverRekeyed` |
| `LevelsAreNeverEarly` | `TxSpec => NeverEarly` |
| `RunsItsMinutes` | `TxSpec => []RunLength` |
| `TransmitsOnSchedule` | `ASSUME ClockSteps \subseteq Nat PROVE TxSpec => []OnSchedule` |
| `StopsInTime` | `ASSUME RealTime, ClockSteps \subseteq Nat PROVE TxSpec => []StopsWithinASecond` |

The last five also rest on `PatternsAssumption`: the levels of a second begin before
it is over, only the last one is not timed, and none is LOW after LOW. The two
hypotheses say what the properties need and the code does not have by itself: a
process that is late is not gone within a second, and a clock that is set back makes
the sleeps longer.

`TxInv` carries the invariant of the driver over to `main()` in four parts.
`DriverInv` is `IInv` of `SingleDriver` until a SIGKILL, which may come between any
two register accesses and ends it. `CallInv` says which hardware call each place of
`main()` can be in: no place calls while a call is under way, `SetTxPower` comes after
the return of `StartClock`, and at the end `StopClock` has gone through, which is what
`NoCarrierAfterExit` follows from. `CountInv` ties `minute_start` to `ttl`, without
which the bound on the minutes and with it the type would not be kept. `PatternInv`
keeps second and level within what the source has. `HardwareKeeps` reduces the
register accesses to `NextIInv`.

The timing rests on `TimeInv`, which is inductive together with `TxInv`:

* `MinuteInv`: `minute_start` is full minutes, and the source holds that minute;
* `WakeInv`: `target_wait` is the beginning of the second while the process waits for
  it, of the level while it keys it, and of the next level while it naps;
* `LevelInv`: the level that is keyed is that of `moment`, or the one before, or, between
  two seconds, the one that the second before ends with (`EndsWith`);
* `EarlyInv`: none of these has been keyed before it begins. It holds of every
  behaviour in which the clock has not been set back, late or not;
* `LateInv`: after the minute of its launch the process is not late either, unless it
  was interrupted;
* `OverInv`: from a signal on, what is left of the sleeps and the time since the signal
  come to a second at most.

`OnSchedule` needs no `LateInv`: it speaks of sleeps, and a process that sleeps has
keyed what has begun and nothing that has not, also in the minute of its launch, whose
first moments are past (`LevelScheduled`). `Begins`, when a level begins, is a recursive function; induction
comes from the library's theorem about well-founded relations, `WFMin`, which takes a
set and no operator (`AllNaturals`), and `BeginsNext` and `BeginsRise` are all that the
rest needs of it.

### Time codes

`TimeCode_proofs` is about the codes as functions, with no assumption: for every
broken-down time (`StructTm`), what the clock decodes from a minute, or a block, is what
the encoder was given.

| Theorem | States |
|---|---|
| `DCF77Decodes` | sixty seconds of DCF77 are decoded to the time they were made from |
| `WWVBDecodes` | of WWVB, with the day of the year, leap year and summer time |
| `JJYDecodes` | of JJY |
| `MSFDecodes` | of MSF |
| `BPCDecodes` | a block of BPC is decoded to the time and the third of the minute it was made from |
| `FrameShowsTheTime` | from any window that ends with a frame sent in some zone and minute, the clock of any station shows the time the station means |

`Broadcast_proofs`, for any stations of the six, any time zone of each station that is
less than a day from UTC (`Zones`), with or without summer time, and any minutes from
1970-01-02 on, so that local time is not before 1970 (`BroadcastAssumption`); for the
page any zone offset and any age of its status (`WebTimeAssumption`):

| Theorem | States |
|---|---|
| `ClockIsRight` | `Spec => []ClockShowsTheTime` |
| `PageIsRight` | `Spec => []PageAnnouncesTheTime` |
| `EverySecondFits` | `Spec => []PatternsFit` |
| `NoFalseMark` | `Spec => []MarkIsUnambiguous` |
| `BestSourceIsTaken` | of the sources whose divider fits, the one that misses the carrier least is taken, for every carrier |
| `DividerFitsRegister` | its divider fits the fields and is the largest that is not slower than requested, for every carrier |
| `DividerStaysBest` | `Spec => []DividerIsBest` |
| `DriftIsAlwaysRight` | `calcDrift` is right for any two times of day |
| `DriftStaysRight` | `Spec => []DriftIsNearest` |

The decoders rest on three things. First, a field is worth what was written into it.
`Value` is a fold over the bits that are set, and what a fold computes for any set is an
induction over data; but no field has more than twelve bits, and by induction over the
size of the set it is a sum of twelve terms (`SumsAreTotals`, `ValueIsTotal`). `HighFirstValue`, `LowFirstValue` and `PaddedFieldValue` turn
the sum into the number, for fields sent from either end, decimal, binary or with a second
between the digits. Second, the fields do not get into each other's way: `DCF77Layout`
and its like say which bits the union of the shifted fields has, the `Fields` lemmas that
each field is found where the clock looks for it. Third, parity: where bit 59 - s is
sent in second s, as many bits are set from one second to another as between the bits sent
there (`AsManyReversed`), so that the encoder's parity bit makes the clock's count even,
or odd for MSF (`ParityBit`, `JJYParityEven`, `MSFParityOdd`).

`gmtimeIsATime` and `localtimeIsATime` show that libc's times are broken-down times: that
there is exactly one year to a day (`YearContains`) needs a quotient by 4, 100 and 400 to
grow by one at its multiples only (`OneMoreMultiple`). What is left is the window: `SentIn`
says that each second of it is one that `PrepareMinute` has prepared for the minute it
was sent in, across the change of the minute; so a window that ends with a frame is that
frame (`HeardFrame`), and `FrameShowsTheTime` is what the clock makes of
it. It is a theorem about windows, wherever they come from.

What `EverySecondFits` and `NoFalseMark` need of a time code is not its bits but the
shape of its seconds:
`IsDCF77Second` and its like say which patterns a station can send in which second,
and `SentIsASecond` that it sends no others, whatever time and zone `PrepareMinute` was
given. `SecondsFit` and `EndsOfSeconds` are about each of them and about the end of one
and the beginning of the next, `LooksOfSeconds` and `MarksMeet` about the first and the
last second of a window.

The invariant of `Broadcast_proofs` is `HeardInv`: the source holds the minute it was
given, and the window is `HeardUntil` the second about to be sent, that is, no longer than
a frame, its i-th second the one numbered `Heard` of the minute `SentIn`. `HearsOn` says
that one more second keeps it so. `SentInv` keeps the minutes past the first day of 1970.
`PageIsRight` adds that the
page, by another way and from an older status, comes to the same fields
(`AnnouncedIsMeant`).

The divider goes through the four sources one at a time (`OneMoreSource`), comparing
fractions by cross multiplication. `DriftIsAlwaysRight` and the two about the divider
are about functions; `DividerStaysBest` and `DriftStaysRight` put them in the form in
which the run checks them.

### Transmitter on the air

`RadioClockIsRight`, in `Txtempus_proofs`, is `AirSpec => []RadioClockShowsTheTime`: the
program, the encoders, libc's calendar, the register accesses of the driver and a clock
that sees nothing but the field. It holds for any of the six stations, any zone, offset
and `-r`, whatever the registers held, and wherever in a minute the program is launched,
as long as nobody signals it or steps the clock (`AirNext` has no such step), under the
assumptions of `main()` above and `AirAssumption`:

* `RealTime`: the process runs whenever it is runnable. It asks for that with
  `SCHED_FIFO` at priority 99 (`src/txtempus.cc:202-204`); a run that is starved is late,
  and a clock beside it hears that.
* seconds of ten ticks, since every level of every code lasts a multiple of 100 ms, and
  minutes of sixty seconds;
* each job's patterns and carrier are those of its source, and it is no dry run;
* zones less than a day from UTC, and minutes from 1970-01-02 on, as in
  `BroadcastAssumption`.

The property speaks of heard frames, of which `TransmitsOnSchedule` and
`FrameShowsTheTime` know nothing: the one is about a level in a tick, the other about
whole seconds. `AirInv` is the bridge. It has `TxInv` and `TimeInv` from above, and

* `SamplesInv`: the samples of the current second are the levels that were scheduled for
  the ticks they were taken in (`FieldIsScheduled`, from `OnSchedule` in the ticks in which
  the process sleeps, which are all in which time passes); some may be missing at the
  front in the first second, never later;
* `HeardInv`: the seconds heard are `HeardUntil` the current one, which is the hypothesis
  of `FrameShowsTheTime`.

`SecondHeard` takes the former to the latter at the end of a second. A schedule sampled
at ten ticks gives ten levels (`ScheduleSampled`), and `SecondsAreRead` says that `Second`
makes of them the pattern they were taken from: by cases over the shapes of the seconds,
of which the longest has four levels. `AirNextInv` has one step for `Listen` and one for all
the others, which change neither `samples` nor `heard` and are steps of `TxSpec`
(`AirStepIsTxStep`).

### Web server

`Status_proofs`, for any set of threads, any TTL and any bounds on time and changes
(`StatusAssumption`: they are natural numbers):

| Theorem | States |
|---|---|
| `StatusTypeCorrect` | `Spec => []StatusTypeOK` |
| `FreshIsLive` | `Spec => []ForcedIsLive` |
| `PostsAreSeen` | `Spec => []LiveAfterPost` |
| `AgeStaysBounded` | `ASSUME ~Preemptive PROVE Spec => []AgeIsBounded` |
| `CacheImplementsServer` | `ASSUME ~Preemptive PROVE HistorySpec => ImplementsStatusServer` |

The first two follow from `LiveInv`: nothing is ahead of the clock or of the
changes so far (`NothingAhead`), and what a thread holds between gathering and
answering was gathered after its request came (`GatheredLater`). `PostInv` adds,
for the third, that whatever is in the cache, or about to be stored there, has
every POST that was answered, unless it was overtaken. All three hold wherever the
interpreter switches threads. The age does not: a stamp may be paired with data
that is not its own. `AgeInv` shows what saves it where threads are switched in
calls only: one thread at most is between two accesses (`OneAccess`), so outside
of them the stamp is never later than the data (`StampedBefore`) and inside them
the local copy is the one in the cache (`BetweenAccesses`).

The refinement rests on three more: the history of changes is a falling sequence
(`AgoInv`); every status that is somewhere, in the cache or in a thread, knows the
changes there were when it was taken, and so is good enough for every request that
may still get it (`KnownInv`); and a thread that has decided on an answer has one
that is not behind its floor (`FloorInv`).

`WebRequests_proofs` begins with `ConfFile`, for any number of threads, any keys,
values, files and requests, killed at any step (`ConfAssumption`: an installed file is made of settings and
comments, the keys are finitely many, a request sets at least one of them, and the
marks for comments and for no inode are not themselves keys or inodes):

| Theorem | States |
|---|---|
| `ConfTypeCorrect` | `Spec => []ConfTypeOK` |
| `ConfStaysWhole` | `Spec => []WholeUnlessOverlapped` |
| `AnswersAreStored` | `Spec => []AnsweredMeansStored` |

`IInv` is `Types`, `Steps` (what a thread has in its hands at each step) and, while
nothing has overlapped, `Alone`: one thread at most is in `update_conf`, and the
temporary file is empty while it is being written and good once it is. The lemmas
before it are about the operators: what `Settings` finds after `Edit`
(`EditKeeps`), for a key that occurs once, twice or not at all, and that writing
over an empty file gives what was written (`OverwriteLines`).

It goes on with `WebRequests`, for any number of threads and any bodies
(`WebAssumption`: the updates that come of accepted bodies are requests of `ConfFile`):

| Theorem | States |
|---|---|
| `WebTypeCorrect` | `WebSpec => []WebTypeOK` |
| `ServedFileIsWhole` | `WebSpec => []WholeUnlessOverlapped` |
| `ServedAnswersAreStored` | `WebSpec => []AnsweredMeansStored` |
| `RequestsSeeSavedSettings` | `WebSpec => []SeesSavedSettings` |
| `PageAndScriptsAgree` | `WebSpec => []PageShowsWhatRuns` |

`WebImplementsConf` shows that each step of a handler is a step of `ConfFile` or
none, which carries `IInv` over. `WebInv` adds that a thread is in `update_conf`
exactly while its request is being saved, that `offered` contains what is saved now,
and what a start has found so far.

`PageAndScriptsAgree` holds of any installed file, overlapping updates, kills and
emptied files included, and so cannot rest on `IInv`. `KnownInv` is its invariant: every
line of every inode, in the directory or not, of what a thread is about to write, and of
every update, has a value that `get_config` and the shell read alike (`Plain`) or one that
the installed file had (`ByHand`). The validation of the bodies is what makes it so
(`ConfigUpdatesArePlain`, `ScheduleUpdatesArePlain`): a number that is out of range is not
refused but moved into it, a zone is stored as digits, times are stored as they are
parsed. A file that two updates have mixed is made of lines that one of them wrote
(`KnownOverwrite`), and so has no other values; that is why the property needs no exemption
for overlaps. What the texts mean is given by tables, about which `TextAssumption` says:
`str` and `int`, `join` and `split` undo each other, no station, number or time is the
empty text, and `enabled` is one of two values. Of installed files it says nothing. The
two exceptions are part of the property: times that are empty or missing, and, setting
by setting, a value that was edited into the installed file in a form that no handler
saves.

### Web page

`WebPage_proofs`, for any number of requests in flight and of changes:

| Theorem | States |
|---|---|
| `PollingNeverStops` | `PageSpec => []PollingGoesOn` |
| `ActionsAreShown` | `PageSpec => []ActionIsShown` |

`PageInv` is the two properties with what the server keeps (an answer is not below
its floor) and `SinceInv`: the requests made since the last action have floors that
include it.

### Appliance

`Units_proofs`, for any number of callers, any stations and schedules, invalid entries
among them (`UnitsAssumption`: an invalid entry is no time, the default schedule is valid
and not empty, and the mark for nothing is no station and no schedule):

| Theorem | States |
|---|---|
| `UnitsTypeCorrect` | `Spec => []UnitsTypeOK` |
| `StartsWhatWasAsked` | `Spec => []StartedStationIsOnAir` |
| `StopsSilence` | `Spec => []StopSilencesTransmitters` |
| `SavedScheduleIsApplied` | `Spec => []AppliedScheduleIsSaved` |

`StartInv` says that a start which is alone has the environment file for itself, and
that a unit it has waited for was started from that. `StopInv` says what stays true from
the moment a stop that has reached everything is under way: no timer, no job that waits,
no script that is still to start a transmitter, no carrier without a transmitter, and
every transmitter signalled (`Hushed`); every action that could end this also takes the
caller out of `alone` or `reached`. `SaveInv` says what each step of a save has established,
while no other is under way: read, written, reloaded.

### Only model-checked

Liveness (`CallsReturn`, `SignalledProcessStops`, `PageCatchesUp`, the fairness part
of `ImplementsHardwareControl`), which is out of reach of the provers used. Every
invariant and every other property of the runs is proved.

## 5. What is not modelled

* Two transmitters on the registers: `RpiControl` and `Txtempus` take any set of
  processes, but their properties are those of one. `Units` has two on one
  carrier.
* The scheduler script's PID files and `last-run`. A script that is killed leaves
  its PID files, and until the next run writes its own, a cleanup would signal
  whatever process has the number by then.
* The installation. Interrupted between copying the default configuration and
  writing the migrated schedule into it (`deploy/install.sh:92-94`), it takes the
  configuration for the user's own on the next run, and the schedule is lost.
* Failures of systemctl itself. A transmitter that has got SIGTERM is gone before
  systemd's 90 seconds: `StopsInTime` says within one second, if it gets the processor.
* `txtempus` or `txtempus -n` run from a shell: `pgrep` finds these, too. In `Units` the
  previews are those of the web server.
* Holes in a drop-in that two apply-schedule at once write to: each writes at its own
  place in the file, of which `Overwrite` has the tail that may stay, but not bytes that
  are cut in the middle of a line.
* A status is gathered in one step; the commands run one after the other, and
  its fields may be of different moments.
* Of the web server: the PIN, JSON that is no object, what a preview
  answers, static pages. Of the page: layout, the texts `render` composes, the
  watch table, the preview, and the forms, which are filled once.
* `GetPiModel`, the pins of the Jetson's models and the mapping of `/dev/mem`, apart
  from their outcomes.
* Option parsing and `usage`: a command line is a record. Verbose output and the
  ASCII chart of the dry run: formatting.
* Leap seconds: not implemented by the code either
  (`include/time-signal-source.h:59-60`).
* Arithmetic in doubles: the divider is computed exactly. For all carriers that
  are a multiple of 500 Hz below 300 kHz the code's doubles give the same source
  and divider.

Some behaviour is in the models although no property speaks of it, because the
code does nothing against it. A reader of `Units` will find there that

* a start while the one-shot unit transmits rewrites `oneshot.env` and prints the
  new station, while the old one stays on the air
  (`deploy/txtempus-control.sh:69-70`);
* enabling or applying the schedule, and booting with it enabled, begins a
  broadcast at once, since the timer requires the service
  (`deploy/systemd/txtempus-scheduler.timer:3`), and a stop disarms an enabled
  timer until the next boot or save;
* of two transmitters that run together the one that ends silences the other,
  which is shown as transmitting until it ends;
* a scheduled broadcast is "activating" and never "active", so the page has no
  start time and no countdown for it (`web/txtempus-web.py:312`);
* the SIGKILL of the script leaves the carrier on until another transmitter ends
  (`deploy/txtempus-scheduler.sh:149`);
* a power cut between the save of a schedule and its drop-in leaves the timer with
  the old times until the next save;
* a schedule with an invalid time leaves a drop-in with the times before it, which the
  next reload or boot puts in force (`deploy/txtempus-control.sh:90-91`);
* a preview is shown as a transmission, and a second one refused because of it
  (`web/txtempus-web.py:247`, `389`); the scheduler service, which `TROUBLESHOOTING.md:65`
  calls "active" during a broadcast, is "activating".

Of the web server and its page:

* a page whose `loadConfig()` fails never begins to poll, for nobody catches the
  rejection (`web/txtempus-web.py:970`), although a failed `refresh` is retried;
* a start takes station, minutes and zone from up to three reads, and so may mix two
  saved configurations; during updates that overlap it may read an emptied file;
* a zone edited by hand to something like `+60` is given to the transmitter by a
  scheduled broadcast and shown as 0; SCHEDULE_ENABLED=True is shown as enabled and
  taken for disabled by the script;
* from a poll before a change of summer time the announced time is off by the hour
  until the next poll, and within the zone offset of a change the offset is that of
  the wrong side;
* where the interpreter may switch threads anywhere (`Preemptive = TRUE`) two GETs
  may pair an old status with a young stamp.

Of the drivers: the 1/1024 fraction is truncated, not rounded, so for BPC the next
fraction would be closer by less than 0.02 Hz; a second `StartClock` of one process
on the Jetson would keep the first frequency, which the program, starting the clock
once, never sees.

## 6. Plan

Done: everything in section 2. In order of importance, what is left:

1. `Scheduler`: the script as a process with its trap, children, PID files and
   `last-run`; `Units` then takes its phases from it. What should hold: no
   transmitter outlives the script but for a SIGKILL, `last-run` tells what
   happened, the monitor ends.
2. Two transmitters on one set of registers: `RpiControl` with two processes,
   under the starts and stops that `Units` allows. What should hold: after a stop
   of both no carrier; what a second `StartClock` may do to the first.
3. `Install` for interrupted and repeated installations: no setting lost, the
   schedule migrated once.
4. An abstract register for the configuration file that `ConfFile` implements when
   requests do not overlap.
