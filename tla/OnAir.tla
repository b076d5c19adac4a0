------------------------------- MODULE OnAir -------------------------------
(***************************************************************************)
(* The whole of one transmitter: the program, its time source and the       *)
(* registers, with a radio clock beside the antenna that samples the field  *)
(* ten times a second and knows nothing but its station's carrier.          *)
(***************************************************************************)
EXTENDS TxProperties, SingleDriver, TimeSignalSource, Receiver

CONSTANTS
  ZoneOf(_),     \* the time zone of the machine that plays a station
  LaunchTime     \* when the program may be launched, in ticks

VARIABLES
  samples,   \* what the clock has heard of the current second
  heard      \* the whole seconds it has heard, up to a frame

air == <<all, samples, heard>>

(* Modulation, for the time sources.                                       *)
SourceModulation(source, minute, second) ==
  GetModulationForSecond(source, PrepareMinute(source, ZoneOf(source), minute),
                         second)

(* Seconds of ten ticks, stations with the carriers and the patterns of      *)
(* their sources, and a program that runs whenever it can (SCHED_FIFO 99).   *)
(* The clock is past the first day of 1970, the day before which gmtime_r    *)
(* would be asked for a time before the epoch.                             *)
ASSUME AirAssumption ==
  /\ RealTime /\ TicksPerSecond = 10 /\ SecondsPerMinute = 60
  /\ LaunchTime \subseteq 0 .. MaxTime
  /\ \A j \in Job :
       /\ j.source \in Stations /\ ZoneOf(j.source) \in Zones
       /\ ~j.dry /\ j.offset >= 1440
       /\ CarrierOf(j.source) = GetCarrierFrequency(j.source)
       /\ \A m \in 0 .. MaxTime \div Minute, s \in 0 .. 59 :
            Modulation(j.source, m + j.offset, s)
              = SourceModulation(j.source, m + j.offset, s)

Station == tx[Driver].job.source

Field ==
  LET received == {level \in Power : OnAir(GetCarrierFrequency(Station), level)}
  IN  IF received = {} THEN "OFF" ELSE CHOOSE level \in received : TRUE

(* Ten samples as a sequence of levels.  On-off keying has its two bits at   *)
(* fixed places, the other codes are a level and how long it lasts.         *)
Second(source, s) ==
  LET same   == {i \in 1 .. 10 : \A k \in 1 .. i : s[k] = s[1]}
      length == Cardinality(same)
  IN  IF source = "MSF" THEN
        IF length >= 5 THEN <<Level(s[1], 5), Level(s[6], 0)>>
        ELSE <<Level(s[1], 1), Level(s[2], 1), Level(s[3], 1), Level(s[4], 0)>>
      ELSE IF length = 10 THEN <<Level(s[1], 0)>>
      ELSE <<Level(s[1], length), Level(s[length + 1], 0)>>

(* A tick of time: the field is sampled during it.                         *)
Listen ==
  /\ Live(Driver)
  /\ Tick
  /\ LET ten == Append(samples, Field)
         new == Append(heard, Second(Station, ten))
     IN  IF clock' % TicksPerSecond # 0
         THEN samples' = ten /\ UNCHANGED heard
         ELSE /\ samples' = <<>>
              /\ heard' = IF Len(ten) < 10 THEN heard   \* tuned in midway
                          ELSE IF Len(new) > FrameLength(Station) THEN Tail(new)
                          ELSE new

(* The process is launched at some time of its first minute; nobody stops   *)
(* it before its -r minutes are over.                                      *)
AirInit ==
  /\ Init
  /\ clock \in LaunchTime
  /\ stepped = 0
  /\ tx \in [Proc -> {[at |-> "off", job |-> j, now |-> 0, minute |-> 0,
                       ttl |-> 0, second |-> 0, prepared |-> 0, moment |-> 1,
                       wake |-> 0, interrupted |-> FALSE] : j \in Job}]
  /\ overtime = [p \in Proc |-> 0]
  /\ samples = <<>> /\ heard = <<>>

AirNext ==
  \/ Listen
  \/ /\ \/ GeneratorStep \/ Launch(Driver)
        \/ Main(Driver) \/ Hardware(Driver)
     /\ UNCHANGED <<samples, heard>>

AirSpec == AirInit /\ [][AirNext]_air

-----------------------------------------------------------------------------
(***************************************************************************)
(* End to end: at every end of a frame, the radio clock that has heard the  *)
(* whole of it recognizes it as one and shows the time that the wall clock  *)
(* of the machine stands at, plus the offset of -t and -z, wherever in a     *)
(* minute the program was launched (txtempus.cc:215-249 with the sources    *)
(* and rpi-control.cc:109-191, 318-333).                                   *)
(***************************************************************************)
RadioClockShowsTheTime ==
  LET minute == (clock \div Minute) + tx[Driver].job.offset
      second == (clock % Minute) \div TicksPerSecond
  IN  /\ Live(Driver) /\ samples = <<>>
      /\ Len(heard) = FrameLength(Station)
      /\ second % FrameLength(Station) = 0
      => /\ FrameEnds(Station, heard)
         /\ Decode(Station, heard)
              = TimeMeant(Station, ZoneOf(Station), minute, second)

=============================================================================
