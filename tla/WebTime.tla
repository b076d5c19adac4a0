------------------------------ MODULE WebTime ------------------------------
(***************************************************************************)
(* The time the admin page says the watch will be set to: transmitted_info   *)
(* and _live_fields of the server (web/txtempus-web.py:251-297) as of the     *)
(* last poll, and what tick() of the page makes of them later               *)
(* (web/txtempus-web.py:734, 744-747, 815-824).  Times are minutes.         *)
(***************************************************************************)
EXTENDS Broadcast

(* transmitted_info, as far as tick() and render() use it.                  *)
transmitted_info(s, zone, zone_offset, t) ==
  [basis           |-> IF s = "WWVB" THEN "UTC" ELSE "local",
   zone_offset_min |-> zone_offset,
   dst_active      |-> /\ s \in {"DCF77", "MSF", "WWVB"}
                       /\ localtime(zone, t + zone_offset).isdst]

(* A status taken at t: the server's clock runs on in the page, its offset    *)
(* from UTC stays.                                                         *)
StatusAt(s, zone, zone_offset, t) ==
  [transmitted |-> transmitted_info(s, zone, zone_offset, t),
   tz_offset   |-> Offset(zone, t)]

piDate(status, epoch, extraOffsetMin) ==
  gmtime(epoch + extraOffsetMin + status.tz_offset)

(* Mutant of settime: all stations in local time.                           *)
settimeLocal(status, epoch) ==
  piDate(status, epoch, status.transmitted.zone_offset_min)

(* "UTC-basis stations (WWVB) ignore the device tz offset"                   *)
settime(status, epoch) ==
  IF status.transmitted.basis # "UTC"
  THEN piDate(status, epoch, status.transmitted.zone_offset_min)
  ELSE gmtime(epoch + status.transmitted.zone_offset_min)

(* What the page announces then: the st-settime and st-dst lines.           *)
Announced(status, epoch) ==
  [settime(status, epoch) EXCEPT !.isdst = status.transmitted.dst_active]

-----------------------------------------------------------------------------
CONSTANTS
  ZoneOffset,   \* values of ZONE_OFFSET considered, in minutes
  Age           \* ages of the page's last status considered, in minutes

ASSUME WebTimeAssumption == ZoneOffset \subseteq Int /\ Age \subseteq Nat

(* The minute that is announced by the frame just heard.                    *)
Meant ==
  IF station \in {"DCF77", "MSF"} \/ second # 0 THEN minute ELSE minute - 1

AnnouncedAsHeard(zone_offset, age) ==
  LET zone   == ZoneOf(station)
      now    == Meant - zone_offset    \* -z moves what is sent
      shown  == Announced(StatusAt(station, zone, zone_offset, now - age), now)
      Summer == {InSummer(zone, t) : t \in {Meant, Meant - age, now, now - age}}
  IN  Summer # BOOLEAN =>
        Decode(station, heard)
          = Meaning(station, ((second + 40) % 60) \div 20, shown, shown, shown,
                    localtime(zone, Meant + 1440))

(***************************************************************************)
(* The page announces the time that a watch will read from the frame which    *)
(* is on the air, with its date, weekday and summer time, although two        *)
(* programs compute it, one of them from a status that is some minutes old:   *)
(* for every station and zone offset, provided summer time neither begins    *)
(* nor ends between the poll and the time sent                              *)
(* (web/txtempus-web.py:251-281, 744-747, 815-824; "mirroring what the        *)
(* binary encodes").                                                       *)
(***************************************************************************)
PageAnnouncesTheTime ==
  Complete /\ FrameEnds(station, heard) =>
    \A zone_offset \in ZoneOffset, age \in Age : AnnouncedAsHeard(zone_offset, age)

=============================================================================
