-------------------------- MODULE TimeSignalSource --------------------------
(***************************************************************************)
(* include/time-signal-source.h: the six stations behind one interface, and *)
(* the choice CreateTimeSourceFromName makes in src/txtempus.cc.           *)
(***************************************************************************)
EXTENDS Dcf77, Wwvb, Jjy, Msf, Bpc

Stations == {"DCF77", "WWVB", "JJY40", "JJY60", "MSF", "BPC"}

GetCarrierFrequency(station) ==
  CASE station = "DCF77" -> DCF77CarrierFrequency
    [] station = "WWVB"  -> WWVBCarrierFrequency
    [] station = "JJY40" -> JJY40CarrierFrequency
    [] station = "JJY60" -> JJY60CarrierFrequency
    [] station = "MSF"   -> MSFCarrierFrequency
    [] station = "BPC"   -> BPCCarrierFrequency

PrepareMinute(station, zone, t) ==
  CASE station = "DCF77" -> DCF77PrepareMinute(zone, t)
    [] station = "WWVB"  -> WWVBPrepareMinute(zone, t)
    [] station = "MSF"   -> MSFPrepareMinute(zone, t)
    [] station = "BPC"   -> BPCPrepareMinute(zone, t)
    [] station \in {"JJY40", "JJY60"} -> JJYPrepareMinute(zone, t)

GetModulationForSecond(station, frame, second) ==
  CASE station = "DCF77" -> DCF77Modulation(frame, second)
    [] station = "WWVB"  -> WWVBModulation(frame, second)
    [] station = "MSF"   -> MSFModulation(frame, second)
    [] station = "BPC"   -> BPCModulation(frame, second)
    [] station \in {"JJY40", "JJY60"} -> JJYModulation(frame, second)

=============================================================================
