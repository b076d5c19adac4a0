-------------------------------- MODULE Wwvb --------------------------------
(***************************************************************************)
(* src/wwvb-source.cc: the WWVB time code, 60 kHz.  Bit 59 - s of           *)
(* time_bits_ is sent in second s.                                         *)
(***************************************************************************)
EXTENDS TimeCode

WWVBCarrierFrequency == 120

WWVBTimeBits(breakdown, today, tomorrow) ==
  UNION { Shift(to_padded5_bcd(breakdown.min), 59 - 8),
          Shift(to_padded5_bcd(breakdown.hour), 59 - 18),
          Shift(to_padded5_bcd(breakdown.yday + 1), 59 - 33),
          Shift(to_padded5_bcd(breakdown.year % 100), 59 - 53),
          Flag(IsLeap(breakdown.year + 1900), 59 - 55),
          Flag(tomorrow.isdst, 59 - 57), Flag(today.isdst, 59 - 58) }

(* UTC, with the summer time of the zone now and in 24 hours.               *)
WWVBPrepareMinute(zone, t) ==
  WWVBTimeBits(gmtime(t), localtime(zone, t), localtime(zone, t + 1440))

WWVBModulation(time_bits, second) ==
  LET low == IF second = 0 \/ second % 10 = 9 \/ second > 59 THEN 8
             ELSE IF 59 - second \in time_bits THEN 5 ELSE 2
  IN  <<Level("LOW", low), Level("HIGH", 0)>>

=============================================================================
