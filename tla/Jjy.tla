-------------------------------- MODULE Jjy --------------------------------
(***************************************************************************)
(* src/jjy-source.cc: the JJY time code, 40 and 60 kHz.  Bit 59 - s of      *)
(* time_bits_ is sent in second s; the power is high before it is low.     *)
(***************************************************************************)
EXTENDS TimeCode

JJY40CarrierFrequency == 80
JJY60CarrierFrequency == 120

JJYData(breakdown) ==
  UNION { Shift(to_padded5_bcd(breakdown.min), 59 - 8),
          Shift(to_padded5_bcd(breakdown.hour), 59 - 18),
          Shift(to_padded5_bcd(breakdown.yday + 1), 59 - 33),
          Shift(to_bcd(breakdown.year % 100), 59 - 48),
          Shift(to_bcd(breakdown.wday), 59 - 52) }

JJYParity(data) ==
  UNION { data, Flag(parity(data, 59 - 18, 59 - 12), 59 - 36),
          Flag(parity(data, 59 - 8, 59 - 1), 59 - 37) }

JJYPrepareMinute(zone, t) == JJYParity(JJYData(localtime(zone, t)))

JJYModulation(time_bits, second) ==
  LET high == IF second = 0 \/ second % 10 = 9 \/ second > 59 THEN 2
              ELSE IF 59 - second \in time_bits THEN 5 ELSE 8
  IN  <<Level("HIGH", high), Level("LOW", 0)>>

=============================================================================
