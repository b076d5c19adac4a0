------------------------------- MODULE Dcf77 -------------------------------
(***************************************************************************)
(* src/dcf77-source.cc: the DCF77 time code, 77.5 kHz.  time_bits_ is the   *)
(* set of the seconds that carry a 1.                                      *)
(***************************************************************************)
EXTENDS TimeCode

DCF77CarrierFrequency == 155    \* 77500 Hz in units of 500 Hz

DCF77Data(breakdown) ==
  LET weekday == IF breakdown.wday = 0 THEN 7 ELSE breakdown.wday
  IN  UNION { Flag(breakdown.isdst, 17), Flag(~breakdown.isdst, 18), {20},
              Shift(to_bcd(breakdown.min), 21),
              Shift(to_bcd(breakdown.hour), 29),
              Shift(to_bcd(breakdown.mday), 36),
              Shift(to_bcd(weekday), 42),
              Shift(to_bcd(breakdown.mon + 1), 45),
              Shift(to_bcd(breakdown.year % 100), 50) }

DCF77Parity(data) ==
  UNION { data, Flag(parity(data, 21, 27), 28),
          Flag(parity(data, 29, 34), 35), Flag(parity(data, 36, 57), 58) }

(* The upcoming minute is sent.                                            *)
DCF77PrepareMinute(zone, t) == DCF77Parity(DCF77Data(localtime(zone, t + 1)))

(* Mutant of DCF77Modulation: > 59 for >= 59.                              *)
DCF77ModulationUnmarked(time_bits, second) ==
  IF second > 59 THEN <<Level("HIGH", 0)>>
  ELSE <<Level("LOW", IF second \in time_bits THEN 2 ELSE 1), Level("HIGH", 0)>>

DCF77Modulation(time_bits, second) ==
  IF second >= 59 THEN <<Level("HIGH", 0)>>
  ELSE <<Level("LOW", IF second \in time_bits THEN 2 ELSE 1), Level("HIGH", 0)>>

=============================================================================
