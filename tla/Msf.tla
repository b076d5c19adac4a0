-------------------------------- MODULE Msf --------------------------------
(***************************************************************************)
(* src/msf-source.cc: the MSF time code, 60 kHz on-off keying, two bits in  *)
(* a second.  Bits 59 - s of a_bits_ and b_bits_ are sent in second s.      *)
(***************************************************************************)
EXTENDS TimeCode

MSFCarrierFrequency == 120

MSFABits(breakdown) ==
  UNION { 1 .. 6,
          Shift(to_bcd(breakdown.year % 100), 59 - 24),
          Shift(to_bcd(breakdown.mon + 1), 59 - 29),
          Shift(to_bcd(breakdown.mday), 59 - 35),
          Shift(to_bcd(breakdown.wday), 59 - 38),
          Shift(to_bcd(breakdown.hour), 59 - 44),
          Shift(to_bcd(breakdown.min), 59 - 51) }

MSFBBits(a_bits, isdst) ==
  LET odd_parity(from, to_including) == ~parity(a_bits, from, to_including)
  IN  UNION { Flag(odd_parity(59 - 24, 59 - 17), 59 - 54),
              Flag(odd_parity(59 - 35, 59 - 25), 59 - 55),
              Flag(odd_parity(59 - 38, 59 - 36), 59 - 56),
              Flag(odd_parity(59 - 51, 59 - 39), 59 - 57),
              Flag(isdst, 59 - 58) }

(* The upcoming minute is sent.                                            *)
MSFPrepareMinute(zone, t) ==
  LET Bits(breakdown) ==
        [a |-> MSFABits(breakdown),
         b |-> MSFBBits(MSFABits(breakdown), breakdown.isdst)]
  IN  Bits(localtime(zone, t + 1))

(* Mutant of MSFModulation: the last level timed as well.                  *)
MSFModulationTimed(bits, second) ==
  LET Send(word) == Level(IF 59 - second \in word THEN "OFF" ELSE "HIGH", 1)
  IN  IF second = 0 THEN <<Level("OFF", 5), Level("HIGH", 5)>>
      ELSE <<Level("OFF", 1), Send(bits.a), Send(bits.b), Level("HIGH", 7)>>

MSFModulation(bits, second) ==
  LET Send(word) == Level(IF 59 - second \in word THEN "OFF" ELSE "HIGH", 1)
  IN  IF second = 0 THEN <<Level("OFF", 5), Level("HIGH", 0)>>
      ELSE <<Level("OFF", 1), Send(bits.a), Send(bits.b), Level("HIGH", 0)>>

=============================================================================
