-------------------------------- MODULE Bpc --------------------------------
(***************************************************************************)
(* src/bpc-source.cc: the BPC time code, 68.5 kHz.  Three blocks a minute;  *)
(* a second carries a symbol of two bits, none in the first of a block.    *)
(***************************************************************************)
EXTENDS TimeCode

BPCCarrierFrequency == 137

Marker == 255

put_bits(lsb, width, value) ==
  Shift({i \in BitsOf(value) : i < width}, lsb)

EvenParity(data) == data \cup Flag(parity(data, 2, 37), 1)

EncodeBlock(tm, frame) ==
  LET hour12  == IF tm.hour % 12 = 0 THEN 12 ELSE tm.hour % 12
      weekday == IF tm.wday = 0 THEN 7 ELSE tm.wday
  IN  EvenParity(
        UNION { put_bits(36, 2, frame),
                put_bits(35, 1, IF tm.hour >= 12 THEN 1 ELSE 0),
                put_bits(31, 4, hour12), put_bits(25, 6, tm.min),
                put_bits(22, 3, weekday), put_bits(17, 5, tm.mday),
                put_bits(13, 4, tm.mon + 1), put_bits(6, 7, tm.year % 100) })

(* symbols_: a block starts 20 seconds after the one before, in the same    *)
(* minute, so the broken-down times of the three differ in tm_sec only.    *)
BPCPrepareMinute(zone, t) ==
  LET Weight(word, bit, value) == IF bit \in word THEN value ELSE 0
      Symbol(bits, p) ==
        IF p = 0 THEN Marker
        ELSE Weight(bits, 2 * (19 - p) + 1, 2) + Weight(bits, 2 * (19 - p), 1)
      Symbols(block) ==
        [second \in 0 .. 59 |-> Symbol(block[second \div 20], second % 20)]
      Blocks(tm) == [frame \in 0 .. 2 |-> EncodeBlock(tm, frame)]
  IN  Symbols(Blocks(localtime(zone, t)))

BPCModulation(symbols, second) ==
  LET s == symbols[second % 60]
  IN  IF s = Marker THEN <<Level("HIGH", 0)>>
      ELSE <<Level("LOW", s + 1), Level("HIGH", 0)>>

=============================================================================
