------------------------------ MODULE Receiver ------------------------------
(***************************************************************************)
(* What a radio clock makes of sixty seconds (twenty for BPC), by the field *)
(* tables of the five time codes, read independently of the encoders: the   *)
(* reference against which they are checked.  Seconds are numbered from 0;  *)
(* second s of a window is its element s + 1.                              *)
(***************************************************************************)
EXTENDS TimeCode, Sequences, FiniteSetsExt

Garbled == [garbled |-> TRUE]

(* The value of the bits "first", "first + 1", ... under their weights.    *)
Value(word, first, weights) ==
  MapThenSumSet(LAMBDA k : weights[k],
                {k \in DOMAIN weights : first + k - 1 \in word})

Even(word, seconds) == Cardinality(word \cap seconds) % 2 = 0

Units(n) == SubSeq(<<80, 40, 20, 10, 8, 4, 2, 1>>, 9 - n, 8)

(* WWVB and JJY leave a second between the digits.                         *)
Minutes == <<40, 20, 10, 0, 8, 4, 2, 1>>
Hours   == <<20, 10, 0, 8, 4, 2, 1>>
Days    == <<200, 100, 0, 80, 40, 20, 10, 0, 8, 4, 2, 1>>
Years   == <<80, 40, 20, 10, 0, 8, 4, 2, 1>>

Lasting(window, ticks) ==
  {s \in 0 .. 59 : window[s + 1][1].ticks = ticks}

-----------------------------------------------------------------------------
DecodeDCF77(window) ==
  LET word == Lasting(window, 2)
      Low(n) == SubSeq(<<1, 2, 4, 8, 10, 20, 40, 80>>, 1, n)
  IN  IF /\ Even(word, 21 .. 28) /\ Even(word, 29 .. 35) /\ Even(word, 36 .. 58)
         /\ 20 \in word /\ (17 \in word) # (18 \in word)
      THEN [min |-> Value(word, 21, Low(7)), hour |-> Value(word, 29, Low(6)),
            mday |-> Value(word, 36, Low(6)), wday |-> Value(word, 42, Low(3)),
            mon |-> Value(word, 45, Low(5)), year |-> Value(word, 50, Low(8)),
            dst |-> 17 \in word]
      ELSE Garbled

DecodeWWVB(window) ==
  LET word == Lasting(window, 5)
  IN  [min |-> Value(word, 1, Minutes), hour |-> Value(word, 12, Hours),
       yday |-> Value(word, 22, Days), year |-> Value(word, 45, Years),
       leap |-> 55 \in word, dstTomorrow |-> 57 \in word, dst |-> 58 \in word]

DecodeJJY(window) ==
  LET word == Lasting(window, 5)
  IN  IF Even(word, (12 .. 18) \cup {36}) /\ Even(word, (1 .. 8) \cup {37})
      THEN [min |-> Value(word, 1, Minutes), hour |-> Value(word, 12, Hours),
            yday |-> Value(word, 22, Days), year |-> Value(word, 41, Units(8)),
            wday |-> Value(word, 50, Units(3))]
      ELSE Garbled

DecodeMSF(window) ==
  LET Off(k) == {s \in 1 .. 59 : window[s + 1][k].power = "OFF"}
      a == Off(2)
      b == Off(3)
      Odd(bit, seconds) == Even(a, seconds) = (bit \in b)
  IN  IF /\ Odd(54, 17 .. 24) /\ Odd(55, 25 .. 35)
         /\ Odd(56, 36 .. 38) /\ Odd(57, 39 .. 51)
         /\ a \cap (52 .. 59) = 53 .. 58
      THEN [year |-> Value(a, 17, Units(8)), mon |-> Value(a, 25, Units(5)),
            mday |-> Value(a, 30, Units(6)), wday |-> Value(a, 36, Units(3)),
            hour |-> Value(a, 39, Units(6)), min |-> Value(a, 45, Units(7)),
            dst |-> 58 \in b]
      ELSE Garbled

(* Symbol p of a block carries bits 38 - 2p and its upper neighbour.        *)
DecodeBPC(window) ==
  LET symbol(p) == window[p + 1][1].ticks - 1
      Bit(i)    == (symbol(19 - (i \div 2)) \div (IF i % 2 = 1 THEN 2 ELSE 1)) % 2
      word      == {i \in 0 .. 37 : Bit(i) = 1}
      Field(lsb, width) ==
        Value(word, lsb, SubSeq(<<1, 2, 4, 8, 16, 32, 64>>, 1, width))
      hour12 == Field(31, 4)
  IN  IF Even(word, 1 .. 37) /\ hour12 \in 1 .. 12
      THEN [frame |-> Field(36, 2),
            hour |-> (hour12 % 12) + 12 * Field(35, 1), min |-> Field(25, 6),
            wday |-> Field(22, 3), mday |-> Field(17, 5),
            mon |-> Field(13, 4), year |-> Field(6, 7)]
      ELSE Garbled

-----------------------------------------------------------------------------
FrameLength(station) == IF station = "BPC" THEN 20 ELSE 60

Unreduced(pattern) == pattern = <<[power |-> "HIGH", ticks |-> 0]>>

(* How a clock knows that a frame has just ended: the second without a      *)
(* drop, two markers in a row across the minute, the half-second gap.      *)
FrameEnds(station, window) ==
  LET first == window[1]
      last  == window[Len(window)]
  IN  CASE station = "DCF77" -> Unreduced(last)
        [] station = "BPC"   -> Unreduced(first)
        [] station = "MSF"   -> first[1].ticks = 5
        [] station = "WWVB"  -> first[1].ticks = 8 /\ last[1].ticks = 8
        [] station \in {"JJY40", "JJY60"} ->
             first[1].ticks = 2 /\ last[1].ticks = 2

Decode(station, window) ==
  CASE station = "DCF77" -> DecodeDCF77(window)
    [] station = "WWVB"  -> DecodeWWVB(window)
    [] station = "MSF"   -> DecodeMSF(window)
    [] station = "BPC"   -> DecodeBPC(window)
    [] station \in {"JJY40", "JJY60"} -> DecodeJJY(window)

-----------------------------------------------------------------------------
ISOWeekday(tm) == IF tm.wday = 0 THEN 7 ELSE tm.wday

(* What is meant by a frame, from the local time "now" when it ends and the *)
(* times "sent" (local), "utc" and "tomorrow" at which it was sent.         *)
Meaning(station, frame, now, sent, utc, tomorrow) ==
  CASE station = "DCF77" ->
         [min |-> now.min, hour |-> now.hour, mday |-> now.mday,
          wday |-> ISOWeekday(now), mon |-> now.mon + 1,
          year |-> now.year % 100, dst |-> now.isdst]
    [] station = "MSF" ->
         [year |-> now.year % 100, mon |-> now.mon + 1, mday |-> now.mday,
          wday |-> now.wday, hour |-> now.hour, min |-> now.min,
          dst |-> now.isdst]
    [] station = "WWVB" ->
         [min |-> utc.min, hour |-> utc.hour, yday |-> utc.yday + 1,
          year |-> utc.year % 100, leap |-> IsLeap(utc.year + 1900),
          dstTomorrow |-> tomorrow.isdst, dst |-> sent.isdst]
    [] station \in {"JJY40", "JJY60"} ->
         [min |-> sent.min, hour |-> sent.hour, yday |-> sent.yday + 1,
          year |-> sent.year % 100, wday |-> sent.wday]
    [] station = "BPC" ->
         [frame |-> frame, hour |-> sent.hour, min |-> sent.min,
          wday |-> ISOWeekday(sent), mday |-> sent.mday,
          mon |-> sent.mon + 1, year |-> sent.year % 100]

(* What the clock should show when a frame ends at this minute and second:  *)
(* for DCF77 and MSF the time that begins now, for the others the time the  *)
(* frame was sent in.                                                      *)
TimeMeant(station, zone, minute, second) ==
  LET At(sent) ==
        Meaning(station, ((second + 40) % 60) \div 20, localtime(zone, minute),
                localtime(zone, sent), gmtime(sent),
                localtime(zone, sent + 1440))
  IN  At(IF second = 0 THEN minute - 1 ELSE minute)

=============================================================================
