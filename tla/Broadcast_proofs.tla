-------------------------- MODULE Broadcast_proofs --------------------------
(***************************************************************************)
(* What holds of the six stations at every minute, in every time zone: the    *)
(* shape of their seconds and the minute mark, for which the bits of the time  *)
(* do not matter; that a clock shows, and the page announces, the time that is *)
(* meant, from what TimeCode_proofs says of the time codes.  And of the pure     *)
(* algorithms beside them: the divider, for any carrier, and calcDrift, for    *)
(* any times of day.                                                       *)
(***************************************************************************)
EXTENDS MCBroadcast, TimeCode_proofs

-----------------------------------------------------------------------------
(* A clock has heard the seconds before the one about to be sent.               *)
HeardInv ==
  /\ station \in Stations
  /\ minute \in Nat
  /\ second \in 0 .. 59
  /\ frame = PrepareMinute(station, ZoneOf(station), minute)
  /\ HeardUntil(station, ZoneOf(station), heard, minute, second)

LEMMA SentNow ==
  ASSUME HeardInv
  PROVE  SentAs(station, ZoneOf(station), Pattern, second, minute)
BY DEF HeardInv, SentAs, Pattern

LEMMA HearNext ==
  ASSUME HeardInv, NEW next, next = (second + 1) % 60,
         NEW then, then = IF second = 59 THEN minute + 1 ELSE minute
  PROVE  HeardUntil(station, ZoneOf(station), Hear, then, next)
<1>1. Hear = Hearing(station, heard, Pattern)
  BY DEF Hear, Hearing
<1>2. HeardUntil(station, ZoneOf(station), Hearing(station, heard, Pattern), then, next)
  <2>1. minute \in Int
    BY DEF HeardInv
  <2> QED
    BY <2>1, SentNow, HearsOn DEF HeardInv
<1> QED
  BY <1>1, <1>2

LEMMA AlwaysHeard == Spec => []HeardInv
<1>1. Init => HeardInv
  <2> SUFFICES ASSUME Init PROVE HeardInv
    OBVIOUS
  <2>1. /\ station \in Stations /\ minute \in Nat /\ second \in 0 .. 59
        /\ frame = PrepareMinute(station, ZoneOf(station), minute)
    BY BroadcastAssumption DEF Init
  <2>2. HeardUntil(station, ZoneOf(station), heard, minute, second)
    BY NothingHeard DEF Init
  <2> QED
    BY <2>1, <2>2 DEF HeardInv
<1>2. HeardInv /\ [Next]_vars => HeardInv'
  <2> SUFFICES ASSUME HeardInv, [Next]_vars PROVE HeardInv'
    OBVIOUS
  <2>1. second \in 0 .. 59 /\ minute \in Nat /\ station \in Stations
    BY DEF HeardInv
  <2>2. CASE SendSecond
    <3>1. /\ second' \in 0 .. 59 /\ second' = (second + 1) % 60 /\ second # 59
          /\ heard' = Hear /\ UNCHANGED <<station, minute, frame>>
      BY <2>1, <2>2 DEF SendSecond
    <3>2. HeardUntil(station, ZoneOf(station), Hear, minute, second')
      BY <3>1, HearNext
    <3> QED
      BY <3>1, <3>2 DEF HeardInv
  <2>3. CASE SendLastSecond
    <3>1. /\ second' \in 0 .. 59 /\ second' = (second + 1) % 60 /\ second = 59
          /\ heard' = Hear /\ UNCHANGED station
          /\ minute' = minute + 1 /\ minute' \in Nat
          /\ frame' = PrepareMinute(station, ZoneOf(station), minute')
      BY <2>1, <2>3 DEF SendLastSecond
    <3>2. HeardUntil(station, ZoneOf(station), Hear, minute', second')
      BY <3>1, HearNext
    <3> QED
      BY <2>1, <3>1, <3>2 DEF HeardInv
  <2>4. CASE UNCHANGED vars
    BY <2>4 DEF HeardInv, vars
  <2> QED
    BY <2>2, <2>3, <2>4 DEF Next
<1> QED
  BY <1>1, <1>2, PTL DEF Spec

-----------------------------------------------------------------------------
(* A second ends reduced only at JJY, and there none begins reduced; and MSF    *)
(* alone switches the carrier off.                                         *)
JJY == {"JJY40", "JJY60"}

BeginsHigh(p) == p[1].power = "HIGH"

EndsHigh(p) == p[Len(p)].power = "HIGH"

Powers(source) == IF source = "MSF" THEN {"OFF", "HIGH"} ELSE {"LOW", "HIGH"}

LEMMA EndsOfSeconds ==
  ASSUME NEW source \in Stations, NEW s \in 0 .. 59, NEW p, IsSecond(source, s, p)
  PROVE  /\ source \in JJY => BeginsHigh(p)
         /\ source \notin JJY => EndsHigh(p)
         /\ \A i \in DOMAIN p : p[i].power \in Powers(source)
<1> USE DEF JJY, BeginsHigh, EndsHigh
<1>1. ASSUME p = <<Level("HIGH", 0)>>
      PROVE  p[1].power = "HIGH" /\ Len(p) = 1 /\ \A i \in DOMAIN p : i = 1
  BY <1>1 DEF Level
<1>2. ASSUME NEW one, NEW other, NEW n, p = <<Level(one, n), Level(other, 0)>>
      PROVE  /\ p[1].power = one /\ p[2].power = other /\ Len(p) = 2
             /\ \A i \in DOMAIN p : i = 1 \/ i = 2
  BY <1>2 DEF Level
<1>3. CASE source = "DCF77"
  <2>1. CASE s = 59
    BY <1>1, <1>3, <2>1 DEF IsSecond, IsDCF77Second, Powers
  <2>2. CASE s # 59
    <3>1. PICK n : p = <<Level("LOW", n), Level("HIGH", 0)>>
      BY <1>3, <2>2 DEF IsSecond, IsDCF77Second
    <3> QED
      BY <1>2, <1>3, <3>1 DEF Powers
  <2> QED
    BY <2>1, <2>2
<1>4. CASE source = "WWVB"
  <2>1. PICK n : p = <<Level("LOW", n), Level("HIGH", 0)>>
    BY <1>4 DEF IsSecond, IsWWVBSecond
  <2> QED
    BY <1>2, <1>4, <2>1 DEF Powers
<1>5. CASE source \in {"JJY40", "JJY60"}
  <2>1. PICK n : p = <<Level("HIGH", n), Level("LOW", 0)>>
    BY <1>5 DEF IsSecond, IsJJYSecond
  <2> QED
    BY <1>2, <1>5, <2>1 DEF Powers
<1>6. CASE source = "MSF"
  <2>1. CASE s = 0
    <3>1. p = <<Level("OFF", 5), Level("HIGH", 0)>>
      BY <1>6, <2>1 DEF IsSecond, IsMSFSecond
    <3> QED
      BY <1>2, <1>6, <3>1 DEF Powers
  <2>2. CASE s # 0
    <3>1. PICK a, b \in {"OFF", "HIGH"} :
            p = <<Level("OFF", 1), Level(a, 1), Level(b, 1), Level("HIGH", 0)>>
      BY <1>6, <2>2 DEF IsSecond, IsMSFSecond
    <3>2. /\ Len(p) = 4
          /\ p[1].power = "OFF" /\ p[2].power = a
          /\ p[3].power = b /\ p[4].power = "HIGH"
          /\ \A i \in DOMAIN p : i \in 1 .. 4
      BY <3>1 DEF Level
    <3> QED
      BY <1>6, <3>1, <3>2 DEF Powers
  <2> QED
    BY <2>1, <2>2
<1>7. CASE source = "BPC"
  <2>1. CASE s % 20 = 0
    BY <1>1, <1>7, <2>1 DEF IsSecond, IsBPCSecond, Powers
  <2>2. CASE s % 20 # 0
    <3>1. PICK n : p = <<Level("LOW", n), Level("HIGH", 0)>>
      BY <1>7, <2>2 DEF IsSecond, IsBPCSecond
    <3> QED
      BY <1>2, <1>7, <3>1 DEF Powers
  <2> QED
    BY <2>1, <2>2
<1> QED
  BY <1>3, <1>4, <1>5, <1>6, <1>7 DEF Stations

(***************************************************************************)
(* Whatever time is sent, in whatever zone, the seconds of every station are   *)
(* within what the main loop and the two platforms can do                    *)
(* (include/time-signal-source.h:47-57, rpi-control.cc:324-326).              *)
(***************************************************************************)
THEOREM EverySecondFits == Spec => []PatternsFit
<1>1. HeardInv => PatternsFit
  <2> SUFFICES ASSUME HeardInv PROVE PatternsFit
    OBVIOUS
  <2> DEFINE k == Len(heard)
             levels(pattern) == {pattern[i].power : i \in DOMAIN pattern}
  <2>1. station \in Stations /\ second \in 0 .. 59 /\ k \in Nat
    BY DEF HeardInv, HeardUntil
  <2>2. DOMAIN heard = 1 .. k /\ (heard # <<>> => k \in 1 .. k)
    BY DEF HeardInv, HeardUntil
  <2>3. IsSecond(station, second, Pattern)
    BY <2>1, SentNow, SentIsASecond
  <2>4. ASSUME NEW i \in 1 .. k
        PROVE  \E s \in 0 .. 59 : IsSecond(station, s, heard[i])
    BY <2>1, HeardSecond DEF HeardInv
  <2>5. FitsSecond(Pattern, 10) /\ NoLowAgain(Pattern)
    BY <2>1, <2>3, SecondsFit
  <2>6. ASSUME heard # <<>>
        PROVE  ~LowAgain(heard[k][Len(heard[k])], Pattern[1])
    <3>1. PICK s \in 0 .. 59 : IsSecond(station, s, heard[k])
      BY <2>4, <2>6, <2>2
    <3>2. station \in JJY => BeginsHigh(Pattern)
      BY <2>1, <2>3, EndsOfSeconds
    <3>3. station \notin JJY => EndsHigh(heard[k])
      BY <2>1, <3>1, EndsOfSeconds
    <3> QED
      BY <3>2, <3>3 DEF LowAgain, BeginsHigh, EndsHigh
  <2>7. /\ levels(Pattern) \subseteq Powers(station)
        /\ \A i \in 1 .. k : levels(heard[i]) \subseteq Powers(station)
    <3>1. levels(Pattern) \subseteq Powers(station)
      BY <2>1, <2>3, EndsOfSeconds
    <3>2. ASSUME NEW i \in 1 .. k PROVE levels(heard[i]) \subseteq Powers(station)
      <4>1. PICK s \in 0 .. 59 : IsSecond(station, s, heard[i])
        BY <2>4
      <4> QED
        BY <2>1, <4>1, EndsOfSeconds
    <3> QED
      BY <3>1, <3>2
  <2> HIDE DEF levels
  <2>8. ~({"OFF", "LOW"} \subseteq
            levels(Pattern) \cup UNION {levels(heard[i]) : i \in DOMAIN heard})
    <3>1. levels(Pattern) \cup UNION {levels(heard[i]) : i \in DOMAIN heard}
            \subseteq Powers(station)
      BY <2>7, <2>2
    <3> HIDE DEF k
    <3> QED
      BY <3>1 DEF Powers
  <2> USE DEF levels
  <2> QED
    BY <2>5, <2>6, <2>8 DEF PatternsFit
<1> QED
  BY <1>1, AlwaysHeard, PTL

-----------------------------------------------------------------------------
(***************************************************************************)
(* A clock switched on at any second of any minute cannot take another one     *)
(* for the end of a frame, whatever time is sent.                             *)
(***************************************************************************)
THEOREM NoFalseMark == Spec => []MarkIsUnambiguous
<1>1. HeardInv => MarkIsUnambiguous
  <2> SUFFICES ASSUME HeardInv, Complete
               PROVE  FrameEnds(station, heard) <=> EndsBefore(station, second)
    BY DEF MarkIsUnambiguous, EndsBefore
  <2>1. IsWhole(station, heard)
    BY DEF Complete, IsWhole
  <2> QED
    BY <2>1, FrameEndsInTime DEF HeardInv
<1> QED
  BY <1>1, AlwaysHeard, PTL

-----------------------------------------------------------------------------
(* The loop over kClockSources finds the best divider for every carrier, not  *)
(* only for those of the stations.                                         *)
LEMMA FrequencyIsPositive ==
  \A i \in SourceIndex : Frequency(i) \in Nat \ {0}
BY DEF SourceIndex, Frequency, ClockSources

LEMMA Division ==
  ASSUME NEW n \in Nat, NEW d \in Nat \ {0}
  PROVE  /\ n \div d \in Nat
         /\ n % d \in 0 .. d - 1
         /\ n = d * (n \div d) + (n % d)
OBVIOUS

(***************************************************************************)
(* A quotient between two bounds.                                          *)
(***************************************************************************)
LEMMA QuotientBetween ==
  ASSUME NEW q \in Nat, NEW r \in Nat, NEW d \in Nat \ {0}, r < d,
         NEW low \in Nat, NEW high \in Nat,
         low * d <= d * q + r, d * q + r <= high * d
  PROVE  q \in low .. high
<1>1. q >= low
  <2>1. SUFFICES ASSUME q + 1 <= low PROVE FALSE
    OBVIOUS
  <2>2. d * (q + 1) <= d * low
    BY <2>1
  <2> QED
    BY <2>2
<1>2. q <= high
  <2>1. SUFFICES ASSUME high + 1 <= q PROVE FALSE
    OBVIOUS
  <2>2. d * (high + 1) <= d * q
    BY <2>1
  <2> QED
    BY <2>2
<1> QED
  BY <1>1, <1>2

(***************************************************************************)
(* What an oscillator's divider is worth if it is in range.                  *)
(***************************************************************************)
LEMMA DividerInRange ==
  ASSUME NEW requested \in Nat \ {0}, NEW i \in SourceIndex,
         InRange(i, requested)
  PROVE  /\ DivI(i, requested) \in 2 .. 4095
         /\ DivF(i, requested) \in 0 .. 1023
         /\ Steps(i, requested) \in Nat \ {0}
         /\ requested * Steps(i, requested) <= 1024 * Frequency(i)
         /\ 1024 * Frequency(i) < requested * (Steps(i, requested) + 1)
         /\ Excess(i, requested) \in Nat
<1> DEFINE F == Frequency(i)
           q == F \div requested
           r == F % requested
           n == r * 1024
           f == n \div requested
           g == n % requested
<1>1. F \in Nat
  BY FrequencyIsPositive
<1>2. q \in Nat /\ r \in 0 .. requested - 1 /\ F = requested * q + r
  BY <1>1, Division
<1> HIDE DEF F, q, r
<1>3. n \in Nat
  BY <1>2
<1> HIDE DEF n
<1>4. f \in Nat /\ g \in 0 .. requested - 1 /\ n = requested * f + g
  BY <1>3, Division
<1> HIDE DEF f, g
<1>5. r * 1024 = requested * f + g
  BY <1>4 DEF n
<1>6. q \in 2 .. 4095
  <2>1. 2 * requested <= requested * q + r /\ requested * q + r <= 4095 * requested
    BY <1>2 DEF InRange, F
  <2> QED
    BY <1>2, <2>1, QuotientBetween
<1>7. f \in 0 .. 1023
  <2>1. requested * f + g <= 1023 * requested + (requested - 1)
    BY <1>2, <1>4, <1>5
  <2>2. SUFFICES ASSUME 1024 <= f PROVE FALSE
    BY <1>4, <1>5
  <2>3. requested * 1024 <= requested * f
    BY <1>4, <1>5, <2>2
  <2> QED
    BY <1>4, <1>5, <2>1, <2>3
<1>8. Steps(i, requested) = 1024 * q + f
  BY DEF Steps, DivI, DivF, F, q, r, n, f
<1>9. requested * (1024 * q + f) = 1024 * (requested * q) + requested * f
  BY <1>2, <1>4, <1>5
<1>10. 1024 * F = requested * (1024 * q + f) + g
  BY <1>2, <1>4, <1>5, <1>9
<1>11. requested * (1024 * q + f + 1) = requested * (1024 * q + f) + requested
  BY <1>2, <1>4, <1>5
<1>12. /\ DivI(i, requested) = q
       /\ DivF(i, requested) = f
       /\ Excess(i, requested) = 1024 * F - requested * (1024 * q + f)
  BY <1>8 DEF Excess, DivI, DivF, F, q, r, n, f
<1>13. /\ Steps(i, requested) \in Nat \ {0}
       /\ requested * Steps(i, requested) \in Nat
  BY <1>6, <1>7, <1>8
<1> QED
  BY <1>1, <1>4, <1>5, <1>6, <1>7, <1>8, <1>10, <1>11, <1>12, <1>13 DEF F

(***************************************************************************)
(* Errors are compared as fractions: if a/p < b/q and c/r is not less than    *)
(* b/q, then a/p < c/r.                                                    *)
(***************************************************************************)
LEMMA FractionsCompare ==
  ASSUME NEW a \in Nat, NEW b \in Nat, NEW c \in Nat,
         NEW p \in Nat \ {0}, NEW q \in Nat \ {0}, NEW r \in Nat \ {0},
         a * q < b * p, ~(c * q < b * r)
  PROVE  a * r < c * p
<1>1. (a * q) * r < (b * p) * r
  OBVIOUS
<1>2. (b * r) * p <= (c * q) * p
  OBVIOUS
<1>3. q * (a * r) < q * (c * p)
  BY <1>1, <1>2
<1>4. SUFFICES ASSUME c * p <= a * r PROVE FALSE
  OBVIOUS
<1>5. q * (c * p) <= q * (a * r)
  BY <1>4
<1> QED
  BY <1>3, <1>5

LEMMA SmallerErrorOrder ==
  ASSUME NEW requested \in Nat \ {0},
         NEW i \in SourceIndex, NEW j \in SourceIndex, NEW k \in SourceIndex,
         InRange(i, requested), InRange(j, requested), InRange(k, requested)
  PROVE  /\ ~SmallerError(i, i, requested)
         /\ SmallerError(i, j, requested) => ~SmallerError(j, i, requested)
         /\ SmallerError(i, j, requested) /\ ~SmallerError(k, j, requested)
              => SmallerError(i, k, requested)
<1>1. \A n \in {i, j, k} :
        Excess(n, requested) \in Nat /\ Steps(n, requested) \in Nat \ {0}
  BY DividerInRange
<1>2. ~SmallerError(i, i, requested)
  BY <1>1 DEF SmallerError
<1>3. SmallerError(i, j, requested) => ~SmallerError(j, i, requested)
  BY <1>1 DEF SmallerError
<1>4. ASSUME SmallerError(i, j, requested), ~SmallerError(k, j, requested)
      PROVE  SmallerError(i, k, requested)
  BY <1>1, <1>4, FractionsCompare DEF SmallerError
<1> QED
  BY <1>2, <1>3, <1>4

-----------------------------------------------------------------------------
(* What the loop has found when it has considered the first n sources.       *)
BestOfFirst(n, best, requested) ==
  /\ best \in 0 .. n
  /\ best # NoSource => InRange(best, requested)
  /\ \A i \in 1 .. n :
       InRange(i, requested) =>
         /\ best # NoSource
         /\ ~SmallerError(i, best, requested)
         /\ i < best => SmallerError(best, i, requested)

(***************************************************************************)
(* One more source considered.                                             *)
(***************************************************************************)
LEMMA OneMoreSource ==
  ASSUME NEW requested \in Nat \ {0}, NEW n \in 0 .. 3, NEW best,
         BestOfFirst(n, best, requested)
  PROVE  BestOfFirst(n + 1, Consider(best, n + 1, requested), requested)
<1> DEFINE next == Consider(best, n + 1, requested)
           Taken == /\ InRange(n + 1, requested)
                    /\ best = NoSource \/ SmallerError(n + 1, best, requested)
<1>1. /\ n + 1 \in SourceIndex
      /\ best \in 0 .. n /\ (best # NoSource => best \in SourceIndex)
      /\ \A i \in 1 .. n + 1 : i \in SourceIndex /\ (i \in 1 .. n \/ i = n + 1)
  BY DEF BestOfFirst, SourceIndex, NoSource
<1>2. CASE Taken
  <2>1. next = n + 1
    BY <1>2 DEF Consider
  <2>2. ASSUME NEW i \in 1 .. n, InRange(i, requested)
        PROVE  SmallerError(n + 1, i, requested)
    <3>1. best # NoSource /\ ~SmallerError(i, best, requested)
      BY <2>2 DEF BestOfFirst
    <3>2. InRange(best, requested) /\ SmallerError(n + 1, best, requested)
      BY <1>2, <3>1 DEF BestOfFirst
    <3> QED
      BY <1>1, <1>2, <2>2, <3>1, <3>2, SmallerErrorOrder
  <2>3. ASSUME NEW i \in 1 .. n + 1, InRange(i, requested)
        PROVE  /\ ~SmallerError(i, n + 1, requested)
               /\ i < n + 1 => SmallerError(n + 1, i, requested)
    <3>1. CASE i \in 1 .. n
      BY <1>1, <1>2, <2>2, <2>3, <3>1, SmallerErrorOrder
    <3>2. CASE i = n + 1
      BY <1>1, <1>2, <3>2, SmallerErrorOrder
    <3> QED
      BY <1>1, <3>1, <3>2
  <2> QED
    BY <1>2, <2>1, <2>3 DEF BestOfFirst, NoSource
<1>3. CASE ~Taken
  <2>1. next = best
    BY <1>3 DEF Consider
  <2>2. ASSUME NEW i \in 1 .. n + 1, InRange(i, requested)
        PROVE  /\ best # NoSource
               /\ ~SmallerError(i, best, requested)
               /\ i < best => SmallerError(best, i, requested)
    <3>1. CASE i \in 1 .. n
      BY <2>2, <3>1 DEF BestOfFirst
    <3>2. CASE i = n + 1
      BY <1>1, <1>3, <2>2, <3>2
    <3> QED
      BY <1>1, <3>1, <3>2
  <2> QED
    BY <1>1, <2>1, <2>2 DEF BestOfFirst
<1> QED
  BY <1>2, <1>3

(***************************************************************************)
(* The four sources considered one after the other.                         *)
(***************************************************************************)
LEMMA AllSources ==
  ASSUME NEW requested \in Nat \ {0}
  PROVE  BestOfFirst(4, BestSource(requested), requested)
<1> DEFINE b1 == Consider(NoSource, 1, requested)
           b2 == Consider(b1, 2, requested)
           b3 == Consider(b2, 3, requested)
           b4 == Consider(b3, 4, requested)
<1>1. BestOfFirst(0, NoSource, requested)
  BY DEF BestOfFirst, NoSource
<1>2. BestOfFirst(0 + 1, Consider(NoSource, 0 + 1, requested), requested)
  BY <1>1, OneMoreSource
<1>3. BestOfFirst(1, b1, requested)
  BY <1>2
<1> HIDE DEF b1
<1>4. BestOfFirst(1 + 1, Consider(b1, 1 + 1, requested), requested)
  BY <1>3, OneMoreSource
<1>5. BestOfFirst(2, b2, requested)
  BY <1>4
<1> HIDE DEF b2
<1>6. BestOfFirst(2 + 1, Consider(b2, 2 + 1, requested), requested)
  BY <1>5, OneMoreSource
<1>7. BestOfFirst(3, b3, requested)
  BY <1>6
<1> HIDE DEF b3
<1>8. BestOfFirst(3 + 1, Consider(b3, 3 + 1, requested), requested)
  BY <1>7, OneMoreSource
<1>9. BestOfFirst(4, b4, requested)
  BY <1>8
<1> QED
  BY <1>9 DEF BestSource, b1, b2, b3

(***************************************************************************)
(* Of all sources whose divider fits, StartClock takes the one that misses    *)
(* the carrier by least, the first of those that miss it equally            *)
(* (rpi-control.cc:110-138).                                               *)
(***************************************************************************)
THEOREM BestSourceIsTaken ==
  ASSUME NEW requested \in Nat \ {0}
  PROVE  TakesBestSource(requested)
BY AllSources DEF TakesBestSource, BestOfFirst, SourceIndex

(***************************************************************************)
(* The divider of a carrier that can be synthesized fits the 12 bits and the  *)
(* 10 bits of the register, and is the slowest that is not too slow          *)
(* (rpi-control.cc:127-129, 142).                                          *)
(***************************************************************************)
THEOREM DividerFitsRegister ==
  ASSUME NEW requested \in Nat \ {0}, Synthesizable(requested)
  PROVE  FitsRegister(requested)
<1>1. /\ BestSource(requested) \in SourceIndex
      /\ InRange(BestSource(requested), requested)
  BY AllSources DEF BestOfFirst, Synthesizable, NoSource, SourceIndex
<1> QED
  BY <1>1, DividerInRange, SMTT(30) DEF FitsRegister

-----------------------------------------------------------------------------
(* calcDrift.                                                              *)
(***************************************************************************)
(* The real time computed for the watch's 02:00 is a time of day, and the     *)
(* drift brings it to 02:00.  A watch that is more than two hours fast is      *)
(* the case that needs the second remainder.                               *)
(***************************************************************************)
LEMMA TwoIsShown ==
  ASSUME NEW drift \in -720 .. 720
  PROVE  /\ RealTimeOfTwo(drift) \in TimeOfDay
         /\ (RealTimeOfTwo(drift) + drift) % Day = 120
<1>1. CASE drift <= 120
  <2>1. RealTimeOfTwo(drift) = 120 - drift
    BY <1>1 DEF RealTimeOfTwo, Remainder, Day
  <2> QED
    BY <1>1, <2>1 DEF TimeOfDay, Day
<1>2. CASE drift > 120
  <2>1. RealTimeOfTwo(drift) = 1560 - drift
    BY <1>2 DEF RealTimeOfTwo, Remainder, Day
  <2> QED
    BY <1>2, <2>1 DEF TimeOfDay, Day
<1> QED
  BY <1>1, <1>2

(***************************************************************************)
(* For any two times of day the drift lies within half a day, brings the      *)
(* Pi's time to the watch's, and gives a real time at which the watch shows   *)
(* 02:00 (web/txtempus-web.py:875-896).                                    *)
(***************************************************************************)
THEOREM DriftIsAlwaysRight ==
  ASSUME NEW watch \in TimeOfDay, NEW real \in TimeOfDay
  PROVE  DriftIsRight(watch, real)
<1>1. /\ Drift(watch, real) \in -720 .. 720
      /\ (real + Drift(watch, real)) % Day = watch
  BY SMTT(30) DEF Drift, TimeOfDay, Day
<1> QED
  BY <1>1, TwoIsShown, ZenonT(30) DEF DriftIsRight

-----------------------------------------------------------------------------
(***************************************************************************)
(* The two as properties of the run that tries them: while the broadcasts run  *)
(* through their minutes and seconds.                                       *)
(***************************************************************************)
THEOREM DriftStaysRight == Spec => []DriftIsNearest
<1>1. HeardInv => DriftIsNearest
  <2>1. SUFFICES ASSUME minute \in Nat, NEW watch \in Watches(minute % Day)
                 PROVE  DriftIsRight(watch, minute % Day)
    BY DEF HeardInv, DriftIsNearest
  <2>2. minute % Day \in TimeOfDay /\ watch \in TimeOfDay
    <3>1. \A t \in Int : t % Day \in TimeOfDay
      BY DEF TimeOfDay, Day
    <3>2. minute % Day \in TimeOfDay /\ TimeOfDay \subseteq Int
      BY <2>1, <3>1 DEF TimeOfDay
    <3>3. PICK d \in Int : watch = ((minute % Day) + d) % Day
      BY DEF Watches
    <3>4. minute % Day \in Int
      BY <3>2
    <3>5. ((minute % Day) + d) % Day \in TimeOfDay
      BY <3>1, <3>4
    <3> QED
      BY <3>2, <3>3, <3>5
  <2> QED
    BY <2>2, DriftIsAlwaysRight
<1> QED
  BY <1>1, AlwaysHeard, PTL

THEOREM DividerStaysBest == Spec => []DividerIsBest
<1>1. HeardInv => DividerIsBest
  <2>1. SUFFICES ASSUME minute \in Nat, second \in 0 .. 59 PROVE DividerIsBest
    BY DEF HeardInv
  <2>2. Requested \in Nat \ {0}
    BY <2>1 DEF Requested
  <2> QED
    BY <2>2, BestSourceIsTaken, DividerFitsRegister DEF DividerIsBest
<1> QED
  BY <1>1, AlwaysHeard, PTL

-----------------------------------------------------------------------------
(* What a clock has heard is the frame of its station, sent in one minute.       *)
(* The stations and minutes of the run: see BroadcastAssumption.                *)
SentInv == station \in Station /\ minute >= 1440

LEMMA AlwaysSent == Spec => [](HeardInv /\ SentInv)
<1>1. Init => SentInv
  BY BroadcastAssumption DEF Init, SentInv
<1>2. HeardInv /\ SentInv /\ [Next]_vars => SentInv'
  BY DEF HeardInv, SentInv, Next, SendSecond, SendLastSecond, vars
<1> QED
  BY <1>1, <1>2, AlwaysHeard, PTL DEF Spec

(* The frame that has ended, and the minute it was sent in.                    *)
SentAt == FrameSent(minute, second)

Block == BlockSent(second)

(***************************************************************************)
(* A clock that has heard a whole frame of any station, whenever it has been   *)
(* switched on, shows the time its station means, whatever the minute and the *)
(* zone: every bit of every field, parity and flag of the five time codes     *)
(* (src/dcf77-source.cc, wwvb-source.cc, jjy-source.cc, msf-source.cc,         *)
(* bpc-source.cc).                                                         *)
(***************************************************************************)
THEOREM ClockIsRight == Spec => []ClockShowsTheTime
<1>1. HeardInv /\ SentInv /\ MarkIsUnambiguous => ClockShowsTheTime
  <2> SUFFICES ASSUME HeardInv, SentInv, MarkIsUnambiguous, Complete,
                      FrameEnds(station, heard)
               PROVE  Decode(station, heard)
                        = TimeMeant(station, ZoneOf(station), minute, second)
    BY Zenon DEF ClockShowsTheTime
  <2>1. EndsBefore(station, second) /\ IsWhole(station, heard)
    BY Zenon DEF MarkIsUnambiguous, EndsBefore, Complete, IsWhole
  <2>2. station \in Stations /\ ZoneOf(station) \in Zones /\ minute >= 1440
    BY BroadcastAssumption DEF HeardInv, SentInv
  <2> QED
    BY <2>1, <2>2, FrameShowsTheTime DEF HeardInv
<1> QED
  BY <1>1, AlwaysSent, NoFalseMark, PTL

-----------------------------------------------------------------------------
(* What the page announces, from the status it has.                          *)
LEMMA SummerIsShown ==
  ASSUME NEW zone, NEW t
  PROVE  localtime(zone, t).isdst = InSummer(zone, t)
<1>1. ASSUME NEW x, NEW dst PROVE [gmtime(x) EXCEPT !.isdst = dst].isdst = dst
  <2>1. PICK g : g = gmtime(x)
    OBVIOUS
  <2>2. "isdst" \in DOMAIN gmtime(x)
    <3>1. ASSUME NEW year, NEW yday, NEW starts, NEW mon
          PROVE  "isdst" \in DOMAIN BrokenDown(x, year, yday, starts, mon)
      BY DEF BrokenDown
    <3>2. ASSUME NEW year, NEW yday, NEW starts
          PROVE  "isdst" \in DOMAIN OnDay(x, year, yday, starts)
      BY <3>1 DEF OnDay
    <3>3. ASSUME NEW year PROVE "isdst" \in DOMAIN InYear(x, year)
      BY <3>2 DEF InYear
    <3> QED
      BY <3>3 DEF gmtime
  <2> QED
    BY <2>2, Zenon
<1> QED
  BY <1>1, Zenon DEF localtime

LEMMA OffsetInRange ==
  ASSUME NEW zone \in Zones, NEW t
  PROVE  Offset(zone, t) \in -1439 .. 1499
<1>1. PICK z : z = zone.offset
  OBVIOUS
<1>2. PICK e \in {0, 60} : e = IF InSummer(zone, t) THEN 60 ELSE 0
  OBVIOUS
<1>3. z \in -1439 .. 1439
  BY <1>1 DEF Zones
<1>4. Offset(zone, t) = z + e
  BY <1>1, <1>2 DEF Offset
<1> QED
  BY <1>2, <1>3, <1>4

SameSummer(zone, t1, t2) == InSummer(zone, t1) = InSummer(zone, t2)

(* What settime shows, whenever the status has been taken.                     *)
LEMMA PageTime ==
  ASSUME NEW source, NEW zone \in Zones, NEW t \in Nat, NEW offset \in Int,
         NEW age \in Nat, SameSummer(zone, t - offset - age, t)
  PROVE  /\ source # "WWVB" =>
              settime(StatusAt(source, zone, offset, t - offset - age), t - offset)
                = gmtime(t + Offset(zone, t))
         /\ source = "WWVB" =>
              settime(StatusAt(source, zone, offset, t - offset - age), t - offset)
                = gmtime(t)
<1>1. PICK status : status = StatusAt(source, zone, offset, t - offset - age)
  OBVIOUS
<1>2. /\ status.tz_offset = Offset(zone, t - offset - age)
      /\ status.transmitted.zone_offset_min = offset
      /\ status.transmitted.basis = IF source = "WWVB" THEN "UTC" ELSE "local"
  BY <1>1 DEF StatusAt, transmitted_info
<1>3. Offset(zone, t - offset - age) = Offset(zone, t)
  BY DEF Offset, SameSummer
<1>4. PICK o : o = Offset(zone, t)
  OBVIOUS
<1>5. o \in Int
  BY <1>4, OffsetInRange, SMTT(30)
<1>6. t - offset + offset + o = t + o /\ t - offset + offset = t
  BY <1>5
<1>7. ASSUME source # "WWVB" PROVE settime(status, t - offset) = gmtime(t + o)
  <2>1. status.transmitted.basis # "UTC"
    BY <1>2, <1>7
  <2>2. settime(status, t - offset) = gmtime(t - offset + offset + o)
    BY <1>2, <1>3, <1>4, <2>1 DEF settime, piDate
  <2> QED
    BY <1>6, <2>2
<1>8. ASSUME source = "WWVB" PROVE settime(status, t - offset) = gmtime(t)
  <2>1. status.transmitted.basis = "UTC"
    BY <1>2, <1>8
  <2>2. settime(status, t - offset) = gmtime(t - offset + offset)
    BY <1>2, <2>1 DEF settime
  <2> QED
    BY <1>6, <2>2
<1> QED
  BY <1>1, <1>4, <1>7, <1>8

DstShown(source, status, zone, t) ==
  /\ status.transmitted.dst_active \in BOOLEAN
  /\ source \in {"DCF77", "MSF", "WWVB"} =>
       status.transmitted.dst_active = InSummer(zone, t)

LEMMA PageSummer ==
  ASSUME NEW source, NEW zone \in Zones, NEW t \in Nat, NEW offset \in Int,
         NEW age \in Nat, SameSummer(zone, t - age, t)
  PROVE  DstShown(source, StatusAt(source, zone, offset, t - offset - age), zone, t)
<1>1. t - offset - age + offset = t - age
  OBVIOUS
<1>2. InSummer(zone, t) \in BOOLEAN
  BY DEF InSummer, Zones
<1>3. localtime(zone, t - offset - age + offset).isdst = InSummer(zone, t)
  BY <1>1, SummerIsShown DEF SameSummer
<1>4. (TRUE /\ localtime(zone, t - offset - age + offset).isdst) = InSummer(zone, t)
  BY <1>2, <1>3
<1>5. CASE source \in {"DCF77", "MSF", "WWVB"}
  BY <1>4, <1>5 DEF StatusAt, transmitted_info, DstShown
<1>6. CASE source \notin {"DCF77", "MSF", "WWVB"}
  BY <1>6 DEF StatusAt, transmitted_info, DstShown
<1> QED
  BY <1>5, <1>6

(* A frame means the same when the fields it carries are the same.            *)
LEMMA SameMeaning ==
  ASSUME NEW source \in Stations, NEW block, NEW zone, NEW now, NEW t,
         NEW shown \in StructTm, NEW real \in StructTm, NEW utc \in StructTm,
         real = localtime(zone, t), utc = gmtime(t),
         source \in {"DCF77", "MSF"} => now = t,
         source # "WWVB" => shown = [real EXCEPT !.isdst = shown.isdst],
         source = "WWVB" => shown = [utc EXCEPT !.isdst = shown.isdst],
         source \in {"DCF77", "MSF", "WWVB"} => shown.isdst = real.isdst
  PROVE  Meaning(source, block, localtime(zone, now), localtime(zone, t), gmtime(t),
                 localtime(zone, t + 1440))
           = Meaning(source, block, shown, shown, shown, localtime(zone, t + 1440))
<1>1. PICK tomorrow : tomorrow = localtime(zone, t + 1440)
  OBVIOUS
<1>2. CASE source \in {"DCF77", "MSF"}
  <2>1. localtime(zone, now) = real
    BY <1>2
  <2>2. shown = real
    BY <1>2 DEF StructTm
  <2>3. CASE source = "DCF77"
    BY <2>1, <2>2, <2>3 DEF Meaning
  <2>4. CASE source = "MSF"
    BY <2>1, <2>2, <2>4 DEF Meaning
  <2> QED
    BY <1>2, <2>3, <2>4
<1>3. CASE source = "WWVB"
  <2>1. /\ shown.min = utc.min /\ shown.hour = utc.hour /\ shown.yday = utc.yday
        /\ shown.year = utc.year /\ shown.isdst = real.isdst
    BY <1>3 DEF StructTm
  <2> QED
    BY <1>3, <2>1 DEF Meaning
<1>4. CASE source \in {"JJY40", "JJY60"}
  <2>1. /\ shown.min = real.min /\ shown.hour = real.hour /\ shown.yday = real.yday
        /\ shown.year = real.year /\ shown.wday = real.wday
    BY <1>4 DEF StructTm
  <2> QED
    BY <1>4, <2>1 DEF Meaning
<1>5. CASE source = "BPC"
  <2>1. /\ shown.min = real.min /\ shown.hour = real.hour /\ shown.mday = real.mday
        /\ shown.year = real.year /\ shown.wday = real.wday /\ shown.mon = real.mon
    BY <1>5 DEF StructTm
  <2>2. ISOWeekday(shown) = ISOWeekday(real)
    BY <2>1 DEF ISOWeekday
  <2> QED
    BY <1>5, <2>1, <2>2 DEF Meaning
<1> QED
  BY <1>2, <1>3, <1>4, <1>5 DEF Stations

(* Local time is not before 1970 then.                                       *)
Representable(t) == t >= 1439

LEMMA LocalRepresentable ==
  ASSUME NEW zone \in Zones, NEW t \in Nat, Representable(t)
  PROVE  t + Offset(zone, t) \in Nat
<1>1. PICK e \in -1439 .. 1499 : e = Offset(zone, t)
  BY OffsetInRange
<1>2. e \in Int /\ e >= -1439
  OBVIOUS
<1>3. t + e \in Nat
  BY <1>2 DEF Representable
<1> QED
  BY <1>1, <1>3

AnnouncedAsMeant(source, block, zone, now, t, offset, age) ==
  LET shown == Announced(StatusAt(source, zone, offset, t - offset - age), t - offset)
  IN  Meaning(source, block, localtime(zone, now), localtime(zone, t), gmtime(t),
              localtime(zone, t + 1440))
        = Meaning(source, block, shown, shown, shown, localtime(zone, t + 1440))

LEMMA AnnouncedIsMeant ==
  ASSUME NEW source \in Stations, NEW zone \in Zones, NEW t \in Nat,
         NEW offset \in Int, NEW age \in Nat, NEW now, NEW block, Representable(t),
         source \in {"DCF77", "MSF"} => now = t,
         SameSummer(zone, t - age, t),
         SameSummer(zone, t - offset - age, t)
  PROVE  AnnouncedAsMeant(source, block, zone, now, t, offset, age)
<1>1. PICK status : status = StatusAt(source, zone, offset, t - offset - age)
  OBVIOUS
<1>2. PICK shown : shown = Announced(status, t - offset)
  OBVIOUS
<1>3. PICK g : g = settime(status, t - offset)
  OBVIOUS
<1>4. shown = [g EXCEPT !.isdst = status.transmitted.dst_active]
  BY <1>2, <1>3 DEF Announced
<1>5. DstShown(source, status, zone, t)
  BY <1>1, PageSummer
<1>6. PICK real \in StructTm :
        /\ real = localtime(zone, t)
        /\ real.isdst = InSummer(zone, t)
  BY localtimeIsATime DEF Representable
<1>7. PICK utc \in StructTm : utc = gmtime(t)
  BY gmtimeIsATime DEF Representable
<1>8. PICK l \in StructTm : /\ l = gmtime(t + Offset(zone, t))
                            /\ real = [l EXCEPT !.isdst = real.isdst]
  <2>1. t + Offset(zone, t) \in Nat
    BY LocalRepresentable
  <2>2. gmtime(t + Offset(zone, t)) \in StructTm
    BY <2>1, gmtimeIsATime
  <2> QED
    BY <1>6, <2>2, localtimeIsATime DEF Representable
<1>9. /\ source # "WWVB" => g = l
      /\ source = "WWVB" => g = utc
  BY <1>1, <1>3, <1>7, <1>8, PageTime
<1>10. source \in {"DCF77", "MSF", "WWVB"} => shown.isdst = real.isdst
  <2>1. g \in StructTm
    BY <1>9
  <2> QED
    BY <1>4, <1>5, <1>6, <2>1 DEF StructTm, DstShown
<1>11. /\ shown \in StructTm
       /\ source # "WWVB" => shown = [real EXCEPT !.isdst = shown.isdst]
       /\ source = "WWVB" => shown = [utc EXCEPT !.isdst = shown.isdst]
  BY <1>4, <1>5, <1>8, <1>9 DEF StructTm, DstShown
<1> QED
  BY <1>1, <1>2, <1>6, <1>7, <1>10, <1>11, SameMeaning DEF AnnouncedAsMeant

LEMMA NeitherBeginsNorEnds ==
  ASSUME NEW zone \in Zones, NEW a, NEW b, NEW c, NEW d,
         {InSummer(zone, t) : t \in {a, b, c, d}} # BOOLEAN
  PROVE  SameSummer(zone, b, a) /\ SameSummer(zone, d, a)
<1>1. \A t : InSummer(zone, t) \in BOOLEAN
  BY DEF InSummer, Zones
<1>2. \A t \in {b, d} : ~SameSummer(zone, t, a) =>
        {InSummer(zone, u) : u \in {a, b, c, d}} = BOOLEAN
  <2> SUFFICES ASSUME NEW t \in {b, d}, InSummer(zone, t) # InSummer(zone, a)
               PROVE  {InSummer(zone, u) : u \in {a, b, c, d}} = BOOLEAN
    BY Zenon DEF SameSummer
  <2>1. TRUE \in {InSummer(zone, u) : u \in {a, b, c, d}}
    BY <1>1
  <2>2. FALSE \in {InSummer(zone, u) : u \in {a, b, c, d}}
    BY <1>1
  <2>3. {InSummer(zone, u) : u \in {a, b, c, d}} \subseteq BOOLEAN
    BY <1>1
  <2> QED
    BY <2>1, <2>2, <2>3
<1> QED
  BY <1>2

(* What is left of the times of a frame when its time alone is read.           *)
LEMMA MeaningOfFrame ==
  ASSUME NEW source \in Stations, NEW block, NEW now, NEW zone, NEW sent, NEW t,
         source \notin {"DCF77", "MSF"} => sent = t
  PROVE  Meaning(source, block, now, localtime(zone, sent), gmtime(sent),
                 localtime(zone, sent + 1440))
           = Meaning(source, block, now, localtime(zone, t), gmtime(t),
                     localtime(zone, t + 1440))
<1>1. CASE source \notin {"DCF77", "MSF"}
  BY <1>1
<1>2. CASE source = "DCF77"
  BY <1>2 DEF Meaning
<1>3. CASE source = "MSF"
  BY <1>3 DEF Meaning
<1> QED
  BY <1>1, <1>2, <1>3

(***************************************************************************)
(* The page announces the time that a watch reads from the frame on the air,   *)
(* for every station, zone and zone offset and for every minute, however old   *)
(* the status it computes it from, provided summer time neither begins nor     *)
(* ends in between (web/txtempus-web.py:251-281, 744-747, 815-824).            *)
(***************************************************************************)
THEOREM PageIsRight == Spec => []PageAnnouncesTheTime
<1>1. HeardInv /\ SentInv /\ MarkIsUnambiguous /\ ClockShowsTheTime
        => PageAnnouncesTheTime
  <2> SUFFICES ASSUME HeardInv, SentInv, MarkIsUnambiguous, ClockShowsTheTime
               PROVE  PageAnnouncesTheTime
    OBVIOUS
  <2> SUFFICES ASSUME Complete, FrameEnds(station, heard),
                      NEW offset \in ZoneOffset, NEW age \in Age
               PROVE  AnnouncedAsHeard(offset, age)
    BY DEF PageAnnouncesTheTime
  <2> SUFFICES
        ASSUME {InSummer(ZoneOf(station), t) :
                 t \in {Meant, Meant - age, Meant - offset, Meant - offset - age}}
                 # BOOLEAN
        PROVE  LET shown == Announced(StatusAt(station, ZoneOf(station), offset,
                                               Meant - offset - age), Meant - offset)
               IN  Decode(station, heard)
                     = Meaning(station, Block, shown, shown, shown,
                               localtime(ZoneOf(station), Meant + 1440))
    BY Zenon DEF AnnouncedAsHeard, Block, BlockSent
  <2>1. PICK zone \in Zones : zone = ZoneOf(station)
    BY BroadcastAssumption DEF SentInv
  <2>2. PICK t : t = Meant
    OBVIOUS
  <2>3. /\ t \in Nat /\ Representable(t)
        /\ station \in {"DCF77", "MSF"} => minute = t
        /\ station \notin {"DCF77", "MSF"} => SentAt = t
    <3>1. minute \in Nat /\ minute >= 1440 /\ second \in 0 .. 59
      BY DEF HeardInv, SentInv
    <3>2. second % FrameLength(station) = 0
      BY Zenon DEF MarkIsUnambiguous
    <3> QED
      BY <2>2, <3>1, <3>2 DEF Meant, SentAt, FrameSent, Representable
  <2>4. station \in Stations
    BY DEF HeardInv
  <2>5. offset \in Int /\ age \in Nat
    BY WebTimeAssumption
  <2>6. SameSummer(zone, t - age, t) /\ SameSummer(zone, t - offset - age, t)
    BY <2>1, <2>2, NeitherBeginsNorEnds
  <2>7. Decode(station, heard)
          = Meaning(station, Block, localtime(zone, minute), localtime(zone, SentAt),
                    gmtime(SentAt), localtime(zone, SentAt + 1440))
    <3>1. Decode(station, heard) = TimeMeant(station, zone, minute, second)
      BY <2>1 DEF ClockShowsTheTime
    <3> QED
      BY <3>1, Zenon DEF TimeMeant, SentAt, Block, FrameSent, BlockSent
  <2>8. Decode(station, heard)
          = Meaning(station, Block, localtime(zone, minute), localtime(zone, t),
                    gmtime(t), localtime(zone, t + 1440))
    BY <2>3, <2>4, <2>7, MeaningOfFrame
  <2>9. AnnouncedAsMeant(station, Block, zone, minute, t, offset, age)
    BY <2>3, <2>4, <2>5, <2>6, AnnouncedIsMeant
  <2> QED
    BY <2>1, <2>2, <2>8, <2>9 DEF AnnouncedAsMeant
<1> QED
  BY <1>1, AlwaysSent, NoFalseMark, ClockIsRight, PTL
=============================================================================
