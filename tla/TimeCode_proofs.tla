--------------------------- MODULE TimeCode_proofs ---------------------------
(***************************************************************************)
(* The five time codes as functions, for every input: what a second of each    *)
(* station looks like; what a field of bits is worth, whichever way round it   *)
(* is sent; that a broken-down time is one, from 1970 on; and that each         *)
(* decoder reads from a minute what its encoder has written into it.           *)
(***************************************************************************)
EXTENDS TimeSignalSource, Receiver, Patterns, FiniteSetTheorems,
        WellFoundedInduction, TLAPS

-----------------------------------------------------------------------------
(* When the levels of a second with up to four of them begin.                *)
SumsOf(pattern, n, f) ==
  f = [j \in 1 .. n |-> IF j = 1 THEN 0 ELSE f[j - 1] + pattern[j - 1].ticks]

LEMMA BeginsOfFew ==
  ASSUME NEW pattern
  PROVE  /\ Begins(pattern, 1) = 0
         /\ Begins(pattern, 2) = 0 + pattern[1].ticks
         /\ Begins(pattern, 4)
              = ((0 + pattern[1].ticks) + pattern[2].ticks) + pattern[3].ticks
<1> DEFINE b2 == 0 + pattern[1].ticks
           b3 == b2 + pattern[2].ticks
           b4 == b3 + pattern[3].ticks
           b(j) == IF j = 1 THEN 0 ELSE IF j = 2 THEN b2 ELSE IF j = 3 THEN b3 ELSE b4
           g(n) == [j \in 1 .. n |-> b(j)]
           f(n) == CHOOSE h : SumsOf(pattern, n, h)
<1>1. ASSUME NEW n \in 1 .. 4 PROVE SumsOf(pattern, n, g(n))
  <2>1. ASSUME NEW j \in 1 .. n
        PROVE  b(j) = IF j = 1 THEN 0 ELSE g(n)[j - 1] + pattern[j - 1].ticks
    <3>1. j # 1 => j - 1 \in 1 .. n /\ g(n)[j - 1] = b(j - 1)
      OBVIOUS
    <3>2. CASE j = 1
      BY <3>2
    <3>3. CASE j = 2
      BY <3>1, <3>3
    <3>4. CASE j = 3
      BY <3>1, <3>4
    <3>5. CASE j = 4
      BY <3>1, <3>5
    <3> QED
      BY <3>2, <3>3, <3>4, <3>5
  <2> HIDE DEF b
  <2>2. g(n) = [j \in 1 .. n |-> IF j = 1 THEN 0
                                 ELSE g(n)[j - 1] + pattern[j - 1].ticks]
    BY <2>1
  <2> QED
    BY <2>2 DEF SumsOf
<1>2. ASSUME NEW n \in 1 .. 4 PROVE SumsOf(pattern, n, f(n))
  <2> HIDE DEF g
  <2> QED
    BY <1>1
<1>3. \A n : Begins(pattern, n) = f(n)[n]
  BY DEF Begins, SumsOf
<1> HIDE DEF f, g, b, b2, b3, b4
<1>4. Begins(pattern, 1) = 0
  <2>1. f(1)[1] = 0
    BY <1>2 DEF SumsOf
  <2> QED
    BY <1>3, <2>1
<1>5. Begins(pattern, 2) = 0 + pattern[1].ticks
  <2>1. f(2)[1] = 0 /\ f(2)[2] = f(2)[1] + pattern[1].ticks
    BY <1>2 DEF SumsOf
  <2> QED
    BY <1>3, <2>1
<1>6. Begins(pattern, 4)
        = ((0 + pattern[1].ticks) + pattern[2].ticks) + pattern[3].ticks
  <2>1. /\ f(4)[1] = 0 /\ f(4)[2] = f(4)[1] + pattern[1].ticks
        /\ f(4)[3] = f(4)[2] + pattern[2].ticks
        /\ f(4)[4] = f(4)[3] + pattern[3].ticks
    BY <1>2 DEF SumsOf
  <2> QED
    BY <1>3, <2>1
<1> QED
  BY <1>4, <1>5, <1>6

-----------------------------------------------------------------------------
(* The seconds of each station, whatever time they carry.  A mark is a second   *)
(* that carries no bit.                                                    *)
Marked(s) == s = 0 \/ s % 10 = 9

IsDCF77Second(s, p) ==
  IF s = 59 THEN p = <<Level("HIGH", 0)>>
  ELSE \E n \in {1, 2} : p = <<Level("LOW", n), Level("HIGH", 0)>>

IsWWVBSecond(s, p) ==
  \E n \in IF Marked(s) THEN {8} ELSE {2, 5} :
    p = <<Level("LOW", n), Level("HIGH", 0)>>

IsJJYSecond(s, p) ==
  \E n \in IF Marked(s) THEN {2} ELSE {5, 8} :
    p = <<Level("HIGH", n), Level("LOW", 0)>>

IsMSFSecond(s, p) ==
  IF s = 0 THEN p = <<Level("OFF", 5), Level("HIGH", 0)>>
  ELSE \E a, b \in {"OFF", "HIGH"} :
         p = <<Level("OFF", 1), Level(a, 1), Level(b, 1), Level("HIGH", 0)>>

IsBPCSecond(s, p) ==
  IF s % 20 = 0 THEN p = <<Level("HIGH", 0)>>
  ELSE \E n \in 1 .. 4 : p = <<Level("LOW", n), Level("HIGH", 0)>>

IsSecond(source, s, p) ==
  /\ source = "DCF77" => IsDCF77Second(s, p)
  /\ source = "WWVB" => IsWWVBSecond(s, p)
  /\ source \in {"JJY40", "JJY60"} => IsJJYSecond(s, p)
  /\ source = "MSF" => IsMSFSecond(s, p)
  /\ source = "BPC" => IsBPCSecond(s, p)

(* What the sources send are such seconds.                                  *)
LEMMA DCF77Sends ==
  ASSUME NEW bits, NEW s \in 0 .. 59
  PROVE  IsDCF77Second(s, DCF77Modulation(bits, s))
<1> DEFINE n == IF s \in bits THEN 2 ELSE 1
<1>1. s # 59 => DCF77Modulation(bits, s) = <<Level("LOW", n), Level("HIGH", 0)>>
  BY DEF DCF77Modulation
<1>2. s = 59 => DCF77Modulation(bits, s) = <<Level("HIGH", 0)>>
  BY DEF DCF77Modulation
<1>3. n \in {1, 2}
  OBVIOUS
<1> QED
  BY <1>1, <1>2, <1>3 DEF IsDCF77Second

LEMMA WWVBSends ==
  ASSUME NEW bits, NEW s \in 0 .. 59
  PROVE  IsWWVBSecond(s, WWVBModulation(bits, s))
<1> DEFINE n == IF s = 0 \/ s % 10 = 9 \/ s > 59 THEN 8
                ELSE IF 59 - s \in bits THEN 5 ELSE 2
<1>1. WWVBModulation(bits, s) = <<Level("LOW", n), Level("HIGH", 0)>>
  BY DEF WWVBModulation
<1>2. n \in IF Marked(s) THEN {8} ELSE {2, 5}
  BY DEF Marked
<1> HIDE DEF n
<1> QED
  BY <1>1, <1>2 DEF IsWWVBSecond

LEMMA JJYSends ==
  ASSUME NEW bits, NEW s \in 0 .. 59
  PROVE  IsJJYSecond(s, JJYModulation(bits, s))
<1> DEFINE n == IF s = 0 \/ s % 10 = 9 \/ s > 59 THEN 2
                ELSE IF 59 - s \in bits THEN 5 ELSE 8
<1>1. JJYModulation(bits, s) = <<Level("HIGH", n), Level("LOW", 0)>>
  BY DEF JJYModulation
<1>2. n \in IF Marked(s) THEN {2} ELSE {5, 8}
  BY DEF Marked
<1> HIDE DEF n
<1> QED
  BY <1>1, <1>2 DEF IsJJYSecond

LEMMA MSFSends ==
  ASSUME NEW bits, NEW s \in 0 .. 59
  PROVE  IsMSFSecond(s, MSFModulation(bits, s))
<1> DEFINE send(word) == IF 59 - s \in word THEN "OFF" ELSE "HIGH"
           a == send(bits.a)
           b == send(bits.b)
<1>1. s = 0 => MSFModulation(bits, s) = <<Level("OFF", 5), Level("HIGH", 0)>>
  BY DEF MSFModulation
<1>2. s # 0 => MSFModulation(bits, s)
                 = <<Level("OFF", 1), Level(a, 1), Level(b, 1), Level("HIGH", 0)>>
  BY DEF MSFModulation
<1>3. a \in {"OFF", "HIGH"} /\ b \in {"OFF", "HIGH"}
  OBVIOUS
<1> HIDE DEF a, b
<1> QED
  BY <1>1, <1>2, <1>3 DEF IsMSFSecond

LEMMA BPCSends ==
  ASSUME NEW zone, NEW t, NEW s \in 0 .. 59
  PROVE  IsBPCSecond(s, BPCModulation(BPCPrepareMinute(zone, t), s))
<1> DEFINE symbols == BPCPrepareMinute(zone, t)
           sent == BPCModulation(symbols, s)
<1>1. /\ s % 20 = 0 => symbols[s] = Marker
      /\ s % 20 # 0 => symbols[s] \in 0 .. 3
  BY DEF BPCPrepareMinute
<1> HIDE DEF symbols
<1>2. s % 60 = s
  OBVIOUS
<1>3. sent = IF symbols[s] = Marker THEN <<Level("HIGH", 0)>>
             ELSE <<Level("LOW", symbols[s] + 1), Level("HIGH", 0)>>
  BY <1>2 DEF BPCModulation
<1> HIDE DEF sent
<1>4. ASSUME s % 20 = 0 PROVE IsBPCSecond(s, sent)
  BY <1>1, <1>3, <1>4 DEF IsBPCSecond
<1>5. ASSUME s % 20 # 0 PROVE IsBPCSecond(s, sent)
  <2>1. symbols[s] \in 0 .. 3 /\ symbols[s] # Marker /\ symbols[s] + 1 \in 1 .. 4
    BY <1>1, <1>5 DEF Marker
  <2>2. sent = <<Level("LOW", symbols[s] + 1), Level("HIGH", 0)>>
    BY <1>3, <2>1
  <2> QED
    BY <1>5, <2>1, <2>2 DEF IsBPCSecond
<1>6. IsBPCSecond(s, sent)
  BY <1>4, <1>5
<1> QED
  BY <1>6 DEF sent, symbols

LEMMA SourcesSendSeconds ==
  ASSUME NEW source \in Stations, NEW zone, NEW t, NEW s \in 0 .. 59
  PROVE  IsSecond(source, s,
                  GetModulationForSecond(source, PrepareMinute(source, zone, t), s))
<1> DEFINE bits == PrepareMinute(source, zone, t)
           sent == GetModulationForSecond(source, bits, s)
<1>1. source = "DCF77" => sent = DCF77Modulation(bits, s)
  BY Zenon DEF GetModulationForSecond
<1>2. source = "WWVB" => sent = WWVBModulation(bits, s)
  BY Zenon DEF GetModulationForSecond
<1>3. source \in {"JJY40", "JJY60"} => sent = JJYModulation(bits, s)
  BY DEF GetModulationForSecond
<1>4. source = "MSF" => sent = MSFModulation(bits, s)
  BY DEF GetModulationForSecond
<1>5. source = "BPC" => sent = BPCModulation(BPCPrepareMinute(zone, t), s)
  BY DEF GetModulationForSecond, PrepareMinute
<1> HIDE DEF bits, sent
<1>6. IsSecond(source, s, sent)
  BY <1>1, <1>2, <1>3, <1>4, <1>5, DCF77Sends, WWVBSends, JJYSends, MSFSends,
     BPCSends DEF IsSecond
<1> QED
  BY <1>6 DEF sent, bits

(* What the properties need of them: they fit, and the levels they begin and    *)
(* end with.                                                               *)
LEMMA SecondsFit ==
  ASSUME NEW source \in Stations, NEW s \in 0 .. 59, NEW p, IsSecond(source, s, p)
  PROVE  FitsSecond(p, 10) /\ NoLowAgain(p)
<1>1. CASE p = <<Level("HIGH", 0)>>
  BY <1>1, BeginsOfFew DEF FitsSecond, NoLowAgain, LowAgain, Level
<1>2. ASSUME NEW one, NEW other, one # other, NEW n \in 1 .. 8,
             p = <<Level(one, n), Level(other, 0)>>
      PROVE  FitsSecond(p, 10) /\ NoLowAgain(p)
  <2>1. /\ Len(p) = 2
        /\ p[1].power = one /\ p[1].ticks = n
        /\ p[2].power = other /\ p[2].ticks = 0
    BY <1>2 DEF Level
  <2>2. Begins(p, 2) = 0 + n
    BY <2>1, BeginsOfFew
  <2>3. FitsSecond(p, 10)
    BY <2>1, <2>2 DEF FitsSecond
  <2>4. NoLowAgain(p)
    BY <1>2, <2>1 DEF NoLowAgain, LowAgain
  <2> QED
    BY <2>3, <2>4
<1>3. ASSUME NEW a \in {"OFF", "HIGH"}, NEW b \in {"OFF", "HIGH"},
             p = <<Level("OFF", 1), Level(a, 1), Level(b, 1), Level("HIGH", 0)>>
      PROVE  FitsSecond(p, 10) /\ NoLowAgain(p)
  <2>1. /\ Len(p) = 4
        /\ p[1].power = "OFF" /\ p[1].ticks = 1
        /\ p[2].power = a /\ p[2].ticks = 1
        /\ p[3].power = b /\ p[3].ticks = 1
        /\ p[4].power = "HIGH" /\ p[4].ticks = 0
    BY <1>3 DEF Level
  <2>2. Begins(p, 4) = ((0 + 1) + 1) + 1
    BY <2>1, BeginsOfFew
  <2>3. FitsSecond(p, 10)
    BY <2>1, <2>2 DEF FitsSecond
  <2>4. NoLowAgain(p)
    BY <2>1 DEF NoLowAgain, LowAgain
  <2> QED
    BY <2>3, <2>4
<1>4. CASE source = "DCF77"
  BY <1>1, <1>2, <1>4 DEF IsSecond, IsDCF77Second
<1>5. CASE source = "WWVB"
  <2>1. PICK n \in 1 .. 8 : p = <<Level("LOW", n), Level("HIGH", 0)>>
    BY <1>5 DEF IsSecond, IsWWVBSecond
  <2> QED
    BY <1>2, <2>1
<1>6. CASE source \in {"JJY40", "JJY60"}
  <2>1. PICK n \in 1 .. 8 : p = <<Level("HIGH", n), Level("LOW", 0)>>
    BY <1>6 DEF IsSecond, IsJJYSecond
  <2> QED
    BY <1>2, <2>1
<1>7. CASE source = "MSF"
  <2>1. CASE s = 0
    BY <1>2, <1>7, <2>1 DEF IsSecond, IsMSFSecond
  <2>2. CASE s # 0
    BY <1>3, <1>7, <2>2 DEF IsSecond, IsMSFSecond
  <2> QED
    BY <2>1, <2>2
<1>8. CASE source = "BPC"
  BY <1>1, <1>2, <1>8 DEF IsSecond, IsBPCSecond
<1> QED
  BY <1>4, <1>5, <1>6, <1>7, <1>8 DEF Stations

-----------------------------------------------------------------------------
(* Value adds up the weights of the bits that are set.  Twelve are enough for    *)
(* every field.                                                            *)
LEMMA AllNaturals ==
  ASSUME NEW S \in SUBSET Nat, 0 \in S, \A n \in S : n + 1 \in S
  PROVE  S = Nat
<1> SUFFICES ASSUME Nat \ S # {} PROVE FALSE
  OBVIOUS
<1>1. PICK n \in Nat \ S : \A m \in Nat \ S : ~ (<<m, n>> \in OpToRel(<, Nat))
  BY WFMin, NatLessThanWellFounded
<1>2. ASSUME NEW m \in Nat, m < n PROVE m \in S
  BY <1>1, <1>2 DEF OpToRel
<1>3. n \in Nat /\ n \notin S /\ n # 0
  OBVIOUS
<1>4. n - 1 \in Nat /\ n - 1 < n /\ (n - 1) + 1 = n
  BY <1>3
<1>5. n - 1 \in S
  BY <1>2, <1>4
<1>6. (n - 1) + 1 \in S
  BY <1>5
<1> QED
  BY <1>3, <1>4, <1>6

(* h adds up the weights of each subset of S, as MapThenSumSet does.        *)
SumsOver(w, S, h) ==
  h = [s \in SUBSET S |->
         IF s = {} THEN 0
         ELSE LET x == CHOOSE x \in s : TRUE IN w[x] + h[s \ {x}]]

Part(w, s, k) == IF k \in s THEN w[k] ELSE 0

Four(w, s, k) ==
  Part(w, s, k) + Part(w, s, k + 1) + Part(w, s, k + 2) + Part(w, s, k + 3)

Total(w, s) == Four(w, s, 1) + Four(w, s, 5) + Four(w, s, 9)

(* Taking one element out takes out its weight.                              *)
LEMMA FourLess ==
  ASSUME NEW w, NEW s \in SUBSET (1 .. 12), NEW x \in s, \A k \in s : w[k] \in Nat,
         NEW n \in {1, 5, 9}
  PROVE  /\ Four(w, s, n) \in Nat /\ Four(w, s \ {x}, n) \in Nat
         /\ Four(w, s, n) = Four(w, s \ {x}, n)
                             + (IF x \in n .. n + 3 THEN w[x] ELSE 0)
<1>1. ASSUME NEW k \in 1 .. 12
      PROVE  /\ Part(w, s, k) \in Nat /\ Part(w, s \ {x}, k) \in Nat
             /\ k # x => Part(w, s, k) = Part(w, s \ {x}, k)
             /\ k = x => Part(w, s, k) = w[x] /\ Part(w, s \ {x}, k) = 0
  BY DEF Part
<1>2. w[x] \in Nat /\ x \in 1 .. 12
  OBVIOUS
<1>3. n \in 1 .. 12 /\ n + 1 \in 1 .. 12 /\ n + 2 \in 1 .. 12 /\ n + 3 \in 1 .. 12
  OBVIOUS
<1>4. CASE x \notin n .. n + 3
  <2>1. n # x /\ n + 1 # x /\ n + 2 # x /\ n + 3 # x
    BY <1>2, <1>3, <1>4
  <2> QED
    BY <1>1, <1>3, <1>4, <2>1 DEF Four
<1>5. CASE x \in n .. n + 3
  <2>1. x = n \/ x = n + 1 \/ x = n + 2 \/ x = n + 3
    BY <1>2, <1>3, <1>5
  <2> QED
    BY <1>1, <1>2, <1>3, <1>5, <2>1 DEF Four
<1> QED
  BY <1>4, <1>5

LEMMA TotalLess ==
  ASSUME NEW w, NEW s \in SUBSET (1 .. 12), NEW x \in s, \A k \in s : w[k] \in Nat
  PROVE  Total(w, s) = w[x] + Total(w, s \ {x})
<1>1. \A n \in {1, 5, 9} :
        /\ Four(w, s, n) \in Nat /\ Four(w, s \ {x}, n) \in Nat
        /\ Four(w, s, n) = Four(w, s \ {x}, n)
                             + (IF x \in n .. n + 3 THEN w[x] ELSE 0)
  BY FourLess
<1>2. w[x] \in Nat /\ x \in 1 .. 12
  OBVIOUS
<1> QED
  BY <1>1, <1>2 DEF Total

LEMMA SumsAreTotals ==
  ASSUME NEW w, NEW S \in SUBSET (1 .. 12), \A k \in S : w[k] \in Nat
  PROVE  (CHOOSE h : SumsOver(w, S, h))[S] = Total(w, S)
<1> DEFINE g == [s \in SUBSET S |-> Total(w, s)]
           h == CHOOSE f : SumsOver(w, S, f)
<1>1. ASSUME NEW s \in SUBSET S, s # {}
      PROVE  LET x == CHOOSE x \in s : TRUE IN x \in s /\ Total(w, s) = w[x] + Total(w, s \ {x})
  <2>1. \A x \in s : Total(w, s) = w[x] + Total(w, s \ {x})
    <3>1. s \in SUBSET (1 .. 12) /\ \A k \in s : w[k] \in Nat
      OBVIOUS
    <3> QED
      BY <3>1, TotalLess
  <2> QED
    BY <1>1, <2>1, Zenon
<1>2. Total(w, {}) = 0
  BY DEF Total, Four, Part
<1>3. SumsOver(w, S, g)
  <2>1. ASSUME NEW s \in SUBSET S
        PROVE  g[s] = IF s = {} THEN 0
                      ELSE LET x == CHOOSE x \in s : TRUE IN w[x] + g[s \ {x}]
    <3>1. CASE s = {}
      BY <1>2, <3>1
    <3>2. CASE s # {}
      BY <1>1, <3>2
    <3> QED
      BY <3>1, <3>2
  <2>2. g = [s \in SUBSET S |->
               IF s = {} THEN 0
               ELSE LET x == CHOOSE x \in s : TRUE IN w[x] + g[s \ {x}]]
    <3> HIDE DEF g
    <3>1. g = [s \in SUBSET S |-> g[s]]
      BY DEF g
    <3> QED
      BY <2>1, <3>1, Zenon
  <2> QED
    BY <2>2 DEF SumsOver
<1>4. SumsOver(w, S, h)
  <2> HIDE DEF g
  <2> QED
    BY <1>3
<1> HIDE DEF h
<1>5. \A s \in SUBSET S : h[s] = IF s = {} THEN 0
                      ELSE LET x == CHOOSE x \in s : TRUE IN w[x] + h[s \ {x}]
  BY <1>4 DEF SumsOver
<1> DEFINE T == {n \in Nat : \A s \in SUBSET S : Cardinality(s) = n => h[s] = Total(w, s)}
<1>6. \A s \in SUBSET S : IsFiniteSet(s) /\ Cardinality(s) \in Nat
  <2>1. IsFiniteSet(1 .. 12)
    <3>1. 1 \in Int /\ 12 \in Int
      OBVIOUS
    <3> QED
      BY <3>1, FS_Interval, Zenon
  <2>2. ASSUME NEW s \in SUBSET S PROVE IsFiniteSet(s)
    <3>1. s \subseteq 1 .. 12
      OBVIOUS
    <3> QED
      BY <2>1, <3>1, FS_Subset
  <2> QED
    BY <2>2, FS_CardinalityType
<1>7. T = Nat
  <2>1. 0 \in T
    BY <1>2, <1>5, <1>6, FS_EmptySet
  <2>2. ASSUME NEW n \in T PROVE n + 1 \in T
    <3> SUFFICES ASSUME NEW s \in SUBSET S, Cardinality(s) = n + 1
                 PROVE  h[s] = Total(w, s)
      OBVIOUS
    <3>1. s # {}
      <4>1. Cardinality({}) = 0 /\ n + 1 # 0
        BY FS_EmptySet
      <4> QED
        BY <4>1, Zenon
    <3> DEFINE x == CHOOSE x \in s : TRUE
    <3>2. x \in s /\ Total(w, s) = w[x] + Total(w, s \ {x})
      BY <1>1, <3>1
    <3>3. h[s] = w[x] + h[s \ {x}]
      BY <1>5, <3>1
    <3> HIDE DEF x
    <3>4. Cardinality(s \ {x}) = n
      BY <1>6, <3>2, FS_RemoveElement, SMTT(30)
    <3>5. h[s \ {x}] = Total(w, s \ {x})
      BY <3>4
    <3> QED
      BY <3>2, <3>3, <3>5
  <2> HIDE DEF T
  <2> QED
    BY <2>1, <2>2, AllNaturals DEF T
<1> QED
  BY <1>6, <1>7 DEF h

LEMMA ValueIsTotal ==
  ASSUME NEW word, NEW first, NEW weights \in Seq(Nat), Len(weights) <= 12
  PROVE  Value(word, first, weights)
           = Total(weights, {k \in 1 .. Len(weights) : first + k - 1 \in word})
<1> DEFINE S == {k \in DOMAIN weights : first + k - 1 \in word}
<1>1. S \in SUBSET (1 .. 12) /\ S = {k \in 1 .. Len(weights) : first + k - 1 \in word}
  <2>1. DOMAIN weights = 1 .. Len(weights)
    OBVIOUS
  <2>2. ASSUME NEW k \in 1 .. Len(weights) PROVE k \in 1 .. 12
    <3>1. Len(weights) \in Nat
      OBVIOUS
    <3> QED
      BY <3>1
  <2> QED
    BY <2>1, <2>2, Zenon
<1>2. \A k \in S : weights[k] \in Nat
  OBVIOUS
<1>3. Value(word, first, weights) = (CHOOSE h : SumsOver(weights, S, h))[S]
  BY Zenon DEF Value, MapThenSumSet, MapThenFoldSet, SumsOver
<1> HIDE DEF S
<1> QED
  BY <1>1, <1>2, <1>3, SumsAreTotals DEF S

(* A number is its bits, and fits as many of them as it has powers of two.  *)
Bit(word, i) == IF i \in word THEN 1 ELSE 0

LEMMA BitsOfNumber ==
  ASSUME NEW n \in 0 .. 127
  PROVE  /\ BitsOf(n) \subseteq 0 .. 6
         /\ Bit(BitsOf(n), 0) = n % 2
         /\ Bit(BitsOf(n), 1) = (n \div 2) % 2
         /\ Bit(BitsOf(n), 2) = (n \div 4) % 2
         /\ Bit(BitsOf(n), 3) = (n \div 8) % 2
         /\ Bit(BitsOf(n), 4) = (n \div 16) % 2
         /\ Bit(BitsOf(n), 5) = (n \div 32) % 2
         /\ Bit(BitsOf(n), 6) = (n \div 64) % 2
<1>1. /\ 2^0 = 1 /\ 2^1 = 2 /\ 2^2 = 4 /\ 2^3 = 8 /\ 2^4 = 16 /\ 2^5 = 32 /\ 2^6 = 64
  OBVIOUS
<1>2. \A i \in 0 .. 6 : i \in BitsOf(n) <=> (n \div 2^i) % 2 = 1
  BY DEF BitsOf
<1>3. /\ 0 \in BitsOf(n) <=> n % 2 = 1
      /\ 1 \in BitsOf(n) <=> (n \div 2) % 2 = 1
      /\ 2 \in BitsOf(n) <=> (n \div 4) % 2 = 1
      /\ 3 \in BitsOf(n) <=> (n \div 8) % 2 = 1
      /\ 4 \in BitsOf(n) <=> (n \div 16) % 2 = 1
      /\ 5 \in BitsOf(n) <=> (n \div 32) % 2 = 1
      /\ 6 \in BitsOf(n) <=> (n \div 64) % 2 = 1
  BY <1>1, <1>2
<1>4. BitsOf(n) \subseteq 0 .. 6
  BY DEF BitsOf
<1> QED
  BY <1>3, <1>4 DEF Bit

LEMMA BinaryDigits ==
  ASSUME NEW n \in 0 .. 127
  PROVE  n = (n % 2) + 2 * ((n \div 2) % 2) + 4 * ((n \div 4) % 2)
             + 8 * ((n \div 8) % 2) + 16 * ((n \div 16) % 2)
             + 32 * ((n \div 32) % 2) + 64 * ((n \div 64) % 2)
OBVIOUS

LEMMA BinaryValue ==
  ASSUME NEW n \in 0 .. 127
  PROVE  /\ BitsOf(n) \subseteq 0 .. 6
         /\ n = Bit(BitsOf(n), 0) + 2 * Bit(BitsOf(n), 1) + 4 * Bit(BitsOf(n), 2)
                + 8 * Bit(BitsOf(n), 3) + 16 * Bit(BitsOf(n), 4)
                + 32 * Bit(BitsOf(n), 5) + 64 * Bit(BitsOf(n), 6)
BY BitsOfNumber, BinaryDigits

LEMMA FewBits ==
  ASSUME NEW n \in 0 .. 127
  PROVE  /\ n < 2  => BitsOf(n) \subseteq 0 .. 0
         /\ n < 4  => BitsOf(n) \subseteq 0 .. 1
         /\ n < 8  => BitsOf(n) \subseteq 0 .. 2
         /\ n < 16 => BitsOf(n) \subseteq 0 .. 3
         /\ n < 32 => BitsOf(n) \subseteq 0 .. 4
         /\ n < 64 => BitsOf(n) \subseteq 0 .. 5
<1>1. \A i \in 0 .. 6 : i \in BitsOf(n) <=> Bit(BitsOf(n), i) = 1
  BY DEF Bit
<1> DEFINE w == BitsOf(n)
<1>2. /\ n < 64 => 6 \notin w
      /\ n < 32 => 5 \notin w
      /\ n < 16 => 4 \notin w
      /\ n < 8 => 3 \notin w
      /\ n < 4 => 2 \notin w
      /\ n < 2 => 1 \notin w
  BY <1>1, BitsOfNumber
<1>3. w \subseteq 0 .. 6
  BY BitsOfNumber
<1> HIDE DEF w
<1>4. \A i \in w : i \in 0 .. 6
  BY <1>3
<1>5. /\ n < 64 => \A i \in w : i \in 0 .. 5
      /\ n < 32 => \A i \in w : i \in 0 .. 4
      /\ n < 16 => \A i \in w : i \in 0 .. 3
      /\ n < 8 => \A i \in w : i \in 0 .. 2
      /\ n < 4 => \A i \in w : i \in 0 .. 1
      /\ n < 2 => \A i \in w : i \in 0 .. 0
  BY <1>2, <1>4
<1> QED
  BY <1>5 DEF w

(* The two decimal digits of a number.                                      *)
LEMMA BcdValue ==
  ASSUME NEW n \in 0 .. 99
  PROVE  /\ to_bcd(n) \subseteq 0 .. 7
         /\ n = Bit(to_bcd(n), 0) + 2 * Bit(to_bcd(n), 1) + 4 * Bit(to_bcd(n), 2)
                + 8 * Bit(to_bcd(n), 3) + 10 * Bit(to_bcd(n), 4)
                + 20 * Bit(to_bcd(n), 5) + 40 * Bit(to_bcd(n), 6)
                + 80 * Bit(to_bcd(n), 7)
         /\ n < 80 => to_bcd(n) \subseteq 0 .. 6
         /\ n < 40 => to_bcd(n) \subseteq 0 .. 5
         /\ n < 20 => to_bcd(n) \subseteq 0 .. 4
         /\ n < 10 => to_bcd(n) \subseteq 0 .. 3
         /\ n < 8  => to_bcd(n) \subseteq 0 .. 2
<1> DEFINE u == Digit(n, 1)
           t == Digit(n, 10)
           U == BitsOf(u)
           V == BitsOf(t)
           w == to_bcd(n)
<1>1. /\ u \in 0 .. 9 /\ t \in 0 .. 9 /\ n = u + 10 * t
      /\ n < 80 => t < 8
      /\ n < 40 => t < 4
      /\ n < 20 => t < 2
      /\ n < 10 => t = 0 /\ u = n
  BY DEF Digit
<1>2. u \in 0 .. 127 /\ t \in 0 .. 127 /\ u < 16 /\ t < 16
  BY <1>1
<1> HIDE DEF u, t
<1>3. U \subseteq 0 .. 3 /\ V \subseteq 0 .. 3
  BY <1>2, FewBits
<1>4. /\ n < 80 => V \subseteq 0 .. 2
      /\ n < 40 => V \subseteq 0 .. 1
      /\ n < 20 => V \subseteq 0 .. 0
      /\ n < 8  => U \subseteq 0 .. 2
  BY <1>1, <1>2, FewBits
<1>5. /\ u = Bit(U, 0) + 2 * Bit(U, 1) + 4 * Bit(U, 2) + 8 * Bit(U, 3)
      /\ t = Bit(V, 0) + 2 * Bit(V, 1) + 4 * Bit(V, 2) + 8 * Bit(V, 3)
  <2>1. ASSUME NEW m \in 0 .. 127, BitsOf(m) \subseteq 0 .. 3
        PROVE  m = Bit(BitsOf(m), 0) + 2 * Bit(BitsOf(m), 1)
                   + 4 * Bit(BitsOf(m), 2) + 8 * Bit(BitsOf(m), 3)
    <3>1. Bit(BitsOf(m), 4) = 0 /\ Bit(BitsOf(m), 5) = 0 /\ Bit(BitsOf(m), 6) = 0
      BY <2>1 DEF Bit
    <3>2. \A i \in 0 .. 6 : Bit(BitsOf(m), i) \in Int
      BY DEF Bit
    <3> QED
      BY <3>1, <3>2, BinaryValue
  <2> QED
    BY <1>2, <1>3, <2>1
<1>6. n < 10 => V = {}
  <2>1. BitsOf(0) = {}
    <3>1. 0 \in 0 .. 127
      OBVIOUS
    <3> DEFINE Z == BitsOf(0)
    <3>2. Z \subseteq 0 .. 0 /\ Bit(Z, 0) = 0 % 2
      BY <3>1, FewBits, BitsOfNumber
    <3>3. 0 \notin Z
      BY <3>2 DEF Bit
    <3> HIDE DEF Z
    <3>4. Z = {}
      BY <3>2, <3>3
    <3> QED
      BY <3>4 DEF Z
  <2> QED
    BY <1>1, <2>1
<1> HIDE DEF U, V
<1>7. \A i \in Int : i \in Shift(V, 4) <=> i - 4 \in V
  BY <1>3 DEF Shift
<1>8. \A i \in Int : i \in w <=> i \in U \/ i - 4 \in V
  BY <1>7 DEF to_bcd, U, V, u, t
<1>9. w \subseteq Int
  BY <1>3 DEF to_bcd, Shift, U, V, u, t
<1> HIDE DEF w
<1>10. /\ Bit(w, 0) = Bit(U, 0) /\ Bit(w, 1) = Bit(U, 1)
       /\ Bit(w, 2) = Bit(U, 2) /\ Bit(w, 3) = Bit(U, 3)
       /\ Bit(w, 4) = Bit(V, 0) /\ Bit(w, 5) = Bit(V, 1)
       /\ Bit(w, 6) = Bit(V, 2) /\ Bit(w, 7) = Bit(V, 3)
  BY <1>3, <1>8 DEF Bit
<1>11. \A i \in 0 .. 3 : Bit(U, i) \in Int /\ Bit(V, i) \in Int
  BY DEF Bit
<1>12. n = Bit(w, 0) + 2 * Bit(w, 1) + 4 * Bit(w, 2) + 8 * Bit(w, 3)
           + 10 * Bit(w, 4) + 20 * Bit(w, 5) + 40 * Bit(w, 6) + 80 * Bit(w, 7)
  BY <1>1, <1>5, <1>10, <1>11
<1>13. /\ \A i \in w : i \in 0 .. 7
       /\ n < 80 => \A i \in w : i \in 0 .. 6
       /\ n < 40 => \A i \in w : i \in 0 .. 5
       /\ n < 20 => \A i \in w : i \in 0 .. 4
       /\ n < 10 => \A i \in w : i \in 0 .. 3
       /\ n < 8 => \A i \in w : i \in 0 .. 2
  BY <1>3, <1>4, <1>6, <1>8, <1>9
<1> QED
  BY <1>12, <1>13 DEF w

-----------------------------------------------------------------------------
(* What position k of a field adds to its value.                             *)
Term(word, first, weights, k) ==
  IF k <= Len(weights) /\ first + k - 1 \in word THEN weights[k] ELSE 0

TermsUpTo(word, first, weights, k) ==
  Term(word, first, weights, k) + Term(word, first, weights, k + 1)
    + Term(word, first, weights, k + 2) + Term(word, first, weights, k + 3)

LEMMA ValueOfTerms ==
  ASSUME NEW word, NEW first, NEW weights \in Seq(Nat), Len(weights) <= 12
  PROVE  /\ Value(word, first, weights)
              = (TermsUpTo(word, first, weights, 1) + TermsUpTo(word, first, weights, 5))
                + TermsUpTo(word, first, weights, 9)
         /\ \A k \in 1 .. 12 : Term(word, first, weights, k) \in Nat
<1> DEFINE S == {k \in 1 .. Len(weights) : first + k - 1 \in word}
<1>1. \A k \in 1 .. 12 : /\ Part(weights, S, k) = Term(word, first, weights, k)
                         /\ Term(word, first, weights, k) \in Nat
  BY DEF Part, Term
<1>2. Value(word, first, weights) = Total(weights, S)
  BY ValueIsTotal
<1> HIDE DEF S
<1>3. ASSUME NEW k \in {1, 5, 9}
      PROVE  Four(weights, S, k) = TermsUpTo(word, first, weights, k)
  <2>1. k \in 1 .. 12 /\ k + 1 \in 1 .. 12 /\ k + 2 \in 1 .. 12 /\ k + 3 \in 1 .. 12
    OBVIOUS
  <2> QED
    BY <1>1, <2>1 DEF Four, TermsUpTo
<1> QED
  BY <1>1, <1>2, <1>3 DEF Total

(* A field that is sent with its most significant bit first.                 *)
SentHighFirst(word, first, m, bits) ==
  \A j \in 0 .. m - 1 : first + m - 1 - j \in word <=> j \in bits

HighTerm(bits, weights, k) ==
  IF k <= Len(weights) /\ Len(weights) - k \in bits THEN weights[k] ELSE 0

HighSum(bits, weights) ==
  (HighTerm(bits, weights, 1) + HighTerm(bits, weights, 2)
    + HighTerm(bits, weights, 3) + HighTerm(bits, weights, 4))
  + (HighTerm(bits, weights, 5) + HighTerm(bits, weights, 6)
      + HighTerm(bits, weights, 7) + HighTerm(bits, weights, 8))
  + (HighTerm(bits, weights, 9) + HighTerm(bits, weights, 10)
      + HighTerm(bits, weights, 11) + HighTerm(bits, weights, 12))

LEMMA HighFirstValue ==
  ASSUME NEW word, NEW first \in Int, NEW bits, NEW weights \in Seq(Nat),
         NEW m \in 1 .. 12, Len(weights) = m, SentHighFirst(word, first, m, bits)
  PROVE  Value(word, first, weights) = HighSum(bits, weights)
<1>1. ASSUME NEW k \in 1 .. 12
      PROVE  Term(word, first, weights, k) = HighTerm(bits, weights, k)
  <2>1. ASSUME k <= m PROVE first + k - 1 \in word <=> m - k \in bits
    <3>1. m - k \in 0 .. m - 1 /\ first + m - 1 - (m - k) = first + k - 1
      BY <2>1
    <3> QED
      BY <3>1 DEF SentHighFirst
  <2> QED
    BY <2>1 DEF Term, HighTerm
<1>2. /\ 1 \in 1 .. 12 /\ 2 \in 1 .. 12 /\ 3 \in 1 .. 12 /\ 4 \in 1 .. 12
      /\ 5 \in 1 .. 12 /\ 6 \in 1 .. 12 /\ 7 \in 1 .. 12 /\ 8 \in 1 .. 12
      /\ 9 \in 1 .. 12 /\ 10 \in 1 .. 12 /\ 11 \in 1 .. 12 /\ 12 \in 1 .. 12
      /\ 1 + 1 = 2 /\ 1 + 2 = 3 /\ 1 + 3 = 4 /\ 5 + 1 = 6 /\ 5 + 2 = 7 /\ 5 + 3 = 8
      /\ 9 + 1 = 10 /\ 9 + 2 = 11 /\ 9 + 3 = 12
  OBVIOUS
<1>3. Value(word, first, weights)
        = (TermsUpTo(word, first, weights, 1) + TermsUpTo(word, first, weights, 5))
          + TermsUpTo(word, first, weights, 9)
  <2>1. Len(weights) <= 12
    OBVIOUS
  <2> QED
    BY <2>1, ValueOfTerms
<1> QED
  BY <1>1, <1>2, <1>3, ZenonT(30) DEF TermsUpTo, HighSum

(* Three decimal digits, each in five bits.                                  *)
PaddedDigits(b) ==
  (Bit(b, 0) + 2 * Bit(b, 1) + 4 * Bit(b, 2) + 8 * Bit(b, 3))
    + (10 * Bit(b, 5) + 20 * Bit(b, 6) + 40 * Bit(b, 7) + 80 * Bit(b, 8))
    + (100 * Bit(b, 10) + 200 * Bit(b, 11))

LEMMA PaddedValue ==
  ASSUME NEW n \in 0 .. 399
  PROVE  /\ to_padded5_bcd(n) \subseteq 0 .. 11
         /\ n = PaddedDigits(to_padded5_bcd(n))
         /\ 4 \notin to_padded5_bcd(n)
         /\ n < 100 => to_padded5_bcd(n) \subseteq 0 .. 8
         /\ n < 80 => to_padded5_bcd(n) \subseteq 0 .. 7
         /\ n < 40 => to_padded5_bcd(n) \subseteq 0 .. 6
<1> DEFINE u == Digit(n, 1)
           t == Digit(n, 10)
           h == Digit(n, 100)
           U == BitsOf(u)
           V == BitsOf(t)
           W == BitsOf(h)
           w == to_padded5_bcd(n)
<1>1. /\ u \in 0 .. 9 /\ t \in 0 .. 9 /\ h \in 0 .. 3 /\ n = u + 10 * t + 100 * h
      /\ n < 100 => h = 0
      /\ n < 80 => t < 8
      /\ n < 40 => t < 4
  BY DEF Digit
<1>2. /\ u \in 0 .. 127 /\ t \in 0 .. 127 /\ h \in 0 .. 127
      /\ u < 16 /\ t < 16 /\ h < 4
  BY <1>1
<1> HIDE DEF u, t, h
<1>3. U \subseteq 0 .. 3 /\ V \subseteq 0 .. 3 /\ W \subseteq 0 .. 1
  BY <1>2, FewBits
<1>4. /\ n < 80 => V \subseteq 0 .. 2
      /\ n < 40 => V \subseteq 0 .. 1
  BY <1>1, <1>2, FewBits
<1>5. /\ u = Bit(U, 0) + 2 * Bit(U, 1) + 4 * Bit(U, 2) + 8 * Bit(U, 3)
      /\ t = Bit(V, 0) + 2 * Bit(V, 1) + 4 * Bit(V, 2) + 8 * Bit(V, 3)
      /\ h = Bit(W, 0) + 2 * Bit(W, 1)
  <2>1. ASSUME NEW m \in 0 .. 127, BitsOf(m) \subseteq 0 .. 3
        PROVE  m = Bit(BitsOf(m), 0) + 2 * Bit(BitsOf(m), 1)
                   + 4 * Bit(BitsOf(m), 2) + 8 * Bit(BitsOf(m), 3)
    <3>1. Bit(BitsOf(m), 4) = 0 /\ Bit(BitsOf(m), 5) = 0 /\ Bit(BitsOf(m), 6) = 0
      BY <2>1 DEF Bit
    <3>2. \A i \in 0 .. 6 : Bit(BitsOf(m), i) \in Int
      BY DEF Bit
    <3> QED
      BY <3>1, <3>2, BinaryValue
  <2>2. W \subseteq 0 .. 3 /\ Bit(W, 2) = 0 /\ Bit(W, 3) = 0
    BY <1>3 DEF Bit
  <2>3. h = Bit(W, 0) + 2 * Bit(W, 1) + 4 * Bit(W, 2) + 8 * Bit(W, 3)
    BY <1>2, <2>1, <2>2
  <2>4. Bit(W, 0) \in Int /\ Bit(W, 1) \in Int
    BY DEF Bit
  <2>5. h = Bit(W, 0) + 2 * Bit(W, 1)
    <3> HIDE DEF W
    <3> QED
      BY <2>2, <2>3, <2>4
  <2> QED
    BY <1>2, <1>3, <2>1, <2>5
<1>6. n < 100 => W = {}
  <2>1. BitsOf(0) = {}
    <3>1. 0 \in 0 .. 127
      OBVIOUS
    <3> DEFINE Z == BitsOf(0)
    <3>2. Z \subseteq 0 .. 0 /\ Bit(Z, 0) = 0 % 2
      BY <3>1, FewBits, BitsOfNumber
    <3>3. 0 \notin Z
      BY <3>2 DEF Bit
    <3> HIDE DEF Z
    <3>4. Z = {}
      BY <3>2, <3>3
    <3> QED
      BY <3>4 DEF Z
  <2> QED
    BY <1>1, <2>1
<1> HIDE DEF U, V, W
<1>7. \A i \in Int : i \in Shift(V, 5) <=> i - 5 \in V
  BY <1>3 DEF Shift
<1>8. \A i \in Int : i \in Shift(W, 10) <=> i - 10 \in W
  BY <1>3 DEF Shift
<1>9. \A i \in Int : i \in w <=> i \in U \/ i - 5 \in V \/ i - 10 \in W
  BY <1>7, <1>8 DEF to_padded5_bcd, U, V, W, u, t, h
<1>10. w \subseteq Int
  BY <1>3 DEF to_padded5_bcd, Shift, U, V, W, u, t, h
<1> HIDE DEF w
<1>11. /\ Bit(w, 0) = Bit(U, 0) /\ Bit(w, 1) = Bit(U, 1)
       /\ Bit(w, 2) = Bit(U, 2) /\ Bit(w, 3) = Bit(U, 3)
       /\ Bit(w, 5) = Bit(V, 0) /\ Bit(w, 6) = Bit(V, 1)
       /\ Bit(w, 7) = Bit(V, 2) /\ Bit(w, 8) = Bit(V, 3)
       /\ Bit(w, 10) = Bit(W, 0) /\ Bit(w, 11) = Bit(W, 1)
  BY <1>3, <1>9 DEF Bit
<1>12. \A i \in 0 .. 3 : Bit(U, i) \in Int /\ Bit(V, i) \in Int /\ Bit(W, i) \in Int
  BY DEF Bit
<1>13. n = PaddedDigits(w)
  BY <1>1, <1>5, <1>11, <1>12 DEF PaddedDigits
<1>14. /\ \A i \in w : i \in 0 .. 11
       /\ 4 \notin w
       /\ n < 100 => \A i \in w : i \in 0 .. 8
       /\ n < 80 => \A i \in w : i \in 0 .. 7
       /\ n < 40 => \A i \in w : i \in 0 .. 6
  BY <1>3, <1>4, <1>6, <1>9, <1>10
<1> QED
  BY <1>13, <1>14 DEF w

LEMMA PaddedFields ==
  ASSUME NEW b
  PROVE  /\ b \subseteq 0 .. 7 => HighSum(b, Minutes) = PaddedDigits(b)
         /\ b \subseteq 0 .. 6 => HighSum(b, Hours) = PaddedDigits(b)
         /\ b \subseteq 0 .. 11 => HighSum(b, Days) = PaddedDigits(b)
         /\ b \subseteq 0 .. 8 => HighSum(b, Years) = PaddedDigits(b)
<1>1. ASSUME b \subseteq 0 .. 7 PROVE HighSum(b, Minutes) = PaddedDigits(b)
  <2>1. 8 \notin b /\ 10 \notin b /\ 11 \notin b
    BY <1>1
  <2> QED
    BY <2>1 DEF HighSum, HighTerm, Minutes, PaddedDigits, Bit
<1>2. ASSUME b \subseteq 0 .. 6 PROVE HighSum(b, Hours) = PaddedDigits(b)
  <2>1. 7 \notin b /\ 8 \notin b /\ 10 \notin b /\ 11 \notin b
    BY <1>2
  <2> QED
    BY <2>1 DEF HighSum, HighTerm, Hours, PaddedDigits, Bit
<1>3. ASSUME b \subseteq 0 .. 11 PROVE HighSum(b, Days) = PaddedDigits(b)
  BY DEF HighSum, HighTerm, Days, PaddedDigits, Bit
<1>4. ASSUME b \subseteq 0 .. 8 PROVE HighSum(b, Years) = PaddedDigits(b)
  <2>1. 10 \notin b /\ 11 \notin b
    BY <1>4
  <2> QED
    BY <2>1 DEF HighSum, HighTerm, Years, PaddedDigits, Bit
<1> QED
  BY <1>1, <1>2, <1>3, <1>4

LEMMA PaddedFieldValue ==
  ASSUME NEW word, NEW first \in Int, NEW n \in 0 .. 399
  PROVE  /\ n < 80 /\ SentHighFirst(word, first, 8, to_padded5_bcd(n))
              => Value(word, first, Minutes) = n
         /\ n < 40 /\ SentHighFirst(word, first, 7, to_padded5_bcd(n))
              => Value(word, first, Hours) = n
         /\ SentHighFirst(word, first, 12, to_padded5_bcd(n))
              => Value(word, first, Days) = n
         /\ n < 100 /\ SentHighFirst(word, first, 9, to_padded5_bcd(n))
              => Value(word, first, Years) = n
<1>1. /\ Minutes \in Seq(Nat) /\ Len(Minutes) = 8 /\ 8 \in 1 .. 12
      /\ Hours \in Seq(Nat) /\ Len(Hours) = 7 /\ 7 \in 1 .. 12
      /\ Days \in Seq(Nat) /\ Len(Days) = 12 /\ 12 \in 1 .. 12
      /\ Years \in Seq(Nat) /\ Len(Years) = 9 /\ 9 \in 1 .. 12
  BY DEF Minutes, Hours, Days, Years
<1>2. ASSUME n < 80, SentHighFirst(word, first, 8, to_padded5_bcd(n))
      PROVE  Value(word, first, Minutes) = n
  <2>1. Value(word, first, Minutes) = HighSum(to_padded5_bcd(n), Minutes)
    <3>1. Minutes \in Seq(Nat) /\ Len(Minutes) = 8 /\ 8 \in 1 .. 12
      BY <1>1
    <3> QED
      BY <1>2, <3>1, HighFirstValue
  <2> QED
    BY <1>2, <2>1, PaddedFields, PaddedValue
<1>3. ASSUME n < 40, SentHighFirst(word, first, 7, to_padded5_bcd(n))
      PROVE  Value(word, first, Hours) = n
  <2>1. Value(word, first, Hours) = HighSum(to_padded5_bcd(n), Hours)
    <3>1. Hours \in Seq(Nat) /\ Len(Hours) = 7 /\ 7 \in 1 .. 12
      BY <1>1
    <3> QED
      BY <1>3, <3>1, HighFirstValue
  <2> QED
    BY <1>3, <2>1, PaddedFields, PaddedValue
<1>4. ASSUME SentHighFirst(word, first, 12, to_padded5_bcd(n))
      PROVE  Value(word, first, Days) = n
  <2>1. Value(word, first, Days) = HighSum(to_padded5_bcd(n), Days)
    <3>1. Days \in Seq(Nat) /\ Len(Days) = 12 /\ 12 \in 1 .. 12
      BY <1>1
    <3> QED
      BY <1>4, <3>1, HighFirstValue
  <2> QED
    BY <2>1, PaddedFields, PaddedValue
<1>5. ASSUME n < 100, SentHighFirst(word, first, 9, to_padded5_bcd(n))
      PROVE  Value(word, first, Years) = n
  <2>1. Value(word, first, Years) = HighSum(to_padded5_bcd(n), Years)
    <3>1. Years \in Seq(Nat) /\ Len(Years) = 9 /\ 9 \in 1 .. 12
      BY <1>1
    <3> QED
      BY <1>5, <3>1, HighFirstValue
  <2> QED
    BY <1>5, <2>1, PaddedFields, PaddedValue
<1> QED
  BY <1>2, <1>3, <1>4, <1>5

-----------------------------------------------------------------------------
(* A field that is sent with its least significant bit first.                *)
SentLowFirst(word, first, m, bits) ==
  \A j \in 0 .. m - 1 : first + j \in word <=> j \in bits

LowTerm(bits, weights, k) ==
  IF k <= Len(weights) /\ k - 1 \in bits THEN weights[k] ELSE 0

LowSum(bits, weights) ==
  (LowTerm(bits, weights, 1) + LowTerm(bits, weights, 2)
    + LowTerm(bits, weights, 3) + LowTerm(bits, weights, 4))
  + (LowTerm(bits, weights, 5) + LowTerm(bits, weights, 6)
      + LowTerm(bits, weights, 7) + LowTerm(bits, weights, 8))
  + (LowTerm(bits, weights, 9) + LowTerm(bits, weights, 10)
      + LowTerm(bits, weights, 11) + LowTerm(bits, weights, 12))

LEMMA LowFirstValue ==
  ASSUME NEW word, NEW first \in Int, NEW bits, NEW weights \in Seq(Nat),
         NEW m \in 1 .. 12, Len(weights) = m, SentLowFirst(word, first, m, bits)
  PROVE  Value(word, first, weights) = LowSum(bits, weights)
<1>1. ASSUME NEW k \in 1 .. 12
      PROVE  Term(word, first, weights, k) = LowTerm(bits, weights, k)
  <2>1. ASSUME k <= m PROVE first + k - 1 \in word <=> k - 1 \in bits
    <3>1. k - 1 \in 0 .. m - 1 /\ first + (k - 1) = first + k - 1
      BY <2>1
    <3> QED
      BY <3>1 DEF SentLowFirst
  <2> QED
    BY <2>1 DEF Term, LowTerm
<1>2. /\ 1 \in 1 .. 12 /\ 2 \in 1 .. 12 /\ 3 \in 1 .. 12 /\ 4 \in 1 .. 12
      /\ 5 \in 1 .. 12 /\ 6 \in 1 .. 12 /\ 7 \in 1 .. 12 /\ 8 \in 1 .. 12
      /\ 9 \in 1 .. 12 /\ 10 \in 1 .. 12 /\ 11 \in 1 .. 12 /\ 12 \in 1 .. 12
      /\ 1 + 1 = 2 /\ 1 + 2 = 3 /\ 1 + 3 = 4 /\ 5 + 1 = 6 /\ 5 + 2 = 7 /\ 5 + 3 = 8
      /\ 9 + 1 = 10 /\ 9 + 2 = 11 /\ 9 + 3 = 12
  OBVIOUS
<1>3. Value(word, first, weights)
        = (TermsUpTo(word, first, weights, 1) + TermsUpTo(word, first, weights, 5))
          + TermsUpTo(word, first, weights, 9)
  <2>1. Len(weights) <= 12
    OBVIOUS
  <2> QED
    BY <2>1, ValueOfTerms
<1> QED
  BY <1>1, <1>2, <1>3, ZenonT(30) DEF TermsUpTo, LowSum

(* Two decimal digits, each in four bits, and a binary number.               *)
Digits(b) ==
  (Bit(b, 0) + 2 * Bit(b, 1) + 4 * Bit(b, 2) + 8 * Bit(b, 3))
    + (10 * Bit(b, 4) + 20 * Bit(b, 5) + 40 * Bit(b, 6) + 80 * Bit(b, 7))

Binary(b) ==
  (Bit(b, 0) + 2 * Bit(b, 1) + 4 * Bit(b, 2) + 8 * Bit(b, 3))
    + (16 * Bit(b, 4) + 32 * Bit(b, 5) + 64 * Bit(b, 6))

LowDigits == <<1, 2, 4, 8, 10, 20, 40, 80>>

Powers2 == <<1, 2, 4, 8, 16, 32, 64>>

LEMMA LowFields ==
  ASSUME NEW b, NEW m \in 1 .. 8, b \subseteq 0 .. m - 1
  PROVE  /\ LowSum(b, SubSeq(LowDigits, 1, m)) = Digits(b)
         /\ m < 8 => LowSum(b, SubSeq(Powers2, 1, m)) = Binary(b)
<1>1. LET v == SubSeq(LowDigits, 1, m)
      IN  Len(v) = m /\ \A k \in 1 .. m : v[k] = LowDigits[k]
  BY DEF LowDigits
<1>2. PICK v : v = SubSeq(LowDigits, 1, m)
  OBVIOUS
<1>3. \A k \in 1 .. 12 : LowTerm(b, v, k) = IF k - 1 \in b THEN LowDigits[k] ELSE 0
  BY <1>1, <1>2 DEF LowTerm
<1>4. \A k \in 0 .. 11 : k >= 8 => k \notin b
  OBVIOUS
<1>5. LowSum(b, v) = Digits(b)
  BY <1>3, <1>4 DEF LowSum, Digits, Bit, LowDigits
<1>6. ASSUME m < 8 PROVE LowSum(b, SubSeq(Powers2, 1, m)) = Binary(b)
  <2>1. LET v2 == SubSeq(Powers2, 1, m)
        IN  Len(v2) = m /\ \A k \in 1 .. m : v2[k] = Powers2[k]
    BY <1>6 DEF Powers2
  <2>2. PICK p : p = SubSeq(Powers2, 1, m)
    OBVIOUS
  <2>3. \A k \in 1 .. 12 : LowTerm(b, p, k) = IF k - 1 \in b THEN Powers2[k] ELSE 0
    BY <2>1, <2>2 DEF LowTerm
  <2>4. \A k \in 0 .. 11 : k >= 7 => k \notin b
    BY <1>6
  <2>5. LowSum(b, p) = Binary(b)
    BY <2>3, <2>4 DEF LowSum, Binary, Bit, Powers2
  <2> QED
    BY <2>2, <2>5
<1> QED
  BY <1>2, <1>5, <1>6

LEMMA UnitsFields ==
  ASSUME NEW b, NEW m \in {3, 5, 6, 7, 8}, b \subseteq 0 .. m - 1
  PROVE  HighSum(b, Units(m)) = Digits(b)
<1>1. ASSUME b \subseteq 0 .. 2 PROVE HighSum(b, Units(3)) = Digits(b)
  <2>1. PICK v : v = Units(3)
    OBVIOUS
  <2>2. /\ Len(v) = 3
        /\ v[1] = 4 /\ v[2] = 2 /\ v[3] = 1
    BY <2>1 DEF Units
  <2>3. 3 \notin b /\ 4 \notin b /\ 5 \notin b /\ 6 \notin b /\ 7 \notin b
    BY <1>1
  <2>4. HighSum(b, v) = Digits(b)
    BY <2>2, <2>3 DEF HighSum, HighTerm, Digits, Bit
  <2> QED
    BY <2>1, <2>4
<1>2. ASSUME b \subseteq 0 .. 4 PROVE HighSum(b, Units(5)) = Digits(b)
  <2>1. PICK v : v = Units(5)
    OBVIOUS
  <2>2. /\ Len(v) = 5
        /\ v[1] = 10 /\ v[2] = 8 /\ v[3] = 4 /\ v[4] = 2
        /\ v[5] = 1
    BY <2>1 DEF Units
  <2>3. 5 \notin b /\ 6 \notin b /\ 7 \notin b
    BY <1>2
  <2>4. HighSum(b, v) = Digits(b)
    BY <2>2, <2>3 DEF HighSum, HighTerm, Digits, Bit
  <2> QED
    BY <2>1, <2>4
<1>3. ASSUME b \subseteq 0 .. 5 PROVE HighSum(b, Units(6)) = Digits(b)
  <2>1. PICK v : v = Units(6)
    OBVIOUS
  <2>2. /\ Len(v) = 6
        /\ v[1] = 20 /\ v[2] = 10 /\ v[3] = 8 /\ v[4] = 4
        /\ v[5] = 2 /\ v[6] = 1
    BY <2>1 DEF Units
  <2>3. 6 \notin b /\ 7 \notin b
    BY <1>3
  <2>4. HighSum(b, v) = Digits(b)
    BY <2>2, <2>3 DEF HighSum, HighTerm, Digits, Bit
  <2> QED
    BY <2>1, <2>4
<1>4. ASSUME b \subseteq 0 .. 6 PROVE HighSum(b, Units(7)) = Digits(b)
  <2>1. PICK v : v = Units(7)
    OBVIOUS
  <2>2. /\ Len(v) = 7
        /\ v[1] = 40 /\ v[2] = 20 /\ v[3] = 10 /\ v[4] = 8
        /\ v[5] = 4 /\ v[6] = 2 /\ v[7] = 1
    BY <2>1 DEF Units
  <2>3. 7 \notin b
    BY <1>4
  <2>4. HighSum(b, v) = Digits(b)
    BY <2>2, <2>3 DEF HighSum, HighTerm, Digits, Bit
  <2> QED
    BY <2>1, <2>4
<1>5. ASSUME b \subseteq 0 .. 7 PROVE HighSum(b, Units(8)) = Digits(b)
  <2>1. PICK v : v = Units(8)
    OBVIOUS
  <2>2. /\ Len(v) = 8
        /\ v[1] = 80 /\ v[2] = 40 /\ v[3] = 20 /\ v[4] = 10
        /\ v[5] = 8 /\ v[6] = 4 /\ v[7] = 2 /\ v[8] = 1
    BY <2>1 DEF Units
  <2>4. HighSum(b, v) = Digits(b)
    BY <2>2 DEF HighSum, HighTerm, Digits, Bit
  <2> QED
    BY <2>1, <2>4
<1> QED
  BY <1>1, <1>2, <1>3, <1>4, <1>5

(* What a clock reads from a field is the number that was written into it.     *)
LEMMA LowDigitsValue ==
  ASSUME NEW word, NEW first \in Int, NEW n \in 0 .. 99, NEW m \in 1 .. 8,
         to_bcd(n) \subseteq 0 .. m - 1, SentLowFirst(word, first, m, to_bcd(n))
  PROVE  Value(word, first, SubSeq(LowDigits, 1, m)) = n
<1>1. LET v == SubSeq(LowDigits, 1, m) IN v \in Seq(Nat) /\ Len(v) = m
  BY DEF LowDigits
<1>2. PICK v : v = SubSeq(LowDigits, 1, m)
  OBVIOUS
<1>3. v \in Seq(Nat) /\ Len(v) = m /\ m \in 1 .. 12
  BY <1>1, <1>2
<1>4. Value(word, first, v) = LowSum(to_bcd(n), v)
  BY <1>3, LowFirstValue
<1>5. LowSum(to_bcd(n), v) = Digits(to_bcd(n))
  BY <1>2, LowFields
<1>6. n = Digits(to_bcd(n))
  <2>1. \A i \in 0 .. 7 : Bit(to_bcd(n), i) \in Int
    BY DEF Bit
  <2> QED
    BY <2>1, BcdValue DEF Digits
<1> QED
  BY <1>2, <1>4, <1>5, <1>6

LEMMA UnitsValue ==
  ASSUME NEW word, NEW first \in Int, NEW n \in 0 .. 99, NEW m \in {3, 5, 6, 7, 8},
         to_bcd(n) \subseteq 0 .. m - 1, SentHighFirst(word, first, m, to_bcd(n))
  PROVE  Value(word, first, Units(m)) = n
<1>1. LET v == Units(m) IN v \in Seq(Nat) /\ Len(v) = m
  BY DEF Units
<1>2. PICK v : v = Units(m)
  OBVIOUS
<1>3. v \in Seq(Nat) /\ Len(v) = m /\ m \in 1 .. 12
  BY <1>1, <1>2
<1>4. Value(word, first, v) = HighSum(to_bcd(n), v)
  BY <1>3, HighFirstValue
<1>5. HighSum(to_bcd(n), v) = Digits(to_bcd(n))
  BY <1>2, UnitsFields
<1>6. n = Digits(to_bcd(n))
  <2>1. \A i \in 0 .. 7 : Bit(to_bcd(n), i) \in Int
    BY DEF Bit
  <2> QED
    BY <2>1, BcdValue DEF Digits
<1> QED
  BY <1>2, <1>4, <1>5, <1>6

LEMMA Powers2Value ==
  ASSUME NEW word, NEW first \in Int, NEW n \in 0 .. 127, NEW m \in 1 .. 7,
         BitsOf(n) \subseteq 0 .. m - 1, SentLowFirst(word, first, m, BitsOf(n))
  PROVE  Value(word, first, SubSeq(Powers2, 1, m)) = n
<1>1. LET v == SubSeq(Powers2, 1, m) IN v \in Seq(Nat) /\ Len(v) = m
  BY DEF Powers2
<1>2. PICK v : v = SubSeq(Powers2, 1, m)
  OBVIOUS
<1>3. v \in Seq(Nat) /\ Len(v) = m /\ m \in 1 .. 12
  BY <1>1, <1>2
<1>4. Value(word, first, v) = LowSum(BitsOf(n), v)
  BY <1>3, LowFirstValue
<1>5. LowSum(BitsOf(n), v) = Binary(BitsOf(n))
  <2>1. m \in 1 .. 8 /\ m < 8
    OBVIOUS
  <2> QED
    BY <1>2, <2>1, LowFields
<1>6. n = Binary(BitsOf(n))
  <2>1. \A i \in 0 .. 6 : Bit(BitsOf(n), i) \in Int
    BY DEF Bit
  <2> QED
    BY <2>1, BinaryValue DEF Binary
<1> QED
  BY <1>2, <1>4, <1>5, <1>6

-----------------------------------------------------------------------------
(* Parity.                                                                 *)
LEMMA Finite ==
  ASSUME NEW S \in SUBSET (0 .. 59)
  PROVE  IsFiniteSet(S) /\ Cardinality(S) \in Nat
<1>1. IsFiniteSet(0 .. 59)
  <2>1. 0 \in Int /\ 59 \in Int
    OBVIOUS
  <2> QED
    BY <2>1, FS_Interval, Zenon
<1>2. IsFiniteSet(S)
  BY <1>1, FS_Subset
<1> QED
  BY <1>2, FS_CardinalityType

(* A parity bit makes the number of the bits it covers, and itself, even.       *)
LEMMA ParityBit ==
  ASSUME NEW bits \in SUBSET (0 .. 59), NEW p \in 0 .. 59, p \notin bits,
         NEW word, NEW covered \in SUBSET (0 .. 59), covered = word \cap bits,
         p \in word <=> Cardinality(covered) % 2 = 1
  PROVE  Even(word, bits \cup {p})
<1>1. IsFiniteSet(covered) /\ Cardinality(covered) \in Nat
  BY Finite
<1>2. CASE p \in word
  <2>1. word \cap (bits \cup {p}) = covered \cup {p} /\ p \notin covered
    BY <1>2
  <2>2. Cardinality(covered \cup {p}) = Cardinality(covered) + 1
    BY <1>1, <2>1, FS_AddElement
  <2>3. (Cardinality(covered) + 1) % 2 = 0
    BY <1>1, <1>2
  <2> QED
    BY <2>1, <2>2, <2>3 DEF Even
<1>3. CASE p \notin word
  <2>1. word \cap (bits \cup {p}) = covered
    BY <1>3
  <2>2. Cardinality(covered) % 2 = 0
    BY <1>1, <1>3
  <2> QED
    BY <2>1, <2>2 DEF Even
<1> QED
  BY <1>2, <1>3

LEMMA AsMany ==
  ASSUME NEW S, NEW T, IsFiniteSet(S), NEW f \in [S -> T],
         \A s, t \in S : f[s] = f[t] => s = t, \A t \in T : \E s \in S : f[s] = t
  PROVE  Cardinality(S) = Cardinality(T)
<1>1. f \in Injection(S, T) /\ f \in Surjection(S, T)
  BY DEF Injection, Surjection, IsInjective
<1>2. ExistsBijection(S, T)
  BY <1>1, Zenon DEF ExistsBijection, Bijection
<1> QED
  BY <1>2, FS_Bijection

(* Where bit 59 - s is sent in second s, as many bits are set from one second to   *)
(* another as between the bits that are sent there.                          *)
Reversed(word, c, d, data, a, b) ==
  /\ word \in SUBSET (0 .. 59) /\ a \in 0 .. 59 /\ b \in 0 .. 59
  /\ c = 59 - b /\ d = 59 - a
  /\ \A s \in c .. d : s \in word <=> 59 - s \in data

Ones(word, from, to) == Cardinality(word \cap (from .. to))

LEMMA AsManyReversed ==
  ASSUME NEW word, NEW data, NEW a, NEW b, NEW c, NEW d,
         Reversed(word, c, d, data, a, b)
  PROVE  Ones(word, c, d) = Ones(data, a, b)
<1> USE DEF Reversed
<1>1. PICK S : S = word \cap (c .. d)
  OBVIOUS
<1>2. PICK T : T = data \cap (a .. b)
  OBVIOUS
<1>3. IsFiniteSet(S)
  BY <1>1, Finite
<1>4. \A s \in S : s \in Int /\ 59 - s \in T
  BY <1>1, <1>2
<1>5. \A t \in T : t \in Int /\ 59 - t \in S /\ 59 - (59 - t) = t
  BY <1>1, <1>2
<1> HIDE DEF Reversed
<1>6. PICK f : f = [s \in S |-> 59 - s]
  OBVIOUS
<1>7. f \in [S -> T]
  BY <1>4, <1>6
<1>8. \A s, t \in S : f[s] = f[t] => s = t
  BY <1>4, <1>6
<1>9. \A t \in T : \E s \in S : f[s] = t
  BY <1>5, <1>6
<1>10. Cardinality(S) = Cardinality(T)
  BY <1>3, <1>7, <1>8, <1>9, AsMany
<1> QED
  BY <1>1, <1>2, <1>10 DEF Ones

-----------------------------------------------------------------------------
(* The fields of a broken-down time have the ranges libc gives them, from 1970   *)
(* on.                                                                     *)
LEMMA OneMoreMultiple ==
  ASSUME NEW y \in Nat \ {0}, NEW d \in {4, 100, 400}
  PROVE  (y \div d) - ((y - 1) \div d) = IF y % d = 0 THEN 1 ELSE 0
<1>1. CASE d = 4
  BY <1>1
<1>2. CASE d = 100
  BY <1>2
<1>3. CASE d = 400
  BY <1>3
<1> QED
  BY <1>1, <1>2, <1>3

LEMMA YearLength ==
  ASSUME NEW y \in Nat \ {0}
  PROVE  /\ DaysBefore(y) \in Int /\ DaysBefore(y + 1) \in Int
         /\ DaysBefore(y + 1) = DaysBefore(y) + IF IsLeap(y) THEN 366 ELSE 365
<1>1. /\ (y \div 4) - ((y - 1) \div 4) = IF y % 4 = 0 THEN 1 ELSE 0
      /\ (y \div 100) - ((y - 1) \div 100) = IF y % 100 = 0 THEN 1 ELSE 0
      /\ (y \div 400) - ((y - 1) \div 400) = IF y % 400 = 0 THEN 1 ELSE 0
  BY OneMoreMultiple
<1>2. /\ y % 400 = 0 => y % 100 = 0
      /\ y % 100 = 0 => y % 4 = 0
  OBVIOUS
<1>3. /\ y \div 4 \in Int /\ y \div 100 \in Int /\ y \div 400 \in Int
      /\ (y - 1) \div 4 \in Int /\ (y - 1) \div 100 \in Int /\ (y - 1) \div 400 \in Int
  OBVIOUS
<1>4. DaysBefore(y + 1) = 365 * (y - 1969) + (y \div 4 - y \div 100 + y \div 400) - 477
  BY DEF DaysBefore
<1>5. DaysBefore(y) = 365 * (y - 1970)
        + ((y - 1) \div 4 - (y - 1) \div 100 + (y - 1) \div 400) - 477
  BY DEF DaysBefore
<1> QED
  BY <1>1, <1>2, <1>3, <1>4, <1>5 DEF IsLeap

LEMMA YearBounds ==
  ASSUME NEW y \in Nat, y >= 1970
  PROVE  365 * (y - 1970) <= DaysBefore(y) /\ DaysBefore(y) <= 366 * (y - 1970)
BY DEF DaysBefore

LEMMA YearContains ==
  ASSUME NEW day \in Nat
  PROVE  /\ YearOf(day) \in Nat /\ YearOf(day) >= 1970
         /\ DaysBefore(YearOf(day)) <= day /\ day < DaysBefore(YearOf(day) + 1)
<1> DEFINE S == {n \in Nat : DaysBefore(1970 + n) <= day}
<1>1. 0 \in S
  <2>1. DaysBefore(1970) = 0
    BY DEF DaysBefore
  <2> QED
    BY <2>1
<1>2. day + 1 \notin S
  <2>1. 365 * ((1970 + (day + 1)) - 1970) <= DaysBefore(1970 + (day + 1))
    <3>1. 1970 + (day + 1) \in Nat /\ 1970 + (day + 1) >= 1970
      OBVIOUS
    <3> QED
      BY <3>1, YearBounds
  <2>2. DaysBefore(1970 + (day + 1)) \in Int
    BY DEF DaysBefore
  <2> QED
    BY <2>1, <2>2
<1>3. \E n \in S : n + 1 \notin S
  <2>1. S \in SUBSET Nat /\ S # Nat
    <3>1. S \in SUBSET Nat
      OBVIOUS
    <3>2. day + 1 \in Nat
      OBVIOUS
    <3> HIDE DEF S
    <3> QED
      BY <1>2, <3>1, <3>2, Zenon
  <2> HIDE DEF S
  <2> QED
    BY <1>1, <2>1, AllNaturals
<1>4. PICK n \in Nat : n \in S /\ n + 1 \notin S
  BY <1>3
<1> DEFINE y == 1970 + n
<1>5. y \in Nat /\ y >= 1970 /\ y \in Nat \ {0}
  OBVIOUS
<1>6. DaysBefore(y) <= day /\ day < DaysBefore(y + 1)
  <2>1. y + 1 = 1970 + (n + 1) /\ n + 1 \in Nat
    OBVIOUS
  <2>2. DaysBefore(y) <= day /\ ~(DaysBefore(1970 + (n + 1)) <= day)
    BY <1>4, <2>1
  <2> HIDE DEF y
  <2>3. DaysBefore(y + 1) \in Int
    BY <1>5, YearLength
  <2> QED
    BY <2>1, <2>2, <2>3
<1> HIDE DEF y, S
<1>7. y \in 1970 + (day \div 366) .. 1970 + (day \div 365)
  <2>1. 365 * (y - 1970) <= day
    BY <1>5, <1>6, YearBounds, YearLength
  <2>2. day < 366 * (y - 1969)
    <3>1. y + 1 \in Nat /\ y + 1 >= 1970 /\ (y + 1) - 1970 = y - 1969
      BY <1>5
    <3>2. DaysBefore(y + 1) <= 366 * ((y + 1) - 1970)
      BY <3>1, YearBounds
    <3>3. DaysBefore(y + 1) \in Int
      BY <1>5, YearLength
    <3> QED
      BY <1>5, <1>6, <3>1, <3>2, <3>3
  <2>3. y - 1970 <= day \div 365
    BY <1>5, <2>1
  <2>4. day \div 366 <= y - 1970
    BY <1>5, <2>2
  <2> QED
    BY <1>5, <2>3, <2>4
<1>8. \A x \in 1970 + (day \div 366) .. 1970 + (day \div 365) : x \in Nat /\ x >= 1970
  OBVIOUS
<1> QED
  BY <1>6, <1>7, <1>8 DEF YearOf

(* What gmtime and localtime return.                                        *)
StructTm ==
  [min : 0 .. 59, hour : 0 .. 23, mday : 1 .. 31, mon : 0 .. 11, year : Nat,
   yday : 0 .. 365, wday : 0 .. 6, isdst : BOOLEAN]

LEMMA MonthContains ==
  ASSUME NEW year, NEW yday \in Nat, yday < IF IsLeap(year) THEN 366 ELSE 365
  PROVE  LET starts == MonthStart(year)
             mon == MonthOf(starts, yday)
         IN  mon \in 0 .. 11 /\ yday - starts[mon + 1] + 1 \in 1 .. 31
<1> DEFINE leap == IF IsLeap(year) THEN 1 ELSE 0
           s == MonthStart(year)
<1>1. leap \in {0, 1} /\ yday < 365 + leap
  OBVIOUS
<1>2. /\ s[1] = 0 /\ s[2] = 31 /\ s[3] = 59 + leap /\ s[4] = 90 + leap
      /\ s[5] = 120 + leap /\ s[6] = 151 + leap /\ s[7] = 181 + leap
      /\ s[8] = 212 + leap /\ s[9] = 243 + leap /\ s[10] = 273 + leap
      /\ s[11] = 304 + leap /\ s[12] = 334 + leap /\ s[13] = 365 + leap
  BY DEF MonthStart
<1> HIDE DEF leap, s
<1> DEFINE In(m) == s[m + 1] <= yday /\ yday < s[m + 2]
<1>3. ASSUME NEW m \in 0 .. 11, In(m) PROVE yday - s[m + 1] + 1 \in 1 .. 31
  <2>1. \/ m = 0 \/ m = 1 \/ m = 2 \/ m = 3 \/ m = 4 \/ m = 5 \/ m = 6 \/ m = 7
        \/ m = 8 \/ m = 9 \/ m = 10 \/ m = 11
    OBVIOUS
  <2> QED
    BY <1>1, <1>2, <1>3, <2>1
<1>4. \E m \in 0 .. 11 : In(m)
  <2>1. \/ In(0) \/ In(1) \/ In(2) \/ In(3) \/ In(4) \/ In(5) \/ In(6) \/ In(7)
        \/ In(8) \/ In(9) \/ In(10) \/ In(11)
    BY <1>1, <1>2
  <2> HIDE DEF In
  <2> QED
    BY <2>1
<1>5. MonthOf(s, yday) = CHOOSE m \in 0 .. 11 : In(m)
  BY DEF MonthOf
<1> HIDE DEF In
<1>6. MonthOf(s, yday) \in 0 .. 11 /\ In(MonthOf(s, yday))
  BY <1>4, <1>5
<1> QED
  BY <1>3, <1>6 DEF s

LEMMA gmtimeIsATime ==
  ASSUME NEW t \in Nat
  PROVE  gmtime(t) \in StructTm
<1> DEFINE day == t \div 1440
           y == YearOf(day)
           yday == day - DaysBefore(y)
           s == MonthStart(y)
           m == MonthOf(s, yday)
<1>1. day \in Nat
  OBVIOUS
<1>2. y \in Nat /\ y >= 1970 /\ DaysBefore(y) <= day /\ day < DaysBefore(y + 1)
  BY <1>1, YearContains
<1> HIDE DEF y
<1>3. /\ DaysBefore(y) \in Int /\ DaysBefore(y + 1) \in Int
      /\ DaysBefore(y + 1) = DaysBefore(y) + IF IsLeap(y) THEN 366 ELSE 365
  BY <1>2, YearLength
<1>4. yday \in Nat /\ (yday < IF IsLeap(y) THEN 366 ELSE 365) /\ yday \in 0 .. 365
  <2> HIDE DEF day
  <2> QED
    BY <1>1, <1>2, <1>3
<1> HIDE DEF yday
<1>5. m \in 0 .. 11 /\ yday - s[m + 1] + 1 \in 1 .. 31
  BY <1>4, MonthContains
<1> HIDE DEF m
<1>6. /\ t % 60 \in 0 .. 59 /\ (t \div 60) % 24 \in 0 .. 23
      /\ ((t \div 1440) + 4) % 7 \in 0 .. 6
      /\ y - 1900 \in Nat
  BY <1>2
<1>7. gmtime(t) = [min |-> t % 60, hour |-> (t \div 60) % 24,
                   mday |-> yday - s[m + 1] + 1, mon |-> m, year |-> y - 1900,
                   yday |-> yday, wday |-> ((t \div 1440) + 4) % 7, isdst |-> FALSE]
  BY DEF gmtime, InYear, OnDay, BrokenDown, y, yday, m
<1> HIDE DEF s, day
<1> QED
  BY <1>4, <1>5, <1>6, <1>7 DEF StructTm

LEMMA localtimeIsATime ==
  ASSUME NEW zone \in Zones, NEW t \in Nat, t >= 1439
  PROVE  /\ localtime(zone, t) \in StructTm
         /\ localtime(zone, t).isdst = InSummer(zone, t)
         /\ localtime(zone, t)
              = [gmtime(t + Offset(zone, t)) EXCEPT !.isdst = InSummer(zone, t)]
<1> DEFINE dst == InSummer(zone, t)
           g == gmtime(t + Offset(zone, t))
<1>1. dst \in BOOLEAN
  BY DEF InSummer, Zones
<1>2. PICK e : e = IF InSummer(zone, t) THEN 60 ELSE 0
  OBVIOUS
<1>3. PICK o : zone.offset = o
  OBVIOUS
<1>4. Offset(zone, t) = o + e
  BY <1>2, <1>3 DEF Offset
<1>5. t + Offset(zone, t) \in Nat /\ t + Offset(zone, t) = t + zone.offset + e
  <2>1. o \in -1439 .. 1439
    BY <1>3 DEF Zones
  <2>2. e \in {0, 60}
    BY <1>2
  <2>3. t + (o + e) \in Nat /\ t + (o + e) = t + o + e
    <3> HIDE DEF dst, g
    <3> QED
      BY <2>1, <2>2
  <2> HIDE DEF dst, g
  <2>4. t + Offset(zone, t) = t + (o + e)
    BY <1>4
  <2>5. t + zone.offset + e = t + o + e
    BY <1>3
  <2> QED
    BY <2>3, <2>4, <2>5
<1>6. localtime(zone, t) = [g EXCEPT !.isdst = dst]
  BY <1>2, <1>5 DEF localtime
<1>7. g \in StructTm
  BY <1>5, gmtimeIsATime
<1> HIDE DEF dst, g
<1>8. [g EXCEPT !.isdst = dst] \in StructTm /\ [g EXCEPT !.isdst = dst].isdst = dst
  BY <1>1, <1>7 DEF StructTm
<1> QED
  BY <1>6, <1>8 DEF dst, g

-----------------------------------------------------------------------------
(* DCF77: a bit per second, the first bit first.                            *)
LEMMA ShiftedBits ==
  ASSUME NEW bits \in SUBSET Int, NEW by \in Int
  PROVE  \A i : i \in Shift(bits, by) <=> i \in Int /\ i - by \in bits
BY DEF Shift

(* Which field a second of DCF77 belongs to.                                *)
DCF77Bit(dst, M, H, D, W, N, Y, i) ==
  \/ i = 17 /\ dst
  \/ i = 18 /\ ~dst
  \/ i = 20
  \/ i - 21 \in M
  \/ i - 29 \in H
  \/ i - 36 \in D
  \/ i - 42 \in W
  \/ i - 45 \in N
  \/ i - 50 \in Y

LEMMA DCF77Layout ==
  ASSUME NEW tm \in StructTm
  PROVE  LET wday == IF tm.wday = 0 THEN 7 ELSE tm.wday
         IN \A i : i \in DCF77Data(tm) <=>
                     /\ i \in Int
                     /\ DCF77Bit(tm.isdst, to_bcd(tm.min), to_bcd(tm.hour),
                                 to_bcd(tm.mday), to_bcd(wday),
                                 to_bcd(tm.mon + 1), to_bcd(tm.year % 100), i)
<1> DEFINE wday == IF tm.wday = 0 THEN 7 ELSE tm.wday
<1>1. PICK M : M = to_bcd(tm.min)
  OBVIOUS
<1>2. PICK H : H = to_bcd(tm.hour)
  OBVIOUS
<1>3. PICK D : D = to_bcd(tm.mday)
  OBVIOUS
<1>4. PICK W : W = to_bcd(wday)
  OBVIOUS
<1>5. PICK N : N = to_bcd(tm.mon + 1)
  OBVIOUS
<1>6. PICK Y : Y = to_bcd(tm.year % 100)
  OBVIOUS
<1>7. /\ M \in SUBSET Int /\ H \in SUBSET Int /\ D \in SUBSET Int
      /\ W \in SUBSET Int /\ N \in SUBSET Int /\ Y \in SUBSET Int
  <2>1. \A n : to_bcd(n) \subseteq Int
    BY DEF to_bcd, BitsOf, Shift
  <2> QED
    BY <1>1, <1>2, <1>3, <1>4, <1>5, <1>6, <2>1
<1>8. DCF77Data(tm) = UNION { Flag(tm.isdst, 17), Flag(~tm.isdst, 18), {20},
              Shift(M, 21), Shift(H, 29), Shift(D, 36),
              Shift(W, 42), Shift(N, 45), Shift(Y, 50) }
  BY <1>1, <1>2, <1>3, <1>4, <1>5, <1>6, ZenonT(30) DEF DCF77Data
<1> HIDE DEF wday
<1>9. ASSUME NEW i PROVE i \in DCF77Data(tm) <=>
        \/ i \in Flag(tm.isdst, 17) \/ i \in Flag(~tm.isdst, 18) \/ i = 20
        \/ i \in Shift(M, 21) \/ i \in Shift(H, 29) \/ i \in Shift(D, 36)
        \/ i \in Shift(W, 42) \/ i \in Shift(N, 45) \/ i \in Shift(Y, 50)
  BY <1>8
<1>10. ASSUME NEW i
       PROVE  i \in DCF77Data(tm) <=>
                i \in Int /\ DCF77Bit(tm.isdst, M, H, D, W, N, Y, i)
  <2>1. /\ i \in Flag(tm.isdst, 17) <=> i = 17 /\ tm.isdst
        /\ i \in Flag(~tm.isdst, 18) <=> i = 18 /\ ~tm.isdst
    BY DEF Flag
  <2>2. /\ i \in Shift(M, 21) <=> i \in Int /\ i - 21 \in M
        /\ i \in Shift(H, 29) <=> i \in Int /\ i - 29 \in H
        /\ i \in Shift(D, 36) <=> i \in Int /\ i - 36 \in D
        /\ i \in Shift(W, 42) <=> i \in Int /\ i - 42 \in W
        /\ i \in Shift(N, 45) <=> i \in Int /\ i - 45 \in N
        /\ i \in Shift(Y, 50) <=> i \in Int /\ i - 50 \in Y
    BY <1>7, ShiftedBits
  <2>3. 17 \in Int /\ 18 \in Int /\ 20 \in Int
    OBVIOUS
  <2>4. i \in DCF77Data(tm) <=>
          \/ i \in Flag(tm.isdst, 17) \/ i \in Flag(~tm.isdst, 18) \/ i = 20
          \/ i \in Shift(M, 21) \/ i \in Shift(H, 29) \/ i \in Shift(D, 36)
          \/ i \in Shift(W, 42) \/ i \in Shift(N, 45) \/ i \in Shift(Y, 50)
    BY <1>9
  <2>5. CASE i \in Int
    BY <2>1, <2>2, <2>4, <2>5, ZenonT(30) DEF DCF77Bit
  <2>6. CASE i \notin Int
    BY <2>1, <2>2, <2>3, <2>4, <2>6, ZenonT(30)
  <2> QED
    BY <2>5, <2>6
<1> QED
  BY <1>1, <1>2, <1>3, <1>4, <1>5, <1>6, <1>10, Zenon DEF wday

(* The fields do not disturb each other.                                    *)
DCF77Carries(data, dst, M, H, D, W, N, Y) ==
  \A i : i \in data <=> i \in Int /\ DCF77Bit(dst, M, H, D, W, N, Y, i)

DCF77Separate(data, dst, M, H, D, W, N, Y) ==
  /\ 17 \in data <=> dst
  /\ 18 \in data <=> ~dst
  /\ 20 \in data
  /\ \A j \in 0 .. 6 : 21 + j \in data <=> j \in M
  /\ \A j \in 0 .. 5 : 29 + j \in data <=> j \in H
  /\ \A j \in 0 .. 5 : 36 + j \in data <=> j \in D
  /\ \A j \in 0 .. 2 : 42 + j \in data <=> j \in W
  /\ \A j \in 0 .. 4 : 45 + j \in data <=> j \in N
  /\ \A j \in 0 .. 7 : 50 + j \in data <=> j \in Y
  /\ 28 \notin data /\ 35 \notin data /\ 58 \notin data /\ 59 \notin data
  /\ data \subseteq 17 .. 57

LEMMA DCF77Fields ==
  ASSUME NEW dst \in BOOLEAN, NEW M \in SUBSET (0 .. 6), NEW H \in SUBSET (0 .. 5),
         NEW D \in SUBSET (0 .. 5), NEW W \in SUBSET (0 .. 2),
         NEW N \in SUBSET (0 .. 4), NEW Y \in SUBSET (0 .. 7), NEW data,
         DCF77Carries(data, dst, M, H, D, W, N, Y)
  PROVE  DCF77Separate(data, dst, M, H, D, W, N, Y)
<1>1. \A i \in Int :
        /\ i - 21 \in M => i \in 21 .. 27
        /\ i - 29 \in H => i \in 29 .. 34
        /\ i - 36 \in D => i \in 36 .. 41
        /\ i - 42 \in W => i \in 42 .. 44
        /\ i - 45 \in N => i \in 45 .. 49
        /\ i - 50 \in Y => i \in 50 .. 57
  OBVIOUS
<1>2. \A i : i \in data <=> i \in Int /\ DCF77Bit(dst, M, H, D, W, N, Y, i)
  BY DEF DCF77Carries
<1>3. (17 \in data <=> dst) /\ (18 \in data <=> ~dst) /\ 20 \in data
  BY <1>1, <1>2 DEF DCF77Bit
<1>4. \A j \in 0 .. 6 : 21 + j \in data <=> j \in M
  BY <1>1, <1>2 DEF DCF77Bit
<1>5. \A j \in 0 .. 5 : 29 + j \in data <=> j \in H
  BY <1>1, <1>2 DEF DCF77Bit
<1>6. \A j \in 0 .. 5 : 36 + j \in data <=> j \in D
  BY <1>1, <1>2 DEF DCF77Bit
<1>7. \A j \in 0 .. 2 : 42 + j \in data <=> j \in W
  BY <1>1, <1>2 DEF DCF77Bit
<1>8. \A j \in 0 .. 4 : 45 + j \in data <=> j \in N
  BY <1>1, <1>2 DEF DCF77Bit
<1>9. \A j \in 0 .. 7 : 50 + j \in data <=> j \in Y
  BY <1>1, <1>2 DEF DCF77Bit
<1>10. 28 \notin data /\ 35 \notin data /\ 58 \notin data /\ 59 \notin data
  BY <1>1, <1>2 DEF DCF77Bit
<1>11. data \subseteq 17 .. 57
  BY <1>1, <1>2 DEF DCF77Bit
<1> QED
  BY <1>3, <1>4, <1>5, <1>6, <1>7, <1>8, <1>9, <1>10, <1>11 DEF DCF77Separate

(* A minute of DCF77: the data and their three parity bits.                 *)
LEMMA DCF77ParityEven ==
  ASSUME NEW data \in SUBSET (17 .. 57), NEW word \in SUBSET (0 .. 59),
         28 \notin data, 35 \notin data,
         \A s \in 0 .. 58 : s \in word <=> s \in DCF77Parity(data)
  PROVE  /\ Even(word, 21 .. 28) /\ Even(word, 29 .. 35) /\ Even(word, 36 .. 58)
         /\ \A s \in 0 .. 57 : s # 28 /\ s # 35 => (s \in word <=> s \in data)
<1>1. \A s : s \in DCF77Parity(data) <=>
        \/ s \in data
        \/ s = 28 /\ parity(data, 21, 27)
        \/ s = 35 /\ parity(data, 29, 34)
        \/ s = 58 /\ parity(data, 36, 57)
  BY DEF DCF77Parity, Flag
<1>2. \A s \in 0 .. 57 : s # 28 /\ s # 35 => (s \in word <=> s \in data)
  BY <1>1
<1>3. /\ 28 \in word <=> Cardinality(data \cap (21 .. 27)) % 2 = 1
      /\ 35 \in word <=> Cardinality(data \cap (29 .. 34)) % 2 = 1
      /\ 58 \in word <=> Cardinality(data \cap (36 .. 57)) % 2 = 1
  <2>1. 58 \notin data
    OBVIOUS
  <2>2. /\ 28 \in word <=> parity(data, 21, 27)
        /\ 35 \in word <=> parity(data, 29, 34)
        /\ 58 \in word <=> parity(data, 36, 57)
    BY <1>1, <2>1
  <2> QED
    BY <2>2, Zenon DEF parity
<1>4. Even(word, 21 .. 28)
  <2>1. data \cap (21 .. 27) = word \cap (21 .. 27)
    BY <1>2
  <2>2. 21 .. 28 = (21 .. 27) \cup {28} /\ 28 \notin 21 .. 27 /\ 28 \in 0 .. 59
        /\ 21 .. 27 \in SUBSET (0 .. 59) /\ data \cap (21 .. 27) \in SUBSET (0 .. 59)
    OBVIOUS
  <2>3. Even(word, (21 .. 27) \cup {28})
    BY <1>3, <2>1, <2>2, ParityBit
  <2> QED
    BY <2>2, <2>3
<1>5. Even(word, 29 .. 35)
  <2>1. data \cap (29 .. 34) = word \cap (29 .. 34)
    BY <1>2
  <2>2. 29 .. 35 = (29 .. 34) \cup {35} /\ 35 \notin 29 .. 34 /\ 35 \in 0 .. 59
        /\ 29 .. 34 \in SUBSET (0 .. 59) /\ data \cap (29 .. 34) \in SUBSET (0 .. 59)
    OBVIOUS
  <2>3. Even(word, (29 .. 34) \cup {35})
    BY <1>3, <2>1, <2>2, ParityBit, ZenonT(30)
  <2> QED
    BY <2>2, <2>3
<1>6. Even(word, 36 .. 58)
  <2>1. data \cap (36 .. 57) = word \cap (36 .. 57)
    BY <1>2
  <2>2. 36 .. 58 = (36 .. 57) \cup {58} /\ 58 \notin 36 .. 57 /\ 58 \in 0 .. 59
        /\ 36 .. 57 \in SUBSET (0 .. 59) /\ data \cap (36 .. 57) \in SUBSET (0 .. 59)
    OBVIOUS
  <2>3. Even(word, (36 .. 57) \cup {58})
    BY <1>3, <2>1, <2>2, ParityBit
  <2> QED
    BY <2>2, <2>3
<1> QED
  BY <1>2, <1>4, <1>5, <1>6

(* The bits a clock hears are those of the minute.                          *)
LEMMA DCF77Word ==
  ASSUME NEW bits, NEW window,
         \A s \in 0 .. 59 : window[s + 1] = DCF77Modulation(bits, s)
  PROVE  /\ Lasting(window, 2) \in SUBSET (0 .. 59)
         /\ \A s \in 0 .. 58 : s \in Lasting(window, 2) <=> s \in bits
<1>1. Lasting(window, 2) \in SUBSET (0 .. 59)
  BY DEF Lasting
<1>2. ASSUME NEW s \in 0 .. 58 PROVE s \in Lasting(window, 2) <=> s \in bits
  <2>1. s \in 0 .. 59 /\ ~(s >= 59)
    OBVIOUS
  <2>2. window[s + 1]
          = <<Level("LOW", IF s \in bits THEN 2 ELSE 1), Level("HIGH", 0)>>
    BY <2>1 DEF DCF77Modulation
  <2>3. window[s + 1][1].ticks = IF s \in bits THEN 2 ELSE 1
    BY <2>2 DEF Level
  <2> QED
    BY <2>1, <2>3 DEF Lasting
<1> QED
  BY <1>1, <1>2

(* What a clock should show.                                                *)
DCF77Shows(tm) ==
  [min |-> tm.min, hour |-> tm.hour, mday |-> tm.mday, wday |-> ISOWeekday(tm),
   mon |-> tm.mon + 1, year |-> tm.year % 100, dst |-> tm.isdst]

(***************************************************************************)
(* A minute of DCF77 is decoded to the time it was made from, with its date, *)
(* weekday and summer time and with its three parity bits even: for every time *)
(* there is (src/dcf77-source.cc:29-59).                                    *)
(***************************************************************************)
THEOREM DCF77Decodes ==
  ASSUME NEW tm \in StructTm, NEW window,
         \A s \in 0 .. 59 :
           window[s + 1] = DCF77Modulation(DCF77Parity(DCF77Data(tm)), s)
  PROVE  DecodeDCF77(window) = DCF77Shows(tm)
<1> DEFINE wday == ISOWeekday(tm)
<1>1. PICK data : data = DCF77Data(tm)
  OBVIOUS
<1>2. PICK word : word = Lasting(window, 2)
  OBVIOUS
<1>3. /\ word \in SUBSET (0 .. 59)
      /\ \A s \in 0 .. 58 : s \in word <=> s \in DCF77Parity(data)
  BY <1>1, <1>2, DCF77Word
<1>4. /\ tm.min \in 0 .. 59 /\ tm.hour \in 0 .. 23 /\ tm.mday \in 1 .. 31
      /\ wday \in 1 .. 7 /\ tm.mon + 1 \in 1 .. 12 /\ tm.year % 100 \in 0 .. 99
      /\ tm.isdst \in BOOLEAN
  <2>1. tm.year % 100 \in 0 .. 99
    <3>1. tm.year \in Nat
      BY DEF StructTm
    <3> QED
      BY <3>1
  <2> QED
    BY <2>1 DEF StructTm, ISOWeekday
<1>5. wday = IF tm.wday = 0 THEN 7 ELSE tm.wday
  BY DEF ISOWeekday
<1> HIDE DEF wday
<1>6. PICK M \in SUBSET (0 .. 6) : M = to_bcd(tm.min)
  BY <1>4, BcdValue
<1>7. PICK H \in SUBSET (0 .. 5) : H = to_bcd(tm.hour)
  BY <1>4, BcdValue
<1>8. PICK D \in SUBSET (0 .. 5) : D = to_bcd(tm.mday)
  BY <1>4, BcdValue
<1>9. PICK W \in SUBSET (0 .. 2) : W = to_bcd(wday)
  BY <1>4, BcdValue
<1>10. PICK N \in SUBSET (0 .. 4) : N = to_bcd(tm.mon + 1)
  BY <1>4, BcdValue
<1>11. PICK Y \in SUBSET (0 .. 7) : Y = to_bcd(tm.year % 100)
  BY <1>4, BcdValue
<1>12. DCF77Carries(data, tm.isdst, M, H, D, W, N, Y)
  BY <1>1, <1>5, <1>6, <1>7, <1>8, <1>9, <1>10, <1>11, DCF77Layout, Zenon
     DEF DCF77Carries
<1>13. DCF77Separate(data, tm.isdst, M, H, D, W, N, Y)
  BY <1>4, <1>12, DCF77Fields
<1>14. /\ Even(word, 21 .. 28) /\ Even(word, 29 .. 35) /\ Even(word, 36 .. 58)
       /\ \A s \in 0 .. 57 : s # 28 /\ s # 35 => (s \in word <=> s \in data)
  BY <1>3, <1>13, DCF77ParityEven DEF DCF77Separate
<1>15. (17 \in word <=> tm.isdst) /\ (18 \in word <=> ~tm.isdst) /\ 20 \in word
  BY <1>13, <1>14 DEF DCF77Separate
<1>16. Value(word, 21, SubSeq(LowDigits, 1, 7)) = tm.min
  <2>1. SentLowFirst(word, 21, 7, M)
    BY <1>13, <1>14 DEF SentLowFirst, DCF77Separate
  <2> QED
    BY <1>4, <1>6, <2>1, LowDigitsValue
<1>17. Value(word, 29, SubSeq(LowDigits, 1, 6)) = tm.hour
  <2>1. SentLowFirst(word, 29, 6, H)
    BY <1>13, <1>14 DEF SentLowFirst, DCF77Separate
  <2> QED
    BY <1>4, <1>7, <2>1, LowDigitsValue
<1>18. Value(word, 36, SubSeq(LowDigits, 1, 6)) = tm.mday
  <2>1. SentLowFirst(word, 36, 6, D)
    BY <1>13, <1>14 DEF SentLowFirst, DCF77Separate
  <2> QED
    BY <1>4, <1>8, <2>1, LowDigitsValue
<1>19. Value(word, 42, SubSeq(LowDigits, 1, 3)) = wday
  <2>1. SentLowFirst(word, 42, 3, W)
    BY <1>13, <1>14 DEF SentLowFirst, DCF77Separate
  <2> QED
    BY <1>4, <1>9, <2>1, LowDigitsValue
<1>20. Value(word, 45, SubSeq(LowDigits, 1, 5)) = tm.mon + 1
  <2>1. SentLowFirst(word, 45, 5, N)
    BY <1>13, <1>14 DEF SentLowFirst, DCF77Separate
  <2> QED
    BY <1>4, <1>10, <2>1, LowDigitsValue
<1>21. Value(word, 50, SubSeq(LowDigits, 1, 8)) = tm.year % 100
  <2>1. SentLowFirst(word, 50, 8, Y)
    BY <1>13, <1>14 DEF SentLowFirst, DCF77Separate
  <2> QED
    BY <1>4, <1>11, <2>1, LowDigitsValue
<1>22. (17 \in word) = tm.isdst /\ (17 \in word) # (18 \in word)
  BY <1>4, <1>15
<1>23. DecodeDCF77(window)
         = [min |-> Value(word, 21, SubSeq(LowDigits, 1, 7)),
            hour |-> Value(word, 29, SubSeq(LowDigits, 1, 6)),
            mday |-> Value(word, 36, SubSeq(LowDigits, 1, 6)),
            wday |-> Value(word, 42, SubSeq(LowDigits, 1, 3)),
            mon |-> Value(word, 45, SubSeq(LowDigits, 1, 5)),
            year |-> Value(word, 50, SubSeq(LowDigits, 1, 8)),
            dst |-> 17 \in word]
  BY <1>2, <1>14, <1>15, <1>22, Zenon DEF DecodeDCF77, LowDigits
<1> QED
  BY <1>16, <1>17, <1>18, <1>19, <1>20, <1>21, <1>22, <1>23, Zenon DEF DCF77Shows, wday

-----------------------------------------------------------------------------
(* WWVB and JJY: a bit per second beside the marks, the last bit first.       *)
LEMMA MarkedWord ==
  ASSUME NEW bits, NEW window,
         \/ \A s \in 0 .. 59 : window[s + 1] = WWVBModulation(bits, s)
         \/ \A s \in 0 .. 59 : window[s + 1] = JJYModulation(bits, s)
  PROVE  /\ Lasting(window, 5) \in SUBSET (0 .. 59)
         /\ \A s \in 0 .. 59 :
              s \in Lasting(window, 5) <=> ~Marked(s) /\ 59 - s \in bits
<1>1. Lasting(window, 5) \in SUBSET (0 .. 59)
  BY DEF Lasting
<1>2. ASSUME NEW s \in 0 .. 59
      PROVE  s \in Lasting(window, 5) <=> ~Marked(s) /\ 59 - s \in bits
  <2>1. \/ window[s + 1][1].ticks
             = IF Marked(s) THEN 8 ELSE IF 59 - s \in bits THEN 5 ELSE 2
        \/ window[s + 1][1].ticks
             = IF Marked(s) THEN 2 ELSE IF 59 - s \in bits THEN 5 ELSE 8
    <3>1. CASE window[s + 1] = WWVBModulation(bits, s)
      BY <3>1 DEF WWVBModulation, Level, Marked
    <3>2. CASE window[s + 1] = JJYModulation(bits, s)
      BY <3>2 DEF JJYModulation, Level, Marked
    <3> QED
      BY <3>1, <3>2
  <2> QED
    BY <2>1 DEF Lasting
<1> QED
  BY <1>1, <1>2

(* What the union of the shifted fields of a minute contains.               *)
WWVBCarries(data, M, H, D, Y, leap, tomorrow, today) ==
  \A i : i \in data <=>
    \/ i \in Int /\ (i - 51 \in M \/ i - 41 \in H \/ i - 26 \in D \/ i - 6 \in Y)
    \/ i \in leap \/ i \in tomorrow \/ i \in today

UnionOf(A, B, C, D, E, F, G) == UNION {A, B, C, D, E, F, G}

LEMMA WWVBUnion ==
  ASSUME NEW M \in SUBSET Int, NEW H \in SUBSET Int, NEW D \in SUBSET Int,
         NEW Y \in SUBSET Int, NEW L, NEW T, NEW S, NEW data,
         data = UnionOf(Shift(M, 59 - 8), Shift(H, 59 - 18), Shift(D, 59 - 33),
                        Shift(Y, 59 - 53), L, T, S)
  PROVE  WWVBCarries(data, M, H, D, Y, L, T, S)
<1>1. ASSUME NEW i PROVE i \in data <=>
         \/ i \in Shift(M, 59 - 8) \/ i \in Shift(H, 59 - 18)
         \/ i \in Shift(D, 59 - 33) \/ i \in Shift(Y, 59 - 53)
         \/ i \in L \/ i \in T \/ i \in S
  BY DEF UnionOf
<1>2. ASSUME NEW i
      PROVE  i \in data <=>
         \/ i \in Int /\ (i - 51 \in M \/ i - 41 \in H \/ i - 26 \in D \/ i - 6 \in Y)
         \/ i \in L \/ i \in T \/ i \in S
  <2>1. /\ i \in Shift(M, 59 - 8) <=> i \in Int /\ i - 51 \in M
        /\ i \in Shift(H, 59 - 18) <=> i \in Int /\ i - 41 \in H
        /\ i \in Shift(D, 59 - 33) <=> i \in Int /\ i - 26 \in D
        /\ i \in Shift(Y, 59 - 53) <=> i \in Int /\ i - 6 \in Y
    BY ShiftedBits
  <2> QED
    BY <1>1, <2>1, Zenon
<1> QED
  BY <1>2, Zenon DEF WWVBCarries

LEMMA WWVBLayout ==
  ASSUME NEW tm \in StructTm, NEW today, NEW tomorrow
  PROVE  WWVBCarries(WWVBTimeBits(tm, today, tomorrow),
                     to_padded5_bcd(tm.min), to_padded5_bcd(tm.hour),
                     to_padded5_bcd(tm.yday + 1), to_padded5_bcd(tm.year % 100),
                     Flag(IsLeap(tm.year + 1900), 59 - 55),
                     Flag(tomorrow.isdst, 59 - 57), Flag(today.isdst, 59 - 58))
<1>1. \A n : to_padded5_bcd(n) \in SUBSET Int
  BY DEF to_padded5_bcd, BitsOf, Shift
<1>2. WWVBTimeBits(tm, today, tomorrow)
        = UnionOf(Shift(to_padded5_bcd(tm.min), 59 - 8),
                  Shift(to_padded5_bcd(tm.hour), 59 - 18),
                  Shift(to_padded5_bcd(tm.yday + 1), 59 - 33),
                  Shift(to_padded5_bcd(tm.year % 100), 59 - 53),
                  Flag(IsLeap(tm.year + 1900), 59 - 55),
                  Flag(tomorrow.isdst, 59 - 57), Flag(today.isdst, 59 - 58))
  BY Zenon DEF WWVBTimeBits, UnionOf
<1> QED
  BY <1>1, <1>2, WWVBUnion

WWVBSeparate(word, M, H, D, Y, leap, tomorrow, today) ==
  /\ SentHighFirst(word, 1, 8, M)
  /\ SentHighFirst(word, 12, 7, H)
  /\ SentHighFirst(word, 22, 12, D)
  /\ SentHighFirst(word, 45, 9, Y)
  /\ 55 \in word <=> 4 \in leap
  /\ 57 \in word <=> 2 \in tomorrow
  /\ 58 \in word <=> 1 \in today

LEMMA WWVBFields ==
  ASSUME NEW leap \in SUBSET {4}, NEW tomorrow \in SUBSET {2},
         NEW today \in SUBSET {1},
         NEW M \in SUBSET (0 .. 7), NEW H \in SUBSET (0 .. 6),
         NEW D \in SUBSET (0 .. 11), NEW Y \in SUBSET (0 .. 8),
         4 \notin D, 4 \notin Y,
         NEW data, WWVBCarries(data, M, H, D, Y, leap, tomorrow, today),
         NEW word, \A s \in 0 .. 59 : s \in word <=> ~Marked(s) /\ 59 - s \in data
  PROVE  WWVBSeparate(word, M, H, D, Y, leap, tomorrow, today)
<1>1. \A i \in Int :
        /\ i - 51 \in M => i \in 51 .. 58
        /\ i - 41 \in H => i \in 41 .. 47
        /\ i - 26 \in D => i \in 26 .. 37
        /\ i - 6 \in Y => i \in 6 .. 14
  OBVIOUS
<1>2. \A i \in Int : i \in data <=>
        \/ i - 51 \in M \/ i - 41 \in H \/ i - 26 \in D \/ i - 6 \in Y
        \/ i \in leap \/ i \in tomorrow \/ i \in today
  BY DEF WWVBCarries
<1>3. /\ 4 \in data <=> 4 \in leap
      /\ 2 \in data <=> 2 \in tomorrow
      /\ 1 \in data <=> 1 \in today
  BY <1>1, <1>2
<1>4. /\ \A j \in 0 .. 7 : 51 + j \in data <=> j \in M
      /\ \A j \in 0 .. 6 : 41 + j \in data <=> j \in H
  BY <1>1, <1>2
<1>5. /\ \A j \in 0 .. 11 : 26 + j \in data <=> j \in D
      /\ \A j \in 0 .. 8 : 6 + j \in data <=> j \in Y
  BY <1>1, <1>2
<1>6. SentHighFirst(word, 1, 8, M)
  <2>1. ASSUME NEW j \in 0 .. 7 PROVE 1 + 8 - 1 - j \in word <=> j \in M
    <3>1. 1 + 8 - 1 - j \in 0 .. 59 /\ 59 - (1 + 8 - 1 - j) = 51 + j
          /\ ~Marked(1 + 8 - 1 - j)
      BY DEF Marked
    <3> QED
      BY <1>4, <3>1
  <2> QED
    BY <2>1 DEF SentHighFirst
<1>7. SentHighFirst(word, 12, 7, H)
  <2>1. ASSUME NEW j \in 0 .. 6 PROVE 12 + 7 - 1 - j \in word <=> j \in H
    <3>1. 12 + 7 - 1 - j \in 0 .. 59 /\ 59 - (12 + 7 - 1 - j) = 41 + j
          /\ ~Marked(12 + 7 - 1 - j)
      BY DEF Marked
    <3> QED
      BY <1>4, <3>1
  <2> QED
    BY <2>1 DEF SentHighFirst
<1>8. SentHighFirst(word, 22, 12, D)
  <2>1. ASSUME NEW j \in 0 .. 11 PROVE 22 + 12 - 1 - j \in word <=> j \in D
    <3>1. 22 + 12 - 1 - j \in 0 .. 59 /\ 59 - (22 + 12 - 1 - j) = 26 + j
          /\ (Marked(22 + 12 - 1 - j) <=> j = 4)
      BY DEF Marked
    <3> QED
      BY <1>5, <3>1
  <2> QED
    BY <2>1 DEF SentHighFirst
<1>9. SentHighFirst(word, 45, 9, Y)
  <2>1. ASSUME NEW j \in 0 .. 8 PROVE 45 + 9 - 1 - j \in word <=> j \in Y
    <3>1. 45 + 9 - 1 - j \in 0 .. 59 /\ 59 - (45 + 9 - 1 - j) = 6 + j
          /\ (Marked(45 + 9 - 1 - j) <=> j = 4)
      BY DEF Marked
    <3> QED
      BY <1>5, <3>1
  <2> QED
    BY <2>1 DEF SentHighFirst
<1>10. /\ 55 \in word <=> 4 \in leap
       /\ 57 \in word <=> 2 \in tomorrow
       /\ 58 \in word <=> 1 \in today
  <2>1. ~Marked(55) /\ ~Marked(57) /\ ~Marked(58)
    BY DEF Marked
  <2> QED
    BY <1>3, <2>1
<1> QED
  BY <1>6, <1>7, <1>8, <1>9, <1>10 DEF WWVBSeparate

LEMMA FlagSet ==
  ASSUME NEW condition \in BOOLEAN, NEW position
  PROVE  /\ Flag(condition, position) \in SUBSET {position}
         /\ position \in Flag(condition, position) <=> condition
BY DEF Flag

WWVBShows(tm, today, tomorrow) ==
  [min |-> tm.min, hour |-> tm.hour, yday |-> tm.yday + 1,
   year |-> tm.year % 100, leap |-> IsLeap(tm.year + 1900),
   dstTomorrow |-> tomorrow.isdst, dst |-> today.isdst]

(***************************************************************************)
(* A minute of WWVB is decoded to the UTC time it was made from, with the day of *)
(* the year, the leap year and the summer time of today and tomorrow: for every *)
(* time there is (src/wwvb-source.cc:28-68).                                *)
(***************************************************************************)
THEOREM WWVBDecodes ==
  ASSUME NEW tm \in StructTm, NEW today \in StructTm, NEW tomorrow \in StructTm,
         NEW window,
         \A s \in 0 .. 59 :
           window[s + 1] = WWVBModulation(WWVBTimeBits(tm, today, tomorrow), s)
  PROVE  DecodeWWVB(window) = WWVBShows(tm, today, tomorrow)
<1>1. PICK data : data = WWVBTimeBits(tm, today, tomorrow)
  OBVIOUS
<1>2. PICK word : word = Lasting(window, 5)
  OBVIOUS
<1>3. \A s \in 0 .. 59 : s \in word <=> ~Marked(s) /\ 59 - s \in data
  BY <1>1, <1>2, MarkedWord
<1>4. /\ tm.min \in 0 .. 399 /\ tm.min < 80
      /\ tm.hour \in 0 .. 399 /\ tm.hour < 40
      /\ tm.yday + 1 \in 0 .. 399
      /\ tm.year % 100 \in 0 .. 399 /\ tm.year % 100 < 100
  <2>1. tm.year % 100 \in 0 .. 99
    <3>1. tm.year \in Nat
      BY DEF StructTm
    <3> QED
      BY <3>1
  <2> QED
    BY <2>1 DEF StructTm
<1>5. PICK M \in SUBSET (0 .. 7) : M = to_padded5_bcd(tm.min)
  BY <1>4, PaddedValue
<1>6. PICK H \in SUBSET (0 .. 6) : H = to_padded5_bcd(tm.hour)
  BY <1>4, PaddedValue
<1>7. PICK D \in SUBSET (0 .. 11) : D = to_padded5_bcd(tm.yday + 1) /\ 4 \notin D
  BY <1>4, PaddedValue
<1>8. PICK Y \in SUBSET (0 .. 8) : Y = to_padded5_bcd(tm.year % 100) /\ 4 \notin Y
  BY <1>4, PaddedValue
<1>9. /\ IsLeap(tm.year + 1900) \in BOOLEAN
      /\ tomorrow.isdst \in BOOLEAN /\ today.isdst \in BOOLEAN
  BY DEF IsLeap, StructTm
<1>10. PICK leap \in SUBSET {4} :
         /\ leap = Flag(IsLeap(tm.year + 1900), 4)
         /\ 4 \in leap <=> IsLeap(tm.year + 1900)
  BY <1>9, FlagSet
<1>11. PICK then \in SUBSET {2} :
         then = Flag(tomorrow.isdst, 2) /\ (2 \in then <=> tomorrow.isdst)
  BY <1>9, FlagSet
<1>12. PICK now \in SUBSET {1} :
         now = Flag(today.isdst, 1) /\ (1 \in now <=> today.isdst)
  BY <1>9, FlagSet
<1>13. WWVBCarries(data, M, H, D, Y, leap, then, now)
  <2>1. 59 - 55 = 4 /\ 59 - 57 = 2 /\ 59 - 58 = 1
    OBVIOUS
  <2>2. WWVBCarries(data, M, H, D, Y, Flag(IsLeap(tm.year + 1900), 59 - 55),
                    Flag(tomorrow.isdst, 59 - 57), Flag(today.isdst, 59 - 58))
    BY <1>1, <1>5, <1>6, <1>7, <1>8, WWVBLayout
  <2> QED
    BY <1>10, <1>11, <1>12, <2>1, <2>2
<1>14. WWVBSeparate(word, M, H, D, Y, leap, then, now)
  BY <1>3, <1>7, <1>8, <1>13, WWVBFields
<1>15. Value(word, 1, Minutes) = tm.min
  <2>1. SentHighFirst(word, 1, 8, to_padded5_bcd(tm.min))
    BY <1>5, <1>14, Zenon DEF WWVBSeparate
  <2>2. 1 \in Int /\ tm.min \in 0 .. 399 /\ tm.min < 80
    BY <1>4
  <2> QED
    BY <2>1, <2>2, PaddedFieldValue, Zenon
<1>16. Value(word, 12, Hours) = tm.hour
  <2>1. SentHighFirst(word, 12, 7, to_padded5_bcd(tm.hour))
    BY <1>6, <1>14, Zenon DEF WWVBSeparate
  <2>2. 12 \in Int /\ tm.hour \in 0 .. 399 /\ tm.hour < 40
    BY <1>4
  <2> QED
    BY <2>1, <2>2, PaddedFieldValue, Zenon
<1>17. Value(word, 22, Days) = tm.yday + 1
  <2>1. SentHighFirst(word, 22, 12, to_padded5_bcd(tm.yday + 1))
    BY <1>7, <1>14, Zenon DEF WWVBSeparate
  <2>2. 22 \in Int /\ tm.yday + 1 \in 0 .. 399
    BY <1>4
  <2> QED
    BY <2>1, <2>2, PaddedFieldValue, Zenon
<1>18. Value(word, 45, Years) = tm.year % 100
  <2>1. SentHighFirst(word, 45, 9, to_padded5_bcd(tm.year % 100))
    BY <1>8, <1>14, Zenon DEF WWVBSeparate
  <2>2. 45 \in Int /\ tm.year % 100 \in 0 .. 399 /\ tm.year % 100 < 100
    BY <1>4
  <2> QED
    BY <2>1, <2>2, PaddedFieldValue, Zenon
<1>19. /\ (55 \in word) = IsLeap(tm.year + 1900)
       /\ (57 \in word) = tomorrow.isdst
       /\ (58 \in word) = today.isdst
  BY <1>9, <1>10, <1>11, <1>12, <1>14 DEF WWVBSeparate
<1>20. DecodeWWVB(window)
         = [min |-> Value(word, 1, Minutes), hour |-> Value(word, 12, Hours),
            yday |-> Value(word, 22, Days), year |-> Value(word, 45, Years),
            leap |-> 55 \in word, dstTomorrow |-> 57 \in word,
            dst |-> 58 \in word]
  BY <1>2, Zenon DEF DecodeWWVB
<1>21. DecodeWWVB(window)
         = [min |-> tm.min, hour |-> tm.hour, yday |-> tm.yday + 1,
            year |-> tm.year % 100, leap |-> 55 \in word,
            dstTomorrow |-> 57 \in word, dst |-> 58 \in word]
  BY <1>15, <1>16, <1>17, <1>18, <1>20, Zenon
<1> QED
  BY <1>19, <1>21 DEF WWVBShows

-----------------------------------------------------------------------------
(* JJY, whose fields have other places and which has two parity bits.       *)
JJYCarries(data, M, H, D, Y, W) ==
  \A i : i \in data <=>
    /\ i \in Int
    /\ i - 51 \in M \/ i - 41 \in H \/ i - 26 \in D \/ i - 11 \in Y \/ i - 7 \in W

UnionOfFive(A, B, C, D, E) == UNION {A, B, C, D, E}

LEMMA JJYUnion ==
  ASSUME NEW M \in SUBSET Int, NEW H \in SUBSET Int, NEW D \in SUBSET Int,
         NEW Y \in SUBSET Int, NEW W \in SUBSET Int, NEW data,
         data = UnionOfFive(Shift(M, 59 - 8), Shift(H, 59 - 18),
                            Shift(D, 59 - 33), Shift(Y, 59 - 48),
                            Shift(W, 59 - 52))
  PROVE  JJYCarries(data, M, H, D, Y, W)
<1>1. ASSUME NEW i PROVE i \in data <=>
         \/ i \in Shift(M, 59 - 8) \/ i \in Shift(H, 59 - 18)
         \/ i \in Shift(D, 59 - 33) \/ i \in Shift(Y, 59 - 48)
         \/ i \in Shift(W, 59 - 52)
  BY DEF UnionOfFive
<1>2. ASSUME NEW i
      PROVE  i \in data <=>
        /\ i \in Int
        /\ \/ i - 51 \in M \/ i - 41 \in H \/ i - 26 \in D
           \/ i - 11 \in Y \/ i - 7 \in W
  <2>1. /\ i \in Shift(M, 59 - 8) <=> i \in Int /\ i - 51 \in M
        /\ i \in Shift(H, 59 - 18) <=> i \in Int /\ i - 41 \in H
        /\ i \in Shift(D, 59 - 33) <=> i \in Int /\ i - 26 \in D
        /\ i \in Shift(Y, 59 - 48) <=> i \in Int /\ i - 11 \in Y
        /\ i \in Shift(W, 59 - 52) <=> i \in Int /\ i - 7 \in W
    BY ShiftedBits
  <2> QED
    BY <1>1, <2>1, ZenonT(30)
<1> QED
  BY <1>2, Zenon DEF JJYCarries

LEMMA JJYLayout ==
  ASSUME NEW tm \in StructTm
  PROVE  JJYCarries(JJYData(tm), to_padded5_bcd(tm.min), to_padded5_bcd(tm.hour),
                    to_padded5_bcd(tm.yday + 1), to_bcd(tm.year % 100),
                    to_bcd(tm.wday))
<1>1. /\ \A n : to_padded5_bcd(n) \in SUBSET Int
      /\ \A n : to_bcd(n) \in SUBSET Int
  BY DEF to_padded5_bcd, to_bcd, BitsOf, Shift
<1>2. JJYData(tm)
        = UnionOfFive(Shift(to_padded5_bcd(tm.min), 59 - 8),
                      Shift(to_padded5_bcd(tm.hour), 59 - 18),
                      Shift(to_padded5_bcd(tm.yday + 1), 59 - 33),
                      Shift(to_bcd(tm.year % 100), 59 - 48),
                      Shift(to_bcd(tm.wday), 59 - 52))
  BY Zenon DEF JJYData, UnionOfFive
<1> QED
  BY <1>1, <1>2, JJYUnion

JJYSeparate(word, M, H, D, Y, W) ==
  /\ SentHighFirst(word, 1, 8, M)
  /\ SentHighFirst(word, 12, 7, H)
  /\ SentHighFirst(word, 22, 12, D)
  /\ SentHighFirst(word, 41, 8, Y)
  /\ SentHighFirst(word, 50, 3, W)

LEMMA JJYRange ==
  ASSUME NEW M \in SUBSET (0 .. 7), NEW H \in SUBSET (0 .. 6),
         NEW D \in SUBSET (0 .. 11), NEW Y \in SUBSET (0 .. 7),
         NEW W \in SUBSET (0 .. 2), NEW data, JJYCarries(data, M, H, D, Y, W)
  PROVE  data \in SUBSET (7 .. 58) /\ 22 \notin data /\ 23 \notin data
<1>1. /\ data \subseteq Int
      /\ \A i \in Int : i \in data <=>
           \/ i - 51 \in M \/ i - 41 \in H \/ i - 26 \in D
           \/ i - 11 \in Y \/ i - 7 \in W
  BY DEF JJYCarries
<1>2. \A i \in Int :
        /\ i - 51 \in M => i \in 51 .. 58
        /\ i - 41 \in H => i \in 41 .. 47
        /\ i - 26 \in D => i \in 26 .. 37
        /\ i - 11 \in Y => i \in 11 .. 18
        /\ i - 7 \in W => i \in 7 .. 9
  OBVIOUS
<1> QED
  BY <1>1, <1>2

LEMMA JJYFields ==
  ASSUME NEW M \in SUBSET (0 .. 7), NEW H \in SUBSET (0 .. 6),
         NEW D \in SUBSET (0 .. 11), NEW Y \in SUBSET (0 .. 7),
         NEW W \in SUBSET (0 .. 2), 4 \notin D,
         NEW data, JJYCarries(data, M, H, D, Y, W),
         NEW word,
         \A s \in 0 .. 59 :
           s # 36 /\ s # 37 => (s \in word <=> ~Marked(s) /\ 59 - s \in data)
  PROVE  JJYSeparate(word, M, H, D, Y, W)
<1>1. \A i \in Int :
        /\ i - 51 \in M => i \in 51 .. 58
        /\ i - 41 \in H => i \in 41 .. 47
        /\ i - 26 \in D => i \in 26 .. 37
        /\ i - 11 \in Y => i \in 11 .. 18
        /\ i - 7 \in W => i \in 7 .. 9
  OBVIOUS
<1>2. /\ data \subseteq Int
      /\ \A i \in Int : i \in data <=>
           \/ i - 51 \in M \/ i - 41 \in H \/ i - 26 \in D
           \/ i - 11 \in Y \/ i - 7 \in W
  BY DEF JJYCarries
<1>3. /\ \A j \in 0 .. 7 : 51 + j \in data <=> j \in M
      /\ \A j \in 0 .. 6 : 41 + j \in data <=> j \in H
  BY <1>1, <1>2
<1>4. /\ \A j \in 0 .. 11 : 26 + j \in data <=> j \in D
      /\ \A j \in 0 .. 7 : 11 + j \in data <=> j \in Y
      /\ \A j \in 0 .. 2 : 7 + j \in data <=> j \in W
  BY <1>1, <1>2
<1>5. SentHighFirst(word, 1, 8, M)
  <2>1. ASSUME NEW j \in 0 .. 7 PROVE 1 + 8 - 1 - j \in word <=> j \in M
    <3>1. 1 + 8 - 1 - j \in 0 .. 8 /\ 59 - (1 + 8 - 1 - j) = 51 + j
          /\ ~Marked(1 + 8 - 1 - j)
      BY DEF Marked
    <3> QED
      BY <1>3, <3>1
  <2> QED
    BY <2>1 DEF SentHighFirst
<1>6. SentHighFirst(word, 12, 7, H)
  <2>1. ASSUME NEW j \in 0 .. 6 PROVE 12 + 7 - 1 - j \in word <=> j \in H
    <3>1. 12 + 7 - 1 - j \in 0 .. 18 /\ 59 - (12 + 7 - 1 - j) = 41 + j
          /\ ~Marked(12 + 7 - 1 - j)
      BY DEF Marked
    <3> QED
      BY <1>3, <3>1
  <2> QED
    BY <2>1 DEF SentHighFirst
<1>7. SentHighFirst(word, 22, 12, D)
  <2>1. ASSUME NEW j \in 0 .. 11 PROVE 22 + 12 - 1 - j \in word <=> j \in D
    <3>1. 22 + 12 - 1 - j \in 0 .. 33 /\ 59 - (22 + 12 - 1 - j) = 26 + j
          /\ (Marked(22 + 12 - 1 - j) <=> j = 4)
      BY DEF Marked
    <3> QED
      BY <1>4, <3>1
  <2> QED
    BY <2>1 DEF SentHighFirst
<1>8. SentHighFirst(word, 41, 8, Y)
  <2>1. ASSUME NEW j \in 0 .. 7 PROVE 41 + 8 - 1 - j \in word <=> j \in Y
    <3>1. 41 + 8 - 1 - j \in 41 .. 59 /\ 59 - (41 + 8 - 1 - j) = 11 + j
          /\ ~Marked(41 + 8 - 1 - j)
      BY DEF Marked
    <3> QED
      BY <1>4, <3>1
  <2> QED
    BY <2>1 DEF SentHighFirst
<1>9. SentHighFirst(word, 50, 3, W)
  <2>1. ASSUME NEW j \in 0 .. 2 PROVE 50 + 3 - 1 - j \in word <=> j \in W
    <3>1. 50 + 3 - 1 - j \in 41 .. 59 /\ 59 - (50 + 3 - 1 - j) = 7 + j
          /\ ~Marked(50 + 3 - 1 - j)
      BY DEF Marked
    <3> QED
      BY <1>4, <3>1
  <2> QED
    BY <2>1 DEF SentHighFirst
<1> QED
  BY <1>5, <1>6, <1>7, <1>8, <1>9 DEF JJYSeparate

(* The parity bits are the ones the clock checks.                           *)
LEMMA JJYParityEven ==
  ASSUME NEW data \in SUBSET (7 .. 58), 22 \notin data, 23 \notin data,
         NEW word \in SUBSET (0 .. 59),
         \A s \in 0 .. 59 :
           s \in word <=> ~Marked(s) /\ 59 - s \in JJYParity(data)
  PROVE  /\ Even(word, (12 .. 18) \cup {36}) /\ Even(word, (1 .. 8) \cup {37})
         /\ \A s \in 0 .. 59 :
              s # 36 /\ s # 37 => (s \in word <=> ~Marked(s) /\ 59 - s \in data)
<1>1. \A i : i \in JJYParity(data) <=>
        \/ i \in data
        \/ i = 23 /\ parity(data, 41, 47)
        \/ i = 22 /\ parity(data, 51, 58)
  BY DEF JJYParity, Flag
<1>2. \A s \in 0 .. 59 :
        s # 36 /\ s # 37 => (s \in word <=> ~Marked(s) /\ 59 - s \in data)
  <2>1. ASSUME NEW s \in 0 .. 59, s # 36, s # 37
        PROVE  59 - s \in JJYParity(data) <=> 59 - s \in data
    BY <1>1, <2>1
  <2> QED
    BY <2>1
<1>3. /\ 36 \in word <=> Cardinality(data \cap (41 .. 47)) % 2 = 1
      /\ 37 \in word <=> Cardinality(data \cap (51 .. 58)) % 2 = 1
  <2>1. /\ 23 \in JJYParity(data) <=> parity(data, 41, 47)
        /\ 22 \in JJYParity(data) <=> parity(data, 51, 58)
    BY <1>1
  <2>2. ~Marked(36) /\ ~Marked(37) /\ 59 - 36 = 23 /\ 59 - 37 = 22
        /\ 36 \in 0 .. 59 /\ 37 \in 0 .. 59
    BY DEF Marked
  <2>3. /\ 36 \in word <=> parity(data, 41, 47)
        /\ 37 \in word <=> parity(data, 51, 58)
    BY <2>1, <2>2
  <2> QED
    BY <2>3, Zenon DEF parity
<1>4. Even(word, (12 .. 18) \cup {36})
  <2>1. Ones(word, 12, 18) = Ones(data, 41, 47)
    <3>1. Reversed(word, 12, 18, data, 41, 47)
      BY <1>2 DEF Marked, Reversed
    <3> QED
      BY <3>1, AsManyReversed
  <2>2. 36 \notin 12 .. 18 /\ 36 \in 0 .. 59
        /\ 12 .. 18 \in SUBSET (0 .. 59) /\ word \cap (12 .. 18) \in SUBSET (0 .. 59)
    OBVIOUS
  <2>3. 36 \in word <=> Cardinality(word \cap (12 .. 18)) % 2 = 1
    BY <1>3, <2>1, <2>2 DEF Ones
  <2> QED
    BY <2>2, <2>3, ParityBit
<1>5. Even(word, (1 .. 8) \cup {37})
  <2>1. Ones(word, 1, 8) = Ones(data, 51, 58)
    <3>1. Reversed(word, 1, 8, data, 51, 58)
      BY <1>2 DEF Marked, Reversed
    <3> QED
      BY <3>1, AsManyReversed
  <2>2. 37 \notin 1 .. 8 /\ 37 \in 0 .. 59
        /\ 1 .. 8 \in SUBSET (0 .. 59) /\ word \cap (1 .. 8) \in SUBSET (0 .. 59)
    OBVIOUS
  <2>3. 37 \in word <=> Cardinality(word \cap (1 .. 8)) % 2 = 1
    BY <1>3, <2>1, <2>2 DEF Ones
  <2> QED
    BY <2>2, <2>3, ParityBit
<1> QED
  BY <1>2, <1>4, <1>5

JJYShows(tm) ==
  [min |-> tm.min, hour |-> tm.hour, yday |-> tm.yday + 1,
   year |-> tm.year % 100, wday |-> tm.wday]

(***************************************************************************)
(* A minute of JJY is decoded to the local time it was made from, both parity *)
(* bits even: for every broken-down time (src/jjy-source.cc:39-66).         *)
(***************************************************************************)
THEOREM JJYDecodes ==
  ASSUME NEW tm \in StructTm, NEW window,
         \A s \in 0 .. 59 :
           window[s + 1] = JJYModulation(JJYParity(JJYData(tm)), s)
  PROVE  DecodeJJY(window) = JJYShows(tm)
<1>1. PICK data : data = JJYData(tm)
  OBVIOUS
<1>2. PICK word : word = Lasting(window, 5)
  OBVIOUS
<1>3. /\ word \in SUBSET (0 .. 59)
      /\ \A s \in 0 .. 59 : s \in word <=> ~Marked(s) /\ 59 - s \in JJYParity(data)
  BY <1>1, <1>2, MarkedWord
<1>4. /\ tm.min \in 0 .. 399 /\ tm.min < 80
      /\ tm.hour \in 0 .. 399 /\ tm.hour < 40
      /\ tm.yday + 1 \in 0 .. 399
      /\ tm.year % 100 \in 0 .. 99 /\ tm.wday \in 0 .. 6
  <2>1. tm.year % 100 \in 0 .. 99
    <3>1. tm.year \in Nat
      BY DEF StructTm
    <3> QED
      BY <3>1
  <2> QED
    BY <2>1 DEF StructTm
<1>5. PICK M \in SUBSET (0 .. 7) : M = to_padded5_bcd(tm.min)
  BY <1>4, PaddedValue
<1>6. PICK H \in SUBSET (0 .. 6) : H = to_padded5_bcd(tm.hour)
  BY <1>4, PaddedValue
<1>7. PICK D \in SUBSET (0 .. 11) : D = to_padded5_bcd(tm.yday + 1) /\ 4 \notin D
  BY <1>4, PaddedValue
<1>8. PICK Y \in SUBSET (0 .. 7) : Y = to_bcd(tm.year % 100)
  BY <1>4, BcdValue
<1>9. PICK W \in SUBSET (0 .. 2) : W = to_bcd(tm.wday)
  BY <1>4, BcdValue
<1>10. JJYCarries(data, M, H, D, Y, W)
  BY <1>1, <1>5, <1>6, <1>7, <1>8, <1>9, JJYLayout, Zenon
<1>11. data \in SUBSET (7 .. 58) /\ 22 \notin data /\ 23 \notin data
  BY <1>7, <1>10, JJYRange
<1>12. /\ Even(word, (12 .. 18) \cup {36}) /\ Even(word, (1 .. 8) \cup {37})
       /\ \A s \in 0 .. 59 :
            s # 36 /\ s # 37 => (s \in word <=> ~Marked(s) /\ 59 - s \in data)
  BY <1>3, <1>11, JJYParityEven
<1>13. JJYSeparate(word, M, H, D, Y, W)
  BY <1>7, <1>10, <1>12, JJYFields
<1>14. Value(word, 1, Minutes) = tm.min
  <2>1. SentHighFirst(word, 1, 8, to_padded5_bcd(tm.min))
    BY <1>5, <1>13, Zenon DEF JJYSeparate
  <2>2. 1 \in Int /\ tm.min \in 0 .. 399 /\ tm.min < 80
    BY <1>4
  <2> QED
    BY <2>1, <2>2, PaddedFieldValue, Zenon
<1>15. Value(word, 12, Hours) = tm.hour
  <2>1. SentHighFirst(word, 12, 7, to_padded5_bcd(tm.hour))
    BY <1>6, <1>13, Zenon DEF JJYSeparate
  <2>2. 12 \in Int /\ tm.hour \in 0 .. 399 /\ tm.hour < 40
    BY <1>4
  <2> QED
    BY <2>1, <2>2, PaddedFieldValue, Zenon
<1>16. Value(word, 22, Days) = tm.yday + 1
  <2>1. SentHighFirst(word, 22, 12, to_padded5_bcd(tm.yday + 1))
    BY <1>7, <1>13, Zenon DEF JJYSeparate
  <2>2. 22 \in Int /\ tm.yday + 1 \in 0 .. 399
    BY <1>4
  <2> QED
    BY <2>1, <2>2, PaddedFieldValue, Zenon
<1>17. Value(word, 41, Units(8)) = tm.year % 100
  <2>1. SentHighFirst(word, 41, 8, to_bcd(tm.year % 100))
    BY <1>8, <1>13, Zenon DEF JJYSeparate
  <2>2. /\ 41 \in Int /\ 8 \in {3, 5, 6, 7, 8}
        /\ tm.year % 100 \in 0 .. 99 /\ to_bcd(tm.year % 100) \subseteq 0 .. 8 - 1
    BY <1>4, <1>8
  <2> QED
    BY <2>1, <2>2, UnitsValue, Zenon
<1>18. Value(word, 50, Units(3)) = tm.wday
  <2>1. SentHighFirst(word, 50, 3, to_bcd(tm.wday))
    BY <1>9, <1>13, Zenon DEF JJYSeparate
  <2>2. /\ 50 \in Int /\ 3 \in {3, 5, 6, 7, 8}
        /\ tm.wday \in 0 .. 99 /\ to_bcd(tm.wday) \subseteq 0 .. 3 - 1
    BY <1>4, <1>9
  <2> QED
    BY <2>1, <2>2, UnitsValue, Zenon
<1>19. DecodeJJY(window)
         = [min |-> Value(word, 1, Minutes), hour |-> Value(word, 12, Hours),
            yday |-> Value(word, 22, Days), year |-> Value(word, 41, Units(8)),
            wday |-> Value(word, 50, Units(3))]
  BY <1>2, <1>12, Zenon DEF DecodeJJY
<1> QED
  BY <1>14, <1>15, <1>16, <1>17, <1>18, <1>19, Zenon DEF JJYShows

-----------------------------------------------------------------------------
(* MSF: two bits in each second but the first, told by the second and the   *)
(* third level.                                                            *)
Off(window, k) == {s \in 1 .. 59 : window[s + 1][k].power = "OFF"}

LEMMA MSFWords ==
  ASSUME NEW data, NEW check, NEW window,
         \A s \in 0 .. 59 : window[s + 1] = MSFModulation([a |-> data, b |-> check], s)
  PROVE  /\ Off(window, 2) \in SUBSET (1 .. 59) /\ Off(window, 3) \in SUBSET (1 .. 59)
         /\ \A s \in 1 .. 59 : /\ s \in Off(window, 2) <=> 59 - s \in data
                               /\ s \in Off(window, 3) <=> 59 - s \in check
<1>1. ASSUME NEW s \in 1 .. 59
      PROVE  /\ s \in Off(window, 2) <=> 59 - s \in data
             /\ s \in Off(window, 3) <=> 59 - s \in check
  <2>1. s \in 0 .. 59 /\ s # 0
    OBVIOUS
  <2>2. window[s + 1]
          = <<Level("OFF", 1), Level(IF 59 - s \in data THEN "OFF" ELSE "HIGH", 1),
              Level(IF 59 - s \in check THEN "OFF" ELSE "HIGH", 1), Level("HIGH", 0)>>
    BY <2>1 DEF MSFModulation
  <2>3. /\ window[s + 1][2].power = IF 59 - s \in data THEN "OFF" ELSE "HIGH"
        /\ window[s + 1][3].power = IF 59 - s \in check THEN "OFF" ELSE "HIGH"
    BY <2>2 DEF Level
  <2> QED
    BY <2>3 DEF Off
<1>2. Off(window, 2) \in SUBSET (1 .. 59) /\ Off(window, 3) \in SUBSET (1 .. 59)
  BY DEF Off
<1> QED
  BY <1>1, <1>2

MSFCarries(data, Y, N, D, W, H, M) ==
  \A i : i \in data <=>
    /\ i \in Int
    /\ \/ i \in 1 .. 6
       \/ i - 35 \in Y \/ i - 30 \in N \/ i - 24 \in D
       \/ i - 21 \in W \/ i - 15 \in H \/ i - 8 \in M

LEMMA MSFUnion ==
  ASSUME NEW Y \in SUBSET Int, NEW N \in SUBSET Int, NEW D \in SUBSET Int,
         NEW W \in SUBSET Int, NEW H \in SUBSET Int, NEW M \in SUBSET Int, NEW data,
         data = UnionOf(1 .. 6, Shift(Y, 59 - 24), Shift(N, 59 - 29),
                        Shift(D, 59 - 35), Shift(W, 59 - 38), Shift(H, 59 - 44),
                        Shift(M, 59 - 51))
  PROVE  MSFCarries(data, Y, N, D, W, H, M)
<1>1. ASSUME NEW i PROVE i \in data <=>
         \/ i \in 1 .. 6 \/ i \in Shift(Y, 59 - 24) \/ i \in Shift(N, 59 - 29)
         \/ i \in Shift(D, 59 - 35) \/ i \in Shift(W, 59 - 38)
         \/ i \in Shift(H, 59 - 44) \/ i \in Shift(M, 59 - 51)
  BY DEF UnionOf
<1>2. ASSUME NEW i
      PROVE  i \in data <=>
        /\ i \in Int
        /\ \/ i \in 1 .. 6
           \/ i - 35 \in Y \/ i - 30 \in N \/ i - 24 \in D
           \/ i - 21 \in W \/ i - 15 \in H \/ i - 8 \in M
  <2>1. /\ i \in Shift(Y, 59 - 24) <=> i \in Int /\ i - 35 \in Y
        /\ i \in Shift(N, 59 - 29) <=> i \in Int /\ i - 30 \in N
        /\ i \in Shift(D, 59 - 35) <=> i \in Int /\ i - 24 \in D
        /\ i \in Shift(W, 59 - 38) <=> i \in Int /\ i - 21 \in W
        /\ i \in Shift(H, 59 - 44) <=> i \in Int /\ i - 15 \in H
        /\ i \in Shift(M, 59 - 51) <=> i \in Int /\ i - 8 \in M
    BY ShiftedBits
  <2>2. i \in 1 .. 6 => i \in Int
    OBVIOUS
  <2> QED
    BY <1>1, <2>1, <2>2, ZenonT(30)
<1> QED
  BY <1>2, Zenon DEF MSFCarries

LEMMA MSFLayout ==
  ASSUME NEW tm \in StructTm
  PROVE  MSFCarries(MSFABits(tm), to_bcd(tm.year % 100), to_bcd(tm.mon + 1),
                    to_bcd(tm.mday), to_bcd(tm.wday), to_bcd(tm.hour),
                    to_bcd(tm.min))
<1>1. \A n : to_bcd(n) \in SUBSET Int
  BY DEF to_bcd, BitsOf, Shift
<1>2. MSFABits(tm)
        = UnionOf(1 .. 6, Shift(to_bcd(tm.year % 100), 59 - 24),
                  Shift(to_bcd(tm.mon + 1), 59 - 29), Shift(to_bcd(tm.mday), 59 - 35),
                  Shift(to_bcd(tm.wday), 59 - 38), Shift(to_bcd(tm.hour), 59 - 44),
                  Shift(to_bcd(tm.min), 59 - 51))
  BY Zenon DEF MSFABits, UnionOf
<1> QED
  BY <1>1, <1>2, MSFUnion

MSFSeparate(word, Y, N, D, W, H, M) ==
  /\ SentHighFirst(word, 17, 8, Y)
  /\ SentHighFirst(word, 25, 5, N)
  /\ SentHighFirst(word, 30, 6, D)
  /\ SentHighFirst(word, 36, 3, W)
  /\ SentHighFirst(word, 39, 6, H)
  /\ SentHighFirst(word, 45, 7, M)
  /\ word \cap (52 .. 59) = 53 .. 58

Mirrored(word, data) == \A s \in 1 .. 59 : s \in word <=> 59 - s \in data

LEMMA MSFFields ==
  ASSUME NEW Y \in SUBSET (0 .. 7), NEW N \in SUBSET (0 .. 4),
         NEW D \in SUBSET (0 .. 5), NEW W \in SUBSET (0 .. 2),
         NEW H \in SUBSET (0 .. 5), NEW M \in SUBSET (0 .. 6),
         NEW data, MSFCarries(data, Y, N, D, W, H, M),
         NEW word \in SUBSET (1 .. 59), Mirrored(word, data)
  PROVE  MSFSeparate(word, Y, N, D, W, H, M)
<1> USE DEF Mirrored
<1>1. \A i \in Int :
        /\ i - 35 \in Y => i \in 35 .. 42
        /\ i - 30 \in N => i \in 30 .. 34
        /\ i - 24 \in D => i \in 24 .. 29
        /\ i - 21 \in W => i \in 21 .. 23
        /\ i - 15 \in H => i \in 15 .. 20
        /\ i - 8 \in M => i \in 8 .. 14
  OBVIOUS
<1>2. \A i \in Int : i \in data <=>
        \/ i \in 1 .. 6
        \/ i - 35 \in Y \/ i - 30 \in N \/ i - 24 \in D
        \/ i - 21 \in W \/ i - 15 \in H \/ i - 8 \in M
  BY DEF MSFCarries
<1>3. word \cap (52 .. 59) = 53 .. 58
  <2>1. \A i \in 0 .. 7 : i \in data <=> i \in 1 .. 6
    BY <1>1, <1>2
  <2>2. \A s \in 52 .. 59 : s \in word <=> s \in 53 .. 58
    BY <2>1
  <2> QED
    BY <2>2
<1>4. /\ \A j \in 0 .. 7 : 35 + j \in data <=> j \in Y
      /\ \A j \in 0 .. 4 : 30 + j \in data <=> j \in N
  BY <1>1, <1>2
<1>5. /\ \A j \in 0 .. 5 : 24 + j \in data <=> j \in D
      /\ \A j \in 0 .. 2 : 21 + j \in data <=> j \in W
  BY <1>1, <1>2
<1>6. /\ \A j \in 0 .. 5 : 15 + j \in data <=> j \in H
      /\ \A j \in 0 .. 6 : 8 + j \in data <=> j \in M
  BY <1>1, <1>2
<1>7. SentHighFirst(word, 17, 8, Y) /\ SentHighFirst(word, 25, 5, N)
  <2>1. ASSUME NEW j \in 0 .. 7 PROVE 17 + 8 - 1 - j \in word <=> j \in Y
    <3>1. 17 + 8 - 1 - j \in 1 .. 59 /\ 59 - (17 + 8 - 1 - j) = 35 + j
      OBVIOUS
    <3> QED
      BY <1>4, <3>1
  <2>2. ASSUME NEW j \in 0 .. 4 PROVE 25 + 5 - 1 - j \in word <=> j \in N
    <3>1. 25 + 5 - 1 - j \in 1 .. 59 /\ 59 - (25 + 5 - 1 - j) = 30 + j
      OBVIOUS
    <3> QED
      BY <1>4, <3>1
  <2> QED
    BY <2>1, <2>2 DEF SentHighFirst
<1>8. SentHighFirst(word, 30, 6, D) /\ SentHighFirst(word, 36, 3, W)
  <2>1. ASSUME NEW j \in 0 .. 5 PROVE 30 + 6 - 1 - j \in word <=> j \in D
    <3>1. 30 + 6 - 1 - j \in 1 .. 59 /\ 59 - (30 + 6 - 1 - j) = 24 + j
      OBVIOUS
    <3> QED
      BY <1>5, <3>1
  <2>2. ASSUME NEW j \in 0 .. 2 PROVE 36 + 3 - 1 - j \in word <=> j \in W
    <3>1. 36 + 3 - 1 - j \in 1 .. 59 /\ 59 - (36 + 3 - 1 - j) = 21 + j
      OBVIOUS
    <3> QED
      BY <1>5, <3>1
  <2> QED
    BY <2>1, <2>2 DEF SentHighFirst
<1>9. SentHighFirst(word, 39, 6, H) /\ SentHighFirst(word, 45, 7, M)
  <2>1. ASSUME NEW j \in 0 .. 5 PROVE 39 + 6 - 1 - j \in word <=> j \in H
    <3>1. 39 + 6 - 1 - j \in 1 .. 59 /\ 59 - (39 + 6 - 1 - j) = 15 + j
      OBVIOUS
    <3> QED
      BY <1>6, <3>1
  <2>2. ASSUME NEW j \in 0 .. 6 PROVE 45 + 7 - 1 - j \in word <=> j \in M
    <3>1. 45 + 7 - 1 - j \in 1 .. 59 /\ 59 - (45 + 7 - 1 - j) = 8 + j
      OBVIOUS
    <3> QED
      BY <1>6, <3>1
  <2> QED
    BY <2>1, <2>2 DEF SentHighFirst
<1> QED
  BY <1>3, <1>7, <1>8, <1>9 DEF MSFSeparate

(* Each of the four parity bits is odd with its fields, in the other word.  *)
OddWith(word, seconds, other, bit) == Even(word, seconds) = (bit \in other)

LEMMA MSFOdd ==
  ASSUME NEW word, NEW data, NEW other, NEW a, NEW b, NEW c, NEW d, NEW bit,
         Reversed(word, c, d, data, a, b), bit \in other <=> ~parity(data, a, b)
  PROVE  OddWith(word, c .. d, other, bit)
<1>1. Ones(word, c, d) = Ones(data, a, b)
  BY AsManyReversed
<1>2. IsFiniteSet(word \cap (c .. d)) /\ Cardinality(word \cap (c .. d)) \in Nat
  <2>1. word \cap (c .. d) \in SUBSET (0 .. 59)
    BY DEF Reversed
  <2> QED
    BY <2>1, Finite
<1>3. Ones(word, c, d) % 2 = 0 <=> Ones(word, c, d) % 2 # 1
  BY <1>2 DEF Ones
<1>4. Even(word, c .. d) <=> Ones(word, c, d) % 2 = 0
  BY DEF Even, Ones
<1>5. parity(data, a, b) <=> Ones(data, a, b) % 2 = 1
  BY DEF parity, Ones
<1>6. Even(word, c .. d) <=> bit \in other
  BY <1>1, <1>3, <1>4, <1>5
<1> QED
  BY <1>6 DEF OddWith, Even

LEMMA MSFParityOdd ==
  ASSUME NEW data, NEW dst \in BOOLEAN, NEW word \in SUBSET (1 .. 59),
         NEW other \in SUBSET (1 .. 59),
         \A s \in 1 .. 59 : /\ s \in word <=> 59 - s \in data
                            /\ s \in other <=> 59 - s \in MSFBBits(data, dst)
  PROVE  /\ OddWith(word, 17 .. 24, other, 54) /\ OddWith(word, 25 .. 35, other, 55)
         /\ OddWith(word, 36 .. 38, other, 56) /\ OddWith(word, 39 .. 51, other, 57)
         /\ 58 \in other <=> dst
<1>1. \A i : i \in MSFBBits(data, dst) <=>
        \/ i = 5 /\ ~parity(data, 35, 42)
        \/ i = 4 /\ ~parity(data, 24, 34)
        \/ i = 3 /\ ~parity(data, 21, 23)
        \/ i = 2 /\ ~parity(data, 8, 20)
        \/ i = 1 /\ dst
  BY DEF MSFBBits, Flag
<1>2. /\ 5 \in MSFBBits(data, dst) <=> ~parity(data, 35, 42)
      /\ 4 \in MSFBBits(data, dst) <=> ~parity(data, 24, 34)
      /\ 3 \in MSFBBits(data, dst) <=> ~parity(data, 21, 23)
      /\ 2 \in MSFBBits(data, dst) <=> ~parity(data, 8, 20)
      /\ 1 \in MSFBBits(data, dst) <=> dst
  BY <1>1
<1>3. /\ 54 \in other <=> 5 \in MSFBBits(data, dst)
      /\ 55 \in other <=> 4 \in MSFBBits(data, dst)
      /\ 56 \in other <=> 3 \in MSFBBits(data, dst)
      /\ 57 \in other <=> 2 \in MSFBBits(data, dst)
      /\ 58 \in other <=> 1 \in MSFBBits(data, dst)
  <2>1. /\ 59 - 54 = 5 /\ 59 - 55 = 4 /\ 59 - 56 = 3 /\ 59 - 57 = 2 /\ 59 - 58 = 1
        /\ 54 \in 1 .. 59 /\ 55 \in 1 .. 59 /\ 56 \in 1 .. 59 /\ 57 \in 1 .. 59
        /\ 58 \in 1 .. 59
    OBVIOUS
  <2> QED
    BY <2>1
<1>4. /\ Reversed(word, 17, 24, data, 35, 42) /\ Reversed(word, 25, 35, data, 24, 34)
      /\ Reversed(word, 36, 38, data, 21, 23) /\ Reversed(word, 39, 51, data, 8, 20)
  BY DEF Reversed
<1>5. OddWith(word, 17 .. 24, other, 54)
  BY <1>2, <1>3, <1>4, MSFOdd, ZenonT(30)
<1>6. OddWith(word, 25 .. 35, other, 55)
  BY <1>2, <1>3, <1>4, MSFOdd, ZenonT(30)
<1>7. OddWith(word, 36 .. 38, other, 56)
  BY <1>2, <1>3, <1>4, MSFOdd, ZenonT(30)
<1>8. OddWith(word, 39 .. 51, other, 57)
  BY <1>2, <1>3, <1>4, MSFOdd, ZenonT(30)
<1> QED
  BY <1>2, <1>3, <1>5, <1>6, <1>7, <1>8

MSFShows(tm) ==
  [year |-> tm.year % 100, mon |-> tm.mon + 1, mday |-> tm.mday,
   wday |-> tm.wday, hour |-> tm.hour, min |-> tm.min, dst |-> tm.isdst]

(***************************************************************************)
(* A minute of MSF is decoded to the local time it was made from, its four parity *)
(* bits odd and the minute marker in its place: for every broken-down time  *)
(* (src/msf-source.cc:29-67).                                               *)
(***************************************************************************)
THEOREM MSFDecodes ==
  ASSUME NEW tm \in StructTm, NEW window,
         \A s \in 0 .. 59 :
           window[s + 1]
             = MSFModulation([a |-> MSFABits(tm),
                              b |-> MSFBBits(MSFABits(tm), tm.isdst)], s)
  PROVE  DecodeMSF(window) = MSFShows(tm)
<1>1. PICK data : data = MSFABits(tm)
  OBVIOUS
<1>2. PICK check : check = MSFBBits(data, tm.isdst)
  OBVIOUS
<1>3. PICK word : word = Off(window, 2)
  OBVIOUS
<1>4. PICK other : other = Off(window, 3)
  OBVIOUS
<1>5. /\ word \in SUBSET (1 .. 59) /\ other \in SUBSET (1 .. 59)
      /\ \A s \in 1 .. 59 : /\ s \in word <=> 59 - s \in data
                            /\ s \in other <=> 59 - s \in check
  BY <1>1, <1>2, <1>3, <1>4, MSFWords
<1>6. /\ tm.min \in 0 .. 59 /\ tm.hour \in 0 .. 23 /\ tm.mday \in 1 .. 31
      /\ tm.wday \in 0 .. 6 /\ tm.mon + 1 \in 1 .. 12 /\ tm.year % 100 \in 0 .. 99
      /\ tm.isdst \in BOOLEAN
  <2>1. tm.year % 100 \in 0 .. 99
    <3>1. tm.year \in Nat
      BY DEF StructTm
    <3> QED
      BY <3>1
  <2> QED
    BY <2>1 DEF StructTm
<1>7. PICK M \in SUBSET (0 .. 6) : M = to_bcd(tm.min)
  BY <1>6, BcdValue
<1>8. PICK H \in SUBSET (0 .. 5) : H = to_bcd(tm.hour)
  BY <1>6, BcdValue
<1>9. PICK D \in SUBSET (0 .. 5) : D = to_bcd(tm.mday)
  BY <1>6, BcdValue
<1>10. PICK W \in SUBSET (0 .. 2) : W = to_bcd(tm.wday)
  BY <1>6, BcdValue
<1>11. PICK N \in SUBSET (0 .. 4) : N = to_bcd(tm.mon + 1)
  BY <1>6, BcdValue
<1>12. PICK Y \in SUBSET (0 .. 7) : Y = to_bcd(tm.year % 100)
  BY <1>6, BcdValue
<1>13. MSFCarries(data, Y, N, D, W, H, M)
  BY <1>1, <1>7, <1>8, <1>9, <1>10, <1>11, <1>12, MSFLayout, Zenon
<1>14. MSFSeparate(word, Y, N, D, W, H, M)
  <2>1. word \in SUBSET (1 .. 59) /\ Mirrored(word, data)
    BY <1>5 DEF Mirrored
  <2> QED
    BY <1>13, <2>1, MSFFields
<1>15. /\ OddWith(word, 17 .. 24, other, 54) /\ OddWith(word, 25 .. 35, other, 55)
       /\ OddWith(word, 36 .. 38, other, 56) /\ OddWith(word, 39 .. 51, other, 57)
       /\ 58 \in other <=> tm.isdst
  BY <1>2, <1>5, <1>6, MSFParityOdd
<1>16. Value(word, 17, Units(8)) = tm.year % 100
  <2>1. SentHighFirst(word, 17, 8, to_bcd(tm.year % 100))
    BY <1>12, <1>14, Zenon DEF MSFSeparate
  <2>2. /\ 17 \in Int /\ 8 \in {3, 5, 6, 7, 8}
        /\ tm.year % 100 \in 0 .. 99 /\ to_bcd(tm.year % 100) \subseteq 0 .. 8 - 1
    BY <1>6, <1>12
  <2> QED
    BY <2>1, <2>2, UnitsValue, Zenon
<1>17. Value(word, 25, Units(5)) = tm.mon + 1
  <2>1. SentHighFirst(word, 25, 5, to_bcd(tm.mon + 1))
    BY <1>11, <1>14, Zenon DEF MSFSeparate
  <2>2. /\ 25 \in Int /\ 5 \in {3, 5, 6, 7, 8}
        /\ tm.mon + 1 \in 0 .. 99 /\ to_bcd(tm.mon + 1) \subseteq 0 .. 5 - 1
    BY <1>6, <1>11
  <2> QED
    BY <2>1, <2>2, UnitsValue, Zenon
<1>18. Value(word, 30, Units(6)) = tm.mday
  <2>1. SentHighFirst(word, 30, 6, to_bcd(tm.mday))
    BY <1>9, <1>14, Zenon DEF MSFSeparate
  <2>2. /\ 30 \in Int /\ 6 \in {3, 5, 6, 7, 8}
        /\ tm.mday \in 0 .. 99 /\ to_bcd(tm.mday) \subseteq 0 .. 6 - 1
    BY <1>6, <1>9
  <2> QED
    BY <2>1, <2>2, UnitsValue, Zenon
<1>19. Value(word, 36, Units(3)) = tm.wday
  <2>1. SentHighFirst(word, 36, 3, to_bcd(tm.wday))
    BY <1>10, <1>14, Zenon DEF MSFSeparate
  <2>2. /\ 36 \in Int /\ 3 \in {3, 5, 6, 7, 8}
        /\ tm.wday \in 0 .. 99 /\ to_bcd(tm.wday) \subseteq 0 .. 3 - 1
    BY <1>6, <1>10
  <2> QED
    BY <2>1, <2>2, UnitsValue, Zenon
<1>20. Value(word, 39, Units(6)) = tm.hour
  <2>1. SentHighFirst(word, 39, 6, to_bcd(tm.hour))
    BY <1>8, <1>14, Zenon DEF MSFSeparate
  <2>2. /\ 39 \in Int /\ 6 \in {3, 5, 6, 7, 8}
        /\ tm.hour \in 0 .. 99 /\ to_bcd(tm.hour) \subseteq 0 .. 6 - 1
    BY <1>6, <1>8
  <2> QED
    BY <2>1, <2>2, UnitsValue, Zenon
<1>21. Value(word, 45, Units(7)) = tm.min
  <2>1. SentHighFirst(word, 45, 7, to_bcd(tm.min))
    BY <1>7, <1>14, Zenon DEF MSFSeparate
  <2>2. /\ 45 \in Int /\ 7 \in {3, 5, 6, 7, 8}
        /\ tm.min \in 0 .. 99 /\ to_bcd(tm.min) \subseteq 0 .. 7 - 1
    BY <1>6, <1>7
  <2> QED
    BY <2>1, <2>2, UnitsValue, Zenon
<1>22. (58 \in other) = tm.isdst
  BY <1>6, <1>15
<1>23. DecodeMSF(window)
         = [year |-> Value(word, 17, Units(8)), mon |-> Value(word, 25, Units(5)),
            mday |-> Value(word, 30, Units(6)), wday |-> Value(word, 36, Units(3)),
            hour |-> Value(word, 39, Units(6)), min |-> Value(word, 45, Units(7)),
            dst |-> 58 \in other]
  BY <1>3, <1>4, <1>14, <1>15, ZenonT(30)
     DEF DecodeMSF, Off, OddWith, MSFSeparate
<1> QED
  BY <1>16, <1>17, <1>18, <1>19, <1>20, <1>21, <1>22, <1>23, Zenon DEF MSFShows

-----------------------------------------------------------------------------
(* BPC: a block of twenty symbols of two bits, the highest bits first.        *)
BPCSymbol(block, p) ==
  (IF 2 * (19 - p) + 1 \in block THEN 2 ELSE 0)
    + (IF 2 * (19 - p) \in block THEN 1 ELSE 0)

BPCBit(window, i) ==
  ((window[(19 - (i \div 2)) + 1][1].ticks - 1)
     \div (IF i % 2 = 1 THEN 2 ELSE 1)) % 2

BPCBits(window) == {i \in 0 .. 37 : BPCBit(window, i) = 1}

SendsBlock(window, block) ==
  \A p \in 1 .. 19 : window[p + 1][1].ticks = BPCSymbol(block, p) + 1

LEMMA BPCWord ==
  ASSUME NEW block, NEW window, SendsBlock(window, block)
  PROVE  /\ BPCBits(window) \in SUBSET (0 .. 37)
         /\ \A i \in 0 .. 37 : i \in BPCBits(window) <=> i \in block
<1>1. ASSUME NEW i \in 0 .. 37 PROVE BPCBit(window, i) = 1 <=> i \in block
  <2>1. PICK p : p = 19 - (i \div 2)
    OBVIOUS
  <2>2. p \in 1 .. 19 /\ (i % 2 = 1 => i = 2 * (19 - p) + 1)
        /\ (i % 2 # 1 => i = 2 * (19 - p))
    BY <2>1
  <2>3. PICK x : x = IF 2 * (19 - p) + 1 \in block THEN 2 ELSE 0
    OBVIOUS
  <2>4. PICK y : y = IF 2 * (19 - p) \in block THEN 1 ELSE 0
    OBVIOUS
  <2>5. window[p + 1][1].ticks = (x + y) + 1
    BY <2>2, <2>3, <2>4 DEF SendsBlock, BPCSymbol
  <2>6. x \in {0, 2} /\ y \in {0, 1}
    BY <2>3, <2>4
  <2>7. window[p + 1][1].ticks - 1 = x + y
    BY <2>5, <2>6
  <2>8. BPCBit(window, i) = ((x + y) \div (IF i % 2 = 1 THEN 2 ELSE 1)) % 2
    BY <2>1, <2>7, Zenon DEF BPCBit
  <2>9. CASE i % 2 = 1
    <3>1. BPCBit(window, i) = ((x + y) \div 2) % 2
      BY <2>8, <2>9
    <3>2. ((x + y) \div 2) % 2 = 1 <=> x = 2
      BY <2>6
    <3> QED
      BY <2>2, <2>3, <2>9, <3>1, <3>2
  <2>10. CASE i % 2 # 1
    <3>1. BPCBit(window, i) = ((x + y) \div 1) % 2
      BY <2>8, <2>10
    <3>2. ((x + y) \div 1) % 2 = 1 <=> y = 1
      BY <2>6
    <3> QED
      BY <2>2, <2>4, <2>10, <3>1, <3>2
  <2> QED
    BY <2>9, <2>10
<1>2. BPCBits(window) \in SUBSET (0 .. 37)
  BY DEF BPCBits
<1> QED
  BY <1>1, <1>2 DEF BPCBits

UnionOfEight(A, B, C, D, E, F, G, H) == UNION {A, B, C, D, E, F, G, H}

BPCCarries(data, F, P, H, M, W, D, N, Y) ==
  \A i : i \in data <=>
    /\ i \in Int
    /\ \/ i - 36 \in F \/ i - 35 \in P \/ i - 31 \in H \/ i - 25 \in M
       \/ i - 22 \in W \/ i - 17 \in D \/ i - 13 \in N \/ i - 6 \in Y

LEMMA BPCUnion ==
  ASSUME NEW F \in SUBSET Int, NEW P \in SUBSET Int, NEW H \in SUBSET Int,
         NEW M \in SUBSET Int, NEW W \in SUBSET Int, NEW D \in SUBSET Int,
         NEW N \in SUBSET Int, NEW Y \in SUBSET Int, NEW data,
         data = UnionOfEight(Shift(F, 36), Shift(P, 35), Shift(H, 31),
                             Shift(M, 25), Shift(W, 22), Shift(D, 17),
                             Shift(N, 13), Shift(Y, 6))
  PROVE  BPCCarries(data, F, P, H, M, W, D, N, Y)
<1>1. ASSUME NEW i PROVE i \in data <=>
         \/ i \in Shift(F, 36) \/ i \in Shift(P, 35) \/ i \in Shift(H, 31)
         \/ i \in Shift(M, 25) \/ i \in Shift(W, 22) \/ i \in Shift(D, 17)
         \/ i \in Shift(N, 13) \/ i \in Shift(Y, 6)
  BY DEF UnionOfEight
<1>2. ASSUME NEW i
      PROVE  i \in data <=>
        /\ i \in Int
        /\ \/ i - 36 \in F \/ i - 35 \in P \/ i - 31 \in H \/ i - 25 \in M
           \/ i - 22 \in W \/ i - 17 \in D \/ i - 13 \in N \/ i - 6 \in Y
  <2>1. /\ i \in Shift(F, 36) <=> i \in Int /\ i - 36 \in F
        /\ i \in Shift(P, 35) <=> i \in Int /\ i - 35 \in P
        /\ i \in Shift(H, 31) <=> i \in Int /\ i - 31 \in H
        /\ i \in Shift(M, 25) <=> i \in Int /\ i - 25 \in M
        /\ i \in Shift(W, 22) <=> i \in Int /\ i - 22 \in W
        /\ i \in Shift(D, 17) <=> i \in Int /\ i - 17 \in D
        /\ i \in Shift(N, 13) <=> i \in Int /\ i - 13 \in N
        /\ i \in Shift(Y, 6) <=> i \in Int /\ i - 6 \in Y
    BY ShiftedBits
  <2> QED
    BY <1>1, <2>1, Zenon
<1> QED
  BY <1>2, Zenon DEF BPCCarries

BPCSeparate(word, F, P, H, M, W, D, N, Y) ==
  /\ SentLowFirst(word, 36, 2, F)
  /\ SentLowFirst(word, 35, 1, P)
  /\ SentLowFirst(word, 31, 4, H)
  /\ SentLowFirst(word, 25, 6, M)
  /\ SentLowFirst(word, 22, 3, W)
  /\ SentLowFirst(word, 17, 5, D)
  /\ SentLowFirst(word, 13, 4, N)
  /\ SentLowFirst(word, 6, 7, Y)

LEMMA BPCFields ==
  ASSUME NEW F \in SUBSET (0 .. 1), NEW P \in SUBSET (0 .. 0),
         NEW H \in SUBSET (0 .. 3), NEW M \in SUBSET (0 .. 5),
         NEW W \in SUBSET (0 .. 2), NEW D \in SUBSET (0 .. 4),
         NEW N \in SUBSET (0 .. 3), NEW Y \in SUBSET (0 .. 6),
         NEW data, BPCCarries(data, F, P, H, M, W, D, N, Y),
         NEW word \in SUBSET (0 .. 37), NEW block, block = EvenParity(data),
         \A i \in 0 .. 37 : i \in word <=> i \in block
  PROVE  BPCSeparate(word, F, P, H, M, W, D, N, Y) /\ Even(word, 1 .. 37)
<1>1. \A i \in Int :
        /\ i - 36 \in F => i \in 36 .. 37
        /\ i - 35 \in P => i = 35
        /\ i - 31 \in H => i \in 31 .. 34
        /\ i - 25 \in M => i \in 25 .. 30
        /\ i - 22 \in W => i \in 22 .. 24
        /\ i - 17 \in D => i \in 17 .. 21
        /\ i - 13 \in N => i \in 13 .. 16
        /\ i - 6 \in Y => i \in 6 .. 12
  OBVIOUS
<1>2. \A i \in Int : i \in data <=>
        \/ i - 36 \in F \/ i - 35 \in P \/ i - 31 \in H \/ i - 25 \in M
        \/ i - 22 \in W \/ i - 17 \in D \/ i - 13 \in N \/ i - 6 \in Y
  BY DEF BPCCarries
<1>3. \A i \in data : i \in 6 .. 37
  BY <1>1, <1>2, SMTT(30) DEF BPCCarries
<1>4. \A i : i \in block <=> i \in data \/ (i = 1 /\ parity(data, 2, 37))
  BY DEF EvenParity, Flag
<1>5. \A i \in 2 .. 37 : i \in word <=> i \in data
  BY <1>4
<1>6. Even(word, 1 .. 37)
  <2>1. 1 \in word <=> Cardinality(data \cap (2 .. 37)) % 2 = 1
    <3>1. 1 \in word <=> parity(data, 2, 37)
      BY <1>3, <1>4
    <3> QED
      BY <3>1, Zenon DEF parity
  <2>2. data \cap (2 .. 37) = word \cap (2 .. 37)
    BY <1>5
  <2>3. 1 .. 37 = (2 .. 37) \cup {1} /\ 1 \notin 2 .. 37 /\ 1 \in 0 .. 59
        /\ 2 .. 37 \in SUBSET (0 .. 59) /\ data \cap (2 .. 37) \in SUBSET (0 .. 59)
    OBVIOUS
  <2>4. Even(word, (2 .. 37) \cup {1})
    BY <2>1, <2>2, <2>3, ParityBit
  <2> QED
    BY <2>3, <2>4
<1>7. /\ \A j \in 0 .. 1 : 36 + j \in data <=> j \in F
      /\ \A j \in 0 .. 0 : 35 + j \in data <=> j \in P
  BY <1>1, <1>2
<1>8. /\ \A j \in 0 .. 3 : 31 + j \in data <=> j \in H
      /\ \A j \in 0 .. 5 : 25 + j \in data <=> j \in M
  BY <1>1, <1>2
<1>9. /\ \A j \in 0 .. 2 : 22 + j \in data <=> j \in W
      /\ \A j \in 0 .. 4 : 17 + j \in data <=> j \in D
  BY <1>1, <1>2
<1>10. /\ \A j \in 0 .. 3 : 13 + j \in data <=> j \in N
       /\ \A j \in 0 .. 6 : 6 + j \in data <=> j \in Y
  BY <1>1, <1>2
<1>11. SentLowFirst(word, 36, 2, F) /\ SentLowFirst(word, 35, 1, P)
  BY <1>5, <1>7 DEF SentLowFirst
<1>12. SentLowFirst(word, 31, 4, H) /\ SentLowFirst(word, 25, 6, M)
  BY <1>5, <1>8 DEF SentLowFirst
<1>13. SentLowFirst(word, 22, 3, W) /\ SentLowFirst(word, 17, 5, D)
  BY <1>5, <1>9 DEF SentLowFirst
<1>14. SentLowFirst(word, 13, 4, N) /\ SentLowFirst(word, 6, 7, Y)
  BY <1>5, <1>10 DEF SentLowFirst
<1> QED
  BY <1>6, <1>11, <1>12, <1>13, <1>14 DEF BPCSeparate

(* A block of BPC, field by field.                                          *)
FitsIn(n, width) == \A i \in BitsOf(n) : i < width

LEMMA PutBits ==
  ASSUME NEW lsb, NEW width, NEW n, FitsIn(n, width)
  PROVE  put_bits(lsb, width, n) = Shift(BitsOf(n), lsb)
<1>1. {i \in BitsOf(n) : i < width} = BitsOf(n)
  BY DEF FitsIn
<1> QED
  BY <1>1 DEF put_bits

BPCHour(tm) == IF tm.hour % 12 = 0 THEN 12 ELSE tm.hour % 12

BPCAfternoon(tm) == IF tm.hour >= 12 THEN 1 ELSE 0

BPCData(tm, block) ==
  UnionOfEight(put_bits(36, 2, block), put_bits(35, 1, BPCAfternoon(tm)),
               put_bits(31, 4, BPCHour(tm)), put_bits(25, 6, tm.min),
               put_bits(22, 3, ISOWeekday(tm)), put_bits(17, 5, tm.mday),
               put_bits(13, 4, tm.mon + 1), put_bits(6, 7, tm.year % 100))

LEMMA BPCLayout ==
  ASSUME NEW tm \in StructTm, NEW block \in 0 .. 2
  PROVE  /\ EncodeBlock(tm, block) = EvenParity(BPCData(tm, block))
         /\ BPCCarries(BPCData(tm, block), BitsOf(block), BitsOf(BPCAfternoon(tm)),
                       BitsOf(BPCHour(tm)), BitsOf(tm.min), BitsOf(ISOWeekday(tm)),
                       BitsOf(tm.mday), BitsOf(tm.mon + 1), BitsOf(tm.year % 100))
         /\ BitsOf(block) \in SUBSET (0 .. 1)
         /\ BitsOf(BPCAfternoon(tm)) \in SUBSET (0 .. 0)
         /\ BitsOf(BPCHour(tm)) \in SUBSET (0 .. 3)
         /\ BitsOf(tm.min) \in SUBSET (0 .. 5)
         /\ BitsOf(ISOWeekday(tm)) \in SUBSET (0 .. 2)
         /\ BitsOf(tm.mday) \in SUBSET (0 .. 4)
         /\ BitsOf(tm.mon + 1) \in SUBSET (0 .. 3)
         /\ BitsOf(tm.year % 100) \in SUBSET (0 .. 6)
<1>1. EncodeBlock(tm, block) = EvenParity(BPCData(tm, block))
  BY Zenon DEF EncodeBlock, BPCData, UnionOfEight, BPCHour, BPCAfternoon, ISOWeekday
<1>2. /\ block \in 0 .. 127 /\ block < 4
      /\ BPCAfternoon(tm) \in 0 .. 127 /\ BPCAfternoon(tm) < 2
      /\ tm.min \in 0 .. 127 /\ tm.min < 64
      /\ ISOWeekday(tm) \in 0 .. 127 /\ ISOWeekday(tm) < 8
      /\ tm.mday \in 0 .. 127 /\ tm.mday < 32
      /\ tm.mon + 1 \in 0 .. 127 /\ tm.mon + 1 < 16
  BY DEF StructTm, BPCAfternoon, ISOWeekday
<1>3. BPCHour(tm) \in 0 .. 127 /\ BPCHour(tm) < 16
  <2>1. tm.hour \in 0 .. 23
    BY DEF StructTm
  <2> QED
    BY <2>1 DEF BPCHour
<1>4. tm.year % 100 \in 0 .. 127
  <2>1. tm.year \in Nat
    BY DEF StructTm
  <2> QED
    BY <2>1
<1>5. /\ BitsOf(block) \in SUBSET (0 .. 1)
      /\ BitsOf(BPCAfternoon(tm)) \in SUBSET (0 .. 0)
      /\ BitsOf(BPCHour(tm)) \in SUBSET (0 .. 3)
      /\ BitsOf(tm.min) \in SUBSET (0 .. 5)
  BY <1>2, <1>3, FewBits
<1>6. /\ BitsOf(ISOWeekday(tm)) \in SUBSET (0 .. 2)
      /\ BitsOf(tm.mday) \in SUBSET (0 .. 4)
      /\ BitsOf(tm.mon + 1) \in SUBSET (0 .. 3)
  BY <1>2, FewBits
<1>7. BitsOf(tm.year % 100) \in SUBSET (0 .. 6)
  BY <1>4, BitsOfNumber
<1>8. /\ put_bits(36, 2, block) = Shift(BitsOf(block), 36)
      /\ put_bits(35, 1, BPCAfternoon(tm)) = Shift(BitsOf(BPCAfternoon(tm)), 35)
  <2>1. FitsIn(block, 2) /\ FitsIn(BPCAfternoon(tm), 1)
    BY <1>5, <1>6, <1>7 DEF FitsIn
  <2> QED
    BY <2>1, PutBits
<1>9. /\ put_bits(31, 4, BPCHour(tm)) = Shift(BitsOf(BPCHour(tm)), 31)
      /\ put_bits(25, 6, tm.min) = Shift(BitsOf(tm.min), 25)
  <2>1. FitsIn(BPCHour(tm), 4) /\ FitsIn(tm.min, 6)
    BY <1>5, <1>6, <1>7 DEF FitsIn
  <2> QED
    BY <2>1, PutBits
<1>10. /\ put_bits(22, 3, ISOWeekday(tm)) = Shift(BitsOf(ISOWeekday(tm)), 22)
       /\ put_bits(17, 5, tm.mday) = Shift(BitsOf(tm.mday), 17)
  <2>1. FitsIn(ISOWeekday(tm), 3) /\ FitsIn(tm.mday, 5)
    BY <1>5, <1>6, <1>7 DEF FitsIn
  <2> QED
    BY <2>1, PutBits
<1>11. /\ put_bits(13, 4, tm.mon + 1) = Shift(BitsOf(tm.mon + 1), 13)
       /\ put_bits(6, 7, tm.year % 100) = Shift(BitsOf(tm.year % 100), 6)
  <2>1. FitsIn(tm.mon + 1, 4) /\ FitsIn(tm.year % 100, 7)
    BY <1>5, <1>6, <1>7 DEF FitsIn
  <2> QED
    BY <2>1, PutBits
<1>12. BPCData(tm, block)
         = UnionOfEight(Shift(BitsOf(block), 36), Shift(BitsOf(BPCAfternoon(tm)), 35),
                        Shift(BitsOf(BPCHour(tm)), 31), Shift(BitsOf(tm.min), 25),
                        Shift(BitsOf(ISOWeekday(tm)), 22), Shift(BitsOf(tm.mday), 17),
                        Shift(BitsOf(tm.mon + 1), 13), Shift(BitsOf(tm.year % 100), 6))
  BY <1>8, <1>9, <1>10, <1>11, Zenon DEF BPCData
<1>13. \A n : BitsOf(n) \in SUBSET Int
  BY DEF BitsOf
<1>14. BPCCarries(BPCData(tm, block), BitsOf(block), BitsOf(BPCAfternoon(tm)),
                  BitsOf(BPCHour(tm)), BitsOf(tm.min), BitsOf(ISOWeekday(tm)),
                  BitsOf(tm.mday), BitsOf(tm.mon + 1), BitsOf(tm.year % 100))
  BY <1>12, <1>13, BPCUnion
<1> QED
  BY <1>1, <1>5, <1>6, <1>7, <1>14

BPCShows(tm, block) ==
  [frame |-> block, hour |-> tm.hour, min |-> tm.min, wday |-> ISOWeekday(tm),
   mday |-> tm.mday, mon |-> tm.mon + 1, year |-> tm.year % 100]

(***************************************************************************)
(* A block of BPC is decoded to the local time and the third of the minute it was *)
(* made from, its parity bit even: for every broken-down time               *)
(* (src/bpc-source.cc:46-113).                                              *)
(***************************************************************************)
THEOREM BPCDecodes ==
  ASSUME NEW tm \in StructTm, NEW block \in 0 .. 2, NEW window,
         SendsBlock(window, EncodeBlock(tm, block))
  PROVE  DecodeBPC(window) = BPCShows(tm, block)
<1>1. PICK word : word = BPCBits(window)
  OBVIOUS
<1>2. PICK code : code = EncodeBlock(tm, block)
  OBVIOUS
<1>3. /\ word \in SUBSET (0 .. 37)
      /\ \A i \in 0 .. 37 : i \in word <=> i \in code
  BY <1>1, <1>2, BPCWord
<1>4. PICK data : data = BPCData(tm, block)
  OBVIOUS
<1>5. PICK F \in SUBSET (0 .. 1) : F = BitsOf(block)
  BY BPCLayout
<1>6. PICK P \in SUBSET (0 .. 0) : P = BitsOf(BPCAfternoon(tm))
  BY BPCLayout
<1>7. PICK H \in SUBSET (0 .. 3) : H = BitsOf(BPCHour(tm))
  BY BPCLayout
<1>8. PICK M \in SUBSET (0 .. 5) : M = BitsOf(tm.min)
  BY BPCLayout
<1>9. PICK W \in SUBSET (0 .. 2) : W = BitsOf(ISOWeekday(tm))
  BY BPCLayout
<1>10. PICK D \in SUBSET (0 .. 4) : D = BitsOf(tm.mday)
  BY BPCLayout
<1>11. PICK N \in SUBSET (0 .. 3) : N = BitsOf(tm.mon + 1)
  BY BPCLayout
<1>12. PICK Y \in SUBSET (0 .. 6) : Y = BitsOf(tm.year % 100)
  BY BPCLayout
<1>13. BPCCarries(data, F, P, H, M, W, D, N, Y)
  BY <1>4, <1>5, <1>6, <1>7, <1>8, <1>9, <1>10, <1>11, <1>12, BPCLayout, Zenon
<1>14. code = EvenParity(data)
  BY <1>2, <1>4, BPCLayout
<1>15. BPCSeparate(word, F, P, H, M, W, D, N, Y) /\ Even(word, 1 .. 37)
  BY <1>3, <1>13, <1>14, BPCFields
<1>16. /\ block \in 0 .. 127 /\ BPCAfternoon(tm) \in 0 .. 127 /\ tm.min \in 0 .. 127
       /\ ISOWeekday(tm) \in 0 .. 127 /\ tm.mday \in 0 .. 127
       /\ tm.mon + 1 \in 0 .. 127
  BY DEF StructTm, BPCAfternoon, ISOWeekday
<1>17. /\ tm.hour \in 0 .. 23 /\ BPCHour(tm) \in 1 .. 12 /\ BPCHour(tm) \in 0 .. 127
       /\ (BPCHour(tm) % 12) + 12 * BPCAfternoon(tm) = tm.hour
  <2>1. tm.hour \in 0 .. 23
    BY DEF StructTm
  <2> QED
    BY <2>1 DEF BPCHour, BPCAfternoon
<1>18. tm.year % 100 \in 0 .. 127
  <2>1. tm.year \in Nat
    BY DEF StructTm
  <2> QED
    BY <2>1
<1>19. Value(word, 36, SubSeq(Powers2, 1, 2)) = block
  <2>1. SentLowFirst(word, 36, 2, BitsOf(block))
    BY <1>5, <1>15, Zenon DEF BPCSeparate
  <2>2. 36 \in Int /\ 2 \in 1 .. 7 /\ BitsOf(block) \subseteq 0 .. 2 - 1
    BY <1>5
  <2> QED
    BY <1>16, <2>1, <2>2, Powers2Value, Zenon
<1>20. Value(word, 35, SubSeq(Powers2, 1, 1)) = BPCAfternoon(tm)
  <2>1. SentLowFirst(word, 35, 1, BitsOf(BPCAfternoon(tm)))
    BY <1>6, <1>15, Zenon DEF BPCSeparate
  <2>2. 35 \in Int /\ 1 \in 1 .. 7 /\ BitsOf(BPCAfternoon(tm)) \subseteq 0 .. 1 - 1
    BY <1>6
  <2> QED
    BY <1>16, <2>1, <2>2, Powers2Value, Zenon
<1>21. Value(word, 31, SubSeq(Powers2, 1, 4)) = BPCHour(tm)
  <2>1. SentLowFirst(word, 31, 4, BitsOf(BPCHour(tm)))
    BY <1>7, <1>15, Zenon DEF BPCSeparate
  <2>2. 31 \in Int /\ 4 \in 1 .. 7 /\ BitsOf(BPCHour(tm)) \subseteq 0 .. 4 - 1
    BY <1>7
  <2> QED
    BY <1>17, <2>1, <2>2, Powers2Value, Zenon
<1>22. Value(word, 25, SubSeq(Powers2, 1, 6)) = tm.min
  <2>1. SentLowFirst(word, 25, 6, BitsOf(tm.min))
    BY <1>8, <1>15, Zenon DEF BPCSeparate
  <2>2. 25 \in Int /\ 6 \in 1 .. 7 /\ BitsOf(tm.min) \subseteq 0 .. 6 - 1
    BY <1>8
  <2> QED
    BY <1>16, <2>1, <2>2, Powers2Value, Zenon
<1>23. Value(word, 22, SubSeq(Powers2, 1, 3)) = ISOWeekday(tm)
  <2>1. SentLowFirst(word, 22, 3, BitsOf(ISOWeekday(tm)))
    BY <1>9, <1>15, Zenon DEF BPCSeparate
  <2>2. 22 \in Int /\ 3 \in 1 .. 7 /\ BitsOf(ISOWeekday(tm)) \subseteq 0 .. 3 - 1
    BY <1>9
  <2> QED
    BY <1>16, <2>1, <2>2, Powers2Value, Zenon
<1>24. Value(word, 17, SubSeq(Powers2, 1, 5)) = tm.mday
  <2>1. SentLowFirst(word, 17, 5, BitsOf(tm.mday))
    BY <1>10, <1>15, Zenon DEF BPCSeparate
  <2>2. 17 \in Int /\ 5 \in 1 .. 7 /\ BitsOf(tm.mday) \subseteq 0 .. 5 - 1
    BY <1>10
  <2> QED
    BY <1>16, <2>1, <2>2, Powers2Value, Zenon
<1>25. Value(word, 13, SubSeq(Powers2, 1, 4)) = tm.mon + 1
  <2>1. SentLowFirst(word, 13, 4, BitsOf(tm.mon + 1))
    BY <1>11, <1>15, Zenon DEF BPCSeparate
  <2>2. 13 \in Int /\ 4 \in 1 .. 7 /\ BitsOf(tm.mon + 1) \subseteq 0 .. 4 - 1
    BY <1>11
  <2> QED
    BY <1>16, <2>1, <2>2, Powers2Value, Zenon
<1>26. Value(word, 6, SubSeq(Powers2, 1, 7)) = tm.year % 100
  <2>1. SentLowFirst(word, 6, 7, BitsOf(tm.year % 100))
    BY <1>12, <1>15, Zenon DEF BPCSeparate
  <2>2. 6 \in Int /\ 7 \in 1 .. 7 /\ BitsOf(tm.year % 100) \subseteq 0 .. 7 - 1
    BY <1>12
  <2> QED
    BY <1>18, <2>1, <2>2, Powers2Value, Zenon
<1>27. DecodeBPC(window)
         = [frame |-> Value(word, 36, SubSeq(Powers2, 1, 2)),
            hour |-> (Value(word, 31, SubSeq(Powers2, 1, 4)) % 12)
                       + 12 * Value(word, 35, SubSeq(Powers2, 1, 1)),
            min |-> Value(word, 25, SubSeq(Powers2, 1, 6)),
            wday |-> Value(word, 22, SubSeq(Powers2, 1, 3)),
            mday |-> Value(word, 17, SubSeq(Powers2, 1, 5)),
            mon |-> Value(word, 13, SubSeq(Powers2, 1, 4)),
            year |-> Value(word, 6, SubSeq(Powers2, 1, 7))]
  BY <1>1, <1>15, <1>17, <1>21, Zenon DEF DecodeBPC, BPCBits, BPCBit, Powers2
<1> QED
  BY <1>17, <1>19, <1>20, <1>21, <1>22, <1>23, <1>24, <1>25, <1>26, <1>27, Zenon
     DEF BPCShows

-----------------------------------------------------------------------------
(* What a clock has heard: the seconds before the one that comes next, no more  *)
(* than a frame of them.                                                   *)
Levels == [power : {"OFF", "LOW", "HIGH"}, ticks : 0 .. 8]

(* Second s of minute t, as it is sent.                                      *)
SentAs(source, zone, p, s, t) ==
  p = GetModulationForSecond(source, PrepareMinute(source, zone, t), s)

(* The second that was the i-th of the last "count", before "next".            *)
Heard(i, next, count) == (next + i + 59 - count) % 60

(* The minute of a second, before second "next" of minute "now".              *)
SentIn(s, next, now) == IF s < next THEN now ELSE now - 1

(* The window of a clock at the beginning of second s of minute t.             *)
HeardUntil(source, zone, window, t, s) ==
  /\ window \in Seq(Seq(Levels))
  /\ Len(window) <= FrameLength(source)
  /\ \A i \in 1 .. Len(window) :
       SentAs(source, zone, window[i], Heard(i, s, Len(window)),
              SentIn(Heard(i, s, Len(window)), s, t))

(* It is as long as a frame, and one ends before second s.                    *)
IsWhole(source, window) == Len(window) = FrameLength(source)

EndsBefore(source, s) == s % FrameLength(source) = 0

(* The window when one more second has been heard.                           *)
Hearing(source, window, p) ==
  LET longer == Append(window, p)
  IN  IF Len(longer) > FrameLength(source) THEN Tail(longer) ELSE longer

LEMMA SecondsAreLevels ==
  ASSUME NEW source \in Stations, NEW s \in 0 .. 59, NEW p, IsSecond(source, s, p)
  PROVE  p \in Seq(Levels)
<1>1. \A w \in {"OFF", "LOW", "HIGH"}, n \in 0 .. 8 : Level(w, n) \in Levels
  BY DEF Level, Levels
<1> HIDE DEF Levels
<1>2. Level("HIGH", 0) \in Levels /\ <<Level("HIGH", 0)>> \in Seq(Levels)
  BY <1>1
<1>3. ASSUME NEW v \in {"OFF", "LOW", "HIGH"}, NEW w \in {"OFF", "LOW", "HIGH"},
             NEW n \in 0 .. 8
      PROVE  <<Level(v, n), Level(w, 0)>> \in Seq(Levels)
  <2>1. Level(v, n) \in Levels /\ Level(w, 0) \in Levels
    BY <1>1
  <2> QED
    BY <2>1
<1>4. \A w, x, y, z \in Levels : <<w, x, y, z>> \in Seq(Levels)
  OBVIOUS
<1>5. CASE source = "DCF77"
  <2>1. CASE s = 59
    BY <1>2, <1>5, <2>1 DEF IsSecond, IsDCF77Second
  <2>2. CASE s # 59
    <3>1. PICK n \in 0 .. 8 : p = <<Level("LOW", n), Level("HIGH", 0)>>
      BY <1>5, <2>2 DEF IsSecond, IsDCF77Second
    <3> QED
      BY <1>3, <3>1
  <2> QED
    BY <2>1, <2>2
<1>6. CASE source = "WWVB"
  <2>1. PICK n \in 0 .. 8 : p = <<Level("LOW", n), Level("HIGH", 0)>>
    BY <1>6 DEF IsSecond, IsWWVBSecond
  <2> QED
    BY <1>3, <2>1
<1>7. CASE source \in {"JJY40", "JJY60"}
  <2>1. PICK n \in 0 .. 8 : p = <<Level("HIGH", n), Level("LOW", 0)>>
    BY <1>7 DEF IsSecond, IsJJYSecond
  <2> QED
    BY <1>3, <2>1
<1>8. CASE source = "MSF"
  <2>1. CASE s = 0
    <3>1. p = <<Level("OFF", 5), Level("HIGH", 0)>>
      BY <1>8, <2>1 DEF IsSecond, IsMSFSecond
    <3> QED
      BY <1>3, <3>1
  <2>2. CASE s # 0
    <3>1. PICK a, b \in {"OFF", "HIGH"} :
            p = <<Level("OFF", 1), Level(a, 1), Level(b, 1), Level("HIGH", 0)>>
      BY <1>8, <2>2 DEF IsSecond, IsMSFSecond
    <3>2. /\ Level("OFF", 1) \in Levels /\ Level(a, 1) \in Levels
          /\ Level(b, 1) \in Levels /\ Level("HIGH", 0) \in Levels
      BY <1>1
    <3> QED
      BY <1>4, <3>1, <3>2
  <2> QED
    BY <2>1, <2>2
<1>9. CASE source = "BPC"
  <2>1. CASE s % 20 = 0
    BY <1>2, <1>9, <2>1 DEF IsSecond, IsBPCSecond
  <2>2. CASE s % 20 # 0
    <3>1. PICK n \in 0 .. 8 : p = <<Level("LOW", n), Level("HIGH", 0)>>
      BY <1>9, <2>2 DEF IsSecond, IsBPCSecond
    <3> QED
      BY <1>3, <3>1
  <2> QED
    BY <2>1, <2>2
<1> QED
  BY <1>5, <1>6, <1>7, <1>8, <1>9 DEF Stations

LEMMA SentIsASecond ==
  ASSUME NEW source \in Stations, NEW zone, NEW p, NEW s \in 0 .. 59, NEW t,
         SentAs(source, zone, p, s, t)
  PROVE  IsSecond(source, s, p) /\ p \in Seq(Levels)
<1>1. IsSecond(source, s, p)
  BY SourcesSendSeconds DEF SentAs
<1> QED
  BY <1>1, SecondsAreLevels

LEMMA HeardIsASecond ==
  ASSUME NEW i \in Int, NEW next \in Int, NEW count \in Int
  PROVE  Heard(i, next, count) \in 0 .. 59
BY DEF Heard

LEMMA LastHeard ==
  ASSUME NEW s \in 0 .. 59, NEW next, next = (s + 1) % 60, NEW k \in Nat
  PROVE  Heard(k, next, k) = s
<1>1. next = IF s = 59 THEN 0 ELSE s + 1
  OBVIOUS
<1>2. next \in Int /\ next + k + 59 - k = next + 59
  BY <1>1
<1>3. (next + 59) % 60 = s
  <2>1. CASE s = 59
    BY <1>1, <2>1
  <2>2. CASE s # 59
    <3>1. next + 59 = s + 60 /\ (s + 60) % 60 = s
      BY <1>1, <2>2
    <3> QED
      BY <3>1
  <2> QED
    BY <2>1, <2>2
<1> QED
  BY <1>2, <1>3 DEF Heard

LEMMA HeardBefore ==
  ASSUME NEW s \in 0 .. 59, NEW k \in 0 .. 60, NEW i \in 1 .. k
  PROVE  /\ k < 60 => Heard(i, s, k) # s
         /\ i > 1 => Heard(i, s, k) # s
<1>1. PICK d : d = i + 59 - k
  OBVIOUS
<1>2. /\ d \in 0 .. 59 /\ s + i + 59 - k = s + d
      /\ k < 60 => d > 0
      /\ i > 1 => d > 0
  BY <1>1
<1>3. (s + d) % 60 = IF s + d >= 60 THEN s + d - 60 ELSE s + d
  <2>1. CASE s + d >= 60
    <3>1. PICK e : e = s + d - 60
      OBVIOUS
    <3>2. e \in 0 .. 59 /\ s + d = e + 60
      BY <1>2, <2>1, <3>1
    <3> QED
      BY <1>2, <2>1, <3>1, <3>2
  <2>2. CASE s + d < 60
    BY <1>2, <2>2
  <2> QED
    BY <1>2, <2>1, <2>2
<1> QED
  BY <1>2, <1>3 DEF Heard

LEMMA LaterElements ==
  ASSUME NEW S, NEW s \in Seq(S), NEW k \in Nat, Len(s) = k + 1
  PROVE  /\ Len(Tail(s)) = k
         /\ \A i \in 1 .. k : Tail(s)[i] = s[i + 1]
OBVIOUS

(* The next second takes its place behind those heard, and the oldest leaves    *)
(* when there are more than a frame of them.                                *)
LEMMA HearsOn ==
  ASSUME NEW source \in Stations, NEW zone, NEW window, NEW t \in Int,
         NEW s \in 0 .. 59, HeardUntil(source, zone, window, t, s),
         NEW p, SentAs(source, zone, p, s, t),
         NEW next, next = (s + 1) % 60,
         NEW then, then = IF s = 59 THEN t + 1 ELSE t
  PROVE  HeardUntil(source, zone, Hearing(source, window, p), then, next)
<1> DEFINE longer == Append(window, p)
           heard == Hearing(source, window, p)
           SentBefore(w, i, h) == SentAs(source, zone, w[i], h, SentIn(h, next, then))
<1>1. PICK k : k = Len(window)
  OBVIOUS
<1>2. window \in Seq(Seq(Levels)) /\ k \in Nat
  BY <1>1 DEF HeardUntil
<1>3. PICK n : n = FrameLength(source)
  OBVIOUS
<1>4. n \in {20, 60} /\ k \in 0 .. 60 /\ k <= n
  <2>1. k <= n
    BY <1>1, <1>3 DEF HeardUntil
  <2>2. n \in {20, 60}
    BY <1>3 DEF FrameLength
  <2> QED
    BY <1>2, <2>1, <2>2
<1>5. next = (IF s = 59 THEN 0 ELSE s + 1) /\ next \in 0 .. 59
  OBVIOUS
<1>6. p \in Seq(Levels)
  BY SentIsASecond
<1>7. ASSUME NEW i \in 1 .. k, NEW h, h = Heard(i, s, k), h # s
      PROVE  SentBefore(window, i, h)
  <2>1. h \in 0 .. 59
    <3>1. i \in Int /\ s \in Int /\ k \in Int
      BY <1>4
    <3> QED
      BY <1>7, <3>1, HeardIsASecond
  <2>2. SentIn(h, s, t) = SentIn(h, next, then)
    BY <1>5, <1>7, <2>1 DEF SentIn
  <2>3. SentAs(source, zone, window[i], h, SentIn(h, s, t))
    BY <1>1, <1>7 DEF HeardUntil
  <2> QED
    BY <2>2, <2>3
<1>8. SentAs(source, zone, p, s, SentIn(s, next, then))
  <2>1. SentIn(s, next, then) = t
    BY <1>5 DEF SentIn
  <2> QED
    BY <2>1
<1>9. /\ Len(longer) = k + 1
      /\ \A i \in 1 .. k : longer[i] = window[i]
      /\ longer[k + 1] = p
      /\ longer \in Seq(Seq(Levels))
  BY <1>1, <1>2, <1>6
<1>10. heard = IF k + 1 > n THEN Tail(longer) ELSE longer
  BY <1>3, <1>9 DEF Hearing
<1> HIDE DEF longer, heard
<1>11. SUFFICES /\ heard \in Seq(Seq(Levels)) /\ Len(heard) <= n
                /\ \A i \in 1 .. Len(heard) : SentBefore(heard, i, Heard(i, next, Len(heard)))
  BY <1>3 DEF HeardUntil, heard
<1>12. CASE k + 1 <= n
  <2>1. heard = longer
    BY <1>4, <1>10, <1>12
  <2>2. ASSUME NEW i \in 1 .. k + 1, NEW h, h = Heard(i, next, k + 1)
        PROVE  SentBefore(longer, i, h)
    <3>1. CASE i \in 1 .. k
      <4>1. h = Heard(i, s, k)
        BY <1>4, <1>5, <2>2, <3>1 DEF Heard
      <4>2. h # s
        <5>1. k < 60
          BY <1>4, <1>12
        <5> QED
          BY <1>4, <3>1, <4>1, <5>1, HeardBefore
      <4> QED
        BY <1>7, <1>9, <3>1, <4>1, <4>2
    <3>2. CASE i = k + 1
      <4>1. h = s
        BY <1>4, <1>5, <2>2, <3>2 DEF Heard
      <4> QED
        BY <1>8, <1>9, <3>2, <4>1
    <3> QED
      BY <1>4, <3>1, <3>2
  <2>3. heard \in Seq(Seq(Levels)) /\ Len(heard) = k + 1
    BY <1>9, <2>1
  <2> HIDE DEF SentBefore
  <2>4. \A i \in 1 .. Len(heard) : SentBefore(heard, i, Heard(i, next, Len(heard)))
    BY <2>1, <2>2, <2>3, Zenon
  <2> QED
    BY <1>12, <2>3, <2>4
<1>13. CASE k + 1 > n
  <2>1. heard = Tail(longer) /\ k = n
    BY <1>4, <1>10, <1>13
  <2>2. /\ Len(heard) = k
        /\ \A i \in 1 .. k : heard[i] = longer[i + 1]
    BY <1>2, <1>9, <2>1, LaterElements
  <2>3. heard \in Seq(Seq(Levels))
    BY <1>2, <1>9, <2>1
  <2>4. ASSUME NEW i \in 1 .. k, NEW h, h = Heard(i, next, k)
        PROVE  SentBefore(heard, i, h)
    <3>1. CASE i + 1 \in 1 .. k
      <4>1. h = Heard(i + 1, s, k)
        BY <1>4, <1>5, <2>4, <3>1 DEF Heard
      <4>2. h # s
        <5>1. i + 1 > 1
          BY <3>1
        <5> QED
          BY <1>4, <3>1, <4>1, <5>1, HeardBefore
      <4>3. heard[i] = window[i + 1]
        BY <1>9, <2>2, <3>1
      <4> QED
        BY <1>7, <3>1, <4>1, <4>2, <4>3
    <3>2. CASE i = k
      <4>1. h = s
        BY <1>4, <2>4, <3>2, LastHeard
      <4>2. heard[i] = p
        BY <1>9, <2>2, <3>2
      <4> QED
        BY <1>8, <4>1, <4>2
    <3> QED
      BY <1>4, <3>1, <3>2
  <2> HIDE DEF SentBefore
  <2>5. \A i \in 1 .. Len(heard) : SentBefore(heard, i, Heard(i, next, Len(heard)))
    BY <2>2, <2>4, Zenon
  <2>6. Len(heard) <= n
    BY <1>4, <2>1, <2>2
  <2> QED
    BY <2>3, <2>5, <2>6
<1> QED
  BY <1>12, <1>13, <1>4

LEMMA NothingHeard ==
  ASSUME NEW source, NEW zone, NEW t, NEW s
  PROVE  HeardUntil(source, zone, <<>>, t, s)
<1>1. <<>> \in Seq(Seq(Levels)) /\ Len(<<>>) = 0 /\ FrameLength(source) \in {20, 60}
  BY DEF FrameLength
<1> QED
  BY <1>1 DEF HeardUntil

(* Every second of a window is one of the station.                           *)
LEMMA HeardSecond ==
  ASSUME NEW source \in Stations, NEW zone, NEW window, NEW t, NEW s \in 0 .. 59,
         HeardUntil(source, zone, window, t, s), NEW i \in 1 .. Len(window)
  PROVE  /\ Heard(i, s, Len(window)) \in 0 .. 59
         /\ IsSecond(source, Heard(i, s, Len(window)), window[i])
<1>1. PICK k : k = Len(window)
  OBVIOUS
<1>2. k \in Nat
  BY <1>1 DEF HeardUntil
<1>3. Heard(i, s, k) \in 0 .. 59
  <2>1. i \in Int /\ s \in Int /\ k \in Int
    BY <1>1, <1>2
  <2> QED
    BY <2>1, HeardIsASecond, Zenon
<1>4. PICK h \in 0 .. 59 : h = Heard(i, s, k)
  BY <1>3
<1>5. SentAs(source, zone, window[i], h, SentIn(h, s, t))
  BY <1>1, <1>4 DEF HeardUntil
<1>6. IsSecond(source, h, window[i])
  BY <1>5, SentIsASecond
<1> QED
  BY <1>1, <1>3, <1>4, <1>6
-----------------------------------------------------------------------------
(* How the first and the last second of a window look.                       *)
LEMMA LooksOfSeconds ==
  ASSUME NEW source \in Stations, NEW s \in 0 .. 59, NEW p, IsSecond(source, s, p)
  PROVE  /\ source = "DCF77" => (Unreduced(p) <=> s = 59)
         /\ source = "BPC" => (Unreduced(p) <=> s % 20 = 0)
         /\ source = "MSF" => (p[1].ticks = 5 <=> s = 0)
         /\ source = "WWVB" => (p[1].ticks = 8 <=> Marked(s))
         /\ source \in {"JJY40", "JJY60"} => (p[1].ticks = 2 <=> Marked(s))
<1>1. p = <<Level("HIGH", 0)>> => Unreduced(p)
  BY DEF Unreduced, Level
<1>2. ASSUME NEW one, NEW n, NEW other, p = <<Level(one, n), other>>
      PROVE  p[1].ticks = n /\ ~Unreduced(p)
  BY <1>2 DEF Unreduced, Level
<1>3. source = "DCF77" => (Unreduced(p) <=> s = 59)
  BY <1>1, <1>2 DEF IsSecond, IsDCF77Second
<1>4. source = "BPC" => (Unreduced(p) <=> s % 20 = 0)
  BY <1>1, <1>2 DEF IsSecond, IsBPCSecond
<1>5. ASSUME source = "MSF" PROVE p[1].ticks = 5 <=> s = 0
  <2>1. CASE s = 0
    BY <1>2, <1>5, <2>1 DEF IsSecond, IsMSFSecond
  <2>2. CASE s # 0
    <3>1. PICK a, b :
            p = <<Level("OFF", 1), Level(a, 1), Level(b, 1), Level("HIGH", 0)>>
      BY <1>5, <2>2 DEF IsSecond, IsMSFSecond
    <3> QED
      BY <2>2, <3>1 DEF Level
  <2> QED
    BY <2>1, <2>2
<1>6. ASSUME source = "WWVB" PROVE p[1].ticks = 8 <=> Marked(s)
  <2>1. PICK n \in IF Marked(s) THEN {8} ELSE {2, 5} :
          p = <<Level("LOW", n), Level("HIGH", 0)>>
    BY <1>6 DEF IsSecond, IsWWVBSecond
  <2> QED
    BY <1>2, <2>1
<1>7. ASSUME source \in {"JJY40", "JJY60"} PROVE p[1].ticks = 2 <=> Marked(s)
  <2>1. PICK n \in IF Marked(s) THEN {2} ELSE {5, 8} :
          p = <<Level("HIGH", n), Level("LOW", 0)>>
    BY <1>7 DEF IsSecond, IsJJYSecond
  <2> QED
    BY <1>2, <2>1
<1> QED
  BY <1>3, <1>4, <1>5, <1>6, <1>7

(* Two marks in a row are the end of one minute and the start of the next.     *)
LEMMA MarksMeet ==
  ASSUME NEW s \in 0 .. 59
  PROVE  Marked(s) /\ Marked((s + 59) % 60) <=> s = 0
<1>1. (s + 59) % 60 = IF s = 0 THEN 59 ELSE s - 1
  <2>1. CASE s = 0
    BY <2>1
  <2>2. CASE s # 0
    <3>1. s + 59 = (s - 1) + 60
      OBVIOUS
    <3> QED
      BY <2>2, <3>1
  <2> QED
    BY <2>1, <2>2
<1> QED
  BY <1>1 DEF Marked

(* A window looks like a frame exactly when it is one.                        *)
LEMMA FrameEndsInTime ==
  ASSUME NEW source \in Stations, NEW zone, NEW window, NEW t, NEW s \in 0 .. 59,
         HeardUntil(source, zone, window, t, s), IsWhole(source, window)
  PROVE  FrameEnds(source, window) <=> EndsBefore(source, s)
<1> DEFINE k == Len(window)
           f == window[1]
           l == window[k]
<1>1. k = FrameLength(source) /\ k = IF source = "BPC" THEN 20 ELSE 60
  BY DEF FrameLength, IsWhole
<1>2. /\ IsSecond(source, Heard(1, s, k), f)
      /\ IsSecond(source, Heard(k, s, k), l)
  <2>1. 1 \in 1 .. k /\ k \in 1 .. k
    BY <1>1
  <2> QED
    BY <2>1, HeardSecond
<1>3. /\ Heard(1, s, k) = IF source = "BPC" THEN (s + 40) % 60 ELSE s
      /\ Heard(k, s, k) = (s + 59) % 60
  BY <1>1 DEF Heard
<1> HIDE DEF k, f, l
<1>4. (s + 59) % 60 \in 0 .. 59
  BY <1>1
<1>5. CASE source = "DCF77"
  <2>1. Unreduced(l) <=> (s + 59) % 60 = 59
    BY <1>1, <1>2, <1>3, <1>5, LooksOfSeconds
  <2>2. (s + 59) % 60 = 59 <=> s % 60 = 0
    BY <1>1
  <2>3. FrameEnds(source, window) <=> Unreduced(l)
    BY <1>5 DEF FrameEnds, l, k
  <2> QED
    BY <1>1, <1>5, <2>1, <2>2, <2>3 DEF EndsBefore
<1>6. CASE source = "BPC"
  <2>1. Unreduced(f) <=> ((s + 40) % 60) % 20 = 0
    BY <1>1, <1>2, <1>3, <1>6, LooksOfSeconds
  <2>2. ((s + 40) % 60) % 20 = s % 20
    BY <1>1
  <2>3. FrameEnds(source, window) <=> Unreduced(f)
    BY <1>6 DEF FrameEnds, f
  <2> QED
    BY <1>1, <1>6, <2>1, <2>2, <2>3 DEF EndsBefore
<1>7. CASE source = "MSF"
  <2>1. f[1].ticks = 5 <=> s = 0
    BY <1>1, <1>2, <1>3, <1>7, LooksOfSeconds
  <2>2. FrameEnds(source, window) <=> f[1].ticks = 5
    BY <1>7 DEF FrameEnds, f
  <2> QED
    BY <1>1, <1>7, <2>1, <2>2 DEF EndsBefore
<1>8. CASE source = "WWVB"
  <2>1. /\ f[1].ticks = 8 <=> Marked(s)
        /\ l[1].ticks = 8 <=> Marked((s + 59) % 60)
    BY <1>1, <1>2, <1>3, <1>4, <1>8, LooksOfSeconds
  <2>2. FrameEnds(source, window) <=> f[1].ticks = 8 /\ l[1].ticks = 8
    BY <1>8 DEF FrameEnds, f, l, k
  <2> QED
    BY <1>1, <1>8, <2>1, <2>2, MarksMeet DEF EndsBefore
<1>9. CASE source \in {"JJY40", "JJY60"}
  <2>1. /\ f[1].ticks = 2 <=> Marked(s)
        /\ l[1].ticks = 2 <=> Marked((s + 59) % 60)
    BY <1>1, <1>2, <1>3, <1>4, <1>9, LooksOfSeconds
  <2>2. FrameEnds(source, window) <=> f[1].ticks = 2 /\ l[1].ticks = 2
    BY <1>9 DEF FrameEnds, f, l, k
  <2> QED
    BY <1>1, <1>9, <2>1, <2>2, MarksMeet DEF EndsBefore
<1> QED
  BY <1>1, <1>5, <1>6, <1>7, <1>8, <1>9 DEF Stations
-----------------------------------------------------------------------------
LEMMA BPCSendsBlock ==
  ASSUME NEW zone, NEW t, NEW b \in 0 .. 2, NEW p \in 1 .. 19
  PROVE  BPCModulation(BPCPrepareMinute(zone, t), 20 * b + p)[1].ticks
           = BPCSymbol(EncodeBlock(localtime(zone, t), b), p) + 1
<1>1. PICK s : s = 20 * b + p
  OBVIOUS
<1>2. s \in 0 .. 59 /\ s % 60 = s /\ s \div 20 = b /\ s % 20 = p /\ p # 0
  BY <1>1
<1>3. PICK block : block = EncodeBlock(localtime(zone, t), b)
  OBVIOUS
<1>4. PICK x : x = BPCSymbol(block, p)
  OBVIOUS
<1>5. BPCPrepareMinute(zone, t)[s] = x
  <2>1. PICK blocks : blocks = [i \in 0 .. 2 |-> EncodeBlock(localtime(zone, t), i)]
    OBVIOUS
  <2>2. blocks[s \div 20] = block
    BY <1>2, <1>3, <2>1
  <2>3. BPCPrepareMinute(zone, t)[s]
          = IF s % 20 = 0 THEN Marker
            ELSE (IF 2 * (19 - (s % 20)) + 1 \in blocks[s \div 20] THEN 2 ELSE 0)
                   + (IF 2 * (19 - (s % 20)) \in blocks[s \div 20] THEN 1 ELSE 0)
    BY <1>2, <2>1 DEF BPCPrepareMinute
  <2> QED
    BY <1>2, <1>4, <2>2, <2>3 DEF BPCSymbol
<1>6. x \in 0 .. 3
  BY <1>4 DEF BPCSymbol
<1>7. BPCModulation(BPCPrepareMinute(zone, t), s) = <<Level("LOW", x + 1), Level("HIGH", 0)>>
  BY <1>2, <1>5, <1>6 DEF BPCModulation, Marker
<1> QED
  BY <1>1, <1>3, <1>4, <1>7 DEF Level

(* The minute in which the frame that ends before second s was sent, and its     *)
(* third of the minute at BPC.                                              *)
FrameSent(t, s) == IF s = 0 THEN t - 1 ELSE t

BlockSent(s) == ((s + 40) % 60) \div 20

LEMMA HeardFrame ==
  ASSUME NEW source \in Stations, NEW zone, NEW window, NEW t \in Nat, NEW s \in 0 .. 59,
         HeardUntil(source, zone, window, t, s), IsWhole(source, window),
         EndsBefore(source, s),
         NEW sent, sent = FrameSent(t, s)
  PROVE  /\ source # "BPC" =>
              /\ s = 0
              /\ \A i \in 0 .. 59 : SentAs(source, zone, window[i + 1], i, sent)
         /\ source = "BPC" =>
              /\ BlockSent(s) \in 0 .. 2
              /\ \A i \in 1 .. 19 :
                   SentAs(source, zone, window[i + 1], 20 * BlockSent(s) + i, sent)
<1>1. PICK k : k = Len(window)
  OBVIOUS
<1>2. k = IF source = "BPC" THEN 20 ELSE 60
  BY <1>1 DEF FrameLength, IsWhole
<1>3. s % k = 0
  BY <1>2 DEF FrameLength, EndsBefore
<1>4. ASSUME NEW i \in 1 .. k
      PROVE  SentAs(source, zone, window[i], Heard(i, s, k), SentIn(Heard(i, s, k), s, t))
  BY <1>1, <1>4 DEF HeardUntil
<1>5. ASSUME source # "BPC"
      PROVE  s = 0 /\ \A i \in 0 .. 59 : SentAs(source, zone, window[i + 1], i, sent)
  <2>1. k = 60 /\ s = 0
    BY <1>2, <1>3, <1>5
  <2>2. ASSUME NEW i \in 0 .. 59 PROVE SentAs(source, zone, window[i + 1], i, sent)
    <3>1. i + 1 \in 1 .. k /\ Heard(i + 1, s, k) = i
      BY <2>1 DEF Heard
    <3>2. SentIn(i, s, t) = sent
      BY <2>1 DEF SentIn, FrameSent
    <3> QED
      BY <1>4, <3>1, <3>2
  <2> QED
    BY <2>1, <2>2
<1>6. ASSUME source = "BPC"
      PROVE  /\ BlockSent(s) \in 0 .. 2
             /\ \A i \in 1 .. 19 :
                  SentAs(source, zone, window[i + 1], 20 * BlockSent(s) + i, sent)
  <2>1. k = 20 /\ s \in {0, 20, 40}
    BY <1>2, <1>3, <1>6
  <2>2. PICK b : b = BlockSent(s)
    OBVIOUS
  <2>3. /\ b = IF s = 0 THEN 2 ELSE IF s = 20 THEN 0 ELSE 1
        /\ b \in 0 .. 2
    BY <2>1, <2>2 DEF BlockSent
  <2>4. ASSUME NEW i \in 1 .. 19 PROVE SentAs(source, zone, window[i + 1], 20 * b + i, sent)
    <3>1. i + 1 \in 1 .. k /\ Heard(i + 1, s, k) = 20 * b + i
      BY <2>1, <2>3 DEF Heard
    <3>2. SentIn(20 * b + i, s, t) = sent
      BY <2>1, <2>3 DEF SentIn, FrameSent
    <3> QED
      BY <1>4, <3>1, <3>2
  <2> QED
    BY <2>2, <2>3, <2>4
<1> QED
  BY <1>5, <1>6

(* What a clock should show, station by station.                             *)
Shows(source, zone, now, sent, block) ==
  CASE source = "DCF77" -> DCF77Shows(localtime(zone, now))
    [] source = "MSF" -> MSFShows(localtime(zone, now))
    [] source = "WWVB" ->
         WWVBShows(gmtime(sent), localtime(zone, sent), localtime(zone, sent + 1440))
    [] source \in {"JJY40", "JJY60"} -> JJYShows(localtime(zone, sent))
    [] source = "BPC" -> BPCShows(localtime(zone, sent), block)

LEMMA TimeToShow ==
  ASSUME NEW source \in Stations, NEW zone, NEW t, NEW s
  PROVE  TimeMeant(source, zone, t, s)
           = Shows(source, zone, t, FrameSent(t, s), BlockSent(s))
<1>1. TimeMeant(source, zone, t, s)
        = Meaning(source, BlockSent(s), localtime(zone, t), localtime(zone, FrameSent(t, s)),
                  gmtime(FrameSent(t, s)), localtime(zone, FrameSent(t, s) + 1440))
  BY Zenon DEF TimeMeant, FrameSent, BlockSent
<1>2. ASSUME NEW block, NEW now, NEW sent
      PROVE  Meaning(source, block, localtime(zone, now), localtime(zone, sent),
                     gmtime(sent), localtime(zone, sent + 1440))
               = Shows(source, zone, now, sent, block)
  <2>1. CASE source = "DCF77"
    BY <2>1 DEF Meaning, Shows, DCF77Shows
  <2>2. CASE source = "MSF"
    BY <2>2 DEF Meaning, Shows, MSFShows
  <2>3. CASE source = "WWVB"
    BY <2>3 DEF Meaning, Shows, WWVBShows
  <2>4. CASE source \in {"JJY40", "JJY60"}
    BY <2>4 DEF Meaning, Shows, JJYShows
  <2>5. CASE source = "BPC"
    BY <2>5 DEF Meaning, Shows, BPCShows
  <2> QED
    BY <2>1, <2>2, <2>3, <2>4, <2>5 DEF Stations
<1> QED
  BY <1>1, <1>2

(***************************************************************************)
(* A clock that has heard a whole frame of any station, from whatever second    *)
(* of whatever minute and in whatever zone, shows the time its station means:   *)
(* every bit of every field, parity and flag of the five time codes           *)
(* (src/dcf77-source.cc, wwvb-source.cc, jjy-source.cc, msf-source.cc,         *)
(* bpc-source.cc).                                                         *)
(***************************************************************************)
THEOREM FrameShowsTheTime ==
  ASSUME NEW source \in Stations, NEW zone \in Zones, NEW window, NEW t \in Nat,
         t >= 1440, NEW s \in 0 .. 59,
         HeardUntil(source, zone, window, t, s), IsWhole(source, window),
         EndsBefore(source, s)
  PROVE  Decode(source, window) = TimeMeant(source, zone, t, s)
<1>1. PICK sent : sent = FrameSent(t, s)
  OBVIOUS
<1>2. PICK block : block = BlockSent(s)
  OBVIOUS
<1>3. /\ source # "BPC" =>
           s = 0 /\ \A i \in 0 .. 59 : SentAs(source, zone, window[i + 1], i, sent)
      /\ source = "BPC" =>
           /\ block \in 0 .. 2
           /\ \A i \in 1 .. 19 : SentAs(source, zone, window[i + 1], 20 * block + i, sent)
  BY <1>1, <1>2, HeardFrame
<1>4. /\ sent \in Nat /\ sent >= 1439
      /\ sent + 1440 \in Nat /\ sent + 1440 >= 1439
      /\ s = 0 => sent + 1 = t
  BY <1>1 DEF FrameSent
<1>5. /\ localtime(zone, t) \in StructTm /\ localtime(zone, sent) \in StructTm
      /\ localtime(zone, sent + 1440) \in StructTm /\ gmtime(sent) \in StructTm
  BY <1>4, localtimeIsATime, gmtimeIsATime
<1>6. ASSUME source = "DCF77"
      PROVE  DecodeDCF77(window) = DCF77Shows(localtime(zone, t))
  <2>1. PrepareMinute("DCF77", zone, sent)
          = DCF77Parity(DCF77Data(localtime(zone, t)))
    <3>1. sent + 1 = t
      BY <1>3, <1>4, <1>6
    <3> QED
      BY <3>1 DEF PrepareMinute, DCF77PrepareMinute
  <2>2. ASSUME NEW i \in 0 .. 59
        PROVE  window[i + 1]
                 = DCF77Modulation(DCF77Parity(DCF77Data(localtime(zone, t))), i)
    BY <1>3, <1>6, <2>1 DEF SentAs, GetModulationForSecond
  <2> QED
    BY <1>5, <2>2, DCF77Decodes
<1>7. ASSUME source = "MSF"
      PROVE  DecodeMSF(window) = MSFShows(localtime(zone, t))
  <2>1. PICK tm \in StructTm : tm = localtime(zone, t)
    BY <1>5
  <2>2. PrepareMinute("MSF", zone, sent)
          = [a |-> MSFABits(tm), b |-> MSFBBits(MSFABits(tm), tm.isdst)]
    <3>1. sent + 1 = t
      BY <1>3, <1>4, <1>7
    <3> QED
      BY <2>1, <3>1 DEF PrepareMinute, MSFPrepareMinute
  <2>3. ASSUME NEW i \in 0 .. 59
        PROVE  window[i + 1]
                 = MSFModulation([a |-> MSFABits(tm),
                                  b |-> MSFBBits(MSFABits(tm), tm.isdst)], i)
    BY <1>3, <1>7, <2>2 DEF SentAs, GetModulationForSecond
  <2> QED
    BY <2>1, <2>3, MSFDecodes
<1>8. ASSUME source = "WWVB"
      PROVE  DecodeWWVB(window)
               = WWVBShows(gmtime(sent), localtime(zone, sent), localtime(zone, sent + 1440))
  <2>1. PrepareMinute("WWVB", zone, sent)
          = WWVBTimeBits(gmtime(sent), localtime(zone, sent), localtime(zone, sent + 1440))
    BY DEF PrepareMinute, WWVBPrepareMinute
  <2>2. ASSUME NEW i \in 0 .. 59
        PROVE  window[i + 1]
                 = WWVBModulation(WWVBTimeBits(gmtime(sent), localtime(zone, sent),
                                               localtime(zone, sent + 1440)), i)
    BY <1>3, <1>8, <2>1 DEF SentAs, GetModulationForSecond
  <2> QED
    BY <1>5, <2>2, WWVBDecodes
<1>9. ASSUME source \in {"JJY40", "JJY60"}
      PROVE  DecodeJJY(window) = JJYShows(localtime(zone, sent))
  <2>1. PrepareMinute(source, zone, sent) = JJYParity(JJYData(localtime(zone, sent)))
    BY <1>9 DEF PrepareMinute, JJYPrepareMinute
  <2>2. ASSUME NEW i \in 0 .. 59
        PROVE  window[i + 1] = JJYModulation(JJYParity(JJYData(localtime(zone, sent))), i)
    BY <1>3, <1>9, <2>1 DEF SentAs, GetModulationForSecond
  <2> QED
    BY <1>5, <2>2, JJYDecodes
<1>10. ASSUME source = "BPC"
       PROVE  DecodeBPC(window) = BPCShows(localtime(zone, sent), block)
  <2>1. block \in 0 .. 2
    BY <1>3, <1>10
  <2>2. SendsBlock(window, EncodeBlock(localtime(zone, sent), block))
    <3>1. ASSUME NEW i \in 1 .. 19
          PROVE  window[i + 1][1].ticks
                   = BPCSymbol(EncodeBlock(localtime(zone, sent), block), i) + 1
      <4>1. window[i + 1] = BPCModulation(BPCPrepareMinute(zone, sent), 20 * block + i)
        BY <1>3, <1>10 DEF SentAs, GetModulationForSecond, PrepareMinute
      <4> QED
        BY <2>1, <4>1, BPCSendsBlock
    <3> QED
      BY <3>1 DEF SendsBlock
  <2> QED
    BY <1>5, <2>1, <2>2, BPCDecodes
<1>11. Decode(source, window) = Shows(source, zone, t, sent, block)
  <2>1. CASE source = "DCF77"
    BY <1>6, <2>1 DEF Decode, Shows
  <2>2. CASE source = "MSF"
    BY <1>7, <2>2 DEF Decode, Shows
  <2>3. CASE source = "WWVB"
    BY <1>8, <2>3 DEF Decode, Shows
  <2>4. CASE source \in {"JJY40", "JJY60"}
    BY <1>9, <2>4 DEF Decode, Shows
  <2>5. CASE source = "BPC"
    BY <1>10, <2>5 DEF Decode, Shows
  <2> QED
    BY <2>1, <2>2, <2>3, <2>4, <2>5 DEF Stations
<1> QED
  BY <1>1, <1>2, <1>11, TimeToShow

=============================================================================
