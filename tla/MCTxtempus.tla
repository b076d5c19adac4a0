----------------------------- MODULE MCTxtempus -----------------------------
(***************************************************************************)
(* One transmitter in minutes of three seconds of ten ticks, with patterns  *)
(* of the shapes the sources have: "dcf" (LOW 1 or 2, then HIGH; none in    *)
(* the last second), "jjy" (HIGH, then LOW) and "msf" (on-off keying with   *)
(* two bits in a second).                                                  *)
(***************************************************************************)
EXTENDS TxProperties

CONSTANT p1

L(power, ticks) == [power |-> power, ticks |-> ticks]

Bit(minute, second) == (minute + second) % 2 = 0

MCModulation(source, minute, second) ==
  LET bit == Bit(minute, second)
  IN CASE source = "dcf" ->
            IF second = SecondsPerMinute - 1 THEN <<L("HIGH", 0)>>
            ELSE <<L("LOW", IF bit THEN 2 ELSE 1), L("HIGH", 0)>>
       [] source = "jjy" ->
            <<L("HIGH", IF second = 0 THEN 2 ELSE IF bit THEN 5 ELSE 8),
              L("LOW", 0)>>
       [] source = "msf" ->
            IF second = 0 THEN <<L("OFF", 5), L("HIGH", 0)>>
            ELSE <<L("OFF", 1), L(IF bit THEN "OFF" ELSE "HIGH", 1),
                   L(IF second = 2 THEN "OFF" ELSE "HIGH", 1), L("HIGH", 0)>>

MCCarrierOf(source) ==
  CASE source = "dcf" -> 155 [] source = "jjy" -> 80 [] source = "msf" -> 120

MCProc         == {p1}
MCCarrier      == {155, 120, 80}

(* A machine fresh from boot, what a DCF77 transmitter leaves behind that    *)
(* was killed while it keyed LOW, and pins some other program has used.     *)
MCLeftBehind ==
  { [ctl |-> {}, div |-> <<0, 0>>, busy |-> FALSE,
     fsel4 |-> INPUT, fsel17 |-> INPUT, latch17 |-> FALSE],
    [ctl |-> {"ENAB", "HDMI"}, div |-> Setting(155).div, busy |-> TRUE,
     fsel4 |-> ALT0, fsel17 |-> OUTPUT, latch17 |-> FALSE],
    [ctl |-> {"OSC"}, div |-> <<0, 0>>, busy |-> FALSE,
     fsel4 |-> OUTPUT, fsel17 |-> OUTPUT, latch17 |-> TRUE] }

JobOf(source, ttl, offset, dry) ==
  [source |-> source, ttl |-> ttl, offset |-> offset, dry |-> dry]

MCJob == {JobOf(s, t, 1, FALSE) : s \in {"dcf", "jjy", "msf"}, t \in {0, 2, Forever}}
           \cup {JobOf("dcf", 1, 0, TRUE)}

ForwardSteps == {7, 31}

=============================================================================
