--------------------------- MODULE MCTxtempusLate ---------------------------
(***************************************************************************)
(* One transmitter that may be kept from running for any time, under a      *)
(* clock that may be set back or forward once: minutes of two seconds of    *)
(* four ticks.                                                             *)
(***************************************************************************)
EXTENDS TxProperties

CONSTANT p1

L(power, ticks) == [power |-> power, ticks |-> ticks]

(* "dcf": LOW, then HIGH, none in the last second; "msf": OFF, a bit, HIGH. *)
MCModulation(source, minute, second) ==
  CASE source = "dcf" ->
         IF second = 1 THEN <<L("HIGH", 0)>>
         ELSE <<L("LOW", 1 + (minute % 2)), L("HIGH", 0)>>
    [] source = "msf" ->
         <<L("OFF", 1), L(IF second = 0 THEN "OFF" ELSE "HIGH", 1), L("HIGH", 0)>>

MCCarrierOf(source) == IF source = "dcf" THEN 155 ELSE 120

MCProc    == {p1}
MCCarrier == {155, 120}

(* What a killed DCF77 transmitter leaves behind.                          *)
MCLeftBehind ==
  { [ctl |-> {"ENAB", "HDMI"}, div |-> Setting(155).div, busy |-> TRUE,
     fsel4 |-> ALT0, fsel17 |-> OUTPUT, latch17 |-> FALSE] }

JobOf(source, ttl, dry) ==
  [source |-> source, ttl |-> ttl, offset |-> 0, dry |-> dry]

MCJob == {JobOf("dcf", 1, FALSE), JobOf("msf", Forever, FALSE),
          JobOf("dcf", 0, FALSE), JobOf("msf", 1, TRUE)}

EitherSteps == {-5, 6}

=============================================================================
