----------------------------- MODULE MCGptpServo -----------------------------
(***************************************************************************)
(* An instance of GptpServo for TLC: words of eight bits and a second of    *)
(* fifty nanoseconds, in proportion to words of 32 and a second of 10^9.    *)
(***************************************************************************)
EXTENDS GptpServo

Time(upper, lower, ns) == [upper |-> upper, lower |-> lower, ns |-> ns]

(* The last second before the lower word wraps and the first after, one     *)
(* clock that read its byte-swapped seconds as nanoseconds and one with     *)
(* something left in its upper word.                                        *)
Received == { Time(0, 255, 49), Time(1, 0, 0), Time(1, 0, 12), Time(1, 0, -120), Time(-3, 0, 7) }
Sent     == { Time(0, 255, 41), Time(1, 0, 1) }

SomeNominals    == { 75 }
SomeCorrections == { 9 }
SomeRatios      == { 255 }

(* Exchanges while the seconds of this system wrap, one with a neighbour    *)
(* whose clock was set back in between.                                     *)
Answered(reqTx, reqRx, respTx, respRx) ==
  [reqTx |-> reqTx, reqRx |-> reqRx, respTx |-> respTx, respRx |-> respRx]

SomeExchanges ==
  { Answered(Time(0, 255, 45), Time(0, 8, 47),  Time(0, 9, 2),  Time(1, 0, 4)),
    Answered(Time(1, 1, 12),   Time(0, 10, 16), Time(0, 10, 17), Time(1, 1, 31)),
    Answered(Time(1, 2, 3),    Time(0, 2, 40),  Time(0, 3, 0),  Time(1, 2, 9)) }

=============================================================================
