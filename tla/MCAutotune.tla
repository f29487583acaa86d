------------------------------ MODULE MCAutotune ------------------------------
(* A search over two gains, a few doublings wide, for TLC. *)
EXTENDS Autotune

TwoNames == <<"p", "d">>
TwoGains == [n \in Gain |-> IF n = "p" THEN 2 ELSE 1]

Argument(want, keep, calibrate, hold, modern) ==
    [want |-> want, keepRamp |-> keep, keepSource |-> keep, calibrate |-> calibrate,
     hold |-> hold, modern |-> modern]

SomeArguments ==
    {Argument("pd2i", FALSE, TRUE, FALSE, TRUE), Argument("keep", FALSE, FALSE, TRUE, FALSE),
     Argument("pd2i", TRUE, FALSE, FALSE, FALSE)}
=============================================================================
