------------------------------- MODULE MCMeter -------------------------------
(* An instance of Meter for TLC: timeouts in the order of the real ones.   *)
EXTENDS Meter

Timeouts == <<1, 1, 2, 3, 3>>
=============================================================================
