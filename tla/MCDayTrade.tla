------------------------------ MODULE MCDayTrade ------------------------------
(* An instance of DayTrade for TLC.                                         *)
EXTENDS DayTrade

Prices == {0, 1, 3}
=============================================================================
