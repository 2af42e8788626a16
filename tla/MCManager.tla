------------------------------ MODULE MCManager ------------------------------
(* Instances of Manager for TLC: which clients come, and how many.         *)
EXTENDS Manager

(* Digits: the script's short connections and a microcontroller.           *)
Digital == [clients  |-> [mcu |-> 2, gsm02 |-> 0, script |-> 2],
            messages |-> [mcu |-> 0, gsm02 |-> 0, script |-> 2],
            reset    |-> {"mcu"}]

(* Messages: a microcontroller that reports its LED and a radio, which may *)
(* vanish.                                                                 *)
Reporting == [clients  |-> [mcu |-> 1, gsm02 |-> 2, script |-> 0],
              messages |-> [mcu |-> 2, gsm02 |-> 1, script |-> 0],
              reset    |-> {"gsm02"}]

Both == {Digital, Reporting}
=============================================================================
