------------------------------- MODULE MCBoard -------------------------------
(* Instances of Board for TLC: how often uip_connect is called and, with   *)
(* that, how many messages the manager writes on the first connection and  *)
(* which connections it answers.                                           *)
EXTENDS Board

Load(c, n) ==
    [calls |-> c, messages |-> [p \in Call |-> IF p = 1 THEN n ELSE 0],
     answered |-> Call]

Answered(c, ps) == [Load(c, 0) EXCEPT !.answered = ps]

Talk  == {Load(2, 2)}
Brief == {Load(3, 1)}

(* Three messages; a third connection; a call that fails because two are   *)
(* closing; ports that come round, so that connection 4 has the port of 1. *)
Mixed == {Load(2, 3), Load(3, 1), Answered(4, {1, 2}), Answered(5, {1, 4})}
=============================================================================
