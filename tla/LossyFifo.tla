------------------------------ MODULE LossyFifo ------------------------------
(***************************************************************************)
(* What the telephony manager promises about the DTMF digits it forwards   *)
(* to the microcontroller and about the short messages it forwards to the  *)
(* radio: they leave in the order in which they were accepted, none twice, *)
(* and any of them may be lost (the peer can be gone when it is written).  *)
(* Items are named by the order in which they were accepted.               *)
(***************************************************************************)
EXTENDS Naturals, Sequences

VARIABLES accepted,   \* how many items were accepted so far
          waiting,    \* accepted and neither forwarded nor lost
          forwarded   \* the items handed to a peer that was there to read them

fifoVars == <<accepted, waiting, forwarded>>

Init == /\ accepted = 0
        /\ waiting = <<>>
        /\ forwarded = <<>>

Accept == /\ accepted' = accepted + 1
          /\ waiting' = Append(waiting, accepted + 1)
          /\ UNCHANGED forwarded

Forward == /\ waiting # <<>>
           /\ waiting' = Tail(waiting)
           /\ forwarded' = Append(forwarded, Head(waiting))
           /\ UNCHANGED accepted

Lose == /\ waiting # <<>>
        /\ waiting' = Tail(waiting)
        /\ UNCHANGED <<accepted, forwarded>>

Next == Accept \/ Forward \/ Lose

Spec == Init /\ [][Next]_fifoVars

-----------------------------------------------------------------------------
(* Strictly increasing sequences of item numbers. *)
Ascending(s) == \A i, j \in 1 .. Len(s) : i < j => s[i] < s[j]

TypeOK == /\ accepted \in Nat
          /\ waiting \in Seq(Nat)
          /\ forwarded \in Seq(Nat)

(* Forwarded items precede waiting ones, and neither list repeats or swaps *)
(* an item.                                                                *)
InOrder ==
    /\ Ascending(waiting)
    /\ Ascending(forwarded)
    /\ \A i \in 1 .. Len(forwarded), j \in 1 .. Len(waiting) :
          forwarded[i] < waiting[j]
    /\ \A j \in 1 .. Len(waiting) : waiting[j] <= accepted
    /\ \A i \in 1 .. Len(forwarded) : forwarded[i] <= accepted
=============================================================================
