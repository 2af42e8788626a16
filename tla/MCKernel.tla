------------------------------ MODULE MCKernel ------------------------------
(* Instances of Kernel for TLC.                                            *)
EXTENDS Kernel, TLC

CONSTANTS urgent, a, b

(* Three tasks: an urgent receiver that waits for some ticks, a receiver   *)
(* that waits for ever, and a sender that also sleeps.                     *)
Ranks == (urgent :> 2) @@ (a :> 1) @@ (b :> 1)
Jobs  == (urgent :> {"receive"}) @@ (a :> {"receive"}) @@ (b :> {"send", "delay"})
Waits == (urgent :> 2) @@ (a :> MaxDelay) @@ (b :> 1)

(* Two receivers of one priority, as all tasks of the board are; one waits *)
(* for some ticks, the other only looks.                                   *)
Peers     == (a :> 1) @@ (b :> 1)
PeerJobs  == (a :> {"receive"}) @@ (b :> {"receive"})
PeerWaits == (a :> 3) @@ (b :> 0)
=============================================================================
