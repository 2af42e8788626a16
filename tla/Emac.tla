--------------------------------- MODULE Emac ---------------------------------
(***************************************************************************)
(* How received Ethernet frames reach the board's network task: the        *)
(* controller fills a ring of descriptors and raises an interrupt, the     *)
(* interrupt handler (webserver/EMAC_ISR.c) gives a binary semaphore, and  *)
(* the loop of vuIP_Task (uip_task.c) empties the ring frame by frame      *)
(* (webserver/emac.c) and waits for the semaphore when there is none.      *)
(*                                                                         *)
(* The controller works beside the processor, so that a frame can arrive   *)
(* between any two steps, also of the handler.  The handler keeps the task *)
(* from running.  A frame is its number; what uIP does with it is the      *)
(* subject of Board.                                                       *)
(***************************************************************************)
EXTENDS Integers, Sequences

CONSTANTS
    NumRxFrag,   \* NUM_RX_FRAG
    MaxFrames    \* bound: how many frames arrive

ASSUME RingAssumption == NumRxFrag \in Nat /\ NumRxFrag >= 2 /\ MaxFrames \in Nat

VARIABLES
    arrived,     \* how many frames were on the wire so far
    buf,         \* [Index -> the frame in the fragment]
    produce,     \* RxProduceIndex, the controller's
    consume,     \* RxConsumeIndex, the program's
    rxDone,      \* the pending receive interrupt
    isr,         \* the interrupt handler: "off", "cleared"
    sem,         \* xEMACSemaphore: 0 or 1
    task,        \* vuIP_Task: "check", "copy", "release", "input", "idle", "blocked"
    frame,       \* what uip_buf holds
    accepted,    \* the frames the controller stored, in order
    handled      \* the frames given to uip_input or uip_arp_arpin, in order

wire == <<arrived, accepted>>
ring == <<buf, produce, consume>>
vars == <<wire, ring, rxDone, isr, sem, task, frame, handled>>

Index == 0 .. NumRxFrag - 1

(* Mutant: the last fragment is forgotten.                                 *)
AfterShort(i) == IF i + 1 = NumRxFrag - 1 THEN 0 ELSE i + 1

(* The number behind i on the ring.                                        *)
After(i) == IF i + 1 = NumRxFrag THEN 0 ELSE i + 1

(* rx_descr_init, and the semaphore is created given.                      *)
Init ==
    /\ arrived = 0 /\ accepted = <<>> /\ handled = <<>>
    /\ buf = [i \in Index |-> 0]
    /\ produce = 0 /\ consume = 0
    /\ rxDone = FALSE /\ isr = "off" /\ sem = 1
    /\ task = "check" /\ frame = 0

-----------------------------------------------------------------------------
(* The controller.  It keeps one fragment free to tell full from empty.    *)

NextFragment == IF produce + 1 = NumRxFrag THEN 0 ELSE produce + 1

Arrive ==
    /\ arrived < MaxFrames
    /\ arrived' = arrived + 1
    /\ IF NextFragment = consume
       THEN UNCHANGED <<accepted, buf, produce, rxDone>>
       ELSE /\ buf' = [buf EXCEPT ![produce] = arrived + 1]
            /\ produce' = NextFragment
            /\ accepted' = Append(accepted, arrived + 1)
            /\ rxDone' = TRUE
    /\ UNCHANGED <<consume, isr, sem, task, frame, handled>>

-----------------------------------------------------------------------------
(* vEMAC_ISR_Handler: first all pending interrupts are cleared ...         *)
IsrClear ==
    /\ rxDone /\ isr = "off"
    /\ isr' = "cleared"
    /\ rxDone' = FALSE
    /\ UNCHANGED <<wire, ring, sem, task, frame, handled>>

(* Mutant: the semaphore is not given.                                     *)
IsrGiveNothing ==
    /\ isr = "cleared"
    /\ isr' = "off"
    /\ UNCHANGED <<wire, ring, rxDone, sem, task, frame, handled>>

(* ... then the semaphore is given; a second gift is not counted.          *)
IsrGive ==
    /\ isr = "cleared"
    /\ isr' = "off"
    /\ sem' = 1
    /\ UNCHANGED <<wire, ring, rxDone, task, frame, handled>>

-----------------------------------------------------------------------------
(* The network task runs while no interrupt is served.                     *)
At(place) == isr = "off" /\ task = place

(* uiGetEMACRxData *)
Check ==
    /\ At("check")
    /\ task' = IF produce # consume THEN "copy" ELSE "idle"
    /\ UNCHANGED <<wire, ring, rxDone, isr, sem, frame, handled>>

Copy ==
    /\ At("copy")
    /\ frame' = buf[consume]
    /\ task' = "release"
    /\ UNCHANGED <<wire, ring, rxDone, isr, sem, handled>>

EndReadFrame ==
    /\ At("release")
    /\ consume' = After(consume)
    /\ task' = "input"
    /\ UNCHANGED <<wire, buf, produce, rxDone, isr, sem, frame, handled>>

(* Mutant: the task waits after every frame.                               *)
InputThenWait ==
    /\ At("input")
    /\ handled' = Append(handled, frame)
    /\ task' = "idle"
    /\ UNCHANGED <<wire, ring, rxDone, isr, sem, frame>>

Input ==
    /\ At("input")
    /\ handled' = Append(handled, frame)
    /\ task' = "check"
    /\ UNCHANGED <<wire, ring, rxDone, isr, sem, frame>>

(* Without a frame: the periodic work of uIP if its time has come.         *)
Periodic ==
    /\ At("idle")
    /\ task' = "check"
    /\ UNCHANGED <<wire, ring, rxDone, isr, sem, frame, handled>>

(* Otherwise xSemaphoreTake, at once or after the wait.                    *)
Take ==
    /\ At("idle") \/ At("blocked")
    /\ sem = 1
    /\ sem' = 0
    /\ task' = "check"
    /\ UNCHANGED <<wire, ring, rxDone, isr, frame, handled>>

Block ==
    /\ At("idle")
    /\ sem = 0
    /\ task' = "blocked"
    /\ UNCHANGED <<wire, ring, rxDone, isr, sem, frame, handled>>

TimeOut ==
    /\ At("blocked")
    /\ sem = 0
    /\ task' = "check"
    /\ UNCHANGED <<wire, ring, rxDone, isr, sem, frame, handled>>

-----------------------------------------------------------------------------
Isr == IsrClear \/ IsrGive

Task == Check \/ Copy \/ EndReadFrame \/ Input \/ Take \/ Block

Next == Arrive \/ Isr \/ Task \/ Periodic \/ TimeOut

(* The interrupt is served and the task runs; neither the timeout of the   *)
(* semaphore nor the periodic timer has to help.                           *)
Fairness == WF_vars(Isr) /\ WF_vars(Task)

Spec == Init /\ [][Next]_vars

FairSpec == Spec /\ Fairness

-----------------------------------------------------------------------------
(* Properties *)

(* The types of the variables.                                             *)
TypeOK ==
    /\ arrived \in Nat
    /\ accepted \in Seq(Nat) /\ handled \in Seq(Nat)
    /\ buf \in [Index -> Nat]
    /\ produce \in Index /\ consume \in Index
    /\ rxDone \in BOOLEAN
    /\ isr \in {"off", "cleared"}
    /\ sem \in {0, 1}
    /\ task \in {"check", "copy", "release", "input", "idle", "blocked"}
    /\ frame \in Nat

(* The network task never sleeps on a frame: when it waits and nothing is  *)
(* on its way to wake it, the ring is empty.  Frames that arrive before or *)
(* while the interrupt is cleared share one gift of the semaphore.         *)
NoLostWakeup ==
    task = "blocked" /\ sem = 0 /\ isr = "off" /\ ~rxDone => produce = consume

(* The fragments between the indices, oldest first.                        *)
Count == IF produce >= consume THEN produce - consume ELSE produce + NumRxFrag - consume

Fragment(i) == IF consume + i >= NumRxFrag THEN consume + i - NumRxFrag ELSE consume + i

Stored == [i \in 1 .. Count |-> buf[Fragment(i - 1)]]

(* The frame that left the ring, or is about to, while the task reads it.  *)
InHand == IF task = "input" THEN <<frame>> ELSE <<>>

(* Every frame the controller stored is handled or still waits, in order,  *)
(* each once, and the one the task has copied is the oldest in the ring:   *)
(* the controller never writes a fragment the program has not given back.  *)
NothingStoredIsLost ==
    /\ accepted = (handled \o InHand) \o Stored
    /\ task = "release" => frame = buf[consume]

(* A stored frame is handled, though nobody waits for a timeout.           *)
Among(f, frames) == \E i \in 1 .. Len(frames) : frames[i] = f

StoredIsHandled == \A f \in 1 .. MaxFrames : Among(f, accepted) ~> Among(f, handled)
=============================================================================
