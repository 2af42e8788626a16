----------------------------- MODULE Emac_proofs -----------------------------
(* Proofs about the receive side of the Ethernet driver, for rings of      *)
(* every length from two and any number of frames.                         *)
EXTENDS Emac, SequenceTheorems, TLAPS

(* A task that found the ring empty and is about to wait has, if that is   *)
(* no longer so, a wake-up on the way: pending, in the handler, or given.  *)
WakeUpOnTheWay ==
    task \in {"idle", "blocked"} /\ produce # consume =>
        rxDone \/ isr = "cleared" \/ sem = 1

(* The task reads and frees a fragment only when there is one.             *)
ReadsAFragment == task \in {"copy", "release"} => produce # consume

WInv == TypeOK /\ WakeUpOnTheWay

RInv == TypeOK /\ ReadsAFragment /\ NothingStoredIsLost

-----------------------------------------------------------------------------
(* The ring *)

LEMMA AfterIsIndex == \A i \in Index : After(i) \in Index
BY RingAssumption DEF After, Index

(* The next index of the controller is on the ring as well.                *)
LEMMA NextIsIndex == produce \in Index => NextFragment \in Index
BY RingAssumption DEF NextFragment, Index

LEMMA CountType ==
    ASSUME produce \in Index, consume \in Index
    PROVE  /\ Count \in Nat /\ Count < NumRxFrag
           /\ Count = 0 <=> produce = consume
BY RingAssumption DEF Count, Index

(* The fragments between the indices are on the ring, and the one the      *)
(* controller writes next is not among them.                               *)
LEMMA FragmentType ==
    ASSUME produce \in Index, consume \in Index, NEW i \in Nat, i < Count
    PROVE  Fragment(i) \in Index /\ Fragment(i) # produce
BY RingAssumption DEF Count, Fragment, Index

LEMMA FragmentEnd ==
    ASSUME produce \in Index, consume \in Index
    PROVE  Fragment(Count) = produce /\ Fragment(0) = consume
BY RingAssumption DEF Count, Fragment, Index

LEMMA StoredType ==
    ASSUME TypeOK
    PROVE  /\ Stored \in Seq(Nat) /\ Len(Stored) = Count
           /\ \A i \in 1 .. Count : Stored[i] = buf[Fragment(i - 1)]
<1>1. produce \in Index /\ consume \in Index /\ buf \in [Index -> Nat]
  BY DEF TypeOK
<1>2. Count \in Nat
  BY <1>1, CountType
<1>3. \A i \in 1 .. Count : buf[Fragment(i - 1)] \in Nat
  <2> SUFFICES ASSUME NEW i \in 1 .. Count PROVE buf[Fragment(i - 1)] \in Nat
    OBVIOUS
  <2>1. i - 1 \in Nat /\ i - 1 < Count
    BY <1>2
  <2>2. Fragment(i - 1) \in Index
    BY <1>1, <2>1, FragmentType
  <2> QED
    BY <1>1, <2>2
<1>4. Stored \in [1 .. Count -> Nat]
  BY <1>3 DEF Stored
<1>5. Stored \in Seq(Nat) /\ Len(Stored) = Count
  BY <1>2, <1>4
<1> QED
  BY <1>5 DEF Stored

-----------------------------------------------------------------------------
(* Types *)

LEMMA TypeInit == Init => TypeOK
<1>1. 0 \in Index
  BY RingAssumption DEF Index
<1> QED
  BY <1>1 DEF Init, TypeOK

LEMMA TypeStep == TypeOK /\ [Next]_vars => TypeOK'
<1> SUFFICES ASSUME TypeOK, [Next]_vars PROVE TypeOK'
  OBVIOUS
<1>1. CASE Arrive
  <2>1. NextFragment \in Index
    BY NextIsIndex DEF TypeOK
  <2>2. CASE NextFragment = consume
    BY <1>1, <2>2 DEF Arrive, TypeOK
  <2>3. CASE NextFragment # consume
    <3>1. arrived + 1 \in Nat
      BY DEF TypeOK
    <3>0. /\ accepted' = Append(accepted, arrived + 1)
          /\ buf' = [buf EXCEPT ![produce] = arrived + 1]
      BY <1>1, <2>3 DEF Arrive
    <3>2. accepted' \in Seq(Nat)
      BY <3>0, <3>1 DEF TypeOK
    <3>3. buf' \in [Index -> Nat]
      BY <3>0, <3>1 DEF TypeOK
    <3>4. /\ arrived' \in Nat /\ produce' \in Index /\ rxDone' \in BOOLEAN
          /\ UNCHANGED <<consume, isr, sem, task, frame, handled>>
      BY <1>1, <2>1, <2>3, <3>1 DEF Arrive
    <3> QED
      BY <3>2, <3>3, <3>4 DEF TypeOK, Index
  <2> QED
    BY <2>2, <2>3
<1>2. CASE Isr
  BY <1>2 DEF Isr, IsrClear, IsrGive, TypeOK, wire, ring
<1>3. CASE Check \/ Periodic \/ Take \/ Block \/ TimeOut
  BY <1>3 DEF Check, Periodic, Take, Block, TimeOut, TypeOK, wire, ring
<1>4. CASE Copy
  BY <1>4 DEF Copy, TypeOK, wire, ring
<1>5. CASE EndReadFrame
  BY <1>5, AfterIsIndex DEF EndReadFrame, TypeOK, wire
<1>6. CASE Input
  <2>1. handled' \in Seq(Nat)
    BY <1>6 DEF Input, TypeOK
  <2> QED
    BY <1>6, <2>1 DEF Input, TypeOK, wire, ring
<1>7. CASE UNCHANGED vars
  BY <1>7 DEF vars, wire, ring, TypeOK
<1> QED
  BY <1>1, <1>2, <1>3, <1>4, <1>5, <1>6, <1>7 DEF Next, Task

(* The types of the variables, for every ring.                             *)
THEOREM TypeCorrect == Spec => []TypeOK
BY TypeInit, TypeStep, PTL DEF Spec

-----------------------------------------------------------------------------
(* Wake-ups *)

LEMMA WakeInit == Init => WInv
BY TypeInit DEF Init, WInv, WakeUpOnTheWay

(* A frame that arrives brings its own wake-up; the handler hands it on to *)
(* the semaphore; the task takes it only to look at the ring again.        *)
LEMMA WakeStep == WInv /\ [Next]_vars => WInv'
<1> SUFFICES ASSUME WInv, [Next]_vars PROVE WakeUpOnTheWay'
  BY TypeStep DEF WInv
<1>1. CASE Arrive
  <2>1. CASE NextFragment = consume
    BY <1>1, <2>1 DEF Arrive, WInv, WakeUpOnTheWay
  <2>2. CASE NextFragment # consume
    BY <1>1, <2>2 DEF Arrive, WInv, WakeUpOnTheWay
  <2> QED
    BY <2>1, <2>2
<1>2. CASE Isr
  BY <1>2 DEF Isr, IsrClear, IsrGive, WInv, WakeUpOnTheWay, wire, ring
<1>3. CASE Check \/ Block
  BY <1>3 DEF Check, Block, At, WInv, WakeUpOnTheWay, wire, ring
<1>4. CASE Periodic \/ Take \/ TimeOut
  BY <1>4 DEF Periodic, Take, TimeOut, WakeUpOnTheWay
<1>5. CASE Copy \/ EndReadFrame \/ Input
  BY <1>5 DEF Copy, EndReadFrame, Input, WakeUpOnTheWay
<1>6. CASE UNCHANGED vars
  BY <1>6 DEF vars, wire, ring, WInv, WakeUpOnTheWay
<1> QED
  BY <1>1, <1>2, <1>3, <1>4, <1>5, <1>6 DEF Next, Task

(* The network task never sleeps on a frame (EMAC_ISR.c, uip_task.c).      *)
THEOREM NeverSleepsOnAFrame == Spec => []NoLostWakeup
<1>1. WInv => NoLostWakeup
  BY DEF WInv, TypeOK, WakeUpOnTheWay, NoLostWakeup
<1> QED
  BY <1>1, WakeInit, WakeStep, PTL DEF Spec

-----------------------------------------------------------------------------
(* The contents of the ring *)

(* With the same indices and the same contents the same frames are stored. *)
LEMMA StoredUnchanged == UNCHANGED ring => UNCHANGED <<Count, Stored>>
<1> SUFFICES ASSUME UNCHANGED ring PROVE Count' = Count /\ Stored' = Stored
  OBVIOUS
<1>1. buf' = buf /\ produce' = produce /\ consume' = consume
  BY DEF ring
<1> QED
  BY <1>1 DEF Count, Stored, Fragment

(* An element is appended to two sequences by appending it to the second.  *)
LEMMA AppendBehind ==
    ASSUME NEW a \in Seq(Nat), NEW b \in Seq(Nat), NEW e \in Nat
    PROVE  Append(a \o b, e) = a \o Append(b, e)
<1>1. a \o b \in Seq(Nat) /\ <<e>> \in Seq(Nat)
  OBVIOUS
<1>2. Append(a \o b, e) = (a \o b) \o <<e>>
  BY <1>1, AppendIsConcat
<1>3. Append(b, e) = b \o <<e>>
  BY AppendIsConcat
<1>4. (a \o b) \o <<e>> = a \o (b \o <<e>>)
  BY <1>1, ConcatAssociative
<1> QED
  BY <1>2, <1>3, <1>4

LEMMA InHandType == TypeOK => InHand \in Seq(Nat)
BY DEF InHand, TypeOK

(* The controller adds its frame behind all that are stored.               *)
LEMMA ArriveAdds ==
    ASSUME TypeOK, Arrive, NextFragment # consume
    PROVE  /\ Stored' = Append(Stored, arrived + 1)
           /\ produce # consume => buf'[consume] = buf[consume]
           /\ produce' # consume'
<1>1. /\ buf' = [buf EXCEPT ![produce] = arrived + 1]
      /\ produce' = NextFragment /\ consume' = consume
  BY DEF Arrive
<1>2. /\ produce \in Index /\ consume \in Index /\ buf \in [Index -> Nat]
      /\ arrived + 1 \in Nat
  BY DEF TypeOK
<1>3. Count' = Count + 1 /\ Count \in Nat
  <2>1. Count' = IF produce' >= consume' THEN produce' - consume'
                 ELSE produce' + NumRxFrag - consume'
    BY DEF Count
  <2> QED
    BY <1>1, <1>2, <2>1, CountType, RingAssumption DEF Count, NextFragment, Index
<1>4. \A i \in Nat : Fragment(i)' = Fragment(i)
  BY <1>1 DEF Fragment
<1>5. Stored' = [i \in 1 .. Count + 1 |-> buf'[Fragment(i - 1)]]
  BY <1>3, <1>1 DEF Stored, Fragment
<1>6. TypeOK'
  BY TypeStep DEF Next
<1>7. Stored' \in Seq(Nat) /\ Len(Stored') = Count + 1
  <2>1. (Stored \in Seq(Nat) /\ Len(Stored) = Count)'
    BY <1>6, StoredType, PTL
  <2> QED
    BY <2>1, <1>3
<1>8. Append(Stored, arrived + 1) \in Seq(Nat) /\ Len(Append(Stored, arrived + 1)) = Count + 1
  BY <1>2, StoredType
<1>9. ASSUME NEW i \in 1 .. Count + 1
      PROVE  Stored'[i] = Append(Stored, arrived + 1)[i]
  <2>1. Stored'[i] = buf'[Fragment(i - 1)]
    BY <1>5
  <2>2. CASE i = Count + 1
    <3>1. Fragment(i - 1) = produce
      BY <1>2, <1>3, <2>2, FragmentEnd
    <3>2. Stored'[i] = arrived + 1
      BY <1>1, <1>2, <2>1, <3>1
    <3>3. Append(Stored, arrived + 1)[i] = arrived + 1
      BY <2>2, StoredType
    <3> QED
      BY <3>2, <3>3
  <2>3. CASE i # Count + 1
    <3>1. i \in 1 .. Count /\ i - 1 \in Nat /\ i - 1 < Count
      BY <1>3, <2>3
    <3>2. Fragment(i - 1) \in Index /\ Fragment(i - 1) # produce
      BY <1>2, <3>1, FragmentType
    <3>3. Stored'[i] = buf[Fragment(i - 1)]
      BY <1>1, <1>2, <2>1, <3>2
    <3>4. Stored[i] = buf[Fragment(i - 1)]
      BY <3>1, StoredType
    <3>5. Append(Stored, arrived + 1)[i] = Stored[i]
      BY <3>1, StoredType
    <3> QED
      BY <3>3, <3>4, <3>5
  <2> QED
    BY <2>2, <2>3
<1>10. Stored' = Append(Stored, arrived + 1)
  BY <1>7, <1>8, <1>9, SeqEqual
<1> QED
  BY <1>1, <1>2, <1>10

(* The program takes the oldest frame off, and leaves the others.          *)
LEMMA EndReadTakes ==
    ASSUME TypeOK, EndReadFrame, produce # consume
    PROVE  Stored = <<buf[consume]>> \o Stored'
<1>1. buf' = buf /\ produce' = produce /\ consume' = After(consume)
  BY DEF EndReadFrame
<1>2. produce \in Index /\ consume \in Index /\ buf \in [Index -> Nat]
  BY DEF TypeOK
<1>3. Count' = Count - 1 /\ Count \in Nat /\ Count > 0
  <2>1. Count' = IF produce' >= consume' THEN produce' - consume'
                 ELSE produce' + NumRxFrag - consume'
    BY DEF Count
  <2> QED
    BY <1>1, <1>2, <2>1, CountType, RingAssumption DEF Count, After, Index
<1>4. ASSUME NEW i \in Nat, i < Count - 1
      PROVE  Fragment(i)' = Fragment(i + 1)
  <2>1. Fragment(i)' = IF consume' + i >= NumRxFrag THEN consume' + i - NumRxFrag
                       ELSE consume' + i
    BY DEF Fragment
  <2> QED
    BY <1>1, <1>2, <1>4, <2>1, RingAssumption DEF Count, Fragment, After, Index
<1>5. Stored' = [i \in 1 .. Count - 1 |-> buf[Fragment(i - 1)']]
  BY <1>3, <1>1 DEF Stored, Fragment
<1>6. TypeOK'
  BY TypeStep DEF Next, Task
<1>7. Stored' \in Seq(Nat) /\ Len(Stored') = Count - 1
  <2>1. (Stored \in Seq(Nat) /\ Len(Stored) = Count)'
    BY <1>6, StoredType, PTL
  <2> QED
    BY <2>1, <1>3
<1>8. /\ <<buf[consume]>> \in Seq(Nat)
      /\ Len(<<buf[consume]>>) = 1 /\ <<buf[consume]>>[1] = buf[consume]
  BY <1>2
<1>9. /\ <<buf[consume]>> \o Stored' \in Seq(Nat)
      /\ Len(<<buf[consume]>> \o Stored') = Count
  BY <1>3, <1>7, <1>8
<1>10. ASSUME NEW i \in 1 .. Count
       PROVE  Stored[i] = (<<buf[consume]>> \o Stored')[i]
  <2>1. Stored[i] = buf[Fragment(i - 1)]
    BY StoredType
  <2>2. CASE i = 1
    <3>1. Fragment(i - 1) = consume
      BY <1>2, <2>2, FragmentEnd
    <3>2. (<<buf[consume]>> \o Stored')[i] = buf[consume]
      BY <1>3, <1>7, <1>8, <2>2
    <3> QED
      BY <2>1, <3>1, <3>2
  <2>3. CASE i # 1
    <3>1. i - 1 \in 1 .. Count - 1 /\ i - 2 \in Nat /\ i - 2 < Count - 1
      BY <1>3, <2>3
    <3>2. Fragment(i - 2)' = Fragment(i - 1)
      BY <1>4, <3>1
    <3>3. Stored'[i - 1] = buf[Fragment((i - 1) - 1)']
      BY <1>5, <3>1
    <3>4. (<<buf[consume]>> \o Stored')[i] = Stored'[i - 1]
      BY <1>3, <1>7, <1>8, <2>3
    <3>5. (i - 1) - 1 = i - 2
      BY <1>3
    <3> QED
      BY <2>1, <3>2, <3>3, <3>4, <3>5
  <2> QED
    BY <2>2, <2>3
<1> QED
  BY <1>9, <1>10, StoredType, SeqEqual

-----------------------------------------------------------------------------
LEMMA RingInit == Init => RInv
<1> SUFFICES ASSUME Init PROVE RInv
  OBVIOUS
<1>1. TypeOK
  BY TypeInit
<1>2. Stored = <<>>
  <2>1. Count = 0
    BY <1>1, CountType DEF Init, TypeOK
  <2>2. Len(Stored) = 0 /\ Stored \in Seq(Nat)
    BY <1>1, <2>1, StoredType
  <2> QED
    BY <2>2, EmptySeq
<1>3. InHand = <<>>
  BY DEF Init, InHand
<1> QED
  BY <1>1, <1>2, <1>3 DEF Init, RInv, ReadsAFragment, NothingStoredIsLost

(* A step that leaves the frames and the ring alone keeps them accounted.  *)
LEMMA RingKept ==
    ASSUME RInv, UNCHANGED <<accepted, ring, handled>>, InHand' = InHand,
           task' = "release" => frame' = buf[consume]
    PROVE  NothingStoredIsLost'
<1>1. Stored' = Stored
  BY StoredUnchanged
<1>2. accepted' = accepted /\ handled' = handled /\ buf' = buf /\ consume' = consume
  BY DEF ring
<1> QED
  BY <1>1, <1>2 DEF RInv, NothingStoredIsLost

LEMMA RingStep == RInv /\ [Next]_vars => RInv'
<1> SUFFICES ASSUME RInv, [Next]_vars PROVE ReadsAFragment' /\ NothingStoredIsLost'
  BY TypeStep DEF RInv
<1>0. TypeOK /\ InHand \in Seq(Nat) /\ Stored \in Seq(Nat)
  BY InHandType, StoredType DEF RInv
<1>1. CASE Arrive
  <2>1. CASE NextFragment = consume
    <3>1. UNCHANGED <<accepted, ring, handled, task, frame>>
      BY <1>1, <2>1 DEF Arrive, ring
    <3> QED
      BY <3>1, RingKept DEF RInv, ReadsAFragment, NothingStoredIsLost, InHand, ring
  <2>2. CASE NextFragment # consume
    <3>1. /\ Stored' = Append(Stored, arrived + 1)
          /\ produce # consume => buf'[consume] = buf[consume]
          /\ produce' # consume'
      BY <1>0, <1>1, <2>2, ArriveAdds
    <3>2. /\ accepted' = Append(accepted, arrived + 1) /\ handled' = handled
          /\ InHand' = InHand /\ task' = task /\ frame' = frame /\ consume' = consume
      BY <1>1, <2>2 DEF Arrive, InHand
    <3>3. accepted = (handled \o InHand) \o Stored
      BY DEF RInv, NothingStoredIsLost
    <3>4. accepted' = (handled' \o InHand') \o Stored'
      <4>1. handled \o InHand \in Seq(Nat) /\ arrived + 1 \in Nat
        BY <1>0 DEF TypeOK
      <4>2. Append((handled \o InHand) \o Stored, arrived + 1)
              = (handled \o InHand) \o Append(Stored, arrived + 1)
        BY <1>0, <4>1, AppendBehind
      <4> QED
        BY <3>1, <3>2, <3>3, <4>2
    <3>5. task' = "release" => frame' = buf'[consume']
      BY <3>1, <3>2 DEF RInv, ReadsAFragment, NothingStoredIsLost
    <3> QED
      BY <3>1, <3>4, <3>5 DEF ReadsAFragment, NothingStoredIsLost
  <2> QED
    BY <2>1, <2>2
<1>2. CASE Isr
  <2>1. UNCHANGED <<accepted, ring, handled, task, frame>>
    BY <1>2 DEF Isr, IsrClear, IsrGive, wire
  <2> QED
    BY <2>1, RingKept DEF RInv, ReadsAFragment, NothingStoredIsLost, InHand, ring
<1>3. CASE Check
  <2>1. /\ UNCHANGED <<accepted, ring, handled>>
        /\ task = "check" /\ task' = IF produce # consume THEN "copy" ELSE "idle"
    BY <1>3 DEF Check, At, wire
  <2> QED
    BY <2>1, RingKept DEF ReadsAFragment, InHand, ring
<1>4. CASE Periodic \/ Take \/ Block \/ TimeOut
  <2>1. /\ UNCHANGED <<accepted, ring, handled>>
        /\ task \in {"idle", "blocked"} /\ task' \in {"check", "blocked"}
    BY <1>4 DEF Periodic, Take, Block, TimeOut, At, wire
  <2> QED
    BY <2>1, RingKept DEF ReadsAFragment, InHand, ring
<1>5. CASE Copy
  <2>1. /\ UNCHANGED <<accepted, ring, handled>>
        /\ task = "copy" /\ task' = "release" /\ frame' = buf[consume]
    BY <1>5 DEF Copy, At, wire
  <2> QED
    BY <2>1, RingKept DEF RInv, ReadsAFragment, InHand, ring
<1>6. CASE EndReadFrame
  <2>1. /\ accepted' = accepted /\ handled' = handled /\ frame' = frame
        /\ task = "release" /\ task' = "input"
    BY <1>6 DEF EndReadFrame, At, wire
  <2>2. Stored = <<frame>> \o Stored'
    BY <1>0, <1>6, <2>1, EndReadTakes DEF RInv, ReadsAFragment, NothingStoredIsLost
  <2>3. InHand = <<>> /\ InHand' = <<frame>>
    BY <2>1 DEF InHand
  <2>4. TypeOK'
    BY <1>0, TypeStep
  <2>5. Stored' \in Seq(Nat)
    <3>1. (Stored \in Seq(Nat) /\ Len(Stored) = Count)'
      BY <2>4, StoredType, PTL
    <3> QED
      BY <3>1
  <2>6. accepted = handled \o (<<frame>> \o Stored')
    BY <1>0, <2>2, <2>3, ConcatEmptySeq DEF RInv, NothingStoredIsLost, TypeOK
  <2>7. accepted' = (handled' \o InHand') \o Stored'
    <3>1. handled \in Seq(Nat) /\ <<frame>> \in Seq(Nat)
      BY <1>0 DEF TypeOK
    <3>2. (handled \o <<frame>>) \o Stored' = handled \o (<<frame>> \o Stored')
      BY <2>5, <3>1, ConcatAssociative
    <3> QED
      BY <2>1, <2>3, <2>6, <3>2
  <2> QED
    BY <2>1, <2>7 DEF ReadsAFragment, NothingStoredIsLost
<1>7. CASE Input
  <2>1. /\ UNCHANGED <<accepted, ring>> /\ handled' = Append(handled, frame)
        /\ task = "input" /\ task' = "check"
    BY <1>7 DEF Input, At, wire
  <2>2. InHand = <<frame>> /\ InHand' = <<>>
    BY <2>1 DEF InHand
  <2>3. Stored' = Stored
    BY <2>1, StoredUnchanged
  <2>4. handled' = handled \o <<frame>> /\ handled' \in Seq(Nat)
    BY <1>0, <2>1, AppendIsConcat DEF TypeOK
  <2>5. accepted' = (handled' \o InHand') \o Stored'
    BY <2>1, <2>2, <2>3, <2>4, ConcatEmptySeq DEF RInv, NothingStoredIsLost
  <2> QED
    BY <2>1, <2>5 DEF ReadsAFragment, NothingStoredIsLost
<1>8. CASE UNCHANGED vars
  <2>1. UNCHANGED <<accepted, ring, handled, task, frame>>
    BY <1>8 DEF vars, wire
  <2> QED
    BY <2>1, RingKept DEF RInv, ReadsAFragment, NothingStoredIsLost, InHand, ring
<1> QED
  BY <1>1, <1>2, <1>3, <1>4, <1>5, <1>6, <1>7, <1>8 DEF Next, Task

(* Every stored frame is handled or waits, in order and once (emac.c).     *)
THEOREM FramesAreKept == Spec => []NothingStoredIsLost
<1>1. RInv => NothingStoredIsLost
  BY DEF RInv
<1> QED
  BY <1>1, RingInit, RingStep, PTL DEF Spec
=============================================================================
