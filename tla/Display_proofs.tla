---------------------------- MODULE Display_proofs ----------------------------
(* Proofs about the board's display, for every length of its queue.        *)
EXTENDS Display, TLAPS

(* What is still to be shown ends with the message sent last.              *)
Pending ==
    /\ queue # <<>> => queue[Len(queue)] = last
    /\ queue = <<>> /\ lcd \in Message => lcd = last
    /\ queue = <<>> /\ lcd = "init" => last = "none"

IInv == TypeOK /\ ScreenIsLast /\ Pending

-----------------------------------------------------------------------------
LEMMA MessageNames ==
    Message = {"TRY", "CONNECTED", "CLOSED", "DTMF", "INVALID", "PRESSED", "RELEASED"}
BY DEF Message, Size

(* A screen stays one, and an answer of puts is made of messages.          *)
LEMMA WrittenType ==
    ASSUME NEW scr \in [Column -> Message \cup {"blank"}], NEW m \in Message
    PROVE  Written(scr, m) \in [Column -> Message \cup {"blank"}]
BY DEF Written

LEMMA BlankType == Blank \in [Column -> Message \cup {"blank"}]
BY DEF Blank

(* A message that is appended is the last one; others stay where they are. *)
LEMMA PushEffect ==
    ASSUME queue \in Seq(Message), Len(queue) <= QueueLen, NEW m \in Message, Push(m)
    PROVE  /\ queue' \in Seq(Message) /\ Len(queue') <= QueueLen
           /\ queue' # <<>> /\ queue'[Len(queue')] = m
           /\ last' = m
<1>1. queue' = Append(queue, m) /\ Len(queue) < QueueLen /\ last' = m
  BY DEF Push, Room
<1>2. queue' \in Seq(Message) /\ Len(queue') = Len(queue) + 1
  BY <1>1
<1>3. queue'[Len(queue')] = m
  BY <1>1, <1>2
<1> QED
  BY <1>1, <1>2, <1>3, QueueLenAssumption

-----------------------------------------------------------------------------
LEMMA InitInvariant == Init => IInv
<1> SUFFICES ASSUME Init PROVE IInv
  OBVIOUS
<1>1. PICK m \in Message : screen = Written(Blank, m)
  BY DEF Init
<1>2. screen \in [Column -> Message \cup {"blank"}]
  BY <1>1, WrittenType, BlankType
<1>3. TypeOK
  BY <1>2, MessageNames, QueueLenAssumption DEF Init, TypeOK
<1>4. ScreenIsLast /\ Pending
  BY MessageNames DEF Init, ScreenIsLast, Pending
<1> QED
  BY <1>3, <1>4 DEF IInv

(* The display task takes messages in turn and shows each of them whole.   *)
LEMMA LcdInvariant == IInv /\ LcdTask => IInv'
<1> SUFFICES ASSUME IInv, LcdTask PROVE IInv'
  OBVIOUS
<1> USE MessageNames
<1>1. CASE LcdInit
  <2>1. TypeOK'
    BY <1>1, BlankType DEF LcdInit, TypeOK, IInv
  <2>2. ScreenIsLast' /\ Pending'
    BY <1>1 DEF LcdInit, IInv, ScreenIsLast, Pending
  <2> QED
    BY <2>1, <2>2 DEF IInv
<1>2. CASE LcdPop
  <2>1. queue \in Seq(Message) /\ queue # <<>> /\ Len(queue) <= QueueLen
    BY <1>2 DEF LcdPop, IInv, TypeOK
  <2>2. /\ Head(queue) \in Message
        /\ Tail(queue) \in Seq(Message)
        /\ Len(Tail(queue)) = Len(queue) - 1
    BY <2>1
  <2>3. TypeOK'
    BY <1>2, <2>1, <2>2, QueueLenAssumption DEF LcdPop, IInv, TypeOK
  <2>4. CASE Tail(queue) = <<>>
    <3>1. Len(queue) = 1
      <4>1. Len(Tail(queue)) = Len(<<>>)
        BY <2>4, Zenon
      <4>2. Len(<<>>) = 0
        OBVIOUS
      <4>3. Len(queue) \in Nat
        BY <2>1
      <4> QED
        BY <2>2, <4>1, <4>2, <4>3
    <3>2. Head(queue) = last
      BY <2>1, <3>1 DEF IInv, Pending
    <3> QED
      BY <1>2, <2>2, <2>3, <2>4, <3>2 DEF LcdPop, IInv, ScreenIsLast, Pending
  <2>5. CASE Tail(queue) # <<>>
    <3>1. Tail(queue)[Len(Tail(queue))] = queue[Len(queue)]
      BY <2>1, <2>2, <2>5
    <3> QED
      BY <1>2, <2>1, <2>2, <2>3, <2>5, <3>1 DEF LcdPop, IInv, ScreenIsLast, Pending
  <2> QED
    BY <2>4, <2>5
<1>3. CASE LcdShow
  <2>1. lcd \in Message /\ screen' = Written(Blank, lcd)
    BY <1>3 DEF LcdShow, Shown
  <2>2. TypeOK'
    BY <1>3, <2>1, BlankType, WrittenType DEF LcdShow, IInv, TypeOK
  <2>3. ScreenIsLast' /\ Pending'
    BY <1>3, <2>1 DEF LcdShow, IInv, ScreenIsLast, Pending
  <2> QED
    BY <2>2, <2>3 DEF IInv
<1> QED
  BY <1>1, <1>2, <1>3 DEF LcdTask

(* A sender puts its message behind all others and touches nothing else.   *)
LEMMA SendInvariant ==
    ASSUME IInv, NEW m \in Message, Push(m), UNCHANGED <<lcd, screen, level, button>>,
           btn' \in {"up", "pressing", "down", "releasing"},
           net' \in Message \cup {"idle", "asleep"}
    PROVE  IInv'
<1>1. /\ queue' \in Seq(Message) /\ Len(queue') <= QueueLen
      /\ queue' # <<>> /\ queue'[Len(queue')] = m
      /\ last' = m
  BY PushEffect DEF IInv, TypeOK
<1>2. TypeOK'
  BY <1>1 DEF IInv, TypeOK
<1>3. ScreenIsLast' /\ Pending'
  BY <1>1 DEF ScreenIsLast, Pending
<1> QED
  BY <1>2, <1>3 DEF IInv

LEMMA QuietInvariant ==
    ASSUME IInv, UNCHANGED <<queue, lcd, screen, last, button>>,
           btn' \in {"up", "pressing", "down", "releasing"},
           level' \in {"up", "down"},
           net' \in Message \cup {"idle", "asleep"}
    PROVE  IInv'
BY DEF IInv, TypeOK, ScreenIsLast, Pending

LEMMA NextInvariant == IInv /\ [Next]_vars => IInv'
<1> SUFFICES ASSUME IInv, [Next]_vars PROVE IInv'
  OBVIOUS
<1> USE MessageNames
<1>0. /\ btn \in {"up", "pressing", "down", "releasing"}
      /\ level \in {"up", "down"}
      /\ net \in Message \cup {"idle", "asleep"}
  BY DEF IInv, TypeOK
<1>1. CASE LcdTask
  BY <1>1, LcdInvariant
<1>2. CASE BtnPolled
  BY <1>0, <1>2, QuietInvariant DEF BtnPolled
<1>3. CASE BtnPush
  <2>1. PICK m \in {"PRESSED", "RELEASED"} : Push(m)
    BY <1>3 DEF BtnPush
  <2> QED
    BY <1>0, <1>3, <2>1, SendInvariant DEF BtnPush
<1>4. CASE NetCallback
  BY <1>0, <1>4, QuietInvariant DEF NetCallback
<1>5. CASE NetPush
  <2>1. net \in Message /\ Push(net) /\ net' \in {"idle", "asleep"}
    BY <1>5 DEF NetPush
  <2> QED
    BY <1>0, <1>5, <2>1, SendInvariant DEF NetPush
<1>6. CASE NetWake
  BY <1>0, <1>6, QuietInvariant DEF NetWake
<1>7. CASE Finger
  BY <1>0, <1>7, QuietInvariant DEF Finger
<1>8. CASE UNCHANGED vars
  BY <1>0, <1>8, QuietInvariant DEF vars
<1> QED
  BY <1>1, <1>2, <1>3, <1>4, <1>5, <1>6, <1>7, <1>8 DEF Next, BtnTask, NetTask

-----------------------------------------------------------------------------
THEOREM Invariance == Spec => []IInv
<1>1. Init => IInv
  BY InitInvariant
<1>2. IInv /\ [Next]_vars => IInv'
  BY NextInvariant
<1> QED
  BY <1>1, <1>2, PTL DEF Spec

(* The queue of lcd16x2.c never holds more than it was made for, and every *)
(* task stays in the states its code knows.                                *)
THEOREM TypeCorrect == Spec => []TypeOK
<1>1. IInv => TypeOK
  BY DEF IInv
<1> QED
  BY <1>1, Invariance, PTL

(* A display that has shown everything shows the message sent last, whole, *)
(* however the tasks that send to it were interleaved.                     *)
THEOREM ShowsTheLast == Spec => []ScreenIsLast
<1>1. IInv => ScreenIsLast
  BY DEF IInv
<1> QED
  BY <1>1, Invariance, PTL
=============================================================================
