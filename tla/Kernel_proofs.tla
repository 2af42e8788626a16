---------------------------- MODULE Kernel_proofs ----------------------------
(* Proofs about the scheduler and the queue, for any tasks, priorities and *)
(* waits, any length of the queue and any width of the tick counter.       *)
EXTENDS Kernel, FiniteSetTheorems, TLAPS

Inside == {"lock", "decide", "unlockTx", "moreTx", "unlockRx", "moreRx", "resume"}

(* The scheduler is suspended exactly while the running task is inside its *)
(* call; ticks are missed only meanwhile, and made up for by that task.    *)
Control ==
    /\ suspended => current \in Task /\ pc[current] \in Inside
    /\ \A t \in Task : pc[t] \in Inside => current = t /\ suspended
    /\ \A t \in Task : pc[t] = "unwind" => current = t /\ missed > 0 /\ ~suspended
    /\ missed > 0 => suspended \/ (current \in Task /\ pc[current] = "unwind")
    /\ \A t \in Task : event[t] = "pending" => suspended

TInv == TypeOK /\ Control

-----------------------------------------------------------------------------
(* Types *)

LEMMA IdleAside == Idle \notin Task /\ MaxDelay \in Nat /\ MaxDelay > 0
BY TaskAssumption, BoundAssumption

LEMMA NoTimeoutType == NoTimeout \in TimeOut
<1>1. 0 \in Time
  BY BoundAssumption DEF Time
<1> QED
  BY <1>1 DEF NoTimeout, TimeOut

LEMMA TypeInit == Init => TInv
<1> SUFFICES ASSUME Init PROVE TInv
  OBVIOUS
<1>1. 0 \in Time /\ MaxMissed \in Nat /\ Length \in Nat /\ MaxDelay \in Nat
  BY QueueAssumption, BoundAssumption DEF Time
<1>2. NoTimeout \in TimeOut
  BY NoTimeoutType
<1>3. lock \in [{"send", "receive"} -> Unlocked .. MaxMissed]
  BY <1>1 DEF Init, Unlocked
<1>4. TypeOK
  <2>1. /\ current \in Task \cup {Idle} /\ tick \in Time
        /\ missed \in 0 .. MaxMissed /\ count \in 0 .. Length
    BY <1>1 DEF Init
  <2>6. suspended \in BOOLEAN /\ yield \in BOOLEAN
    BY DEF Init
  <2>2. list \in [Task -> List] /\ wake \in [Task -> Time] /\ event \in [Task -> Event]
    BY <1>1 DEF Init, List, Event
  <2>4. pc \in [Task -> Place] /\ call \in [Task -> Call]
    BY DEF Init, Place, Call
  <2>5. timeout \in [Task -> TimeOut]
    BY <1>2 DEF Init
  <2>3. waited \in [Task -> 0 .. MaxDelay + 1]
    BY <1>1 DEF Init
  <2> QED
    BY <1>3, <2>1, <2>2, <2>3, <2>4, <2>5, <2>6 DEF TypeOK
<1>5. Control
  BY DEF Init, Control, Inside
<1> QED
  BY <1>4, <1>5 DEF TInv

LEMMA BestType == \A where : Best(where) \subseteq Task \cup {Idle}
BY DEF Best

LEMMA IncrementTickType ==
    ASSUME TypeOK, IncrementTick
    PROVE  /\ tick' \in Time
           /\ list' \in [Task -> List] /\ wake' \in [Task -> Time] /\ event' \in [Task -> Event]
           /\ timeout' \in [Task -> TimeOut] /\ waited' \in [Task -> 0 .. MaxDelay + 1]
           /\ \A t \in Task : event'[t] = "pending" => event[t] = "pending"
<1>1. tick' \in Time
  <2>1. tick' = IF tick = MaxDelay THEN 0 ELSE tick + 1
    BY DEF IncrementTick
  <2> QED
    BY <2>1, BoundAssumption DEF TypeOK, Time
<1>2. list' \in [Task -> List]
  BY DEF TypeOK, IncrementTick, List, Swapped
<1>3. wake' \in [Task -> Time]
  BY BoundAssumption DEF TypeOK, IncrementTick, Time
<1>4. event' \in [Task -> Event] /\ \A t \in Task : event'[t] = "pending" => event[t] = "pending"
  <2>1. event' = [t \in Task |-> event'[t]] /\ \A t \in Task : event'[t] \in {"none", event[t]}
    BY DEF IncrementTick
  <2>2. "none" \in Event
    BY DEF Event
  <2> QED
    BY <2>1, <2>2 DEF TypeOK
<1>5. timeout' \in [Task -> TimeOut]
  <2>1. timeout' = [t \in Task |->
            [timeout[t] EXCEPT !.wrapped = timeout[t].set /\ (@ \/ tick' = 0)]]
    BY DEF IncrementTick
  <2>2. ASSUME NEW o \in TimeOut, NEW b \in BOOLEAN
        PROVE  [o EXCEPT !.wrapped = b] \in TimeOut
    BY DEF TimeOut
  <2> QED
    BY <2>1, <2>2 DEF TypeOK
<1>6. waited' \in [Task -> 0 .. MaxDelay + 1]
  BY BoundAssumption DEF TypeOK, IncrementTick, Prompt
<1> QED
  BY <1>1, <1>2, <1>3, <1>4, <1>5, <1>6

LEMMA TickTimeout ==
    ASSUME TypeOK, IncrementTick, NEW t \in Task
    PROVE  /\ timeout'[t].left = timeout[t].left /\ timeout'[t].then = timeout[t].then
           /\ timeout'[t].set = timeout[t].set /\ timeout'[t].entered = timeout[t].entered
           /\ timeout'[t].wrapped = (timeout[t].set /\ (timeout[t].wrapped \/ tick' = 0))
           /\ waited'[t] = IF timeout[t].set /\ Prompt(t) THEN waited[t] + 1 ELSE waited[t]
<1>1. /\ timeout' = [u \in Task |->
            [timeout[u] EXCEPT !.wrapped = timeout[u].set /\ (@ \/ tick' = 0)]]
      /\ waited' = [u \in Task |-> IF timeout[u].set /\ Prompt(u) THEN waited[u] + 1 ELSE waited[u]]
  BY DEF IncrementTick
<1>2. timeout[t] \in TimeOut
  BY DEF TypeOK
<1> QED
  BY <1>1, <1>2 DEF TimeOut

LEMMA SleepForType ==
    ASSUME TypeOK, NEW t \in Task, NEW w \in Time, SleepFor(t, w)
    PROVE  list' \in [Task -> List] /\ wake' \in [Task -> Time]
BY BoundAssumption DEF TypeOK, SleepFor, List, Time

LEMMA RemoveType ==
    ASSUME TypeOK, NEW t \in Task, RemoveFromEventList(t)
    PROVE  /\ list' \in [Task -> List] /\ wake' \in [Task -> Time] /\ event' \in [Task -> Event]
           /\ \A u \in Task : event'[u] = "pending" => event[u] = "pending" \/ suspended
BY BoundAssumption DEF TypeOK, RemoveFromEventList, List, Event, Time

LEMMA SwitchType ==
    ASSUME TypeOK, SwitchContext
    PROVE  /\ current' \in Task \cup {Idle} /\ yield' \in BOOLEAN
           /\ suspended => current' = current
BY BestType DEF TypeOK, SwitchContext

LEMMA NotifyType ==
    ASSUME TypeOK, NEW c, Notify(c)
    PROVE  /\ list' \in [Task -> List] /\ wake' \in [Task -> Time] /\ event' \in [Task -> Event]
           /\ current' \in Task \cup {Idle} /\ yield' \in BOOLEAN
           /\ suspended => current' = current
           /\ \A u \in Task : event'[u] = "pending" => event[u] = "pending" \/ suspended
<1>1. CASE Waiting(WaitFor(c)) = {}
  BY <1>1 DEF Notify, TypeOK, lists
<1>2. CASE Waiting(WaitFor(c)) # {}
  <2>1. PICK t \in First(WaitFor(c)) :
          /\ RemoveFromEventList(t)
          /\ IF Prio[t] >= Priority(current) THEN SwitchContext
             ELSE UNCHANGED <<current, yield>>
    BY <1>2 DEF Notify
  <2>2. t \in Task
    BY DEF First, Waiting
  <2>3. current' \in Task \cup {Idle} /\ yield' \in BOOLEAN /\ (suspended => current' = current)
    BY <2>1, SwitchType DEF TypeOK
  <2> QED
    BY <2>1, <2>2, <2>3, RemoveType
<1> QED
  BY <1>1, <1>2

LEMMA ReturnType ==
    ASSUME TypeOK, NEW t \in Task, Return(t)
    PROVE  /\ pc' \in [Task -> Place] /\ call' \in [Task -> Call]
           /\ timeout' \in [Task -> TimeOut] /\ waited' \in [Task -> 0 .. MaxDelay + 1]
           /\ pc' = [pc EXCEPT ![t] = "out"]
BY BoundAssumption DEF TypeOK, Return, Goto, Place, Call, TimeOut, NoTimeout, Time

LEMMA ElapsedType ==
    ASSUME TypeOK, NEW t \in Task
    PROVE  Elapsed(t) \in Time
BY BoundAssumption DEF TypeOK, TimeOut, Elapsed, Time

LEMMA TypeStep == TInv /\ [Next]_vars => TInv'
<1> SUFFICES ASSUME TInv, [Next]_vars PROVE TInv'
  OBVIOUS
<1> USE DEF TInv
<1>t. TypeOK /\ Control
  OBVIOUS
<1>1. CASE Tick
  <2>1. CASE suspended
    <3>1. missed' = missed + 1 /\ missed < MaxMissed /\ yield' = TRUE
          /\ UNCHANGED <<current, suspended, lists, tick, queue, mine>>
      BY <1>1, <2>1 DEF Tick, SwitchContext, mine
    <3>2. TypeOK'
      BY <3>1, <1>t, BoundAssumption DEF TypeOK, lists, queue, mine
    <3>3. Control'
      BY <3>1, <2>1, <1>t DEF TypeOK, Control, lists, queue, mine
    <3> QED
      BY <3>2, <3>3
  <2>2. CASE ~suspended
    <3>1. /\ IncrementTick /\ SwitchContext /\ ~Masked
          /\ UNCHANGED <<missed, suspended, queue, pc, call>>
      BY <1>1, <2>2 DEF Tick
    <3>2. TypeOK'
      BY <3>1, <1>t, IncrementTickType, SwitchType DEF TypeOK, queue
    <3>3. \A t \in Task : pc[t] # "unwind" /\ pc[t] \notin Inside
      BY <3>1, <2>2, <1>t, IdleAside DEF TypeOK, Control, Masked
    <3>4. missed = 0
      BY <3>3, <2>2, <1>t DEF TypeOK, Control
    <3>5. Control'
      BY <3>1, <3>3, <3>4, <2>2, <1>t, IncrementTickType DEF Control
    <3> QED
      BY <3>2, <3>5
  <2> QED
    BY <2>1, <2>2
<1>2. ASSUME NEW c \in Isr, Device(c) PROVE TInv'
  <2>1. c \in {"send", "receive"}
    BY QueueAssumption
  <2>2. count' \in 0 .. Length
    BY <1>2, <2>1, <1>t, QueueAssumption DEF Device, Possible, Copy, TypeOK
  <2>3. /\ UNCHANGED <<suspended, missed, tick, mine>>
        /\ \/ Notify(c) /\ UNCHANGED lock
           \/ lock[c] < MaxMissed /\ lock' = [lock EXCEPT ![c] = @ + 1]
              /\ UNCHANGED <<lists, current, yield>>
    BY <1>2 DEF Device
  <2>4. /\ list' \in [Task -> List] /\ wake' \in [Task -> Time] /\ event' \in [Task -> Event]
        /\ current' \in Task \cup {Idle} /\ yield' \in BOOLEAN
        /\ suspended => current' = current
        /\ \A u \in Task : event'[u] = "pending" => event[u] = "pending" \/ suspended
    BY <2>3, <1>t, NotifyType DEF TypeOK, lists
  <2>5. lock' \in [{"send", "receive"} -> Unlocked .. MaxMissed]
    BY <2>1, <2>3, <1>t, BoundAssumption DEF TypeOK, Unlocked
  <2>6. TypeOK'
    BY <2>2, <2>3, <2>4, <2>5, <1>t DEF TypeOK, mine
  <2>7. current # Idle => pc[current] # "unwind"
    BY <1>2 DEF Device, Masked
  <2>8. Control'
    BY <2>3, <2>4, <2>7, <1>t, IdleAside DEF Control, mine
  <2> QED
    BY <2>6, <2>8
<1>3. ASSUME NEW t \in Task, Step(t) PROVE TInv'
  <2>1. CASE Begin(t)
    <3>1. PICK c \in Job[t] : call' = [call EXCEPT ![t] = c]
      BY <2>1 DEF Begin
    <3>2. c \in Call /\ Wait[t] \in Time
      BY TaskAssumption DEF Time
    <3>3. [NoTimeout EXCEPT !.left = Wait[t]] \in TimeOut
      BY <3>2, NoTimeoutType DEF TimeOut
    <3>4. timeout' = [timeout EXCEPT ![t] = [NoTimeout EXCEPT !.left = Wait[t]]]
      BY <2>1 DEF Begin
    <3>5. pc' = [pc EXCEPT ![t] = "call"] /\ UNCHANGED <<sched, lists, tick, queue, waited>>
      BY <2>1 DEF Begin, Goto
    <3>6. TypeOK'
      BY <3>1, <3>2, <3>3, <3>4, <3>5, <1>t DEF TypeOK, sched, lists, queue, Place
    <3>7. Control'
      BY <3>5, <2>1, <1>t DEF Begin, At, TypeOK, Control, sched, lists, Inside
    <3> QED
      BY <3>6, <3>7
  <2>2. CASE Do(t)
    <3>1. At(t, "call") /\ Notify(call[t]) /\ Return(t) /\ UNCHANGED <<suspended, missed, tick, lock>>
      BY <2>2 DEF Do
    <3>2. count' \in 0 .. Length
      BY <2>2, <1>t, QueueAssumption DEF Do, Possible, Copy, TypeOK, Call
    <3>3. ~suspended
      BY <3>1, <1>t DEF At, Control, Inside
    <3>4. /\ list' \in [Task -> List] /\ wake' \in [Task -> Time] /\ event' \in [Task -> Event]
          /\ current' \in Task \cup {Idle} /\ yield' \in BOOLEAN
          /\ \A u \in Task : event'[u] = "pending" => event[u] = "pending"
      BY <3>1, <3>3, <1>t, NotifyType
    <3>5. TypeOK'
      BY <3>1, <3>2, <3>4, <1>t, ReturnType DEF TypeOK
    <3>6. missed = 0 /\ pc' = [pc EXCEPT ![t] = "out"]
      BY <3>1, <3>3, <1>t, ReturnType DEF Control, TypeOK, At
    <3>7. \A u \in Task : pc[u] # "unwind" /\ pc[u] \notin Inside
      BY <3>1, <3>3, <1>t DEF Control, At
    <3>8. Control'
      BY <3>1, <3>3, <3>4, <3>6, <3>7, <1>t DEF Control, Inside, TypeOK
    <3> QED
      BY <3>5, <3>8
  <2>3. CASE GiveUp(t)
    <3>1. TypeOK'
      BY <2>3, <1>t, ReturnType DEF GiveUp, TypeOK, sched, lists, queue
    <3>2. pc' = [pc EXCEPT ![t] = "out"]
      BY <2>3, <1>t, ReturnType DEF GiveUp
    <3>3. Control'
      BY <2>3, <3>2, <1>t DEF GiveUp, At, TypeOK, Control, sched, lists, Inside
    <3> QED
      BY <3>1, <3>3
  <2>4. CASE MustWait(t)
    <3>1. timeout' \in [Task -> TimeOut]
      <4>1. timeout' = [timeout EXCEPT ![t] =
                IF @.set \/ @.left = MaxDelay THEN @ ELSE [@ EXCEPT !.set = TRUE, !.entered = tick]]
        BY <2>4 DEF MustWait
      <4>2. ASSUME NEW o \in TimeOut
            PROVE  [o EXCEPT !.set = TRUE, !.entered = tick] \in TimeOut
        BY DEF TimeOut, TypeOK
      <4> QED
        BY <4>1, <4>2, <1>t DEF TypeOK
    <3>2. TypeOK'
      BY <2>4, <3>1, <1>t DEF MustWait, Goto, TypeOK, sched, lists, queue, Place
    <3>3. /\ pc' = [pc EXCEPT ![t] = "suspend"] /\ current = t /\ pc[t] = "call"
          /\ UNCHANGED <<current, suspended, missed, event>>
      BY <2>4 DEF MustWait, At, Goto, sched, lists
    <3>4. ~suspended /\ missed = 0
      BY <3>3 DEF Control, Inside, TypeOK
    <3>5. \A u \in Task : pc'[u] = pc[u] \/ (u = t /\ pc'[u] = "suspend")
      BY <3>3 DEF TypeOK
    <3>6. Control'
      BY <3>3, <3>4, <3>5, <1>t DEF Control, Inside
    <3> QED
      BY <3>2, <3>6
  <2>5. CASE SuspendAll(t)
    <3>1. TypeOK'
      BY <2>5, <1>t DEF SuspendAll, Goto, TypeOK, lists, queue, Place
    <3>2. Control'
      BY <2>5, <1>t DEF SuspendAll, At, Goto, TypeOK, Control, lists, Inside
    <3> QED
      BY <3>1, <3>2
  <2>6. CASE LockQueue(t)
    <3>1. lock' \in [{"send", "receive"} -> Unlocked .. MaxMissed]
      BY <2>6, <1>t, BoundAssumption DEF LockQueue, TypeOK, Unlocked
    <3>2. TypeOK'
      BY <2>6, <3>1, <1>t DEF LockQueue, Goto, TypeOK, sched, lists, Place
    <3>3. Control'
      BY <2>6, <1>t DEF LockQueue, At, Goto, TypeOK, Control, sched, lists, Inside
    <3> QED
      BY <3>2, <3>3
  <2>7. CASE Decide(t)
    <3>1. timeout[t] \in TimeOut /\ Elapsed(t) \in Time /\ tick \in Time
      BY <1>t, ElapsedType DEF TypeOK
    <3>2. CASE TimedOut(t)
      BY <2>7, <3>2, <1>t DEF Decide, At, Goto, TypeOK, Control, TimeOut, Place, sched, lists,
         queue, Inside
    <3>3. CASE ~TimedOut(t)
      <4> DEFINE left == IF timeout[t].left = MaxDelay THEN MaxDelay
                         ELSE timeout[t].left - Elapsed(t)
                 from == IF timeout[t].left = MaxDelay THEN timeout[t]
                         ELSE [timeout[t] EXCEPT !.left = left, !.entered = tick,
                                                 !.wrapped = FALSE]
      <4>1. left \in Time
        BY <3>1, <3>3, BoundAssumption DEF TimedOut, TimeOut, Time
      <4>2. from \in TimeOut
        BY <3>1, <4>1 DEF TimeOut
      <4>3. /\ pc[t] = "decide" /\ current = t
            /\ pc' = [pc EXCEPT ![t] = "unlockTx"]
            /\ UNCHANGED <<sched, tick, queue, call, waited>>
        BY <2>7 DEF Decide, At, Goto
      <4>4. \/ /\ timeout' = [timeout EXCEPT ![t] = [from EXCEPT !.then = "again"]]
               /\ UNCHANGED lists
            \/ /\ timeout' = [timeout EXCEPT ![t] = [from EXCEPT !.then = "sleep"]]
               /\ PlaceOnEventList(t, WaitIn(call[t]), left)
        BY <2>7, <3>3 DEF Decide
      <4>5. timeout' \in [Task -> TimeOut]
        <5>1. [from EXCEPT !.then = "again"] \in TimeOut /\ [from EXCEPT !.then = "sleep"] \in TimeOut
          BY <4>2 DEF TimeOut
        <5> HIDE DEF from, left
        <5> QED
          BY <4>4, <5>1, <1>t DEF TypeOK
      <4>6. /\ list' \in [Task -> List] /\ wake' \in [Task -> Time] /\ event' \in [Task -> Event]
            /\ \A u \in Task : event'[u] = "pending" => event[u] = "pending"
        <5> HIDE DEF from, left
        <5>1. CASE UNCHANGED lists
          BY <5>1, <1>t DEF TypeOK, lists
        <5>2. CASE PlaceOnEventList(t, WaitIn(call[t]), left)
          <6>1. event' = [event EXCEPT ![t] = WaitIn(call[t])] /\ WaitIn(call[t]) \in {"toSend", "toReceive"}
            BY <5>2 DEF PlaceOnEventList, WaitIn
          <6>2. list' \in [Task -> List] /\ wake' \in [Task -> Time]
            BY <5>2, <4>1, <1>t, SleepForType DEF PlaceOnEventList, TypeOK, List
          <6> QED
            BY <6>1, <6>2, <1>t DEF TypeOK, Event
        <5> QED
          BY <4>4, <5>1, <5>2
      <4>7. TypeOK'
        BY <4>3, <4>5, <4>6, <1>t DEF TypeOK, sched, queue, Place
      <4>8. Control'
        BY <4>3, <4>6, <1>t DEF TypeOK, Control, sched, Inside
      <4> QED
        BY <4>7, <4>8
    <3> QED
      BY <3>2, <3>3
  <2>8. ASSUME NEW c \in {"send", "receive"}, NEW enter \in Inside, NEW more \in Inside,
               NEW next \in Inside, Unlock(t, c, enter, more, next)
        PROVE  TInv'
    <3>1. pc[t] \in Inside /\ current = t /\ suspended
      BY <2>8, <1>t DEF Unlock, At, Control
    <3>2. UNCHANGED <<current, suspended, missed, tick, count, call, timeout, waited>>
          /\ \E p \in Inside : pc' = [pc EXCEPT ![t] = p]
      BY <2>8 DEF Unlock, Goto
    <3>3. /\ list' \in [Task -> List] /\ wake' \in [Task -> Time] /\ event' \in [Task -> Event]
          /\ yield' \in BOOLEAN /\ lock' \in [{"send", "receive"} -> Unlocked .. MaxMissed]
      <4>1. CASE lock[c] > 0 /\ Waiting(WaitFor(c)) # {}
        <5>1. PICK u \in First(WaitFor(c)) :
                RemoveFromEventList(u) /\ yield' = (yield \/ Prio[u] >= Prio[t])
          BY <2>8, <4>1 DEF Unlock
        <5>2. u \in Task
          BY DEF First, Waiting
        <5>3. lock' \in [{"send", "receive"} -> Unlocked .. MaxMissed]
          BY <2>8, <4>1, <1>t, BoundAssumption DEF Unlock, TypeOK, Unlocked
        <5>4. yield' \in BOOLEAN
          BY <5>1
        <5> QED
          BY <5>1, <5>2, <5>3, <5>4, <1>t, RemoveType
      <4>2. CASE ~(lock[c] > 0 /\ Waiting(WaitFor(c)) # {})
        <5>1. lock' = [lock EXCEPT ![c] = Unlocked] /\ UNCHANGED <<lists, yield>>
          BY <2>8, <4>2 DEF Unlock
        <5> QED
          BY <5>1, <1>t, BoundAssumption DEF TypeOK, Unlocked, lists
      <4> QED
        BY <4>1, <4>2
    <3>4. TypeOK'
      BY <3>2, <3>3, <1>t DEF TypeOK, Place, Inside
    <3>5. Control'
      BY <3>1, <3>2, <1>t DEF TypeOK, Control, Inside
    <3> QED
      BY <3>4, <3>5
  <2>9. CASE UnlockTx(t)
    BY <2>9, <2>8 DEF UnlockTx, Inside
  <2>10. CASE UnlockRx(t)
    BY <2>10, <2>8 DEF UnlockRx, Inside
  <2>11. CASE Delay(t)
    <3>1. timeout' \in [Task -> TimeOut] /\ timeout[t].left \in Time
      BY <2>11, <1>t DEF Delay, TypeOK, TimeOut
    <3>2. TypeOK'
      BY <2>11, <3>1, <1>t, SleepForType DEF Delay, Goto, TypeOK, queue, Place
    <3>3. Control'
      BY <2>11, <1>t DEF Delay, At, Goto, TypeOK, Control, Inside
    <3> QED
      BY <3>2, <3>3
  <2>12. CASE ResumeAll(t)
    <3>1. /\ current = t /\ pc[t] = "resume" /\ suspended' = FALSE
          /\ list' = [u \in Task |-> IF u \in Waiting("pending") THEN "ready" ELSE list[u]]
          /\ event' = [u \in Task |-> IF u \in Waiting("pending") THEN "none" ELSE event[u]]
          /\ wake' = [u \in Task |-> IF u \in Waiting("pending") THEN 0 ELSE wake[u]]
          /\ UNCHANGED <<missed, tick, queue, call, timeout, waited>>
      BY <2>12 DEF ResumeAll, At
    <3>2. \/ missed > 0 /\ pc' = [pc EXCEPT ![t] = "unwind"] /\ UNCHANGED <<current, yield>>
          \/ /\ missed = 0 /\ yield' \in BOOLEAN /\ current' \in Task \cup {Idle}
             /\ \E p \in {"yield", "resumed"} : pc' = [pc EXCEPT ![t] = p]
      BY <2>12, <1>t, BestType DEF ResumeAll, Goto, TypeOK
    <3>3. list' \in [Task -> List] /\ wake' \in [Task -> Time] /\ event' \in [Task -> Event]
      BY <3>1, <1>t, BoundAssumption DEF TypeOK, List, Time, Event
    <3>4. \A u \in Task : event'[u] # "pending"
      BY <3>1 DEF Waiting
    <3>5. TypeOK'
      BY <3>1, <3>2, <3>3, <1>t DEF TypeOK, queue, Place
    <3>6. Control'
      BY <3>1, <3>2, <3>4, <1>t DEF TypeOK, Control, Inside
    <3> QED
      BY <3>5, <3>6
  <2>13. CASE Unwind(t)
    <3>1. /\ current = t /\ pc[t] = "unwind" /\ IncrementTick /\ missed' = missed - 1
          /\ UNCHANGED <<suspended, queue, call>>
      BY <2>13 DEF Unwind, At
    <3>2. \/ missed > 1 /\ UNCHANGED <<current, yield, pc>>
          \/ /\ ~(missed > 1) /\ yield' \in BOOLEAN /\ current' \in Task \cup {Idle}
             /\ pc' = [pc EXCEPT ![t] = "resumed"]
      BY <2>13, BestType DEF Unwind, Goto
    <3>3. missed > 0 /\ ~suspended
      BY <3>1, <1>t DEF Control
    <3>4. TypeOK'
      BY <3>1, <3>2, <3>3, <1>t, IncrementTickType, BoundAssumption DEF TypeOK, queue, Place
    <3>5. Control'
      BY <3>1, <3>2, <3>3, <1>t, IncrementTickType DEF TypeOK, Control, Inside
    <3> QED
      BY <3>4, <3>5
  <2>14. CASE Yield(t)
    <3>1. TypeOK'
      BY <2>14, <1>t, BestType DEF Yield, Goto, TypeOK, lists, queue, Place
    <3>2. \A u \in Task : pc[u] # "unwind" /\ pc[u] \notin Inside
      BY <2>14, <1>t DEF Yield, At, Control, Inside
    <3>3. Control'
      BY <2>14, <3>2, <1>t DEF Yield, At, Goto, TypeOK, Control, lists, Inside
    <3> QED
      BY <3>1, <3>3
  <2>15. CASE Resumed(t)
    <3>1. TypeOK'
      BY <2>15, <1>t, ReturnType DEF Resumed, Goto, TypeOK, sched, lists, queue, Place
    <3>2. \E p \in {"out", "call"} : pc' = [pc EXCEPT ![t] = p]
      BY <2>15, <1>t, ReturnType DEF Resumed, Goto
    <3>3. Control'
      BY <2>15, <3>2, <1>t DEF Resumed, At, TypeOK, Control, sched, lists, Inside
    <3> QED
      BY <3>1, <3>3
  <2> QED
    BY <1>3, <2>1, <2>2, <2>3, <2>4, <2>5, <2>6, <2>7, <2>9, <2>10, <2>11, <2>12, <2>13, <2>14,
       <2>15 DEF Step
<1>4. CASE UNCHANGED vars
  BY <1>4 DEF vars, sched, lists, queue, mine, TypeOK, Control
<1> QED
  BY <1>1, <1>2, <1>3, <1>4 DEF Next

(* The variables stay in their types for any tasks, waits and widths.      *)
THEOREM TypeCorrect == Spec => []TypeOK
<1>1. TInv => TypeOK
  BY DEF TInv
<1> QED
  BY <1>1, TypeInit, TypeStep, PTL DEF Spec

-----------------------------------------------------------------------------
(* Sleep *)

(* Only delays of at least a tick are asked for.                           *)
DelaysAreReal == \A t \in Task : pc[t] = "call" /\ call[t] = "delay" => timeout[t].left > 0

AInv == TInv /\ WakeIsAhead /\ DelaysAreReal

LEMMA SleepIsAhead ==
    ASSUME TypeOK, WakeIsAhead, NEW t \in Task, NEW w \in Time, w > 0, tick' = tick, SleepFor(t, w)
    PROVE  WakeIsAhead'
BY BoundAssumption DEF TypeOK, WakeIsAhead, SleepFor, Time, List

LEMMA TickIsAhead ==
    ASSUME TypeOK, WakeIsAhead, IncrementTick
    PROVE  WakeIsAhead'
<1> DEFINE now == IF tick = MaxDelay THEN 0 ELSE tick + 1
           where == [t \in Task |-> IF now = 0 THEN Swapped(list[t]) ELSE list[t]]
           due == {t \in Task : where[t] = "delayed" /\ wake[t] <= now}
<1>1. /\ tick' = now
      /\ list' = [t \in Task |-> IF t \in due THEN "ready" ELSE where[t]]
      /\ wake' = [t \in Task |-> IF t \in due THEN 0 ELSE wake[t]]
  BY DEF IncrementTick
<1> SUFFICES ASSUME NEW t \in Task, t \notin due
             PROVE  /\ where[t] = "delayed" => wake[t] > now
                    /\ where[t] = "overflow" => wake[t] < now
  BY <1>1 DEF WakeIsAhead
<1>2. wake[t] \in Time /\ tick \in Time /\ list[t] \in List
  BY DEF TypeOK
<1>3. where[t] = "delayed" => wake[t] > now
  BY <1>2, BoundAssumption DEF Time
<1>4. where[t] = "overflow" => wake[t] < now
  BY <1>2, BoundAssumption DEF Time, List, Swapped, WakeIsAhead
<1> QED
  BY <1>3, <1>4

LEMMA RemoveIsAhead ==
    ASSUME TypeOK, WakeIsAhead, NEW t \in Task, RemoveFromEventList(t), tick' = tick
    PROVE  WakeIsAhead'
BY DEF TypeOK, WakeIsAhead, RemoveFromEventList

LEMMA NotifyIsAhead ==
    ASSUME TypeOK, WakeIsAhead, NEW c, Notify(c), tick' = tick
    PROVE  WakeIsAhead'
<1>1. CASE Waiting(WaitFor(c)) = {}
  BY <1>1 DEF Notify, WakeIsAhead, lists
<1>2. CASE Waiting(WaitFor(c)) # {}
  BY <1>2, RemoveIsAhead DEF Notify, First, Waiting
<1> QED
  BY <1>1, <1>2

LEMMA AheadInit == Init => AInv
BY TypeInit DEF Init, AInv, WakeIsAhead, DelaysAreReal

LEMMA AheadStep == AInv /\ [Next]_vars => AInv'
<1> SUFFICES ASSUME AInv, [Next]_vars PROVE WakeIsAhead' /\ DelaysAreReal'
  BY TypeStep DEF AInv
<1>t. TypeOK /\ WakeIsAhead /\ DelaysAreReal /\ TypeOK'
  BY TypeStep DEF AInv, TInv
<1>1. CASE Tick
  <2>1. CASE suspended
    BY <1>1, <2>1, <1>t DEF Tick, lists, WakeIsAhead, DelaysAreReal
  <2>2. CASE ~suspended
    <3>1. IncrementTick /\ UNCHANGED <<pc, call>>
      BY <1>1, <2>2 DEF Tick
    <3>2. DelaysAreReal'
      BY <3>1, <1>t, TickTimeout DEF DelaysAreReal, TypeOK
    <3> QED
      BY <3>1, <3>2, <1>t, TickIsAhead
  <2> QED
    BY <2>1, <2>2
<1>2. ASSUME NEW c \in Isr, Device(c) PROVE WakeIsAhead' /\ DelaysAreReal'
  <2>1. WakeIsAhead'
    <3>1. CASE Notify(c)
      BY <1>2, <3>1, <1>t, NotifyIsAhead DEF Device
    <3>2. CASE UNCHANGED lists
      BY <1>2, <3>2, <1>t DEF Device, lists, WakeIsAhead
    <3> QED
      BY <1>2, <3>1, <3>2 DEF Device
  <2>2. DelaysAreReal'
    BY <1>2, <1>t DEF Device, mine, DelaysAreReal
  <2> QED
    BY <2>1, <2>2
<1>3. ASSUME NEW t \in Task, Step(t) PROVE WakeIsAhead' /\ DelaysAreReal'
  <2>1. CASE Begin(t)
    <3>1. timeout' = [timeout EXCEPT ![t] = [NoTimeout EXCEPT !.left = Wait[t]]]
          /\ (\E c \in Job[t] : call' = [call EXCEPT ![t] = c])
          /\ pc' = [pc EXCEPT ![t] = "call"]
      BY <2>1 DEF Begin, Goto
    <3>2. timeout'[t].left = Wait[t]
      BY <3>1, <1>t, NoTimeoutType DEF TypeOK, TimeOut
    <3>3. call'[t] = "delay" => Wait[t] > 0
      BY <3>1, <1>t, TaskAssumption DEF TypeOK
    <3>4. DelaysAreReal'
      BY <3>1, <3>2, <3>3, <1>t DEF DelaysAreReal, TypeOK
    <3>5. WakeIsAhead'
      BY <2>1, <1>t DEF Begin, lists, WakeIsAhead
    <3> QED
      BY <3>4, <3>5
  <2>2. CASE Do(t)
    <3>1. DelaysAreReal'
      BY <2>2, <1>t DEF Do, Return, Goto, DelaysAreReal, TypeOK
    <3> QED
      BY <2>2, <3>1, <1>t, NotifyIsAhead DEF Do
  <2>3. CASE GiveUp(t)
    BY <2>3, <1>t DEF GiveUp, Return, Goto, lists, WakeIsAhead, DelaysAreReal, TypeOK
  <2>4. CASE MustWait(t)
    BY <2>4, <1>t DEF MustWait, Goto, lists, WakeIsAhead, DelaysAreReal, TypeOK
  <2>5. CASE SuspendAll(t)
    BY <2>5, <1>t DEF SuspendAll, Goto, lists, WakeIsAhead, DelaysAreReal, TypeOK
  <2>6. CASE LockQueue(t)
    BY <2>6, <1>t DEF LockQueue, Goto, lists, WakeIsAhead, DelaysAreReal, TypeOK
  <2>7. CASE Decide(t)
    <3>1. pc' = [pc EXCEPT ![t] = "unlockTx"] /\ tick' = tick /\ call' = call
      BY <2>7 DEF Decide, Goto
    <3>2. \A u \in Task \ {t} : timeout'[u] = timeout[u]
      BY <2>7, <1>t DEF Decide, TypeOK
    <3>3. DelaysAreReal'
      BY <3>1, <3>2, <1>t DEF DelaysAreReal, TypeOK
    <3>4. CASE UNCHANGED lists
      BY <3>1, <3>3, <3>4, <1>t DEF lists, WakeIsAhead
    <3>5. CASE ~UNCHANGED lists
      <4> DEFINE left == IF timeout[t].left = MaxDelay THEN MaxDelay
                         ELSE timeout[t].left - Elapsed(t)
      <4>1. ~TimedOut(t) /\ PlaceOnEventList(t, WaitIn(call[t]), left)
        BY <2>7, <3>5 DEF Decide
      <4>2. timeout[t] \in TimeOut /\ Elapsed(t) \in Time
        BY <1>t, ElapsedType DEF TypeOK
      <4>3. left \in Time /\ left > 0
        BY <4>1, <4>2, BoundAssumption DEF TimedOut, TimeOut, Time
      <4> HIDE DEF left
      <4>4. CASE left = MaxDelay
        BY <4>1, <4>4, <3>1, <3>3, <1>t DEF PlaceOnEventList, WakeIsAhead, TypeOK
      <4>5. CASE left # MaxDelay
        BY <4>1, <4>3, <4>5, <3>1, <3>3, <1>t, SleepIsAhead DEF PlaceOnEventList
      <4> QED
        BY <4>4, <4>5
    <3> QED
      BY <3>4, <3>5
  <2>8. ASSUME NEW c \in {"send", "receive"}, NEW enter \in Inside, NEW more \in Inside,
               NEW next \in Inside, Unlock(t, c, enter, more, next)
        PROVE  WakeIsAhead' /\ DelaysAreReal'
    <3>1. UNCHANGED <<tick, call, timeout>> /\ \E p \in Inside : pc' = [pc EXCEPT ![t] = p]
      BY <2>8 DEF Unlock, Goto
    <3>2. DelaysAreReal'
      BY <3>1, <1>t DEF DelaysAreReal, TypeOK, Inside
    <3>3. WakeIsAhead'
      <4>1. CASE UNCHANGED lists
        BY <3>1, <4>1, <1>t DEF lists, WakeIsAhead
      <4>2. CASE \E u \in First(WaitFor(c)) : RemoveFromEventList(u)
        BY <3>1, <4>2, <1>t, RemoveIsAhead DEF First, Waiting
      <4> QED
        BY <2>8, <4>1, <4>2 DEF Unlock
    <3> QED
      BY <3>2, <3>3
  <2>9. CASE UnlockTx(t)
    BY <2>9, <2>8 DEF UnlockTx, Inside
  <2>10. CASE UnlockRx(t)
    BY <2>10, <2>8 DEF UnlockRx, Inside
  <2>11. CASE Delay(t)
    <3>1. timeout[t].left \in Time /\ timeout[t].left > 0
      BY <2>11, <1>t DEF Delay, At, TypeOK, TimeOut, DelaysAreReal
    <3>2. WakeIsAhead'
      BY <2>11, <3>1, <1>t, SleepIsAhead DEF Delay
    <3>3. DelaysAreReal'
      BY <2>11, <1>t DEF Delay, Goto, DelaysAreReal, TypeOK
    <3> QED
      BY <3>2, <3>3
  <2>12. CASE ResumeAll(t)
    <3>1. /\ list' = [u \in Task |-> IF u \in Waiting("pending") THEN "ready" ELSE list[u]]
          /\ wake' = [u \in Task |-> IF u \in Waiting("pending") THEN 0 ELSE wake[u]]
          /\ UNCHANGED <<tick, call, timeout>>
          /\ \E p \in {"unwind", "yield", "resumed"} : pc' = [pc EXCEPT ![t] = p]
      BY <2>12 DEF ResumeAll, Goto
    <3> QED
      BY <3>1, <1>t DEF WakeIsAhead, DelaysAreReal, TypeOK
  <2>13. CASE Unwind(t)
    <3>1. IncrementTick /\ call' = call /\ (pc' = pc \/ pc' = [pc EXCEPT ![t] = "resumed"])
      BY <2>13 DEF Unwind, Goto
    <3>2. DelaysAreReal'
      BY <3>1, <1>t, TickTimeout DEF DelaysAreReal, TypeOK
    <3> QED
      BY <3>1, <3>2, <1>t, TickIsAhead
  <2>14. CASE Yield(t)
    BY <2>14, <1>t DEF Yield, Goto, lists, WakeIsAhead, DelaysAreReal, TypeOK
  <2>15. CASE Resumed(t)
    <3>1. WakeIsAhead'
      BY <2>15, <1>t DEF Resumed, lists, WakeIsAhead
    <3>2. CASE Return(t)
      BY <3>1, <3>2, <1>t DEF Return, Goto, DelaysAreReal, TypeOK
    <3>3. CASE Goto(t, "call") /\ UNCHANGED <<call, timeout, waited>> /\ call[t] # "delay"
      BY <3>1, <3>3, <1>t DEF Goto, DelaysAreReal, TypeOK
    <3> QED
      BY <2>15, <3>2, <3>3 DEF Resumed
  <2> QED
    BY <1>3, <2>1, <2>2, <2>3, <2>4, <2>5, <2>6, <2>7, <2>9, <2>10, <2>11, <2>12, <2>13, <2>14,
       <2>15 DEF Step
<1>4. CASE UNCHANGED vars
  BY <1>4, <1>t DEF vars, lists, mine, WakeIsAhead, DelaysAreReal
<1> QED
  BY <1>1, <1>2, <1>3, <1>4 DEF Next

(* The comment of vTaskIncrementTick is right: no task is left in the list *)
(* of those who sleep until xTickCount wraps when it does.                 *)
THEOREM SleepersAreAhead == Spec => []WakeIsAhead
<1>1. AInv => WakeIsAhead
  BY DEF AInv
<1> QED
  BY <1>1, AheadInit, AheadStep, PTL DEF Spec

-----------------------------------------------------------------------------
(* Scheduling *)

Asleep == {"unlockTx", "moreTx", "unlockRx", "moreRx", "resume", "unwind", "yield"}

(* The running task is ready, or has gone to sleep and is on its way to    *)
(* the switch.                                                             *)
Awake(t) == list[t] = "ready" \/ (timeout[t].then = "sleep" /\ pc[t] \in Asleep)

(* No ready task is more urgent, except while missed ticks are made up for.*)
Top == (\A t \in Task : pc[t] # "unwind") =>
           \A t \in Task : list[t] = "ready" => Prio[t] <= Priority(current)

RInv == TInv /\ (current \in Task => Awake(current)) /\ Top

LEMMA BestIsTop ==
    ASSUME NEW where, NEW b \in Best(where)
    PROVE  /\ b \in Task => where[b] = "ready"
           /\ \A t \in Task : where[t] = "ready" => Prio[t] <= Priority(b)
<1>1. CASE {t \in Task : where[t] = "ready"} = {}
  BY <1>1, IdleAside DEF Best
<1>2. CASE {t \in Task : where[t] = "ready"} # {}
  BY <1>2, IdleAside DEF Best, Priority
<1> QED
  BY <1>1, <1>2

LEMMA BestIsRight ==
    ASSUME current' \in Best(list')
    PROVE  (current' \in Task => Awake(current)') /\ Top'
BY BestIsTop DEF Awake, Top, Priority

LEMMA TickReadies ==
    ASSUME TypeOK, IncrementTick, NEW t \in Task, list[t] = "ready"
    PROVE  list'[t] = "ready"
BY DEF TypeOK, IncrementTick, Swapped, List

(* After a wake-up: the switch has been made, or there was no need.        *)
LEMMA NotifyIsRight ==
    ASSUME TypeOK, NEW c, Notify(c), \A t \in Task : list[t] = "ready" => Prio[t] <= Priority(current)
    PROVE  \/ current' \in Best(list')
           \/ /\ current' = current
              /\ \A t \in Task : list'[t] = "ready" => Prio[t] <= Priority(current)
              /\ \A t \in Task : list[t] = "ready" => list'[t] = "ready"
<1>1. CASE Waiting(WaitFor(c)) = {}
  BY <1>1 DEF Notify, lists
<1>2. CASE Waiting(WaitFor(c)) # {}
  <2>1. PICK t \in First(WaitFor(c)) :
          /\ RemoveFromEventList(t)
          /\ IF Prio[t] >= Priority(current) THEN SwitchContext
             ELSE UNCHANGED <<current, yield>>
    BY <1>2 DEF Notify
  <2>2. t \in Task
    BY DEF First, Waiting
  <2>3. \A u \in Task : list[u] = "ready" => list'[u] = "ready"
    BY <2>1, <2>2 DEF RemoveFromEventList, TypeOK
  <2>4. CASE suspended
    BY <2>1, <2>3, <2>4 DEF RemoveFromEventList, SwitchContext
  <2>5. CASE ~suspended /\ Prio[t] >= Priority(current)
    BY <2>1, <2>5 DEF SwitchContext
  <2>6. CASE ~suspended /\ ~(Prio[t] >= Priority(current))
    <3>1. Prio[t] <= Priority(current)
      BY <2>2, <2>6, TaskAssumption DEF Priority, TypeOK
    <3> QED
      BY <2>1, <2>2, <2>3, <2>6, <3>1 DEF RemoveFromEventList, TypeOK
  <2> QED
    BY <2>4, <2>5, <2>6
<1> QED
  BY <1>1, <1>2

LEMMA HighestInit == Init => RInv
<1> SUFFICES ASSUME Init PROVE RInv
  OBVIOUS
<1>1. TInv
  BY TypeInit
<1>2. (current \in Task => Awake(current)) /\ Top
  BY IdleAside DEF Init, Awake, Top, Priority
<1> QED
  BY <1>1, <1>2 DEF RInv

LEMMA HighestStep == RInv /\ [Next]_vars => RInv'
<1> SUFFICES ASSUME RInv, [Next]_vars PROVE (current' \in Task => Awake(current)') /\ Top'
  BY TypeStep DEF RInv
<1>t. TypeOK /\ Control /\ Top /\ (current \in Task => Awake(current))
  BY DEF RInv, TInv
<1>1. CASE Tick
  <2>1. CASE suspended
    BY <1>1, <2>1, <1>t DEF Tick, SwitchContext, lists, Awake, Top, Priority
  <2>2. CASE ~suspended
    BY <1>1, <2>2, BestIsRight DEF Tick, SwitchContext
  <2> QED
    BY <2>1, <2>2
<1>2. ASSUME NEW c \in Isr, Device(c) PROVE (current' \in Task => Awake(current)') /\ Top'
  <2>1. \A t \in Task : pc[t] # "unwind"
    BY <1>2, <1>t, IdleAside DEF Device, Masked, Control
  <2>2. \A t \in Task : list[t] = "ready" => Prio[t] <= Priority(current)
    BY <2>1, <1>t DEF Top
  <2>3. UNCHANGED mine
    BY <1>2 DEF Device
  <2>4. CASE Notify(c)
    <3>1. CASE current' \in Best(list')
      BY <3>1, BestIsRight
    <3>2. CASE ~(current' \in Best(list'))
      BY <2>2, <2>3, <2>4, <3>2, <1>t, NotifyIsRight DEF mine, Awake, Top, Priority
    <3> QED
      BY <3>1, <3>2
  <2>5. CASE UNCHANGED <<lists, current>>
    BY <2>3, <2>5, <1>t DEF lists, mine, Awake, Top, Priority
  <2> QED
    BY <1>2, <2>4, <2>5 DEF Device
<1>3. ASSUME NEW t \in Task, Step(t) PROVE (current' \in Task => Awake(current)') /\ Top'
  <2>a. current = t
    BY <1>3 DEF Step, Begin, Do, GiveUp, MustWait, SuspendAll, LockQueue, Decide, UnlockTx, UnlockRx,
       Unlock, Delay, ResumeAll, Unwind, Yield, Resumed, At
  <2>b. Awake(t)
    BY <2>a, <1>t
  <2>q. ASSUME UNCHANGED <<current, lists>>, NEW p \in Place \ Asleep, pc' = [pc EXCEPT ![t] = p],
               pc[t] \notin Asleep
        PROVE  (current' \in Task => Awake(current)') /\ Top'
    BY <2>q, <2>a, <2>b, <1>t DEF lists, Awake, Top, Priority, Asleep, TypeOK
  <2>1. CASE Begin(t)
    BY <2>1, <2>q DEF Begin, At, Goto, sched, Place, Asleep
  <2>2. CASE Do(t)
    <3>1. pc[t] = "call" /\ Notify(call[t]) /\ pc' = [pc EXCEPT ![t] = "out"]
      BY <2>2 DEF Do, At, Return, Goto
    <3>2. list[t] = "ready"
      BY <3>1, <2>b DEF Awake, Asleep
    <3>3. \A u \in Task : pc[u] # "unwind" /\ pc'[u] # "unwind"
      BY <3>1, <2>a, <1>t DEF Control, TypeOK
    <3>4. \A u \in Task : list[u] = "ready" => Prio[u] <= Priority(current)
      BY <3>3, <1>t DEF Top
    <3>5. CASE current' \in Best(list')
      BY <3>5, BestIsRight
    <3>6. CASE ~(current' \in Best(list'))
      BY <3>1, <3>2, <3>4, <3>6, <2>a, <1>t, NotifyIsRight DEF Awake, Top, Priority
    <3> QED
      BY <3>5, <3>6
  <2>3. CASE GiveUp(t)
    BY <2>3, <2>q DEF GiveUp, At, Return, Goto, sched, Place, Asleep
  <2>4. CASE MustWait(t)
    BY <2>4, <2>q DEF MustWait, At, Goto, sched, Place, Asleep
  <2>5. CASE SuspendAll(t)
    BY <2>5, <2>q DEF SuspendAll, At, Goto, Place, Asleep
  <2>6. CASE LockQueue(t)
    BY <2>6, <2>q DEF LockQueue, At, Goto, sched, Place, Asleep
  <2>7. CASE Decide(t)
    <3>1. pc[t] = "decide" /\ pc' = [pc EXCEPT ![t] = "unlockTx"] /\ current' = current
      BY <2>7 DEF Decide, At, Goto, sched
    <3>2. list[t] = "ready" /\ \A u \in Task : pc[u] # "unwind"
      BY <3>1, <2>a, <2>b, <1>t DEF Awake, Asleep, Control
    <3>3. UNCHANGED list \/ (timeout'[t].then = "sleep" /\ \A u \in Task \ {t} : list'[u] = list[u])
      <4>1. CASE TimedOut(t) \/ Possible(call[t])
        BY <2>7, <4>1 DEF Decide, lists
      <4>2. CASE ~TimedOut(t) /\ ~Possible(call[t])
        <5>1. PICK from, left : /\ timeout' = [timeout EXCEPT ![t] = [from EXCEPT !.then = "sleep"]]
                                /\ PlaceOnEventList(t, WaitIn(call[t]), left)
                                /\ from \in TimeOut
          <6> DEFINE left == IF timeout[t].left = MaxDelay THEN MaxDelay
                             ELSE timeout[t].left - Elapsed(t)
                     from == IF timeout[t].left = MaxDelay THEN timeout[t]
                             ELSE [timeout[t] EXCEPT !.left = left, !.entered = tick,
                                                     !.wrapped = FALSE]
          <6>1. /\ timeout' = [timeout EXCEPT ![t] = [from EXCEPT !.then = "sleep"]]
                /\ PlaceOnEventList(t, WaitIn(call[t]), left)
            BY <2>7, <4>2 DEF Decide
          <6>2. timeout[t] \in TimeOut /\ Elapsed(t) \in Time /\ tick \in Time
            BY <1>t, ElapsedType DEF TypeOK
          <6>3. left \in Time
            BY <4>2, <6>2, BoundAssumption DEF TimedOut, TimeOut, Time
          <6>4. from \in TimeOut
            BY <6>2, <6>3 DEF TimeOut
          <6> QED
            BY <6>1, <6>4
        <5>2. timeout'[t].then = "sleep"
          BY <5>1, <1>t DEF TypeOK, TimeOut
        <5>3. \A u \in Task \ {t} : list'[u] = list[u]
          BY <5>1, <1>t DEF PlaceOnEventList, SleepFor, TypeOK
        <5> QED
          BY <5>2, <5>3
      <4> QED
        BY <4>1, <4>2
    <3>4. Awake(t)'
      BY <3>1, <3>2, <3>3, <1>t DEF Awake, Asleep, TypeOK
    <3>5. Prio[t] <= Priority(current)
      BY <2>a, TaskAssumption, IdleAside DEF Priority
    <3>6. \A u \in Task : list'[u] = "ready" => Prio[u] <= Priority(current)
      BY <3>2, <3>3, <3>5, <1>t DEF Top
    <3> QED
      BY <3>1, <3>4, <3>6, <2>a DEF Top, Priority
  <2>8. ASSUME NEW c \in {"send", "receive"}, NEW enter \in Inside \cap Asleep,
               NEW more \in Inside \cap Asleep, NEW next \in Inside \cap Asleep,
               Unlock(t, c, enter, more, next)
        PROVE  (current' \in Task => Awake(current)') /\ Top'
    <3>1. /\ current' = current /\ timeout' = timeout
          /\ \E p \in Inside \cap Asleep : pc' = [pc EXCEPT ![t] = p]
          /\ pc[t] \in Inside
      BY <2>8 DEF Unlock, At, Goto
    <3>2. suspended
      BY <3>1, <1>t DEF Control
    <3>3. list' = list
      BY <2>8, <3>2 DEF Unlock, RemoveFromEventList, lists
    <3>4. \A u \in Task : pc[u] # "unwind"
      BY <3>2, <1>t DEF Control
    <3> QED
      BY <3>1, <3>3, <3>4, <2>a, <2>b, <1>t DEF Awake, Top, Priority, TypeOK
  <2>9. CASE UnlockTx(t)
    BY <2>9, <2>8 DEF UnlockTx, Inside, Asleep
  <2>10. CASE UnlockRx(t)
    BY <2>10, <2>8 DEF UnlockRx, Inside, Asleep
  <2>11. CASE Delay(t)
    <3>1. /\ pc[t] = "call" /\ pc' = [pc EXCEPT ![t] = "resume"] /\ current' = current
          /\ timeout' = [timeout EXCEPT ![t].then = "sleep"] /\ SleepFor(t, timeout[t].left)
      BY <2>11 DEF Delay, At, Goto
    <3>2. Awake(t)'
      BY <3>1, <1>t DEF Awake, Asleep, TypeOK, TimeOut
    <3>3. \A u \in Task : pc[u] # "unwind"
      BY <3>1, <2>a, <1>t DEF Control
    <3>4. \A u \in Task : list'[u] = "ready" => list[u] = "ready"
      BY <3>1, <1>t DEF SleepFor, TypeOK
    <3> QED
      BY <3>1, <3>2, <3>3, <3>4, <2>a, <1>t DEF Top, Priority
  <2>12. CASE ResumeAll(t)
    <3>1. /\ pc[t] = "resume" /\ timeout' = timeout
          /\ list' = [u \in Task |-> IF u \in Waiting("pending") THEN "ready" ELSE list[u]]
      BY <2>12 DEF ResumeAll, At
    <3>2. \/ /\ pc' = [pc EXCEPT ![t] = "unwind"] /\ current' = current
          \/ current' \in Best(list')
          \/ /\ ~(yield \/ \E u \in Waiting("pending") : Prio[u] >= Prio[t])
             /\ pc' = [pc EXCEPT ![t] = IF timeout[t].then = "sleep" THEN "yield" ELSE "resumed"]
             /\ current' = current
      BY <2>12 DEF ResumeAll, Goto
    <3>3. CASE pc' = [pc EXCEPT ![t] = "unwind"] /\ current' = current
      BY <3>1, <3>3, <2>a, <2>b, <1>t DEF Awake, Asleep, Top, TypeOK
    <3>4. CASE current' \in Best(list')
      BY <3>4, BestIsRight
    <3>5. CASE /\ ~(yield \/ \E u \in Waiting("pending") : Prio[u] >= Prio[t])
               /\ pc' = [pc EXCEPT ![t] = IF timeout[t].then = "sleep" THEN "yield" ELSE "resumed"]
               /\ current' = current
      <4>1. Awake(t)'
        BY <3>1, <3>5, <2>b, <1>t DEF Awake, Asleep, TypeOK
      <4>2. \A u \in Task : pc[u] # "unwind"
        BY <3>1, <2>a, <1>t DEF Control
      <4>3. Priority(current) = Prio[t] /\ \A u \in Task : Prio[u] \in Nat
        BY <2>a, TaskAssumption, IdleAside DEF Priority
      <4>4. \A u \in Task : list'[u] = "ready" => Prio[u] <= Priority(current)
        BY <3>1, <3>5, <4>2, <4>3, <1>t DEF Top, Waiting
      <4> QED
        BY <3>5, <4>1, <4>4, <2>a DEF Top, Priority
    <3> QED
      BY <3>2, <3>3, <3>4, <3>5
  <2>13. CASE Unwind(t)
    <3>1. pc[t] = "unwind" /\ IncrementTick
      BY <2>13 DEF Unwind, At
    <3>2. CASE missed > 1
      <4>1. current' = current /\ pc' = pc
        BY <2>13, <3>2 DEF Unwind
      <4>2. Awake(t)'
        BY <3>1, <4>1, <2>b, <1>t, TickReadies, TickTimeout DEF Awake
      <4> QED
        BY <3>1, <4>1, <4>2, <2>a DEF Top
    <3>3. CASE ~(missed > 1)
      BY <2>13, <3>3, BestIsRight DEF Unwind
    <3> QED
      BY <3>2, <3>3
  <2>14. CASE Yield(t)
    BY <2>14, BestIsRight DEF Yield, lists
  <2>15. CASE Resumed(t)
    BY <2>15, <2>q DEF Resumed, At, Return, Goto, sched, Place, Asleep
  <2> QED
    BY <1>3, <2>1, <2>2, <2>3, <2>4, <2>5, <2>6, <2>7, <2>9, <2>10, <2>11, <2>12, <2>13, <2>14,
       <2>15 DEF Step
<1>4. CASE UNCHANGED vars
  BY <1>4, <1>t DEF vars, sched, lists, mine, Awake, Top, Priority
<1> QED
  BY <1>1, <1>2, <1>3, <1>4 DEF Next

(* Whatever tasks, devices and ticks do, the task that runs is a ready one *)
(* of the highest priority, or on its way to the switch.                   *)
THEOREM TheUrgentRun == Spec => []HighestRuns
<1>1. RInv => HighestRuns
  <2> SUFFICES ASSUME RInv, ~suspended, ~Masked
               PROVE  \/ current \in Best(list)
                      \/ /\ current # Idle /\ pc[current] = "yield"
                         /\ \A t \in Task : list[t] = "ready" => Prio[t] <= Prio[current]
    BY DEF HighestRuns
  <2>1. TypeOK /\ Control /\ Top /\ (current \in Task => Awake(current))
    BY DEF RInv, TInv
  <2>2. \A t \in Task : pc[t] # "unwind" /\ pc[t] \notin Inside
    BY <2>1, IdleAside DEF Masked, Control
  <2>3. \A t \in Task : list[t] = "ready" => Prio[t] <= Priority(current)
    BY <2>1, <2>2 DEF Top
  <2>4. CASE current = Idle
    <3>1. \A t \in Task : list[t] # "ready"
      BY <2>3, <2>4, TaskAssumption DEF Priority
    <3> QED
      BY <2>4, <3>1 DEF Best
  <2>5. CASE current \in Task
    <3>1. Priority(current) = Prio[current] /\ current # Idle
      BY <2>5, IdleAside DEF Priority
    <3>2. list[current] = "ready" \/ pc[current] = "yield"
      BY <2>1, <2>2, <2>5 DEF Awake, Asleep, Inside
    <3> QED
      BY <2>3, <2>5, <3>1, <3>2 DEF Best
  <2> QED
    BY <2>1, <2>4, <2>5 DEF TypeOK
<1> QED
  BY <1>1, HighestInit, HighestStep, PTL DEF Spec

-----------------------------------------------------------------------------
(* Time *)

(* What the timeout of task t says: how much of the wait is over and how   *)
(* much is left, as long as the clock has not gone past it.                *)
Timed(t) ==
    /\ timeout[t].set => pc[t] # "out" /\ Wait[t] # MaxDelay /\ timeout[t].left <= Wait[t]
    /\ ~timeout[t].set => /\ waited[t] = 0 /\ ~timeout[t].wrapped /\ timeout[t].then # "fail"
                          /\ pc[t] # "out" => timeout[t].left = Wait[t]
    /\ pc[t] \in {"suspend", "lock", "decide"} /\ Wait[t] # MaxDelay => timeout[t].set
    /\ timeout[t].set /\ Prompt(t) =>
           /\ waited[t] + timeout[t].left = Wait[t] + Elapsed(t)
           /\ timeout[t].wrapped <=> tick < timeout[t].entered

(* And a task that sleeps in a call on the queue has such a timeout.       *)
Slept(t) ==
    /\ call[t] # "delay" /\ list[t] \in {"delayed", "overflow"} /\ event[t] \in {"toSend", "toReceive"}
           => timeout[t].set /\ (Prompt(t) => waited[t] + Until(t) = Wait[t])
    /\ timeout[t].then = "fail" /\ Prompt(t) => waited[t] >= Wait[t]

EInv == AInv /\ RInv /\ \A t \in Task : Timed(t) /\ Slept(t)

InCall == {"suspend", "lock", "decide"}

LEMMA WaitType == \A t \in Task : Wait[t] \in 0 .. MaxDelay
BY TaskAssumption

(* Steps that leave the timeout of task u alone.                           *)
LEMMA Same ==
    ASSUME NEW u \in Task, Timed(u), Slept(u), tick' = tick, waited'[u] = waited[u],
           timeout'[u].left = timeout[u].left, timeout'[u].set = timeout[u].set,
           timeout'[u].entered = timeout[u].entered, timeout'[u].wrapped = timeout[u].wrapped,
           timeout'[u].then \in {timeout[u].then, "again", "sleep"},
           pc'[u] = "out" <=> pc[u] = "out", pc'[u] \in InCall => pc[u] \in InCall,
           call'[u] = call[u],
           \/ list'[u] = list[u] /\ wake'[u] = wake[u] /\ event'[u] = event[u]
           \/ list'[u] = "ready" \/ event'[u] \in {"pending", "none"} \/ call'[u] = "delay"
    PROVE  Timed(u)' /\ Slept(u)'
<1>1. Prompt(u)' = Prompt(u) /\ Elapsed(u)' = Elapsed(u)
  BY DEF Prompt, Elapsed
<1>2. Timed(u)'
  BY <1>1 DEF Timed, InCall
<1>3. Slept(u)'
  BY <1>1 DEF Slept, Until
<1> QED
  BY <1>2, <1>3

Kept(u) == \/ list'[u] = list[u] /\ wake'[u] = wake[u] /\ event'[u] = event[u]
           \/ list'[u] = "ready" \/ event'[u] \in {"pending", "none"}

LEMMA RemoveKeeps ==
    ASSUME TypeOK, NEW t \in Task, RemoveFromEventList(t), NEW u \in Task
    PROVE  Kept(u)
BY DEF TypeOK, RemoveFromEventList, Kept

LEMMA NotifyKeeps ==
    ASSUME TypeOK, NEW c, Notify(c), NEW u \in Task
    PROVE  Kept(u)
<1>1. CASE Waiting(WaitFor(c)) = {}
  BY <1>1 DEF Notify, lists, Kept
<1>2. CASE Waiting(WaitFor(c)) # {}
  BY <1>2, RemoveKeeps DEF Notify, First, Waiting
<1> QED
  BY <1>1, <1>2

LEMMA ReturnTimed ==
    ASSUME TypeOK, NEW t \in Task, Return(t)
    PROVE  Timed(t)' /\ Slept(t)'
<1>1. /\ pc'[t] = "out" /\ call'[t] = "delay" /\ timeout'[t] = NoTimeout /\ waited'[t] = 0
  BY DEF TypeOK, Return, Goto
<1> QED
  BY <1>1 DEF Timed, Slept, NoTimeout

(* A tick makes the wait one longer and what is left of it one shorter.    *)
LEMMA TickTimed ==
    ASSUME AInv, IncrementTick, call' = call, NEW u \in Task, Timed(u), Slept(u),
           pc'[u] = "out" <=> pc[u] = "out", pc'[u] \in InCall => pc[u] \in InCall
    PROVE  Timed(u)' /\ Slept(u)'
<1> DEFINE now == IF tick = MaxDelay THEN 0 ELSE tick + 1
           where == [t \in Task |-> IF now = 0 THEN Swapped(list[t]) ELSE list[t]]
           due == {t \in Task : where[t] = "delayed" /\ wake[t] <= now}
<1>1. /\ tick' = now
      /\ list' = [t \in Task |-> IF t \in due THEN "ready" ELSE where[t]]
      /\ wake' = [t \in Task |-> IF t \in due THEN 0 ELSE wake[t]]
      /\ event' = [t \in Task |-> IF t \in due THEN "none" ELSE event[t]]
  BY DEF IncrementTick
<1>2. TypeOK /\ WakeIsAhead
  BY DEF AInv, TInv
<1>3. /\ tick \in Time /\ wake[u] \in Time /\ list[u] \in List /\ waited[u] \in 0 .. MaxDelay + 1
      /\ timeout[u].left \in Time /\ timeout[u].entered \in Time
      /\ timeout[u].set \in BOOLEAN /\ timeout[u].wrapped \in BOOLEAN
  BY <1>2 DEF TypeOK, TimeOut
<1>4. /\ timeout'[u].left = timeout[u].left /\ timeout'[u].then = timeout[u].then
      /\ timeout'[u].set = timeout[u].set /\ timeout'[u].entered = timeout[u].entered
      /\ timeout'[u].wrapped = (timeout[u].set /\ (timeout[u].wrapped \/ tick' = 0))
      /\ waited'[u] = IF timeout[u].set /\ Prompt(u) THEN waited[u] + 1 ELSE waited[u]
  BY <1>2, TickTimeout
<1>5. Prompt(u)' => Prompt(u) /\ (timeout[u].set => waited'[u] = waited[u] + 1)
  BY <1>3, <1>4, BoundAssumption DEF Prompt
<1>6. timeout[u].set /\ Prompt(u)' =>
        /\ waited'[u] + timeout'[u].left = Wait[u] + Elapsed(u)'
        /\ timeout'[u].wrapped <=> tick' < timeout'[u].entered
  <2> SUFFICES ASSUME timeout[u].set, Prompt(u)'
               PROVE  /\ waited'[u] + timeout'[u].left = Wait[u] + Elapsed(u)'
                      /\ timeout'[u].wrapped <=> tick' < timeout'[u].entered
    OBVIOUS
  <2>1. /\ waited[u] + timeout[u].left = Wait[u] + Elapsed(u)
        /\ timeout[u].wrapped <=> tick < timeout[u].entered
        /\ waited[u] < MaxDelay /\ timeout[u].left <= Wait[u]
    <3>1. Prompt(u)
      BY <1>5
    <3>2. /\ waited[u] + timeout[u].left = Wait[u] + Elapsed(u)
          /\ timeout[u].wrapped <=> tick < timeout[u].entered
      BY <3>1 DEF Timed
    <3>3. timeout[u].left <= Wait[u]
      BY DEF Timed
    <3>4. waited[u] < MaxDelay
      BY <1>3, <1>5, BoundAssumption DEF Prompt
    <3> QED
      BY <3>2, <3>3, <3>4
  <2>2. Elapsed(u) < MaxDelay /\ Elapsed(u) \in Nat
    BY <2>1, <1>2, <1>3, WaitType, ElapsedType, BoundAssumption DEF Time
  <2>3. Elapsed(u)' = Elapsed(u) + 1
    BY <2>2, <1>1, <1>3, <1>4, BoundAssumption DEF Elapsed, Time
  <2>4. timeout'[u].wrapped <=> tick' < timeout'[u].entered
    <3>1. CASE now = 0
      <4>1. tick = MaxDelay /\ timeout[u].entered > 0
        BY <3>1, <2>2, <1>3, BoundAssumption DEF Elapsed, Time
      <4>2. tick' < timeout'[u].entered
        BY <3>1, <4>1, <1>1, <1>4
      <4>3. timeout'[u].wrapped
        BY <3>1, <1>1, <1>4
      <4> QED
        BY <4>2, <4>3
    <3>2. CASE now # 0
      <4>1. tick < timeout[u].entered <=> tick' < timeout'[u].entered
        BY <3>2, <2>2, <1>1, <1>3, <1>4, BoundAssumption DEF Elapsed, Time
      <4>2. timeout'[u].wrapped <=> timeout[u].wrapped
        BY <3>2, <1>1, <1>4
      <4> QED
        BY <4>1, <4>2, <2>1
    <3> QED
      BY <3>1, <3>2
  <2>5. waited'[u] + timeout'[u].left = Wait[u] + Elapsed(u)'
    BY <2>1, <2>2, <2>3, <1>3, <1>4, <1>5, WaitType, BoundAssumption DEF Time
  <2> QED
    BY <2>4, <2>5
<1>7. Timed(u)'
  <2>1. timeout'[u].set => pc'[u] # "out" /\ Wait[u] # MaxDelay /\ timeout'[u].left <= Wait[u]
    BY <1>4 DEF Timed
  <2>2. ~timeout'[u].set => /\ waited'[u] = 0 /\ ~timeout'[u].wrapped /\ timeout'[u].then # "fail"
                            /\ pc'[u] # "out" => timeout'[u].left = Wait[u]
    BY <1>4 DEF Timed
  <2>3. pc'[u] \in InCall /\ Wait[u] # MaxDelay => timeout'[u].set
    BY <1>4 DEF Timed, InCall
  <2> QED
    BY <1>4, <1>6, <2>1, <2>2, <2>3 DEF Timed, InCall
<1>8. Slept(u)'
  <2>1. timeout'[u].then = "fail" /\ Prompt(u)' => waited'[u] >= Wait[u]
    BY <1>3, <1>4, <1>5, WaitType, BoundAssumption DEF Slept
  <2>2. ASSUME call'[u] # "delay", list'[u] \in {"delayed", "overflow"},
               event'[u] \in {"toSend", "toReceive"}
        PROVE  timeout'[u].set /\ (Prompt(u)' => waited'[u] + Until(u)' = Wait[u])
    <3>1. u \notin due
      BY <2>2, <1>1
    <3>2. list'[u] = where[u] /\ wake'[u] = wake[u] /\ event'[u] = event[u]
      BY <3>1, <1>1
    <3>3. list[u] \in {"delayed", "overflow"}
      BY <2>2, <3>2, <1>3 DEF Swapped, List
    <3>4. timeout[u].set /\ (Prompt(u) => waited[u] + Until(u) = Wait[u])
      BY <2>2, <3>2, <3>3 DEF Slept
    <3>5. CASE now = 0
      <4>1. tick = MaxDelay
        BY <3>5, <1>3, BoundAssumption DEF Time
      <4>2. list[u] = "overflow" /\ where[u] = "delayed"
        BY <3>3, <4>1, <1>2, <1>3, BoundAssumption DEF WakeIsAhead, Time, Swapped
      <4>3. wake[u] > 0
        BY <3>1, <3>5, <4>2, <1>3 DEF Time
      <4>4. Until(u) = wake[u] + 1 /\ Until(u)' = wake[u]
        BY <3>2, <3>5, <4>1, <4>3, <1>1, <1>3, BoundAssumption DEF Until, Time
      <4> QED
        BY <3>4, <4>4, <1>3, <1>4, <1>5, WaitType, BoundAssumption DEF Time
    <3>6. CASE now # 0
      <4>1. now = tick + 1 /\ where[u] = list[u]
        BY <3>6
      <4>2. CASE list[u] = "delayed"
        <5>1. wake[u] > tick + 1
          BY <3>1, <4>1, <4>2, <1>3 DEF Time
        <5>2. Until(u) = wake[u] - tick /\ Until(u)' = wake[u] - tick - 1
          BY <5>1, <3>2, <4>1, <1>1, <1>3, BoundAssumption DEF Until, Time
        <5> QED
          BY <3>4, <5>2, <1>3, <1>4, <1>5, WaitType, BoundAssumption DEF Time
      <4>3. CASE list[u] = "overflow"
        <5>1. wake[u] < tick
          BY <4>3, <1>2 DEF WakeIsAhead
        <5>2. Until(u) = wake[u] + MaxDelay + 1 - tick /\ Until(u)' = wake[u] + MaxDelay - tick
          BY <5>1, <3>2, <4>1, <1>1, <1>3, BoundAssumption DEF Until, Time
        <5> QED
          BY <3>4, <5>2, <1>3, <1>4, <1>5, WaitType, BoundAssumption DEF Time
      <4> QED
        BY <3>3, <4>2, <4>3
    <3> QED
      BY <3>5, <3>6
  <2> QED
    BY <2>1, <2>2 DEF Slept
<1> QED
  BY <1>7, <1>8

LEMMA TimedInit == Init => EInv
<1> SUFFICES ASSUME Init PROVE \A t \in Task : Timed(t) /\ Slept(t)
  BY AheadInit, HighestInit DEF EInv
<1>1. \A t \in Task : /\ pc[t] = "out" /\ timeout[t] = NoTimeout /\ waited[t] = 0
                      /\ call[t] = "delay"
  BY DEF Init
<1> QED
  BY <1>1 DEF Timed, Slept, NoTimeout

LEMMA TimedStep == EInv /\ [Next]_vars => EInv'
<1> SUFFICES ASSUME EInv, [Next]_vars, NEW u \in Task PROVE Timed(u)' /\ Slept(u)'
  BY AheadStep, HighestStep DEF EInv
<1>t. TypeOK /\ TypeOK' /\ Control /\ (current \in Task => Awake(current)) /\ AInv
  BY TypeStep DEF EInv, AInv, RInv, TInv
<1>u. Timed(u) /\ Slept(u)
  BY DEF EInv
<1>1. CASE Tick
  <2>1. CASE suspended
    BY <1>1, <2>1, <1>u, Same DEF Tick, lists
  <2>2. CASE ~suspended
    BY <1>1, <2>2, <1>t, <1>u, TickTimed DEF Tick
  <2> QED
    BY <2>1, <2>2
<1>2. ASSUME NEW c \in Isr, Device(c) PROVE Timed(u)' /\ Slept(u)'
  <2>1. Kept(u)
    BY <1>2, <1>t, NotifyKeeps DEF Device, lists, Kept
  <2> QED
    BY <1>2, <2>1, <1>u, Same DEF Device, mine, Kept
<1>3. ASSUME NEW t \in Task, Step(t) PROVE Timed(u)' /\ Slept(u)'
  <2>a. current = t /\ Awake(t)
    BY <1>3, <1>t DEF Step, Begin, Do, GiveUp, MustWait, SuspendAll, LockQueue, Decide, UnlockTx,
       UnlockRx, Unlock, Delay, ResumeAll, Unwind, Yield, Resumed, At
  <2>q. ASSUME NEW p, UNCHANGED <<lists, tick, waited, call, timeout>>,
               pc' = [pc EXCEPT ![t] = p], p # "out", pc[t] # "out", p \in InCall => pc[t] \in InCall
        PROVE  Timed(u)' /\ Slept(u)'
    BY <2>q, <1>t, <1>u, Same DEF lists, TypeOK
  <2>r. ASSUME Return(t), tick' = tick, u # t => Kept(u) PROVE Timed(u)' /\ Slept(u)'
    <3>1. CASE u = t
      BY <3>1, <2>r, <1>t, ReturnTimed
    <3>2. CASE u # t
      <4>1. /\ pc'[u] = pc[u] /\ call'[u] = call[u] /\ timeout'[u] = timeout[u]
            /\ waited'[u] = waited[u]
        BY <3>2, <2>r, <1>t DEF Return, Goto, TypeOK
      <4> QED
        BY <3>2, <4>1, <2>r, <1>u, Same DEF Kept
    <3> QED
      BY <3>1, <3>2
  <2>o. ASSUME u # t, NEW p, pc' = [pc EXCEPT ![t] = p], tick' = tick, waited' = waited,
               call'[u] = call[u], timeout'[u] = timeout[u], Kept(u)
        PROVE  Timed(u)' /\ Slept(u)'
    BY <2>o, <1>t, <1>u, Same DEF Kept, TypeOK
  <2>1. CASE Begin(t)
    <3>1. PICK c \in Job[t] : call' = [call EXCEPT ![t] = c]
      BY <2>1 DEF Begin
    <3>2. /\ pc[t] = "out" /\ pc' = [pc EXCEPT ![t] = "call"]
          /\ timeout' = [timeout EXCEPT ![t] = [NoTimeout EXCEPT !.left = Wait[t]]]
          /\ UNCHANGED <<lists, tick, waited>>
      BY <2>1 DEF Begin, At, Goto
    <3>3. CASE u = t
      <4>1. list'[t] = "ready"
        BY <3>2, <2>a DEF Awake, Asleep, lists
      <4>2. /\ timeout'[t].left = Wait[t] /\ timeout'[t].set = FALSE
            /\ timeout'[t].wrapped = FALSE /\ timeout'[t].then = "again"
        BY <3>2, <1>t, NoTimeoutType DEF TypeOK, NoTimeout
      <4>3. waited'[t] = 0 /\ pc'[t] = "call"
        BY <3>2, <3>3, <1>t, <1>u DEF Timed, TypeOK
      <4> QED
        BY <3>3, <4>1, <4>2, <4>3 DEF Timed, Slept
    <3>4. CASE u # t
      BY <3>1, <3>2, <3>4, <2>o, <1>t DEF lists, Kept, TypeOK
    <3> QED
      BY <3>3, <3>4
  <2>2. CASE Do(t)
    BY <2>2, <2>r, <1>t, NotifyKeeps DEF Do
  <2>3. CASE GiveUp(t)
    BY <2>3, <2>r DEF GiveUp, lists, Kept
  <2>4. CASE MustWait(t)
    <3>1. /\ pc[t] = "call" /\ pc' = [pc EXCEPT ![t] = "suspend"]
          /\ timeout' = [timeout EXCEPT ![t] =
                 IF @.set \/ @.left = MaxDelay THEN @ ELSE [@ EXCEPT !.set = TRUE, !.entered = tick]]
          /\ UNCHANGED <<lists, tick, call, waited>>
      BY <2>4 DEF MustWait, At, Goto
    <3>2. CASE u # t
      BY <3>1, <3>2, <2>o, <1>t DEF lists, Kept, TypeOK
    <3>3. CASE u = t
      <4>1. list'[t] = "ready" /\ pc'[t] = "suspend" /\ waited'[t] = waited[t] /\ tick' = tick
        BY <3>1, <2>a, <1>t DEF Awake, Asleep, lists, TypeOK
      <4>2. CASE timeout[t].set \/ timeout[t].left = MaxDelay
        <5>1. timeout'[t] = timeout[t]
          BY <3>1, <4>2, <1>t DEF TypeOK
        <5>2. Prompt(t)' = Prompt(t) /\ Elapsed(t)' = Elapsed(t)
          BY <4>1, <5>1 DEF Prompt, Elapsed
        <5>3. Timed(t)'
          BY <3>1, <3>3, <4>1, <4>2, <5>1, <5>2, <1>u DEF Timed
        <5>4. Slept(t)'
          BY <3>3, <4>1, <5>1, <5>2, <1>u DEF Slept
        <5> QED
          BY <3>3, <5>3, <5>4
      <4>3. CASE ~timeout[t].set /\ timeout[t].left # MaxDelay
        <5>1. timeout'[t] = [timeout[t] EXCEPT !.set = TRUE, !.entered = tick]
          BY <3>1, <4>3, <1>t DEF TypeOK
        <5>2. timeout[t] \in TimeOut /\ tick \in Time /\ Wait[t] \in Time
          BY <1>t, WaitType DEF TypeOK, Time
        <5>3. /\ timeout'[t].left = Wait[t] /\ timeout'[t].set = TRUE /\ timeout'[t].entered = tick
              /\ timeout'[t].wrapped = FALSE /\ timeout'[t].then # "fail"
              /\ waited[t] = 0 /\ Wait[t] # MaxDelay
          <6>1. /\ timeout'[t].left = timeout[t].left /\ timeout'[t].set = TRUE
                /\ timeout'[t].entered = tick /\ timeout'[t].wrapped = timeout[t].wrapped
                /\ timeout'[t].then = timeout[t].then
            BY <5>1, <5>2 DEF TimeOut
          <6>2. /\ timeout[t].left = Wait[t] /\ ~timeout[t].wrapped /\ timeout[t].then # "fail"
                /\ waited[t] = 0
            BY <3>1, <3>3, <4>3, <1>u DEF Timed
          <6>3. timeout[t].wrapped \in BOOLEAN
            BY <5>2 DEF TimeOut
          <6> QED
            BY <4>3, <6>1, <6>2, <6>3
        <5>4. Elapsed(t)' = 0 /\ ~(tick' < timeout'[t].entered)
          BY <4>1, <5>2, <5>3 DEF Elapsed, Time
        <5>5. Timed(t)'
          BY <4>1, <5>2, <5>3, <5>4 DEF Timed, Time
        <5>6. Slept(t)'
          BY <4>1, <5>3 DEF Slept
        <5> QED
          BY <3>3, <5>5, <5>6
      <4> QED
        BY <4>2, <4>3
    <3> QED
      BY <3>2, <3>3
  <2>5. CASE SuspendAll(t)
    BY <2>5, <2>q DEF SuspendAll, At, Goto, InCall
  <2>6. CASE LockQueue(t)
    BY <2>6, <2>q DEF LockQueue, At, Goto, InCall
  <2>7. CASE Decide(t)
    <3>1. /\ pc[t] = "decide" /\ pc' = [pc EXCEPT ![t] = "unlockTx"]
          /\ UNCHANGED <<tick, call, waited>>
      BY <2>7 DEF Decide, At, Goto
    <3>2. list[t] = "ready"
      BY <3>1, <2>a DEF Awake, Asleep
    <3>3. timeout[t] \in TimeOut /\ Elapsed(t) \in Time /\ tick \in Time /\ Wait[t] \in Time
          /\ waited[t] \in 0 .. MaxDelay + 1
      BY <1>t, ElapsedType, WaitType DEF TypeOK, Time
    <3>4. CASE u # t
      <4>1. timeout'[u] = timeout[u] /\ Kept(u)
        BY <2>7, <3>4, <1>t DEF Decide, PlaceOnEventList, SleepFor, lists, Kept, TypeOK
      <4> QED
        BY <3>1, <3>4, <4>1, <2>o
    <3>5. CASE u = t /\ TimedOut(t)
      <4>1. timeout' = [timeout EXCEPT ![t].then = "fail"] /\ UNCHANGED lists
        BY <2>7, <3>5 DEF Decide
      <4>2. /\ timeout'[t].left = timeout[t].left /\ timeout'[t].set = timeout[t].set
            /\ timeout'[t].entered = timeout[t].entered /\ timeout'[t].wrapped = timeout[t].wrapped
            /\ timeout'[t].then = "fail"
        BY <4>1, <3>3, <1>t DEF TypeOK, TimeOut
      <4>3. pc'[t] = "unlockTx" /\ list'[t] = "ready"
        BY <3>1, <3>2, <4>1, <1>t DEF TypeOK, lists
      <4>4. timeout[t].set
        BY <3>1, <3>5, <1>u DEF Timed, TimedOut
      <4>5. Prompt(t)' = Prompt(t) /\ Elapsed(t)' = Elapsed(t)
        BY <3>1, <4>2 DEF Prompt, Elapsed
      <4>6. Timed(t)'
        BY <3>1, <3>5, <4>2, <4>3, <4>4, <4>5, <1>u DEF Timed
      <4>7. Prompt(t) => waited[t] >= Wait[t]
        <5> SUFFICES ASSUME Prompt(t) PROVE waited[t] >= Wait[t]
          OBVIOUS
        <5>1. /\ waited[t] + timeout[t].left = Wait[t] + Elapsed(t)
              /\ timeout[t].wrapped <=> tick < timeout[t].entered
          BY <3>5, <4>4, <1>u DEF Timed
        <5>2. ~(timeout[t].wrapped /\ tick >= timeout[t].entered)
          BY <5>1, <3>3 DEF TimeOut, Time
        <5>3. Elapsed(t) >= timeout[t].left
          BY <3>5, <5>2 DEF TimedOut
        <5> QED
          BY <5>1, <5>3, <3>3 DEF TimeOut, Time
      <4>8. Slept(t)'
        BY <3>1, <4>3, <4>5, <4>7 DEF Slept
      <4> QED
        BY <3>5, <4>6, <4>8
    <3>6. CASE u = t /\ ~TimedOut(t) /\ timeout[t].left = MaxDelay
      <4>1. \E then \in {"again", "sleep"} : timeout' = [timeout EXCEPT ![t] = [@ EXCEPT !.then = then]]
        BY <2>7, <3>6, <1>t DEF Decide, TypeOK
      <4>2. /\ timeout'[t].left = timeout[t].left /\ timeout'[t].set = timeout[t].set
            /\ timeout'[t].entered = timeout[t].entered /\ timeout'[t].wrapped = timeout[t].wrapped
            /\ timeout'[t].then \in {"again", "sleep"}
        BY <4>1, <3>3, <1>t DEF TypeOK, TimeOut
      <4>3. list'[t] \in {"ready", "suspended"}
        BY <2>7, <3>2, <3>6, <1>t DEF Decide, PlaceOnEventList, lists, TypeOK
      <4>4. pc'[t] = "unlockTx"
        BY <3>1, <1>t DEF TypeOK
      <4>5. Prompt(t)' = Prompt(t) /\ Elapsed(t)' = Elapsed(t)
        BY <3>1, <4>2 DEF Prompt, Elapsed
      <4>6. Timed(t)'
        BY <3>1, <3>6, <4>2, <4>4, <4>5, <1>u DEF Timed
      <4>7. Slept(t)'
        BY <4>2, <4>3 DEF Slept
      <4> QED
        BY <3>6, <4>6, <4>7
    <3>7. CASE u = t /\ ~TimedOut(t) /\ timeout[t].left # MaxDelay
      <4> DEFINE left == timeout[t].left - Elapsed(t)
                 from == [timeout[t] EXCEPT !.left = left, !.entered = tick, !.wrapped = FALSE]
      <4>1. left \in Time /\ left > 0 /\ left <= timeout[t].left
        BY <3>3, <3>7, BoundAssumption DEF TimedOut, TimeOut, Time
      <4>2. \/ /\ timeout' = [timeout EXCEPT ![t] = [from EXCEPT !.then = "again"]]
               /\ UNCHANGED lists
            \/ /\ timeout' = [timeout EXCEPT ![t] = [from EXCEPT !.then = "sleep"]]
               /\ PlaceOnEventList(t, WaitIn(call[t]), left)
        BY <2>7, <3>7 DEF Decide
      <4>3. from \in TimeOut /\ from.left = left /\ from.entered = tick /\ from.wrapped = FALSE
            /\ from.set = timeout[t].set
        BY <4>1, <3>3 DEF TimeOut
      <4>4. timeout[t].set
        BY <3>1, <3>7, <1>u DEF Timed
      <4> HIDE DEF from, left
      <4>5. /\ timeout'[t].left = left /\ timeout'[t].set
            /\ timeout'[t].entered = tick /\ timeout'[t].wrapped = FALSE
            /\ timeout'[t].then \in {"again", "sleep"}
        <5>1. PICK then \in {"again", "sleep"} : timeout'[t] = [from EXCEPT !.then = then]
          BY <4>2, <1>t DEF TypeOK
        <5>2. timeout'[t].then = then
          BY <4>3, <5>1 DEF TimeOut
        <5>3. timeout'[t].left = from.left /\ timeout'[t].set = from.set
          BY <4>3, <5>1 DEF TimeOut
        <5>4. timeout'[t].entered = from.entered /\ timeout'[t].wrapped = from.wrapped
          BY <4>3, <5>1 DEF TimeOut
        <5> QED
          BY <4>3, <4>4, <5>2, <5>3, <5>4
      <4>6. pc'[t] = "unlockTx" /\ waited'[t] = waited[t] /\ tick' = tick
        BY <3>1, <1>t DEF TypeOK
      <4>7. Prompt(t)' = Prompt(t) /\ Elapsed(t)' = 0
        BY <4>5, <4>6, <3>3 DEF Prompt, Elapsed, Time
      <4>8. Prompt(t) => waited[t] + left = Wait[t]
        <5>1. Prompt(t) => waited[t] + timeout[t].left = Wait[t] + Elapsed(t)
          BY <3>7, <4>4, <1>u DEF Timed
        <5>2. timeout[t].left \in Int /\ Elapsed(t) \in Int /\ Wait[t] \in Int
          BY <3>3 DEF TimeOut, Time
        <5>4. waited[t] \in Int
          BY <1>t DEF TypeOK
        <5>3. left = timeout[t].left - Elapsed(t)
          BY DEF left
        <5> QED
          BY <5>1, <5>2, <5>3, <5>4
      <4>9. Timed(t)'
        <5>1. Wait[t] # MaxDelay /\ timeout[t].left <= Wait[t]
          BY <3>7, <4>4, <1>u DEF Timed
        <5>2. left <= Wait[t]
          BY <5>1, <4>1, <3>3 DEF TimeOut, Time
        <5>3. ~(tick < tick)
          BY <3>3 DEF Time
        <5>4. waited[t] + left = Wait[t] => waited[t] + left = Wait[t] + 0
          BY <3>3 DEF Time
        <5> QED
          BY <4>5, <4>6, <4>7, <4>8, <5>1, <5>2, <5>3, <5>4 DEF Timed
      <4>10. list'[t] \in {"delayed", "overflow"} => Until(t)' = left
        <5>1. CASE UNCHANGED lists
          BY <3>2, <5>1 DEF lists
        <5>2. CASE PlaceOnEventList(t, WaitIn(call[t]), left)
          <6>1. list'[t] = "suspended" \/ SleepFor(t, left)
            BY <5>2, <1>t DEF PlaceOnEventList, TypeOK
          <6>2. SleepFor(t, left) => Until(t)' = left
            <7> SUFFICES ASSUME SleepFor(t, left) PROVE Until(t)' = left
              OBVIOUS
            <7>1. wake'[t] = IF tick + left > MaxDelay THEN tick + left - MaxDelay - 1 ELSE tick + left
              BY <1>t DEF SleepFor, TypeOK
            <7> QED
              BY <7>1, <4>1, <4>6, <3>3, BoundAssumption DEF Until, Time
          <6> QED
            BY <6>1, <6>2
        <5> QED
          BY <4>2, <5>1, <5>2
      <4>11. Slept(t)'
        BY <4>5, <4>6, <4>7, <4>8, <4>10 DEF Slept
      <4> QED
        BY <3>7, <4>9, <4>11
    <3> QED
      BY <3>4, <3>5, <3>6, <3>7
  <2>8. ASSUME NEW c \in {"send", "receive"}, NEW enter \in Inside \ InCall,
               NEW more \in Inside \ InCall, NEW next \in Inside \ InCall,
               Unlock(t, c, enter, more, next)
        PROVE  Timed(u)' /\ Slept(u)'
    <3>1. /\ UNCHANGED <<tick, call, timeout, waited>>
          /\ \E p \in Inside \ InCall : pc' = [pc EXCEPT ![t] = p]
          /\ pc[t] \in Inside
      BY <2>8 DEF Unlock, At, Goto
    <3>2. Kept(u)
      BY <2>8, <1>t, RemoveKeeps DEF Unlock, First, Waiting, lists, Kept
    <3> QED
      BY <3>1, <3>2, <1>t, <1>u, Same DEF Kept, TypeOK, Inside
  <2>9. CASE UnlockTx(t)
    BY <2>9, <2>8 DEF UnlockTx, Inside, InCall
  <2>10. CASE UnlockRx(t)
    BY <2>10, <2>8 DEF UnlockRx, Inside, InCall
  <2>11. CASE Delay(t)
    <3>1. /\ pc[t] = "call" /\ call[t] = "delay" /\ pc' = [pc EXCEPT ![t] = "resume"]
          /\ timeout' = [timeout EXCEPT ![t].then = "sleep"] /\ SleepFor(t, timeout[t].left)
          /\ UNCHANGED <<event, tick, call, waited>>
      BY <2>11 DEF Delay, At, Goto
    <3>2. timeout[t] \in TimeOut
      BY <1>t DEF TypeOK
    <3>3. CASE u = t
      BY <3>1, <3>2, <3>3, <1>t, <1>u, Same DEF TypeOK, TimeOut, InCall
    <3>4. CASE u # t
      <4>1. Kept(u) /\ timeout'[u] = timeout[u]
        BY <3>1, <3>4, <1>t DEF SleepFor, Kept, TypeOK
      <4> QED
        BY <3>1, <3>4, <4>1, <2>o
    <3> QED
      BY <3>3, <3>4
  <2>12. CASE ResumeAll(t)
    <3>1. /\ list' = [v \in Task |-> IF v \in Waiting("pending") THEN "ready" ELSE list[v]]
          /\ event' = [v \in Task |-> IF v \in Waiting("pending") THEN "none" ELSE event[v]]
          /\ wake' = [v \in Task |-> IF v \in Waiting("pending") THEN 0 ELSE wake[v]]
          /\ UNCHANGED <<tick, call, timeout, waited>>
          /\ pc[t] = "resume"
          /\ \E p \in {"unwind", "yield", "resumed"} : pc' = [pc EXCEPT ![t] = p]
      BY <2>12 DEF ResumeAll, Goto, At
    <3>2. Kept(u)
      BY <3>1 DEF Kept
    <3> QED
      BY <3>1, <3>2, <1>t, <1>u, Same DEF Kept, TypeOK, InCall
  <2>13. CASE Unwind(t)
    <3>1. /\ IncrementTick /\ call' = call /\ pc[t] = "unwind"
          /\ pc' = pc \/ pc' = [pc EXCEPT ![t] = "resumed"]
      BY <2>13 DEF Unwind, At, Goto
    <3>2. /\ pc'[u] = "out" <=> pc[u] = "out"
          /\ pc'[u] \in InCall => pc[u] \in InCall
      BY <3>1, <1>t DEF TypeOK, InCall
    <3> QED
      BY <3>1, <3>2, <1>t, <1>u, TickTimed
  <2>14. CASE Yield(t)
    BY <2>14, <2>q DEF Yield, At, Goto, InCall
  <2>15. CASE Resumed(t)
    <3>1. CASE Return(t)
      BY <2>15, <3>1, <2>r DEF Resumed, lists, Kept
    <3>2. CASE Goto(t, "call") /\ UNCHANGED <<call, timeout, waited>>
      BY <2>15, <3>2, <2>q DEF Resumed, At, Goto, InCall
    <3> QED
      BY <2>15, <3>1, <3>2 DEF Resumed
  <2> QED
    BY <1>3, <2>1, <2>2, <2>3, <2>4, <2>5, <2>6, <2>7, <2>9, <2>10, <2>11, <2>12, <2>13, <2>14,
       <2>15 DEF Step
<1>4. CASE UNCHANGED vars
  BY <1>4, <1>u, Same DEF vars, lists, mine
<1> QED
  BY <1>1, <1>2, <1>3, <1>4 DEF Next

(* A wait on the queue is exactly as long as asked for, however often the  *)
(* task is woken in vain, for every width of the tick counter.             *)
THEOREM WaitsAreExact == Spec => []TimeoutsAreExact
<1>1. EInv => TimeoutsAreExact
  BY DEF EInv, Slept, TimeoutsAreExact
<1> QED
  BY <1>1, TimedInit, TimedStep, PTL DEF Spec

-----------------------------------------------------------------------------
(* Wake-ups *)

Blocked == {"toSend", "toReceive"}

(* A task on an event list waits in its call for just that, is not ready,  *)
(* and will look at the queue again when it is woken.                      *)
OnList(t) ==
    /\ event[t] \in Blocked => /\ call[t] # "delay" /\ event[t] = WaitIn(call[t])
                               /\ list[t] # "ready" /\ timeout[t].then = "sleep"
                               /\ pc[t] \in Asleep \cup {"resumed"}
    /\ pc[t] \in InCall => call[t] # "delay"

LInv == RInv /\ \A t \in Task : OnList(t)

(* Nobody but the task itself puts it on an event list.                    *)
Stays(u) == \/ event'[u] \in {"none", "pending"}
            \/ event'[u] = event[u] /\ (list'[u] = "ready" => list[u] = "ready")

LEMMA StaysOnList ==
    ASSUME NEW u \in Task, OnList(u), Stays(u), call'[u] = call[u],
           timeout'[u].then = timeout[u].then,
           \/ pc'[u] = pc[u]
           \/ pc[u] \in Asleep /\ pc'[u] \in Asleep \cup {"resumed"}
    PROVE  OnList(u)'
BY DEF OnList, Stays, Blocked, Asleep, InCall

(* A step of the running task, which was not on a list.                    *)
LEMMA NotOnList ==
    ASSUME NEW u \in Task, event'[u] \notin Blocked,
           pc'[u] \notin InCall \/ call'[u] # "delay"
    PROVE  OnList(u)'
BY DEF OnList

LEMMA TickStays ==
    ASSUME TypeOK, IncrementTick, NEW u \in Task
    PROVE  Stays(u)
BY DEF TypeOK, IncrementTick, Swapped, List, Stays

LEMMA NotifyEvents ==
    ASSUME TypeOK, NEW d, Notify(d)
    PROVE  \/ Waiting(WaitFor(d)) = {} /\ event' = event /\ list' = list
           \/ \E w \in Task : /\ event[w] = WaitFor(d) /\ event'[w] \in {"none", "pending"}
                              /\ \A u \in Task : u # w => event'[u] = event[u] /\ list'[u] = list[u]
<1>1. CASE Waiting(WaitFor(d)) = {}
  BY <1>1 DEF Notify, lists
<1>2. CASE Waiting(WaitFor(d)) # {}
  <2>1. PICK w \in First(WaitFor(d)) : RemoveFromEventList(w)
    BY <1>2 DEF Notify
  <2>2. w \in Task /\ event[w] = WaitFor(d)
    BY DEF First, Waiting
  <2> QED
    BY <2>1, <2>2 DEF RemoveFromEventList, TypeOK
<1> QED
  BY <1>1, <1>2

LEMMA NotifyStays ==
    ASSUME TypeOK, NEW d, Notify(d), NEW u \in Task
    PROVE  Stays(u)
BY NotifyEvents DEF Stays

(* Only a call that is not possible puts its task on an event list.        *)
LEMMA DecideOutcome ==
    ASSUME TypeOK, NEW t \in Task, Decide(t)
    PROVE  \/ UNCHANGED lists /\ \A v \in Task : v # t => timeout'[v] = timeout[v]
           \/ /\ event' = [event EXCEPT ![t] = WaitIn(call[t])] /\ ~Possible(call[t])
              /\ list'[t] # "ready" /\ timeout'[t].then = "sleep"
              /\ \A v \in Task : v # t => list'[v] = list[v] /\ timeout'[v] = timeout[v]
<1> DEFINE left == IF timeout[t].left = MaxDelay THEN MaxDelay
                   ELSE timeout[t].left - Elapsed(t)
           from == IF timeout[t].left = MaxDelay THEN timeout[t]
                   ELSE [timeout[t] EXCEPT !.left = left, !.entered = tick, !.wrapped = FALSE]
<1>1. \A v \in Task : v # t => timeout'[v] = timeout[v]
  BY DEF Decide, TypeOK
<1>2. \/ UNCHANGED lists
      \/ /\ timeout' = [timeout EXCEPT ![t] = [from EXCEPT !.then = "sleep"]]
         /\ PlaceOnEventList(t, WaitIn(call[t]), left) /\ ~Possible(call[t])
  BY DEF Decide
<1>3. timeout[t] \in TimeOut
  BY DEF TypeOK
<1>4. [from EXCEPT !.then = "sleep"].then = "sleep"
  BY <1>3 DEF TimeOut
<1> HIDE DEF left, from
<1>5. CASE /\ timeout' = [timeout EXCEPT ![t] = [from EXCEPT !.then = "sleep"]]
           /\ PlaceOnEventList(t, WaitIn(call[t]), left) /\ ~Possible(call[t])
  <2>1. timeout'[t].then = "sleep"
    BY <1>4, <1>5 DEF TypeOK
  <2>2. /\ event' = [event EXCEPT ![t] = WaitIn(call[t])]
        /\ list'[t] # "ready" /\ \A v \in Task : v # t => list'[v] = list[v]
    BY <1>5 DEF PlaceOnEventList, SleepFor, TypeOK
  <2> QED
    BY <1>1, <1>5, <2>1, <2>2
<1> QED
  BY <1>1, <1>2, <1>5

LEMMA OnListInit == Init => LInv
<1> SUFFICES ASSUME Init PROVE \A t \in Task : OnList(t)
  BY HighestInit DEF LInv
<1> QED
  BY DEF Init, OnList, Blocked, InCall

LEMMA OnListStep == LInv /\ [Next]_vars => LInv'
<1> SUFFICES ASSUME LInv, [Next]_vars, NEW u \in Task PROVE OnList(u)'
  BY HighestStep DEF LInv
<1>t. TypeOK /\ TypeOK' /\ Control /\ (current \in Task => Awake(current))
  BY TypeStep DEF LInv, RInv, TInv
<1>u. OnList(u)
  BY DEF LInv
<1>1. CASE Tick
  <2>1. CASE suspended
    BY <1>1, <2>1, <1>u, StaysOnList DEF Tick, lists, Stays
  <2>2. CASE ~suspended
    <3>1. IncrementTick /\ UNCHANGED <<pc, call>>
      BY <1>1, <2>2 DEF Tick
    <3>2. Stays(u) /\ timeout'[u].then = timeout[u].then
      BY <3>1, <1>t, TickStays, TickTimeout
    <3> QED
      BY <3>1, <3>2, <1>u, StaysOnList
  <2> QED
    BY <2>1, <2>2
<1>2. ASSUME NEW c \in Isr, Device(c) PROVE OnList(u)'
  <2>1. Stays(u)
    BY <1>2, <1>t, NotifyStays DEF Device, lists, Stays
  <2> QED
    BY <1>2, <2>1, <1>u, StaysOnList DEF Device, mine
<1>3. ASSUME NEW t \in Task, Step(t) PROVE OnList(u)'
  <2>a. current = t /\ Awake(t) /\ OnList(t)
    BY <1>3, <1>t DEF LInv, Step, Begin, Do, GiveUp, MustWait, SuspendAll, LockQueue, Decide,
       UnlockTx, UnlockRx, Unlock, Delay, ResumeAll, Unwind, Yield, Resumed, At
  <2>b. pc[t] \notin Asleep => event[t] \notin Blocked
    BY <2>a DEF Awake, OnList
  <2>o. ASSUME u # t, NEW p, pc' = [pc EXCEPT ![t] = p],
               call'[u] = call[u], timeout'[u].then = timeout[u].then, Stays(u)
        PROVE  OnList(u)'
    BY <2>o, <1>t, <1>u, StaysOnList DEF TypeOK
  <2>q. ASSUME pc[t] \notin Asleep, NEW p, pc' = [pc EXCEPT ![t] = p], UNCHANGED lists,
               u # t => call'[u] = call[u] /\ timeout'[u].then = timeout[u].then,
               p \in InCall => call'[t] # "delay"
        PROVE  OnList(u)'
    <3>1. CASE u = t
      BY <2>q, <2>b, <3>1, <1>t, NotOnList DEF lists, TypeOK
    <3>2. CASE u # t
      BY <2>q, <3>2, <2>o DEF lists, Stays
    <3> QED
      BY <3>1, <3>2
  <2>m. ASSUME pc[t] \in Asleep, NEW p \in Asleep \cup {"resumed"}, pc' = [pc EXCEPT ![t] = p],
               call' = call, timeout'[u].then = timeout[u].then, Stays(u)
        PROVE  OnList(u)'
    <3>1. CASE u = t
      BY <2>m, <3>1, <1>t, <1>u, StaysOnList DEF TypeOK
    <3>2. CASE u # t
      BY <2>m, <3>2, <2>o
    <3> QED
      BY <3>1, <3>2
  <2>1. CASE Begin(t)
    <3>1. /\ pc[t] = "out" /\ pc' = [pc EXCEPT ![t] = "call"] /\ UNCHANGED lists
          /\ timeout' = [timeout EXCEPT ![t] = [NoTimeout EXCEPT !.left = Wait[t]]]
          /\ \E c \in Job[t] : call' = [call EXCEPT ![t] = c]
      BY <2>1 DEF Begin, At, Goto
    <3>2. u # t => call'[u] = call[u] /\ timeout'[u].then = timeout[u].then
      BY <3>1, <1>t DEF TypeOK
    <3> QED
      BY <3>1, <3>2, <2>q DEF Asleep, InCall
  <2>2. CASE Do(t)
    <3>1. /\ pc[t] = "call" /\ pc' = [pc EXCEPT ![t] = "out"] /\ Notify(call[t])
          /\ call' = [call EXCEPT ![t] = "delay"]
          /\ timeout' = [timeout EXCEPT ![t] = NoTimeout]
      BY <2>2 DEF Do, Return, At, Goto
    <3>2. Stays(u)
      BY <3>1, <1>t, NotifyStays
    <3>3. CASE u # t
      BY <3>1, <3>2, <3>3, <2>o, <1>t DEF TypeOK
    <3>4. CASE u = t
      <4>1. event'[t] \notin Blocked /\ pc'[t] = "out"
        BY <3>1, <3>2, <3>4, <2>b, <1>t DEF Stays, Blocked, Asleep, TypeOK
      <4> QED
        BY <3>4, <4>1, NotOnList DEF InCall
    <3> QED
      BY <3>3, <3>4
  <2>3. CASE GiveUp(t)
    <3>1. /\ pc[t] = "call" /\ pc' = [pc EXCEPT ![t] = "out"] /\ UNCHANGED lists
          /\ call' = [call EXCEPT ![t] = "delay"]
          /\ timeout' = [timeout EXCEPT ![t] = NoTimeout]
      BY <2>3 DEF GiveUp, Return, At, Goto
    <3>2. u # t => call'[u] = call[u] /\ timeout'[u].then = timeout[u].then
      BY <3>1, <1>t DEF TypeOK
    <3> QED
      BY <3>1, <3>2, <2>q DEF Asleep, InCall
  <2>4. CASE MustWait(t)
    <3>1. /\ pc[t] = "call" /\ pc' = [pc EXCEPT ![t] = "suspend"] /\ UNCHANGED <<lists, call>>
          /\ call[t] # "delay"
          /\ timeout' = [timeout EXCEPT ![t] =
                 IF @.set \/ @.left = MaxDelay THEN @ ELSE [@ EXCEPT !.set = TRUE, !.entered = tick]]
      BY <2>4 DEF MustWait, At, Goto
    <3>2. u # t => call'[u] = call[u] /\ timeout'[u].then = timeout[u].then
      BY <3>1, <1>t DEF TypeOK
    <3> QED
      BY <3>1, <3>2, <2>q DEF Asleep
  <2>5. CASE SuspendAll(t)
    <3>1. /\ pc[t] = "suspend" /\ pc' = [pc EXCEPT ![t] = "lock"]
          /\ UNCHANGED <<lists, call, timeout>>
      BY <2>5 DEF SuspendAll, At, Goto
    <3>2. call[t] # "delay"
      BY <3>1, <2>a DEF OnList, InCall
    <3> QED
      BY <3>1, <3>2, <2>q DEF Asleep
  <2>6. CASE LockQueue(t)
    <3>1. /\ pc[t] = "lock" /\ pc' = [pc EXCEPT ![t] = "decide"]
          /\ UNCHANGED <<lists, call, timeout>>
      BY <2>6 DEF LockQueue, At, Goto
    <3>2. call[t] # "delay"
      BY <3>1, <2>a DEF OnList, InCall
    <3> QED
      BY <3>1, <3>2, <2>q DEF Asleep
  <2>8. CASE UnlockTx(t) \/ UnlockRx(t)
    <3>1. PICK c \in {"send", "receive"}, p \in Asleep :
            /\ pc' = [pc EXCEPT ![t] = p] /\ pc[t] \in Asleep
            /\ UNCHANGED <<call, timeout>>
            /\ UNCHANGED lists \/ \E w \in First(WaitFor(c)) : RemoveFromEventList(w)
      BY <2>8 DEF UnlockTx, UnlockRx, Unlock, At, Goto, Asleep
    <3>2. Stays(u)
      BY <3>1, <1>t DEF Stays, lists, First, Waiting, RemoveFromEventList, TypeOK
    <3> QED
      BY <3>1, <3>2, <2>m
  <2>9. CASE Delay(t)
    <3>1. /\ pc[t] = "call" /\ pc' = [pc EXCEPT ![t] = "resume"] /\ UNCHANGED <<event, call>>
          /\ SleepFor(t, timeout[t].left)
          /\ timeout' = [timeout EXCEPT ![t].then = "sleep"]
      BY <2>9 DEF Delay, At, Goto
    <3>2. CASE u = t
      BY <3>1, <3>2, <2>b, <1>t, NotOnList DEF TypeOK, Asleep, InCall
    <3>3. CASE u # t
      BY <3>1, <3>3, <2>o, <1>t DEF SleepFor, Stays, TypeOK
    <3> QED
      BY <3>2, <3>3
  <2>10. CASE ResumeAll(t)
    <3>1. /\ pc[t] \in Asleep /\ UNCHANGED <<call, timeout>>
          /\ \E p \in Asleep \cup {"resumed"} : pc' = [pc EXCEPT ![t] = p]
          /\ list' = [v \in Task |-> IF v \in Waiting("pending") THEN "ready" ELSE list[v]]
          /\ event' = [v \in Task |-> IF v \in Waiting("pending") THEN "none" ELSE event[v]]
      BY <2>10 DEF ResumeAll, At, Goto, Asleep
    <3>2. Stays(u)
      BY <3>1 DEF Stays
    <3> QED
      BY <3>1, <3>2, <2>m
  <2>11. CASE Unwind(t)
    <3>1. /\ pc[t] \in Asleep /\ IncrementTick /\ call' = call
          /\ pc' = pc \/ pc' = [pc EXCEPT ![t] = "resumed"]
      BY <2>11 DEF Unwind, At, Goto, Asleep
    <3>2. Stays(u) /\ timeout'[u].then = timeout[u].then
      BY <3>1, <1>t, TickStays, TickTimeout
    <3> QED
      BY <3>1, <3>2, <1>u, <2>m, StaysOnList
  <2>12. CASE Yield(t)
    <3>1. /\ pc[t] \in Asleep /\ pc' = [pc EXCEPT ![t] = "resumed"]
          /\ UNCHANGED <<lists, call, timeout>>
      BY <2>12 DEF Yield, At, Goto, Asleep
    <3> QED
      BY <3>1, <2>m DEF lists, Stays
  <2>13. CASE Resumed(t)
    <3>1. /\ pc[t] = "resumed" /\ UNCHANGED lists
          /\ \E p \in {"out", "call"} : pc' = [pc EXCEPT ![t] = p]
      BY <2>13 DEF Resumed, At, Return, Goto
    <3>2. u # t => call'[u] = call[u] /\ timeout'[u].then = timeout[u].then
      BY <2>13, <1>t DEF Resumed, Return, TypeOK
    <3> QED
      BY <3>1, <3>2, <2>q DEF Asleep, InCall
  <2>7. CASE Decide(t)
    <3>1. /\ pc[t] = "decide" /\ pc' = [pc EXCEPT ![t] = "unlockTx"] /\ call' = call
      BY <2>7 DEF Decide, At, Goto
    <3>2. call[t] # "delay"
      BY <3>1, <2>a DEF OnList, InCall
    <3>3. CASE UNCHANGED lists
      <4>1. u # t => timeout'[u] = timeout[u]
        BY <2>7, <1>t DEF Decide, TypeOK
      <4> QED
        BY <3>1, <3>2, <3>3, <4>1, <2>q DEF Asleep
    <3>4. CASE ~UNCHANGED lists
      <4>1. /\ event' = [event EXCEPT ![t] = WaitIn(call[t])]
            /\ list'[t] # "ready" /\ timeout'[t].then = "sleep"
            /\ \A v \in Task : v # t => list'[v] = list[v] /\ timeout'[v] = timeout[v]
        BY <2>7, <3>4, <1>t, DecideOutcome
      <4>2. CASE u = t
        <5>1. /\ event'[t] = WaitIn(call'[t]) /\ call'[t] # "delay" /\ pc'[t] = "unlockTx"
          BY <3>1, <3>2, <4>1, <1>t DEF TypeOK
        <5> QED
          BY <4>1, <4>2, <5>1 DEF OnList, Asleep
      <4>3. CASE u # t
        <5>1. Stays(u)
          BY <4>1, <4>3, <1>t DEF Stays, TypeOK
        <5> QED
          BY <3>1, <4>1, <4>3, <5>1, <2>o
      <4> QED
        BY <4>2, <4>3
    <3> QED
      BY <3>3, <3>4
  <2> QED
    BY <1>3, <2>1, <2>2, <2>3, <2>4, <2>5, <2>6, <2>7, <2>8, <2>9, <2>10, <2>11, <2>12, <2>13
       DEF Step
<1>4. CASE UNCHANGED vars
  BY <1>4, <1>u, StaysOnList DEF vars, lists, mine, Stays
<1> QED
  BY <1>1, <1>2, <1>3, <1>4 DEF Next

(* How often call c is possible, and how often the other call was made by  *)
(* a device while the queue was locked.                                    *)
Side == {"send", "receive"}

Other(c) == IF c = "send" THEN "receive" ELSE "send"

Room(c) == IF c = "send" THEN Length - count ELSE count

Counted(d) == IF lock[d] > 0 THEN lock[d] ELSE 0

Lookers(c) == Cardinality(Looking(c))

Served(c) == Waiting(WaitIn(c)) # {} => Room(c) <= Lookers(c) + Counted(Other(c))

WInv == LInv /\ \A c \in Side : Served(c)

LEMMA SidesDiffer ==
    ASSUME NEW c \in Side
    PROVE  /\ Other(c) \in Side /\ Other(Other(c)) = c /\ WaitFor(c) = WaitIn(Other(c))
           /\ WaitIn(c) \in Blocked /\ WaitIn(c) # WaitIn(Other(c))
           /\ \A d \in Side : d = c \/ d = Other(c)
           /\ \A d \in Side : WaitIn(d) = WaitIn(c) => d = c
BY DEF Side, Other, WaitFor, WaitIn, Blocked

LEMMA RoomType ==
    ASSUME TypeOK, NEW c \in Side
    PROVE  /\ Room(c) \in Nat /\ Counted(Other(c)) \in Nat /\ Counted(c) \in Nat
           /\ Possible(c) <=> Room(c) > 0
<1>1. count \in 0 .. Length /\ Length \in Nat /\ MaxMissed \in Nat
  BY QueueAssumption, BoundAssumption DEF TypeOK
<1>2. \A d \in Side : lock[d] \in Int
  BY <1>1 DEF TypeOK, Side, Unlocked
<1>3. \A d \in Side : Counted(d) \in Nat
  BY <1>2 DEF Counted
<1>4. Room(c) \in Nat /\ (Possible(c) <=> Room(c) > 0)
  BY <1>1 DEF Room, Possible, Side
<1> QED
  BY <1>3, <1>4, SidesDiffer

LEMMA RoomStep ==
    ASSUME TypeOK', NEW c \in Side
    PROVE  Room(c)' \in Nat /\ Counted(Other(c))' \in Nat
<1>1. count' \in 0 .. Length /\ Length \in Nat /\ MaxMissed \in Nat
  BY QueueAssumption, BoundAssumption DEF TypeOK
<1>2. \A d \in Side : lock'[d] \in Int
  BY <1>1 DEF TypeOK, Side, Unlocked
<1>3. Counted(Other(c))' = IF lock'[Other(c)] > 0 THEN lock'[Other(c)] ELSE 0
  BY DEF Counted, Other
<1>4. Room(c)' \in Nat
  <2>1. \A n \in 0 .. Length : Length - n \in Nat /\ n \in Nat
    BY QueueAssumption
  <2>2. Room(c)' = IF c = "send" THEN Length - count' ELSE count'
    BY DEF Room
  <2> QED
    BY <1>1, <2>1, <2>2
<1>5. Counted(Other(c))' \in Nat
  BY <1>2, <1>3, SidesDiffer
<1> QED
  BY <1>4, <1>5

LEMMA CopyRoom ==
    ASSUME TypeOK, NEW c \in Side, Copy(c)
    PROVE  Room(c)' = Room(c) - 1 /\ Room(Other(c))' = Room(Other(c)) + 1
<1>1. count \in Nat /\ Length \in Nat
  BY QueueAssumption DEF TypeOK
<1>2. count' = IF c = "send" THEN count + 1 ELSE count - 1
  BY DEF Copy
<1>3. CASE c = "send"
  BY <1>1, <1>2, <1>3 DEF Room, Other
<1>4. CASE c = "receive"
  BY <1>1, <1>2, <1>4 DEF Room, Other
<1> QED
  BY <1>3, <1>4 DEF Side

(* Sets of tasks that lose at most one member, or gain one.                *)
LEMMA Counting ==
    ASSUME NEW A \in SUBSET Task, NEW B \in SUBSET Task
    PROVE  /\ Cardinality(A) \in Nat /\ Cardinality(B) \in Nat
           /\ A \subseteq B => Cardinality(A) <= Cardinality(B)
           /\ \A t : A \ {t} \subseteq B => Cardinality(A) - 1 <= Cardinality(B)
           /\ \A t \in B \ A : A \subseteq B => Cardinality(A) + 1 <= Cardinality(B)
<1>1. IsFiniteSet(A) /\ IsFiniteSet(B)
  BY TaskAssumption, FS_Subset
<1>2. Cardinality(A) \in Nat /\ Cardinality(B) \in Nat
  BY <1>1, FS_CardinalityType
<1>3. A \subseteq B => Cardinality(A) <= Cardinality(B)
  BY <1>1, FS_Subset
<1>4. ASSUME NEW t, A \ {t} \subseteq B
      PROVE  Cardinality(A) - 1 <= Cardinality(B)
  <2>1. /\ Cardinality(A \ {t}) = IF t \in A THEN Cardinality(A) - 1 ELSE Cardinality(A)
    BY <1>1, FS_RemoveElement
  <2>2. Cardinality(A \ {t}) <= Cardinality(B)
    BY <1>1, <1>4, FS_Subset
  <2> QED
    BY <1>2, <2>1, <2>2
<1>5. ASSUME NEW t \in B \ A, A \subseteq B
      PROVE  Cardinality(A) + 1 <= Cardinality(B)
  <2>1. Cardinality(A \cup {t}) = Cardinality(A) + 1
    BY <1>1, FS_AddElement
  <2>2. A \cup {t} \in SUBSET B
    BY <1>5
  <2>3. Cardinality(A \cup {t}) <= Cardinality(B)
    BY <1>1, <2>2, FS_Subset
  <2> QED
    BY <2>1, <2>3
<1> QED
  BY <1>2, <1>3, <1>4, <1>5

(* A step in which task u at most is woken, or gets on in its call.        *)
Calm(u) ==
    /\ call'[u] = call[u] /\ timeout'[u].then = timeout[u].then
    /\ pc'[u] = pc[u] \/ pc'[u] \notin InCall \cup {"out"}
    /\ event'[u] \in {event[u], "none", "pending"}

LEMMA CalmLooks ==
    ASSUME NEW u \in Task, NEW c, Calm(u), u \in Looking(c)
    PROVE  u \in Looking(c)'
BY DEF Looking, Calm, InCall

(* A woken task looks at the queue.                                        *)
LEMMA WokenLooks ==
    ASSUME TypeOK, NEW w \in Task, OnList(w), NEW c \in Side, Calm(w),
           event[w] = WaitIn(c), event'[w] \in {"none", "pending"}
    PROVE  w \in Looking(c)' /\ w \notin Looking(c)
<1>1. /\ event[w] \in Blocked /\ call[w] \in Side /\ event[w] = WaitIn(call[w])
      /\ timeout[w].then = "sleep" /\ pc[w] \in Asleep \cup {"resumed"}
  BY SidesDiffer DEF OnList, TypeOK, Call, Side
<1>2. call[w] = c
  BY <1>1, SidesDiffer
<1>3. w \notin Looking(c)
  BY <1>1 DEF Looking, Blocked
<1>4. w \in Looking(c)'
  BY <1>1, <1>2 DEF Looking, Calm, Asleep, InCall
<1> QED
  BY <1>3, <1>4

(* If nobody is left waiting, nothing is to be shown; if somebody is, what *)
(* there is to be had has not grown more than those who come for it.       *)
LEMMA ServedStep ==
    ASSUME TypeOK, TypeOK', NEW c \in Side, Served(c),
           Waiting(WaitIn(c))' \subseteq Waiting(WaitIn(c)),
           Room(c)' + Lookers(c) + Counted(Other(c))
               <= Room(c) + Lookers(c)' + Counted(Other(c))'
    PROVE  Served(c)'
<1>1. /\ Room(c) \in Nat /\ Counted(Other(c)) \in Nat
      /\ Room(c)' \in Nat /\ Counted(Other(c))' \in Nat
  BY RoomType, RoomStep
<1>2. Looking(c) \in SUBSET Task /\ Looking(c)' \in SUBSET Task
  BY DEF Looking
<1>3. Lookers(c) \in Nat /\ Lookers(c)' \in Nat
  BY <1>2, Counting DEF Lookers
<1> SUFFICES ASSUME Waiting(WaitIn(c))' # {}
             PROVE  Room(c)' <= Lookers(c)' + Counted(Other(c))'
  BY DEF Served, WaitIn
<1>4. Room(c) <= Lookers(c) + Counted(Other(c))
  BY DEF Served
<1> QED
  BY <1>1, <1>3, <1>4

(* Task t, which does not look, moves; the others stay as they are.        *)
LEMMA OneMoves ==
    ASSUME TypeOK, TypeOK', NEW c \in Side, Served(c), NEW t \in Task,
           \A u \in Task : u # t => Calm(u),
           t \in Looking(c) => Calm(t),
           event'[t] = WaitIn(c) => event[t] = WaitIn(c),
           count' = count, Counted(Other(c))' = Counted(Other(c))
    PROVE  Served(c)'
<1>1. Looking(c) \in SUBSET Task /\ Looking(c)' \in SUBSET Task
  BY DEF Looking
<1>2. Looking(c) \subseteq Looking(c)'
  BY <1>1, CalmLooks
<1>3. Lookers(c) \in Nat /\ Lookers(c)' \in Nat /\ Lookers(c) <= Lookers(c)'
  BY <1>1, <1>2, Counting DEF Lookers
<1>4. Waiting(WaitIn(c))' \subseteq Waiting(WaitIn(c))
  BY SidesDiffer DEF Waiting, WaitIn, Calm, Blocked
<1>5. Room(c)' = Room(c) /\ Room(c) \in Nat /\ Counted(Other(c)) \in Nat
  BY RoomType DEF Room
<1>6. Room(c)' + Lookers(c) + Counted(Other(c)) <= Room(c) + Lookers(c)' + Counted(Other(c))'
  BY <1>3, <1>5
<1> QED
  BY <1>4, <1>6, ServedStep

LEMMA NobodyNeeded ==
    ASSUME TypeOK, TypeOK', NEW c \in Side, Room(c)' = 0
    PROVE  Served(c)'
<1>1. Looking(c)' \in SUBSET Task
  BY DEF Looking
<1>2. Lookers(c)' \in Nat
  BY <1>1, Counting DEF Lookers
<1>3. Counted(Other(c))' \in Nat
  BY RoomStep
<1>4. 0 <= Lookers(c)' + Counted(Other(c))'
  BY <1>2, <1>3
<1> QED
  BY <1>4 DEF Served

(* One more place or element, and whoever waited for it is woken.          *)
LEMMA NotifyServes ==
    ASSUME TypeOK, TypeOK', \A u \in Task : OnList(u), NEW d \in Side, Notify(d),
           NEW c \in Side, c = Other(d), Served(c),
           \A u \in Task : u \in Looking(c) \/ event[u] = WaitIn(c) => Calm(u),
           Room(c)' = Room(c) + 1, Counted(d)' = Counted(d)
    PROVE  Served(c)'
<1>1. WaitFor(d) = WaitIn(c) /\ Other(c) = d /\ WaitIn(c) \in Blocked
  BY SidesDiffer
<1>2. CASE Waiting(WaitFor(d)) = {} /\ event' = event
  <2>1. Waiting(WaitIn(c))' = {}
    BY <1>1, <1>2 DEF Waiting, WaitIn
  <2> QED
    BY <2>1 DEF Served, WaitIn
<1>3. ASSUME NEW w \in Task, event[w] = WaitFor(d), event'[w] \in {"none", "pending"},
             \A u \in Task : u # w => event'[u] = event[u]
      PROVE  Served(c)'
  <2>1. w \in Looking(c)' /\ w \notin Looking(c)
    BY <1>1, <1>3, WokenLooks
  <2>2. Looking(c) \subseteq Looking(c)' /\ Looking(c) \in SUBSET Task /\ Looking(c)' \in SUBSET Task
    BY CalmLooks DEF Looking
  <2>3. Lookers(c) \in Nat /\ Lookers(c)' \in Nat /\ Lookers(c) + 1 <= Lookers(c)'
    BY <2>1, <2>2, Counting DEF Lookers
  <2>4. Waiting(WaitIn(c))' \subseteq Waiting(WaitIn(c))
    BY <1>1, <1>3 DEF Waiting, WaitIn, Blocked
  <2>5. Room(c) \in Nat /\ Counted(Other(c)) \in Nat /\ Counted(Other(c))' = Counted(Other(c))
    BY <1>1, RoomType DEF Counted, Other
  <2>6. Room(c)' + Lookers(c) + Counted(Other(c)) <= Room(c) + Lookers(c)' + Counted(Other(c))'
    BY <2>3, <2>5
  <2> QED
    BY <2>4, <2>6, ServedStep
<1> QED
  BY <1>2, <1>3, NotifyEvents

(* One element or place less, and at most t stops looking for one.         *)
LEMMA DoneServes ==
    ASSUME TypeOK, TypeOK', NEW c \in Side, Served(c), NEW t,
           \A u \in Task : u # t => Calm(u), t \in Task => event'[t] # WaitIn(c),
           Room(c)' = Room(c) - 1, Counted(Other(c))' = Counted(Other(c))
    PROVE  Served(c)'
<1>1. Looking(c) \in SUBSET Task /\ Looking(c)' \in SUBSET Task
  BY DEF Looking
<1>2. Looking(c) \ {t} \subseteq Looking(c)'
  BY <1>1, CalmLooks
<1>3. Lookers(c) \in Nat /\ Lookers(c)' \in Nat /\ Lookers(c) - 1 <= Lookers(c)'
  BY <1>1, <1>2, Counting DEF Lookers
<1>4. Waiting(WaitIn(c))' \subseteq Waiting(WaitIn(c))
  BY SidesDiffer DEF Waiting, WaitIn, Calm, Blocked
<1>5. Room(c) \in Nat /\ Counted(Other(c)) \in Nat
  BY RoomType
<1>6. Room(c)' + Lookers(c) + Counted(Other(c)) <= Room(c) + Lookers(c)' + Counted(Other(c))'
  BY <1>3, <1>5
<1> QED
  BY <1>4, <1>6, ServedStep

(* A step in which every task stays calm.                                  *)
LEMMA AllCalm ==
    ASSUME TypeOK, TypeOK', NEW c \in Side, Served(c), \A u \in Task : Calm(u),
           count' = count, lock' = lock
    PROVE  Served(c)'
<1>1. Looking(c) \subseteq Looking(c)' /\ Looking(c) \in SUBSET Task /\ Looking(c)' \in SUBSET Task
  BY CalmLooks DEF Looking
<1>2. Lookers(c) \in Nat /\ Lookers(c)' \in Nat /\ Lookers(c) <= Lookers(c)'
  BY <1>1, Counting DEF Lookers
<1>3. Waiting(WaitIn(c))' \subseteq Waiting(WaitIn(c))
  BY SidesDiffer DEF Waiting, WaitIn, Calm, Blocked
<1>4. /\ Room(c)' = Room(c) /\ Room(c) \in Nat /\ Counted(Other(c)) \in Nat
      /\ Counted(Other(c))' = Counted(Other(c))
  BY RoomType DEF Room, Counted, Other
<1>5. Room(c)' + Lookers(c) + Counted(Other(c)) <= Room(c) + Lookers(c)' + Counted(Other(c))'
  BY <1>2, <1>4
<1> QED
  BY <1>3, <1>5, ServedStep

LEMMA TickCalm ==
    ASSUME TypeOK, IncrementTick, NEW u \in Task, call' = call, pc'[u] = pc[u] \/ pc'[u] = "resumed"
    PROVE  Calm(u)
<1>1. event'[u] \in {event[u], "none"}
  BY DEF IncrementTick
<1>2. timeout'[u].then = timeout[u].then
  BY TickTimeout
<1> QED
  BY <1>1, <1>2 DEF Calm, InCall

LEMMA NotifyCalm ==
    ASSUME TypeOK, NEW d, Notify(d), NEW u \in Task, call'[u] = call[u],
           timeout'[u].then = timeout[u].then, pc'[u] = pc[u]
    PROVE  Calm(u)
BY NotifyEvents DEF Calm

LEMMA DeviceServes ==
    ASSUME WInv, TypeOK, TypeOK', NEW d \in Isr, Device(d), NEW c \in Side
    PROVE  Served(c)'
<1>1. /\ d \in Side /\ Copy(d) /\ UNCHANGED mine /\ Served(c) /\ \A u \in Task : OnList(u)
      /\ \/ lock[d] = Unlocked /\ Notify(d) /\ UNCHANGED lock
         \/ /\ lock[d] # Unlocked /\ lock' = [lock EXCEPT ![d] = @ + 1] /\ UNCHANGED lists
  BY QueueAssumption DEF Device, Side, WInv, LInv
<1>2. \A u \in Task : Calm(u)
  <2>1. CASE Notify(d)
    BY <1>1, <2>1, NotifyCalm DEF mine
  <2>2. CASE UNCHANGED lists
    BY <1>1, <2>2 DEF mine, lists, Calm
  <2> QED
    BY <1>1, <2>1, <2>2
<1>3. Room(d)' = Room(d) - 1 /\ Room(Other(d))' = Room(Other(d)) + 1
  BY <1>1, CopyRoom
<1>4. Other(d) \in Side /\ Other(d) # d /\ Other(Other(d)) = d
  BY <1>1 DEF Side, Other
<1>5. CASE c = d
  <2>1. lock'[Other(d)] = lock[Other(d)]
    BY <1>1, <1>4 DEF TypeOK, Side
  <2>2. Counted(Other(d))' = Counted(Other(d))
    BY <2>1 DEF Counted, Other
  <2>3. Idle \notin Task
    BY IdleAside
  <2>4. Room(c)' = Room(c) - 1
    BY <1>3, <1>5
  <2> QED
    BY <1>1, <1>2, <1>5, <2>2, <2>3, <2>4, DoneServes
<1>6. CASE c = Other(d)
  <2>1. Room(c)' = Room(c) + 1
    BY <1>3, <1>6 DEF Room, Other
  <2>2. CASE Notify(d) /\ UNCHANGED lock
    <3>1. Counted(d)' = Counted(d)
      BY <2>2 DEF Counted
    <3> QED
      BY <1>1, <1>2, <1>6, <2>1, <2>2, <3>1, NotifyServes
  <2>3. CASE /\ lock[d] # Unlocked /\ lock' = [lock EXCEPT ![d] = @ + 1] /\ UNCHANGED lists
    <3>1. lock[d] \in Nat /\ lock'[d] = lock[d] + 1
      BY <1>1, <2>3, BoundAssumption DEF TypeOK, Side, Unlocked
    <3>2. Counted(d) \in Nat /\ Counted(d)' = Counted(d) + 1 /\ Other(c) = d
      BY <1>4, <1>6, <3>1 DEF Counted
    <3>3. Counted(Other(c)) = Counted(d) /\ Counted(Other(c))' = Counted(d)'
      BY <3>2 DEF Counted, Other
    <3>4. Looking(c) \subseteq Looking(c)' /\ Looking(c) \in SUBSET Task /\ Looking(c)' \in SUBSET Task
      BY <1>2, CalmLooks DEF Looking
    <3>5. Lookers(c) \in Nat /\ Lookers(c)' \in Nat /\ Lookers(c) <= Lookers(c)'
      BY <3>4, Counting DEF Lookers
    <3>6. Waiting(WaitIn(c))' \subseteq Waiting(WaitIn(c))
      BY <2>3 DEF Waiting, WaitIn, lists
    <3>7. Room(c) \in Nat
      BY RoomType
    <3>8. Room(c)' + Lookers(c) + Counted(Other(c)) <= Room(c) + Lookers(c)' + Counted(Other(c))'
      BY <2>1, <3>2, <3>3, <3>5, <3>7
    <3> QED
      BY <1>1, <3>6, <3>8, ServedStep
  <2> QED
    BY <1>1, <2>2, <2>3
<1> QED
  BY <1>1, <1>5, <1>6, SidesDiffer

(* Of what the device did with the locked queue, one use a round is passed *)
(* on to whoever waits for it.                                             *)
LEMMA UnlockServes ==
    ASSUME WInv, TypeOK, TypeOK', NEW t \in Task, NEW d \in Side, NEW enter, NEW more, NEW next,
           Unlock(t, d, enter, more, next), more \in Asleep, next \in Asleep,
           NEW c \in Side
    PROVE  Served(c)'
<1>1. /\ Served(c) /\ \A u \in Task : OnList(u)
      /\ UNCHANGED <<count, call, timeout>>
      /\ pc' = [pc EXCEPT ![t] = more] \/ pc' = [pc EXCEPT ![t] = next]
      /\ Other(d) \in Side /\ Other(d) # d /\ Other(Other(d)) = d
      /\ WaitFor(d) = WaitIn(Other(d))
  BY SidesDiffer DEF Unlock, Goto, WInv, LInv, Side, Other
<1>2. \/ /\ lock[d] > 0 /\ lock' = [lock EXCEPT ![d] = @ - 1]
         /\ \E w \in First(WaitFor(d)) : RemoveFromEventList(w)
      \/ /\ lock[d] <= 0 \/ Waiting(WaitFor(d)) = {}
         /\ lock' = [lock EXCEPT ![d] = Unlocked] /\ event' = event
  BY DEF Unlock, lists, TypeOK, Side, Unlocked
<1>3. \A u \in Task : pc'[u] = pc[u] \/ pc'[u] \notin InCall \cup {"out"}
  BY <1>1 DEF InCall, Asleep, TypeOK
<1>4. lock'[Other(d)] = lock[Other(d)]
  BY <1>1, <1>2 DEF TypeOK, Side
<1>5. Counted(Other(d))' = Counted(Other(d))
  BY <1>4 DEF Counted, Other
<1>6. CASE /\ lock[d] > 0 /\ lock' = [lock EXCEPT ![d] = @ - 1]
           /\ \E w \in First(WaitFor(d)) : RemoveFromEventList(w)
  <2>1. PICK w \in Task : /\ event[w] = WaitFor(d) /\ event'[w] \in {"none", "pending"}
                          /\ \A u \in Task : u # w => event'[u] = event[u]
    <3>1. PICK w \in First(WaitFor(d)) : RemoveFromEventList(w)
      BY <1>6
    <3>2. w \in Task /\ event[w] = WaitFor(d)
      BY DEF First, Waiting
    <3> QED
      BY <3>1, <3>2 DEF RemoveFromEventList, TypeOK
  <2>2. \A u \in Task : Calm(u)
    BY <1>1, <1>3, <2>1 DEF Calm
  <2>3. CASE c = d
    BY <1>1, <1>5, <2>2, <2>3, OneMoves, SidesDiffer DEF Calm, Blocked
  <2>4. CASE c = Other(d)
    <3>1. lock[d] \in Nat /\ lock'[d] = lock[d] - 1
      BY <1>6 DEF TypeOK, Side, Unlocked
    <3>2. Counted(d) \in Nat /\ Counted(d)' = Counted(d) - 1 /\ Other(c) = d
      BY <1>1, <1>6, <2>4, <3>1 DEF Counted
    <3>3. Counted(Other(c)) = Counted(d) /\ Counted(Other(c))' = Counted(d)'
      BY <3>2 DEF Counted, Other
    <3>4. w \in Looking(c)' /\ w \notin Looking(c)
      BY <1>1, <2>1, <2>2, <2>4, WokenLooks
    <3>5. Looking(c) \subseteq Looking(c)' /\ Looking(c) \in SUBSET Task /\ Looking(c)' \in SUBSET Task
      BY <2>2, CalmLooks DEF Looking
    <3>6. Lookers(c) \in Nat /\ Lookers(c)' \in Nat /\ Lookers(c) + 1 <= Lookers(c)'
      BY <3>4, <3>5, Counting DEF Lookers
    <3>7. Waiting(WaitIn(c))' \subseteq Waiting(WaitIn(c))
      BY <2>1, SidesDiffer DEF Waiting, WaitIn, Blocked
    <3>8. Room(c)' = Room(c) /\ Room(c) \in Nat
      BY <1>1, RoomType DEF Room
    <3>9. Room(c)' + Lookers(c) + Counted(Other(c)) <= Room(c) + Lookers(c)' + Counted(Other(c))'
      BY <3>2, <3>3, <3>6, <3>8
    <3> QED
      BY <1>1, <3>7, <3>9, ServedStep
  <2> QED
    BY <2>3, <2>4, SidesDiffer
<1>7. CASE /\ lock[d] <= 0 \/ Waiting(WaitFor(d)) = {}
           /\ lock' = [lock EXCEPT ![d] = Unlocked] /\ event' = event
  <2>1. \A u \in Task : Calm(u)
    BY <1>1, <1>3, <1>7 DEF Calm
  <2>2. CASE c = d
    BY <1>1, <1>5, <1>7, <2>1, <2>2, OneMoves
  <2>3. CASE c = Other(d) /\ Waiting(WaitFor(d)) = {}
    <3>1. Waiting(WaitIn(c))' = {}
      BY <1>1, <1>7, <2>3 DEF Waiting, WaitIn
    <3> QED
      BY <3>1 DEF Served, WaitIn
  <2>4. CASE c = Other(d) /\ lock[d] <= 0
    <3>1. lock'[d] = Unlocked /\ Other(c) = d /\ lock[d] \in Int
      BY <1>1, <1>7, <2>4 DEF TypeOK, Side, Unlocked
    <3>2. Counted(Other(c))' = Counted(Other(c))
      BY <2>4, <3>1 DEF Counted, Unlocked, Other
    <3> QED
      BY <1>1, <1>7, <2>1, <3>2, OneMoves
  <2> QED
    BY <1>7, <2>2, <2>3, <2>4, SidesDiffer
<1> QED
  BY <1>2, <1>6, <1>7

LEMMA ServedInit == Init => WInv
<1> SUFFICES ASSUME Init PROVE \A c \in Side : Served(c)
  BY OnListInit DEF WInv
<1>1. \A t \in Task : event[t] = "none"
  BY DEF Init
<1> QED
  BY <1>1, SidesDiffer DEF Served, Waiting, Blocked

LEMMA ServedNext == WInv /\ [Next]_vars => WInv'
<1> SUFFICES ASSUME WInv, [Next]_vars, NEW c \in Side PROVE Served(c)'
  BY OnListStep DEF WInv
<1>t. TypeOK /\ TypeOK' /\ Served(c) /\ \A u \in Task : OnList(u)
  BY TypeStep DEF WInv, LInv, RInv, TInv
<1>1. CASE Tick
  <2>1. CASE suspended
    <3>1. \A u \in Task : Calm(u)
      BY <1>1, <2>1 DEF Tick, lists, Calm
    <3> QED
      BY <1>1, <1>t, <3>1, AllCalm DEF Tick, queue
  <2>2. CASE ~suspended
    <3>1. \A u \in Task : Calm(u)
      BY <1>1, <2>2, <1>t, TickCalm DEF Tick
    <3> QED
      BY <1>1, <1>t, <3>1, AllCalm DEF Tick, queue
  <2> QED
    BY <2>1, <2>2
<1>2. ASSUME NEW d \in Isr, Device(d) PROVE Served(c)'
  BY <1>2, <1>t, DeviceServes
<1>3. ASSUME NEW t \in Task, Step(t) PROVE Served(c)'
  <2>a. current = t /\ Awake(t) /\ OnList(t) /\ (pc[t] \notin Asleep => event[t] \notin Blocked)
    BY <1>3, <1>t DEF WInv, LInv, RInv, Step, Begin, Do, GiveUp, MustWait, SuspendAll, LockQueue,
       Decide, UnlockTx, UnlockRx, Unlock, Delay, ResumeAll, Unwind, Yield, Resumed, At, Awake, OnList
  <2>m. ASSUME event' = event, count' = count, lock' = lock, t \notin Looking(c),
               NEW p, pc' = [pc EXCEPT ![t] = p],
               \A u \in Task : u # t => call'[u] = call[u] /\ timeout'[u].then = timeout[u].then
        PROVE  Served(c)'
    <3>1. \A u \in Task : u # t => Calm(u)
      BY <2>m, <1>t DEF Calm, TypeOK
    <3>2. Counted(Other(c))' = Counted(Other(c))
      BY <2>m DEF Counted, Other
    <3> QED
      BY <2>m, <3>1, <3>2, <1>t, OneMoves
  <2>1. CASE Begin(t)
    <3>1. /\ pc[t] = "out" /\ pc' = [pc EXCEPT ![t] = "call"] /\ UNCHANGED <<lists, queue>>
          /\ timeout' = [timeout EXCEPT ![t] = [NoTimeout EXCEPT !.left = Wait[t]]]
          /\ \E j \in Job[t] : call' = [call EXCEPT ![t] = j]
      BY <2>1 DEF Begin, At, Goto
    <3>2. \A u \in Task : u # t => call'[u] = call[u] /\ timeout'[u].then = timeout[u].then
      BY <3>1, <1>t DEF TypeOK
    <3>3. t \notin Looking(c)
      BY <3>1 DEF Looking
    <3> QED
      BY <3>1, <3>2, <3>3, <2>m DEF lists, queue
  <2>2. CASE Do(t)
    <3>0. PICK d \in Side : d = call[t]
      BY <2>2, <1>t DEF Do, TypeOK, Call, Side
    <3>1. /\ pc[t] = "call" /\ pc' = [pc EXCEPT ![t] = "out"] /\ lock' = lock
          /\ call' = [call EXCEPT ![t] = "delay"]
          /\ timeout' = [timeout EXCEPT ![t] = NoTimeout]
          /\ Copy(d) /\ Notify(d)
      BY <2>2, <3>0 DEF Do, Return, At, Goto
    <3>2. \A u \in Task : u # t => Calm(u)
      BY <3>1, <1>t, NotifyCalm DEF TypeOK
    <3>3. event[t] \notin Blocked /\ event'[t] \notin Blocked
      BY <3>1, <1>t, <2>a, NotifyEvents DEF Asleep, Blocked, TypeOK
    <3>4. Counted(Other(c))' = Counted(Other(c)) /\ Counted(d)' = Counted(d)
      BY <3>1 DEF Counted, Other
    <3>5. Room(d)' = Room(d) - 1 /\ Room(Other(d))' = Room(Other(d)) + 1
      BY <1>t, <3>1, CopyRoom
    <3>6. CASE c = d
      <4>1. event'[t] # WaitIn(c)
        BY <3>3, SidesDiffer
      <4> QED
        BY <1>t, <3>2, <3>4, <3>5, <3>6, <4>1, DoneServes
    <3>7. CASE c = Other(d)
      <4>1. t \notin Looking(c) /\ event[t] # WaitIn(c)
        BY <3>0, <3>3, <3>7, SidesDiffer DEF Looking, Other, Side
      <4>2. Room(c)' = Room(c) + 1
        BY <3>5, <3>7 DEF Room, Other
      <4> QED
        BY <1>t, <3>1, <3>2, <3>4, <3>7, <4>1, <4>2, NotifyServes
    <3> QED
      BY <3>6, <3>7, SidesDiffer
  <2>n. ASSUME event' = event, UNCHANGED queue, pc[t] = "call", call[t] # "delay",
               ~Possible(call[t]), NEW p, pc' = [pc EXCEPT ![t] = p],
               \A u \in Task : u # t => call'[u] = call[u] /\ timeout'[u].then = timeout[u].then
        PROVE  Served(c)'
    <3>1. CASE c = call[t]
      <4>1. Room(c) = 0
        BY <2>n, <3>1, <1>t, RoomType
      <4>2. Room(c)' = 0
        BY <2>n, <4>1 DEF Room, queue
      <4> QED
        BY <1>t, <4>2, NobodyNeeded
    <3>2. CASE c # call[t]
      BY <2>n, <3>2, <2>m DEF Looking, queue
    <3> QED
      BY <3>1, <3>2
  <2>3. CASE GiveUp(t)
    <3>1. /\ pc[t] = "call" /\ pc' = [pc EXCEPT ![t] = "out"] /\ UNCHANGED <<lists, queue>>
          /\ call' = [call EXCEPT ![t] = "delay"] /\ call[t] # "delay" /\ ~Possible(call[t])
          /\ timeout' = [timeout EXCEPT ![t] = NoTimeout]
      BY <2>3 DEF GiveUp, Return, At, Goto
    <3>2. \A u \in Task : u # t => call'[u] = call[u] /\ timeout'[u].then = timeout[u].then
      BY <3>1, <1>t DEF TypeOK
    <3> QED
      BY <3>1, <3>2, <2>n DEF lists
  <2>4. CASE MustWait(t)
    <3>1. /\ pc[t] = "call" /\ pc' = [pc EXCEPT ![t] = "suspend"]
          /\ UNCHANGED <<lists, queue, call>> /\ call[t] # "delay" /\ ~Possible(call[t])
      BY <2>4 DEF MustWait, At, Goto
    <3>2. \A u \in Task : u # t => call'[u] = call[u] /\ timeout'[u].then = timeout[u].then
      BY <2>4, <3>1, <1>t DEF MustWait, TypeOK
    <3> QED
      BY <3>1, <3>2, <2>n DEF lists
  <2>5. CASE SuspendAll(t)
    <3>1. /\ pc[t] = "suspend" /\ pc' = [pc EXCEPT ![t] = "lock"]
          /\ UNCHANGED <<lists, queue, call, timeout>>
      BY <2>5 DEF SuspendAll, At, Goto
    <3> QED
      BY <3>1, <2>m DEF lists, queue, Looking
  <2>6. CASE LockQueue(t)
    <3>1. /\ pc[t] = "lock" /\ pc' = [pc EXCEPT ![t] = "decide"]
          /\ UNCHANGED <<lists, count, call, timeout>>
          /\ lock' = [d \in {"send", "receive"} |-> IF lock[d] = Unlocked THEN 0 ELSE lock[d]]
      BY <2>6 DEF LockQueue, At, Goto
    <3>2. \A u \in Task : u # t => Calm(u)
      BY <3>1, <1>t DEF Calm, lists, TypeOK
    <3>3. t \notin Looking(c)
      BY <3>1 DEF Looking
    <3>4. Counted(Other(c))' = Counted(Other(c))
      <4>1. Other(c) \in {"send", "receive"}
        BY DEF Other
      <4>2. lock'[Other(c)] = IF lock[Other(c)] = Unlocked THEN 0 ELSE lock[Other(c)]
        BY <3>1, <4>1
      <4> QED
        BY <4>2 DEF Counted, Other, Unlocked
    <3> QED
      BY <1>t, <3>1, <3>2, <3>3, <3>4, OneMoves DEF lists
  <2>7. CASE Decide(t)
    <3>1. /\ pc[t] = "decide" /\ pc' = [pc EXCEPT ![t] = "unlockTx"] /\ call' = call
          /\ UNCHANGED queue
      BY <2>7 DEF Decide, At, Goto
    <3>2. t \notin Looking(c) /\ call[t] \in Side
      BY <3>1, <2>a, <1>t DEF Looking, OnList, InCall, TypeOK, Call, Side
    <3>3. CASE UNCHANGED lists /\ \A v \in Task : v # t => timeout'[v] = timeout[v]
      BY <3>1, <3>2, <3>3, <2>m DEF lists, queue
    <3>4. CASE /\ event' = [event EXCEPT ![t] = WaitIn(call[t])] /\ ~Possible(call[t])
               /\ \A v \in Task : v # t => timeout'[v] = timeout[v]
      <4>1. CASE c = call[t]
        <5>1. Room(c) = 0
          BY <3>4, <4>1, <1>t, RoomType
        <5>2. Room(c)' = 0
          BY <3>1, <5>1 DEF Room, queue
        <5> QED
          BY <1>t, <5>2, NobodyNeeded
      <4>2. CASE c # call[t]
        <5>1. event'[t] # WaitIn(c)
          BY <3>2, <3>4, <4>2, <1>t, SidesDiffer DEF TypeOK
        <5>2. \A u \in Task : u # t => Calm(u)
          BY <3>1, <3>4, <1>t DEF Calm, TypeOK
        <5>3. Counted(Other(c))' = Counted(Other(c)) /\ count' = count
          BY <3>1 DEF Counted, Other, queue
        <5> QED
          BY <1>t, <3>2, <5>1, <5>2, <5>3, OneMoves
      <4> QED
        BY <4>1, <4>2
    <3> QED
      BY <2>7, <1>t, <3>3, <3>4, DecideOutcome
  <2>8. CASE UnlockTx(t)
    BY <2>8, <1>t, UnlockServes DEF UnlockTx, Asleep, Side
  <2>9. CASE UnlockRx(t)
    BY <2>9, <1>t, UnlockServes DEF UnlockRx, Asleep, Side
  <2>10. CASE Delay(t)
    <3>1. /\ pc[t] = "call" /\ pc' = [pc EXCEPT ![t] = "resume"] /\ UNCHANGED <<event, call, queue>>
          /\ call[t] = "delay" /\ timeout' = [timeout EXCEPT ![t].then = "sleep"]
      BY <2>10 DEF Delay, At, Goto
    <3>2. t \notin Looking(c)
      BY <3>1 DEF Looking, Side
    <3>3. \A u \in Task : u # t => timeout'[u] = timeout[u]
      BY <3>1, <1>t DEF TypeOK
    <3> QED
      BY <3>1, <3>2, <3>3, <2>m DEF queue
  <2>11. CASE ResumeAll(t)
    <3>1. /\ UNCHANGED <<call, timeout, queue>>
          /\ \E p \in {"unwind", "resumed", "yield"} : pc' = [pc EXCEPT ![t] = p]
          /\ event' = [v \in Task |-> IF v \in Waiting("pending") THEN "none" ELSE event[v]]
      BY <2>11 DEF ResumeAll, Goto
    <3>2. \A u \in Task : Calm(u)
      BY <3>1, <1>t DEF Calm, InCall, TypeOK
    <3> QED
      BY <3>1, <3>2, <1>t, AllCalm DEF queue
  <2>12. CASE Unwind(t)
    <3>1. /\ IncrementTick /\ UNCHANGED <<call, queue>>
          /\ pc' = pc \/ pc' = [pc EXCEPT ![t] = "resumed"]
      BY <2>12 DEF Unwind, Goto
    <3>2. \A u \in Task : Calm(u)
      BY <3>1, <1>t, TickCalm DEF TypeOK
    <3> QED
      BY <3>1, <3>2, <1>t, AllCalm DEF queue
  <2>13. CASE Yield(t)
    <3>1. /\ pc' = [pc EXCEPT ![t] = "resumed"] /\ UNCHANGED <<lists, call, timeout, queue>>
      BY <2>13 DEF Yield, Goto
    <3>2. \A u \in Task : Calm(u)
      BY <3>1, <1>t DEF Calm, InCall, lists, TypeOK
    <3> QED
      BY <3>1, <3>2, <1>t, AllCalm DEF queue
  <2>14. CASE Resumed(t)
    <3>1. CASE call[t] = "delay" \/ timeout[t].then = "fail"
      <4>1. Return(t) /\ UNCHANGED <<lists, queue>>
        BY <2>14, <3>1 DEF Resumed
      <4>2. t \notin Looking(c)
        BY <3>1 DEF Looking, Side
      <4>3. \A u \in Task : u # t => call'[u] = call[u] /\ timeout'[u].then = timeout[u].then
        BY <4>1, <1>t DEF Return, TypeOK
      <4> QED
        BY <4>1, <4>2, <4>3, <2>m DEF Return, Goto, lists, queue
    <3>2. CASE ~(call[t] = "delay" \/ timeout[t].then = "fail")
      <4>1. pc' = [pc EXCEPT ![t] = "call"] /\ UNCHANGED <<call, timeout, lists, queue>>
        BY <2>14, <3>2 DEF Resumed, Goto
      <4>2. \A u \in Task : Calm(u)
        BY <4>1, <1>t DEF Calm, InCall, lists, TypeOK
      <4> QED
        BY <4>1, <4>2, <1>t, AllCalm DEF queue
    <3> QED
      BY <3>1, <3>2
  <2> QED
    BY <1>3, <2>1, <2>2, <2>3, <2>4, <2>5, <2>6, <2>7, <2>8, <2>9, <2>10, <2>11, <2>12, <2>13,
       <2>14 DEF Step
<1>4. CASE UNCHANGED vars
  <2>1. \A u \in Task : Calm(u)
    BY <1>4 DEF vars, lists, mine, Calm
  <2> QED
    BY <1>4, <2>1, <1>t, AllCalm DEF vars, queue
<1> QED
  BY <1>1, <1>2, <1>3, <1>4 DEF Next

(* Whoever waits for an element or for a free place is not forgotten: each *)
(* of those there are has a task that comes for it or is counted by the    *)
(* queue's lock, for any number of tasks and with a device at both ends.   *)
THEOREM NobodyIsForgotten == Spec => []NoLostWakeup
<1>1. WInv => NoLostWakeup
  <2> SUFFICES ASSUME WInv PROVE NoLostWakeup
    OBVIOUS
  <2>1. Served("send") /\ Served("receive")
    BY DEF WInv, Side
  <2> QED
    BY <2>1 DEF NoLostWakeup, Claims, Served, Room, Lookers, Counted, Other, WaitIn
<1> QED
  BY <1>1, ServedInit, ServedNext, PTL DEF Spec
=============================================================================
