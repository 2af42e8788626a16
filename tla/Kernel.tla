-------------------------------- MODULE Kernel --------------------------------
(***************************************************************************)
(* The part of FreeRTOS the board's tasks run on (src/tcc/embedded/rtos):  *)
(* one queue (queue.c) and the scheduler beneath it (tasks.c, list.c).     *)
(* Display and Emac assume of it that a task which sends to a full queue   *)
(* or receives from an empty one waits, and for as long as it asked to.    *)
(*                                                                         *)
(* A critical section is one step.  Between two steps of the running task  *)
(* an interrupt may come, the tick or a device that uses the queue, also   *)
(* while the scheduler is suspended and the queue locked; an interrupt     *)
(* handler is one step.  The lists are given by the pxContainer of the     *)
(* tasks' two list items; which of several tasks of one priority goes      *)
(* first is left open.  What the elements of the queue are is left out.    *)
(***************************************************************************)
EXTENDS Integers, FiniteSets

CONSTANTS
    Task,       \* the tasks, the idle task aside
    Idle,       \* the idle task
    Prio,       \* [Task -> uxPriority]
    Job,        \* [Task -> the calls it makes]
    Wait,       \* [Task -> xTicksToWait of its calls]
    Isr,        \* what the device's handler does with the queue
    Length,     \* uxLength
    MaxDelay,   \* portMAX_DELAY, the largest portTickType
    MaxMissed   \* bound: ticks, and uses of the queue, during one suspension

Call == {"send", "receive", "delay"}

ASSUME TaskAssumption ==
    /\ Idle \notin Task /\ IsFiniteSet(Task)
    /\ Prio \in [Task -> Nat \ {0}]
    /\ Job \in [Task -> SUBSET Call]
    /\ Wait \in [Task -> 0 .. MaxDelay]
    /\ \A t \in Task : "delay" \in Job[t] => Wait[t] > 0
ASSUME QueueAssumption == Length \in Nat \ {0} /\ Isr \subseteq {"send", "receive"}
ASSUME BoundAssumption == MaxDelay \in Nat \ {0} /\ MaxMissed \in Nat

VARIABLES
    current,    \* pxCurrentTCB
    list,       \* [Task -> the list its xGenericListItem is in]
    wake,       \* [Task -> the value of that item, in a delayed list]
    event,      \* [Task -> the list its xEventListItem is in]
    tick,       \* xTickCount
    suspended,  \* uxSchedulerSuspended
    missed,     \* uxMissedTicks
    yield,      \* xMissedYield
    count,      \* uxMessagesWaiting
    lock,       \* xTxLock and xRxLock, as what was sent and received meanwhile
    pc,         \* [Task -> how far it is in its call]
    call,       \* [Task -> its call]
    timeout,    \* [Task -> the call's xTimeOut and what is left of its wait]
    waited      \* [Task -> the ticks since the call found it must wait]

sched == <<current, suspended, missed, yield>>
lists == <<list, wake, event>>
queue == <<count, lock>>
mine  == <<pc, call, timeout, waited>>
vars  == <<sched, lists, tick, queue, mine>>

List  == {"ready", "delayed", "overflow", "suspended"}
Event == {"none", "toSend", "toReceive", "pending"}
Time  == 0 .. MaxDelay
Place == {"out", "call", "suspend", "lock", "decide", "unlockTx", "moreTx", "unlockRx",
          "moreRx", "resume", "unwind", "yield", "resumed"}

Unlocked == -1

(* set is xEntryTimeSet; wrapped says that xNumOfOverflows has changed     *)
(* since; then is what follows when the scheduler is resumed.              *)
TimeOut   == [left : Time, set : BOOLEAN, entered : Time, wrapped : BOOLEAN,
              then : {"again", "sleep", "fail"}]
NoTimeout == [left |-> 0, set |-> FALSE, entered |-> 0, wrapped |-> FALSE, then |-> "again"]

Init ==
    /\ list = [t \in Task |-> "ready"]
    /\ wake = [t \in Task |-> 0]
    /\ event = [t \in Task |-> "none"]
    /\ current \in {t \in Task : \A u \in Task : Prio[u] <= Prio[t]}
    /\ tick = 0 /\ suspended = FALSE /\ missed = 0 /\ yield = FALSE
    /\ count = 0
    /\ lock = [send |-> Unlocked, receive |-> Unlocked]
    /\ pc = [t \in Task |-> "out"]
    /\ call = [t \in Task |-> "delay"]
    /\ timeout = [t \in Task |-> NoTimeout]
    /\ waited = [t \in Task |-> 0]

-----------------------------------------------------------------------------
(* The scheduler. *)

Priority(t) == IF t = Idle THEN 0 ELSE Prio[t]

(* vTaskSwitchContext, when tasks are in which lists: a ready task of the  *)
(* highest priority, the idle task if there is none.                       *)
Best(where) ==
    LET ready == {t \in Task : where[t] = "ready"}
    IN IF ready = {} THEN {Idle}
       ELSE {t \in ready : \A u \in ready : Prio[u] <= Prio[t]}

(* A handler or the tick ends with a switch, which waits if the scheduler  *)
(* is suspended.                                                           *)
SwitchContext ==
    IF suspended THEN yield' = TRUE /\ UNCHANGED current
    ELSE current' \in Best(list') /\ UNCHANGED yield

Swapped(l) == CASE l = "delayed" -> "overflow" [] l = "overflow" -> "delayed"
                [] l \in {"ready", "suspended"} -> l

(* Task t has not been kept from the clock for a whole turn of xTickCount, *)
(* which takes weeks; up to there waited is counted.                       *)
Prompt(t) == waited[t] <= MaxDelay

(* vTaskIncrementTick with the scheduler running: when xTickCount wraps,   *)
(* the two delayed lists change places; then the tasks that are due leave  *)
(* their lists for the ready list.                                         *)
IncrementTick ==
    LET now   == IF tick = MaxDelay THEN 0 ELSE tick + 1
        where == [t \in Task |-> IF now = 0 THEN Swapped(list[t]) ELSE list[t]]
        due   == {t \in Task : where[t] = "delayed" /\ wake[t] <= now}
    IN /\ tick' = now
       /\ list' = [t \in Task |-> IF t \in due THEN "ready" ELSE where[t]]
       /\ event' = [t \in Task |-> IF t \in due THEN "none" ELSE event[t]]
       /\ wake' = [t \in Task |-> IF t \in due THEN 0 ELSE wake[t]]
       /\ timeout' = [t \in Task |->
              [timeout[t] EXCEPT !.wrapped = timeout[t].set /\ (@ \/ now = 0)]]
       /\ waited' = [t \in Task |->
              IF timeout[t].set /\ Prompt(t) THEN waited[t] + 1 ELSE waited[t]]

(* Interrupts are masked in a critical section of several steps.           *)
Masked == current # Idle /\ pc[current] \in {"moreTx", "moreRx", "unwind"}

(* The tick interrupt. *)
Tick ==
    /\ ~Masked
    /\ IF suspended
       THEN /\ missed < MaxMissed
            /\ missed' = missed + 1
            /\ UNCHANGED <<lists, tick, timeout, waited>>
       ELSE IncrementTick /\ UNCHANGED missed
    /\ SwitchContext
    /\ UNCHANGED <<suspended, queue, pc, call>>

(* Mutant: the wrap of the wake time is overlooked.                        *)
SleepAhead(t, w) ==
    /\ list' = [list EXCEPT ![t] = "delayed"]
    /\ wake' = [wake EXCEPT ![t] = (tick + w) % (MaxDelay + 1)]

(* The running task leaves the ready list for w ticks.                     *)
SleepFor(t, w) ==
    LET at == IF tick + w > MaxDelay THEN tick + w - MaxDelay - 1 ELSE tick + w
    IN /\ list' = [list EXCEPT ![t] = IF at < tick THEN "overflow" ELSE "delayed"]
       /\ wake' = [wake EXCEPT ![t] = at]

(* vTaskPlaceOnEventList *)
PlaceOnEventList(t, l, w) ==
    /\ event' = [event EXCEPT ![t] = l]
    /\ IF w = MaxDelay THEN list' = [list EXCEPT ![t] = "suspended"] /\ UNCHANGED wake
       ELSE SleepFor(t, w)

(* The waiting tasks xTaskRemoveFromEventList may take.                    *)
Waiting(l) == {t \in Task : event[t] = l}

First(l) == {t \in Waiting(l) : \A u \in Waiting(l) : Prio[u] <= Prio[t]}

RemoveFromEventList(t) ==
    IF suspended
    THEN event' = [event EXCEPT ![t] = "pending"] /\ UNCHANGED <<list, wake>>
    ELSE /\ event' = [event EXCEPT ![t] = "none"]
         /\ list' = [list EXCEPT ![t] = "ready"]
         /\ wake' = [wake EXCEPT ![t] = 0]

-----------------------------------------------------------------------------
(* The queue. *)

(* The list of those who wait for what call c does.                        *)
WaitFor(c) == IF c = "send" THEN "toReceive" ELSE "toSend"
WaitIn(c)  == IF c = "send" THEN "toSend" ELSE "toReceive"

(* Mutant: one element too many.                                           *)
PossibleAtTheEnd(c) == IF c = "send" THEN count <= Length ELSE count > 0

Possible(c) == IF c = "send" THEN count < Length ELSE count > 0

(* prvCopyDataToQueue, prvCopyDataFromQueue *)
Copy(c) == count' = IF c = "send" THEN count + 1 ELSE count - 1

(* Whoever waits for what call c does is woken, and the processor changes  *)
(* hands if it has at least the priority of the running task.              *)
Notify(c) ==
    IF Waiting(WaitFor(c)) = {} THEN UNCHANGED <<lists, current, yield>>
    ELSE \E t \in First(WaitFor(c)) :
            /\ RemoveFromEventList(t)
            /\ IF Prio[t] >= Priority(current) THEN SwitchContext
               ELSE UNCHANGED <<current, yield>>

(* Mutant: what is done with a locked queue is not counted.                *)
DeviceUncounted(c) ==
    /\ ~Masked
    /\ Possible(c)
    /\ Copy(c)
    /\ IF lock[c] = Unlocked THEN Notify(c) ELSE UNCHANGED <<lists, current, yield>>
    /\ UNCHANGED <<suspended, missed, tick, lock, mine>>

(* xQueueGenericSendFromISR, xQueueReceiveFromISR and the end of the       *)
(* handler: with the queue locked the event lists are left alone.          *)
Device(c) ==
    /\ ~Masked
    /\ Possible(c)
    /\ Copy(c)
    /\ IF lock[c] = Unlocked THEN Notify(c) /\ UNCHANGED lock
       ELSE /\ lock[c] < MaxMissed
            /\ lock' = [lock EXCEPT ![c] = @ + 1]
            /\ UNCHANGED <<lists, current, yield>>
    /\ UNCHANGED <<suspended, missed, tick, mine>>

-----------------------------------------------------------------------------
(* The calls of the running task t: xQueueGenericSend, the receiving half  *)
(* of xQueueGenericReceive, and vTaskDelay.                                *)

At(t, place) == current = t /\ pc[t] = place

Goto(t, place) == pc' = [pc EXCEPT ![t] = place]

Begin(t) ==
    /\ At(t, "out")
    /\ \E c \in Job[t] : call' = [call EXCEPT ![t] = c]
    /\ timeout' = [timeout EXCEPT ![t] = [NoTimeout EXCEPT !.left = Wait[t]]]
    /\ Goto(t, "call")
    /\ UNCHANGED <<sched, lists, tick, queue, waited>>

(* The first critical section of a call on the queue: it is done if it is  *)
(* possible, and given up if it is not and need not be waited for.         *)
Return(t) ==
    /\ Goto(t, "out")
    /\ call' = [call EXCEPT ![t] = "delay"]
    /\ timeout' = [timeout EXCEPT ![t] = NoTimeout]
    /\ waited' = [waited EXCEPT ![t] = 0]

Do(t) ==
    /\ At(t, "call")
    /\ call[t] # "delay"
    /\ Possible(call[t])
    /\ Copy(call[t])
    /\ Notify(call[t])
    /\ Return(t)
    /\ UNCHANGED <<suspended, missed, tick, lock>>

GiveUp(t) ==
    /\ At(t, "call")
    /\ call[t] # "delay"
    /\ ~Possible(call[t])
    /\ timeout[t].left = 0
    /\ Return(t)
    /\ UNCHANGED <<sched, lists, tick, queue>>

(* Mutant: the wait starts anew whenever the task was woken in vain.       *)
MustWaitAnew(t) ==
    /\ At(t, "call")
    /\ call[t] # "delay"
    /\ ~Possible(call[t])
    /\ timeout[t].left > 0
    /\ timeout' = [timeout EXCEPT ![t] =
           IF @.left = MaxDelay THEN @
           ELSE [@ EXCEPT !.set = TRUE, !.entered = tick, !.wrapped = FALSE]]
    /\ Goto(t, "suspend")
    /\ UNCHANGED <<sched, lists, tick, queue, call, waited>>

(* vTaskSetTimeOutState, the first time round; what an endless wait never  *)
(* reads is not kept.                                                      *)
MustWait(t) ==
    /\ At(t, "call")
    /\ call[t] # "delay"
    /\ ~Possible(call[t])
    /\ timeout[t].left > 0
    /\ timeout' = [timeout EXCEPT ![t] =
           IF @.set \/ @.left = MaxDelay THEN @ ELSE [@ EXCEPT !.set = TRUE, !.entered = tick]]
    /\ Goto(t, "suspend")
    /\ UNCHANGED <<sched, lists, tick, queue, call, waited>>

SuspendAll(t) ==
    /\ At(t, "suspend")
    /\ suspended' = TRUE
    /\ Goto(t, "lock")
    /\ UNCHANGED <<current, missed, yield, lists, tick, queue, call, timeout, waited>>

(* prvLockQueue *)
LockQueue(t) ==
    /\ At(t, "lock")
    /\ lock' = [c \in {"send", "receive"} |-> IF lock[c] = Unlocked THEN 0 ELSE lock[c]]
    /\ Goto(t, "decide")
    /\ UNCHANGED <<sched, lists, tick, count, call, timeout, waited>>

(* xTaskCheckForTimeOut: how long ago the wait began, and whether that is  *)
(* as long as asked for.                                                   *)
Elapsed(t) ==
    IF tick >= timeout[t].entered THEN tick - timeout[t].entered
    ELSE tick + MaxDelay + 1 - timeout[t].entered

TimedOut(t) ==
    /\ timeout[t].left # MaxDelay
    /\ \/ timeout[t].wrapped /\ tick >= timeout[t].entered
       \/ Elapsed(t) >= timeout[t].left

(* Neither the timeout (xTickCount stands still) nor the event lists (the  *)
(* queue is locked) can change before the task has placed itself.          *)
Decide(t) ==
    /\ At(t, "decide")
    /\ IF TimedOut(t)
       THEN /\ timeout' = [timeout EXCEPT ![t].then = "fail"]
            /\ UNCHANGED lists
       ELSE LET left == IF timeout[t].left = MaxDelay THEN MaxDelay
                        ELSE timeout[t].left - Elapsed(t)
                from == IF timeout[t].left = MaxDelay THEN timeout[t]
                        ELSE [timeout[t] EXCEPT !.left = left, !.entered = tick,
                                                !.wrapped = FALSE]
            IN IF Possible(call[t])
               THEN /\ timeout' = [timeout EXCEPT ![t] = [from EXCEPT !.then = "again"]]
                    /\ UNCHANGED lists
               ELSE /\ timeout' = [timeout EXCEPT ![t] = [from EXCEPT !.then = "sleep"]]
                    /\ PlaceOnEventList(t, WaitIn(call[t]), left)
    /\ Goto(t, "unlockTx")
    /\ UNCHANGED <<sched, tick, queue, call, waited>>

(* prvUnlockQueue: for what the handler did meanwhile with the queue, c,   *)
(* as many waiting tasks are woken, one a round.                           *)
Unlock(t, c, enter, more, next) ==
    /\ At(t, enter) \/ At(t, more)
    /\ IF lock[c] > 0 /\ Waiting(WaitFor(c)) # {}
       THEN /\ \E u \in First(WaitFor(c)) :
                  /\ RemoveFromEventList(u)
                  /\ yield' = (yield \/ Prio[u] >= Prio[t])
            /\ lock' = [lock EXCEPT ![c] = @ - 1]
            /\ Goto(t, more)
       ELSE /\ lock' = [lock EXCEPT ![c] = Unlocked]
            /\ Goto(t, next)
            /\ UNCHANGED <<lists, yield>>
    /\ UNCHANGED <<current, suspended, missed, tick, count, call, timeout, waited>>

UnlockTx(t) == Unlock(t, "send", "unlockTx", "moreTx", "unlockRx")
UnlockRx(t) == Unlock(t, "receive", "unlockRx", "moreRx", "resume")

(* vTaskDelay up to xTaskResumeAll: nothing an interrupt does with the     *)
(* scheduler suspended depends on whether the task is asleep already.      *)
Delay(t) ==
    /\ At(t, "call")
    /\ call[t] = "delay"
    /\ suspended' = TRUE
    /\ SleepFor(t, timeout[t].left)
    /\ timeout' = [timeout EXCEPT ![t].then = "sleep"]
    /\ Goto(t, "resume")
    /\ UNCHANGED <<current, missed, yield, event, tick, queue, call, waited>>

(* xTaskResumeAll: the tasks woken meanwhile become ready, and the missed  *)
(* ticks are made up for, one a step.  A task that has gone to sleep and   *)
(* sees no switch here makes one itself.                                   *)
ResumeAll(t) ==
    /\ At(t, "resume")
    /\ suspended' = FALSE
    /\ LET pending == Waiting("pending")
           switch  == yield \/ \E u \in pending : Prio[u] >= Prio[t]
       IN /\ list' = [u \in Task |-> IF u \in pending THEN "ready" ELSE list[u]]
          /\ event' = [u \in Task |-> IF u \in pending THEN "none" ELSE event[u]]
          /\ wake' = [u \in Task |-> IF u \in pending THEN 0 ELSE wake[u]]
          /\ \/ /\ missed > 0
                /\ Goto(t, "unwind")
                /\ UNCHANGED <<current, yield>>
             \/ /\ missed = 0 /\ switch
                /\ yield' = FALSE /\ current' \in Best(list')
                /\ Goto(t, "resumed")
             \/ /\ missed = 0 /\ ~switch
                /\ Goto(t, IF timeout[t].then = "sleep" THEN "yield" ELSE "resumed")
                /\ UNCHANGED <<current, yield>>
    /\ UNCHANGED <<missed, tick, queue, call, timeout, waited>>

(* Mutant: no switch after the missed ticks.                               *)
UnwindQuietly(t) ==
    /\ At(t, "unwind")
    /\ IncrementTick
    /\ missed' = missed - 1
    /\ IF missed > 1 THEN UNCHANGED pc
       ELSE Goto(t, IF timeout[t].then = "sleep" THEN "yield" ELSE "resumed")
    /\ UNCHANGED <<suspended, current, yield, queue, call>>

(* The tick that is made up for last leads to the switch.                  *)
Unwind(t) ==
    /\ At(t, "unwind")
    /\ IncrementTick
    /\ missed' = missed - 1
    /\ IF missed > 1 THEN UNCHANGED <<current, yield, pc>>
       ELSE yield' = FALSE /\ current' \in Best(list') /\ Goto(t, "resumed")
    /\ UNCHANGED <<suspended, queue, call>>

Yield(t) ==
    /\ At(t, "yield")
    /\ current' \in Best(list)
    /\ Goto(t, "resumed")
    /\ UNCHANGED <<suspended, missed, yield, lists, tick, queue, call, timeout, waited>>

(* The scheduler runs again: a delay is over, a call that has timed out    *)
(* fails, any other tries again.                                           *)
Resumed(t) ==
    /\ At(t, "resumed")
    /\ IF call[t] = "delay" \/ timeout[t].then = "fail" THEN Return(t)
       ELSE Goto(t, "call") /\ UNCHANGED <<call, timeout, waited>>
    /\ UNCHANGED <<sched, lists, tick, queue>>

Step(t) ==
    \/ Begin(t) \/ Do(t) \/ GiveUp(t) \/ MustWait(t)
    \/ SuspendAll(t) \/ LockQueue(t) \/ Decide(t) \/ UnlockTx(t) \/ UnlockRx(t)
    \/ Delay(t)
    \/ ResumeAll(t) \/ Unwind(t) \/ Yield(t) \/ Resumed(t)

Next ==
    \/ Tick
    \/ \E c \in Isr : Device(c)
    \/ \E t \in Task : Step(t)

Spec == Init /\ [][Next]_vars

(* The timer keeps ticking, a task that has the processor again and again  *)
(* gets on, and tasks of one priority take turns: vTaskSwitchContext walks *)
(* through their list.                                                     *)
FairSpec ==
    /\ Spec
    /\ SF_vars(Tick)
    /\ \A t \in Task : SF_vars(Step(t)) /\ SF_vars(Next /\ current # t /\ current' = t)

-----------------------------------------------------------------------------
(* Properties. *)

TypeOK ==
    /\ current \in Task \cup {Idle}
    /\ list \in [Task -> List] /\ wake \in [Task -> Time] /\ event \in [Task -> Event]
    /\ tick \in Time
    /\ suspended \in BOOLEAN /\ yield \in BOOLEAN /\ missed \in 0 .. MaxMissed
    /\ count \in 0 .. Length
    /\ lock \in [{"send", "receive"} -> Unlocked .. MaxMissed]
    /\ pc \in [Task -> Place] /\ call \in [Task -> Call]
    /\ timeout \in [Task -> TimeOut]
    /\ waited \in [Task -> 0 .. MaxDelay + 1]

(* Whenever xTickCount wraps, the list of the tasks that sleep until then  *)
(* is empty: "If there are any items in pxDelayedTaskList here then there  *)
(* is an error!"  Every sleeping task wakes later than now, in this turn   *)
(* of xTickCount or in the next one.                                       *)
WakeIsAhead ==
    \A t \in Task : /\ list[t] = "delayed" => wake[t] > tick
                    /\ list[t] = "overflow" => wake[t] < tick

(* The task that runs is a ready one of the highest priority; only one     *)
(* that has gone to sleep may still be on its way to the switch.           *)
HighestRuns ==
    ~suspended /\ ~Masked =>
        \/ current \in Best(list)
        \/ /\ current # Idle /\ pc[current] = "yield"
           /\ \A t \in Task : list[t] = "ready" => Prio[t] <= Prio[current]

(* The tasks in call c that look at the queue again before they sleep.     *)
Looking(c) == {t \in Task : /\ call[t] = c
                           /\ event[t] \in {"none", "pending"}
                           /\ pc[t] \notin {"out", "suspend", "lock", "decide"}
                           /\ timeout[t].then # "fail"}

(* No wake-up is lost: while a task waits to receive, every element of the *)
(* queue has somebody who comes for it, or has been counted by the lock;   *)
(* and likewise every free place while a task waits to send.               *)
Claims(c, done) == Cardinality(Looking(c)) + (IF lock[done] > 0 THEN lock[done] ELSE 0)

NoLostWakeup ==
    /\ Waiting("toReceive") # {} => count <= Claims("receive", "send")
    /\ Waiting("toSend") # {} => Length - count <= Claims("send", "receive")

(* A call that waits for so many ticks waits for exactly as many: when it  *)
(* sleeps, what is left and what is over make up the whole, however often  *)
(* it was woken in vain; and it does not fail before that.                 *)
Until(t) == IF wake[t] > tick THEN wake[t] - tick ELSE wake[t] + MaxDelay + 1 - tick

TimeoutsAreExact ==
    \A t \in Task : call[t] # "delay" /\ Prompt(t) =>
        /\ list[t] \in {"delayed", "overflow"} /\ event[t] \in {"toSend", "toReceive"}
              => waited[t] + Until(t) = Wait[t]
        /\ timeout[t].then = "fail" => waited[t] >= Wait[t]

(* A call of a task of the highest priority that waits for a number of     *)
(* ticks comes back, whatever the other tasks and the devices do; the less *)
(* urgent ones may starve.                                                 *)
Urgent == {t \in Task : \A u \in Task : Prio[u] <= Prio[t]}

CallsReturn ==
    \A t \in Urgent : Wait[t] < MaxDelay => (pc[t] # "out" ~> pc[t] = "out")
=============================================================================
