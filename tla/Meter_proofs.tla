----------------------------- MODULE Meter_proofs -----------------------------
(* The loop does not stop unnoticed, for any timeouts (the button's and the *)
(* menu's being equal) and any width of the count of ticks.                 *)
EXTENDS Meter, TLAPS

(* Interrupts are disabled exactly in the setup mode.                      *)
ModeIsDisabled == enabled <=> mode = 0

(* A handler that has begun is that of a task which is due.                *)
Busy ==
    /\ place # "poll" => state[at] = "RUNNING"
    /\ place = "again" => at = Button
    /\ place = "menu" => at = Setup /\ mode = 1

(* A button that is due, by a tick that came elsewhere than at the menu's   *)
(* turn, is looked at before the menu, which is due as well.                *)
Together ==
    state[Button] = "RUNNING" /\ ~split /\ state[Setup] # "TERMINATED" =>
        at # Setup /\ state[Setup] = "RUNNING"

Inv == TypeOK /\ ModeIsDisabled /\ Busy /\ Together /\ WedgedWithCause

-----------------------------------------------------------------------------
LEMMA FollowingTask == ASSUME NEW t \in Task PROVE Following(t) \in Task
BY DEF Following, Task

(* The names of the states and of the places are different.                 *)
LEMMA InitInv == Init => Inv
<1> SUFFICES ASSUME Init PROVE Inv
  OBVIOUS
<1> USE DEF Init
<1>1. TypeOK
  <2>1. ticks \in 0 .. Wrap - 1 /\ at \in Task /\ mode \in {0, 1}
    BY WrapAssumption DEF Task
  <2>2. state \in [Task -> State] /\ place \in Place
    BY DEF State, Place
  <2>3. enabled \in BOOLEAN /\ pressed \in BOOLEAN /\ split \in BOOLEAN
    OBVIOUS
  <2> QED
    BY <2>1, <2>2, <2>3 DEF TypeOK
<1>2. ModeIsDisabled
  BY DEF ModeIsDisabled
<1>3. Busy /\ Together /\ WedgedWithCause
  BY DEF Busy, Together, WedgedWithCause, Task, Button, Setup
<1> QED
  BY <1>1, <1>2, <1>3 DEF Inv

(* What a handler's return does to the table.                              *)
LEMMA ReturnTable ==
    ASSUME TypeOK, NEW ok \in BOOLEAN, Return(ok)
    PROVE  /\ state' \in [Task -> State]
           /\ at' = Following(at) /\ at' \in Task /\ place' = "poll"
           /\ state'[at] # "RUNNING"
           /\ \A t \in Task : t # at => state'[t] = state[t]
<1>1. state' \in [Task -> State]
  BY DEF TypeOK, Return, State
<1>2. at' = Following(at) /\ at' \in Task /\ place' = "poll"
  BY FollowingTask DEF TypeOK, Return
<1>3. state'[at] # "RUNNING" /\ \A t \in Task : t # at => state'[t] = state[t]
  BY DEF TypeOK, Return
<1> QED
  BY <1>1, <1>2, <1>3

(* The table of a handler that is not the menu's: the menu's task stays as  *)
(* it is, and the button's is due no more if it was the button's turn.      *)
LEMMA ReturnTogether ==
    ASSUME TypeOK, Together, at \in {1, 2, 3, Button}, UNCHANGED split,
           NEW ok \in BOOLEAN, Return(ok)
    PROVE  Together' /\ state'[Setup] = state[Setup]
<1>1. /\ at' = Following(at)
      /\ state'[at] # "RUNNING"
      /\ \A t \in Task : t # at => state'[t] = state[t]
  BY ReturnTable
<1>2. state'[Setup] = state[Setup]
  BY <1>1 DEF Task, Button, Setup
<1>3. CASE at = Button
  BY <1>1, <1>2, <1>3 DEF Together
<1>4. CASE at \in {1, 2, 3}
  <2>1. at' # Setup /\ state'[Button] = state[Button]
    BY <1>1, <1>4 DEF Task, Button, Setup, Following
  <2> QED
    BY <2>1, <1>2, <1>4 DEF Together, Setup
<1> QED
  BY <1>2, <1>3, <1>4

(* The menu's turn ends: the button was not due, or its tick came during it.*)
LEMMA ReturnOfSetup ==
    ASSUME TypeOK, Together, at = Setup, state[Setup] = "RUNNING", UNCHANGED split,
           NEW ok \in BOOLEAN, Return(ok)
    PROVE  Together'
<1>1. \A t \in Task : t # at => state'[t] = state[t]
  BY ReturnTable
<1>2. state'[Button] = state[Button]
  BY <1>1 DEF Task, Button, Setup
<1> QED
  BY <1>2 DEF Together

-----------------------------------------------------------------------------
(* One lemma for each action. *)

LEMMA TickStep == ASSUME Inv, Tick PROVE Inv'
<1> DEFINE now == (ticks + 1) % Wrap
<1>0. /\ TypeOK /\ enabled
      /\ ticks' = now
      /\ state' = [t \in Task |-> IF state[t] = "WAITING" /\ Due(t, now) THEN "RUNNING"
                                  ELSE state[t]]
      /\ split' = IF Due(Button, now) THEN at = Setup ELSE split
      /\ UNCHANGED <<at, place, enabled, mode, pressed>>
  BY DEF Inv, Tick
<1>1. now \in 0 .. Wrap - 1
  BY WrapAssumption DEF TypeOK, Inv
<1>2. Due(Button, now) = Due(Setup, now)
  BY TimeoutAssumption DEF Due
<1>3. state' \in [Task -> State] /\ split' \in BOOLEAN
  <2>1. state' \in [Task -> State]
    BY <1>0 DEF TypeOK, State
  <2>2. CASE Due(Button, now)
    <3>1. split' = (at = Setup)
      BY <1>0, <2>2
    <3> QED
      BY <2>1, <3>1
  <2>3. CASE ~Due(Button, now)
    <3>1. split' = split
      BY <1>0, <2>3
    <3> QED
      BY <2>1, <3>1, <1>0 DEF TypeOK
  <2> QED
    BY <2>1, <2>2, <2>3
<1>4. TypeOK'
  BY <1>0, <1>1, <1>3 DEF TypeOK
<1>5. \A t \in Task : /\ state[t] = "RUNNING" => state'[t] = "RUNNING"
                      /\ state[t] = "WAITING" => state'[t] \in {"WAITING", "RUNNING"}
                      /\ state[t] = "WAITING" /\ Due(t, now) => state'[t] = "RUNNING"
                      /\ ~Due(t, now) => state'[t] = state[t]
                      /\ state[t] = "TERMINATED" => state'[t] = "TERMINATED"
  BY <1>0
<1>6. ModeIsDisabled'
  BY <1>0 DEF Inv, ModeIsDisabled
<1>7. Busy'
  BY <1>0, <1>5 DEF Inv, Busy, TypeOK
<1>8. Together'
  <2>1. CASE Due(Button, now)
    <3>1. split' = (at = Setup)
      BY <1>0, <2>1
    <3>2. state'[Setup] # "TERMINATED" => state'[Setup] = "RUNNING"
      BY <1>2, <1>5, <1>0, <2>1 DEF Task, Setup, TypeOK, State
    <3> QED
      BY <3>1, <3>2, <1>0 DEF Together
  <2>2. CASE ~Due(Button, now)
    <3>1. split' = split /\ state'[Button] = state[Button] /\ state'[Setup] = state[Setup]
      BY <1>0, <1>2, <1>5, <2>2 DEF Task, Setup, Button
    <3> QED
      BY <3>1, <1>0 DEF Inv, Together
  <2> QED
    BY <2>1, <2>2
<1>9. WedgedWithCause'
  BY <1>0 DEF WedgedWithCause
<1> QED
  BY <1>4, <1>6, <1>7, <1>8, <1>9 DEF Inv

LEMMA PollStep == ASSUME Inv, Poll PROVE Inv'
<1>0. /\ TypeOK /\ place = "poll"
      /\ UNCHANGED <<ticks, state, enabled, mode, pressed, split>>
  BY DEF Inv, Poll
<1>1. CASE state[at] = "RUNNING"
  <2>1. place' = "handler" /\ at' = at
    BY <1>1 DEF Poll
  <2> QED
    BY <1>0, <1>1, <2>1 DEF Inv, TypeOK, ModeIsDisabled, Busy, Together, WedgedWithCause, Place
<1>2. CASE state[at] # "RUNNING"
  <2>1. place' = "poll" /\ at' = Following(at)
    BY <1>0, <1>2 DEF Poll
  <2>2. at' \in Task
    BY <2>1, <1>0, FollowingTask DEF TypeOK
  <2>3. TypeOK'
    BY <1>0, <2>1, <2>2 DEF TypeOK
  <2>4. at' = Setup => at = Button
    BY <2>1, <1>0 DEF TypeOK, Task, Setup, Button, Following
  <2>5. Together'
    BY <2>4, <1>0, <1>2 DEF Inv, Together
  <2> QED
    BY <1>0, <2>1, <2>3, <2>5 DEF Inv, ModeIsDisabled, Busy, WedgedWithCause
<1> QED
  BY <1>1, <1>2

LEMMA WorkStep == ASSUME Inv, Work PROVE Inv'
<1>0. /\ TypeOK /\ Together /\ place = "handler" /\ at \in {1, 2, 3}
      /\ Return(TRUE)
      /\ UNCHANGED <<ticks, enabled, mode, pressed, split>>
  BY DEF Inv, Work
<1>1. state' \in [Task -> State] /\ at' \in Task /\ place' = "poll"
  BY <1>0, ReturnTable
<1>2. Together' /\ state'[Setup] = state[Setup]
  BY <1>0, ReturnTogether
<1>3. TypeOK'
  BY <1>0, <1>1 DEF TypeOK, Place
<1> QED
  BY <1>0, <1>1, <1>2, <1>3 DEF Inv, ModeIsDisabled, Busy, WedgedWithCause

LEMMA LookStep == ASSUME Inv, Look PROVE Inv'
<1>0. /\ TypeOK /\ Together /\ place = "handler" /\ at = Button
      /\ UNCHANGED <<ticks, enabled, mode, pressed, split>>
  BY DEF Inv, Look
<1>1. CASE pressed
  <2>1. place' = "again" /\ UNCHANGED <<state, at>>
    BY <1>1 DEF Look
  <2> QED
    BY <1>0, <2>1 DEF Inv, TypeOK, ModeIsDisabled, Busy, Together, WedgedWithCause, Place
<1>2. CASE ~pressed
  <2>1. PICK any \in BOOLEAN : Return(any)
    BY <1>2 DEF Look
  <2>2. state' \in [Task -> State] /\ at' \in Task /\ place' = "poll"
    BY <1>0, <2>1, ReturnTable
  <2>3. Together' /\ state'[Setup] = state[Setup]
    BY <1>0, <2>1, ReturnTogether
  <2>4. TypeOK'
    BY <1>0, <2>2 DEF TypeOK, Place
  <2> QED
    BY <1>0, <2>2, <2>3, <2>4 DEF Inv, ModeIsDisabled, Busy, WedgedWithCause
<1> QED
  BY <1>1, <1>2

LEMMA LookAgainStep == ASSUME Inv, LookAgain PROVE Inv'
<1>0. /\ TypeOK /\ Together /\ place = "again" /\ at = Button /\ state[Button] = "RUNNING"
      /\ mode' = (IF pressed THEN 1 ELSE mode)
      /\ enabled' = (enabled /\ ~pressed)
      /\ UNCHANGED <<ticks, pressed, split>>
  BY DEF Inv, LookAgain, Busy
<1>1. PICK any \in BOOLEAN : Return(any)
  BY DEF LookAgain
<1>2. state' \in [Task -> State] /\ at' \in Task /\ place' = "poll"
  BY <1>0, <1>1, ReturnTable
<1>3. Together' /\ state'[Setup] = state[Setup]
  BY <1>0, <1>1, ReturnTogether
<1>4. mode' \in {0, 1}
  BY <1>0 DEF TypeOK
<1>5. enabled' \in BOOLEAN
  BY <1>0, Zenon DEF TypeOK
<1>6. TypeOK'
  BY <1>0, <1>2, <1>4, <1>5 DEF TypeOK, Place
<1>7. ModeIsDisabled'
  <2>1. CASE pressed
    <3>1. mode' = 1 /\ ~enabled'
      BY <1>0, <2>1
    <3> QED
      BY <3>1 DEF ModeIsDisabled
  <2>2. CASE ~pressed
    <3>1. mode' = mode /\ (enabled' <=> enabled)
      BY <1>0, <2>2
    <3> QED
      BY <3>1 DEF ModeIsDisabled, Inv
  <2> QED
    BY <2>1, <2>2
<1>8. WedgedWithCause'
  BY <1>0, <1>3 DEF Together, WedgedWithCause
<1> QED
  BY <1>2, <1>3, <1>6, <1>7, <1>8 DEF Inv, Busy

LEMMA EnterStep == ASSUME Inv, Enter PROVE Inv'
<1>0. /\ TypeOK /\ Together /\ place = "handler" /\ at = Setup /\ state[Setup] = "RUNNING"
      /\ UNCHANGED <<ticks, enabled, mode, pressed, split>>
  BY DEF Inv, Enter, Busy
<1>1. CASE mode = 1
  <2>1. place' = "menu" /\ UNCHANGED <<state, at>>
    BY <1>1 DEF Enter
  <2> QED
    BY <1>0, <1>1, <2>1 DEF Inv, TypeOK, ModeIsDisabled, Busy, Together, WedgedWithCause, Place
<1>2. CASE mode # 1
  <2>1. PICK any \in BOOLEAN : Return(any)
    BY <1>2 DEF Enter
  <2>2. state' \in [Task -> State] /\ at' \in Task /\ place' = "poll"
    BY <1>0, <2>1, ReturnTable
  <2>3. Together'
    BY <1>0, <2>1, ReturnOfSetup
  <2>4. TypeOK'
    BY <1>0, <2>2 DEF TypeOK, Place
  <2>5. enabled
    BY <1>0, <1>2 DEF Inv, ModeIsDisabled, TypeOK
  <2> QED
    BY <1>0, <2>2, <2>3, <2>4, <2>5 DEF Inv, ModeIsDisabled, Busy, WedgedWithCause
<1> QED
  BY <1>1, <1>2

LEMMA LeaveStep == ASSUME Inv, Leave PROVE Inv'
<1>0. /\ TypeOK /\ Together /\ place = "menu" /\ at = Setup /\ state[Setup] = "RUNNING"
      /\ mode' = 0 /\ enabled' = TRUE
      /\ UNCHANGED <<ticks, pressed, split>>
  BY DEF Inv, Leave, Busy
<1>1. PICK any \in BOOLEAN : Return(any)
  BY DEF Leave
<1>2. state' \in [Task -> State] /\ at' \in Task /\ place' = "poll"
  BY <1>0, <1>1, ReturnTable
<1>3. Together'
  BY <1>0, <1>1, ReturnOfSetup
<1>4. TypeOK'
  BY <1>0, <1>2 DEF TypeOK, Place
<1> QED
  BY <1>0, <1>2, <1>3, <1>4 DEF Inv, ModeIsDisabled, Busy, WedgedWithCause

(* The finger and stuttering disturb nothing.                              *)
LEMMA QuietStep == ASSUME Inv, Finger \/ UNCHANGED vars PROVE Inv'
<1>1. UNCHANGED <<ticks, state, at, place, enabled, mode, split>> /\ pressed' \in BOOLEAN
  <2>1. CASE Finger
    BY <2>1, Zenon DEF Finger, Inv, TypeOK
  <2>2. CASE UNCHANGED vars
    BY <2>2 DEF vars, Inv, TypeOK
  <2> QED
    BY <2>1, <2>2
<1> QED
  BY <1>1 DEF Inv, TypeOK, ModeIsDisabled, Busy, Together, WedgedWithCause

LEMMA NextInv == Inv /\ [Next]_vars => Inv'
BY TickStep, PollStep, WorkStep, LookStep, LookAgainStep, EnterStep, LeaveStep, QuietStep
   DEF Next, Loop

(* What the theorems below rest on, in every state.                        *)
LEMMA Invariance == Spec => []Inv
BY InitInv, NextInv, PTL DEF Spec

-----------------------------------------------------------------------------
(* The scheduler's variables stay in their types.                          *)
THEOREM TypeCorrect == Spec => []TypeOK
<1>1. Inv => TypeOK
  BY DEF Inv
<1> QED
  BY <1>1, Invariance, PTL

(* The loop runs with interrupts disabled only on its way to the menu that *)
(* enables them again, but for a tick between the polls of the two and for *)
(* a result that ended the menu's task: main.c has no third way to hang.   *)
THEOREM HangsHaveACause == Spec => []WedgedWithCause
<1>1. Inv => WedgedWithCause
  BY DEF Inv
<1> QED
  BY <1>1, Invariance, PTL

(* The menu is only shown in its mode and with interrupts disabled.        *)
THEOREM NoTickBehindTheMenu == Spec => []MenuIsUndisturbed
<1>1. Inv => MenuIsUndisturbed
  BY DEF Inv, ModeIsDisabled, Busy, MenuIsUndisturbed
<1> QED
  BY <1>1, Invariance, PTL
=============================================================================
