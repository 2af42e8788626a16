-------------------------------- MODULE Meter --------------------------------
(***************************************************************************)
(* The power meter of src/pi.3.morgana: five tasks that timer.c runs from  *)
(* a table, in a loop, when the timer's interrupt has marked them as due.  *)
(* Two of them depend on each other: the button's disables interrupts, and *)
(* leaves it to the setup menu's to enable them again.                     *)
(*                                                                         *)
(* The interrupt comes between any two steps of the loop, if interrupts    *)
(* are enabled.  The button's and the menu's handlers return nothing, but  *)
(* are called as if they did (TIMER_HANDLE): what timer.c takes for their  *)
(* result is left open.  Samples, the display and the registers of the     *)
(* clock are left out, and with them what the menu does to these.          *)
(***************************************************************************)
EXTENDS Naturals

CONSTANTS
    Timeout,    \* the timeouts of the tasks, in ticks
    Wrap        \* the number of values of timer.ticks

(* The slots of the table, in which main fills it in: the samples of the   *)
(* voltage and the current, the LED, the button, the setup menu.           *)
Task   == 1 .. 5
Button == 4
Setup  == 5

ASSUME TimeoutAssumption ==
    Timeout \in [Task -> Nat \ {0}] /\ Timeout[Button] = Timeout[Setup]
ASSUME WrapAssumption == Wrap \in Nat \ {0}

VARIABLES
    ticks,      \* timer.ticks
    state,      \* [Task -> the state of the task]
    at,         \* the task the loop has come to
    place,      \* where in its turn
    enabled,    \* interrupts are enabled
    mode,       \* mode
    pressed,    \* the button is held down
    split       \* the button's last tick came when the loop had just passed it

vars == <<ticks, state, at, place, enabled, mode, pressed, split>>

State == {"WAITING", "RUNNING", "TERMINATED"}
Place == {"poll", "handler", "again", "menu"}

Init ==
    /\ ticks = 0 /\ state = [t \in Task |-> "WAITING"]
    /\ at = 1 /\ place = "poll" /\ enabled = TRUE
    /\ mode = 0 /\ pressed \in BOOLEAN /\ split = FALSE

-----------------------------------------------------------------------------
(* ISR(TIMER0_OVF_vect) *)

Due(t, now) == now % Timeout[t] = 0

Tick ==
    LET now == (ticks + 1) % Wrap
    IN /\ enabled
       /\ ticks' = now
       /\ state' = [t \in Task |-> IF state[t] = "WAITING" /\ Due(t, now) THEN "RUNNING"
                                   ELSE state[t]]
       /\ split' = IF Due(Button, now) THEN at = Setup ELSE split
       /\ UNCHANGED <<at, place, enabled, mode, pressed>>

-----------------------------------------------------------------------------
(* timer_loop_run *)

Following(t) == IF t = 5 THEN 1 ELSE t + 1

(* The loop looks at the next task.                                        *)
Poll ==
    /\ place = "poll"
    /\ IF state[at] = "RUNNING" THEN place' = "handler" /\ UNCHANGED at
       ELSE at' = Following(at) /\ UNCHANGED place
    /\ UNCHANGED <<ticks, state, enabled, mode, pressed, split>>

(* Mutant: the two outcomes of a handler are exchanged.                    *)
ReturnInverted(ok) ==
    /\ state' = [state EXCEPT ![at] = IF ok THEN "TERMINATED" ELSE "WAITING"]
    /\ at' = Following(at)
    /\ place' = "poll"

(* The handler is back: the task waits for its next tick if the result is  *)
(* true, and is over if it is not.                                         *)
Return(ok) ==
    /\ state' = [state EXCEPT ![at] = IF ok THEN "WAITING" ELSE "TERMINATED"]
    /\ at' = Following(at)
    /\ place' = "poll"

-----------------------------------------------------------------------------
(* The handlers. *)

(* main_data_rms, main_led_blink *)
Work ==
    /\ place = "handler" /\ at \in {1, 2, 3}
    /\ Return(TRUE)
    /\ UNCHANGED <<ticks, enabled, mode, pressed, split>>

(* main_button_read looks at the button, and again after a while.          *)
Look ==
    /\ place = "handler" /\ at = Button
    /\ IF pressed THEN place' = "again" /\ UNCHANGED <<state, at>>
       ELSE \E any \in BOOLEAN : Return(any)
    /\ UNCHANGED <<ticks, enabled, mode, pressed, split>>

LookAgain ==
    /\ place = "again"
    /\ mode' = IF pressed THEN 1 ELSE mode
    /\ enabled' = (enabled /\ ~pressed)
    /\ \E any \in BOOLEAN : Return(any)
    /\ UNCHANGED <<ticks, pressed, split>>

(* SetupMode_Write does nothing without the mode; with it, it asks for     *)
(* choices until the user leaves.                                          *)
Enter ==
    /\ place = "handler" /\ at = Setup
    /\ IF mode = 1 THEN place' = "menu" /\ UNCHANGED <<state, at>>
       ELSE \E any \in BOOLEAN : Return(any)
    /\ UNCHANGED <<ticks, enabled, mode, pressed, split>>

(* Mutant: interrupts are not enabled again.                               *)
LeaveQuietly ==
    /\ place = "menu"
    /\ mode' = 0
    /\ \E any \in BOOLEAN : Return(any)
    /\ UNCHANGED <<ticks, enabled, pressed, split>>

Leave ==
    /\ place = "menu"
    /\ mode' = 0
    /\ enabled' = TRUE
    /\ \E any \in BOOLEAN : Return(any)
    /\ UNCHANGED <<ticks, pressed, split>>

(* The user's finger.                                                      *)
Finger == pressed' = ~pressed /\ UNCHANGED <<ticks, state, at, place, enabled, mode, split>>

Loop == Poll \/ Work \/ Look \/ LookAgain \/ Enter

Next == Tick \/ Loop \/ Leave \/ Finger

Spec == Init /\ [][Next]_vars

(* The loop always gets on, and the timer ticks again and again while      *)
(* interrupts are enabled; the user need not leave the menu.               *)
FairSpec == Spec /\ WF_vars(Loop) /\ SF_vars(Tick)

-----------------------------------------------------------------------------
(* Properties. *)

TypeOK ==
    /\ ticks \in 0 .. Wrap - 1
    /\ state \in [Task -> State]
    /\ at \in Task /\ place \in Place
    /\ enabled \in BOOLEAN /\ mode \in {0, 1}
    /\ pressed \in BOOLEAN /\ split \in BOOLEAN

(* When the loop runs with interrupts disabled, the setup menu is due and  *)
(* will come in this very pass: nothing else would ever run again.  There  *)
(* are two exceptions.  The last tick of both may have come while the loop *)
(* was at the menu's turn, behind the button's: the menu then had its turn *)
(* before the button; or the menu's task is over, for the result it does   *)
(* not return.                                                             *)
WedgedWithCause ==
    ~enabled /\ place \in {"poll", "handler"} =>
        \/ state[Setup] = "RUNNING"
        \/ split
        \/ state[Setup] = "TERMINATED"

(* The menu is shown with interrupts disabled, and only in its mode: no    *)
(* task becomes due behind it.                                             *)
MenuIsUndisturbed == place = "menu" => ~enabled /\ mode = 1

(* The samples and the LED go on, however long the handlers take and       *)
(* wherever the count of ticks wraps, unless interrupts stay disabled.     *)
SamplesGoOn ==
    \A t \in {1, 2, 3} : []<>(at = t /\ place = "handler") \/ <>[]~enabled

(* A button that is held down is seen, again after every visit to the      *)
(* menu, as long as its task and the menu's last.                          *)
HeldButtonIsSeen ==
    <>[]pressed =>
        \/ []<>(mode = 1)
        \/ <>(state[Button] = "TERMINATED" \/ state[Setup] = "TERMINATED")
=============================================================================
