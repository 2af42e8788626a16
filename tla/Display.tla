------------------------------- MODULE Display -------------------------------
(***************************************************************************)
(* The board's display (src/tcc/embedded/lcd16x2.c): a FreeRTOS queue of   *)
(* messages, filled by the network task (client.c) and by the button task  *)
(* (main.c), and emptied by the display task.  The three have the same     *)
(* priority and are preempted, so their steps interleave freely; a task    *)
(* that sends to a full queue or receives from an empty one waits.         *)
(*                                                                         *)
(* A message is named, and its length is that of its text.  The screen is  *)
(* its first line: no text of the program is longer than a line.  The      *)
(* display task is the only one that writes it, and one message is written *)
(* in one step.                                                            *)
(***************************************************************************)
EXTENDS Naturals, Sequences

CONSTANT QueueLen    \* LCD16X2_ASYNC_QUEUE_LEN

ASSUME QueueLenAssumption == QueueLen \in Nat /\ QueueLen >= 1

VARIABLES
    queue,    \* the messages waiting to be shown
    lcd,      \* the display task: "init", "waiting", or the message it shows
    screen,   \* [Column -> the message the character in it belongs to]
    btn,      \* the button task
    level,    \* the button itself
    net,      \* the network task: "idle", "asleep", or the message it sends
    last,     \* the message sent last
    button    \* the button message shown last

vars == <<queue, lcd, screen, btn, level, net, last, button>>

Column == 1 .. 16

(* The length of every text the program shows.                             *)
Size == [TRY |-> 16, CONNECTED |-> 10, CLOSED |-> 7, DTMF |-> 7, INVALID |-> 16,
         PRESSED |-> 11, RELEASED |-> 12]

Message == DOMAIN Size

Blank == [i \in Column |-> "blank"]

(* lcd16x2_puts from the first column on.                                  *)
Written(scr, m) == [i \in Column |-> IF i <= Size[m] THEN m ELSE scr[i]]

(* Both the tasks and the button start before anything is pressed.         *)
Init ==
    /\ queue = <<>>
    /\ lcd = "init"
    /\ screen \in {Written(Blank, m) : m \in Message}   \* what a reset left there
    /\ btn = "up"
    /\ level = "up"
    /\ net = "TRY"
    /\ last = "none"
    /\ button = "RELEASED"

-----------------------------------------------------------------------------
(* Mutant: the queue is taken to have room for one more.                   *)
RoomMiscounted == Len(queue) <= QueueLen

Room == Len(queue) < QueueLen

(* lcd16x2_async_queue_push: the task waits for room as long as it takes.  *)
Push(m) ==
    /\ Room
    /\ queue' = Append(queue, m)
    /\ last' = m

-----------------------------------------------------------------------------
(* lcd_task *)

LcdInit ==
    /\ lcd = "init"
    /\ screen' = Blank
    /\ lcd' = "waiting"
    /\ UNCHANGED <<queue, btn, level, net, last, button>>

LcdPop ==
    /\ lcd = "waiting"
    /\ queue # <<>>
    /\ lcd' = Head(queue)
    /\ queue' = Tail(queue)
    /\ UNCHANGED <<screen, btn, level, net, last, button>>

(* Mutant: the old message is written over and not cleared.                *)
ShownOver(m) == Written(screen, m)

Shown(m) == Written(Blank, m)

LcdShow ==
    /\ lcd \in Message
    /\ screen' = Shown(lcd)
    /\ button' = IF lcd \in {"PRESSED", "RELEASED"} THEN lcd ELSE button
    /\ lcd' = "waiting"
    /\ UNCHANGED <<queue, btn, level, net, last>>

LcdTask == LcdInit \/ LcdPop \/ LcdShow

-----------------------------------------------------------------------------
(* app_btn_task: it polls the button, waits out the bounce, and reports    *)
(* without looking again.                                                  *)

(* Mutant: the release is reported without waiting for it.                 *)
PolledOnce ==
    /\ \/ btn = "up" /\ level = "down" /\ btn' = "pressing"
       \/ btn = "down" /\ btn' = "releasing"
    /\ UNCHANGED <<queue, lcd, screen, level, net, last, button>>

BtnPolled ==
    /\ \/ btn = "up" /\ level = "down" /\ btn' = "pressing"
       \/ btn = "down" /\ level = "up" /\ btn' = "releasing"
    /\ UNCHANGED <<queue, lcd, screen, level, net, last, button>>

BtnPush ==
    /\ \/ btn = "pressing" /\ Push("PRESSED") /\ btn' = "down"
       \/ btn = "releasing" /\ Push("RELEASED") /\ btn' = "up"
    /\ UNCHANGED <<lcd, screen, level, net, button>>

BtnTask == BtnPolled \/ BtnPush

Finger ==
    /\ level' = IF level = "up" THEN "down" ELSE "up"
    /\ UNCHANGED <<queue, lcd, screen, btn, net, last, button>>

-----------------------------------------------------------------------------
(* The network task, as far as it sends to the queue: client_uip_connected,*)
(* client_recv_dtmf, client_message_handler, client_uip_closed.            *)

NetCallback ==
    /\ net = "idle"
    /\ net' \in {"CONNECTED", "DTMF", "INVALID", "CLOSED"}
    /\ UNCHANGED <<queue, lcd, screen, btn, level, last, button>>

NetPush ==
    /\ net \in Message
    /\ Push(net)
    /\ net' = IF net = "CLOSED" THEN "asleep" ELSE "idle"
    /\ UNCHANGED <<lcd, screen, btn, level, button>>

(* After the five seconds client_uip_closed connects again.                *)
NetWake ==
    /\ net = "asleep"
    /\ net' = "TRY"
    /\ UNCHANGED <<queue, lcd, screen, btn, level, last, button>>

NetTask == NetPush \/ NetWake

-----------------------------------------------------------------------------
Next == LcdTask \/ BtnTask \/ NetTask \/ NetCallback \/ Finger

(* Tasks of one priority share the processor in turns; the button and the  *)
(* network do what they like.                                              *)
Fairness == WF_vars(LcdTask) /\ WF_vars(BtnTask) /\ WF_vars(NetTask)

Spec == Init /\ [][Next]_vars

FairSpec == Spec /\ Fairness

-----------------------------------------------------------------------------
(* Properties *)

(* The types of the variables; the queue never holds more than it can.     *)
TypeOK ==
    /\ queue \in Seq(Message) /\ Len(queue) <= QueueLen
    /\ lcd \in Message \cup {"init", "waiting"}
    /\ screen \in [Column -> Message \cup {"blank"}]
    /\ btn \in {"up", "pressing", "down", "releasing"}
    /\ level \in {"up", "down"}
    /\ net \in Message \cup {"idle", "asleep"}
    /\ last \in Message \cup {"none"}
    /\ button \in {"PRESSED", "RELEASED"}

(* When the display has nothing left to do it shows the message sent last, *)
(* whole and nothing else, whichever task sent it.                         *)
ScreenIsLast ==
    lcd = "waiting" /\ queue = <<>> =>
        screen = IF last = "none" THEN Blank ELSE Written(Blank, last)

(* Once the button rests and the network has nothing to show, the button   *)
(* message shown last says how the button is, however it bounced before.   *)
ButtonIsShown ==
    /\ <>[](level = "down" /\ net = "idle") => <>[](button = "PRESSED")
    /\ <>[](level = "up" /\ net = "idle") => <>[](button = "RELEASED")
=============================================================================
