------------------------------- MODULE Manager -------------------------------
(***************************************************************************)
(* The telephony manager (src/tcc/manager): a GLib process with three      *)
(* listening ports, for the microcontroller (mcu.c), the GSM radio         *)
(* (gsm02.c) and the script the PBX runs for every digit (script.c).       *)
(*                                                                         *)
(* Every port is a GThreadedSocketService of one thread (service.c): the   *)
(* connect handler runs in that worker thread and returns only when the    *)
(* main loop it created is quit, and until then the port accepts nobody.   *)
(* All loops use the default context, which the main thread owns for the   *)
(* whole life of the process: every callback (read completions, timers)    *)
(* is dispatched by the main thread, one at a time, while the workers run  *)
(* their connect handlers.                                                 *)
(*                                                                         *)
(* Using an object after g_free is undefined behaviour; the outcomes       *)
(* modelled are a crash, and the two the allocator makes possible: the     *)
(* memory still holds the old fields (its closed or released stream fails  *)
(* the write or swallows it), or it belongs to the connection object the   *)
(* port created next.                                                      *)
(***************************************************************************)
EXTENDS Naturals, Sequences, FiniteSets

CONSTANT Loads  \* bound: how many clients come to the ports, how many messages
                \* they send, and where they may vanish without closing

Port == {"mcu", "gsm02", "script"}

ASSUME BoundsAssumption ==
    Loads \subseteq [clients : [Port -> Nat], messages : [Port -> Nat], reset : SUBSET Port]

VARIABLES
    status,    \* of the process: "up", "aborted" (a failed assertion), "crashed"
    link,      \* [Port -> state of the TCP connection the worker serves]
    backlog,   \* [Port -> BOOLEAN: a next client waits in the kernel]
    inbound,   \* [Port -> messages the served client sent, not yet read]
    sent,      \* [Port -> how many messages the clients have sent]
    conn,      \* [Port -> number of the connection served last]
    worker,    \* [Port -> position of the worker thread in the handler]
    object,    \* [Port -> state of the connection object (mcu_t, ...)]
    closing,   \* the port whose destroy callback is half done, or "none"
    timers,    \* timeout sources attached to the default context
    queue,     \* [QPort -> the GAsyncQueue its connections pop]
    pushed,    \* [QPort -> how many elements were ever pushed]
    written    \* [QPort -> elements written to a client that was there]

env     == <<link, backlog, inbound, sent>>
threads == <<conn, worker, object, closing, timers>>
queues  == <<queue, pushed, written>>
vars    == <<status, env, threads, queues>>

QPort    == {"mcu", "gsm02"}            \* ports with a queue and two timers
Link     == {"none", "open", "fin", "reset"}
Timer    == [port : QPort, kind : {"pop", "ping"}, conn : Nat]
Worker   == {"idle", "armed", "popping", "ready", "looping", "returning", "lost"}
Object   == {"none", "live", "freed"}

(* Commands the handlers tell apart; OTHER only logs.  *)
Cmd == [mcu    |-> {"LED_STATE", "OTHER"},
        gsm02  |-> {"CONF_REQUEST", "SCANNED_NEIGH", "OTHER"},
        script |-> {"DTMF", "OTHER"}]

Command == UNION {Cmd[p] : p \in Port}

Init ==
    /\ status = "up"
    /\ link = [p \in Port |-> "none"]
    /\ backlog = [p \in Port |-> FALSE]
    /\ inbound = [p \in Port |-> <<>>]
    /\ sent = [p \in Port |-> 0]
    /\ conn = [p \in Port |-> 0]
    /\ worker = [p \in Port |-> "idle"]
    /\ object = [p \in Port |-> "none"]
    /\ closing = "none"
    /\ timers = {}
    /\ queue = [p \in QPort |-> <<>>]
    /\ pushed = [p \in QPort |-> 0]
    /\ written = [p \in QPort |-> <<>>]

-----------------------------------------------------------------------------
(* The clients and the network.  What a client does while it waits in the  *)
(* kernel's backlog is modelled as done as soon as it is accepted.         *)

(* The clients that came so far, and what they sent, are within a load.    *)
Come(p) == conn[p] + IF backlog[p] THEN 1 ELSE 0

Within(load) ==
    \A p \in Port : Come(p) <= load.clients[p] /\ sent[p] <= load.messages[p]

Connect(p) ==
    /\ ~backlog[p]
    /\ \E load \in Loads : Within(load) /\ Come(p) < load.clients[p]
    /\ backlog' = [backlog EXCEPT ![p] = TRUE]
    /\ UNCHANGED <<status, link, inbound, sent, threads, queues>>

Send(p) ==
    /\ link[p] = "open"
    /\ \E load \in Loads : Within(load) /\ sent[p] < load.messages[p]
    /\ sent' = [sent EXCEPT ![p] = @ + 1]
    /\ \E c \in Cmd[p] : inbound' = [inbound EXCEPT ![p] = Append(@, c)]
    /\ UNCHANGED <<status, link, backlog, threads, queues>>

Close(p) ==
    /\ link[p] = "open"
    /\ link' = [link EXCEPT ![p] = "fin"]
    /\ UNCHANGED <<status, backlog, inbound, sent, threads, queues>>

(* A reset discards what the kernel had received and nobody had read. *)
Reset(p) ==
    /\ \E load \in Loads : Within(load) /\ p \in load.reset
    /\ link[p] \in {"open", "fin"}
    /\ link' = [link EXCEPT ![p] = "reset"]
    /\ inbound' = [inbound EXCEPT ![p] = <<>>]
    /\ UNCHANGED <<status, backlog, sent, threads, queues>>

-----------------------------------------------------------------------------
(* Writing to a connection: service_output_stream_write.  An orderly close *)
(* takes the client's socket away, so the first write after it still       *)
(* succeeds and may draw a reset; a write after a reset fails, and         *)
(* g_assert_no_error aborts the process.                                   *)

(* Mutant: a failed write is remembered instead of asserted away.          *)
AfterWriteUnchecked(l) ==
    IF l = "open" THEN {"open"}
    ELSE IF l = "fin" THEN {"fin", "reset"} ELSE {"failed"}

AfterWrite(l) ==
    IF l = "open" THEN {"open"}
    ELSE IF l = "fin" THEN {"fin", "reset"} ELSE {"abort"}

(* The states n writes in a row can leave a connection in (n is 1 or 2).   *)
AfterWrites(l, n) ==
    IF n = 1 THEN AfterWrite(l) ELSE UNION {AfterWrite(m) : m \in AfterWrite(l)}

(* n writes to the client of port p, of whose messages `left` are unread.  *)
WriteTo(p, n, left) ==
    \E l \in AfterWrites(link[p], n) :
        IF l = "abort"
        THEN status' = "aborted" /\ UNCHANGED <<link, inbound>>
        ELSE /\ link' = [link EXCEPT ![p] = l]
             /\ inbound' = [inbound EXCEPT ![p] = IF l = "reset" THEN <<>> ELSE left]
             /\ UNCHANGED status

Live(p, c) == object[p] = "live" /\ conn[p] = c

(* The write of a timer callback that holds the object of connection c;    *)
(* items is what it popped, <<>> for a ping.                               *)
WriteFrom(p, c, items) ==
    \/ /\ object[p] = "live"
       /\ WriteTo(p, 1, inbound[p])
       /\ written' = IF link[p] = "open"
                     THEN [written EXCEPT ![p] = @ \o items] ELSE written
    \/ /\ ~Live(p, c)
       /\ status' \in {"up", "aborted", "crashed"}
       /\ UNCHANGED <<link, inbound, written>>

-----------------------------------------------------------------------------
(* The worker threads: mcu_connect_handler, gsm02_connect_handler,         *)
(* script_connect_handler.                                                 *)

(* The main thread takes the client from the backlog and stops listening;  *)
(* the worker creates the object and the loop and arms the first read.     *)
Incoming(p) ==
    /\ status = "up"
    /\ closing = "none"
    /\ worker[p] = "idle"
    /\ backlog[p]
    /\ link' = [link EXCEPT ![p] = "open"]
    /\ backlog' = [backlog EXCEPT ![p] = FALSE]
    /\ conn' = [conn EXCEPT ![p] = @ + 1]
    /\ object' = [object EXCEPT ![p] = "live"]
    /\ worker' = [worker EXCEPT ![p] = IF p \in QPort THEN "armed" ELSE "ready"]
    /\ UNCHANGED <<status, inbound, sent, closing, timers, queues>>

(* The destroy callback has released the object or the loop the worker is  *)
(* about to use.                                                           *)
Overtaken(p) == object[p] = "freed" \/ closing = p

CrashWorker(p) ==
    /\ Overtaken(p)
    /\ status' = "crashed"
    /\ UNCHANGED <<env, threads, queues>>

AddTimer(p, kind, at, next) ==
    /\ status = "up"
    /\ worker[p] = at
    /\ \/ /\ timers' = timers \cup {[port |-> p, kind |-> kind, conn |-> conn[p]]}
          /\ worker' = [worker EXCEPT ![p] = next]
          /\ UNCHANGED <<status, env, conn, object, closing, queues>>
       \/ object[p] = "freed" /\ CrashWorker(p)

(* Mutant: the first timeout registers the wrong callback.                 *)
AddPingTimerTwice(p) == AddTimer(p, "ping", "armed", "popping")

AddPopTimer(p)  == AddTimer(p, "pop", "armed", "popping")
AddPingTimer(p) == AddTimer(p, "ping", "popping", "ready")

(* g_main_loop_run sets is_running and waits for a quit; a quit that came  *)
(* before is overwritten, and nobody will send another one.                *)
RunLoop(p) ==
    /\ status = "up"
    /\ worker[p] = "ready"
    /\ \/ /\ worker' = [worker EXCEPT ![p] = IF Overtaken(p) THEN "lost" ELSE "looping"]
          /\ UNCHANGED <<status, env, conn, object, closing, timers, queues>>
       \/ CrashWorker(p)

(* The handler returns: the connection is released and, as the service was *)
(* at its limit of one thread, it listens again.                           *)
Return(p) ==
    /\ status = "up"
    /\ worker[p] = "returning"
    /\ worker' = [worker EXCEPT ![p] = "idle"]
    /\ link' = [link EXCEPT ![p] = "none"]
    /\ inbound' = [inbound EXCEPT ![p] = <<>>]
    /\ UNCHANGED <<status, backlog, sent, conn, object, closing, timers, queues>>

-----------------------------------------------------------------------------
(* The main thread: one callback at a time.                                *)

Dispatching == status = "up" /\ closing = "none"

(* Mutant: the element goes to the wrong end of the queue.                 *)
PushFront(q) ==
    /\ pushed' = [pushed EXCEPT ![q] = @ + 1]
    /\ queue' = [queue EXCEPT ![q] = <<pushed[q] + 1>> \o @]
    /\ UNCHANGED written

(* mcu_async_queue_push, gsm02_async_queue_push; elements are named by the *)
(* order in which they are pushed.                                         *)
Push(q) ==
    /\ pushed' = [pushed EXCEPT ![q] = @ + 1]
    /\ queue' = [queue EXCEPT ![q] = Append(@, pushed[q] + 1)]
    /\ UNCHANGED written

(* mcu_recv_pack_handler, gsm02_recv_pack_handler, script_recv_pack_handler *)
Handle(p, cmd, left) ==
    \/ cmd = "CONF_REQUEST" /\ WriteTo(p, 1, left) /\ UNCHANGED queues
    \/ cmd = "SCANNED_NEIGH" /\ WriteTo(p, 2, left) /\ UNCHANGED queues
    \/ /\ \/ cmd = "LED_STATE" /\ Push("gsm02")
          \/ cmd = "DTMF" /\ Push("mcu")
          \/ cmd = "OTHER" /\ UNCHANGED queues
       /\ inbound' = [inbound EXCEPT ![p] = left]
       /\ UNCHANGED <<status, link>>

(* service_message_read_data with data: the read takes the first n         *)
(* messages the kernel holds, and only the one at the start of the buffer  *)
(* is handled.                                                             *)
ReadData(p) ==
    /\ Dispatching
    /\ object[p] = "live"
    /\ \E n \in 1 .. Len(inbound[p]) :
          Handle(p, Head(inbound[p]), SubSeq(inbound[p], n + 1, Len(inbound[p])))
    /\ UNCHANGED <<backlog, sent, threads>>

(* Mutant: the destroy callback does not quit the loop.                    *)
AfterNoQuit(w) == w

(* g_main_loop_quit wakes a worker that is in g_main_loop_run, and nobody  *)
(* else.                                                                   *)
AfterQuit(w) == IF w = "looping" THEN "returning" ELSE w

(* service_message_read_data at the end of the stream or after an error:   *)
(* the destroy callback closes the streams, quits and releases the loop... *)
ReadEnd(p) ==
    /\ Dispatching
    /\ object[p] = "live"
    /\ link[p] \in {"fin", "reset"}
    /\ inbound[p] = <<>>
    /\ closing' = p
    /\ worker' = [worker EXCEPT ![p] = AfterQuit(@)]
    /\ UNCHANGED <<status, env, conn, object, timers, queues>>

(* Mutant: the destroy callback removes the pop timer and not the ping.    *)
RemovedPopOnly(p) == [port : {p}, kind : {"pop"}, conn : {conn[p]}]

(* Mutant: mcu_destroy forgets the pop timer as gsm02_destroy does.        *)
RemovedPingOnly(p) == [port : {p}, kind : {"ping"}, conn : {conn[p]}]

(* ... and then removes the timers it knows of and frees the object:       *)
(* mcu_destroy removes both, gsm02_destroy only the ping.                  *)
Removed(p) ==
    [port : {p}, kind : IF p = "mcu" THEN {"pop", "ping"} ELSE {"ping"}, conn : {conn[p]}]

FinishDestroy(p) ==
    /\ status = "up"
    /\ closing = p
    /\ timers' = timers \ Removed(p)
    /\ object' = [object EXCEPT ![p] = "freed"]
    /\ closing' = "none"
    /\ UNCHANGED <<status, env, conn, worker, queues>>

(* Mutant: the timer drains two elements and sends the first.              *)
RestOfTwo(s) == SubSeq(s, 3, Len(s))

(* What g_async_queue_try_pop leaves in the queue.                         *)
Rest(s) == Tail(s)

(* mcu_async_try_pop, gsm02_async_try_pop: with an empty queue they return *)
(* without touching the object.                                            *)
PopQueue(p, c) ==
    /\ Dispatching
    /\ [port |-> p, kind |-> "pop", conn |-> c] \in timers
    /\ queue[p] # <<>>
    /\ queue' = [queue EXCEPT ![p] = Rest(@)]
    /\ WriteFrom(p, c, <<Head(queue[p])>>)
    /\ UNCHANGED <<backlog, sent, threads, pushed>>

(* mcu_send_keep_alive, gsm02_send_keep_alive *)
SendPing(p, c) ==
    /\ Dispatching
    /\ [port |-> p, kind |-> "ping", conn |-> c] \in timers
    /\ WriteFrom(p, c, <<>>)
    /\ UNCHANGED <<backlog, sent, threads, queue, pushed>>

-----------------------------------------------------------------------------

Client(p) == Connect(p) \/ Send(p) \/ Close(p) \/ Reset(p)

WorkerStep(p) ==
    Incoming(p) \/ AddPopTimer(p) \/ AddPingTimer(p) \/ RunLoop(p) \/ Return(p)

Read(p) == ReadData(p) \/ ReadEnd(p) \/ FinishDestroy(p)

Tick(p, c) == PopQueue(p, c) \/ SendPing(p, c)

Next ==
    \/ \E p \in Port : Client(p) \/ WorkerStep(p) \/ Read(p)
    \/ \E p \in QPort : \E c \in 1 .. conn[p] : Tick(p, c)

(* The kernel schedules every thread and GLib dispatches every source that *)
(* stays ready; clients do nothing they do not want to.                    *)
Fairness ==
    /\ \A p \in Port : WF_vars(WorkerStep(p)) /\ WF_vars(Read(p))
    /\ \A p \in QPort : WF_vars(\E c \in 1 .. conn[p] : PopQueue(p, c))

Spec == Init /\ [][Next]_vars

FairSpec == Spec /\ Fairness

-----------------------------------------------------------------------------
(* Properties *)

(* The types of the variables.                                             *)
TypeOK ==
    /\ status \in {"up", "aborted", "crashed"}
    /\ link \in [Port -> Link]
    /\ backlog \in [Port -> BOOLEAN]
    /\ inbound \in [Port -> Seq(Command)]
    /\ sent \in [Port -> Nat]
    /\ conn \in [Port -> Nat]
    /\ worker \in [Port -> Worker]
    /\ object \in [Port -> Object]
    /\ closing \in Port \cup {"none"}
    /\ timers \subseteq Timer
    /\ queue \in [QPort -> Seq(Nat)]
    /\ pushed \in [QPort -> Nat]
    /\ written \in [QPort -> Seq(Nat)]

(* Once a connection is destroyed none of its timers is left to fire on    *)
(* the freed object, except the pop timer gsm02_destroy forgets and those  *)
(* of a connect handler the disconnection overtook.                        *)
NoOrphanTimer ==
    \A t \in timers :
        (t.port = "mcu" \/ t.kind = "ping") =>
            /\ t.conn = conn[t.port]
            /\ object[t.port] = "live" \/ worker[t.port] \in {"popping", "ready", "lost"}

(* A worker that is inside its main loop always has an object whose        *)
(* disconnection can still release it: no port is kept busy by a           *)
(* connection that no callback can end.                                    *)
LoopCanEnd ==
    \A p \in Port : worker[p] = "looping" => object[p] = "live" /\ closing # p

(* While every client being served is there, the only thing that can take  *)
(* the process down is the pop timer gsm02_destroy forgot.                 *)
CrashNeedsCause ==
    [][status = "up" /\ status' # "up" =>
         \/ \E p \in Port : link[p] \in {"fin", "reset"}
         \/ \E t \in timers :
               t.port = "gsm02" /\ t.kind = "pop" /\ ~Live(t.port, t.conn)]_vars

(* A digit taken from the queue while the microcontroller is connected is  *)
(* written to it.                                                          *)
NoDigitLostWhileServed ==
    [][status' = "up" /\ link["mcu"] = "open" /\ object["mcu"] = "live"
         => \/ UNCHANGED queue["mcu"]
            \/ Len(queue'["mcu"]) > Len(queue["mcu"])
            \/ /\ queue'["mcu"] = Tail(queue["mcu"])
               /\ written'["mcu"] = Append(written["mcu"], Head(queue["mcu"]))]_vars

(* Digits and short messages are forwarded in order and at most once.      *)
Digits == INSTANCE LossyFifo WITH
    accepted <- pushed["mcu"], waiting <- queue["mcu"], forwarded <- written["mcu"]

Messages == INSTANCE LossyFifo WITH
    accepted <- pushed["gsm02"], waiting <- queue["gsm02"], forwarded <- written["gsm02"]

QueuesAreLossyFifos == Digits!Spec /\ Messages!Spec

(* A client that leaves while its handler is in its main loop makes room   *)
(* for the next one.                                                       *)
PortReopens ==
    \A p \in Port :
        (worker[p] = "looping" /\ link[p] \in {"fin", "reset"})
            ~> (worker[p] = "idle" \/ status # "up")

(* Once a client stays connected, everything queued for it is written.     *)
QueueDrained ==
    \A p \in QPort :
        <>[](status = "up" /\ worker[p] = "looping" /\ link[p] = "open")
            => <>[](queue[p] = <<>>)
=============================================================================
