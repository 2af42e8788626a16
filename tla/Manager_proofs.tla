---------------------------- MODULE Manager_proofs ----------------------------
(* Proofs about the telephony manager, for every number of clients and     *)
(* messages and every choice of the clients that may vanish.               *)
EXTENDS Manager, TLAPS

(* Where a connection can stand, beyond the two invariants the runs check. *)
Lifecycle(p) ==
    /\ worker[p] \in {"armed", "popping"} => p \in QPort
    /\ worker[p] = "looping" => object[p] = "live" /\ closing # p
    /\ worker[p] \in {"idle", "returning"} => object[p] # "live" \/ closing = p
    /\ worker[p] # "idle" => object[p] # "none"
    /\ closing = p => object[p] = "live"
    /\ closing = p /\ worker[p] # "idle" => link[p] \in {"fin", "reset"}
    /\ object[p] = "live" /\ closing # p => link[p] # "none"
    /\ object[p] = "freed" /\ worker[p] # "idle" => link[p] \in {"fin", "reset"}

IInv == TypeOK /\ NoOrphanTimer /\ \A p \in Port : Lifecycle(p)

-----------------------------------------------------------------------------
(* A write changes the state of the link and of the process only, and the  *)
(* process fails only if the client is gone.                               *)
LEMMA AfterWriteType ==
    ASSUME NEW l \in Link
    PROVE  /\ AfterWrite(l) \subseteq Link \cup {"abort"}
           /\ \A n \in {1, 2} : AfterWrites(l, n) \subseteq Link \cup {"abort"}
           /\ \A n \in {1, 2} : "none" \notin AfterWrites(l, n)
           /\ l = "open" => \A n \in {1, 2} : AfterWrites(l, n) = {"open"}
           /\ l \in {"fin", "reset"} =>
                \A n \in {1, 2} : AfterWrites(l, n) \subseteq {"fin", "reset", "abort"}
BY DEF AfterWrite, AfterWrites, Link

(* What a sequence of writes to one client can change.                     *)
Written(p) ==
    /\ status' \in {status, "aborted"}
    /\ link' \in [Port -> Link]
    /\ inbound' \in [Port -> Seq(Command)]
    /\ \A q \in Port : q # p => link'[q] = link[q]
    /\ link[p] \in {"fin", "reset"} => link'[p] \in {"fin", "reset"}
    /\ link[p] # "none" => link'[p] # "none"
    /\ status' # status => link[p] # "open"

LEMMA WriteToEffect ==
    ASSUME TypeOK, NEW p \in Port, NEW n \in {1, 2}, NEW left \in Seq(Command),
           WriteTo(p, n, left)
    PROVE  Written(p)
<1>1. PICK l \in AfterWrites(link[p], n) :
         IF l = "abort"
         THEN status' = "aborted" /\ UNCHANGED <<link, inbound>>
         ELSE /\ link' = [link EXCEPT ![p] = l]
              /\ inbound' = [inbound EXCEPT ![p] = IF l = "reset" THEN <<>> ELSE left]
              /\ UNCHANGED status
  BY DEF WriteTo
<1>2. link[p] \in Link
  BY DEF TypeOK
<1>3. /\ l \in Link \cup {"abort"}
      /\ l # "none"
      /\ link[p] = "open" => l = "open"
      /\ link[p] \in {"fin", "reset"} => l \in {"fin", "reset", "abort"}
  BY <1>1, <1>2, AfterWriteType
<1>4. <<>> \in Seq(Command)
  OBVIOUS
<1>5. CASE l = "abort"
  BY <1>1, <1>3, <1>5 DEF Written, TypeOK
<1>6. CASE l # "abort"
  <2>1. /\ link \in [Port -> Link] /\ l \in Link
        /\ link' = [link EXCEPT ![p] = l] /\ UNCHANGED status
    BY <1>1, <1>3, <1>6 DEF TypeOK
  <2>2. inbound' \in [Port -> Seq(Command)]
    BY <1>1, <1>4, <1>6 DEF TypeOK
  <2> QED
    BY <1>3, <1>6, <2>1, <2>2 DEF Written
<1> QED
  BY <1>5, <1>6

LEMMA WriteFromEffect ==
    ASSUME TypeOK, NEW p \in QPort, NEW c \in Nat, NEW items \in Seq(Nat),
           WriteFrom(p, c, items)
    PROVE  /\ status' \in {"up", "aborted", "crashed", status}
           /\ \/ object[p] = "live" /\ Written(p)
              \/ ~Live(p, c) /\ UNCHANGED <<link, inbound>>
           /\ written' \in [QPort -> Seq(Nat)]
           /\ \A q \in QPort : written'[q] \in {written[q], written[q] \o items}
<1>1. p \in Port /\ inbound[p] \in Seq(Command)
  BY DEF TypeOK, QPort, Port
<1>2. CASE object[p] = "live" /\ WriteTo(p, 1, inbound[p])
           /\ written' = IF link[p] = "open"
                         THEN [written EXCEPT ![p] = @ \o items] ELSE written
  <2>1. Written(p)
    BY <1>1, <1>2, WriteToEffect
  <2>2. written[p] \o items \in Seq(Nat)
    BY DEF TypeOK
  <2>3. written' \in [QPort -> Seq(Nat)]
    BY <1>2, <2>2 DEF TypeOK
  <2> QED
    BY <1>2, <2>1, <2>2, <2>3 DEF Written, TypeOK
<1>3. CASE /\ ~Live(p, c)
           /\ status' \in {"up", "aborted", "crashed"}
           /\ UNCHANGED <<link, inbound, written>>
  BY <1>3 DEF TypeOK
<1> QED
  BY <1>2, <1>3 DEF WriteFrom

LEMMA PushEffect ==
    ASSUME TypeOK, NEW q \in QPort, Push(q)
    PROVE  /\ queue' \in [QPort -> Seq(Nat)]
           /\ pushed' \in [QPort -> Nat]
           /\ written' \in [QPort -> Seq(Nat)]
<1>1. pushed[q] \in Nat /\ queue[q] \in Seq(Nat)
  BY DEF TypeOK
<1>2. Append(queue[q], pushed[q] + 1) \in Seq(Nat)
  BY <1>1
<1> QED
  BY <1>1, <1>2 DEF Push, TypeOK

(* A handler either writes to the client that sent the message or queues.  *)
LEMMA HandleEffect ==
    ASSUME TypeOK, NEW p \in Port, NEW cmd \in Command, NEW left \in Seq(Command),
           object[p] = "live", Handle(p, cmd, left)
    PROVE  /\ Written(p)
           /\ queue' \in [QPort -> Seq(Nat)]
           /\ pushed' \in [QPort -> Nat]
           /\ written' \in [QPort -> Seq(Nat)]
<1>1. CASE \E n \in {1, 2} : WriteTo(p, n, left) /\ UNCHANGED queues
  BY <1>1, WriteToEffect DEF TypeOK, queues
<1>2. CASE /\ \/ cmd = "LED_STATE" /\ Push("gsm02")
              \/ cmd = "DTMF" /\ Push("mcu")
              \/ cmd = "OTHER" /\ UNCHANGED queues
           /\ inbound' = [inbound EXCEPT ![p] = left]
           /\ UNCHANGED <<status, link>>
  <2>1. Written(p)
    BY <1>2 DEF Written, TypeOK
  <2>2. CASE Push("gsm02") \/ Push("mcu")
    BY <2>1, <2>2, PushEffect DEF QPort
  <2>3. CASE UNCHANGED queues
    BY <2>1, <2>3 DEF TypeOK, queues
  <2> QED
    BY <1>2, <2>2, <2>3
<1> QED
  BY <1>1, <1>2 DEF Handle

-----------------------------------------------------------------------------
(* The steps of a client. *)
LEMMA ClientStep ==
    ASSUME IInv, NEW p \in Port, Client(p)
    PROVE  IInv'
<1> USE DEF IInv, env, threads, queues
<1>1. CASE Connect(p)
  BY <1>1 DEF Connect, TypeOK, NoOrphanTimer, Lifecycle
<1>2. CASE Send(p)
  <2>1. PICK cmd \in Cmd[p] : inbound' = [inbound EXCEPT ![p] = Append(@, cmd)]
    BY <1>2 DEF Send
  <2>2. Cmd[p] \subseteq Command
    BY DEF Command
  <2>3. inbound[p] \in Seq(Command)
    BY DEF TypeOK
  <2>4. Append(inbound[p], cmd) \in Seq(Command)
    BY <2>1, <2>2, <2>3
  <2>5. inbound' \in [Port -> Seq(Command)] /\ sent' \in [Port -> Nat]
    BY <1>2, <2>1, <2>4 DEF TypeOK, Send
  <2> QED
    BY <1>2, <2>5 DEF Send, TypeOK, NoOrphanTimer, Lifecycle
<1>3. CASE Close(p)
  BY <1>3 DEF Close, TypeOK, Link, NoOrphanTimer, Lifecycle
<1>4. CASE Reset(p)
  BY <1>4 DEF Reset, TypeOK, Link, NoOrphanTimer, Lifecycle
<1> QED
  BY <1>1, <1>2, <1>3, <1>4 DEF Client

(* The steps of a worker. *)
LEMMA WorkerSteps ==
    ASSUME IInv, NEW p \in Port, WorkerStep(p)
    PROVE  IInv'
<1> USE DEF IInv, env, threads, queues
<1>1. CASE Incoming(p)
  <2>1. TypeOK'
    BY <1>1 DEF Incoming, TypeOK, Link, Object, Worker
  <2>2. NoOrphanTimer'
    <3>1. \A t \in timers : (t.port = "mcu" \/ t.kind = "ping") => t.port # p
      BY <1>1 DEF Incoming, NoOrphanTimer, Lifecycle, TypeOK, Timer, QPort, Port
    <3> QED
      BY <1>1, <3>1 DEF Incoming, NoOrphanTimer, TypeOK, Timer, QPort, Port
  <2>3. \A q \in Port : Lifecycle(q)'
    BY <1>1 DEF Incoming, Lifecycle, TypeOK, Port
  <2> QED
    BY <2>1, <2>2, <2>3
<1>2. CASE CrashWorker(p)
  BY <1>2 DEF CrashWorker, TypeOK, NoOrphanTimer, Lifecycle
<1>3. ASSUME NEW kind \in {"pop", "ping"}, NEW at \in {"armed", "popping"},
             NEW next \in {"popping", "ready"}, p \in QPort,
             AddTimer(p, kind, at, next), ~CrashWorker(p)
      PROVE  IInv'
  <2> DEFINE new == [port |-> p, kind |-> kind, conn |-> conn[p]]
  <2>1. /\ timers' = timers \cup {new}
        /\ worker[p] = at
        /\ worker' = [worker EXCEPT ![p] = next]
        /\ UNCHANGED <<status, env, conn, object, closing, queues>>
    BY <1>3 DEF AddTimer
  <2>2. new \in Timer
    BY <1>3 DEF Timer, TypeOK
  <2>3. TypeOK'
    BY <2>1, <2>2 DEF TypeOK, Worker
  <2>4. object[p] \in {"live", "freed"}
    BY <2>1 DEF Lifecycle, TypeOK, Object
  <2>5. NoOrphanTimer'
    BY <2>1, <2>4 DEF NoOrphanTimer, TypeOK, Timer, QPort, Port
  <2>6. \A q \in Port : Lifecycle(q)'
    BY <2>1, <2>4 DEF Lifecycle, TypeOK, Port
  <2> QED
    BY <2>3, <2>5, <2>6
<1>4. CASE RunLoop(p) /\ ~CrashWorker(p)
  <2>1. /\ worker[p] = "ready"
        /\ worker' = [worker EXCEPT ![p] = IF Overtaken(p) THEN "lost" ELSE "looping"]
        /\ UNCHANGED <<status, env, conn, object, closing, timers, queues>>
    BY <1>4 DEF RunLoop
  <2>2. object[p] \in {"live", "freed"}
    BY <2>1 DEF Lifecycle, TypeOK, Object
  <2>3. TypeOK'
    BY <2>1 DEF TypeOK, Worker
  <2>4. NoOrphanTimer'
    BY <2>1, <2>2 DEF NoOrphanTimer, TypeOK, Timer, QPort, Port, Overtaken
  <2>5. \A q \in Port : Lifecycle(q)'
    BY <2>1, <2>2 DEF Lifecycle, TypeOK, Port, Overtaken
  <2> QED
    BY <2>3, <2>4, <2>5
<1>5. CASE Return(p)
  BY <1>5 DEF Return, TypeOK, Link, Worker, NoOrphanTimer, Lifecycle, Timer, QPort, Port
<1>6. ASSUME AddPopTimer(p) \/ AddPingTimer(p)
      PROVE  p \in QPort
  BY <1>6 DEF AddPopTimer, AddPingTimer, AddTimer, QPort, Port, Lifecycle
<1> QED
  BY <1>1, <1>2, <1>3, <1>4, <1>5, <1>6
     DEF WorkerStep, AddPopTimer, AddPingTimer

(* The read callbacks. *)
LEMMA ReadSteps ==
    ASSUME IInv, NEW p \in Port, Read(p)
    PROVE  IInv'
<1> USE DEF IInv, env, threads, queues
<1>1. CASE ReadData(p)
  <2>1. PICK n \in 1 .. Len(inbound[p]) :
          Handle(p, Head(inbound[p]), SubSeq(inbound[p], n + 1, Len(inbound[p])))
    BY <1>1 DEF ReadData
  <2>2. inbound[p] \in Seq(Command) /\ inbound[p] # <<>>
    BY <2>1 DEF TypeOK
  <2>3. /\ Head(inbound[p]) \in Command
        /\ SubSeq(inbound[p], n + 1, Len(inbound[p])) \in Seq(Command)
    BY <2>1, <2>2
  <2>4. /\ Written(p)
        /\ queue' \in [QPort -> Seq(Nat)]
        /\ pushed' \in [QPort -> Nat]
        /\ written' \in [QPort -> Seq(Nat)]
    BY <1>1, <2>1, <2>3, HandleEffect DEF ReadData
  <2>5. UNCHANGED <<backlog, sent, threads>>
    BY <1>1 DEF ReadData
  <2>6. TypeOK'
    BY <2>4, <2>5 DEF TypeOK, Written
  <2>7. NoOrphanTimer'
    BY <2>5 DEF NoOrphanTimer
  <2>8. \A q \in Port : Lifecycle(q)'
    BY <1>1, <2>4, <2>5 DEF Lifecycle, Written, ReadData, Dispatching
  <2> QED
    BY <2>6, <2>7, <2>8
<1>2. CASE ReadEnd(p)
  <2>1. TypeOK'
    BY <1>2 DEF ReadEnd, TypeOK, AfterQuit, Worker
  <2>2. NoOrphanTimer'
    BY <1>2 DEF ReadEnd, TypeOK, NoOrphanTimer, AfterQuit, Timer, QPort, Port
  <2>3. \A q \in Port : Lifecycle(q)'
    <3>1. Lifecycle(p)'
      BY <1>2 DEF ReadEnd, TypeOK, Lifecycle, AfterQuit, Dispatching
    <3>2. \A q \in Port \ {p} : Lifecycle(q)'
      <4> SUFFICES ASSUME NEW q \in Port \ {p} PROVE Lifecycle(q)'
        OBVIOUS
      <4>1. worker'[q] = worker[q] /\ object' = object /\ link' = link
        BY <1>2 DEF ReadEnd, TypeOK
      <4>2. closing = "none" /\ closing' = p /\ q # "none" /\ p # "none"
        BY <1>2 DEF ReadEnd, Dispatching, Port
      <4> QED
        BY <4>1, <4>2 DEF Lifecycle
    <3> QED
      BY <3>1, <3>2
  <2> QED
    BY <2>1, <2>2, <2>3
<1>3. CASE FinishDestroy(p)
  <2>1. TypeOK'
    BY <1>3 DEF FinishDestroy, TypeOK, Object
  <2>2. NoOrphanTimer'
    <3> SUFFICES ASSUME NEW t \in timers', t.port = "mcu" \/ t.kind = "ping"
                 PROVE  /\ t.conn = conn'[t.port]
                        /\ \/ object'[t.port] = "live"
                           \/ worker'[t.port] \in {"popping", "ready", "lost"}
      BY DEF NoOrphanTimer
    <3>1. t \in timers /\ t \notin Removed(p) /\ t \in Timer
      BY <1>3 DEF FinishDestroy, TypeOK
    <3>2. t.conn = conn[t.port]
      BY <3>1 DEF NoOrphanTimer
    <3>3. t.port # p
      <4> SUFFICES ASSUME t.port = p
                   PROVE  t \in Removed(p)
        BY <3>1
      <4> QED
        BY <3>1, <3>2 DEF Removed, Timer, QPort
    <3> QED
      BY <1>3, <3>1, <3>2, <3>3 DEF FinishDestroy, NoOrphanTimer, TypeOK, Timer, QPort, Port
  <2>3. \A q \in Port : Lifecycle(q)'
    BY <1>3 DEF FinishDestroy, TypeOK, Lifecycle, Port
  <2> QED
    BY <2>1, <2>2, <2>3
<1> QED
  BY <1>1, <1>2, <1>3 DEF Read

(* The timer callbacks. *)
LEMMA TickStep ==
    ASSUME IInv, NEW p \in QPort, NEW c \in Nat, Tick(p, c)
    PROVE  IInv'
<1> USE DEF IInv, env, threads, queues
<1>1. p \in Port
  BY DEF QPort, Port
<1>2. PICK items \in Seq(Nat) : WriteFrom(p, c, items)
  <2>1. CASE SendPing(p, c)
    BY <2>1, <<>> \in Seq(Nat) DEF SendPing
  <2>2. CASE PopQueue(p, c)
    <3>1. queue[p] \in Seq(Nat) /\ queue[p] # <<>>
      BY <2>2 DEF PopQueue, TypeOK
    <3>2. Head(queue[p]) \in Nat
      BY <3>1
    <3>3. <<Head(queue[p])>> \in Seq(Nat)
      BY <3>2
    <3> QED
      BY <2>2, <3>3 DEF PopQueue
  <2> QED
    BY <2>1, <2>2 DEF Tick
<1>3. /\ status' \in {"up", "aborted", "crashed"}
      /\ written' \in [QPort -> Seq(Nat)]
      /\ Written(p) \/ UNCHANGED <<link, inbound>>
  BY <1>1, <1>2, WriteFromEffect DEF TypeOK
<1>4. UNCHANGED <<backlog, sent, threads, pushed>>
  BY DEF Tick, PopQueue, SendPing
<1>5. queue' \in [QPort -> Seq(Nat)]
  <2>1. CASE queue' = queue
    BY <2>1 DEF TypeOK
  <2>2. CASE queue[p] # <<>> /\ queue' = [queue EXCEPT ![p] = Tail(queue[p])]
    <3>1. queue \in [QPort -> Seq(Nat)] /\ queue[p] \in Seq(Nat)
      BY DEF TypeOK
    <3>2. Tail(queue[p]) \in Seq(Nat)
      BY <2>2, <3>1
    <3> QED
      BY <2>2, <3>1, <3>2
  <2> QED
    BY <2>1, <2>2 DEF Tick, PopQueue, SendPing, Rest
<1>6. TypeOK'
  BY <1>3, <1>4, <1>5 DEF TypeOK, Written
<1>7. NoOrphanTimer'
  BY <1>4 DEF NoOrphanTimer
<1>8. Dispatching
  BY DEF Tick, PopQueue, SendPing
<1>9. \A q \in Port : Lifecycle(q)'
  BY <1>1, <1>3, <1>4, <1>8 DEF Lifecycle, Written, Dispatching
<1> QED
  BY <1>6, <1>7, <1>9

-----------------------------------------------------------------------------
LEMMA Initially == Init => IInv
<1> SUFFICES ASSUME Init PROVE IInv
  OBVIOUS
<1>1. <<>> \in Seq(Command) /\ <<>> \in Seq(Nat)
  OBVIOUS
<1>2. TypeOK
  BY <1>1 DEF Init, TypeOK, Link, Worker, Object
<1>3. NoOrphanTimer
  BY DEF Init, NoOrphanTimer
<1>4. \A p \in Port : Lifecycle(p)
  BY DEF Init, Lifecycle, Port
<1> QED
  BY <1>2, <1>3, <1>4 DEF IInv

LEMMA Inductive == IInv /\ [Next]_vars => IInv'
<1> SUFFICES ASSUME IInv, [Next]_vars PROVE IInv'
  OBVIOUS
<1>1. CASE UNCHANGED vars
  BY <1>1 DEF vars, env, threads, queues, IInv, TypeOK, NoOrphanTimer, Lifecycle
<1>2. ASSUME NEW p \in Port, Client(p) \/ WorkerStep(p) \/ Read(p)
      PROVE  IInv'
  BY <1>2, ClientStep, WorkerSteps, ReadSteps
<1>3. ASSUME NEW p \in QPort, NEW c \in 1 .. conn[p], Tick(p, c)
      PROVE  IInv'
  <2>1. conn[p] \in Nat
    BY DEF IInv, TypeOK, QPort, Port
  <2> QED
    BY <1>3, <2>1, TickStep
<1> QED
  BY <1>1, <1>2, <1>3 DEF Next

LEMMA Invariance == Spec => []IInv
BY Initially, Inductive, PTL DEF Spec

(* The manager never leaves the types of its variables.                    *)
THEOREM TypeCorrect == Spec => []TypeOK
<1>1. IInv => TypeOK
  BY DEF IInv
<1> QED
  BY <1>1, Invariance, PTL

(* No timer but the one gsm02_destroy forgets, or one of a handler that    *)
(* the disconnection overtook, holds a freed object.                       *)
THEOREM NoOrphans == Spec => []NoOrphanTimer
<1>1. IInv => NoOrphanTimer
  BY DEF IInv
<1> QED
  BY <1>1, Invariance, PTL

(* A worker waiting in its main loop can always be released.               *)
THEOREM LoopsEnd == Spec => []LoopCanEnd
<1>1. IInv => LoopCanEnd
  BY DEF IInv, LoopCanEnd, Lifecycle
<1> QED
  BY <1>1, Invariance, PTL

-----------------------------------------------------------------------------
(* What one step does to the queue of port q, in the terms of LossyFifo.   *)
QueueStep(q) ==
    \/ /\ pushed'[q] = pushed[q]
       /\ queue'[q] = queue[q]
       /\ written'[q] = written[q]
    \/ /\ pushed'[q] = pushed[q] + 1
       /\ queue'[q] = Append(queue[q], pushed[q] + 1)
       /\ written'[q] = written[q]
    \/ /\ queue[q] # <<>>
       /\ queue'[q] = Tail(queue[q])
       /\ pushed'[q] = pushed[q]
       /\ written'[q] \in {written[q], Append(written[q], Head(queue[q]))}

LEMMA TickQueueStep ==
    ASSUME TypeOK, NEW p \in QPort, NEW c \in Nat, Tick(p, c), NEW q \in QPort
    PROVE  QueueStep(q)
<1>1. pushed' = pushed
  BY DEF Tick, PopQueue, SendPing
<1>2. CASE SendPing(p, c)
  <2>1. <<>> \in Seq(Nat) /\ queue' = queue /\ WriteFrom(p, c, <<>>)
    BY <1>2 DEF SendPing
  <2>2. written[q] \o <<>> = written[q]
    <3>1. written[q] \in Seq(Nat)
      BY DEF TypeOK
    <3> QED
      BY <3>1
  <2>3. written'[q] = written[q]
    BY <2>1, <2>2 DEF WriteFrom, TypeOK
  <2> QED
    BY <1>1, <2>1, <2>3 DEF QueueStep
<1>3. CASE PopQueue(p, c)
  <2>1. /\ queue[p] # <<>>
        /\ queue' = [queue EXCEPT ![p] = Tail(queue[p])]
        /\ WriteFrom(p, c, <<Head(queue[p])>>)
    BY <1>3 DEF PopQueue, Rest
  <2>2. /\ queue[p] \in Seq(Nat)
        /\ written[p] \in Seq(Nat)
    BY DEF TypeOK
  <2>3. Head(queue[p]) \in Nat
    BY <2>1, <2>2
  <2>4. written[p] \o <<Head(queue[p])>> = Append(written[p], Head(queue[p]))
    BY <2>2, <2>3
  <2>5. \/ written' = written
        \/ written' = [written EXCEPT ![p] = Append(written[p], Head(queue[p]))]
    BY <2>1, <2>4 DEF WriteFrom
  <2> QED
    BY <1>1, <2>1, <2>5 DEF QueueStep, TypeOK
<1> QED
  BY <1>2, <1>3 DEF Tick

LEMMA QueueSteps ==
    ASSUME TypeOK, [Next]_vars, NEW q \in QPort
    PROVE  QueueStep(q)
<1> USE DEF env, threads, queues
<1>1. CASE UNCHANGED queues
  BY <1>1 DEF QueueStep
<1>2. ASSUME NEW p \in Port, ReadData(p), ~UNCHANGED queues
      PROVE  QueueStep(q)
  <2>1. \E r \in QPort : Push(r)
    BY <1>2 DEF ReadData, Handle, QPort
  <2> QED
    BY <2>1 DEF Push, QueueStep, TypeOK
<1>3. ASSUME NEW p \in QPort, NEW c \in 1 .. conn[p], Tick(p, c)
      PROVE  QueueStep(q)
  <2>1. c \in Nat
    BY DEF TypeOK, QPort, Port
  <2> QED
    BY <1>3, <2>1, TickQueueStep
<1>4. CASE UNCHANGED vars
  BY <1>1, <1>4 DEF vars
<1>5. ASSUME NEW p \in Port,
             Client(p) \/ WorkerStep(p) \/ ReadEnd(p) \/ FinishDestroy(p)
      PROVE  QueueStep(q)
  <2>1. Client(p) => UNCHANGED queues
    BY DEF Client, Connect, Send, Close, Reset
  <2>2. WorkerStep(p) => UNCHANGED queues
    BY DEF WorkerStep, Incoming, AddPopTimer, AddPingTimer, AddTimer, RunLoop,
           Return, CrashWorker
  <2> QED
    BY <1>1, <1>5, <2>1, <2>2 DEF ReadEnd, FinishDestroy
<1> QED
  BY <1>1, <1>2, <1>3, <1>4, <1>5 DEF Next, Read

(* Digits reach the microcontroller in order and at most once, ...         *)
LEMMA DigitsRefine == Spec => Digits!Spec
<1>1. Init => Digits!Init
  BY DEF Init, Digits!Init, QPort
<1>2. TypeOK /\ [Next]_vars => [Digits!Next]_(Digits!fifoVars)
  <2> SUFFICES ASSUME TypeOK, [Next]_vars
               PROVE  [Digits!Next]_(Digits!fifoVars)
    OBVIOUS
  <2>1. QueueStep("mcu")
    BY QueueSteps DEF QPort
  <2> QED
    BY <2>1 DEF QueueStep, Digits!Next, Digits!fifoVars, Digits!Accept,
                Digits!Forward, Digits!Lose
<1> QED
  BY <1>1, <1>2, TypeCorrect, PTL DEF Spec, Digits!Spec

(* ... and so do short messages the radio.                                 *)
LEMMA MessagesRefine == Spec => Messages!Spec
<1>1. Init => Messages!Init
  BY DEF Init, Messages!Init, QPort
<1>2. TypeOK /\ [Next]_vars => [Messages!Next]_(Messages!fifoVars)
  <2> SUFFICES ASSUME TypeOK, [Next]_vars
               PROVE  [Messages!Next]_(Messages!fifoVars)
    OBVIOUS
  <2>1. QueueStep("gsm02")
    BY QueueSteps DEF QPort
  <2> QED
    BY <2>1 DEF QueueStep, Messages!Next, Messages!fifoVars, Messages!Accept,
                Messages!Forward, Messages!Lose
<1> QED
  BY <1>1, <1>2, TypeCorrect, PTL DEF Spec, Messages!Spec

(* Both queues implement the lossy FIFO.                                   *)
THEOREM QueuesRefine == Spec => QueuesAreLossyFifos
  BY DigitsRefine, MessagesRefine DEF QueuesAreLossyFifos

-----------------------------------------------------------------------------
(* What LossyFifo promises of one queue, as a relation between what was    *)
(* accepted, what waits and what was forwarded, and what its three steps   *)
(* make of it.                                                             *)
Ascending(s) == \A i, j \in 1 .. Len(s) : i < j => s[i] < s[j]

Ordered(accepted, waiting, forwarded) ==
    /\ Ascending(waiting)
    /\ Ascending(forwarded)
    /\ \A i \in 1 .. Len(forwarded), j \in 1 .. Len(waiting) :
          forwarded[i] < waiting[j]
    /\ \A j \in 1 .. Len(waiting) : waiting[j] <= accepted
    /\ \A i \in 1 .. Len(forwarded) : forwarded[i] <= accepted

(* A sequence with one more element at its end.                            *)
LEMMA AppendElements ==
    ASSUME NEW s \in Seq(Nat), NEW x \in Nat
    PROVE  /\ Append(s, x) \in Seq(Nat) /\ Len(Append(s, x)) = Len(s) + 1
           /\ \A i \in 1 .. Len(s) : Append(s, x)[i] = s[i] /\ s[i] \in Nat
           /\ Append(s, x)[Len(s) + 1] = x
           /\ \A i \in 1 .. Len(s) + 1 : i \in 1 .. Len(s) \/ i = Len(s) + 1
OBVIOUS

(* A sequence without its first element.                                   *)
LEMMA TailElements ==
    ASSUME NEW s \in Seq(Nat), s # <<>>
    PROVE  /\ Tail(s) \in Seq(Nat) /\ Len(Tail(s)) = Len(s) - 1
           /\ \A i \in 1 .. Len(s) - 1 : Tail(s)[i] = s[i + 1] /\ i + 1 \in 1 .. Len(s)
           /\ Head(s) = s[1] /\ 1 \in 1 .. Len(s) /\ s[1] \in Nat
OBVIOUS

LEMMA AppendAscends ==
    ASSUME NEW s \in Seq(Nat), NEW x \in Nat, Ascending(s),
           \A i \in 1 .. Len(s) : s[i] < x
    PROVE  Ascending(Append(s, x))
<1> DEFINE r == Append(s, x)
<1>1. /\ Len(r) = Len(s) + 1 /\ Len(s) \in Nat
      /\ \A i \in 1 .. Len(s) : r[i] = s[i]
      /\ r[Len(s) + 1] = x
      /\ \A i \in 1 .. Len(s) + 1 : i \in 1 .. Len(s) \/ i = Len(s) + 1
  BY AppendElements
<1> HIDE DEF r
<1>2. Ascending(r)
  BY <1>1 DEF Ascending
<1> QED
  BY <1>2 DEF r

LEMMA AcceptKeepsOrder ==
    ASSUME NEW a \in Nat, NEW w \in Seq(Nat), NEW f \in Seq(Nat), Ordered(a, w, f)
    PROVE  Ordered(a + 1, Append(w, a + 1), f)
<1> DEFINE r == Append(w, a + 1)
<1>1. /\ Len(r) = Len(w) + 1 /\ Len(w) \in Nat
      /\ \A i \in 1 .. Len(w) : r[i] = w[i] /\ w[i] \in Nat
      /\ r[Len(w) + 1] = a + 1
      /\ \A i \in 1 .. Len(w) + 1 : i \in 1 .. Len(w) \/ i = Len(w) + 1
  BY AppendElements
<1>2. \A i \in 1 .. Len(f) : f[i] \in Nat
  OBVIOUS
<1>3. Ascending(r)
  <2>1. \A i \in 1 .. Len(w) : w[i] < a + 1
    BY <1>1 DEF Ordered
  <2> QED
    BY <2>1, AppendAscends DEF Ordered
<1> HIDE DEF r
<1>4. \A i \in 1 .. Len(f), j \in 1 .. Len(r) : f[i] < r[j]
  BY <1>1, <1>2 DEF Ordered
<1>5. \A j \in 1 .. Len(r) : r[j] <= a + 1
  <2>1. \A j \in 1 .. Len(w) : w[j] <= a + 1
    BY <1>1 DEF Ordered
  <2> SUFFICES ASSUME NEW j \in 1 .. Len(w) + 1 PROVE r[j] <= a + 1
    BY <1>1
  <2>2. CASE j \in 1 .. Len(w)
    BY <1>1, <2>1, <2>2
  <2>3. CASE j = Len(w) + 1
    BY <1>1, <2>3
  <2> QED
    BY <1>1, <2>2, <2>3
<1>6. \A i \in 1 .. Len(f) : f[i] <= a + 1
  BY <1>2 DEF Ordered
<1>7. Ordered(a + 1, r, f)
  BY <1>3, <1>4, <1>5, <1>6 DEF Ordered
<1> QED
  BY <1>7 DEF r

LEMMA LeavingKeepsOrder ==
    ASSUME NEW a \in Nat, NEW w \in Seq(Nat), NEW f \in Seq(Nat), Ordered(a, w, f),
           w # <<>>
    PROVE  /\ Ordered(a, Tail(w), f)
           /\ Ordered(a, Tail(w), Append(f, Head(w)))
<1> DEFINE t == Tail(w)
           h == Head(w)
           g == Append(f, h)
<1>1. /\ t \in Seq(Nat) /\ Len(t) = Len(w) - 1
      /\ \A i \in 1 .. Len(w) - 1 : t[i] = w[i + 1] /\ i + 1 \in 1 .. Len(w)
      /\ h = w[1] /\ 1 \in 1 .. Len(w) /\ h \in Nat
  BY TailElements
<1>2. /\ Len(g) = Len(f) + 1 /\ Len(f) \in Nat
      /\ \A i \in 1 .. Len(f) : g[i] = f[i] /\ f[i] \in Nat
      /\ g[Len(f) + 1] = h
      /\ \A i \in 1 .. Len(f) + 1 : i \in 1 .. Len(f) \/ i = Len(f) + 1
  BY <1>1, AppendElements
<1>3. Ascending(g)
  <2>1. \A i \in 1 .. Len(f) : f[i] < h
    BY <1>1 DEF Ordered
  <2> HIDE DEF h
  <2> QED
    BY <1>1, <2>1, AppendAscends DEF Ordered
<1> HIDE DEF t, h, g
<1>4. /\ Ascending(t)
      /\ \A j \in 1 .. Len(t) : h < t[j] /\ t[j] <= a
  <2>1. Len(w) \in Nat /\ Ascending(w) /\ \A j \in 1 .. Len(w) : w[j] <= a
    BY DEF Ordered
  <2>2. Ascending(t)
    <3> SUFFICES ASSUME NEW i \in 1 .. Len(w) - 1, NEW j \in 1 .. Len(w) - 1, i < j
                 PROVE  t[i] < t[j]
      BY <1>1 DEF Ascending
    <3>1. t[i] = w[i + 1] /\ t[j] = w[j + 1]
      BY <1>1
    <3>2. i + 1 \in 1 .. Len(w) /\ j + 1 \in 1 .. Len(w) /\ i + 1 < j + 1
      BY <1>1
    <3> QED
      BY <2>1, <3>1, <3>2 DEF Ascending
  <2>3. \A j \in 1 .. Len(t) : t[j] <= a
    BY <1>1, <2>1
  <2>4. \A j \in 1 .. Len(t) : h < t[j]
    <3> SUFFICES ASSUME NEW j \in 1 .. Len(w) - 1 PROVE h < t[j]
      BY <1>1
    <3>1. t[j] = w[j + 1] /\ j + 1 \in 1 .. Len(w) /\ 1 < j + 1
      BY <1>1, <2>1
    <3> QED
      BY <1>1, <2>1, <3>1 DEF Ascending
  <2> QED
    BY <2>2, <2>3, <2>4
<1>5. \A i \in 1 .. Len(f), j \in 1 .. Len(t) : f[i] < t[j]
  BY <1>1 DEF Ordered
<1>6. \A i \in 1 .. Len(g), j \in 1 .. Len(t) : g[i] < t[j]
  BY <1>2, <1>4, <1>5
<1>7. \A i \in 1 .. Len(g) : g[i] <= a
  BY <1>1, <1>2 DEF Ordered
<1>8. Ordered(a, t, f) /\ Ordered(a, t, g)
  BY <1>3, <1>4, <1>5, <1>6, <1>7 DEF Ordered
<1> QED
  BY <1>8 DEF t, h, g

QueuesOrdered == \A q \in QPort : Ordered(pushed[q], queue[q], written[q])

LEMMA OrderStep ==
    ASSUME TypeOK, QueuesOrdered, NEW q \in QPort, QueueStep(q)
    PROVE  Ordered(pushed'[q], queue'[q], written'[q])
<1>1. pushed[q] \in Nat /\ queue[q] \in Seq(Nat) /\ written[q] \in Seq(Nat)
  BY DEF TypeOK
<1>2. Ordered(pushed[q], queue[q], written[q])
  BY DEF QueuesOrdered
<1>3. Ordered(pushed[q] + 1, Append(queue[q], pushed[q] + 1), written[q])
  BY <1>1, <1>2, AcceptKeepsOrder
<1>4. queue[q] # <<>> =>
        /\ Ordered(pushed[q], Tail(queue[q]), written[q])
        /\ Ordered(pushed[q], Tail(queue[q]), Append(written[q], Head(queue[q])))
  BY <1>1, <1>2, LeavingKeepsOrder
<1> QED
  BY <1>2, <1>3, <1>4 DEF QueueStep

(* Whatever connections come and go while elements wait, each queue gives  *)
(* out what was pushed in its order, and nothing twice.                    *)
THEOREM QueuesKeepOrder == Spec => [](Digits!InOrder /\ Messages!InOrder)
<1>1. Init => QueuesOrdered
  BY DEF Init, QueuesOrdered, Ordered, Ascending
<1>2. TypeOK /\ QueuesOrdered /\ [Next]_vars => QueuesOrdered'
  <2> SUFFICES ASSUME TypeOK, QueuesOrdered, [Next]_vars PROVE QueuesOrdered'
    OBVIOUS
  <2>1. \A q \in QPort : Ordered(pushed'[q], queue'[q], written'[q])
    BY QueueSteps, OrderStep
  <2> QED
    BY <2>1 DEF QueuesOrdered
<1>3. QueuesOrdered => Digits!InOrder /\ Messages!InOrder
  BY DEF QueuesOrdered, QPort, Ordered, Ascending, Digits!InOrder, Messages!InOrder,
         Digits!Ascending, Messages!Ascending
<1> QED
  BY <1>1, <1>2, <1>3, TypeCorrect, PTL DEF Spec

-----------------------------------------------------------------------------
(* A connection whose handler is not finished and which cannot be used any *)
(* more has lost its client.                                               *)
LEMMA GoneClient ==
    ASSUME IInv, NEW p \in Port, worker[p] # "idle",
           object[p] # "live" \/ closing = p
    PROVE  link[p] \in {"fin", "reset"}
<1>1. object[p] \in {"live", "freed"}
  BY DEF IInv, TypeOK, Object, Lifecycle
<1> QED
  BY <1>1 DEF IInv, Lifecycle

CrashCause ==
    \/ \E p \in Port : link[p] \in {"fin", "reset"}
    \/ \E t \in timers :
          t.port = "gsm02" /\ t.kind = "pop" /\ ~Live(t.port, t.conn)

LEMMA CrashStep ==
    ASSUME IInv, [Next]_vars, status = "up", status' # "up"
    PROVE  CrashCause
<1> USE DEF IInv, env, threads, queues
<1>1. CASE \E p \in Port : CrashWorker(p) /\ worker[p] # "idle"
  BY <1>1, GoneClient DEF CrashWorker, Overtaken, CrashCause
<1>2. ASSUME NEW p \in Port, object[p] = "live", closing = "none", Written(p)
      PROVE  CrashCause
  <2>1. link[p] \in {"fin", "reset"}
    BY <1>2 DEF Written, Lifecycle, TypeOK, Link, Port
  <2> QED
    BY <2>1 DEF CrashCause
<1>3. ASSUME NEW p \in Port, ReadData(p)
      PROVE  CrashCause
  <2>1. PICK n \in 1 .. Len(inbound[p]) :
          Handle(p, Head(inbound[p]), SubSeq(inbound[p], n + 1, Len(inbound[p])))
    BY <1>3 DEF ReadData
  <2>2. inbound[p] \in Seq(Command) /\ inbound[p] # <<>>
    BY <2>1 DEF TypeOK
  <2>3. /\ Head(inbound[p]) \in Command
        /\ SubSeq(inbound[p], n + 1, Len(inbound[p])) \in Seq(Command)
    BY <2>1, <2>2
  <2>4. Written(p)
    BY <1>3, <2>1, <2>3, HandleEffect DEF ReadData
  <2> QED
    BY <1>2, <1>3, <2>4 DEF ReadData, Dispatching
<1>4. ASSUME NEW p \in QPort, NEW c \in 1 .. conn[p], Tick(p, c)
      PROVE  CrashCause
  <2>1. c \in Nat /\ p \in Port
    BY DEF TypeOK, QPort, Port
  <2>2. /\ Dispatching
        /\ \E items \in Seq(Nat) : WriteFrom(p, c, items)
        /\ \/ [port |-> p, kind |-> "ping", conn |-> c] \in timers
           \/ [port |-> p, kind |-> "pop", conn |-> c] \in timers
    <3>1. CASE SendPing(p, c)
      BY <3>1, <<>> \in Seq(Nat) DEF SendPing
    <3>2. CASE PopQueue(p, c)
      <4>1. queue[p] \in Seq(Nat) /\ queue[p] # <<>>
        BY <3>2 DEF PopQueue, TypeOK
      <4>2. Head(queue[p]) \in Nat
        BY <4>1
      <4>3. <<Head(queue[p])>> \in Seq(Nat)
        BY <4>2
      <4> QED
        BY <3>2, <4>3 DEF PopQueue
    <3> QED
      BY <1>4, <3>1, <3>2 DEF Tick
  <2>3. (object[p] = "live" /\ Written(p)) \/ ~Live(p, c)
    BY <2>1, <2>2, WriteFromEffect
  <2>4. CASE object[p] = "live" /\ Written(p)
    BY <1>2, <2>1, <2>2, <2>4 DEF Dispatching
  <2>5. CASE ~Live(p, c)
    <3>1. PICK kind \in {"pop", "ping"} : [port |-> p, kind |-> kind, conn |-> c] \in timers
      BY <2>2
    <3>2. CASE p = "gsm02" /\ kind = "pop"
      BY <2>5, <3>1, <3>2 DEF CrashCause
    <3>3. CASE p = "mcu" \/ kind = "ping"
      <4>1. /\ c = conn[p]
            /\ object[p] = "live" \/ worker[p] \in {"popping", "ready", "lost"}
        BY <3>1, <3>3 DEF NoOrphanTimer
      <4>2. object[p] # "live" /\ worker[p] # "idle"
        BY <2>5, <4>1 DEF Live
      <4>3. link[p] \in {"fin", "reset"}
        BY <2>1, <4>2, GoneClient
      <4> QED
        BY <2>1, <4>3 DEF CrashCause
    <3> QED
      BY <3>1, <3>2, <3>3 DEF QPort
  <2> QED
    BY <2>3, <2>4, <2>5
<1>5. ASSUME NEW p \in Port, Client(p) \/ ReadEnd(p) \/ FinishDestroy(p)
      PROVE  FALSE
  BY <1>5 DEF Client, Connect, Send, Close, Reset, ReadEnd, FinishDestroy
<1>6. ASSUME NEW p \in Port, WorkerStep(p)
      PROVE  CrashWorker(p) /\ worker[p] # "idle"
  BY <1>6 DEF WorkerStep, Incoming, AddPopTimer, AddPingTimer, AddTimer,
              RunLoop, Return
<1>7. ~UNCHANGED vars
  BY DEF vars
<1> QED
  BY <1>1, <1>3, <1>4, <1>5, <1>6, <1>7 DEF Next, Read

(* The manager goes down only when a client it serves has gone, or when    *)
(* the timer gsm02_destroy forgot fires.                                   *)
THEOREM CrashesHaveCauses == Spec => CrashNeedsCause
<1>1. IInv /\ [Next]_vars => [status = "up" /\ status' # "up" => CrashCause]_vars
  BY CrashStep
<1> QED
  BY <1>1, Invariance, PTL DEF Spec, CrashNeedsCause, CrashCause
-----------------------------------------------------------------------------
(* While the microcontroller is served the pop timer of its connection is  *)
(* the only one there is, so what it takes it writes.                      *)
LEMMA PopWritesTheDigit ==
    ASSUME IInv, NEW c \in Nat, PopQueue("mcu", c), link["mcu"] = "open", object["mcu"] = "live"
    PROVE  /\ queue'["mcu"] = Tail(queue["mcu"])
           /\ written'["mcu"] = Append(written["mcu"], Head(queue["mcu"]))
<1>1. "mcu" \in QPort /\ queue \in [QPort -> Seq(Nat)] /\ written \in [QPort -> Seq(Nat)]
  BY DEF QPort, IInv, TypeOK
<1>2. /\ queue["mcu"] # <<>>
      /\ queue' = [queue EXCEPT !["mcu"] = Tail(queue["mcu"])]
      /\ WriteFrom("mcu", c, <<Head(queue["mcu"])>>)
      /\ [port |-> "mcu", kind |-> "pop", conn |-> c] \in timers
  BY DEF PopQueue, Rest
<1>3. c = conn["mcu"]
  BY <1>2 DEF IInv, NoOrphanTimer
<1>4. Live("mcu", c)
  BY <1>3 DEF Live
<1>5. written' = [written EXCEPT !["mcu"] = written["mcu"] \o <<Head(queue["mcu"])>>]
  BY <1>2, <1>4 DEF WriteFrom
<1>6. written["mcu"] \in Seq(Nat) /\ queue["mcu"] \in Seq(Nat)
  BY <1>1
<1>7. Head(queue["mcu"]) \in Nat
  BY <1>2, <1>6
<1>8. written["mcu"] \o <<Head(queue["mcu"])>> = Append(written["mcu"], Head(queue["mcu"]))
  BY <1>6, <1>7
<1> QED
  BY <1>1, <1>2, <1>5, <1>8

(* Nothing else takes a digit from the queue.                              *)
LEMMA OnlyPopTakes ==
    ASSUME IInv, [Next]_vars, \A c \in Nat : ~PopQueue("mcu", c)
    PROVE  queue'["mcu"] = queue["mcu"] \/ Len(queue'["mcu"]) > Len(queue["mcu"])
<1> USE DEF env, threads, queues
<1>1. "mcu" \in QPort /\ queue \in [QPort -> Seq(Nat)] /\ pushed \in [QPort -> Nat]
  BY DEF QPort, IInv, TypeOK
<1>2. ASSUME NEW r \in QPort, Push(r)
      PROVE  queue'["mcu"] = queue["mcu"] \/ Len(queue'["mcu"]) > Len(queue["mcu"])
  <2>1. queue["mcu"] \in Seq(Nat) /\ pushed["mcu"] + 1 \in Nat
    BY <1>1
  <2>2. Len(Append(queue["mcu"], pushed["mcu"] + 1)) > Len(queue["mcu"])
    BY <2>1
  <2>3. queue' = [queue EXCEPT ![r] = Append(queue[r], pushed[r] + 1)]
    BY <1>2 DEF Push
  <2> QED
    BY <1>1, <2>2, <2>3
<1>3. ASSUME NEW p \in Port, ReadData(p)
      PROVE  queue' = queue \/ \E r \in QPort : Push(r)
  BY <1>3 DEF ReadData, Handle, QPort
<1>4. ASSUME NEW p \in QPort, NEW c \in 1 .. conn[p], Tick(p, c)
      PROVE  queue'["mcu"] = queue["mcu"]
  <2>1. c \in Nat
    BY DEF IInv, TypeOK, QPort, Port
  <2>2. CASE PopQueue(p, c)
    BY <1>1, <2>1, <2>2 DEF PopQueue
  <2>3. CASE SendPing(p, c)
    BY <2>3 DEF SendPing
  <2> QED
    BY <1>4, <2>2, <2>3 DEF Tick
<1>5. ASSUME NEW p \in Port, Client(p) \/ WorkerStep(p) \/ ReadEnd(p) \/ FinishDestroy(p)
      PROVE  queue' = queue
  <2>1. Client(p) => queue' = queue
    BY DEF Client, Connect, Send, Close, Reset
  <2>2. WorkerStep(p) => queue' = queue
    BY DEF WorkerStep, Incoming, AddPopTimer, AddPingTimer, AddTimer, RunLoop,
           Return, CrashWorker
  <2> QED
    BY <1>5, <2>1, <2>2 DEF ReadEnd, FinishDestroy
<1>6. CASE UNCHANGED vars
  BY <1>6 DEF vars
<1> QED
  BY <1>2, <1>3, <1>4, <1>5, <1>6 DEF Next, Read

(* No digit is taken from the queue and dropped while its receiver is      *)
(* served, whichever connections came before.                              *)
THEOREM ServedDigitsAreWritten == Spec => NoDigitLostWhileServed
<1> DEFINE Kept ==
      status' = "up" /\ link["mcu"] = "open" /\ object["mcu"] = "live"
         => \/ UNCHANGED queue["mcu"]
            \/ Len(queue'["mcu"]) > Len(queue["mcu"])
            \/ /\ queue'["mcu"] = Tail(queue["mcu"])
               /\ written'["mcu"] = Append(written["mcu"], Head(queue["mcu"]))
<1>1. IInv /\ [Next]_vars => [Kept]_vars
  BY PopWritesTheDigit, OnlyPopTakes
<1> QED
  BY <1>1, Invariance, PTL DEF Spec, NoDigitLostWhileServed
=============================================================================
