-------------------------------- MODULE Board --------------------------------
(***************************************************************************)
(* The microcontroller's side of the connection to the telephony manager:  *)
(* the client application (src/tcc/embedded/client.c) inside uIP's TCP     *)
(* (src/tcc/embedded/uip/uip.c), both run by the uIP task.                 *)
(*                                                                         *)
(* uip_conns is a table of connections; here a connection is known by the  *)
(* number of the uip_connect call that made it, and both ends keep what    *)
(* they know of it under that number.  Local ports are used again once     *)
(* uip_connect has come round: then segments of an earlier connection      *)
(* reach the later one.  The initial sequence numbers of the two differ    *)
(* (iss counts on for ever), so that neither end takes numbers of the one  *)
(* for numbers of the other.  Sequence numbers are relative to the SYN,    *)
(* which is number 0; a message of the manager and a keep-alive reply      *)
(* count one unit, an LED report two (15 and 17 bytes).  The               *)
(* retransmission timer may expire whenever something is outstanding.      *)
(*                                                                         *)
(* The network loses, delays, duplicates and reorders: whatever one end    *)
(* has sent so far may reach the other end, now or never (prvENET_Send     *)
(* puts every frame on the wire twice).                                    *)
(***************************************************************************)
EXTENDS Naturals, Sequences, FiniteSets

CONSTANTS Conns,      \* entries of uip_conns (UIP_CONNS)
          MaxRtx,     \* UIP_MAXRTX
          MaxSynRtx,  \* UIP_MAXSYNRTX
          FirstPort,  \* the first local port (1025)
          WrapPort,   \* where uip_connect goes on after the last one (4096)
          EndPort,    \* the port after the last one (32000)
          MaxCalls,   \* uip_connect calls considered (bound)
          Loads       \* bounds that go together: calls, the messages on each
                      \* connection, the connections the manager's host answers

ASSUME ConnsAssumption == Conns \in Nat /\ Conns >= 2
ASSUME PortAssumption ==
    /\ FirstPort \in Nat /\ WrapPort \in Nat /\ EndPort \in Nat
    /\ 1 <= FirstPort /\ FirstPort < EndPort
    /\ 1 <= WrapPort /\ WrapPort + Conns < EndPort
ASSUME RtxAssumption == MaxRtx \in Nat /\ MaxSynRtx \in Nat
ASSUME BoundsAssumption ==
    /\ MaxCalls \in Nat /\ MaxCalls >= 1
    /\ Loads \subseteq [calls : 1 .. MaxCalls, messages : [1 .. MaxCalls -> Nat],
                        answered : SUBSET (1 .. MaxCalls)]

VARIABLES
    conns,     \* uip_conns: [Slot -> state, call, outstanding len, nrtx]
    calls,     \* how many times uip_connect was called
    lastport,  \* the last port uip_connect found unused
    lport,     \* [Call -> its connection's local port, 0 if there is none]
    snd,       \* [Call -> snd_nxt: the first unit not known to have arrived]
    rcv,       \* [Call -> rcv_nxt: the next unit expected of the manager]
    out,       \* [Call -> segments the board has sent, bare ACKs aside]
    closings,  \* [Call -> how often the application was told of the end]
    handled,   \* [Call -> the messages the application has handled]
    peer,      \* [Call -> the manager's end of the connection]
    got        \* [Call -> the messages whose answers the manager received]

uip  == <<conns, calls, lastport, lport, snd, rcv, out, closings>>
far  == <<peer, got>>
vars == <<uip, handled, far>>

Slot == 1 .. Conns
Call == 1 .. MaxCalls

(* TIME_WAIT and the FIN_WAIT states are never entered: the application    *)
(* does not close connections itself.                                      *)
State == {"CLOSED", "SYN_SENT", "ESTABLISHED", "LAST_ACK"}

Conn == [state : State, call : 0 .. MaxCalls, len : 0 .. 2, nrtx : Nat]

(* What the manager writes: a keep-alive, a digit that switches the LED,   *)
(* and the digit that asks for its state.                                  *)
Command == {"KEEP_ALIVE", "LED", "QUERY"}

(* Manager messages, each with the acknowledgment number when written.     *)
Message == [cmd : Command, ack : Nat]

(* Replies: the message answered and the length of the answer.             *)
Reply == [to : Nat, size : 1 .. 2]

Syn == [kind |-> "SYN"]
Fin(n) == [kind |-> "FIN", seq |-> n]
Rst(n) == [kind |-> "RST", seq |-> n]
Data(n, len, r) == [kind |-> "DATA", seq |-> n, len |-> len, reply |-> r]

Peer == [state : {"none", "syn_rcvd", "open", "dead"}, rcv : Nat,
         stream : Seq(Message), fin : Nat, rst : BOOLEAN]

NoPeer == [state |-> "none", rcv |-> 0, stream |-> <<>>, fin |-> 0, rst |-> FALSE]

-----------------------------------------------------------------------------
(* uip_connect *)

(* The port after k steps of the search. *)
Candidate(k) ==
    IF lastport + k < EndPort THEN lastport + k
    ELSE WrapPort + (lastport + k - EndPort)

(* Mutant: nobody looks whether the port is in use.                        *)
InUseNever(cs, n) == FALSE

InUse(cs, n) == \E s \in Slot : cs[s].state # "CLOSED" /\ lport[cs[s].call] = n

(* The steps that end the search; of Conns + 1 ports not all are in use.   *)
Unused(cs) == {k \in 1 .. Conns + 1 : ~InUse(cs, Candidate(k))}

(* Mutant: the search starts at the beginning, not after the last port.    *)
NextPortLowest(cs) ==
    CHOOSE n \in WrapPort .. EndPort - 1 :
        /\ ~InUse(cs, n)
        /\ \A m \in WrapPort .. n - 1 : InUse(cs, m)

NextPort(cs) == Candidate(CHOOSE k \in Unused(cs) : \A j \in Unused(cs) : k <= j)

Fresh(p) == [state |-> "SYN_SENT", call |-> p, len |-> 1, nrtx |-> 0]

Free(cs) == {s \in Slot : cs[s].state = "CLOSED"}

FirstFree(cs) == CHOOSE s \in Free(cs) : \A t \in Free(cs) : s <= t

(* With every entry in use the call fails; nobody looks at its result.     *)
Opened(cs) ==
    IF Free(cs) = {} THEN cs ELSE [cs EXCEPT ![FirstFree(cs)] = Fresh(calls + 1)]

(* What has happened is within the bounds of load l.                       *)
Within(l) ==
    /\ calls <= l.calls
    /\ \A p \in Call : /\ Len(peer[p].stream) <= l.messages[p]
                       /\ peer[p].state # "none" => p \in l.answered

(* So is one more call of uip_connect.                                     *)
MayConnect == \E l \in Loads : Within(l) /\ calls < l.calls

(* client_uip_closed, for connection p, when the table is cs: it always    *)
(* connects again.  With a full table the call still moves lastport.       *)
Told(cs, p) ==
    /\ MayConnect
    /\ calls' = calls + 1
    /\ lastport' = NextPort(cs)
    /\ lport' = [lport EXCEPT ![calls + 1] = IF Free(cs) = {} THEN 0 ELSE lastport']
    /\ closings' = [closings EXCEPT ![p] = @ + 1]

(* Mutant: the application only reports the end on the display.            *)
ClosedQuiet(cs, p) ==
    /\ MayConnect
    /\ conns' = cs
    /\ closings' = [closings EXCEPT ![p] = @ + 1]
    /\ UNCHANGED <<calls, lastport, lport>>

Closed(cs, p) == Told(cs, p) /\ conns' = Opened(cs)

(* uip_init and the first client_connect: the only connection.             *)
Init ==
    /\ conns = [s \in Slot |->
                   IF s = 1 THEN Fresh(1)
                   ELSE [state |-> "CLOSED", call |-> 0, len |-> 0, nrtx |-> 0]]
    /\ calls = 1
    /\ lastport = FirstPort
    /\ lport = [p \in Call |-> IF p = 1 THEN FirstPort ELSE 0]
    /\ snd = [p \in Call |-> 0]
    /\ rcv = [p \in Call |-> 0]
    /\ out = [p \in Call |-> {}]
    /\ closings = [p \in Call |-> 0]
    /\ handled = [p \in Call |-> <<>>]
    /\ peer = [p \in Call |-> NoPeer]
    /\ got = [p \in Call |-> <<>>]

Transmit(p, seg) == out' = [out EXCEPT ![p] = @ \cup {seg}]

-----------------------------------------------------------------------------
(* uip_periodic: the retransmission timer of entry s expires.  A poll of   *)
(* an idle connection changes nothing.                                     *)

Exhausted(c) ==
    c.nrtx = MaxRtx \/ (c.state = "SYN_SENT" /\ c.nrtx = MaxSynRtx)

(* Mutant: retransmissions are not counted.                                *)
RetransmitUncounted(s) ==
    LET c == conns[s] IN
    /\ c.state # "CLOSED"
    /\ c.len > 0
    /\ ~Exhausted(c)
    /\ \/ c.state = "SYN_SENT" /\ Transmit(c.call, Syn)
       \/ c.state = "LAST_ACK" /\ Transmit(c.call, Fin(snd[c.call]))
       \/ c.state = "ESTABLISHED" /\ UNCHANGED out
    /\ UNCHANGED <<conns, calls, lastport, lport, snd, rcv, closings, handled, far>>

(* A segment is sent again, except data: the application does not answer   *)
(* uip_rexmit.                                                             *)
Retransmit(s) ==
    LET c == conns[s] IN
    /\ c.state # "CLOSED"
    /\ c.len > 0
    /\ ~Exhausted(c)
    /\ conns' = [conns EXCEPT ![s].nrtx = @ + 1]
    /\ \/ c.state = "SYN_SENT" /\ Transmit(c.call, Syn)
       \/ c.state = "LAST_ACK" /\ Transmit(c.call, Fin(snd[c.call]))
       \/ c.state = "ESTABLISHED" /\ UNCHANGED out
    /\ UNCHANGED <<calls, lastport, lport, snd, rcv, closings, handled, far>>

(* The connection is given up.  The reset is built from the table entry    *)
(* after the application was called, which may have reused it.             *)
TimeOut(s) ==
    LET c == conns[s] IN
    /\ c.state # "CLOSED"
    /\ c.len > 0
    /\ Exhausted(c)
    /\ Closed([conns EXCEPT ![s].state = "CLOSED"], c.call)
    /\ LET p == conns'[s].call IN Transmit(p, Rst(snd[p]))
    /\ UNCHANGED <<snd, rcv, handled, far>>

Periodic(s) == Retransmit(s) \/ TimeOut(s)

-----------------------------------------------------------------------------
(* uip_input: a segment of the manager arrives.                            *)

(* The data segments the manager's end may have sent on connection p: some *)
(* of its messages, the last perhaps with the FIN, and any acknowledgment  *)
(* it could have carried then.                                             *)
Segments(p) ==
    LET q    == peer[p]
        size == Len(q.stream)
        ackOf(g) == IF g.fin THEN q.fin
                    ELSE IF g.n = 0 THEN 1 ELSE q.stream[g.seq + g.n - 1].ack
    IN  {g \in [seq : 1 .. size + 1, n : 0 .. size, fin : BOOLEAN, ack : 1 .. q.rcv] :
            /\ g.seq + g.n <= size + 1
            /\ g.n = 0 => g.seq = size + 1
            /\ g.fin => q.fin > 0 /\ g.seq + g.n = size + 1
            /\ g.ack >= ackOf(g)}

(* The entry of uip_conns a segment for the port of connection p finds.    *)
Found(s, p) == conns[s].state # "CLOSED" /\ lport[conns[s].call] = lport[p]

(* A reset is believed whatever its sequence number, also that of an       *)
(* earlier connection from the same port.                                  *)
RecvRst(s, p) ==
    /\ Found(s, p)
    /\ peer[p].rst
    /\ Closed([conns EXCEPT ![s].state = "CLOSED"], conns[s].call)
    /\ UNCHANGED <<snd, rcv, out, handled, far>>

(* Anything else of an earlier connection is acknowledged or ignored, but  *)
(* for one that waits for its SYN-ACK: it is given up, after the           *)
(* application was told, and a reset answers.                              *)
RecvStale(s, p) ==
    /\ Found(s, p)
    /\ conns[s].state = "SYN_SENT"
    /\ conns[s].call # p
    /\ peer[p].rcv >= 1
    /\ Told(conns, conns[s].call)
    /\ conns' = [Opened(conns) EXCEPT ![s].state = "CLOSED"]
    /\ Transmit(p, Rst(peer[p].rcv))
    /\ UNCHANGED <<snd, rcv, handled, far>>

(* The segment belongs to the connection of the entry it finds.            *)
Own(s, p) == Found(s, p) /\ conns[s].call = p

RecvSynAck(s, p) ==
    /\ Own(s, p)
    /\ conns[s].state = "SYN_SENT"
    /\ peer[p].rcv >= 1
    /\ conns' = [conns EXCEPT ![s].state = "ESTABLISHED", ![s].len = 0, ![s].nrtx = 0]
    /\ snd' = [snd EXCEPT ![p] = 1]
    /\ rcv' = [rcv EXCEPT ![p] = 1]
    /\ UNCHANGED <<calls, lastport, lport, out, closings, handled, far>>

(* Mutant: whatever the acknowledgment number, it acknowledges everything. *)
AcksAny(s, seg) == conns[s].len > 0

(* Does the segment acknowledge what is outstanding on entry s?            *)
Acks(s, seg) ==
    LET c == conns[s] IN c.len > 0 /\ seg.ack = snd[c.call] + c.len

(* Mutant: the sequence number of the segment is not compared.             *)
ExpectedAny(seg, p) == TRUE

(* Segments with data or a FIN must be the next in sequence; the others    *)
(* are only answered with an acknowledgment.                               *)
Expected(seg, p) == (seg.n > 0 \/ seg.fin) => seg.seq = rcv[p]

(* Only the first message of a segment is handled.                         *)
Reaction(p, seg) ==
    LET cmd == peer[p].stream[seg.seq].cmd IN
    IF seg.n = 0 \/ cmd = "LED" THEN {}
    ELSE {[to |-> seg.seq, size |-> IF cmd = "QUERY" THEN 2 ELSE 1]}

(* Mutant: new data is sent behind what is outstanding.                    *)
AllowedAdds(len, acked, r) == IF acked THEN r.size ELSE len + r.size

(* What the segment that answers may carry: while older data is not        *)
(* acknowledged, exactly as much as that had.                              *)
Allowed(len, acked, r) == IF acked \/ len = 0 THEN r.size ELSE len

(* Data or an acknowledgment for an established connection.                *)
RecvData(s, p, seg) ==
    LET c     == conns[s]
        acked == Acks(s, seg)
        left  == IF acked THEN 0 ELSE c.len
        base  == snd[p] + (c.len - left)
        ans   == Reaction(p, seg)
    IN
    /\ Own(s, p)
    /\ c.state = "ESTABLISHED"
    /\ ~seg.fin
    /\ Expected(seg, p)
    /\ seg.n > 0 \/ acked
    /\ snd' = [snd EXCEPT ![p] = base]
    /\ rcv' = [rcv EXCEPT ![p] = @ + seg.n]
    /\ IF ans = {}
       THEN /\ conns' = [conns EXCEPT ![s].len = left, ![s].nrtx = 0]
            /\ UNCHANGED out
       ELSE \E r \in ans :
               LET n == Allowed(left, acked, r) IN
               /\ conns' = [conns EXCEPT ![s].len = n, ![s].nrtx = 0]
               /\ Transmit(p, Data(base, n, r))
    /\ handled' = IF seg.n > 0
                  THEN [handled EXCEPT ![p] = Append(@, seg.seq)] ELSE handled
    /\ UNCHANGED <<calls, lastport, lport, closings, far>>

(* The manager's FIN, perhaps with its last messages: with data in transit *)
(* it is dropped; otherwise the application is told (and connects again)   *)
(* before the entry goes to LAST_ACK, and what the segment carried is not  *)
(* handled.                                                                *)
RecvFin(s, p, seg) ==
    LET acked == Acks(s, seg) IN
    /\ Own(s, p)
    /\ conns[s].state = "ESTABLISHED"
    /\ seg.fin
    /\ Expected(seg, p)
    /\ conns[s].len = 0 \/ acked
    /\ LET base == snd[p] + conns[s].len IN
       /\ snd' = [snd EXCEPT ![p] = base]
       /\ Transmit(p, Fin(base))
    /\ rcv' = [rcv EXCEPT ![p] = @ + 1 + seg.n]
    /\ LET last == [conns[s] EXCEPT !.state = "LAST_ACK", !.len = 1, !.nrtx = 0] IN
       Closed([conns EXCEPT ![s] = last], p)
    /\ UNCHANGED <<handled, far>>

(* Mutant: the application, told at the FIN, is not told again.            *)
RecvLastAckQuiet(s, p, seg) ==
    /\ Own(s, p)
    /\ conns[s].state = "LAST_ACK"
    /\ Expected(seg, p)
    /\ Acks(s, seg)
    /\ snd' = [snd EXCEPT ![p] = @ + 1]
    /\ conns' = [conns EXCEPT ![s].state = "CLOSED", ![s].len = 0]
    /\ UNCHANGED <<calls, lastport, lport, rcv, out, closings, handled, far>>

(* The manager acknowledges the FIN: the application is told again.        *)
RecvLastAck(s, p, seg) ==
    /\ Own(s, p)
    /\ conns[s].state = "LAST_ACK"
    /\ Expected(seg, p)
    /\ Acks(s, seg)
    /\ snd' = [snd EXCEPT ![p] = @ + 1]
    /\ Closed([conns EXCEPT ![s].state = "CLOSED", ![s].len = 0], p)
    /\ UNCHANGED <<rcv, out, handled, far>>

(* A segment for no connection is answered with a reset that has its       *)
(* acknowledgment number; only the latest is of interest to the manager.   *)
RecvStray(p) ==
    /\ \A s \in Slot : ~Found(s, p)
    /\ peer[p].rcv >= 1
    /\ Transmit(p, Rst(peer[p].rcv))
    /\ UNCHANGED <<conns, calls, lastport, lport, snd, rcv, closings, handled, far>>

Input(s) ==
    \E p \in Call :
        \/ RecvRst(s, p)
        \/ RecvStale(s, p)
        \/ RecvSynAck(s, p)
        \/ \E seg \in Segments(p) :
              RecvData(s, p, seg) \/ RecvFin(s, p, seg) \/ RecvLastAck(s, p, seg)

-----------------------------------------------------------------------------
(* The manager's end of connection p: the TCP of its kernel and, above it, *)
(* the manager or nobody.                                                  *)

(* While an earlier connection from the port is alive there, its host      *)
(* answers a SYN with the numbers of that one.                             *)
PeerSyn(p) ==
    /\ Syn \in out[p]
    /\ peer[p].state = "none"
    /\ \A q \in Call : lport[q] = lport[p] => peer[q].state \notin {"syn_rcvd", "open"}
    /\ \E l \in Loads : Within(l) /\ p \in l.answered
    /\ \/ peer' = [peer EXCEPT ![p].state = "syn_rcvd", ![p].rcv = 1]
       \/ peer' = [peer EXCEPT ![p].state = "dead", ![p].rst = TRUE]
    /\ UNCHANGED <<uip, handled, got>>

PeerEstablish(p) ==
    /\ peer[p].state = "syn_rcvd"
    /\ rcv[p] >= 1
    /\ peer' = [peer EXCEPT ![p].state = "open"]
    /\ UNCHANGED <<uip, handled, got>>

(* So is one more message of the manager on p.                             *)
MayWrite(p) == \E l \in Loads : Within(l) /\ Len(peer[p].stream) < l.messages[p]

PeerWrite(p) ==
    /\ peer[p].state = "open"
    /\ peer[p].fin = 0
    /\ MayWrite(p)
    /\ \E cmd \in Command :
          peer' = [peer EXCEPT ![p].stream = Append(@, [cmd |-> cmd, ack |-> peer[p].rcv])]
    /\ UNCHANGED <<uip, handled, got>>

PeerRead(p) ==
    /\ peer[p].state = "open"
    /\ peer[p].fin = 0
    /\ \E seg \in out[p] :
          /\ seg.kind = "DATA"
          /\ seg.seq = peer[p].rcv
          /\ peer' = [peer EXCEPT ![p].rcv = @ + seg.len]
          /\ got' = [got EXCEPT ![p] = Append(@, seg.reply.to)]
    /\ UNCHANGED <<uip, handled>>

(* The manager closes its end: fin remembers the acknowledgment it carries *)
PeerClose(p) ==
    /\ peer[p].state = "open"
    /\ peer[p].fin = 0
    /\ peer' = [peer EXCEPT ![p].fin = peer[p].rcv]
    /\ UNCHANGED <<uip, handled, got>>

PeerFin(p) ==
    /\ peer[p].state = "open"
    /\ Fin(peer[p].rcv) \in out[p]
    /\ peer' = [peer EXCEPT ![p].state = "dead", ![p].rcv = @ + 1]
    /\ UNCHANGED <<uip, handled, got>>

(* The manager process dies with unread data, or the board's reset comes.  *)
PeerReset(p) ==
    /\ peer[p].state \in {"syn_rcvd", "open"}
    /\ \/ peer' = [peer EXCEPT ![p].state = "dead", ![p].rst = TRUE]
       \/ /\ Rst(peer[p].rcv) \in out[p]
          /\ peer' = [peer EXCEPT ![p].state = "dead"]
    /\ UNCHANGED <<uip, handled, got>>

Manager(p) ==
    \/ PeerSyn(p) \/ PeerEstablish(p) \/ PeerWrite(p) \/ PeerRead(p)
    \/ PeerClose(p) \/ PeerFin(p) \/ PeerReset(p)

-----------------------------------------------------------------------------
Next ==
    \/ \E s \in Slot : Periodic(s) \/ Input(s)
    \/ \E p \in Call : Manager(p) \/ RecvStray(p)

(* The uIP task polls every entry twice a second.                          *)
Fairness == \A s \in Slot : WF_vars(Periodic(s))

Spec == Init /\ [][Next]_vars

FairSpec == Spec /\ Fairness

-----------------------------------------------------------------------------
(* Properties *)

Segment == {Syn} \cup [kind : {"FIN", "RST"}, seq : Nat]
               \cup [kind : {"DATA"}, seq : Nat, len : 1 .. 2, reply : Reply]

(* The types of the variables.                                             *)
TypeOK ==
    /\ conns \in [Slot -> Conn]
    /\ calls \in Call
    /\ lastport \in 1 .. EndPort - 1
    /\ lport \in [Call -> 0 .. EndPort - 1]
    /\ snd \in [Call -> Nat]
    /\ rcv \in [Call -> Nat]
    /\ out \in [Call -> SUBSET Segment]
    /\ closings \in [Call -> Nat]
    /\ handled \in [Call -> Seq(Nat)]
    /\ peer \in [Call -> Peer]
    /\ got \in [Call -> Seq(Nat)]

Active(s) == conns[s].state # "CLOSED"

(* At no time is every entry of the table closed, not even when a segment  *)
(* of an earlier connection ends one while the table is full and the       *)
(* application's call fails: then nothing would ever call it again.        *)
AlwaysTrying == \E s \in Slot : Active(s)

(* No two connections share a local port, also when uip_connect has come   *)
(* round to ports it gave out before: every segment finds one connection.  *)
OnePortPerSlot ==
    \A s, t \in Slot :
        Active(s) /\ Active(t) /\ lport[conns[s].call] = lport[conns[t].call] => s = t

(* A port rests before it is used again, so that what the network still    *)
(* has of one connection is gone when the next takes its port: from one to *)
(* the next it takes a call for every other port, but for those that other *)
(* connections of the table hold.                                          *)
PortsRest ==
    \A p, q \in 1 .. calls :
        p < q /\ lport[p] = lport[q] /\ lport[p] > 0 =>
            q - p >= EndPort - WrapPort - (Conns - 1)

(* The two ends agree on the data: what the board believes acknowledged    *)
(* has arrived, and what has arrived is at most what is outstanding.       *)
SequenceAgreement ==
    \A s \in Slot :
        LET p == conns[s].call IN
        conns[s].state \in {"ESTABLISHED", "LAST_ACK"} =>
            snd[p] <= peer[p].rcv /\ peer[p].rcv <= snd[p] + conns[s].len

Ascending(q) == \A i, j \in 1 .. Len(q) : i < j => q[i] < q[j]

(* The application handles the manager's messages in the order in which    *)
(* they were written and none twice, however often and in whatever order   *)
(* their segments arrive.                                                  *)
HandledInOrder ==
    \A p \in Call : Ascending(handled[p]) /\ \A i \in 1 .. Len(handled[p]) :
                                               handled[p][i] <= Len(peer[p].stream)

(* The answers the manager gets are to different messages, in the order of *)
(* the questions.                                                          *)
AnswersInOrder == \A p \in Call : Ascending(got[p])

(* A connection is being made or is in use.                                *)
Connecting == \E s \in Slot : conns[s].state \in {"SYN_SENT", "ESTABLISHED"}

(* A call of uip_connect that failed because the table was full of         *)
(* connections in their last acknowledgment is made up for: the end of     *)
(* one of them makes another call (unless the bound on calls is reached).  *)
ConnectsAgain == ~Connecting ~> (Connecting \/ ~MayConnect)

(* A connection that is opening or closing comes to an end of that: its    *)
(* table entry does not stay taken (unless the bound on calls is reached). *)
EntriesAreFreed ==
    \A s \in Slot, p \in Call :
        (conns[s].call = p /\ conns[s].state \in {"SYN_SENT", "LAST_ACK"})
            ~> (~(conns[s].call = p /\ conns[s].state \in {"SYN_SENT", "LAST_ACK"})
                \/ ~MayConnect)

(* uip.h: data that was sent before is acknowledged, "this means that the  *)
(* application can send new data"; until then it may not.                  *)
NewDataWhenAcked ==
    [][\A p \in Call : \A old \in out[p], new \in out'[p] \ out[p] :
          old.kind = "DATA" /\ new.kind = "DATA" => old.seq + old.len <= new.seq]_vars

(* uip.c, when a connection has timed out: "We also send a reset packet to *)
(* the remote host."  Of an established connection the host then knows.    *)
TimedOutIsReset ==
    [][\A s \in Slot :
          TimeOut(s) /\ conns[s].state = "ESTABLISHED" =>
              \E seg \in out'[conns[s].call] : seg.kind = "RST"]_vars

(* uip.h: UIP_CLOSE and UIP_ABORT tell the application that the connection *)
(* has gone away; a connection goes away once.                             *)
ToldOnce == \A p \in Call : closings[p] <= 1
=============================================================================
