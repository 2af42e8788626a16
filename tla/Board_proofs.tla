----------------------------- MODULE Board_proofs -----------------------------
(* Proofs about the board's connections, for every size of the table, every *)
(* number of retransmissions and every bound.                               *)
EXTENDS Board, FiniteSetTheorems, WellFoundedInduction, TLAPS

(* Every connection in the table is one that uip_connect made, and nothing *)
(* has been handled on a connection before it is established.              *)
CallsMade ==
    /\ \A s \in Slot : Active(s) => conns[s].call \in 1 .. calls
    /\ \A s \in Slot : conns[s].state = "SYN_SENT" => handled[conns[s].call] = <<>>
    /\ \A p \in Call : p > calls => handled[p] = <<>>

(* What was handled lies before the next unit expected.                    *)
HandledIsBehind ==
    \A p \in Call : \A i \in 1 .. Len(handled[p]) : handled[p][i] < rcv[p]

IInv ==
    /\ TypeOK
    /\ OnePortPerSlot
    /\ AlwaysTrying
    /\ HandledInOrder
    /\ CallsMade
    /\ HandledIsBehind

-----------------------------------------------------------------------------
(* Less-than on the naturals, as a well-founded relation.                  *)
LEMMA LessIsWellFounded ==
    \E R : IsWellFoundedOn(R, Nat) /\ \A a, b \in Nat : a < b => <<a, b>> \in R
<1>1. \A a, b \in Nat : a < b => <<a, b>> \in OpToRel(<, Nat)
  BY DEF OpToRel
<1> WITNESS OpToRel(<, Nat)
<1> QED
  BY <1>1, NatLessThanWellFounded

(* A set of naturals that is not empty has a least element.                *)
LEMMA LeastElement ==
    ASSUME NEW S, S \subseteq Nat, S # {}
    PROVE  \E x \in S : \A y \in S : x <= y
<1>1. PICK R : IsWellFoundedOn(R, Nat) /\ \A a, b \in Nat : a < b => <<a, b>> \in R
  BY LessIsWellFounded
<1>2. PICK x \in S : \A y \in S : ~(<<y, x>> \in R)
  BY <1>1, WFMin
<1>3. ASSUME NEW y \in S PROVE x <= y
  <2>1. x \in Nat /\ y \in Nat
    OBVIOUS
  <2>2. y < x => <<y, x>> \in R
    BY <1>1, <2>1
  <2>3. ~(y < x)
    BY <1>2, <2>2
  <2> QED
    BY <2>1, <2>3
<1> QED
  BY <1>3

(* uip_connect takes a free entry whenever there is one.                   *)
LEMMA FirstFreeIsFree ==
    ASSUME NEW cs, Free(cs) # {}
    PROVE  FirstFree(cs) \in Free(cs)
<1>1. Free(cs) \subseteq Nat
  BY ConnsAssumption DEF Free, Slot
<1>2. \E x \in Free(cs) : \A y \in Free(cs) : x <= y
  BY <1>1, LeastElement
<1> QED
  BY <1>2 DEF FirstFree

PortsTyped == lastport \in 1 .. EndPort - 1 /\ lport \in [Call -> 0 .. EndPort - 1]

(* Within Conns + 1 steps the search meets no port twice, also where it    *)
(* goes from the last port back to the first of the range.                 *)
LEMMA CandidatesDiffer ==
    ASSUME lastport \in 1 .. EndPort - 1,
           NEW k \in 1 .. Conns + 1
    PROVE  /\ Candidate(k) \in 1 .. EndPort - 1
           /\ \A j \in 1 .. Conns + 1 : Candidate(j) = Candidate(k) => j = k
BY ConnsAssumption, PortAssumption DEF Candidate

(* The search of uip_connect ends: the table has fewer entries than the    *)
(* search has different ports.                                             *)
LEMMA SearchEnds ==
    ASSUME NEW cs, lastport \in 1 .. EndPort - 1
    PROVE  Unused(cs) # {}
<1> SUFFICES ASSUME Unused(cs) = {}
             PROVE  FALSE
  OBVIOUS
<1> DEFINE Steps  == 1 .. Conns + 1
           holder == [k \in Steps |->
                         CHOOSE s \in Slot : /\ cs[s].state # "CLOSED"
                                             /\ lport[cs[s].call] = Candidate(k)]
<1>1. ASSUME NEW k \in Steps
      PROVE  holder[k] \in Slot /\ lport[cs[holder[k]].call] = Candidate(k)
  <2>1. \E s \in Slot : cs[s].state # "CLOSED" /\ lport[cs[s].call] = Candidate(k)
    BY DEF Unused, InUse
  <2> QED
    BY <2>1
<1> HIDE DEF holder
<1>2. holder = [k \in Steps |-> holder[k]]
  BY DEF holder
<1>3. holder \in [Steps -> Slot]
  BY <1>1, <1>2
<1>4. /\ IsFiniteSet(Steps) /\ Cardinality(Steps) = Conns + 1
      /\ IsFiniteSet(Slot) /\ Cardinality(Slot) = Conns
  <2>1. Conns \in Int /\ Conns + 1 \in Int /\ 1 \in Int /\ ~(1 > Conns) /\ ~(1 > Conns + 1)
    BY ConnsAssumption
  <2>2. IsFiniteSet(Steps) /\ Cardinality(Steps) = Conns + 1 - 1 + 1
    BY <2>1, FS_Interval
  <2>3. IsFiniteSet(Slot) /\ Cardinality(Slot) = Conns - 1 + 1
    BY <2>1, FS_Interval DEF Slot
  <2> QED
    BY <2>1, <2>2, <2>3
<1>5. Cardinality(Slot) < Cardinality(Steps)
  BY <1>4, ConnsAssumption
<1> HIDE DEF Steps
<1>6. PICK j, k \in Steps : j # k /\ holder[j] = holder[k]
  BY <1>3, <1>4, <1>5, FS_PigeonHole
<1>7. Candidate(j) = Candidate(k)
  BY <1>1, <1>6
<1> QED
  BY <1>6, <1>7, CandidatesDiffer DEF Steps

(* So uip_connect finds a port that no connection of the table has.        *)
LEMMA NextPortIsUnused ==
    ASSUME NEW cs, lastport \in 1 .. EndPort - 1
    PROVE  NextPort(cs) \in 1 .. EndPort - 1 /\ ~InUse(cs, NextPort(cs))
<1>1. Unused(cs) \subseteq Nat /\ Unused(cs) # {}
  BY SearchEnds, ConnsAssumption DEF Unused
<1>2. \E k \in Unused(cs) : \A j \in Unused(cs) : k <= j
  BY <1>1, LeastElement
<1>3. PICK k \in Unused(cs) : NextPort(cs) = Candidate(k)
  BY <1>2 DEF NextPort
<1> QED
  BY <1>3, CandidatesDiffer DEF Unused

(* What the application's reaction to an end may do to the table.          *)
Reopened(cs, new) ==
    /\ new \in [Slot -> Conn]
    /\ \A s \in Slot : new[s] = cs[s] \/ new[s] = Fresh(calls + 1)
    /\ \A s, t \in Slot : new[s] # cs[s] /\ new[t] # cs[t] => s = t
    /\ \A s \in Slot : cs[s].state # "CLOSED" => new[s] = cs[s]
    /\ \A s \in Slot : new[s] # cs[s] => Free(cs) # {}
    /\ \E s \in Slot : new[s].state # "CLOSED"

LEMMA CallsAreBounded == calls \in Call /\ MayConnect => calls + 1 \in Call
<1> SUFFICES ASSUME calls \in Call, NEW l \in Loads, calls < l.calls
             PROVE  calls + 1 \in Call
  BY DEF MayConnect
<1>1. l.calls \in 1 .. MaxCalls
  BY BoundsAssumption
<1> QED
  BY <1>1, BoundsAssumption DEF Call

LEMMA OpenedReopens ==
    ASSUME NEW cs \in [Slot -> Conn], calls + 1 \in Call
    PROVE  Reopened(cs, Opened(cs))
<1>1. Fresh(calls + 1) \in Conn /\ Fresh(calls + 1).state = "SYN_SENT"
  BY BoundsAssumption DEF Fresh, Conn, State, Call
<1>2. CASE Free(cs) = {}
  <2>1. 1 \in Slot
    BY ConnsAssumption DEF Slot
  <2> QED
    BY <1>2, <2>1 DEF Opened, Reopened, Free
<1>3. CASE Free(cs) # {}
  <2>1. FirstFree(cs) \in Slot /\ cs[FirstFree(cs)].state = "CLOSED"
    BY <1>3, FirstFreeIsFree DEF Free
  <2>2. Opened(cs) = [cs EXCEPT ![FirstFree(cs)] = Fresh(calls + 1)]
    BY <1>3 DEF Opened
  <2> QED
    BY <1>1, <1>3, <2>1, <2>2 DEF Reopened
<1> QED
  BY <1>2, <1>3

(* What a call of uip_connect for the connections of cs leaves: the port   *)
(* of the new connection, if there is an entry for it, is nobody else's.   *)
LEMMA ToldFinds ==
    ASSUME IInv, NEW cs, NEW p \in Call, Told(cs, p)
    PROVE  /\ calls + 1 \in Call /\ calls' = calls + 1 /\ calls' \in Call /\ PortsTyped'
           /\ closings' \in [Call -> Nat]
           /\ \A q \in Call : q # calls + 1 => lport'[q] = lport[q]
           /\ \A t \in Slot : cs[t].state # "CLOSED" /\ Free(cs) # {} =>
                 lport[cs[t].call] # lport'[calls + 1]
<1>1. /\ calls \in Call /\ PortsTyped /\ lastport \in 1 .. EndPort - 1
      /\ closings \in [Call -> Nat]
  BY DEF IInv, TypeOK, PortsTyped
<1>2. calls + 1 \in Call /\ calls' = calls + 1
  BY <1>1, CallsAreBounded DEF Told
<1>3. lastport' = NextPort(cs) /\ lastport' \in 1 .. EndPort - 1 /\ ~InUse(cs, lastport')
  BY <1>1, NextPortIsUnused DEF Told
<1> DEFINE port == IF Free(cs) = {} THEN 0 ELSE lastport'
<1>4. lport' = [lport EXCEPT ![calls + 1] = port]
  BY DEF Told
<1>5. port \in 0 .. EndPort - 1 /\ 0 \in 0 .. EndPort - 1
  BY <1>3, PortAssumption
<1>6. closings' = [closings EXCEPT ![p] = closings[p] + 1]
  BY DEF Told
<1>7. closings' \in [Call -> Nat]
  BY <1>1, <1>6
<1>8. ASSUME NEW t \in Slot, cs[t].state # "CLOSED", Free(cs) # {}
      PROVE  lport[cs[t].call] # lport'[calls + 1]
  <2>1. lport'[calls + 1] = lastport'
    BY <1>1, <1>2, <1>4, <1>8 DEF PortsTyped
  <2> QED
    BY <1>3, <1>8, <2>1 DEF InUse
<1> HIDE DEF port
<1>9. PortsTyped' /\ \A q \in Call : q # calls + 1 => lport'[q] = lport[q]
  BY <1>1, <1>3, <1>4, <1>5 DEF PortsTyped
<1> QED
  BY <1>2, <1>7, <1>8, <1>9

(* After that call the connections of the table still have ports of their  *)
(* own, when the table is cs but for entries closed and one opened.        *)
LEMMA ApartAfterCall ==
    ASSUME IInv, NEW cs, NEW p \in Call, Told(cs, p), UNCHANGED handled,
           \A t \in Slot : cs[t].state # "CLOSED" =>
               /\ Active(t) /\ cs[t].call = conns[t].call
               /\ cs[t].state = "SYN_SENT" => conns[t].state = "SYN_SENT",
           \A t \in Slot : Active(t)' => \/ conns'[t] = cs[t]
                                         \/ conns'[t] = Fresh(calls + 1) /\ Free(cs) # {},
           \A t, u \in Slot :
               conns'[t] = Fresh(calls + 1) /\ conns'[u] = Fresh(calls + 1) => t = u
    PROVE  OnePortPerSlot' /\ CallsMade'
<1>1. /\ calls + 1 \in Call /\ calls' = calls + 1
      /\ \A q \in Call : q # calls + 1 => lport'[q] = lport[q]
      /\ \A t \in Slot : cs[t].state # "CLOSED" /\ Free(cs) # {} =>
            lport[cs[t].call] # lport'[calls + 1]
  BY ToldFinds
<1>2. calls \in Nat /\ 1 .. calls \subseteq Call /\ calls + 1 \notin 1 .. calls
  BY BoundsAssumption DEF IInv, TypeOK, Call
<1>3. /\ Fresh(calls + 1).call = calls + 1
      /\ Fresh(calls + 1).state = "SYN_SENT"
  BY DEF Fresh
<1>4. ASSUME NEW t \in Slot, Active(t)', conns'[t] = cs[t]
      PROVE  /\ Active(t) /\ cs[t].state # "CLOSED" /\ conns'[t].call = conns[t].call
             /\ conns[t].call \in 1 .. calls /\ conns[t].call \in Call
             /\ lport'[conns'[t].call] = lport[conns[t].call]
  BY <1>1, <1>2, <1>4 DEF Active, IInv, CallsMade
<1>5. OnePortPerSlot'
  <2> SUFFICES ASSUME NEW t \in Slot, NEW u \in Slot, Active(t)', Active(u)',
                      lport'[conns'[t].call] = lport'[conns'[u].call]
               PROVE  t = u
    BY DEF OnePortPerSlot
  <2>1. CASE conns'[t] = cs[t] /\ conns'[u] = cs[u]
    BY <1>4, <2>1 DEF IInv, OnePortPerSlot
  <2>2. CASE conns'[t] = Fresh(calls + 1) /\ conns'[u] = Fresh(calls + 1)
    BY <2>2
  <2>3. CASE conns'[t] = Fresh(calls + 1) /\ conns'[u] = cs[u] /\ Free(cs) # {}
    BY <1>1, <1>3, <1>4, <2>3
  <2>4. CASE conns'[t] = cs[t] /\ conns'[u] = Fresh(calls + 1) /\ Free(cs) # {}
    BY <1>1, <1>3, <1>4, <2>4
  <2> QED
    BY <2>1, <2>2, <2>3, <2>4
<1>6. ASSUME NEW t \in Slot, Active(t)'
      PROVE  conns'[t].call \in 1 .. calls'
  <2>1. CASE conns'[t] = cs[t]
    BY <1>1, <1>2, <1>4, <1>6, <2>1
  <2>2. CASE conns'[t] = Fresh(calls + 1)
    BY <1>1, <1>2, <1>3, <2>2
  <2> QED
    BY <1>6, <2>1, <2>2
<1>7. ASSUME NEW t \in Slot, conns'[t].state = "SYN_SENT"
      PROVE  handled'[conns'[t].call] = <<>>
  <2>1. Active(t)'
    BY <1>7 DEF Active
  <2>2. CASE conns'[t] = cs[t]
    BY <1>4, <1>7, <2>1, <2>2 DEF IInv, CallsMade
  <2>3. CASE conns'[t] = Fresh(calls + 1)
    BY <1>1, <1>2, <1>3, <2>3 DEF IInv, CallsMade
  <2> QED
    BY <2>1, <2>2, <2>3
<1>8. \A q \in Call : q > calls' => handled'[q] = <<>>
  BY <1>1, <1>2 DEF IInv, CallsMade, Call
<1>9. CallsMade'
  BY <1>6, <1>7, <1>8 DEF CallsMade
<1> QED
  BY <1>5, <1>9

(* An end of the connection of entry s, which the entry leaves or closes:  *)
(* the ports stay apart and somebody goes on trying.                       *)
LEMMA ClosedKeeps ==
    ASSUME IInv, NEW s \in Slot, Active(s), NEW last \in Conn,
           last.state \in {"CLOSED", "LAST_ACK"}, last.call = conns[s].call,
           Closed([conns EXCEPT ![s] = last], conns[s].call), UNCHANGED handled
    PROVE  /\ Reopened([conns EXCEPT ![s] = last], conns')
           /\ conns' \in [Slot -> Conn] /\ calls' \in Call /\ PortsTyped'
           /\ closings' \in [Call -> Nat]
           /\ OnePortPerSlot' /\ AlwaysTrying' /\ CallsMade'
<1> DEFINE cs == [conns EXCEPT ![s] = last]
<1>1. conns \in [Slot -> Conn] /\ calls \in Call /\ conns[s].call \in 1 .. calls
  BY DEF IInv, TypeOK, CallsMade
<1>2. conns[s].call \in Call
  BY <1>1, BoundsAssumption DEF Call
<1>3. /\ cs \in [Slot -> Conn]
      /\ \A t \in Slot : cs[t].state # "CLOSED" =>
            /\ Active(t) /\ cs[t].call = conns[t].call
            /\ cs[t].state = "SYN_SENT" => conns[t].state = "SYN_SENT"
  BY <1>1 DEF Active
<1> HIDE DEF cs
<1>4. Told(cs, conns[s].call) /\ conns' = Opened(cs)
  BY DEF Closed, cs
<1>5. /\ calls + 1 \in Call /\ calls' = calls + 1 /\ calls' \in Call /\ PortsTyped'
      /\ closings' \in [Call -> Nat]
  BY <1>2, <1>4, ToldFinds
<1>6. Reopened(cs, conns')
  BY <1>3, <1>4, <1>5, OpenedReopens
<1>7. \A t \in Slot : cs[t] # Fresh(calls + 1)
  <2> SUFFICES ASSUME NEW t \in Slot, cs[t] = Fresh(calls + 1)
               PROVE  FALSE
    OBVIOUS
  <2>1. Active(t) /\ conns[t].call = calls + 1
    BY <1>3 DEF Fresh
  <2> QED
    BY <1>1, <2>1 DEF IInv, CallsMade, Call
<1>8. ASSUME NEW t \in Slot
      PROVE  \/ conns'[t] = cs[t]
             \/ conns'[t] = Fresh(calls + 1) /\ Free(cs) # {}
  BY <1>6 DEF Reopened
<1>9. ASSUME NEW t \in Slot, NEW u \in Slot,
             conns'[t] = Fresh(calls + 1), conns'[u] = Fresh(calls + 1)
      PROVE  t = u
  <2>1. conns'[t] # cs[t] /\ conns'[u] # cs[u]
    BY <1>7, <1>9
  <2> QED
    BY <1>6, <2>1 DEF Reopened
<1>10. OnePortPerSlot' /\ CallsMade'
  BY <1>2, <1>3, <1>4, <1>8, <1>9, ApartAfterCall
<1>11. AlwaysTrying'
  BY <1>6 DEF Reopened, AlwaysTrying, Active
<1> QED
  BY <1>5, <1>6, <1>10, <1>11 DEF cs, Reopened

(* While nothing is handled, later units and longer streams keep the order *)
LEMMA HandledKeeps ==
    ASSUME IInv, UNCHANGED handled,
           \A p \in Call : rcv'[p] \in Nat /\ rcv[p] <= rcv'[p],
           \A p \in Call : /\ Len(peer'[p].stream) \in Nat
                            /\ Len(peer[p].stream) <= Len(peer'[p].stream)
    PROVE  HandledInOrder' /\ HandledIsBehind'
<1>1. \A p \in Call : /\ rcv[p] \in Nat /\ handled[p] \in Seq(Nat)
                       /\ Len(peer[p].stream) \in Nat
  BY DEF IInv, TypeOK, Peer
<1>2. \A p \in Call, i \in Nat : i \in 1 .. Len(handled[p]) => handled[p][i] \in Nat
  BY <1>1
<1>3. HandledInOrder'
  <2> SUFFICES ASSUME NEW p \in Call
               PROVE  /\ Ascending(handled[p])
                      /\ \A i \in 1 .. Len(handled[p]) : handled[p][i] <= Len(peer'[p].stream)
    BY Zenon DEF HandledInOrder, Ascending
  <2>1. /\ Ascending(handled[p])
        /\ \A i \in 1 .. Len(handled[p]) : handled[p][i] <= Len(peer[p].stream)
    BY DEF IInv, HandledInOrder
  <2>2. ASSUME NEW i \in 1 .. Len(handled[p])
        PROVE  handled[p][i] <= Len(peer'[p].stream)
    <3>1. handled[p][i] \in Nat /\ handled[p][i] <= Len(peer[p].stream)
      BY <1>1, <1>2, <2>1
    <3>2. /\ Len(peer[p].stream) \in Nat /\ Len(peer'[p].stream) \in Nat
          /\ Len(peer[p].stream) <= Len(peer'[p].stream)
      BY <1>1
    <3>3. \A a, b, c \in Nat : a <= b /\ b <= c => a <= c
      OBVIOUS
    <3> QED
      BY <3>1, <3>2, <3>3
  <2> QED
    BY <2>1, <2>2
<1>4. HandledIsBehind'
  <2> SUFFICES ASSUME NEW p \in Call, NEW i \in 1 .. Len(handled[p])
               PROVE  handled[p][i] < rcv'[p]
    BY Zenon DEF HandledIsBehind
  <2>1. handled[p][i] \in Nat
    BY <1>2
  <2>2. handled[p][i] < rcv[p]
    BY DEF IInv, HandledIsBehind
  <2>3. rcv[p] \in Nat /\ rcv'[p] \in Nat /\ rcv[p] <= rcv'[p]
    BY <1>1 DEF IInv, TypeOK
  <2>4. \A a, b, c \in Nat : a < b /\ b <= c => a < c
    OBVIOUS
  <2> QED
    BY <2>1, <2>2, <2>3, <2>4
<1> QED
  BY <1>3, <1>4

(* A segment covers messages the manager has written.                      *)
LEMMA SegmentType ==
    ASSUME TypeOK, NEW p \in Call, NEW seg \in Segments(p)
    PROVE  /\ seg.seq \in Nat /\ seg.n \in Nat /\ seg.fin \in BOOLEAN
           /\ seg.n > 0 => seg.seq \in 1 .. Len(peer[p].stream)
<1>1. peer[p] \in Peer /\ Len(peer[p].stream) \in Nat /\ peer[p].rcv \in Nat
  BY DEF TypeOK, Peer
<1>2. /\ seg \in [seq : 1 .. Len(peer[p].stream) + 1, n : 0 .. Len(peer[p].stream),
                   fin : BOOLEAN, ack : 1 .. peer[p].rcv]
      /\ seg.seq + seg.n <= Len(peer[p].stream) + 1
  BY DEF Segments
<1> QED
  BY <1>1, <1>2

(* The streams are the same when no end of the manager's has moved.        *)
LEMMA SameStreams ==
    ASSUME IInv, UNCHANGED peer
    PROVE  \A p \in Call : /\ Len(peer'[p].stream) \in Nat
                            /\ Len(peer[p].stream) <= Len(peer'[p].stream)
BY DEF IInv, TypeOK, Peer

(* A step that neither receives nor handles anything keeps what was handled *)
LEMMA NothingHeard ==
    ASSUME IInv, UNCHANGED <<rcv, handled, peer>>
    PROVE  HandledInOrder' /\ HandledIsBehind'
<1>1. HandledInOrder /\ HandledIsBehind
  BY DEF IInv
<1> QED
  BY <1>1 DEF HandledInOrder, HandledIsBehind, Ascending

(* Changing an entry that keeps its call and does not start a connection.  *)
LEMMA EntryKeeps ==
    ASSUME IInv, NEW s \in Slot, NEW new \in Conn,
           new.call = conns[s].call, Active(s), new.state # "CLOSED",
           new.state = "SYN_SENT" => conns[s].state = "SYN_SENT",
           conns' = [conns EXCEPT ![s] = new], UNCHANGED <<calls, lastport, lport>>,
           \A p \in Call :
              handled'[p] # handled[p] => p = conns[s].call /\ new.state # "SYN_SENT"
    PROVE  OnePortPerSlot' /\ AlwaysTrying' /\ CallsMade'
<1>1. conns \in [Slot -> Conn] /\ calls \in Call
  BY DEF IInv, TypeOK
<1>2. /\ conns'[s] = new
      /\ \A t \in Slot : t # s => conns'[t] = conns[t]
      /\ \A t \in Slot : Active(t)' <=> Active(t)
      /\ \A t \in Slot : conns'[t].call = conns[t].call
  BY <1>1 DEF Active
<1>3. OnePortPerSlot' /\ AlwaysTrying'
  BY <1>2 DEF IInv, OnePortPerSlot, AlwaysTrying
<1>4. conns[s].call \in 1 .. calls
  BY DEF IInv, CallsMade
<1>5. ASSUME NEW t \in Slot, conns'[t].state = "SYN_SENT"
      PROVE  handled'[conns'[t].call] = <<>>
  <2>1. conns[t].state = "SYN_SENT" /\ Active(t)
    BY <1>2, <1>5 DEF Active
  <2>2. conns[t].call \in Call /\ handled[conns[t].call] = <<>>
    BY <1>1, <2>1, BoundsAssumption DEF IInv, CallsMade, Call
  <2>3. conns[t].call = conns[s].call => t = s
    BY <2>1 DEF IInv, OnePortPerSlot
  <2> QED
    BY <1>2, <1>5, <2>2, <2>3
<1>6. \A p \in Call : p > calls => handled'[p] = <<>>
  BY <1>1, <1>4 DEF IInv, CallsMade, Call
<1>7. CallsMade'
  BY <1>2, <1>5, <1>6 DEF IInv, CallsMade
<1> QED
  BY <1>3, <1>7

LEMMA ActiveCall ==
    ASSUME IInv, NEW s \in Slot, Active(s)
    PROVE  conns[s] \in Conn /\ conns[s].call \in Call
BY BoundsAssumption DEF IInv, TypeOK, CallsMade, Call

LEMMA TransmitType ==
    ASSUME TypeOK, NEW p \in Call, NEW seg \in Segment, Transmit(p, seg)
    PROVE  out' \in [Call -> SUBSET Segment]
BY DEF TypeOK, Transmit

-----------------------------------------------------------------------------
(* The timer. *)

LEMMA RetransmitKeeps ==
    ASSUME IInv, NEW s \in Slot, Retransmit(s)
    PROVE  IInv'
<1>1. Active(s) /\ UNCHANGED <<calls, lastport, lport, snd, rcv, closings, handled, far>>
  BY DEF Retransmit, Active
<1>2. conns[s] \in Conn /\ conns[s].call \in Call
  BY <1>1, ActiveCall
<1> DEFINE new == [conns[s] EXCEPT !.nrtx = @ + 1]
<1>3. new \in Conn /\ new.call = conns[s].call /\ new.state = conns[s].state
  BY <1>2 DEF Conn
<1>4. conns' = [conns EXCEPT ![s] = new]
  BY DEF Retransmit
<1>5. out' \in [Call -> SUBSET Segment]
  <2>1. Syn \in Segment /\ Fin(snd[conns[s].call]) \in Segment
    BY <1>2 DEF IInv, TypeOK, Segment, Syn, Fin
  <2>2. \/ Transmit(conns[s].call, Syn)
        \/ Transmit(conns[s].call, Fin(snd[conns[s].call]))
        \/ UNCHANGED out
    BY DEF Retransmit
  <2>3. CASE UNCHANGED out
    BY <2>3 DEF IInv, TypeOK
  <2> QED
    BY <1>2, <2>1, <2>2, <2>3, TransmitType DEF IInv
<1> HIDE DEF new
<1>6. OnePortPerSlot' /\ AlwaysTrying' /\ CallsMade'
  <2>1. /\ new.state # "CLOSED"
        /\ new.state = "SYN_SENT" => conns[s].state = "SYN_SENT"
        /\ UNCHANGED <<calls, lastport, lport>>
        /\ \A p \in Call :
              handled'[p] # handled[p] => p = conns[s].call /\ new.state # "SYN_SENT"
    BY <1>1, <1>3 DEF Active
  <2> QED
    BY <1>1, <1>3, <1>4, <2>1, EntryKeeps
<1>7. HandledInOrder' /\ HandledIsBehind'
  BY <1>1, NothingHeard DEF far
<1>8. TypeOK'
  BY <1>1, <1>3, <1>4, <1>5 DEF IInv, TypeOK, far
<1> QED
  BY <1>6, <1>7, <1>8 DEF IInv

LEMMA TimeOutKeeps ==
    ASSUME IInv, NEW s \in Slot, TimeOut(s)
    PROVE  IInv'
<1>1. Active(s) /\ UNCHANGED <<snd, rcv, handled, far>>
  BY DEF TimeOut, Active
<1>2. conns[s] \in Conn /\ conns[s].call \in Call
  BY <1>1, ActiveCall
<1> DEFINE last == [conns[s] EXCEPT !.state = "CLOSED"]
<1>3. last \in Conn /\ last.call = conns[s].call /\ last.state = "CLOSED"
  BY <1>2 DEF Conn, State
<1>4. Closed([conns EXCEPT ![s] = last], conns[s].call)
  BY DEF TimeOut
<1> HIDE DEF last
<1>5. /\ Reopened([conns EXCEPT ![s] = last], conns')
      /\ conns' \in [Slot -> Conn] /\ calls' \in Call /\ PortsTyped'
      /\ closings' \in [Call -> Nat]
      /\ OnePortPerSlot' /\ AlwaysTrying' /\ CallsMade'
  BY <1>1, <1>3, <1>4, ClosedKeeps
<1>6. out' \in [Call -> SUBSET Segment]
  <2>1. conns'[s] = last \/ conns'[s] = Fresh(calls + 1)
    BY <1>5 DEF Reopened, IInv, TypeOK
  <2>2. Fresh(calls + 1).call \in Call
    BY <1>4, CallsAreBounded DEF Fresh, Closed, Told, IInv, TypeOK
  <2>3. conns'[s].call \in Call
    BY <1>2, <1>3, <2>1, <2>2
  <2>4. Rst(snd[conns'[s].call]) \in Segment
    BY <2>3 DEF IInv, TypeOK, Segment, Rst
  <2> QED
    BY <2>3, <2>4, TransmitType DEF IInv, TimeOut
<1>7. HandledInOrder' /\ HandledIsBehind'
  BY <1>1, NothingHeard DEF far
<1>8. TypeOK'
  BY <1>1, <1>5, <1>6 DEF IInv, TypeOK, PortsTyped, far
<1> QED
  BY <1>5, <1>7, <1>8 DEF IInv

-----------------------------------------------------------------------------
(* Input that leaves the application out or only tells it of the end.      *)

LEMMA RecvRstKeeps ==
    ASSUME IInv, NEW s \in Slot, NEW p \in Call, RecvRst(s, p)
    PROVE  IInv'
<1>1. Active(s) /\ UNCHANGED <<snd, rcv, out, handled, far>>
  BY DEF RecvRst, Found, Active
<1>2. conns[s] \in Conn
  BY <1>1, ActiveCall
<1> DEFINE last == [conns[s] EXCEPT !.state = "CLOSED"]
<1>3. last \in Conn /\ last.call = conns[s].call /\ last.state = "CLOSED"
  BY <1>2 DEF Conn, State
<1>4. Closed([conns EXCEPT ![s] = last], conns[s].call)
  BY <1>1 DEF RecvRst
<1> HIDE DEF last
<1>5. /\ conns' \in [Slot -> Conn] /\ calls' \in Call /\ PortsTyped'
      /\ closings' \in [Call -> Nat]
      /\ OnePortPerSlot' /\ AlwaysTrying' /\ CallsMade'
  BY <1>1, <1>3, <1>4, ClosedKeeps
<1>6. HandledInOrder' /\ HandledIsBehind'
  BY <1>1, NothingHeard DEF far
<1>7. TypeOK'
  BY <1>1, <1>5 DEF IInv, TypeOK, PortsTyped, far
<1> QED
  BY <1>5, <1>6, <1>7 DEF IInv

(* A segment of an earlier connection ends the one that waits for its      *)
(* SYN-ACK, after the application was told: what that opened, or with a    *)
(* full table another entry, is left.                                      *)
LEMMA RecvStaleKeeps ==
    ASSUME IInv, NEW s \in Slot, NEW p \in Call, RecvStale(s, p)
    PROVE  IInv'
<1>1. /\ Active(s) /\ UNCHANGED <<snd, rcv, handled, far>>
      /\ Told(conns, conns[s].call)
      /\ conns' = [Opened(conns) EXCEPT ![s].state = "CLOSED"]
  BY DEF RecvStale, Found, Active
<1>2. conns \in [Slot -> Conn] /\ calls \in Call /\ conns[s].call \in Call
  BY <1>1, ActiveCall DEF IInv, TypeOK
<1>3. /\ calls + 1 \in Call /\ calls' = calls + 1 /\ calls' \in Call /\ PortsTyped'
      /\ closings' \in [Call -> Nat]
  BY <1>1, <1>2, ToldFinds
<1>4. Reopened(conns, Opened(conns))
  BY <1>2, <1>3, OpenedReopens
<1>5. conns' \in [Slot -> Conn] /\ conns'[s].state = "CLOSED"
  <2>1. Opened(conns) \in [Slot -> Conn]
    BY <1>4 DEF Reopened
  <2>2. [Opened(conns)[s] EXCEPT !.state = "CLOSED"] \in Conn
    BY <2>1 DEF Conn, State
  <2>3. conns' = [Opened(conns) EXCEPT ![s] = [Opened(conns)[s] EXCEPT !.state = "CLOSED"]]
    BY <1>1
  <2> QED
    BY <2>1, <2>2, <2>3 DEF Conn
<1>6. \A t \in Slot : t # s => conns'[t] = Opened(conns)[t]
  BY <1>1, <1>4 DEF Reopened
<1>7. \A t \in Slot : Active(t)' => t # s
  BY <1>5 DEF Active
<1>8. \A t \in Slot : conns[t] # Fresh(calls + 1) /\ conns'[s] # Fresh(calls + 1)
  <2> SUFFICES ASSUME NEW t \in Slot, conns[t] = Fresh(calls + 1)
               PROVE  FALSE
    BY <1>5 DEF Fresh
  <2>1. Active(t) /\ conns[t].call = calls + 1
    BY DEF Fresh, Active
  <2> QED
    BY <1>2, <2>1 DEF IInv, CallsMade, Call
<1>9. /\ \A t \in Slot : Active(t)' => \/ conns'[t] = conns[t]
                                       \/ conns'[t] = Fresh(calls + 1) /\ Free(conns) # {}
      /\ \A t, u \in Slot :
            conns'[t] = Fresh(calls + 1) /\ conns'[u] = Fresh(calls + 1) => t = u
  BY <1>4, <1>6, <1>7, <1>8 DEF Reopened
<1>10. OnePortPerSlot' /\ CallsMade'
  BY <1>1, <1>2, <1>9, ApartAfterCall DEF Active
<1>11. AlwaysTrying'
  <2>1. CASE Free(conns) = {}
    <3>1. PICK t \in Slot : t # s
      BY ConnsAssumption DEF Slot
    <3>2. conns[t].state # "CLOSED"
      BY <2>1 DEF Free
    <3>3. conns'[t] = conns[t]
      BY <1>4, <1>6, <2>1, <3>1 DEF Reopened
    <3> QED
      BY <3>2, <3>3 DEF AlwaysTrying, Active
  <2>2. CASE Free(conns) # {}
    <3>1. FirstFree(conns) \in Slot /\ conns[FirstFree(conns)].state = "CLOSED"
      BY <2>2, FirstFreeIsFree DEF Free
    <3>2. FirstFree(conns) # s
      BY <1>1, <3>1 DEF Active
    <3>3. Opened(conns)[FirstFree(conns)] = Fresh(calls + 1)
      BY <1>2, <2>2, <3>1 DEF Opened
    <3> QED
      BY <1>6, <3>1, <3>2, <3>3 DEF AlwaysTrying, Active, Fresh
  <2> QED
    BY <2>1, <2>2
<1>12. HandledInOrder' /\ HandledIsBehind'
  BY <1>1, NothingHeard DEF far
<1>13. out' \in [Call -> SUBSET Segment]
  <2>1. Rst(peer[p].rcv) \in Segment
    BY DEF IInv, TypeOK, Peer, Segment, Rst
  <2> QED
    BY <2>1, TransmitType DEF IInv, RecvStale
<1>14. TypeOK'
  BY <1>1, <1>3, <1>5, <1>13 DEF IInv, TypeOK, PortsTyped, far
<1> QED
  BY <1>10, <1>11, <1>12, <1>14 DEF IInv

LEMMA RecvSynAckKeeps ==
    ASSUME IInv, NEW s \in Slot, NEW p \in Call, RecvSynAck(s, p)
    PROVE  IInv'
<1>1. /\ Active(s) /\ p = conns[s].call /\ conns[s].state = "SYN_SENT"
      /\ UNCHANGED <<calls, lastport, lport, out, closings, handled, far>>
  BY DEF RecvSynAck, Own, Found, Active
<1>2. conns[s] \in Conn
  BY <1>1, ActiveCall
<1> DEFINE new == [conns[s] EXCEPT !.state = "ESTABLISHED", !.len = 0, !.nrtx = 0]
<1>3. new \in Conn /\ new.call = conns[s].call /\ new.state = "ESTABLISHED"
  <2>1. "ESTABLISHED" \in State /\ 0 \in 0 .. 2 /\ 1 \in 0 .. 2 /\ 0 \in Nat
    BY DEF State
  <2>2. new \in Conn
    BY <1>2, <2>1 DEF Conn
  <2>3. new.call = conns[s].call /\ new.state = "ESTABLISHED"
    BY <1>2 DEF Conn
  <2> QED
    BY <2>2, <2>3
<1>4. conns' = [conns EXCEPT ![s] = new]
  BY DEF RecvSynAck
<1> HIDE DEF new
<1>5. OnePortPerSlot' /\ AlwaysTrying' /\ CallsMade'
  <2>1. /\ new.state # "CLOSED"
        /\ new.state = "SYN_SENT" => conns[s].state = "SYN_SENT"
        /\ UNCHANGED <<calls, lastport, lport>>
        /\ \A q \in Call :
              handled'[q] # handled[q] => q = conns[s].call /\ new.state # "SYN_SENT"
    BY <1>1, <1>3
  <2> QED
    BY <1>1, <1>3, <1>4, <2>1, EntryKeeps
<1>6. TypeOK'
  <2>1. /\ snd' = [snd EXCEPT ![p] = 1] /\ rcv' = [rcv EXCEPT ![p] = 1]
        /\ UNCHANGED <<calls, lastport, lport, out, closings, handled, peer, got>>
    BY <1>1 DEF RecvSynAck, far
  <2>2. conns' \in [Slot -> Conn]
    BY <1>3, <1>4 DEF IInv, TypeOK
  <2> QED
    BY <2>1, <2>2 DEF IInv, TypeOK
<1>7. handled[p] = <<>> /\ Len(handled[p]) = 0
  BY <1>1 DEF IInv, CallsMade
<1>8. HandledInOrder'
  BY <1>1 DEF IInv, HandledInOrder, far
<1>9. HandledIsBehind'
  <2>1. \A q \in Call : q # p => rcv'[q] = rcv[q]
    BY DEF RecvSynAck, IInv, TypeOK
  <2> QED
    BY <1>1, <1>7, <2>1 DEF IInv, HandledIsBehind
<1> QED
  BY <1>5, <1>6, <1>8, <1>9 DEF IInv

LEMMA RecvFinKeeps ==
    ASSUME IInv, NEW s \in Slot, NEW p \in Call, NEW seg \in Segments(p),
           RecvFin(s, p, seg)
    PROVE  IInv'
<1>1. Active(s) /\ p = conns[s].call /\ UNCHANGED <<handled, far>>
  BY DEF RecvFin, Own, Found, Active
<1>2. conns[s] \in Conn
  BY <1>1, ActiveCall
<1>3. seg.n \in Nat
  BY SegmentType DEF IInv
<1> DEFINE last == [conns[s] EXCEPT !.state = "LAST_ACK", !.len = 1, !.nrtx = 0]
<1>4. last \in Conn /\ last.call = conns[s].call /\ last.state = "LAST_ACK"
  <2>1. "LAST_ACK" \in State /\ 0 \in 0 .. 2 /\ 1 \in 0 .. 2 /\ 0 \in Nat
    BY DEF State
  <2>2. last \in Conn
    BY <1>2, <2>1 DEF Conn
  <2>3. last.call = conns[s].call /\ last.state = "LAST_ACK"
    BY <1>2 DEF Conn
  <2> QED
    BY <2>2, <2>3
<1>5. Closed([conns EXCEPT ![s] = last], conns[s].call)
  BY <1>1 DEF RecvFin
<1> HIDE DEF last
<1>6. /\ conns' \in [Slot -> Conn] /\ calls' \in Call /\ PortsTyped'
      /\ closings' \in [Call -> Nat]
      /\ OnePortPerSlot' /\ AlwaysTrying' /\ CallsMade'
  BY <1>1, <1>4, <1>5, ClosedKeeps
<1>7. /\ rcv' \in [Call -> Nat]
      /\ \A q \in Call : rcv'[q] \in Nat /\ rcv[q] <= rcv'[q]
  <2>1. rcv \in [Call -> Nat]
    BY DEF IInv, TypeOK
  <2>2. rcv' = [rcv EXCEPT ![p] = rcv[p] + 1 + seg.n]
    BY DEF RecvFin
  <2>3. rcv[p] \in Nat /\ rcv[p] + 1 + seg.n \in Nat /\ rcv[p] <= rcv[p] + 1 + seg.n
    BY <1>3, <2>1
  <2> QED
    BY <2>1, <2>2, <2>3
<1>8. snd' \in [Call -> Nat] /\ out' \in [Call -> SUBSET Segment]
  <2>1. snd[p] + conns[s].len \in Nat
    BY <1>2 DEF IInv, TypeOK, Conn
  <2>2. Fin(snd[p] + conns[s].len) \in Segment
    BY <2>1 DEF Segment, Fin
  <2> QED
    BY <2>1, <2>2, TransmitType DEF IInv, TypeOK, RecvFin
<1>9. HandledInOrder' /\ HandledIsBehind'
  BY <1>1, <1>7, HandledKeeps, SameStreams DEF far
<1>10. TypeOK'
  BY <1>1, <1>6, <1>7, <1>8 DEF IInv, TypeOK, PortsTyped, far
<1> QED
  BY <1>6, <1>9, <1>10 DEF IInv

LEMMA RecvLastAckKeeps ==
    ASSUME IInv, NEW s \in Slot, NEW p \in Call, NEW seg \in Segments(p),
           RecvLastAck(s, p, seg)
    PROVE  IInv'
<1>1. Active(s) /\ p = conns[s].call /\ UNCHANGED <<rcv, out, handled, far>>
  BY DEF RecvLastAck, Own, Found, Active
<1>2. conns[s] \in Conn
  BY <1>1, ActiveCall
<1> DEFINE last == [conns[s] EXCEPT !.state = "CLOSED", !.len = 0]
<1>3. last \in Conn /\ last.call = conns[s].call /\ last.state = "CLOSED"
  <2>1. "CLOSED" \in State /\ 0 \in 0 .. 2 /\ 1 \in 0 .. 2 /\ 0 \in Nat
    BY DEF State
  <2>2. last \in Conn
    BY <1>2, <2>1 DEF Conn
  <2>3. last.call = conns[s].call /\ last.state = "CLOSED"
    BY <1>2 DEF Conn
  <2> QED
    BY <2>2, <2>3
<1>4. Closed([conns EXCEPT ![s] = last], conns[s].call)
  BY <1>1 DEF RecvLastAck
<1> HIDE DEF last
<1>5. /\ conns' \in [Slot -> Conn] /\ calls' \in Call /\ PortsTyped'
      /\ closings' \in [Call -> Nat]
      /\ OnePortPerSlot' /\ AlwaysTrying' /\ CallsMade'
  BY <1>1, <1>3, <1>4, ClosedKeeps
<1>6. HandledInOrder' /\ HandledIsBehind'
  BY <1>1, NothingHeard DEF far
<1>7. snd' \in [Call -> Nat]
  BY DEF RecvLastAck, IInv, TypeOK
<1>8. TypeOK'
  BY <1>1, <1>5, <1>7 DEF IInv, TypeOK, PortsTyped, far
<1> QED
  BY <1>5, <1>6, <1>8 DEF IInv

-----------------------------------------------------------------------------
(* Data: a message is handled when it is the next one, so it comes after   *)
(* all that were handled before.                                           *)

LEMMA AppendKeeps ==
    ASSUME NEW q \in Seq(Nat), NEW n \in Nat, Ascending(q),
           \A i \in 1 .. Len(q) : q[i] < n
    PROVE  Ascending(Append(q, n))
<1> SUFFICES ASSUME NEW i \in 1 .. Len(Append(q, n)), NEW j \in 1 .. Len(Append(q, n)), i < j
             PROVE  Append(q, n)[i] < Append(q, n)[j]
  BY DEF Ascending
<1>1. Len(q) \in Nat /\ Len(Append(q, n)) = Len(q) + 1
  OBVIOUS
<1>2. i \in 1 .. Len(q) /\ Append(q, n)[i] = q[i]
  BY <1>1
<1>3. CASE j \in 1 .. Len(q)
  BY <1>2, <1>3 DEF Ascending
<1>4. CASE j = Len(q) + 1
  BY <1>2, <1>4
<1> QED
  BY <1>1, <1>3, <1>4

LEMMA AnswerType ==
    ASSUME IInv, NEW s \in Slot, NEW p \in Call, NEW seg \in Segments(p),
           RecvData(s, p, seg)
    PROVE  /\ snd' \in [Call -> Nat]
           /\ \E n \in 0 .. 2 : conns' = [conns EXCEPT ![s].len = n, ![s].nrtx = 0]
           /\ out' \in [Call -> SUBSET Segment]
<1>1. Active(s) /\ p = conns[s].call
  BY DEF RecvData, Own, Found, Active
<1>2. conns[s] \in Conn /\ conns[s].len \in 0 .. 2
  BY <1>1, ActiveCall DEF Conn
<1>3. seg.seq \in Nat
  BY SegmentType DEF IInv
<1> DEFINE left == IF Acks(s, seg) THEN 0 ELSE conns[s].len
           base == snd[p] + (conns[s].len - left)
<1>4. left \in 0 .. 2 /\ (Acks(s, seg) => left = 0) /\ base \in Nat
  BY <1>2 DEF IInv, TypeOK
<1>5. snd' = [snd EXCEPT ![p] = base]
  BY DEF RecvData
<1>6. \/ UNCHANGED out /\ conns' = [conns EXCEPT ![s].len = left, ![s].nrtx = 0]
      \/ \E r \in Reaction(p, seg) :
            LET n == Allowed(left, Acks(s, seg), r) IN
            /\ conns' = [conns EXCEPT ![s].len = n, ![s].nrtx = 0]
            /\ Transmit(p, Data(base, n, r))
  BY DEF RecvData
<1>7. \A r \in Reaction(p, seg) : r \in Reply /\ r.size \in 1 .. 2
  BY <1>3 DEF Reaction, Reply
<1> HIDE DEF left, base
<1>8. ASSUME NEW r \in Reaction(p, seg)
      PROVE  /\ Allowed(left, Acks(s, seg), r) \in 1 .. 2
             /\ Data(base, Allowed(left, Acks(s, seg), r), r) \in Segment
  <2>1. Allowed(left, Acks(s, seg), r) \in 1 .. 2
    BY <1>4, <1>7 DEF Allowed
  <2> QED
    BY <1>4, <1>7, <2>1 DEF Segment, Data
<1>9. snd' \in [Call -> Nat]
  BY <1>4, <1>5 DEF IInv, TypeOK
<1>10. CASE UNCHANGED out /\ conns' = [conns EXCEPT ![s].len = left, ![s].nrtx = 0]
  BY <1>4, <1>9, <1>10 DEF IInv, TypeOK
<1>11. ASSUME NEW r \in Reaction(p, seg),
              conns' = [conns EXCEPT ![s].len = Allowed(left, Acks(s, seg), r), ![s].nrtx = 0],
              Transmit(p, Data(base, Allowed(left, Acks(s, seg), r), r))
       PROVE  /\ \E n \in 0 .. 2 : conns' = [conns EXCEPT ![s].len = n, ![s].nrtx = 0]
              /\ out' \in [Call -> SUBSET Segment]
  <2>1. Allowed(left, Acks(s, seg), r) \in 0 .. 2
    BY <1>8
  <2>2. out' \in [Call -> SUBSET Segment]
    BY <1>8, <1>11, TransmitType DEF IInv
  <2> QED
    BY <1>11, <2>1, <2>2
<1> QED
  BY <1>6, <1>9, <1>10, <1>11

LEMMA RecvDataKeeps ==
    ASSUME IInv, NEW s \in Slot, NEW p \in Call, NEW seg \in Segments(p),
           RecvData(s, p, seg)
    PROVE  IInv'
<1>1. /\ Active(s) /\ p = conns[s].call /\ conns[s].state = "ESTABLISHED"
      /\ UNCHANGED <<calls, lastport, lport, closings, far>>
      /\ Expected(seg, p)
      /\ rcv' = [rcv EXCEPT ![p] = @ + seg.n]
      /\ handled' = IF seg.n > 0
                    THEN [handled EXCEPT ![p] = Append(@, seg.seq)] ELSE handled
  BY DEF RecvData, Own, Found, Active
<1>2. conns[s] \in Conn
  BY <1>1, ActiveCall
<1>3. /\ seg.seq \in Nat /\ seg.n \in Nat
      /\ seg.n > 0 => seg.seq \in 1 .. Len(peer[p].stream) /\ seg.seq = rcv[p]
  BY <1>1, SegmentType DEF IInv, Expected
<1>4. PICK n \in 0 .. 2 : conns' = [conns EXCEPT ![s].len = n, ![s].nrtx = 0]
  BY AnswerType
<1> DEFINE new == [conns[s] EXCEPT !.len = n, !.nrtx = 0]
<1>5. new \in Conn /\ new.call = conns[s].call /\ new.state = "ESTABLISHED"
  <2>1. new \in Conn
    BY <1>2 DEF Conn
  <2>2. new.call = conns[s].call /\ new.state = "ESTABLISHED"
    BY <1>1, <1>2 DEF Conn
  <2> QED
    BY <2>1, <2>2
<1>6. conns' = [conns EXCEPT ![s] = new]
  BY <1>4
<1> HIDE DEF new
<1>7. \A q \in Call : handled'[q] # handled[q] => q = p
  BY <1>1 DEF IInv, TypeOK
<1>8. OnePortPerSlot' /\ AlwaysTrying' /\ CallsMade'
  <2>1. /\ new.state # "CLOSED"
        /\ new.state = "SYN_SENT" => conns[s].state = "SYN_SENT"
        /\ UNCHANGED <<calls, lastport, lport>>
        /\ \A q \in Call :
              handled'[q] # handled[q] => q = conns[s].call /\ new.state # "SYN_SENT"
    BY <1>1, <1>5, <1>7
  <2> QED
    BY <1>1, <1>5, <1>6, <2>1, EntryKeeps
<1>9. /\ rcv' \in [Call -> Nat]
      /\ \A q \in Call : rcv'[q] \in Nat /\ rcv[q] <= rcv'[q]
  <2>1. rcv \in [Call -> Nat] /\ rcv[p] + seg.n \in Nat /\ rcv[p] <= rcv[p] + seg.n
    BY <1>3 DEF IInv, TypeOK
  <2>2. rcv' = [rcv EXCEPT ![p] = rcv[p] + seg.n]
    BY <1>1
  <2>3. \A q \in Call : rcv'[q] = IF q = p THEN rcv[p] + seg.n ELSE rcv[q]
    BY <2>1, <2>2
  <2> QED
    BY <2>1, <2>2, <2>3
<1>10. CASE ~(seg.n > 0)
  <2>1. HandledInOrder' /\ HandledIsBehind'
    BY <1>1, <1>9, <1>10, HandledKeeps, SameStreams DEF far
  <2>2. TypeOK'
    BY <1>1, <1>5, <1>6, <1>9, <1>10, AnswerType DEF IInv, TypeOK, far
  <2> QED
    BY <1>8, <2>1, <2>2 DEF IInv
<1>11. CASE seg.n > 0
  <2>1. /\ handled[p] \in Seq(Nat) /\ rcv[p] \in Nat /\ Ascending(handled[p])
        /\ \A i \in 1 .. Len(handled[p]) : handled[p][i] < rcv[p]
        /\ \A i \in 1 .. Len(handled[p]) : handled[p][i] <= Len(peer[p].stream)
    BY DEF IInv, TypeOK, HandledInOrder, HandledIsBehind
  <2>2. handled' = [handled EXCEPT ![p] = Append(@, rcv[p])]
    BY <1>1, <1>3, <1>11
  <2>3. handled' \in [Call -> Seq(Nat)] /\ handled'[p] = Append(handled[p], rcv[p])
    BY <2>1, <2>2 DEF IInv, TypeOK
  <2>4. Ascending(handled'[p])
    BY <2>1, <2>3, AppendKeeps
  <2>5. /\ Len(handled'[p]) = Len(handled[p]) + 1
        /\ handled'[p][Len(handled[p]) + 1] = rcv[p]
        /\ \A i \in 1 .. Len(handled[p]) : handled'[p][i] = handled[p][i]
    BY <2>1, <2>3
  <2>6. rcv[p] <= Len(peer[p].stream) /\ rcv'[p] = rcv[p] + seg.n
    BY <1>1, <1>3, <1>11 DEF IInv, TypeOK
  <2>7. ASSUME NEW i \in 1 .. Len(handled'[p])
        PROVE  handled'[p][i] <= Len(peer[p].stream) /\ handled'[p][i] < rcv'[p]
    <3>1. handled[p][i] \in Nat \/ i = Len(handled[p]) + 1
      BY <2>1, <2>5
    <3>2. CASE i = Len(handled[p]) + 1
      BY <1>3, <1>11, <2>1, <2>5, <2>6, <3>2
    <3>3. CASE i \in 1 .. Len(handled[p])
      BY <1>3, <1>11, <2>1, <2>5, <2>6, <3>1, <3>3
    <3> QED
      BY <2>1, <2>5, <3>2, <3>3
  <2>8. HandledInOrder'
    BY <1>1, <1>7, <2>4, <2>7 DEF IInv, HandledInOrder, far
  <2>9. HandledIsBehind'
    <3>1. \A q \in Call : q # p => handled'[q] = handled[q] /\ rcv'[q] = rcv[q]
      BY <1>1, <1>7 DEF IInv, TypeOK
    <3> QED
      BY <2>7, <3>1 DEF IInv, HandledIsBehind
  <2>10. TypeOK'
    BY <1>1, <1>5, <1>6, <1>9, <2>3, AnswerType DEF IInv, TypeOK, far
  <2> QED
    BY <1>8, <2>8, <2>9, <2>10 DEF IInv
<1> QED
  BY <1>10, <1>11

LEMMA RecvStrayKeeps ==
    ASSUME IInv, NEW p \in Call, RecvStray(p)
    PROVE  IInv'
<1>1. UNCHANGED <<conns, calls, lastport, lport, snd, rcv, closings, handled, far>>
  BY DEF RecvStray
<1>2. Rst(peer[p].rcv) \in Segment
  BY DEF IInv, TypeOK, Peer, Segment, Rst
<1>3. out' \in [Call -> SUBSET Segment]
  BY <1>2, TransmitType DEF IInv, RecvStray
<1>4. TypeOK'
  BY <1>1, <1>3 DEF IInv, TypeOK, far
<1>5. OnePortPerSlot' /\ AlwaysTrying' /\ CallsMade'
  BY <1>1 DEF IInv, OnePortPerSlot, AlwaysTrying, CallsMade, Active
<1>6. HandledInOrder' /\ HandledIsBehind'
  BY <1>1 DEF IInv, HandledInOrder, HandledIsBehind, far
<1> QED
  BY <1>4, <1>5, <1>6 DEF IInv

-----------------------------------------------------------------------------
(* The manager's end moves on its own.                                     *)

(* The manager's end of p becomes q: no message is taken back.             *)
LEMMA PeerBecomes ==
    ASSUME IInv, NEW p \in Call, NEW q \in Peer, peer' = [peer EXCEPT ![p] = q],
           Len(peer[p].stream) <= Len(q.stream)
    PROVE  /\ peer' \in [Call -> Peer]
           /\ \A r \in Call : /\ Len(peer'[r].stream) \in Nat
                              /\ Len(peer[r].stream) <= Len(peer'[r].stream)
<1>1. peer \in [Call -> Peer] /\ \A r \in Peer : Len(r.stream) \in Nat
  <2>1. peer \in [Call -> Peer]
    BY DEF IInv, TypeOK
  <2>2. ASSUME NEW r \in Peer PROVE Len(r.stream) \in Nat
    <3>1. r.stream \in Seq(Message)
      BY DEF Peer
    <3> QED
      BY <3>1
  <2> QED
    BY <2>1, <2>2
<1>2. \A r \in Call : peer'[r] = IF r = p THEN q ELSE peer[r]
  BY <1>1
<1> QED
  BY <1>1, <1>2

PeerGrows ==
    /\ UNCHANGED <<uip, handled>>
    /\ got' \in [Call -> Seq(Nat)]
    /\ peer' \in [Call -> Peer]
    /\ \A r \in Call : /\ Len(peer'[r].stream) \in Nat
                       /\ Len(peer[r].stream) <= Len(peer'[r].stream)

(* A step that keeps the stream and does not receive an answer.            *)
LEMMA PeerTurns ==
    ASSUME IInv, NEW p \in Call, NEW q \in Peer, peer' = [peer EXCEPT ![p] = q],
           q.stream = peer[p].stream, UNCHANGED <<uip, handled, got>>
    PROVE  PeerGrows
<1>1. Len(peer[p].stream) \in Nat /\ got \in [Call -> Seq(Nat)]
  <2>1. peer[p] \in Peer /\ got \in [Call -> Seq(Nat)]
    BY DEF IInv, TypeOK
  <2>2. peer[p].stream \in Seq(Message)
    BY <2>1 DEF Peer
  <2> QED
    BY <2>1, <2>2
<1>2. Len(peer[p].stream) <= Len(q.stream)
  BY <1>1
<1> QED
  BY <1>1, <1>2, PeerBecomes DEF PeerGrows

LEMMA PeerMoves ==
    ASSUME IInv, NEW p \in Call, Manager(p)
    PROVE  PeerGrows
<1>1. /\ peer \in [Call -> Peer] /\ peer[p] \in Peer /\ Len(peer[p].stream) \in Nat
      /\ peer[p].rcv \in Nat /\ peer[p].rcv + 1 \in Nat /\ 1 \in Nat
      /\ peer[p].stream \in Seq(Message)
  <2>1. peer \in [Call -> Peer] /\ peer[p] \in Peer
    BY DEF IInv, TypeOK
  <2>2. peer[p].stream \in Seq(Message) /\ peer[p].rcv \in Nat
    BY <2>1 DEF Peer
  <2> QED
    BY <2>1, <2>2
<1>2. CASE PeerSyn(p)
  <2>1. CASE peer' = [peer EXCEPT ![p].state = "syn_rcvd", ![p].rcv = 1]
    <3> DEFINE q == [peer[p] EXCEPT !.state = "syn_rcvd", !.rcv = 1]
    <3>1. q \in Peer
      BY <1>1 DEF Peer
    <3>2. q.stream = peer[p].stream
      BY <1>1 DEF Peer
    <3>3. peer' = [peer EXCEPT ![p] = q] /\ UNCHANGED <<uip, handled, got>>
      BY <2>1, <1>2 DEF PeerSyn
    <3> HIDE DEF q
    <3> QED
      BY <3>1, <3>2, <3>3, PeerTurns
  <2>2. CASE peer' = [peer EXCEPT ![p].state = "dead", ![p].rst = TRUE]
    <3> DEFINE q == [peer[p] EXCEPT !.state = "dead", !.rst = TRUE]
    <3>1. q \in Peer
      BY <1>1 DEF Peer
    <3>2. q.stream = peer[p].stream
      BY <1>1 DEF Peer
    <3>3. peer' = [peer EXCEPT ![p] = q] /\ UNCHANGED <<uip, handled, got>>
      BY <2>2, <1>2 DEF PeerSyn
    <3> HIDE DEF q
    <3> QED
      BY <3>1, <3>2, <3>3, PeerTurns
  <2> QED
    BY <1>2, <2>1, <2>2 DEF PeerSyn
<1>3. CASE PeerEstablish(p)
  <2> DEFINE q == [peer[p] EXCEPT !.state = "open"]
  <2>1. q \in Peer
    BY <1>1 DEF Peer
  <2>2. q.stream = peer[p].stream
    BY <1>1 DEF Peer
  <2>3. peer' = [peer EXCEPT ![p] = q] /\ UNCHANGED <<uip, handled, got>>
    BY <1>3 DEF PeerEstablish
  <2> HIDE DEF q
  <2> QED
    BY <2>1, <2>2, <2>3, PeerTurns
<1>4. CASE PeerWrite(p)
  <2>1. PICK cmd \in Command :
          peer' = [peer EXCEPT ![p].stream = Append(@, [cmd |-> cmd, ack |-> peer[p].rcv])]
    BY <1>4 DEF PeerWrite
  <2> DEFINE more == Append(peer[p].stream, [cmd |-> cmd, ack |-> peer[p].rcv])
             q    == [peer[p] EXCEPT !.stream = more]
  <2>2. [cmd |-> cmd, ack |-> peer[p].rcv] \in Message
    BY <1>1 DEF Message
  <2>3. more \in Seq(Message) /\ Len(peer[p].stream) <= Len(more)
    BY <1>1, <2>2
  <2>4. peer' = [peer EXCEPT ![p] = q]
    BY <2>1
  <2> HIDE DEF more
  <2>5. q \in Peer
    BY <1>1, <2>3 DEF Peer
  <2>6. q.stream = more
    BY <1>1 DEF Peer
  <2>7. UNCHANGED <<uip, handled, got>> /\ got \in [Call -> Seq(Nat)]
    BY <1>4 DEF PeerWrite, IInv, TypeOK
  <2> HIDE DEF q
  <2>8. Len(peer[p].stream) <= Len(q.stream)
    BY <2>3, <2>6
  <2> QED
    BY <2>4, <2>5, <2>7, <2>8, PeerBecomes DEF PeerGrows
<1>5. CASE PeerRead(p)
  <2>1. PICK seg \in out[p] :
          /\ seg.kind = "DATA"
          /\ peer' = [peer EXCEPT ![p].rcv = @ + seg.len]
          /\ got' = [got EXCEPT ![p] = Append(@, seg.reply.to)]
    BY <1>5 DEF PeerRead
  <2>2. seg.len \in Nat /\ seg.reply.to \in Nat
    <3>1. seg \in Segment
      BY DEF IInv, TypeOK
    <3>2. seg # Syn
      BY <2>1 DEF Syn
    <3>3. seg \notin [kind : {"FIN", "RST"}, seq : Nat]
      BY <2>1
    <3>4. seg \in [kind : {"DATA"}, seq : Nat, len : 1 .. 2, reply : Reply]
      BY <3>1, <3>2, <3>3 DEF Segment
    <3> QED
      BY <3>4 DEF Reply
  <2> DEFINE q == [peer[p] EXCEPT !.rcv = @ + seg.len]
  <2>3. peer[p].rcv + seg.len \in Nat
    BY <1>1, <2>2
  <2>4. q \in Peer
    BY <1>1, <2>3 DEF Peer
  <2>5. q.stream = peer[p].stream
    BY <1>1 DEF Peer
  <2>6. peer' = [peer EXCEPT ![p] = q] /\ UNCHANGED <<uip, handled>>
    BY <1>5, <2>1 DEF PeerRead
  <2>7. got' \in [Call -> Seq(Nat)]
    BY <2>1, <2>2 DEF IInv, TypeOK
  <2> HIDE DEF q
  <2>8. Len(peer[p].stream) <= Len(q.stream)
    BY <1>1, <2>5
  <2> QED
    BY <2>4, <2>6, <2>7, <2>8, PeerBecomes DEF PeerGrows
<1>6. CASE PeerClose(p)
  <2> DEFINE q == [peer[p] EXCEPT !.fin = peer[p].rcv]
  <2>1. q \in Peer
    BY <1>1 DEF Peer
  <2>2. q.stream = peer[p].stream
    BY <1>1 DEF Peer
  <2>3. peer' = [peer EXCEPT ![p] = q] /\ UNCHANGED <<uip, handled, got>>
    BY <1>6 DEF PeerClose
  <2> HIDE DEF q
  <2> QED
    BY <2>1, <2>2, <2>3, PeerTurns
<1>7. CASE PeerFin(p)
  <2> DEFINE q == [peer[p] EXCEPT !.state = "dead", !.rcv = @ + 1]
  <2>1. q \in Peer
    BY <1>1 DEF Peer
  <2>2. q.stream = peer[p].stream
    BY <1>1 DEF Peer
  <2>3. peer' = [peer EXCEPT ![p] = q] /\ UNCHANGED <<uip, handled, got>>
    BY <1>7 DEF PeerFin
  <2> HIDE DEF q
  <2> QED
    BY <2>1, <2>2, <2>3, PeerTurns
<1>8. CASE PeerReset(p)
  <2>1. CASE peer' = [peer EXCEPT ![p].state = "dead", ![p].rst = TRUE]
    <3> DEFINE q == [peer[p] EXCEPT !.state = "dead", !.rst = TRUE]
    <3>1. q \in Peer
      BY <1>1 DEF Peer
    <3>2. q.stream = peer[p].stream
      BY <1>1 DEF Peer
    <3>3. peer' = [peer EXCEPT ![p] = q] /\ UNCHANGED <<uip, handled, got>>
      BY <2>1, <1>8 DEF PeerReset
    <3> HIDE DEF q
    <3> QED
      BY <3>1, <3>2, <3>3, PeerTurns
  <2>2. CASE peer' = [peer EXCEPT ![p].state = "dead"]
    <3> DEFINE q == [peer[p] EXCEPT !.state = "dead"]
    <3>1. q \in Peer
      BY <1>1 DEF Peer
    <3>2. q.stream = peer[p].stream
      BY <1>1 DEF Peer
    <3>3. peer' = [peer EXCEPT ![p] = q] /\ UNCHANGED <<uip, handled, got>>
      BY <2>2, <1>8 DEF PeerReset
    <3> HIDE DEF q
    <3> QED
      BY <3>1, <3>2, <3>3, PeerTurns
  <2> QED
    BY <1>8, <2>1, <2>2 DEF PeerReset
<1> QED
  BY <1>2, <1>3, <1>4, <1>5, <1>6, <1>7, <1>8 DEF Manager

LEMMA ManagerKeeps ==
    ASSUME IInv, NEW p \in Call, Manager(p)
    PROVE  IInv'
<1>1. /\ UNCHANGED <<uip, handled>> /\ got' \in [Call -> Seq(Nat)]
      /\ peer' \in [Call -> Peer]
      /\ \A r \in Call : /\ Len(peer'[r].stream) \in Nat
                         /\ Len(peer[r].stream) <= Len(peer'[r].stream)
  BY PeerMoves DEF PeerGrows
<1>2. \A r \in Call : rcv'[r] \in Nat /\ rcv[r] <= rcv'[r]
  BY <1>1 DEF uip, IInv, TypeOK
<1>3. HandledInOrder' /\ HandledIsBehind'
  BY <1>1, <1>2, HandledKeeps
<1>4. TypeOK'
  BY <1>1 DEF IInv, TypeOK, uip
<1>5. OnePortPerSlot' /\ AlwaysTrying' /\ CallsMade'
  BY <1>1 DEF IInv, OnePortPerSlot, AlwaysTrying, CallsMade, Active, uip
<1> QED
  BY <1>3, <1>4, <1>5 DEF IInv

-----------------------------------------------------------------------------
LEMMA InitEstablishes == Init => IInv
<1> SUFFICES ASSUME Init
             PROVE  IInv
  OBVIOUS
<1>1. /\ Fresh(1) \in Conn
      /\ [state |-> "CLOSED", call |-> 0, len |-> 0, nrtx |-> 0] \in Conn
      /\ NoPeer \in Peer /\ 1 \in Call /\ 1 \in Slot /\ {} \in SUBSET Segment
      /\ <<>> \in Seq(Nat)
  BY BoundsAssumption, ConnsAssumption
     DEF Fresh, Conn, State, NoPeer, Peer, Call, Slot
<1>2. TypeOK
  <2>1. FirstPort \in 1 .. EndPort - 1 /\ FirstPort \in 0 .. EndPort - 1
        /\ 0 \in 0 .. EndPort - 1
    BY PortAssumption
  <2> QED
    BY <1>1, <2>1 DEF Init, TypeOK
<1>3. /\ \A s \in Slot : Active(s) => s = 1
      /\ \A s \in Slot : Active(s) => conns[s].call = 1
      /\ Active(1)
  BY <1>1 DEF Init, Active, Fresh
<1>4. OnePortPerSlot /\ AlwaysTrying
  BY <1>1, <1>3 DEF OnePortPerSlot, AlwaysTrying
<1>5. \A p \in Call : handled[p] = <<>> /\ Len(handled[p]) = 0
  BY DEF Init
<1>6. \A s \in Slot : conns[s].state = "SYN_SENT" => conns[s].call = 1
  BY <1>3 DEF Active
<1>7. CallsMade
  BY <1>1, <1>3, <1>5, <1>6 DEF Init, CallsMade
<1>8. HandledInOrder /\ HandledIsBehind
  BY <1>5 DEF HandledInOrder, HandledIsBehind, Ascending
<1> QED
  BY <1>2, <1>4, <1>7, <1>8 DEF IInv

LEMMA NextKeeps == IInv /\ [Next]_vars => IInv'
<1> SUFFICES ASSUME IInv, [Next]_vars
             PROVE  IInv'
  OBVIOUS
<1>1. CASE UNCHANGED vars
  BY <1>1 DEF vars, uip, far, IInv, TypeOK, OnePortPerSlot, AlwaysTrying, HandledInOrder,
              CallsMade, HandledIsBehind, Active
<1>2. ASSUME NEW s \in Slot, Periodic(s) PROVE IInv'
  BY <1>2, RetransmitKeeps, TimeOutKeeps DEF Periodic
<1>3. ASSUME NEW s \in Slot, Input(s) PROVE IInv'
  BY <1>3, RecvRstKeeps, RecvStaleKeeps, RecvSynAckKeeps, RecvDataKeeps, RecvFinKeeps,
     RecvLastAckKeeps DEF Input
<1>4. ASSUME NEW p \in Call, Manager(p) \/ RecvStray(p) PROVE IInv'
  BY <1>4, ManagerKeeps, RecvStrayKeeps
<1> QED
  BY <1>1, <1>2, <1>3, <1>4 DEF Next

THEOREM Invariance == Spec => []IInv
<1>1. Init => IInv
  BY InitEstablishes
<1>2. IInv /\ [Next]_vars => IInv'
  BY NextKeeps
<1> QED
  BY <1>1, <1>2, PTL DEF Spec

(* Whatever the manager and the network do, the variables of the board     *)
(* keep their types; so no reply ever exceeds what uip_conn.len admits.    *)
THEOREM TypeCorrect == Spec => []TypeOK
<1>1. IInv => TypeOK
  BY DEF IInv
<1> QED
  BY <1>1, Invariance, PTL

(* With two entries or more the table never becomes empty: not when        *)
(* client_uip_closed finds it full, and not when uIP closes an entry after *)
(* the application was told, so that its call cannot take that one.        *)
THEOREM NeverGivesUp == Spec => []AlwaysTrying
<1>1. IInv => AlwaysTrying
  BY DEF IInv
<1> QED
  BY <1>1, Invariance, PTL

(* The search of uip_connect keeps the local ports of the connections      *)
(* apart, also after it has come round to ports it gave out before.        *)
THEOREM PortsAreApart == Spec => []OnePortPerSlot
<1>1. IInv => OnePortPerSlot
  BY DEF IInv
<1> QED
  BY <1>1, Invariance, PTL

(* For any loss, repetition and reordering, the messages of the manager    *)
(* are handled in order and at most once.                                  *)
THEOREM HandlesInOrder == Spec => []HandledInOrder
<1>1. IInv => HandledInOrder
  BY DEF IInv
<1> QED
  BY <1>1, Invariance, PTL

-----------------------------------------------------------------------------
(* The two ends.  A connection in the table and the manager's end of it    *)
(* are held together by what the board has sent.                           *)

(* A segment that was sent when first was (at least) its number, everything *)
(* up to end is taken, and the board expects unit heard of the manager.    *)
Covered(g, first, end, heard) ==
    /\ g.kind = "DATA" => /\ 1 <= g.seq /\ g.seq <= first
                          /\ g.seq + g.len <= end
                          /\ g.reply.to < heard
    /\ g.kind = "FIN" => 1 <= g.seq /\ g.seq + 1 <= end

(* The table entry c and the manager's end q of the same connection.       *)
Agree(c, first, heard, sent, q) ==
    /\ c.state = "SYN_SENT" => first = 0 /\ c.len = 1
    /\ c.state # "SYN_SENT" => 1 <= first
    /\ first <= q.rcv /\ q.rcv <= first + c.len
    /\ \A g \in sent : Covered(g, first, first + c.len, heard)

EndsAgree ==
    \A s \in Slot :
        Active(s) => LET p == conns[s].call IN
                     Agree(conns[s], snd[p], rcv[p], out[p], peer[p])

(* Later data answers later messages.                                      *)
Ordered(sent) ==
    \A a, b \in sent :
        a.kind = "DATA" /\ b.kind = "DATA" /\ a.seq < b.seq => a.reply.to < b.reply.to

(* Whatever the manager's end q has read came from data it is now past.    *)
Past(sent, q, answers) ==
    \A i \in 1 .. Len(answers) :
        \E g \in sent : g.kind = "DATA" /\ g.reply.to = answers[i] /\ g.seq < q.rcv

AnswersRead ==
    \A p \in Call : /\ peer[p].state = "none" => peer[p].rcv = 0
                    /\ Ordered(out[p])
                    /\ Past(out[p], peer[p], got[p])
                    /\ Ascending(got[p])

(* Nothing is known of a connection before uip_connect makes it.           *)
Untouched == \A p \in Call : p > calls => snd[p] = 0 /\ out[p] = {} /\ peer[p] = NoPeer

AInv == IInv /\ EndsAgree /\ AnswersRead /\ Untouched

(* What is sent or received on the connection of entry s, and resets sent  *)
(* on any, concern no other; the entry itself, if it stays, has to agree   *)
(* again, and one more connection may have been opened.                    *)
LEMMA OthersAgree ==
    ASSUME AInv, NEW s \in Slot, Active(s),
           \A q \in Call \ {conns[s].call} :
               /\ snd'[q] = snd[q] /\ rcv'[q] = rcv[q] /\ peer'[q] = peer[q]
               /\ \A g \in out'[q] : g \in out[q] \/ g.kind = "RST",
           \A t \in Slot :
               Active(t)' => \/ t # s /\ conns'[t] = conns[t]
                             \/ conns'[t] = Fresh(calls + 1) /\ calls + 1 \in Call
                             \/ /\ t = s /\ conns'[s].call = conns[s].call
                                /\ LET p == conns[s].call IN
                                   Agree(conns'[s], snd'[p], rcv'[p], out'[p], peer'[p])
    PROVE  EndsAgree'
<1>1. /\ conns[s].call \in Call /\ conns[s].call <= calls /\ calls \in Nat
      /\ \A t \in Slot : Active(t) => conns[t].call \in Call
  BY ActiveCall DEF AInv, IInv, CallsMade, TypeOK, Call
<1> SUFFICES ASSUME NEW t \in Slot, Active(t)'
             PROVE  LET p == conns'[t].call IN
                    Agree(conns'[t], snd'[p], rcv'[p], out'[p], peer'[p])
  BY DEF EndsAgree
<1>2. CASE t # s /\ conns'[t] = conns[t]
  <2> DEFINE q == conns[t].call
  <2>1. Active(t)
    BY <1>2 DEF Active
  <2>2. q \in Call \ {conns[s].call}
    BY <1>1, <1>2, <2>1 DEF AInv, IInv, OnePortPerSlot
  <2>3. Agree(conns[t], snd[q], rcv[q], out[q], peer[q])
    BY <2>1 DEF AInv, EndsAgree
  <2>4. /\ snd'[q] = snd[q] /\ rcv'[q] = rcv[q] /\ peer'[q] = peer[q]
        /\ \A g \in out'[q] : g \in out[q] \/ g.kind = "RST"
    BY <2>2
  <2> HIDE DEF q
  <2>5. Agree(conns[t], snd'[q], rcv'[q], out'[q], peer'[q])
    BY <2>3, <2>4 DEF Agree, Covered
  <2> QED
    BY <1>2, <2>5 DEF q
<1>3. CASE conns'[t] = Fresh(calls + 1) /\ calls + 1 \in Call
  <2> DEFINE q == calls + 1
  <2>1. q \in Call \ {conns[s].call} /\ q > calls
    BY <1>1, <1>3
  <2>2. /\ snd'[q] = 0 /\ peer'[q] = NoPeer /\ \A g \in out'[q] : g.kind = "RST"
    BY <2>1 DEF AInv, Untouched
  <2>3. conns'[t].state = "SYN_SENT" /\ conns'[t].call = q /\ conns'[t].len = 1
    BY <1>3 DEF Fresh
  <2> HIDE DEF q
  <2>4. Agree(conns'[t], snd'[q], rcv'[q], out'[q], peer'[q])
    BY <2>2, <2>3 DEF Agree, Covered, NoPeer
  <2> QED
    BY <2>3, <2>4
<1>4. CASE /\ t = s /\ conns'[s].call = conns[s].call
           /\ LET p == conns[s].call IN
              Agree(conns'[s], snd'[p], rcv'[p], out'[p], peer'[p])
  BY <1>4
<1> QED
  BY <1>2, <1>3, <1>4

(* The entries after the application was told of the end of entry s.       *)
LEMMA ClosedEntries ==
    ASSUME IInv, NEW s \in Slot, Active(s), NEW last \in Conn,
           last.state \in {"CLOSED", "LAST_ACK"}, last.call = conns[s].call,
           Closed([conns EXCEPT ![s] = last], conns[s].call), UNCHANGED handled
    PROVE  /\ calls + 1 \in Call /\ calls' = calls + 1
           /\ conns'[s] = last \/ conns'[s] = Fresh(calls + 1)
           /\ \A t \in Slot :
                 Active(t)' => \/ t # s /\ conns'[t] = conns[t]
                               \/ conns'[t] = Fresh(calls + 1)
                               \/ t = s /\ conns'[s] = last /\ last.state = "LAST_ACK"
<1>1. Reopened([conns EXCEPT ![s] = last], conns')
  BY ClosedKeeps
<1>2. calls + 1 \in Call /\ calls' = calls + 1
  BY CallsAreBounded DEF Closed, Told, IInv, TypeOK
<1>3. conns \in [Slot -> Conn]
  BY DEF IInv, TypeOK
<1>4. \A t \in Slot : \/ conns'[t] = IF t = s THEN last ELSE conns[t]
                      \/ conns'[t] = Fresh(calls + 1)
  BY <1>1, <1>3 DEF Reopened
<1> QED
  BY <1>2, <1>4 DEF Active

(* Sending anything but data changes nothing for the manager's reading.    *)
LEMMA ReadsKeep ==
    ASSUME AnswersRead, UNCHANGED far,
           \A p \in Call : /\ out[p] \subseteq out'[p]
                           /\ \A g \in out'[p] : g \in out[p] \/ g.kind # "DATA"
    PROVE  AnswersRead'
<1> SUFFICES ASSUME NEW p \in Call
             PROVE  /\ Ordered(out'[p])
                    /\ Past(out'[p], peer[p], got[p])
  BY DEF AnswersRead, far, Ascending
<1>1. Ordered(out[p]) /\ Past(out[p], peer[p], got[p])
  BY DEF AnswersRead
<1> QED
  BY <1>1 DEF Ordered, Past

(* What one more segment makes of out.                                     *)
LEMMA Transmitted ==
    ASSUME TypeOK, NEW p \in Call, NEW seg, Transmit(p, seg)
    PROVE  \A q \in Call : out'[q] = IF q = p THEN out[p] \cup {seg} ELSE out[q]
BY DEF TypeOK, Transmit

LEMMA SentTypes ==
    ASSUME TypeOK, NEW p \in Call, NEW g \in out[p]
    PROVE  /\ g.kind = "DATA" => g.seq \in Nat /\ g.len \in 1 .. 2 /\ g.reply.to \in Nat
           /\ g.kind = "FIN" => g.seq \in Nat
<1>1. g \in Segment
  BY DEF TypeOK
<1>2. CASE g = Syn
  BY <1>2 DEF Syn
<1>3. CASE g \in [kind : {"FIN", "RST"}, seq : Nat]
  BY <1>3
<1>4. CASE g \in [kind : {"DATA"}, seq : Nat, len : 1 .. 2, reply : Reply]
  BY <1>4 DEF Reply
<1> QED
  BY <1>1, <1>2, <1>3, <1>4 DEF Segment

LEMMA EndTypes ==
    ASSUME AInv, NEW s \in Slot, Active(s), NEW p \in Call, p = conns[s].call
    PROVE  /\ snd[p] \in Nat /\ rcv[p] \in Nat /\ peer[p].rcv \in Nat
           /\ conns[s].len \in 0 .. 2
           /\ Agree(conns[s], snd[p], rcv[p], out[p], peer[p])
           /\ p <= calls /\ calls \in Nat
<1>1. conns[s] \in Conn /\ peer[p] \in Peer /\ snd[p] \in Nat /\ rcv[p] \in Nat
  BY ActiveCall DEF AInv, IInv, TypeOK
<1>2. conns[s].len \in 0 .. 2 /\ peer[p].rcv \in Nat
  BY <1>1 DEF Conn, Peer
<1>3. p <= calls /\ calls \in Nat
  BY DEF AInv, IInv, CallsMade, TypeOK, Call
<1> QED
  BY <1>1, <1>2, <1>3 DEF AInv, EndsAgree

(* What was covered stays so while the numbers grow.                       *)
LEMMA StillCovered ==
    ASSUME TypeOK, NEW p \in Call, NEW g \in out[p],
           NEW first \in Nat, NEW end \in Nat, NEW heard \in Nat,
           NEW first2 \in Nat, NEW end2 \in Nat, NEW heard2 \in Nat,
           first <= first2, end <= end2, heard <= heard2,
           Covered(g, first, end, heard)
    PROVE  Covered(g, first2, end2, heard2)
BY SentTypes DEF Covered

LEMMA RetransmitAgrees ==
    ASSUME AInv, NEW s \in Slot, Retransmit(s)
    PROVE  EndsAgree' /\ AnswersRead' /\ Untouched'
<1> DEFINE p == conns[s].call
           seg == IF conns[s].state = "SYN_SENT" THEN Syn ELSE Fin(snd[p])
<1>1. /\ Active(s) /\ conns[s].len > 0
      /\ UNCHANGED <<calls, lastport, lport, snd, rcv, closings, handled, peer, got>>
  BY DEF Retransmit, Active, far
<1>2. /\ p \in Call /\ TypeOK /\ conns \in [Slot -> Conn]
      /\ snd[p] \in Nat /\ rcv[p] \in Nat /\ peer[p].rcv \in Nat
      /\ conns[s].len \in 0 .. 2
      /\ Agree(conns[s], snd[p], rcv[p], out[p], peer[p])
      /\ p <= calls /\ calls \in Nat
  BY <1>1, ActiveCall, EndTypes DEF AInv, IInv, TypeOK
<1>3. conns' = [conns EXCEPT ![s].nrtx = @ + 1]
  BY DEF Retransmit
<1>4. /\ conns'[s].state = conns[s].state /\ conns'[s].len = conns[s].len
      /\ conns'[s].call = p
      /\ \A t \in Slot : t # s => conns'[t] = conns[t]
  BY <1>2, <1>3 DEF Conn
<1>5. \/ UNCHANGED out
      \/ Transmit(p, seg)
  BY DEF Retransmit
<1>6. seg.kind # "DATA" /\ Covered(seg, snd[p], snd[p] + conns[s].len, rcv[p])
  BY <1>1, <1>2 DEF Agree, Covered, Syn, Fin
<1> HIDE DEF seg
<1>7. \A q \in Call : /\ out[q] \subseteq out'[q]
                      /\ \A g \in out'[q] : g \in out[q] \/ (q = p /\ g = seg)
  <2>1. CASE UNCHANGED out
    BY <2>1
  <2>2. CASE Transmit(p, seg)
    <3>1. \A q \in Call : out'[q] = IF q = p THEN out[p] \cup {seg} ELSE out[q]
      BY <1>2, <2>2, Transmitted
    <3> QED
      BY <1>2, <3>1
  <2> QED
    BY <1>5, <2>1, <2>2
<1>8. Agree(conns'[s], snd'[p], rcv'[p], out'[p], peer'[p])
  BY <1>1, <1>2, <1>4, <1>6, <1>7 DEF Agree
<1> HIDE DEF p
<1>9. EndsAgree'
  BY <1>1, <1>2, <1>4, <1>7, <1>8, OthersAgree DEF p
<1>10. AnswersRead'
  BY <1>1, <1>6, <1>7, ReadsKeep DEF AInv, far
<1>11. Untouched'
  <2>1. \A q \in Call : q > calls => q # p
    BY <1>2 DEF Call
  <2> QED
    BY <1>1, <1>7, <2>1 DEF AInv, Untouched
<1> QED
  BY <1>9, <1>10, <1>11

LEMMA TimeOutAgrees ==
    ASSUME AInv, NEW s \in Slot, TimeOut(s)
    PROVE  EndsAgree' /\ AnswersRead' /\ Untouched'
<1> DEFINE last == [conns[s] EXCEPT !.state = "CLOSED"]
           p == conns'[s].call
<1>1. Active(s) /\ UNCHANGED <<snd, rcv, handled, peer, got>> /\ IInv /\ TypeOK
  BY DEF TimeOut, Active, AInv, IInv, far
<1>2. /\ conns[s] \in Conn /\ conns[s].call \in Call /\ conns[s].call <= calls
      /\ calls \in Nat
  BY <1>1, ActiveCall, EndTypes
<1>3. last \in Conn /\ last.call = conns[s].call /\ last.state = "CLOSED"
  BY <1>2 DEF Conn, State
<1>4. Closed([conns EXCEPT ![s] = last], conns[s].call) /\ Transmit(p, Rst(snd[p]))
  BY DEF TimeOut
<1> HIDE DEF last
<1>5. /\ calls + 1 \in Call /\ calls' = calls + 1
      /\ conns'[s] = last \/ conns'[s] = Fresh(calls + 1)
      /\ \A t \in Slot :
            Active(t)' => \/ t # s /\ conns'[t] = conns[t]
                          \/ conns'[t] = Fresh(calls + 1)
  BY <1>1, <1>3, <1>4, ClosedEntries
<1>6. p \in Call /\ p <= calls'
  <2>1. CASE conns'[s] = last
    BY <1>2, <1>3, <1>5, <2>1 DEF Call
  <2>2. CASE conns'[s] = Fresh(calls + 1)
    <3>1. p = calls + 1
      BY <2>2 DEF Fresh
    <3> QED
      BY <1>2, <1>5, <3>1
  <2> QED
    BY <1>5, <2>1, <2>2
<1> HIDE DEF p
<1>7. \A q \in Call : /\ out[q] \subseteq out'[q]
                      /\ \A g \in out'[q] : g \in out[q] \/ (q = p /\ g.kind = "RST")
  <2>1. \A q \in Call : out'[q] = IF q = p THEN out[p] \cup {Rst(snd[p])} ELSE out[q]
    BY <1>1, <1>4, <1>6, Transmitted
  <2>2. Rst(snd[p]).kind = "RST"
    BY DEF Rst
  <2> QED
    BY <1>6, <2>1, <2>2
<1>8. EndsAgree'
  BY <1>1, <1>5, <1>7, OthersAgree
<1>9. AnswersRead'
  BY <1>1, <1>7, ReadsKeep DEF AInv, far
<1>10. Untouched'
  <2>1. \A q \in Call : q > calls' => q > calls /\ q # p
    BY <1>2, <1>5, <1>6 DEF Call
  <2> QED
    BY <1>1, <1>7, <2>1 DEF AInv, Untouched
<1> QED
  BY <1>8, <1>9, <1>10

LEMMA RecvRstAgrees ==
    ASSUME AInv, NEW s \in Slot, NEW p \in Call, RecvRst(s, p)
    PROVE  EndsAgree' /\ AnswersRead' /\ Untouched'
<1> DEFINE last == [conns[s] EXCEPT !.state = "CLOSED"]
<1>1. /\ Active(s) /\ UNCHANGED <<snd, rcv, out, handled, peer, got>>
      /\ IInv
  BY DEF RecvRst, Found, Active, AInv, far
<1>2. conns[s] \in Conn /\ calls \in Nat
  BY <1>1, ActiveCall, EndTypes
<1>3. last \in Conn /\ last.call = conns[s].call /\ last.state = "CLOSED"
  BY <1>2 DEF Conn, State
<1>4. Closed([conns EXCEPT ![s] = last], conns[s].call)
  BY <1>1 DEF RecvRst
<1> HIDE DEF last
<1>5. /\ calls + 1 \in Call /\ calls' = calls + 1
      /\ \A t \in Slot :
            Active(t)' => \/ t # s /\ conns'[t] = conns[t]
                          \/ conns'[t] = Fresh(calls + 1)
  BY <1>1, <1>3, <1>4, ClosedEntries
<1>6. EndsAgree'
  BY <1>1, <1>5, OthersAgree
<1>7. AnswersRead'
  BY <1>1 DEF AInv, AnswersRead, Ordered, Past, Ascending
<1>8. Untouched'
  BY <1>1, <1>2, <1>5 DEF AInv, Untouched, Call
<1> QED
  BY <1>6, <1>7, <1>8

LEMMA RecvStaleAgrees ==
    ASSUME AInv, NEW s \in Slot, NEW p \in Call, RecvStale(s, p)
    PROVE  EndsAgree' /\ AnswersRead' /\ Untouched'
<1>1. /\ Active(s) /\ UNCHANGED <<snd, rcv, handled, peer, got>> /\ IInv /\ TypeOK
      /\ Told(conns, conns[s].call) /\ Transmit(p, Rst(peer[p].rcv)) /\ peer[p].rcv >= 1
      /\ conns' = [Opened(conns) EXCEPT ![s].state = "CLOSED"]
  BY DEF RecvStale, Found, Active, AInv, IInv, far
<1>2. conns \in [Slot -> Conn] /\ conns[s].call \in Call /\ calls \in Nat
  BY <1>1, ActiveCall, EndTypes DEF TypeOK
<1>3. calls + 1 \in Call /\ calls' = calls + 1
  BY <1>1, <1>2, ToldFinds
<1>4. Reopened(conns, Opened(conns))
  BY <1>2, <1>3, OpenedReopens
<1>5. \A t \in Slot : Active(t)' => \/ t # s /\ conns'[t] = conns[t]
                                    \/ conns'[t] = Fresh(calls + 1)
  <2>1. \A t \in Slot : Opened(conns)[t] = conns[t] \/ Opened(conns)[t] = Fresh(calls + 1)
    BY <1>4 DEF Reopened
  <2>2. \A t \in Slot : t # s => conns'[t] = Opened(conns)[t]
    BY <1>1, <1>4 DEF Reopened
  <2>3. Opened(conns)[s] \in Conn /\ conns'[s].state = "CLOSED"
    BY <1>1, <1>4 DEF Reopened, Conn
  <2> QED
    BY <2>1, <2>2, <2>3 DEF Active
<1>6. p <= calls
  <2>1. peer[p] # NoPeer
    BY <1>1 DEF NoPeer
  <2> QED
    BY <1>2, <2>1 DEF AInv, Untouched, Call
<1>7. \A q \in Call : /\ out[q] \subseteq out'[q]
                      /\ \A g \in out'[q] : g \in out[q] \/ (q = p /\ g.kind = "RST")
  <2>1. \A q \in Call : out'[q] = IF q = p THEN out[p] \cup {Rst(peer[p].rcv)} ELSE out[q]
    BY <1>1, Transmitted
  <2>2. Rst(peer[p].rcv).kind = "RST"
    BY DEF Rst
  <2> QED
    BY <2>1, <2>2
<1>8. EndsAgree'
  BY <1>1, <1>3, <1>5, <1>7, OthersAgree
<1>9. AnswersRead'
  BY <1>1, <1>7, ReadsKeep DEF AInv, far
<1>10. Untouched'
  <2>1. \A q \in Call : q > calls' => q > calls /\ q # p
    BY <1>2, <1>3, <1>6 DEF Call
  <2>2. \A q \in Call : q # p => out'[q] = out[q]
    BY <1>1, Transmitted
  <2> QED
    BY <1>1, <2>1, <2>2 DEF AInv, Untouched
<1> QED
  BY <1>8, <1>9, <1>10

LEMMA RecvSynAckAgrees ==
    ASSUME AInv, NEW s \in Slot, NEW p \in Call, RecvSynAck(s, p)
    PROVE  EndsAgree' /\ AnswersRead' /\ Untouched'
<1>1. /\ Active(s) /\ p = conns[s].call /\ conns[s].state = "SYN_SENT"
      /\ peer[p].rcv >= 1
      /\ UNCHANGED <<calls, lastport, lport, out, closings, handled, peer, got>>
  BY DEF RecvSynAck, Own, Found, Active, far
<1>2. /\ TypeOK /\ conns \in [Slot -> Conn]
      /\ snd \in [Call -> Nat] /\ rcv \in [Call -> Nat]
      /\ snd[p] \in Nat /\ rcv[p] \in Nat /\ peer[p].rcv \in Nat
      /\ conns[s].len \in 0 .. 2
      /\ Agree(conns[s], snd[p], rcv[p], out[p], peer[p])
      /\ p <= calls /\ calls \in Nat
  BY <1>1, EndTypes DEF AInv, IInv, TypeOK
<1>3. /\ conns' = [conns EXCEPT ![s].state = "ESTABLISHED", ![s].len = 0, ![s].nrtx = 0]
      /\ snd' = [snd EXCEPT ![p] = 1] /\ rcv' = [rcv EXCEPT ![p] = 1]
  BY DEF RecvSynAck
<1>4. /\ conns'[s].state = "ESTABLISHED" /\ conns'[s].len = 0
      /\ conns'[s].call = p /\ snd'[p] = 1 /\ rcv'[p] = 1
      /\ \A t \in Slot : t # s => conns'[t] = conns[t]
      /\ \A q \in Call : q # p => snd'[q] = snd[q] /\ rcv'[q] = rcv[q]
  BY <1>1, <1>2, <1>3 DEF Conn
<1>5. snd[p] = 0 /\ conns[s].len = 1 /\ peer[p].rcv = 1
  BY <1>1, <1>2 DEF Agree
<1>6. ASSUME NEW g \in out[p] PROVE Covered(g, 1, 1, 1)
  <2>1. Covered(g, 0, 1, rcv[p])
    BY <1>2, <1>5, <1>6 DEF Agree
  <2> QED
    BY <1>2, <2>1, SentTypes DEF Covered
<1>7. Agree(conns'[s], snd'[p], rcv'[p], out'[p], peer'[p])
  BY <1>1, <1>4, <1>5, <1>6 DEF Agree
<1>8. EndsAgree'
  BY <1>1, <1>4, <1>7, OthersAgree
<1>9. AnswersRead'
  BY <1>1 DEF AInv, AnswersRead, Ordered, Past, Ascending
<1>10. Untouched'
  BY <1>1, <1>2, <1>4 DEF AInv, Untouched, Call
<1> QED
  BY <1>8, <1>9, <1>10

LEMMA RecvLastAckAgrees ==
    ASSUME AInv, NEW s \in Slot, NEW p \in Call, NEW seg \in Segments(p),
           RecvLastAck(s, p, seg)
    PROVE  EndsAgree' /\ AnswersRead' /\ Untouched'
<1> DEFINE last == [conns[s] EXCEPT !.state = "CLOSED", !.len = 0]
<1>1. /\ Active(s) /\ p = conns[s].call /\ UNCHANGED <<rcv, out, handled, peer, got>>
      /\ IInv /\ snd' = [snd EXCEPT ![p] = @ + 1]
  BY DEF RecvLastAck, Own, Found, Active, AInv, far
<1>2. conns[s] \in Conn /\ calls \in Nat /\ p <= calls /\ snd \in [Call -> Nat]
  BY <1>1, ActiveCall, EndTypes DEF IInv, TypeOK
<1>3. last \in Conn /\ last.call = conns[s].call /\ last.state = "CLOSED"
  <2>1. "CLOSED" \in State /\ 0 \in 0 .. 2
    BY DEF State
  <2> QED
    BY <1>2, <2>1 DEF Conn
<1>4. Closed([conns EXCEPT ![s] = last], conns[s].call)
  BY <1>1 DEF RecvLastAck
<1> HIDE DEF last
<1>5. /\ calls + 1 \in Call /\ calls' = calls + 1
      /\ \A t \in Slot :
            Active(t)' => \/ t # s /\ conns'[t] = conns[t]
                          \/ conns'[t] = Fresh(calls + 1)
  BY <1>1, <1>3, <1>4, ClosedEntries
<1>6. \A q \in Call : q # p => snd'[q] = snd[q]
  BY <1>1, <1>2
<1>7. EndsAgree'
  BY <1>1, <1>5, <1>6, OthersAgree
<1>8. AnswersRead'
  BY <1>1 DEF AInv, AnswersRead, Ordered, Past, Ascending
<1>9. Untouched'
  BY <1>1, <1>2, <1>5, <1>6 DEF AInv, Untouched, Call
<1> QED
  BY <1>7, <1>8, <1>9

(* An acknowledgment the manager could have written acknowledges no more   *)
(* than has arrived, so it can only confirm all of what is outstanding.    *)
LEMMA AckedArrived ==
    ASSUME AInv, NEW s \in Slot, Active(s), NEW p \in Call, p = conns[s].call,
           NEW seg \in Segments(p), Acks(s, seg)
    PROVE  peer[p].rcv = snd[p] + conns[s].len
<1>1. /\ snd[p] \in Nat /\ peer[p].rcv \in Nat /\ conns[s].len \in 0 .. 2
      /\ peer[p].rcv <= snd[p] + conns[s].len
  BY EndTypes DEF Agree
<1>2. seg.ack \in 1 .. peer[p].rcv
  BY DEF Segments
<1>3. seg.ack = snd[p] + conns[s].len
  BY DEF Acks
<1> QED
  BY <1>1, <1>2, <1>3

LEMMA RecvFinAgrees ==
    ASSUME AInv, NEW s \in Slot, NEW p \in Call, NEW seg \in Segments(p),
           RecvFin(s, p, seg)
    PROVE  EndsAgree' /\ AnswersRead' /\ Untouched'
<1> DEFINE last == [conns[s] EXCEPT !.state = "LAST_ACK", !.len = 1, !.nrtx = 0]
           base == snd[p] + conns[s].len
<1>1. /\ Active(s) /\ p = conns[s].call /\ UNCHANGED <<handled, peer, got>>
      /\ conns[s].state = "ESTABLISHED" /\ IInv /\ TypeOK
      /\ conns[s].len = 0 \/ Acks(s, seg)
      /\ snd' = [snd EXCEPT ![p] = base] /\ Transmit(p, Fin(base))
      /\ rcv' = [rcv EXCEPT ![p] = rcv[p] + 1 + seg.n]
  BY DEF RecvFin, Own, Found, Active, AInv, IInv, far
<1>2. /\ conns[s] \in Conn /\ seg.n \in Nat
      /\ snd \in [Call -> Nat] /\ rcv \in [Call -> Nat]
      /\ snd[p] \in Nat /\ rcv[p] \in Nat /\ peer[p].rcv \in Nat
      /\ conns[s].len \in 0 .. 2
      /\ Agree(conns[s], snd[p], rcv[p], out[p], peer[p])
      /\ p <= calls /\ calls \in Nat
  BY <1>1, ActiveCall, EndTypes, SegmentType DEF IInv, TypeOK
<1>3. /\ last \in Conn /\ last.call = conns[s].call /\ last.state = "LAST_ACK"
      /\ last.len = 1
  <2>1. "LAST_ACK" \in State /\ 0 \in 0 .. 2 /\ 1 \in 0 .. 2 /\ 0 \in Nat
    BY DEF State
  <2>2. last \in Conn
    BY <1>2, <2>1 DEF Conn
  <2> QED
    BY <1>2, <2>2 DEF Conn
<1>4. Closed([conns EXCEPT ![s] = last], conns[s].call)
  BY <1>1 DEF RecvFin
<1> HIDE DEF last
<1>5. /\ calls + 1 \in Call /\ calls' = calls + 1
      /\ \A t \in Slot :
            Active(t)' => \/ t # s /\ conns'[t] = conns[t]
                          \/ conns'[t] = Fresh(calls + 1)
                          \/ t = s /\ conns'[s] = last
  BY <1>1, <1>3, <1>4, ClosedEntries
<1>6. base \in Nat /\ peer[p].rcv = base /\ 1 <= base
  <2>1. /\ 1 <= snd[p] /\ snd[p] <= peer[p].rcv
        /\ peer[p].rcv <= snd[p] + conns[s].len
    BY <1>1, <1>2 DEF Agree
  <2>2. CASE conns[s].len = 0
    BY <1>2, <2>1, <2>2
  <2>3. CASE Acks(s, seg)
    BY <1>1, <1>2, <2>1, <2>3, AckedArrived
  <2> QED
    BY <1>1, <2>2, <2>3
<1>7. /\ snd'[p] = base /\ rcv'[p] = rcv[p] + 1 + seg.n
      /\ rcv'[p] \in Nat /\ rcv[p] <= rcv'[p]
      /\ \A q \in Call : q # p => snd'[q] = snd[q] /\ rcv'[q] = rcv[q]
  BY <1>1, <1>2
<1>8. \A q \in Call : out'[q] = IF q = p THEN out[p] \cup {Fin(base)} ELSE out[q]
  BY <1>1, Transmitted
<1>9. Fin(base).kind = "FIN" /\ Fin(base).seq = base
  BY DEF Fin
<1>10. ASSUME NEW g \in out'[p] PROVE Covered(g, base, base + 1, rcv'[p])
  <2>1. CASE g = Fin(base)
    BY <1>6, <1>9, <2>1 DEF Covered
  <2>2. CASE g \in out[p]
    <3>1. Covered(g, snd[p], snd[p] + conns[s].len, rcv[p])
      BY <1>2, <2>2 DEF Agree
    <3>2. /\ snd[p] + conns[s].len \in Nat /\ base + 1 \in Nat
          /\ snd[p] <= base /\ snd[p] + conns[s].len <= base + 1
      BY <1>2
    <3>3. snd[p] \in Nat /\ base \in Nat /\ rcv[p] \in Nat /\ rcv'[p] \in Nat /\ rcv[p] <= rcv'[p]
      BY <1>2, <1>6, <1>7
    <3> HIDE DEF base
    <3> QED
      BY <1>1, <2>2, <3>1, <3>2, <3>3, StillCovered
  <2> QED
    BY <1>8, <2>1, <2>2
<1> HIDE DEF base
<1>11. Agree(last, snd'[p], rcv'[p], out'[p], peer'[p])
  BY <1>1, <1>2, <1>3, <1>6, <1>7, <1>10 DEF Agree
<1>12. EndsAgree'
  BY <1>1, <1>3, <1>5, <1>7, <1>8, <1>11, OthersAgree
<1>13. AnswersRead'
  <2>1. \A q \in Call : /\ out[q] \subseteq out'[q]
                        /\ \A g \in out'[q] : g \in out[q] \/ g.kind # "DATA"
    BY <1>8, <1>9
  <2> QED
    BY <1>1, <2>1, ReadsKeep DEF AInv, far
<1>14. Untouched'
  <2>1. \A q \in Call : q > calls' => q > calls /\ q # p
    BY <1>2, <1>5 DEF Call
  <2> QED
    BY <1>1, <1>7, <1>8, <2>1 DEF AInv, Untouched
<1> QED
  BY <1>12, <1>13, <1>14

LEMMA RecvStrayAgrees ==
    ASSUME AInv, NEW p \in Call, RecvStray(p)
    PROVE  EndsAgree' /\ AnswersRead' /\ Untouched'
<1>1. /\ UNCHANGED <<conns, calls, lastport, lport, snd, rcv, closings, handled, peer, got>>
      /\ Transmit(p, Rst(peer[p].rcv)) /\ TypeOK /\ peer[p].rcv >= 1
  BY DEF RecvStray, AInv, IInv, far
<1>2. \A q \in Call : out'[q] = IF q = p THEN out[p] \cup {Rst(peer[p].rcv)} ELSE out[q]
  BY <1>1, Transmitted
<1>3. Rst(peer[p].rcv).kind = "RST"
  BY DEF Rst
<1>4. \A q \in Call : /\ out[q] \subseteq out'[q]
                      /\ \A g \in out'[q] : g \in out[q] \/ g.kind = "RST"
  BY <1>2, <1>3
<1>5. EndsAgree'
  <2> SUFFICES ASSUME NEW s \in Slot, Active(s)
               PROVE  Agree(conns[s], snd[conns[s].call], rcv[conns[s].call],
                            out'[conns[s].call], peer[conns[s].call])
    BY <1>1 DEF EndsAgree, Active
  <2>1. conns[s].call \in Call
    BY ActiveCall DEF AInv
  <2> QED
    BY <1>4, <2>1 DEF AInv, EndsAgree, Agree, Covered
<1>6. AnswersRead'
  BY <1>1, <1>4, ReadsKeep DEF AInv, far
<1>7. Untouched'
  <2>1. \A q \in Call : q > calls => q # p
    BY <1>1 DEF AInv, Untouched, NoPeer
  <2> QED
    BY <1>1, <1>2, <2>1 DEF AInv, Untouched
<1> QED
  BY <1>5, <1>6, <1>7

(* Data that answers a message nobody asked before goes behind the rest.   *)
LEMMA AnswerIsLast ==
    ASSUME TypeOK, NEW p \in Call, Ordered(out[p]),
           NEW first \in Nat, NEW heard \in Nat,
           \A g \in out[p] : g.kind = "DATA" => g.seq <= first /\ g.reply.to < heard,
           NEW seg, seg.kind = "DATA", seg.seq \in Nat, first <= seg.seq,
           seg.reply.to = heard
    PROVE  Ordered(out[p] \cup {seg})
<1> SUFFICES ASSUME NEW a \in out[p] \cup {seg}, NEW b \in out[p] \cup {seg},
                    a.kind = "DATA", b.kind = "DATA", a.seq < b.seq
             PROVE  a.reply.to < b.reply.to
  BY DEF Ordered
<1>1. CASE a \in out[p] /\ b \in out[p]
  BY <1>1 DEF Ordered
<1>2. CASE b = seg
  BY <1>2
<1>3. CASE a = seg /\ b \in out[p]
  BY <1>3, SentTypes
<1> QED
  BY <1>1, <1>2, <1>3

LEMMA RecvDataAgrees ==
    ASSUME AInv, NEW s \in Slot, NEW p \in Call, NEW seg \in Segments(p),
           RecvData(s, p, seg)
    PROVE  EndsAgree' /\ AnswersRead' /\ Untouched'
<1> DEFINE left == IF Acks(s, seg) THEN 0 ELSE conns[s].len
           base == snd[p] + (conns[s].len - left)
           size(r) == Allowed(left, Acks(s, seg), r)
<1>1. /\ Active(s) /\ p = conns[s].call /\ conns[s].state = "ESTABLISHED"
      /\ UNCHANGED <<calls, peer, got>> /\ IInv /\ TypeOK
      /\ Expected(seg, p)
      /\ snd' = [snd EXCEPT ![p] = base] /\ rcv' = [rcv EXCEPT ![p] = rcv[p] + seg.n]
  BY DEF RecvData, Own, Found, Active, AInv, IInv, far
<1>2. \/ UNCHANGED out /\ conns' = [conns EXCEPT ![s].len = left, ![s].nrtx = 0]
      \/ \E r \in Reaction(p, seg) :
            /\ conns' = [conns EXCEPT ![s].len = size(r), ![s].nrtx = 0]
            /\ Transmit(p, Data(base, size(r), r))
  BY DEF RecvData
<1>3. /\ conns \in [Slot -> Conn] /\ seg.n \in Nat
      /\ snd \in [Call -> Nat] /\ rcv \in [Call -> Nat]
      /\ snd[p] \in Nat /\ rcv[p] \in Nat /\ peer[p].rcv \in Nat
      /\ conns[s].len \in 0 .. 2
      /\ Agree(conns[s], snd[p], rcv[p], out[p], peer[p])
      /\ p <= calls /\ calls \in Nat
  BY <1>1, EndTypes, SegmentType DEF IInv, TypeOK
<1>4. /\ left \in 0 .. 2 /\ base \in Nat /\ 1 <= base
      /\ snd[p] <= base /\ base + left = snd[p] + conns[s].len
      /\ base <= peer[p].rcv /\ peer[p].rcv <= base + left
  <2>1. /\ 1 <= snd[p] /\ snd[p] <= peer[p].rcv
        /\ peer[p].rcv <= snd[p] + conns[s].len
    BY <1>1, <1>3 DEF Agree
  <2>2. CASE Acks(s, seg)
    <3>1. peer[p].rcv = snd[p] + conns[s].len
      BY <1>1, <2>2, AckedArrived
    <3> QED
      BY <1>3, <2>1, <2>2, <3>1
  <2>3. CASE ~Acks(s, seg)
    BY <1>3, <2>1, <2>3
  <2> QED
    BY <2>2, <2>3
<1>5. \A r \in Reaction(p, seg) : /\ r.to = rcv[p] /\ seg.n > 0
                                  /\ size(r) \in 1 .. 2 /\ left <= size(r)
  <2> SUFFICES ASSUME NEW r \in Reaction(p, seg)
               PROVE  /\ r.to = rcv[p] /\ seg.n > 0
                      /\ size(r) \in 1 .. 2 /\ left <= size(r)
    OBVIOUS
  <2>1. seg.n > 0 /\ r.to = seg.seq /\ r.size \in 1 .. 2
    BY <1>3 DEF Reaction
  <2>2. seg.seq = rcv[p]
    BY <1>1, <2>1 DEF Expected
  <2>3. size(r) \in 1 .. 2 /\ left <= size(r)
    BY <1>4, <2>1 DEF Allowed
  <2> QED
    BY <2>1, <2>2, <2>3
<1>6. \/ UNCHANGED out /\ conns' = [conns EXCEPT ![s].len = left, ![s].nrtx = 0]
      \/ \E r \in Reaction(p, seg), n \in 1 .. 2 :
            /\ left <= n
            /\ conns' = [conns EXCEPT ![s].len = n, ![s].nrtx = 0]
            /\ Transmit(p, Data(base, n, r))
  BY <1>2, <1>5
<1> HIDE DEF left, base, size
<1>7. /\ snd'[p] = base /\ rcv'[p] = rcv[p] + seg.n
      /\ rcv'[p] \in Nat /\ rcv[p] <= rcv'[p]
      /\ \A q \in Call : q # p => snd'[q] = snd[q] /\ rcv'[q] = rcv[q]
  BY <1>1, <1>3
<1>8. ASSUME NEW n \in 0 .. 2, left <= n, NEW g \in out[p]
      PROVE  Covered(g, base, base + n, rcv'[p])
  <2>1. Covered(g, snd[p], snd[p] + conns[s].len, rcv[p])
    BY <1>3, <1>8 DEF Agree
  <2>2. /\ snd[p] + conns[s].len \in Nat /\ base + n \in Nat
        /\ snd[p] + conns[s].len <= base + n
    BY <1>3, <1>4, <1>8
  <2> QED
    BY <1>1, <1>3, <1>4, <1>7, <2>1, <2>2, StillCovered
<1>9. ASSUME NEW n \in 0 .. 2, left <= n,
             conns' = [conns EXCEPT ![s].len = n, ![s].nrtx = 0],
             \A g \in out'[p] : g \in out[p] \/ Covered(g, base, base + n, rcv'[p]),
             \A q \in Call \ {p} : out'[q] = out[q]
      PROVE  EndsAgree' /\ Untouched'
  <2>1. /\ conns'[s].state = "ESTABLISHED" /\ conns'[s].len = n /\ conns'[s].call = p
        /\ \A t \in Slot : t # s => conns'[t] = conns[t]
    BY <1>1, <1>3, <1>9 DEF Conn
  <2>2. peer[p].rcv <= base + n
    BY <1>3, <1>4, <1>9
  <2>3. \A g \in out'[p] : Covered(g, base, base + n, rcv'[p])
    BY <1>8, <1>9
  <2>4. Agree(conns'[s], snd'[p], rcv'[p], out'[p], peer'[p])
    BY <1>1, <1>4, <1>7, <2>1, <2>2, <2>3 DEF Agree
  <2>5. EndsAgree'
    BY <1>1, <1>7, <1>9, <2>1, <2>4, OthersAgree
  <2>6. \A q \in Call : q > calls => q # p
    BY <1>3 DEF Call
  <2>7. Untouched'
    BY <1>1, <1>7, <1>9, <2>6 DEF AInv, Untouched
  <2> QED
    BY <2>5, <2>7
<1>10. CASE UNCHANGED out /\ conns' = [conns EXCEPT ![s].len = left, ![s].nrtx = 0]
  <2>1. left <= left
    BY <1>4
  <2>2. EndsAgree' /\ Untouched'
    BY <1>4, <1>9, <1>10, <2>1
  <2>3. AnswersRead'
    BY <1>1, <1>10 DEF AInv, AnswersRead, Ordered, Past, Ascending
  <2> QED
    BY <2>2, <2>3
<1>11. ASSUME NEW r \in Reaction(p, seg), NEW n \in 1 .. 2, left <= n,
              conns' = [conns EXCEPT ![s].len = n, ![s].nrtx = 0],
              Transmit(p, Data(base, n, r))
       PROVE  EndsAgree' /\ AnswersRead' /\ Untouched'
  <2> DEFINE new == Data(base, n, r)
  <2>1. /\ new.kind = "DATA" /\ new.seq = base /\ new.len = n
        /\ new.reply.to = rcv[p] /\ rcv[p] < rcv'[p]
    BY <1>3, <1>5, <1>7 DEF Data
  <2>2. \A q \in Call : out'[q] = IF q = p THEN out[p] \cup {new} ELSE out[q]
    BY <1>1, <1>11, Transmitted
  <2> HIDE DEF new
  <2>3. base + n <= base + n
    BY <1>4, <1>11
  <2>4. Covered(new, base, base + n, rcv'[p])
    BY <1>4, <2>1, <2>3 DEF Covered
  <2>5. n \in 0 .. 2
    OBVIOUS
  <2>6. EndsAgree' /\ Untouched'
    BY <1>9, <1>11, <2>2, <2>4, <2>5
  <2>7. Ordered(out'[p])
    <3>1. \A g \in out[p] : Covered(g, snd[p], snd[p] + conns[s].len, rcv[p])
      BY <1>3 DEF Agree
    <3>2. \A g \in out[p] : g.kind = "DATA" => g.seq <= snd[p] /\ g.reply.to < rcv[p]
      BY <3>1 DEF Covered
    <3>3. Ordered(out[p])
      BY DEF AInv, AnswersRead
    <3>4. Ordered(out[p] \cup {new})
      BY <1>1, <1>3, <1>4, <2>1, <3>2, <3>3, AnswerIsLast
    <3> QED
      BY <2>2, <3>4
  <2>8. Past(out'[p], peer[p], got[p])
    BY <2>2 DEF AInv, AnswersRead, Past
  <2>9. AnswersRead'
    BY <1>1, <2>2, <2>7, <2>8 DEF AInv, AnswersRead, Ascending
  <2> QED
    BY <2>6, <2>9
<1> QED
  BY <1>6, <1>10, <1>11

(* The manager's end of p is at a number both ends can agree on.           *)
LEMMA PeerAgrees ==
    ASSUME AInv, NEW p \in Call, UNCHANGED uip,
           peer[p] # NoPeer \/ out[p] # {},
           \A q \in Call : q # p => peer'[q] = peer[q],
           \A s \in Slot : Active(s) /\ conns[s].call = p =>
               snd[p] <= peer'[p].rcv /\ peer'[p].rcv <= snd[p] + conns[s].len
    PROVE  EndsAgree' /\ Untouched'
<1>1. EndsAgree'
  <2> SUFFICES ASSUME NEW s \in Slot, Active(s)
               PROVE  LET q == conns[s].call IN
                      Agree(conns[s], snd[q], rcv[q], out[q], peer'[q])
    BY DEF EndsAgree, Active, uip
  <2>1. conns[s].call \in Call
    BY ActiveCall DEF AInv
  <2>2. LET q == conns[s].call IN Agree(conns[s], snd[q], rcv[q], out[q], peer[q])
    BY DEF AInv, EndsAgree
  <2> QED
    BY <2>1, <2>2 DEF Agree
<1>2. ~(p > calls)
  BY DEF AInv, Untouched
<1>3. Untouched'
  BY <1>2 DEF AInv, Untouched, uip
<1> QED
  BY <1>1, <1>3

(* The numbers the manager's end can come to by reading what was sent.     *)
LEMMA ReadAgrees ==
    ASSUME AInv, NEW p \in Call, NEW g \in out[p], g.kind \in {"DATA", "FIN"},
           g.seq = peer[p].rcv, NEW n, n = IF g.kind = "FIN" THEN 1 ELSE g.len
    PROVE  \A s \in Slot : Active(s) /\ conns[s].call = p =>
               snd[p] <= peer[p].rcv + n /\ peer[p].rcv + n <= snd[p] + conns[s].len
<1> SUFFICES ASSUME NEW s \in Slot, Active(s), conns[s].call = p
             PROVE  snd[p] <= peer[p].rcv + n /\ peer[p].rcv + n <= snd[p] + conns[s].len
  OBVIOUS
<1>1. /\ snd[p] \in Nat /\ peer[p].rcv \in Nat /\ conns[s].len \in 0 .. 2
      /\ snd[p] <= peer[p].rcv
      /\ Covered(g, snd[p], snd[p] + conns[s].len, rcv[p])
  BY EndTypes DEF Agree
<1>2. n \in Nat
  BY SentTypes DEF AInv, IInv
<1>3. peer[p].rcv + n <= snd[p] + conns[s].len
  BY <1>1 DEF Covered
<1> QED
  BY <1>1, <1>2, <1>3

LEMMA PeerReadReads ==
    ASSUME AInv, NEW p \in Call, PeerRead(p)
    PROVE  EndsAgree' /\ AnswersRead' /\ Untouched'
<1>1. PICK g \in out[p] :
        /\ g.kind = "DATA" /\ g.seq = peer[p].rcv
        /\ peer' = [peer EXCEPT ![p].rcv = @ + g.len]
        /\ got' = [got EXCEPT ![p] = Append(@, g.reply.to)]
  BY DEF PeerRead
<1>2. UNCHANGED uip /\ peer[p].state = "open"
  BY DEF PeerRead
<1>3. /\ peer \in [Call -> Peer] /\ got \in [Call -> Seq(Nat)] /\ got[p] \in Seq(Nat)
      /\ TypeOK /\ peer[p] \in Peer
  BY DEF AInv, IInv, TypeOK
<1>4. /\ peer[p].rcv \in Nat /\ g.len \in 1 .. 2 /\ g.reply.to \in Nat /\ g.seq \in Nat
  BY <1>1, <1>3, SentTypes DEF Peer
<1>5. /\ peer'[p].rcv = peer[p].rcv + g.len /\ peer'[p].state = "open"
      /\ got'[p] = Append(got[p], g.reply.to)
      /\ \A q \in Call : q # p => peer'[q] = peer[q] /\ got'[q] = got[q]
  BY <1>1, <1>2, <1>3 DEF Peer
<1>6. \A s \in Slot : Active(s) /\ conns[s].call = p =>
          snd[p] <= peer[p].rcv + g.len /\ peer[p].rcv + g.len <= snd[p] + conns[s].len
  BY <1>1, ReadAgrees
<1>7. EndsAgree' /\ Untouched'
  BY <1>2, <1>5, <1>6, PeerAgrees
<1>8. /\ Ordered(out[p]) /\ Past(out[p], peer[p], got[p]) /\ Ascending(got[p])
  BY DEF AInv, AnswersRead
<1>9. ASSUME NEW i \in 1 .. Len(got[p])
      PROVE  /\ got[p][i] < g.reply.to
             /\ \E h \in out[p] : /\ h.kind = "DATA" /\ h.reply.to = got[p][i]
                                  /\ h.seq < peer'[p].rcv
  <2>1. PICK h \in out[p] : h.kind = "DATA" /\ h.reply.to = got[p][i] /\ h.seq < peer[p].rcv
    BY <1>8 DEF Past
  <2>2. h.seq \in Nat
    BY <1>3, <2>1, SentTypes
  <2>3. h.reply.to < g.reply.to
    BY <1>1, <1>8, <2>1 DEF Ordered
  <2>4. h.seq < peer'[p].rcv
    BY <1>4, <1>5, <2>1, <2>2
  <2> QED
    BY <2>1, <2>3, <2>4
<1>10. Ascending(got'[p])
  BY <1>3, <1>4, <1>5, <1>8, <1>9, AppendKeeps
<1>11. Past(out[p], peer'[p], got'[p])
  <2> SUFFICES ASSUME NEW i \in 1 .. Len(got'[p])
               PROVE  \E h \in out[p] : /\ h.kind = "DATA" /\ h.reply.to = got'[p][i]
                                        /\ h.seq < peer'[p].rcv
    BY DEF Past
  <2>1. /\ Len(got'[p]) = Len(got[p]) + 1 /\ Len(got[p]) \in Nat
        /\ got'[p][Len(got[p]) + 1] = g.reply.to
        /\ \A j \in 1 .. Len(got[p]) : got'[p][j] = got[p][j]
    BY <1>3, <1>4, <1>5
  <2>2. CASE i = Len(got[p]) + 1
    <3>1. g.seq < peer'[p].rcv
      BY <1>1, <1>4, <1>5
    <3> QED
      BY <1>1, <2>1, <2>2, <3>1
  <2>3. CASE i \in 1 .. Len(got[p])
    BY <1>9, <2>1, <2>3
  <2> QED
    BY <2>1, <2>2, <2>3
<1>12. AnswersRead'
  BY <1>2, <1>5, <1>8, <1>10, <1>11 DEF AInv, AnswersRead, uip, Ascending
<1> QED
  BY <1>7, <1>12

(* A step that reads no data, after which the manager's end is at the same *)
(* number or a later one.                                                  *)
LEMMA NoDataRead ==
    ASSUME AInv, NEW p \in Call, UNCHANGED <<uip, got>>,
           \A q \in Call : q # p => peer'[q] = peer[q],
           peer'[p].state # "none", peer'[p].rcv \in Nat, peer[p].rcv <= peer'[p].rcv
    PROVE  AnswersRead'
<1>1. Past(out[p], peer[p], got[p])
  BY DEF AInv, AnswersRead
<1>2. ASSUME NEW g \in out[p], g.kind = "DATA", g.seq < peer[p].rcv
      PROVE  g.seq < peer'[p].rcv
  <2>1. g.seq \in Nat /\ peer[p].rcv \in Nat
    BY <1>2, SentTypes DEF AInv, IInv, TypeOK, Peer
  <2> QED
    BY <1>2, <2>1
<1>3. Past(out[p], peer'[p], got[p])
  BY <1>1, <1>2 DEF Past
<1> QED
  BY <1>3 DEF AInv, AnswersRead, uip, Ascending

LEMMA ManagerAgrees ==
    ASSUME AInv, NEW p \in Call, Manager(p)
    PROVE  EndsAgree' /\ AnswersRead' /\ Untouched'
<1>1. /\ peer \in [Call -> Peer] /\ peer[p] \in Peer /\ peer[p].rcv \in Nat
      /\ peer[p].state = "none" => peer[p].rcv = 0
  BY DEF AInv, IInv, TypeOK, Peer, AnswersRead
<1>2. \A s \in Slot : Active(s) /\ conns[s].call = p =>
          /\ snd[p] <= peer[p].rcv /\ peer[p].rcv <= snd[p] + conns[s].len
          /\ conns[s].state # "SYN_SENT" => 1 <= snd[p]
          /\ conns[s].state = "SYN_SENT" => snd[p] = 0 /\ conns[s].len = 1
          /\ snd[p] \in Nat /\ conns[s].len \in 0 .. 2
  BY EndTypes DEF Agree
<1>3. CASE PeerSyn(p)
  <2>1. Syn \in out[p] /\ peer[p].state = "none" /\ UNCHANGED <<uip, got>>
    BY <1>3 DEF PeerSyn
  <2>2. \/ peer' = [peer EXCEPT ![p].state = "syn_rcvd", ![p].rcv = 1]
        \/ peer' = [peer EXCEPT ![p].state = "dead", ![p].rst = TRUE]
    BY <1>3 DEF PeerSyn
  <2>3. /\ \A q \in Call : q # p => peer'[q] = peer[q]
        /\ peer'[p].state # "none" /\ peer'[p].rcv \in {0, 1}
    BY <1>1, <2>1, <2>2 DEF Peer
  <2>4. \A s \in Slot : Active(s) /\ conns[s].call = p =>
            snd[p] <= peer'[p].rcv /\ peer'[p].rcv <= snd[p] + conns[s].len
    BY <1>1, <1>2, <2>1, <2>3
  <2>5. EndsAgree' /\ Untouched'
    BY <2>1, <2>3, <2>4, PeerAgrees
  <2>6. peer'[p].rcv \in Nat /\ peer[p].rcv <= peer'[p].rcv
    BY <1>1, <2>1, <2>3
  <2> QED
    BY <2>1, <2>3, <2>5, <2>6, NoDataRead
<1>4. CASE PeerRead(p)
  BY <1>4, PeerReadReads
<1>5. CASE PeerFin(p)
  <2>1. /\ Fin(peer[p].rcv) \in out[p] /\ UNCHANGED <<uip, got>>
        /\ peer' = [peer EXCEPT ![p].state = "dead", ![p].rcv = @ + 1]
    BY <1>5 DEF PeerFin
  <2>2. /\ \A q \in Call : q # p => peer'[q] = peer[q]
        /\ peer'[p].state = "dead" /\ peer'[p].rcv = peer[p].rcv + 1
    BY <1>1, <2>1 DEF Peer
  <2>3. Fin(peer[p].rcv).kind = "FIN" /\ Fin(peer[p].rcv).seq = peer[p].rcv
    BY DEF Fin
  <2>4. \A s \in Slot : Active(s) /\ conns[s].call = p =>
            snd[p] <= peer[p].rcv + 1 /\ peer[p].rcv + 1 <= snd[p] + conns[s].len
    BY <2>1, <2>3, ReadAgrees
  <2>5. EndsAgree' /\ Untouched'
    BY <2>1, <2>2, <2>4, PeerAgrees
  <2>6. peer'[p].rcv \in Nat /\ peer[p].rcv <= peer'[p].rcv
    BY <1>1, <2>2
  <2> QED
    BY <2>1, <2>2, <2>5, <2>6, NoDataRead
<1>6. CASE PeerEstablish(p) \/ PeerWrite(p) \/ PeerClose(p) \/ PeerReset(p)
  <2>1. UNCHANGED <<uip, got>> /\ peer[p].state # "none"
    BY <1>6 DEF PeerEstablish, PeerWrite, PeerClose, PeerReset
  <2>2. /\ \A q \in Call : q # p => peer'[q] = peer[q]
        /\ peer'[p].state # "none" /\ peer'[p].rcv = peer[p].rcv
    <3>1. CASE PeerEstablish(p)
      BY <1>1, <3>1 DEF PeerEstablish, Peer
    <3>2. CASE PeerWrite(p)
      BY <1>1, <3>2 DEF PeerWrite, Peer
    <3>3. CASE PeerClose(p)
      BY <1>1, <3>3 DEF PeerClose, Peer
    <3>4. CASE PeerReset(p)
      BY <1>1, <3>4 DEF PeerReset, Peer
    <3> QED
      BY <1>6, <3>1, <3>2, <3>3, <3>4
  <2>3. peer[p] # NoPeer
    BY <2>1 DEF NoPeer
  <2>4. EndsAgree' /\ Untouched'
    BY <1>2, <2>1, <2>2, <2>3, PeerAgrees
  <2>5. peer'[p].rcv \in Nat /\ peer[p].rcv <= peer'[p].rcv
    BY <1>1, <2>2
  <2> QED
    BY <2>1, <2>2, <2>4, <2>5, NoDataRead
<1> QED
  BY <1>3, <1>4, <1>5, <1>6 DEF Manager

LEMMA AgreementInit == Init => AInv
<1> SUFFICES ASSUME Init
             PROVE  EndsAgree /\ AnswersRead /\ Untouched
  BY InitEstablishes DEF AInv
<1>1. \A p \in Call : /\ snd[p] = 0 /\ out[p] = {} /\ peer[p] = NoPeer
                      /\ got[p] = <<>> /\ Len(got[p]) = 0
  BY DEF Init
<1>2. /\ NoPeer.state = "none" /\ NoPeer.rcv = 0
  BY DEF NoPeer
<1>3. ASSUME NEW s \in Slot, Active(s)
      PROVE  conns[s] = Fresh(1) /\ conns[s].call \in Call
  BY <1>3, BoundsAssumption DEF Init, Active, Fresh, Call
<1>4. Fresh(1).state = "SYN_SENT" /\ Fresh(1).len = 1
  BY DEF Fresh
<1>5. EndsAgree
  BY <1>1, <1>2, <1>3, <1>4 DEF EndsAgree, Agree
<1>6. AnswersRead
  BY <1>1, <1>2 DEF AnswersRead, Ordered, Past, Ascending
<1> QED
  BY <1>1, <1>5, <1>6 DEF Untouched

LEMMA AgreementStep == AInv /\ [Next]_vars => AInv'
<1> SUFFICES ASSUME AInv, [Next]_vars
             PROVE  EndsAgree' /\ AnswersRead' /\ Untouched'
  BY NextKeeps DEF AInv
<1>1. CASE UNCHANGED vars
  BY <1>1 DEF vars, uip, far, AInv, EndsAgree, AnswersRead, Untouched, Active, Ascending
<1>2. ASSUME NEW s \in Slot, Periodic(s)
      PROVE  EndsAgree' /\ AnswersRead' /\ Untouched'
  BY <1>2, RetransmitAgrees, TimeOutAgrees DEF Periodic
<1>3. ASSUME NEW s \in Slot, Input(s)
      PROVE  EndsAgree' /\ AnswersRead' /\ Untouched'
  BY <1>3, RecvRstAgrees, RecvStaleAgrees, RecvSynAckAgrees, RecvDataAgrees, RecvFinAgrees,
     RecvLastAckAgrees DEF Input
<1>4. ASSUME NEW p \in Call, Manager(p) \/ RecvStray(p)
      PROVE  EndsAgree' /\ AnswersRead' /\ Untouched'
  BY <1>4, ManagerAgrees, RecvStrayAgrees
<1> QED
  BY <1>1, <1>2, <1>3, <1>4 DEF Next

THEOREM Agreement == Spec => []AInv
<1> QED
  BY AgreementInit, AgreementStep, PTL DEF Spec

(* What uip_process takes as acknowledged has arrived at the manager, and  *)
(* nothing has arrived there that is not in uip_conn.len yet, for any      *)
(* loss, repetition and reordering and through every retransmission.       *)
THEOREM EndsStayInStep == Spec => []SequenceAgreement
<1>1. AInv => SequenceAgreement
  BY DEF AInv, EndsAgree, Agree, SequenceAgreement, Active
<1> QED
  BY <1>1, Agreement, PTL

(* Although the application never sends the same data twice when uIP asks  *)
(* it to, the manager gets at most one answer to each message, in order.   *)
THEOREM AnswersStayInOrder == Spec => []AnswersInOrder
<1>1. AInv => AnswersInOrder
  BY DEF AInv, AnswersRead, AnswersInOrder
<1> QED
  BY <1>1, Agreement, PTL
=============================================================================
