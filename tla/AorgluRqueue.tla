---------------------------- MODULE AorgluRqueue ----------------------------
(***************************************************************************)
(* The send buffer of an AORGLU agent (src/aorglu/aorglu_rqueue.cc): a     *)
(* singly linked list threaded through the packets themselves.  A packet   *)
(* that leaves the list keeps its next_ pointer.                           *)
(*                                                                         *)
(* Deadlines are kept as the time left: ts_ - CURRENT_TIME, where every    *)
(* negative value is -1, so that a packet has timed out when it is < 0.    *)
(***************************************************************************)
EXTENDS Integers, Sequences, SequencesExt, FiniteSets

CONSTANTS
  Packet,   \* packets
  Address,  \* destinations
  dst,      \* dst[p]: daddr() of packet p
  Null,     \* the null pointer
  Limit,    \* limit_
  Timeout   \* timeout_

ASSUME QueueAssumption ==
  /\ IsFiniteSet(Packet) /\ Null \notin Packet /\ dst \in [Packet -> Address]
  /\ Limit \in Nat \ {0} /\ Timeout \in Nat

VARIABLES
  list,     \* head_, tail_, len_ and the next_ pointer of every packet
  left,     \* ts_ of every packet, as time left
  result    \* what the last call returned, or handed to drop()

vars == <<list, left, result>>

Pointer == Packet \cup {Null}

Init ==
  /\ list = [head |-> Null, tail |-> Null, len |-> 0,
             next |-> [p \in Packet |-> Null]]
  /\ left = [p \in Packet |-> -1]
  /\ result = Null

(***************************************************************************)
(* The list.                                                               *)
(***************************************************************************)

\* The packets a walk from head_ meets; a cycle shows as one packet too many.
Chain(l) ==
  LET walk[k \in 0..Cardinality(Packet) + 1] ==
        [p \in Pointer |-> IF k = 0 \/ p = Null THEN <<>>
                           ELSE <<p>> \o walk[k - 1][l.next[p]]]
  IN walk[Cardinality(Packet) + 1][l.head]

remove_head(l) ==
  [l EXCEPT !.head = IF l.head = l.tail THEN Null ELSE l.next[l.head],
            !.tail = IF l.head = l.tail THEN Null ELSE @,
            !.len  = IF l.head = Null THEN @ ELSE @ - 1]

\* The i-th packet leaves: at the head, at the tail, or in the middle.
unlink(l, i) ==
  LET p    == Chain(l)[i]
      prev == Chain(l)[i - 1]
  IN IF p = l.head THEN remove_head(l)
     ELSE IF p = l.tail
     THEN [l EXCEPT !.next[prev] = Null, !.tail = prev, !.len = @ - 1]
     ELSE [l EXCEPT !.next[prev] = l.next[p], !.len = @ - 1]

\* Position of the first packet with that destination, or 0.
findPacketWithDst(l, d) == SelectInSeq(Chain(l), LAMBDA p : dst[p] = d)

\* Mutant: a packet whose last moment is now has timed out too.
findAgedPacketEarly(l) == SelectInSeq(Chain(l), LAMBDA p : left[p] <= 0)

findAgedPacket(l) == SelectInSeq(Chain(l), LAMBDA p : left[p] < 0)

purge_one(l) == IF findAgedPacket(l) = 0 THEN l ELSE unlink(l, findAgedPacket(l))

\* The packets that timed out leave one by one; nobody frees or traces them.
purge(l) ==
  LET after[k \in 0..Cardinality(Packet)] ==
        IF k = 0 THEN l ELSE purge_one(after[k - 1])
  IN after[Cardinality(Packet)]

(***************************************************************************)
(* The calls.                                                              *)
(***************************************************************************)

\* Mutant: the packet keeps the next_ pointer it came with.
appendKeepsNext(l, p) ==
  IF l.head = Null THEN [l EXCEPT !.head = p, !.tail = p, !.len = @ + 1]
  ELSE [l EXCEPT !.next[l.tail] = p, !.tail = p, !.len = @ + 1]

\* p->next_ = 0, and p behind the last packet.
append(l, p) ==
  IF l.head = Null
  THEN [l EXCEPT !.next[p] = Null, !.head = p, !.tail = p, !.len = @ + 1]
  ELSE [l EXCEPT !.next = [@ EXCEPT ![p] = Null, ![l.tail] = p],
                 !.tail = p, !.len = @ + 1]

\* Mutant: a deadline of the packet that has not passed yet is kept.
enqueKeepsDeadline(p) ==
  LET l    == purge(list)
      full == l.len = Limit
  IN /\ \A i \in DOMAIN Chain(list) : Chain(list)[i] # p
     /\ list' = append(IF full THEN remove_head(l) ELSE l, p)
     /\ left' = [left EXCEPT ![p] = IF @ < 0 THEN Timeout ELSE @]
     /\ result' = IF full THEN l.head ELSE Null

\* A packet that is in the buffer is never handed to it again.
enque(p) ==
  LET l    == purge(list)
      full == l.len = Limit
  IN /\ \A i \in DOMAIN Chain(list) : Chain(list)[i] # p
     /\ list' = append(IF full THEN remove_head(l) ELSE l, p)
     /\ left' = [left EXCEPT ![p] = Timeout]
     /\ result' = IF full THEN l.head ELSE Null

deque ==
  LET l == purge(list)
  IN /\ list' = remove_head(l)
     /\ result' = l.head
     /\ UNCHANGED left

dequeFor(d) ==
  LET l == purge(list)
      i == findPacketWithDst(l, d)
  IN /\ list' = IF i = 0 THEN l ELSE unlink(l, i)
     /\ result' = IF i = 0 THEN Null ELSE Chain(l)[i]
     /\ UNCHANGED left

\* find() does not purge: it may find a packet that has timed out.
find(d) ==
  /\ result' = (findPacketWithDst(list, d) # 0)
  /\ UNCHANGED <<list, left>>

Tick ==
  /\ left' = [p \in Packet |-> IF left[p] < 0 THEN left[p] ELSE left[p] - 1]
  /\ UNCHANGED <<list, result>>

Next ==
  \/ \E p \in Packet : enque(p)
  \/ deque
  \/ \E d \in Address : dequeFor(d) \/ find(d)
  \/ Tick

Spec == Init /\ [][Next]_vars

(***************************************************************************)
(* Properties.                                                             *)
(***************************************************************************)

\* verifyQueue(): len_ counts the packets a walk from head_ meets, and the
\* last of them is tail_, whatever stale next_ pointers the packets came with.
VerifyQueue ==
  LET c == Chain(list)
  IN /\ Len(c) = list.len
     /\ list.tail = IF c = <<>> THEN Null ELSE c[Len(c)]

\* purge() looks for timed out packets everywhere, but they are always the
\* first ones: the loop it replaced, which only looked at the head, would do.
AgedAtHead ==
  LET c == Chain(list)
  IN \A i, j \in DOMAIN c : i < j => left[c[i]] <= left[c[j]]

Items(c) == [i \in DOMAIN c |-> [pkt |-> c[i], left |-> left[c[i]]]]

\* The buffer of the specification: the chain of packets.
Buffer == INSTANCE PacketBuffer WITH buffer <- Items(Chain(list))

\* The linked list implements the buffer: same packets handed out in the same
\* order, same packet evicted when full, nothing older than the timeout.
ImplementsBuffer == Buffer!Spec

\* aorglu_rqueue.h: "The maximum period of time that a routing protocol is
\* allowed to buffer a packet for."
BufferPeriod ==
  \A i \in DOMAIN Chain(list) : left[Chain(list)[i]] >= 0
=============================================================================
