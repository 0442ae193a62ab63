---------------------------- MODULE PacketBuffer ----------------------------
(***************************************************************************)
(* What the send buffer of a routing agent promises: packets for which no  *)
(* route is known yet, in the order they came, at most Limit of them and   *)
(* none handed out after Timeout.  AorgluRqueue implements it.             *)
(***************************************************************************)
EXTENDS Integers, Sequences, SequencesExt

CONSTANTS
  Packet,   \* packets
  Address,  \* destinations
  dst,      \* dst[p]: the destination of packet p
  Null,     \* no packet
  Limit,    \* packets the buffer holds
  Timeout   \* time units a packet is kept

VARIABLES
  buffer,   \* the packets in order: records of packet and time left
  result    \* what the last call returned, or handed to drop()

Contents == {buffer[i].pkt : i \in DOMAIN buffer}

Item(p) == [pkt |-> p, left |-> Timeout]

\* What a call finds once the packets that timed out are gone: they came first.
Fresh ==
  LET first == SelectInSeq(buffer, LAMBDA item : item.left >= 0)
  IN IF first = 0 THEN <<>> ELSE SubSeq(buffer, first, Len(buffer))

Init == buffer = <<>> /\ result = Null

\* A full buffer makes room for the new packet by giving up its oldest one.
Enque(p) ==
  /\ p \notin Contents
  /\ IF Len(Fresh) = Limit
     THEN /\ buffer' = Append(Tail(Fresh), Item(p))
          /\ result' = Head(Fresh).pkt
     ELSE /\ buffer' = Append(Fresh, Item(p))
          /\ result' = Null

\* The packet at position i leaves; position 0 is none.
Take(i) ==
  /\ buffer' = IF i = 0 THEN Fresh ELSE RemoveAt(Fresh, i)
  /\ result' = IF i = 0 THEN Null ELSE Fresh[i].pkt

Deque == Take(IF Fresh = <<>> THEN 0 ELSE 1)

DequeFor(d) == Take(SelectInSeq(Fresh, LAMBDA item : dst[item.pkt] = d))

Find(d) ==
  /\ result' = \E i \in DOMAIN buffer : dst[buffer[i].pkt] = d
  /\ UNCHANGED buffer

\* Time passes for every packet alike.
Tick ==
  /\ buffer' = [i \in DOMAIN buffer |->
                 [buffer[i] EXCEPT !.left = IF @ < 0 THEN @ ELSE @ - 1]]
  /\ UNCHANGED result

Next ==
  \/ \E p \in Packet : Enque(p)
  \/ Deque
  \/ \E d \in Address : DequeFor(d) \/ Find(d)
  \/ Tick

Spec == Init /\ [][Next]_<<buffer, result>>
=============================================================================
