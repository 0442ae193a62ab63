------------------------------ MODULE PriQueue ------------------------------
(***************************************************************************)
(* The interface queue of a node (src/queue/priqueue.cc): a drop-tail      *)
(* queue in which routing packets go in front of the others, between a     *)
(* routing agent and a link layer that takes one packet at a time.         *)
(*                                                                         *)
(* Queue, DropTail and PacketQueue are ns-2's and not part of the source:  *)
(* a DropTail refuses the packet that would make its length qlim, and a    *)
(* Queue hands a packet down when nothing is on the link.                  *)
(***************************************************************************)
EXTENDS Integers, Sequences, FiniteSets, SequencesExt

CONSTANTS
  Packet,   \* the packets
  Routing,  \* those of a routing protocol (PT_DSR ... PT_AOMDV)
  Hop,      \* the next hops of packets
  qlim      \* the limit of the queue

ASSUME PacketAssumption == Routing \subseteq Packet
ASSUME LimitAssumption == qlim \in Nat \ {0}

VARIABLES
  Prefer,   \* Prefer_Routing_Protocols, bound from OTcl
  next_hop, \* next_hop[p]: where the agent sends p
  q,        \* q_: the queue, its head first
  link,     \* the packet handed to the target, if any: the queue is blocked
  out       \* packets that have left the queue another way: sent, dropped, filtered

vars == <<Prefer, next_hop, q, link, out>>

InQueue == {q[i] : i \in DOMAIN q}

\* The agent has not sent p yet.
Fresh(p) == p \notin InQueue \cup link \cup out

Init ==
  /\ Prefer \in BOOLEAN
  /\ next_hop \in [Packet -> Hop]
  /\ q = <<>> /\ link = {} /\ out = {}

\* deque(), when the queue is not blocked: the head of s goes to the target.
HandDown(s) ==
  IF link = {} /\ s # <<>>
  THEN q' = Tail(s) /\ link' = {Head(s)}
  ELSE q' = s /\ UNCHANGED link

\* Queue::recv() of a packet of another kind, with DropTail::enque().
QueueRecv(p) ==
  IF Len(q) + 1 >= qlim
  THEN HandDown(q) /\ out' = out \cup {p}
  ELSE HandDown(Append(q, p)) /\ UNCHANGED out

\* Mutants: the length is looked at before the packet is in; the packet that
\* came last is dropped; the packet goes to the end; nothing is handed down.
recvHighPriorityEarly(p) ==
  IF Len(q) >= qlim
  THEN HandDown(<<p>> \o Front(q)) /\ out' = out \cup {Last(q)}
  ELSE HandDown(<<p>> \o q) /\ UNCHANGED out

recvHighPriorityTail(p) ==
  IF Len(q) + 1 >= qlim
  THEN HandDown(q) /\ out' = out \cup {p}
  ELSE HandDown(Append(q, p)) /\ UNCHANGED out

recvHighPriorityQuiet(p) ==
  /\ UNCHANGED link
  /\ IF Len(q) + 1 >= qlim
     THEN q' = Front(<<p>> \o q) /\ out' = out \cup {Last(<<p>> \o q)}
     ELSE q' = <<p>> \o q /\ UNCHANGED out

\* enqueHead, and the last packet of a queue that is then too long is dropped.
recvHighPriority(p) ==
  LET longer == <<p>> \o q
  IN IF Len(longer) >= qlim
     THEN HandDown(Front(longer)) /\ out' = out \cup {Last(longer)}
     ELSE HandDown(longer) /\ UNCHANGED out

recv(p) ==
  /\ Fresh(p)
  /\ IF Prefer /\ p \in Routing THEN recvHighPriority(p) ELSE QueueRecv(p)
  /\ UNCHANGED <<Prefer, next_hop>>

\* The link layer is done with its packet: Queue::resume().
resume ==
  /\ link # {}
  /\ out' = out \cup link
  /\ IF q = <<>> THEN link' = {} /\ UNCHANGED q
                 ELSE link' = {Head(q)} /\ q' = Tail(q)
  /\ UNCHANGED <<Prefer, next_hop>>

\* filter(fn, data): every packet fn holds for leaves the queue, the others
\* keep their order.
filterAll(S) ==
  LET kept == {i \in DOMAIN q : q[i] \notin S}
  IN /\ \E at \in [1..Cardinality(kept) -> kept] :
          /\ \A i, j \in DOMAIN at : i < j => at[i] < at[j]
          /\ q' = [i \in DOMAIN at |-> q[at[i]]]
     /\ out' = out \cup (InQueue \cap S)
     /\ UNCHANGED <<Prefer, next_hop, link>>

\* Where the first packet for the hop is in the queue.
FirstFor(id) ==
  {i \in DOMAIN q : next_hop[q[i]] = id /\ \A j \in 1..(i - 1) : next_hop[q[j]] # id}

\* Mutant: the packet stays in the queue.
filterKeeps(id) ==
  \E at \in FirstFor(id) :
    /\ out' = out \cup {q[at]}
    /\ UNCHANGED <<Prefer, next_hop, q, link>>

\* filter(id): the first packet for the hop leaves the queue.
filter(id) ==
  \E at \in FirstFor(id) :
    /\ q' = RemoveAt(q, at)
    /\ out' = out \cup {q[at]}
    /\ UNCHANGED <<Prefer, next_hop, link>>

\* reset: everything in the queue is dropped.
Terminate ==
  /\ q # <<>>
  /\ q' = <<>>
  /\ out' = out \cup InQueue
  /\ UNCHANGED <<Prefer, next_hop, link>>

Next ==
  \/ \E p \in Packet : recv(p)
  \/ resume
  \/ \E S \in SUBSET Packet : filterAll(S)
  \/ \E id \in Hop : filter(id)
  \/ Terminate

Spec == Init /\ [][Next]_vars

(***************************************************************************)
(* Properties.                                                             *)
(***************************************************************************)
\* recvHighPriority: when routing packets are preferred, none of them waits
\* behind another packet, whatever was dropped or taken out in between.
RoutingFirst ==
  Prefer => \A i, j \in DOMAIN q : i < j /\ q[j] \in Routing => q[i] \in Routing

\* recvHighPriority and DropTail agree on the limit of the queue.
BelowLimit == Len(q) < qlim

\* recvHighPriority, "get a packet and send it on": no packet waits while the
\* link is free.
NoneWaitsForNothing == q # <<>> => link # {}

\* filter(id): a packet is in one place, and once: a packet that was handed
\* to its finder is not sent as well.
PacketOnce ==
  /\ IsInjective(q)
  /\ InQueue \cap link = {} /\ InQueue \cap out = {} /\ link \cap out = {}
=============================================================================
