------------------------------- MODULE MCAodv -------------------------------
(***************************************************************************)
(* Small networks for Aodv.                                                *)
(***************************************************************************)
EXTENDS Aodv

Both(S) == S \cup {<<l[2], l[1]>> : l \in S}

\* 0, 1 and 2 hear each other, and any other node is out of reach.  A link
\* may lose whatever it likes, so this holds every line of 0, 1 and 2 as well.
TriangleLink == Both({<<0, 1>>, <<1, 2>>, <<0, 2>>})

\* 0 has data for 2, which it can find, and for 3, which it cannot.
TriangleFlow == {<<0, 2>>, <<0, 3>>}

\* Three searches for 0, one answer for 2.
TriangleSeqno == [n \in Node |-> IF n = 0 THEN 8 ELSE IF n = 1 THEN 2 ELSE 4]

(***************************************************************************)
(* 0 - 1 - 2 - 3 after 0 has found a route to 3: where a local repair can  *)
(* begin.  It takes a packet with more hops behind it than ahead.          *)
(***************************************************************************)
LongLink == Both({<<0, 1>>, <<1, 2>>, <<2, 3>>})
LongFlow == {<<0, 3>>}
\* 2 sends to 3 as well.
ShareFlow == {<<0, 3>>, <<2, 3>>}
\* 0 and 1 take no number, and so give no neighbour up; 2 takes one or two, for
\* a repair and a neighbour it gives up, and 3 answers once at most.
LongSeqno == [n \in Node |-> CASE n = 0 -> 4 [] n = 1 -> 2 [] OTHER -> 6]

Route(s, h, hop, users, ttl) ==
  [rt_update(NoEntry, s, h, hop) EXCEPT !.pc = users, !.reqTtl = ttl]

\* The route back to 0 that its request has taught n.
Reverse(n) == Route(4, n, n - 1, {}, 0)
Expired(n) == Invalidate(Reverse(n))

\* 3, asked by 0, has the number s; 2 has the number t; n > 0 has the route
\* Back(n) to 0.
Established(s, t, Back(_)) ==
  /\ seqno = [n \in Node |-> CASE n = 0 -> 4 [] n = 1 -> 2 [] n = 2 -> t [] OTHER -> s]
  /\ bid = [n \in Node |-> IF n = 0 THEN 2 ELSE 1]
  /\ rt = [n \in Node |-> [d \in Node |->
       CASE d = 3 /\ n < 3 -> Route(s, 3 - n, n + 1, IF n = 0 THEN {} ELSE {n - 1}, 3 - n)
         [] d = 0 /\ n > 0 -> Back(n)
         [] OTHER -> NoEntry]]
  /\ ids = [n \in Node |-> {}]
  /\ queue = [n \in Node |-> {}]
  /\ repair = [n \in Node |-> [d \in Node |-> 0]]
  /\ rreq = {} /\ rrep = {} /\ rerr = {}
  /\ failed = {}

\* The first packet has arrived; another one is to be sent.
OneArrived == Established(4, 4, Reverse) /\ data = {} /\ nsent = 1

\* A packet of 0 and one of 2 are on the last hop to 3; the routes back to 0,
\* which nobody uses, have expired.
TwoUnderWay ==
  /\ Established(6, 2, Expired)
  /\ data = {[from |-> 2, to |-> 3,
               pkt |-> [id |-> i, src |-> IF i = 1 THEN 0 ELSE 2, dst |-> 3,
                        ttl |-> IF i = 1 THEN NETWORK_DIAMETER - 2
                                         ELSE NETWORK_DIAMETER]] : i \in 1..2}
  /\ nsent = 2

RepairSpec == (OneArrived \/ TwoUnderWay) /\ [][Next]_vars
FairRepairSpec == RepairSpec /\ RepairFairness

\* The routes lead to their destinations: no circle of next hops.
NoLoop == Routes!NoLoop
=============================================================================
