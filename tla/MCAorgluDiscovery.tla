------------------------ MODULE MCAorgluDiscovery ------------------------
(***************************************************************************)
(* Small networks for AorgluDiscovery.                                     *)
(***************************************************************************)
EXTENDS AorgluDiscovery

Both(S) == S \cup {<<l[2], l[1]>> : l \in S}

\* The three hear each other.  A link may lose whatever it likes, so that this
\* holds every line of them as well.
TriangleLink == Both({<<0, 1>>, <<1, 2>>, <<0, 2>>})
\* 0 - 1 - 2
LineLink == Both({<<0, 1>>, <<1, 2>>})
\* 0 - 1
PairLink == Both({<<0, 1>>})

OneWayFlow == {<<0, 2>>}
\* 0 and 2 search for each other.
TwoWayFlow == {<<0, 2>>, <<2, 0>>}
CrossFlow == {<<0, 1>>, <<1, 0>>}

\* 0 takes two numbers, for two searches or a search and an answer, and 2 one.
MeetSeqno == [n \in Node |-> IF n = 0 THEN 6 ELSE IF n = 1 THEN 2 ELSE 4]
\* Two searches of 0 and two answers of 2.
TriangleSeqno == [n \in Node |-> IF n = 1 THEN 2 ELSE 6]
LineSeqno == [n \in Node |-> IF n = 1 THEN 4 ELSE 8]
PairSeqno == [n \in Node |-> IF n = 0 THEN 8 ELSE 6]
LongSeqno == [n \in Node |-> 10]

\* rt_purge does not search for the packets in the buffer: "each generated
\* packet will do a sendRequest anyway".  In GivenUp.cfg every request
\* is network-wide and counted, so the count is 0 when none has gone out since
\* the last search was given up.
BufferedIsAsked == \A n \in Node : \A p \in queue[n] : rt[n][p.dst].reqCnt > 0
=============================================================================
