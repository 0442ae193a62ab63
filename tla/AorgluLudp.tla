----------------------------- MODULE AorgluLudp -----------------------------
(***************************************************************************)
(* Location updates of AORGLU (src/aorglu/aorglu.cc): a moving node keeps  *)
(* a cache of the peers that have asked for a route to it, and sends them  *)
(* its position every time it has moved LUDP_RADIUS away from where it was *)
(* at the last update.  The peers look that position up when they repair   *)
(* a route.                                                                *)
(*                                                                         *)
(* The node moves on a line, in steps of a discrete time.  The route to a  *)
(* peer is a channel that keeps the order of the messages and loses some.  *)
(***************************************************************************)
EXTENDS Integers, Sequences, SequencesExt

CONSTANTS
  Peer,             \* the nodes that ask for a route to the moving node
  NoLoc,            \* "no entry" of a peer's location table
  LUDP_RADIUS,      \* aorglu.h: how far the node moves unreported
  LUDP_INTERVAL,    \* aorglu.h: how often it looks how far it has moved
  LUDP_CACHE_SAVE,  \* aorglu.h: how long a silent peer stays active
  Speed,            \* the farthest the node moves in one step of the time
  Field,            \* bound: the positions it takes
  MaxNow,           \* bound: the length of the simulation
  MaxAir            \* bound: messages on the way to one peer

ASSUME RadiusAssumption == LUDP_RADIUS \in Nat \ {0} /\ Speed \in Nat
ASSUME TimeAssumption ==
  /\ LUDP_INTERVAL \in Nat \ {0} /\ LUDP_CACHE_SAVE \in Nat \ {0}
  /\ MaxNow \in Nat /\ MaxAir \in Nat
ASSUME FieldAssumption == Field \subseteq Int /\ 0 \in Field /\ NoLoc \notin Int

VARIABLES
  now,     \* the clock
  at,      \* where the node is
  last,    \* lastX_: where it was when it last sent updates
  cache,   \* lchead: the LUDP cache, its first entry first
  lutime, cctime,  \* when the update timer and the cache timer are due
  air,     \* air[p]: positions on the way to p
  loc,     \* loc[p]: where p believes the node to be
  missed   \* the peers whose last position was lost on its way

vars == <<now, at, last, cache, lutime, cctime, air, loc, missed>>

Distance(a, b) == IF a > b THEN a - b ELSE b - a

Init ==
  /\ now = 0 /\ at = 0 /\ last = 0
  /\ cache = <<>>
  /\ lutime = 0 /\ cctime = 0
  /\ air = [p \in Peer |-> <<>>]
  /\ loc = [p \in Peer |-> NoLoc]
  /\ missed = {}

(***************************************************************************)
(* The cache.  Each entry tells whether its memory has been freed.         *)
(***************************************************************************)
Cached(p) == \E i \in DOMAIN cache : cache[i].dst = p

\* The first entry of the list with the address.
ludpcache_lookup(p) == SelectInSeq(cache, LAMBDA e : e.dst = p)

Renewed(e) == [e EXCEPT !.active = TRUE, !.expire = now + LUDP_CACHE_SAVE]

ludpcache_insert(p) ==
  IF Cached(p) THEN [cache EXCEPT ![ludpcache_lookup(p)] = Renewed(@)]
  ELSE <<Renewed([dst |-> p, active |-> TRUE, expire |-> 0, freed |-> FALSE])>> \o cache

ludpcache_update(p) ==
  IF Cached(p) THEN [cache EXCEPT ![ludpcache_lookup(p)] = Renewed(@)] ELSE cache

ludpcache_delete(p) ==
  IF Cached(p) THEN RemoveAt(cache, ludpcache_lookup(p)) ELSE cache

\* Entries that have expired are marked inactive and freed where they are:
\* nothing takes them off the list.  What the allocator does to the pointer to
\* the next entry is undefined; the list goes on as before or ends there.
ludpcache_checkactive ==
  LET marked == [i \in DOMAIN cache |->
        IF cache[i].expire <= now
        THEN [cache[i] EXCEPT !.active = FALSE, !.freed = TRUE] ELSE cache[i]]
  IN {marked} \cup {SubSeq(marked, 1, i) : i \in {i \in DOMAIN cache : marked[i].freed}}

(***************************************************************************)
(* Actions.                                                                *)
(***************************************************************************)
\* The simulation goes on once no timer is due, and the node with it.
Tick ==
  /\ now < MaxNow /\ now < lutime /\ now < cctime
  /\ now' = now + 1
  /\ \E x \in Field : Distance(at, x) <= Speed /\ at' = x
  /\ UNCHANGED <<last, cache, lutime, cctime, air, loc, missed>>

\* sendLudp to the peers of S.
sendLudp(S) ==
  /\ \A p \in S : Len(air[p]) < MaxAir
  /\ air' = [p \in Peer |-> IF p \in S THEN Append(air[p], at) ELSE air[p]]

\* Mutant: the node remembers where it is at every expiry.
LocationUpdateTimerCreeps ==
  /\ now = lutime
  /\ lutime' = now + LUDP_INTERVAL
  /\ last' = at
  /\ IF Distance(at, last) >= LUDP_RADIUS
     THEN sendLudp({cache[i].dst : i \in {i \in DOMAIN cache : cache[i].active}})
     ELSE UNCHANGED air
  /\ UNCHANGED <<now, at, cache, cctime, loc, missed>>

LocationUpdateTimer ==
  /\ now = lutime
  /\ lutime' = now + LUDP_INTERVAL
  /\ IF Distance(at, last) >= LUDP_RADIUS
     THEN /\ last' = at
          /\ sendLudp({cache[i].dst : i \in {i \in DOMAIN cache : cache[i].active}})
     ELSE UNCHANGED <<last, air>>
  /\ UNCHANGED <<now, at, cache, cctime, loc, missed>>

LUDPCacheTimer ==
  /\ now = cctime
  /\ cctime' = now + LUDP_CACHE_SAVE
  /\ cache' \in ludpcache_checkactive
  /\ UNCHANGED <<now, at, last, lutime, air, loc, missed>>

\* A route request of p: the reply carries the position of the node.
recvRequest(p) ==
  /\ cache' = ludpcache_insert(p)
  /\ sendLudp({p})
  /\ UNCHANGED <<now, at, last, lutime, cctime, loc, missed>>

\* Any other packet of p.
recv(p) ==
  /\ cache' = ludpcache_update(p)
  /\ UNCHANGED <<now, at, last, lutime, cctime, air, loc, missed>>

\* rt_purge: the route to p has expired.
rt_purge(p) ==
  /\ cache' = ludpcache_delete(p)
  /\ UNCHANGED <<now, at, last, lutime, cctime, air, loc, missed>>

\* recvLudp, or recvReply, at p.
recvLudp(p) ==
  /\ air[p] # <<>>
  /\ loc' = [loc EXCEPT ![p] = Head(air[p])]
  /\ air' = [air EXCEPT ![p] = Tail(@)]
  /\ missed' = missed \ {p}
  /\ UNCHANGED <<now, at, last, cache, lutime, cctime>>

\* A position is lost on its way.  Nobody repeats it.
Lose(p) ==
  /\ air[p] # <<>>
  /\ air' = [air EXCEPT ![p] = Tail(@)]
  /\ missed' = missed \cup {p}
  /\ UNCHANGED <<now, at, last, cache, lutime, cctime, loc>>

Next ==
  \/ Tick \/ LocationUpdateTimer \/ LUDPCacheTimer
  \/ \E p \in Peer : recvRequest(p) \/ recv(p) \/ rt_purge(p) \/ recvLudp(p) \/ Lose(p)

Spec == Init /\ [][Next]_vars

(***************************************************************************)
(* Properties.                                                             *)
(***************************************************************************)
\* The peers that are sent updates, and that have every position sent to them.
UpToDate ==
  {p \in Peer \ missed : air[p] = <<>> /\ \E i \in DOMAIN cache :
                           cache[i].dst = p /\ cache[i].active}

\* How far the node gets from where it last reported itself before it looks.
Unreported == LUDP_RADIUS - 1 + Speed * LUDP_INTERVAL

\* LocationUpdateTimer: a peer that is sent updates knows where the node is,
\* up to twice the way it moves unreported: once before the peer asked, once
\* since.
RecordClose == \A p \in UpToDate : Distance(loc[p], at) <= 2 * Unreported

\* LocationUpdateTimer reads every entry of the cache, and skips the ones that
\* are marked inactive: an entry on the list has not been freed.
ListedIsAllocated == \A i \in DOMAIN cache : ~cache[i].freed
=============================================================================
