------------------------- MODULE AorgluLudp_proofs -------------------------
(***************************************************************************)
(* Proofs about AorgluLudp: how far a record of a peer is from the node.   *)
(*                                                                         *)
(* The argument follows one position: the node is never further from where *)
(* it last reported itself than it moves between two expiries of its       *)
(* timer, and neither was any position on the way to a peer of the cache,  *)
(* or on record there, when it was sent.                                   *)
(***************************************************************************)
EXTENDS AorgluLudp, SequenceTheorems, WellFoundedInduction, TLAPS

(***************************************************************************)
(* Types.                                                                  *)
(***************************************************************************)
Entry == [dst: Peer, active: BOOLEAN, expire: Nat, freed: BOOLEAN]

TypeOK ==
  /\ now \in Nat /\ lutime \in Nat /\ cctime \in Nat
  /\ at \in Int /\ last \in Int
  /\ cache \in Seq(Entry)
  /\ air \in [Peer -> Seq(Int)]
  /\ loc \in [Peer -> Int \cup {NoLoc}]
  /\ missed \subseteq Peer

LEMMA RenewedType ==
  ASSUME TypeOK, NEW e \in Entry
  PROVE  /\ Renewed(e) \in Entry
         /\ Renewed(e).dst = e.dst /\ Renewed(e).active
         /\ Renewed(e).expire = now + LUDP_CACHE_SAVE
<1>1. now + LUDP_CACHE_SAVE \in Nat
  BY TimeAssumption DEF TypeOK
<1> QED BY <1>1 DEF Renewed, Entry

\* The first of the entries of a peer that is in the cache.
LEMMA LookupFinds ==
  ASSUME TypeOK, NEW p \in Peer, Cached(p)
  PROVE  ludpcache_lookup(p) \in DOMAIN cache /\ cache[ludpcache_lookup(p)].dst = p
<1> DEFINE I == {i \in 1..Len(cache) : cache[i].dst = p}
<1>1. DOMAIN cache = 1..Len(cache) /\ Len(cache) \in Nat
  BY LenProperties DEF TypeOK
<1>2. I # {} /\ I \subseteq Nat
  BY <1>1 DEF Cached
<1>3. \E x \in I : \A y \in I : x <= y
  <2>1. IsWellFoundedOn(OpToRel(<, Nat), Nat)
    BY NatLessThanWellFounded
  <2> DEFINE R == OpToRel(<, Nat)
  <2>2. \A x, y \in Nat : x < y => <<x, y>> \in R
    BY DEF OpToRel
  <2> HIDE DEF R, I
  <2>3. PICK x \in I : \A y \in I : ~(<<y, x>> \in R)
    BY <1>2, <2>1, WFMin DEF R
  <2>4. \A y \in I : ~(y < x)
    BY <1>2, <2>2, <2>3
  <2> QED BY <1>2, <2>3, <2>4
<1>4. ludpcache_lookup(p) = IF I # {} THEN Min(I) ELSE 0
  BY DEF ludpcache_lookup, SelectInSeq
<1>5. Min(I) \in I
  <2> HIDE DEF I
  <2> QED BY <1>3 DEF Min
<1> QED BY <1>1, <1>2, <1>4, <1>5

\* Renewing the entry of a peer changes no address.
LEMMA RenewKeeps ==
  ASSUME TypeOK, NEW p \in Peer, Cached(p)
  PROVE  LET c == [cache EXCEPT ![ludpcache_lookup(p)] = Renewed(@)]
         IN /\ c \in Seq(Entry) /\ DOMAIN c = DOMAIN cache
            /\ \A i \in DOMAIN c : /\ c[i].dst = cache[i].dst
                                   /\ c[i] = cache[i] \/ c[i] = Renewed(cache[i])
<1> DEFINE k == ludpcache_lookup(p)
           c == [cache EXCEPT ![k] = Renewed(@)]
<1>1. k \in 1..Len(cache) /\ DOMAIN cache = 1..Len(cache)
  BY LookupFinds, LenProperties DEF TypeOK
<1> HIDE DEF k
<1>2. \A i \in DOMAIN cache : cache[i] \in Entry
  BY <1>1, ElementOfSeq DEF TypeOK
<1>3. Renewed(cache[k]) \in Entry /\ Renewed(cache[k]).dst = cache[k].dst
  BY <1>1, <1>2, RenewedType
<1>4. /\ c \in Seq(Entry) /\ Len(c) = Len(cache)
      /\ \A j \in 1..Len(cache) : c[j] = IF j = k THEN Renewed(cache[k]) ELSE cache[j]
  BY <1>1, <1>3, ExceptSeq DEF TypeOK
<1>5. DOMAIN c = DOMAIN cache
  OBVIOUS
<1>6. \A i \in DOMAIN c : /\ c[i].dst = cache[i].dst
                          /\ c[i] = cache[i] \/ c[i] = Renewed(cache[i])
  BY <1>1, <1>3, <1>4
<1> QED BY <1>4, <1>5, <1>6 DEF k

\* What ludpcache_update, _insert and _delete leave on the list.
LEMMA UpdateList ==
  ASSUME TypeOK, NEW p \in Peer
  PROVE  /\ ludpcache_update(p) \in Seq(Entry)
         /\ \A i \in DOMAIN ludpcache_update(p) :
              \E j \in DOMAIN cache :
                ludpcache_update(p)[i] \in {cache[j], Renewed(cache[j])}
<1>1. CASE Cached(p)
  BY <1>1, RenewKeeps DEF ludpcache_update
<1>2. CASE ~Cached(p)
  BY <1>2 DEF ludpcache_update, TypeOK
<1> QED BY <1>1, <1>2

LEMMA InsertList ==
  ASSUME TypeOK, NEW p \in Peer
  PROVE  /\ ludpcache_insert(p) \in Seq(Entry)
         /\ \A i \in DOMAIN ludpcache_insert(p) :
              \/ \E j \in DOMAIN cache :
                   ludpcache_insert(p)[i] \in {cache[j], Renewed(cache[j])}
              \/ \E e \in Entry : e.dst = p /\ ludpcache_insert(p)[i] = Renewed(e)
<1>1. CASE Cached(p)
  BY <1>1, RenewKeeps DEF ludpcache_insert
<1>2. CASE ~Cached(p)
  <2> DEFINE e == [dst |-> p, active |-> TRUE, expire |-> 0, freed |-> FALSE]
             c == <<Renewed(e)>> \o cache
  <2>1. e \in Entry /\ e.dst = p
    BY DEF Entry
  <2> HIDE DEF e
  <2>2. Renewed(e) \in Entry
    BY <2>1, RenewedType
  <2>3. <<Renewed(e)>> \in Seq(Entry) /\ Len(<<Renewed(e)>>) = 1
    BY <2>2
  <2>4. cache \in Seq(Entry) /\ DOMAIN cache = 1..Len(cache) /\ Len(cache) \in Nat
    BY LenProperties DEF TypeOK
  <2>5. /\ c \in Seq(Entry) /\ Len(c) = 1 + Len(cache)
        /\ \A i \in 1..(1 + Len(cache)) : c[i] = IF i <= 1 THEN <<Renewed(e)>>[i] ELSE cache[i - 1]
    BY <2>3, <2>4, ConcatProperties
  <2>6. DOMAIN c = 1..(1 + Len(cache))
    BY <2>5, LenProperties
  <2>7. ASSUME NEW i \in DOMAIN c
        PROVE  c[i] = Renewed(e) \/ \E j \in DOMAIN cache : c[i] = cache[j]
    <3>1. CASE i = 1
      BY <2>4, <2>5, <2>6, <3>1
    <3>2. CASE i # 1
      <4>1. i - 1 \in DOMAIN cache /\ ~(i <= 1) /\ i \in 1..(1 + Len(cache))
        BY <2>4, <2>6, <3>2
      <4>2. c[i] = cache[i - 1]
        BY <2>5, <4>1
      <4> QED BY <4>1, <4>2
    <3> QED BY <3>1, <3>2
  <2>8. ludpcache_insert(p) = c
    BY <1>2 DEF ludpcache_insert, e
  <2> HIDE DEF c
  <2> QED BY <2>1, <2>5, <2>7, <2>8
<1> QED BY <1>1, <1>2

LEMMA DeleteList ==
  ASSUME TypeOK, NEW p \in Peer
  PROVE  /\ ludpcache_delete(p) \in Seq(Entry)
         /\ \A i \in DOMAIN ludpcache_delete(p) :
              \E j \in DOMAIN cache : ludpcache_delete(p)[i] = cache[j]
<1>1. CASE ~Cached(p)
  BY <1>1 DEF ludpcache_delete, TypeOK
<1>2. CASE Cached(p)
  <2> DEFINE k == ludpcache_lookup(p)
             a == SubSeq(cache, 1, k - 1)
             b == SubSeq(cache, k + 1, Len(cache))
  <2>1. k \in 1..Len(cache) /\ DOMAIN cache = 1..Len(cache) /\ Len(cache) \in Nat
    BY <1>2, LookupFinds, LenProperties DEF TypeOK
  <2> HIDE DEF k
  <2>2. \A i \in 1..Len(cache) : cache[i] \in Entry
    BY ElementOfSeq DEF TypeOK
  <2>3. /\ a \in Seq(Entry) /\ Len(a) = k - 1
        /\ \A i \in 1..(k - 1) : a[i] = cache[i]
    <3>1. 1 \in Int /\ k - 1 \in Int /\ \A i \in 1..(k - 1) : cache[i] \in Entry
      BY <2>1, <2>2
    <3>2. /\ a \in Seq(Entry) /\ Len(a) = IF 1 <= k - 1 THEN (k - 1) - 1 + 1 ELSE 0
          /\ \A i \in 1..((k - 1) - 1 + 1) : a[i] = cache[1 + i - 1]
      BY <3>1, SubSeqProperties
    <3> HIDE DEF a
    <3>3. (k - 1) - 1 + 1 = k - 1 /\ (~(1 <= k - 1) => k - 1 = 0)
      BY <2>1
    <3>4. \A i \in 1..(k - 1) : 1 + i - 1 = i
      BY <2>1
    <3> QED BY <3>2, <3>3, <3>4
  <2>4. /\ b \in Seq(Entry) /\ Len(b) = Len(cache) - k
        /\ \A i \in 1..(Len(cache) - k) : b[i] = cache[k + i]
    <3> DEFINE m == k + 1
               n == Len(cache)
    <3>1. m \in Int /\ n \in Int /\ \A i \in m..n : cache[i] \in Entry
      BY <2>1, <2>2
    <3>2. /\ b \in Seq(Entry) /\ Len(b) = IF m <= n THEN n - m + 1 ELSE 0
          /\ \A i \in 1..(n - m + 1) : b[i] = cache[m + i - 1]
      BY <3>1, SubSeqProperties
    <3> HIDE DEF b
    <3>3. n - m + 1 = Len(cache) - k /\ (~(m <= n) => Len(cache) - k = 0)
      <4>1. \A l \in Nat : \A i \in 1..l :
              l - (i + 1) + 1 = l - i /\ (~(i + 1 <= l) => l - i = 0)
        OBVIOUS
      <4> QED BY <2>1, <4>1
    <3>4. \A i \in 1..(Len(cache) - k) : m + i - 1 = k + i
      BY <2>1
    <3> HIDE DEF m, n
    <3> QED BY <3>2, <3>3, <3>4
  <2> HIDE DEF a, b
  <2>5. /\ a \o b \in Seq(Entry) /\ Len(a \o b) = Len(a) + Len(b)
        /\ \A i \in 1..(Len(a) + Len(b)) : (a \o b)[i] = IF i <= Len(a) THEN a[i] ELSE b[i - Len(a)]
    BY <2>3, <2>4, ConcatProperties
  <2>6. DOMAIN (a \o b) = 1..(Len(a) + Len(b))
    BY <2>5, LenProperties
  <2>7. ASSUME NEW i \in DOMAIN (a \o b)
        PROVE  \E j \in DOMAIN cache : (a \o b)[i] = cache[j]
    <3>1. CASE i <= k - 1
      <4>1. i \in 1..(k - 1) /\ i \in DOMAIN cache /\ i <= Len(a) /\ i \in 1..(Len(a) + Len(b))
        BY <2>1, <2>3, <2>4, <2>6, <3>1
      <4> QED BY <2>3, <2>5, <4>1
    <3>2. CASE ~(i <= k - 1)
      <4>1. /\ i - Len(a) \in 1..(Len(cache) - k) /\ ~(i <= Len(a)) /\ i \in 1..(Len(a) + Len(b))
            /\ k + (i - Len(a)) \in DOMAIN cache
        BY <2>1, <2>3, <2>4, <2>6, <3>2
      <4>2. (a \o b)[i] = cache[k + (i - Len(a))]
        BY <2>4, <2>5, <4>1
      <4> QED BY <4>1, <4>2
    <3> QED BY <3>1, <3>2
  <2>8. ludpcache_delete(p) = a \o b
    BY <1>2 DEF ludpcache_delete, RemoveAt, a, b, k
  <2> QED BY <2>5, <2>7, <2>8
<1> QED BY <1>1, <1>2

\* ludpcache_checkactive: some entries are marked, or the list is cut short.
LEMMA CheckList ==
  ASSUME TypeOK, NEW c \in ludpcache_checkactive
  PROVE  /\ c \in Seq(Entry)
         /\ \A i \in DOMAIN c : \E j \in DOMAIN cache :
              \/ c[i] = cache[j]
              \/ /\ c[i].dst = cache[j].dst /\ ~c[i].active
                 /\ cache[j].expire <= now
<1> DEFINE Off(i) == [cache[i] EXCEPT !.active = FALSE, !.freed = TRUE]
           marked == [i \in DOMAIN cache |->
                        IF cache[i].expire <= now THEN Off(i) ELSE cache[i]]
<1>1. DOMAIN cache = 1..Len(cache) /\ Len(cache) \in Nat
  BY LenProperties DEF TypeOK
<1>2. \A i \in DOMAIN cache : cache[i] \in Entry
  BY <1>1, ElementOfSeq DEF TypeOK
<1>3. ASSUME NEW i \in DOMAIN cache
      PROVE  Off(i) \in Entry /\ Off(i).dst = cache[i].dst /\ ~Off(i).active
  BY <1>2 DEF Entry
<1> HIDE DEF Off
<1>4. ASSUME NEW i \in DOMAIN cache
      PROVE  /\ marked[i] \in Entry
             /\ \/ marked[i] = cache[i]
                \/ /\ marked[i].dst = cache[i].dst /\ ~marked[i].active
                   /\ cache[i].expire <= now
  BY <1>2, <1>3
<1>5. marked \in [1..Len(cache) -> Entry]
  BY <1>1, <1>4
<1>6. marked \in Seq(Entry) /\ Len(marked) = Len(cache) /\ DOMAIN marked = DOMAIN cache
  BY <1>1, <1>5
<1>7. c \in {marked} \cup {SubSeq(marked, 1, i) : i \in {i \in DOMAIN cache : marked[i].freed}}
  BY DEF ludpcache_checkactive, Off
<1> HIDE DEF marked
<1>8. CASE c = marked
  BY <1>4, <1>6, <1>8
<1>9. ASSUME NEW k \in DOMAIN cache, c = SubSeq(marked, 1, k)
      PROVE  /\ c \in Seq(Entry)
             /\ \A i \in DOMAIN c : i \in DOMAIN cache /\ c[i] = marked[i]
  <2>1. 1 \in Int /\ k \in Int /\ \A i \in 1..k : marked[i] \in Entry
    BY <1>1, <1>4
  <2>2. /\ c \in Seq(Entry) /\ Len(c) = IF 1 <= k THEN k - 1 + 1 ELSE 0
        /\ \A i \in 1..(k - 1 + 1) : c[i] = marked[1 + i - 1]
    BY <1>9, <2>1, SubSeqProperties
  <2>3. k - 1 + 1 = k /\ 1 <= k
    BY <1>1
  <2>4. Len(c) = k /\ \A i \in 1..k : c[i] = marked[1 + i - 1]
    BY <2>2, <2>3
  <2>5. DOMAIN c = 1..k
    BY <2>2, <2>4, LenProperties
  <2>6. \A i \in 1..k : 1 + i - 1 = i /\ i \in DOMAIN cache
    BY <1>1
  <2> QED BY <2>2, <2>4, <2>5, <2>6
<1> QED BY <1>4, <1>7, <1>8, <1>9

\* A message more on the way to a peer, or one less.
LEMMA AppendInt ==
  ASSUME NEW s \in Seq(Int), NEW x \in Int
  PROVE  /\ Append(s, x) \in Seq(Int) /\ Append(s, x) # <<>>
         /\ Append(s, x)[Len(Append(s, x))] = x
OBVIOUS

LEMMA TailInt ==
  ASSUME NEW s \in Seq(Int), s # <<>>
  PROVE  /\ Tail(s) \in Seq(Int) /\ Head(s) \in Int
         /\ Tail(s) # <<>> => Tail(s)[Len(Tail(s))] = s[Len(s)]
         /\ Tail(s) = <<>> => s[Len(s)] = Head(s)
<1>1. Len(s) \in Nat /\ Len(s) # 0
  BY LenProperties
<1>2. /\ Head(s) \in Int /\ Tail(s) \in Seq(Int) /\ Len(Tail(s)) = Len(s) - 1
      /\ \A i \in 1..Len(Tail(s)) : Tail(s)[i] = s[i + 1]
  BY HeadTailProperties
<1>3. Head(s) = s[1]
  OBVIOUS
<1>4. ASSUME Tail(s) # <<>> PROVE Tail(s)[Len(Tail(s))] = s[Len(s)]
  <2>1. Len(Tail(s)) # 0
    BY <1>2, <1>4
  <2>2. Len(Tail(s)) \in 1..Len(Tail(s)) /\ Len(Tail(s)) + 1 = Len(s)
    BY <1>1, <1>2, <2>1
  <2> QED BY <1>2, <2>2
<1>5. ASSUME Tail(s) = <<>> PROVE s[Len(s)] = Head(s)
  <2>1. Len(s) = 1
    <3>1. Len(Tail(s)) = Len(<<>>)
      BY <1>5
    <3>2. Len(<<>>) = 0
      OBVIOUS
    <3>3. Len(s) - 1 = 0
      BY <1>2, <3>1, <3>2
    <3> QED BY <1>1, <3>3
  <2> QED BY <1>3, <2>1
<1> QED BY <1>2, <1>4, <1>5

LEMMA SendType ==
  ASSUME TypeOK, NEW S, sendLudp(S)
  PROVE  air' \in [Peer -> Seq(Int)]
<1>1. \A p \in Peer : Append(air[p], at) \in Seq(Int)
  BY AppendInt DEF TypeOK
<1> QED BY <1>1 DEF sendLudp, TypeOK

LEMMA TypeStep == TypeOK /\ [Next]_vars => TypeOK'
<1> SUFFICES ASSUME TypeOK, [Next]_vars PROVE TypeOK'
  OBVIOUS
<1>1. CASE UNCHANGED vars
  BY <1>1 DEF TypeOK, vars
<1>2. CASE Tick
  BY <1>2, FieldAssumption DEF Tick, TypeOK
<1>3. CASE LocationUpdateTimer
  <2>1. air' \in [Peer -> Seq(Int)] /\ last' \in Int
    BY <1>3, SendType DEF LocationUpdateTimer, TypeOK
  <2>2. lutime' \in Nat
    BY <1>3, TimeAssumption DEF LocationUpdateTimer, TypeOK
  <2> QED BY <1>3, <2>1, <2>2 DEF LocationUpdateTimer, TypeOK
<1>4. CASE LUDPCacheTimer
  <2>1. cctime' \in Nat /\ cache' \in Seq(Entry)
    BY <1>4, TimeAssumption, CheckList DEF LUDPCacheTimer, TypeOK
  <2> QED BY <1>4, <2>1 DEF LUDPCacheTimer, TypeOK
<1>5. ASSUME NEW p \in Peer, recvRequest(p) PROVE TypeOK'
  BY <1>5, InsertList, SendType DEF recvRequest, TypeOK
<1>6. ASSUME NEW p \in Peer, recv(p) PROVE TypeOK'
  BY <1>6, UpdateList DEF recv, TypeOK
<1>7. ASSUME NEW p \in Peer, rt_purge(p) PROVE TypeOK'
  BY <1>7, DeleteList DEF rt_purge, TypeOK
<1>8. ASSUME NEW p \in Peer, recvLudp(p) PROVE TypeOK'
  <2>1. air[p] \in Seq(Int) /\ air[p] # <<>>
    BY <1>8 DEF recvLudp, TypeOK
  <2>2. Tail(air[p]) \in Seq(Int) /\ Head(air[p]) \in Int
    BY <2>1, TailInt
  <2> QED BY <1>8, <2>2 DEF recvLudp, TypeOK
<1>9. ASSUME NEW p \in Peer, Lose(p) PROVE TypeOK'
  <2>1. air[p] \in Seq(Int) /\ air[p] # <<>>
    BY <1>9 DEF Lose, TypeOK
  <2>2. Tail(air[p]) \in Seq(Int)
    BY <2>1, TailInt
  <2> QED BY <1>9, <2>2 DEF Lose, TypeOK
<1> QED BY <1>1, <1>2, <1>3, <1>4, <1>5, <1>6, <1>7, <1>8, <1>9 DEF Next

\* Every message carries a position, and the list holds entries of peers.
THEOREM TypeCorrect == Spec => []TypeOK
<1>1. Init => TypeOK
  BY FieldAssumption DEF Init, TypeOK
<1> QED BY <1>1, TypeStep, PTL DEF Spec

(***************************************************************************)
(* How far the node gets from where it last reported itself.               *)
(***************************************************************************)
\* How long ago the timer expired, counted from one interval before the start.
Since == now - (lutime - LUDP_INTERVAL)

NearLast ==
  /\ now <= lutime /\ lutime <= now + LUDP_INTERVAL
  /\ Distance(at, last) <= LUDP_RADIUS - 1 + Speed * Since

LEMMA DistanceInt ==
  ASSUME NEW a \in Int, NEW b \in Int, NEW c \in Int
  PROVE  /\ Distance(a, b) \in Nat
         /\ Distance(a, a) = 0
         /\ Distance(a, b) = Distance(b, a)
         /\ Distance(a, c) <= Distance(a, b) + Distance(b, c)
BY DEF Distance

LEMMA TravelStep ==
  ASSUME NEW k \in Nat
  PROVE  /\ Speed * k \in Nat
         /\ Speed * (k + 1) = Speed * k + Speed
         /\ \A n \in Nat : k <= n => Speed * k <= Speed * n
<1>1. Speed \in Nat
  BY RadiusAssumption
<1>2. \A s \in Nat : s * k \in Nat /\ s * (k + 1) = s * k + s
  OBVIOUS
<1>3. ASSUME NEW n \in Nat, k <= n
      PROVE  Speed * k <= Speed * n
  <2>1. n - k \in Nat /\ n = k + (n - k)
    BY <1>3
  <2>2. \A s, d \in Nat : s * d \in Nat /\ s * (k + d) = s * k + s * d
    OBVIOUS
  <2>3. Speed * n = Speed * k + Speed * (n - k) /\ Speed * (n - k) \in Nat
    BY <1>1, <2>1, <2>2
  <2> DEFINE a == Speed * k
             b == Speed * (n - k)
             c == Speed * n
  <2>4. a \in Nat /\ b \in Nat /\ c = a + b
    BY <1>1, <1>2, <2>3
  <2>5. a <= c
    <3> HIDE DEF a, b, c
    <3> QED BY <2>4
  <2> QED BY <2>5
<1> QED BY <1>1, <1>2, <1>3

LEMMA UnreportedNat == Unreported \in Nat
<1>1. LUDP_INTERVAL \in Nat /\ Speed * LUDP_INTERVAL \in Nat
  BY TimeAssumption, TravelStep
<1> DEFINE x == Speed * LUDP_INTERVAL
<1>2. x \in Nat /\ LUDP_RADIUS - 1 \in Nat
  BY <1>1, RadiusAssumption
<1>3. Unreported = LUDP_RADIUS - 1 + x
  BY DEF Unreported
<1> HIDE DEF x
<1> QED BY <1>2, <1>3

\* The node is never further from there than it moves unreported.
LEMMA NearIsUnreported == TypeOK /\ NearLast => Distance(at, last) <= Unreported
<1> SUFFICES ASSUME TypeOK, NearLast PROVE Distance(at, last) <= Unreported
  OBVIOUS
<1>1. Since \in Nat /\ Since <= LUDP_INTERVAL /\ LUDP_INTERVAL \in Nat
  BY TimeAssumption DEF TypeOK, NearLast, Since
<1>2. Speed * Since <= Speed * LUDP_INTERVAL
  BY <1>1, TravelStep
<1> DEFINE x == Speed * Since
           y == Speed * LUDP_INTERVAL
           d == Distance(at, last)
<1>3. x \in Nat /\ y \in Nat /\ x <= y /\ d \in Nat
  BY <1>1, <1>2, TravelStep, DistanceInt DEF TypeOK
<1>4. d <= LUDP_RADIUS - 1 + x /\ Unreported = LUDP_RADIUS - 1 + y
  BY DEF NearLast, Unreported
<1> HIDE DEF x, y, d
<1>5. d <= Unreported
  BY <1>3, <1>4, RadiusAssumption
<1> QED BY <1>5 DEF d

LEMMA NearStep == TypeOK /\ NearLast /\ [Next]_vars => NearLast'
<1> SUFFICES ASSUME TypeOK, NearLast, [Next]_vars PROVE NearLast'
  OBVIOUS
<1>1. LUDP_INTERVAL \in Nat \ {0} /\ LUDP_RADIUS \in Nat \ {0}
  BY TimeAssumption, RadiusAssumption
<1>2. ASSUME UNCHANGED <<now, lutime, at, last>> PROVE NearLast'
  BY <1>2 DEF NearLast, Since
<1>3. CASE Tick
  <2>1. now' = now + 1 /\ now < lutime /\ lutime' = lutime /\ last' = last
    BY <1>3 DEF Tick
  <2>2. at' \in Int /\ Distance(at, at') <= Speed
    BY <1>3, FieldAssumption DEF Tick
  <2>3. Distance(at', last) <= Distance(at, at') + Distance(at, last)
    BY <2>2, DistanceInt DEF TypeOK
  <2>4. Since \in Nat /\ Since' = Since + 1
    BY <1>1, <2>1 DEF TypeOK, NearLast, Since
  <2> DEFINE x == Speed * Since
             y == Speed * (Since + 1)
             d == Distance(at, last)
             e == Distance(at', last)
             f == Distance(at, at')
  <2>5. x \in Nat /\ y = x + Speed /\ d \in Nat /\ e \in Nat /\ f \in Nat
    BY <2>2, <2>4, TravelStep, DistanceInt DEF TypeOK
  <2>6. d <= LUDP_RADIUS - 1 + x /\ e <= f + d /\ f <= Speed
    BY <2>2, <2>3 DEF NearLast
  <2>7. e <= LUDP_RADIUS - 1 + y
    <3> HIDE DEF x, y, d, e, f
    <3> QED BY <1>1, <2>5, <2>6, RadiusAssumption
  <2>8. (Distance(at, last))' <= LUDP_RADIUS - 1 + Speed * Since'
    BY <2>1, <2>4, <2>7 DEF Distance
  <2>9. now' <= lutime' /\ lutime' <= now' + LUDP_INTERVAL
    BY <1>1, <2>1 DEF TypeOK, NearLast
  <2> QED BY <2>8, <2>9 DEF NearLast
<1>4. CASE LocationUpdateTimer
  <2>1. now = lutime /\ lutime' = now + LUDP_INTERVAL /\ now' = now /\ at' = at
    BY <1>4 DEF LocationUpdateTimer
  <2>2. Since' = 0
    BY <1>1, <2>1 DEF TypeOK, Since
  <2>3. Speed * 0 = 0
    BY RadiusAssumption
  <2>4. \/ last' = at
        \/ last' = last /\ ~(Distance(at, last) >= LUDP_RADIUS)
    BY <1>4 DEF LocationUpdateTimer
  <2>5. Distance(at, at) = 0 /\ Distance(at, last) \in Nat
    BY DistanceInt DEF TypeOK
  <2>6. Distance(at, last') <= LUDP_RADIUS - 1
    BY <1>1, <2>4, <2>5
  <2>7. (Distance(at, last))' = Distance(at, last')
    BY <2>1 DEF Distance
  <2>8. now' <= lutime' /\ lutime' <= now' + LUDP_INTERVAL
    BY <1>1, <2>1 DEF TypeOK
  <2>9. LUDP_RADIUS - 1 + Speed * Since' = LUDP_RADIUS - 1
    BY <1>1, <2>2, <2>3
  <2> QED BY <2>6, <2>7, <2>8, <2>9 DEF NearLast
<1>5. CASE LUDPCacheTimer
  BY <1>2, <1>5 DEF LUDPCacheTimer
<1>6. ASSUME NEW p \in Peer, recvRequest(p) \/ recv(p) \/ rt_purge(p) \/ recvLudp(p) \/ Lose(p)
      PROVE  NearLast'
  BY <1>2, <1>6 DEF recvRequest, recv, rt_purge, recvLudp, Lose
<1> QED BY <1>2, <1>3, <1>4, <1>5, <1>6 DEF Next, vars

(***************************************************************************)
(* What is on record of the peers.                                         *)
(***************************************************************************)
\* p's entry, while it has one, has not been marked inactive.
StaysActive(p) == \A i \in DOMAIN cache : cache[i].dst = p => cache[i].active

\* Nobody's has.
AllActive == \A p \in Peer : StaysActive(p)

\* A position the node was at when it last sent it to a peer.
Close(x) == x \in Int /\ Distance(x, last) <= Unreported

\* The last position on its way to p, or the one on record there.
RecordOf(p) ==
  /\ air[p] # <<>> => Close(air[p][Len(air[p])])
  /\ air[p] = <<>> /\ p \notin missed => Close(loc[p])

OnRecord(p) == Cached(p) => RecordOf(p)

RecordsClose == \A p \in Peer : OnRecord(p)

\* Handlers that leave the position of the last report and the records of p.
LEMMA RecordKept ==
  ASSUME NEW p \in Peer, RecordOf(p), last' = last,
         air'[p] = air[p], loc'[p] = loc[p], p \in missed' <=> p \in missed
  PROVE  RecordOf(p)'
BY DEF RecordOf, Close, Distance, Unreported

\* A peer that the node has just sent its position.
LEMMA RecordSent ==
  ASSUME TypeOK, NEW p \in Peer, air'[p] = Append(air[p], at),
         Distance(at, last') <= Unreported
  PROVE  RecordOf(p)'
<1>1. /\ air'[p] # <<>> /\ air'[p][Len(air'[p])] = at /\ at \in Int
  BY AppendInt DEF TypeOK
<1> QED BY <1>1 DEF RecordOf, Close, Distance, Unreported

\* What is on record of p stays close, whatever becomes of the other peers.
LEMMA RecordStep ==
  ASSUME NEW p \in Peer
  PROVE  TypeOK /\ StaysActive(p) /\ NearLast /\ OnRecord(p) /\ [Next]_vars => OnRecord(p)'
<1> SUFFICES ASSUME TypeOK, StaysActive(p), NearLast, OnRecord(p), [Next]_vars,
                    Cached(p)'
             PROVE  RecordOf(p)'
  BY DEF OnRecord
<1>1. ASSUME UNCHANGED <<last, air, loc, missed>>, Cached(p) PROVE RecordOf(p)'
  BY <1>1, RecordKept DEF OnRecord
<1>2. PICK i \in DOMAIN cache' : cache'[i].dst = p
  BY DEF Cached
<1>3. \A j \in DOMAIN cache : cache[j] \in Entry
  BY LenProperties, ElementOfSeq DEF TypeOK
<1>4. Distance(at, last) <= Unreported
  BY NearIsUnreported
<1>5. cache' = cache => Cached(p)
  BY <1>2 DEF Cached
<1>6. CASE Tick
  BY <1>1, <1>5, <1>6 DEF Tick
<1>7. CASE LocationUpdateTimer
  <2>1. cache' = cache /\ loc' = loc /\ missed' = missed /\ Cached(p)
    BY <1>5, <1>7 DEF LocationUpdateTimer
  <2>2. CASE ~(Distance(at, last) >= LUDP_RADIUS)
    BY <1>1, <1>7, <2>1, <2>2 DEF LocationUpdateTimer
  <2>3. CASE Distance(at, last) >= LUDP_RADIUS
    <3> DEFINE S == {cache[k].dst : k \in {k \in DOMAIN cache : cache[k].active}}
    <3>1. last' = at /\ sendLudp(S)
      BY <1>7, <2>3 DEF LocationUpdateTimer
    <3>2. p \in S
      BY <2>1 DEF Cached, StaysActive
    <3> HIDE DEF S
    <3>3. air'[p] = Append(air[p], at)
      BY <3>1, <3>2 DEF sendLudp
    <3>4. Distance(at, last') <= Unreported
      BY <3>1, DistanceInt, UnreportedNat DEF TypeOK
    <3> QED BY <3>3, <3>4, RecordSent
  <2> QED BY <2>2, <2>3
<1>8. CASE LUDPCacheTimer
  <2>1. cache' \in ludpcache_checkactive
    BY <1>8 DEF LUDPCacheTimer
  <2>2. Cached(p)
    BY <1>2, <2>1, CheckList DEF Cached
  <2> QED BY <1>1, <1>8, <2>2 DEF LUDPCacheTimer
<1>9. ASSUME NEW q \in Peer, recvRequest(q) PROVE RecordOf(p)'
  <2>1. /\ cache' = ludpcache_insert(q) /\ last' = last /\ loc' = loc /\ missed' = missed
        /\ sendLudp({q})
    BY <1>9 DEF recvRequest
  <2>2. CASE p = q
    <3>1. air'[p] = Append(air[p], at)
      BY <2>1, <2>2 DEF sendLudp
    <3> QED BY <1>4, <2>1, <3>1, RecordSent
  <2>3. CASE p # q
    <3>1. air'[p] = air[p]
      BY <2>1, <2>3 DEF sendLudp
    <3>2. \A e \in Entry : e.dst = q => cache'[i] # Renewed(e)
      BY <1>2, <2>3, RenewedType
    <3>3. PICK j \in DOMAIN cache : cache'[i] \in {cache[j], Renewed(cache[j])}
      BY <1>2, <2>1, <3>2, InsertList
    <3>4. cache[j].dst = p
      BY <1>2, <1>3, <3>3, RenewedType
    <3>5. RecordOf(p)
      BY <3>4 DEF Cached, OnRecord
    <3> QED BY <2>1, <3>1, <3>5, RecordKept
  <2> QED BY <2>2, <2>3
<1>10. ASSUME NEW q \in Peer, recv(q) PROVE RecordOf(p)'
  <2>1. PICK j \in DOMAIN cache : cache'[i] \in {cache[j], Renewed(cache[j])}
    BY <1>2, <1>10, UpdateList DEF recv
  <2>2. cache[j].dst = p
    BY <1>2, <1>3, <2>1, RenewedType
  <2> QED BY <1>1, <1>10, <2>2 DEF recv, Cached
<1>11. ASSUME NEW q \in Peer, rt_purge(q) PROVE RecordOf(p)'
  <2>1. PICK j \in DOMAIN cache : cache'[i] = cache[j]
    BY <1>2, <1>11, DeleteList DEF rt_purge
  <2> QED BY <1>1, <1>2, <1>11, <2>1 DEF rt_purge, Cached
<1>12. ASSUME NEW q \in Peer, recvLudp(q) PROVE RecordOf(p)'
  <2>1. /\ cache' = cache /\ last' = last
        /\ air[q] # <<>>
        /\ air' = [air EXCEPT ![q] = Tail(@)]
        /\ loc' = [loc EXCEPT ![q] = Head(air[q])]
        /\ missed' = missed \ {q}
    BY <1>12 DEF recvLudp
  <2>2. RecordOf(p)
    BY <1>5, <2>1 DEF OnRecord
  <2>3. CASE p # q
    BY <2>1, <2>2, <2>3, RecordKept DEF TypeOK
  <2>4. CASE p = q
    <3>1. air'[p] = Tail(air[p]) /\ loc'[p] = Head(air[p]) /\ air[p] \in Seq(Int)
      BY <2>1, <2>4 DEF TypeOK
    <3>2. /\ Tail(air[p]) # <<>> => Tail(air[p])[Len(Tail(air[p]))] = air[p][Len(air[p])]
          /\ Tail(air[p]) = <<>> => Head(air[p]) = air[p][Len(air[p])]
      BY <2>1, <2>4, <3>1, TailInt
    <3> DEFINE x == air[p][Len(air[p])]
    <3>3. x \in Int /\ Distance(x, last') <= Unreported
      BY <2>1, <2>2, <2>4 DEF RecordOf, Close
    <3>4. /\ air'[p] # <<>> => air'[p][Len(air'[p])] = x
          /\ air'[p] = <<>> => loc'[p] = x
      BY <3>1, <3>2
    <3> HIDE DEF x
    <3> QED BY <3>3, <3>4 DEF RecordOf, Close, Distance, Unreported
  <2> QED BY <2>3, <2>4
<1>13. ASSUME NEW q \in Peer, Lose(q) PROVE RecordOf(p)'
  <2>1. /\ cache' = cache /\ last' = last /\ loc' = loc
        /\ air[q] # <<>>
        /\ air' = [air EXCEPT ![q] = Tail(@)]
        /\ missed' = missed \cup {q}
    BY <1>13 DEF Lose
  <2>2. RecordOf(p)
    BY <1>5, <2>1 DEF OnRecord
  <2>3. CASE p # q
    BY <2>1, <2>2, <2>3, RecordKept DEF TypeOK
  <2>4. CASE p = q
    <3>1. air'[p] = Tail(air[p]) /\ air[p] \in Seq(Int) /\ p \in missed'
      BY <2>1, <2>4 DEF TypeOK
    <3>2. Tail(air[p]) # <<>> => Tail(air[p])[Len(Tail(air[p]))] = air[p][Len(air[p])]
      BY <2>1, <2>4, <3>1, TailInt
    <3> DEFINE x == air[p][Len(air[p])]
    <3>3. x \in Int /\ Distance(x, last') <= Unreported
      BY <2>1, <2>2, <2>4 DEF RecordOf, Close
    <3>4. air'[p] # <<>> => air'[p][Len(air'[p])] = x
      BY <3>1, <3>2
    <3> HIDE DEF x
    <3> QED BY <3>1, <3>3, <3>4 DEF RecordOf, Close, Distance, Unreported
  <2> QED BY <2>3, <2>4
<1>14. CASE UNCHANGED vars
  BY <1>1, <1>5, <1>14 DEF vars
<1> QED BY <1>6, <1>7, <1>8, <1>9, <1>10, <1>11, <1>12, <1>13, <1>14 DEF Next

LEMMA RecordsStep ==
  TypeOK /\ AllActive /\ NearLast /\ RecordsClose /\ [Next]_vars => RecordsClose'
BY RecordStep DEF AllActive, RecordsClose

LEMMA RecordIsClose ==
  ASSUME TypeOK, NearLast, NEW p \in UpToDate, OnRecord(p)
  PROVE  Distance(loc[p], at) <= 2 * Unreported
<1>1. p \in Peer /\ p \notin missed /\ air[p] = <<>> /\ Cached(p)
  BY DEF UpToDate, Cached
<1>2. loc[p] \in Int /\ Distance(loc[p], last) <= Unreported
  BY <1>1 DEF OnRecord, RecordOf, Close
<1>3. Distance(at, last) <= Unreported
  BY NearIsUnreported
<1> DEFINE a == Distance(loc[p], last)
           b == Distance(at, last)
           c == Distance(loc[p], at)
<1>4. /\ a \in Nat /\ b \in Nat /\ c \in Nat /\ c <= a + Distance(last, at)
      /\ Distance(last, at) = b
  BY <1>2, DistanceInt DEF TypeOK
<1> HIDE DEF a, b, c
<1>5. a <= Unreported /\ b <= Unreported
  BY <1>2, <1>3 DEF a, b
<1>6. c <= 2 * Unreported
  BY <1>4, <1>5, UnreportedNat
<1> QED BY <1>6 DEF c

LEMMA RecordsInit == Init => NearLast /\ RecordsClose
<1> SUFFICES ASSUME Init PROVE NearLast /\ RecordsClose
  OBVIOUS
<1>1. RecordsClose
  BY DEF Init, RecordsClose, OnRecord, Cached
<1>2. /\ now = 0 /\ lutime = 0 /\ Distance(at, last) = 0 /\ LUDP_INTERVAL \in Nat
  BY TimeAssumption, DistanceInt DEF Init
<1>3. Since = LUDP_INTERVAL
  BY <1>2 DEF Since
<1>4. 0 <= LUDP_RADIUS - 1 + Speed * LUDP_INTERVAL
  BY UnreportedNat DEF Unreported
<1> QED BY <1>1, <1>2, <1>3, <1>4 DEF NearLast

\* LocationUpdateTimer, recvRequest: what a peer whose own entry is never marked
\* inactive has on record of the node is within twice the way the node moves
\* unreported, whichever of the messages are lost or late and whatever becomes
\* of the entries of the other peers, for every radius, interval and speed and
\* however long the simulation.  A peer that was inactive for a while and is
\* renewed by ludpcache_update may have missed any number of reports.
THEOREM RecordStaysClose ==
  ASSUME NEW p \in Peer
  PROVE  Spec /\ []StaysActive(p)
           => [](p \in UpToDate => Distance(loc[p], at) <= 2 * Unreported)
<1>1. Init => NearLast /\ OnRecord(p)
  BY RecordsInit DEF RecordsClose
<1>2. TypeOK /\ StaysActive(p) /\ NearLast /\ OnRecord(p) /\ [Next]_vars => OnRecord(p)'
  BY RecordStep
<1>3. TypeOK /\ NearLast /\ OnRecord(p)
        => (p \in UpToDate => Distance(loc[p], at) <= 2 * Unreported)
  BY RecordIsClose
<1> QED BY <1>1, <1>2, <1>3, NearStep, TypeCorrect, PTL DEF Spec

\* The same of all the peers, while no entry is inactive.
THEOREM RecordsStayClose == Spec /\ []AllActive => []RecordClose
<1>1. TypeOK /\ NearLast /\ RecordsClose => RecordClose
  <2>1. ASSUME TypeOK, NearLast, RecordsClose, NEW p \in UpToDate
        PROVE  Distance(loc[p], at) <= 2 * Unreported
    <3>1. OnRecord(p)
      BY <2>1 DEF RecordsClose, UpToDate
    <3> QED BY <2>1, <3>1, RecordIsClose
  <2> QED BY <2>1 DEF RecordClose
<1> QED BY <1>1, RecordsInit, NearStep, RecordsStep, TypeCorrect, PTL DEF Spec
=============================================================================
