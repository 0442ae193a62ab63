------------------------ MODULE AorgluRqueue_proofs ------------------------
(***************************************************************************)
(* Proofs about AorgluRqueue: the pointers always thread the packets of    *)
(* the buffer, in the order of their deadlines, and the list implements    *)
(* PacketBuffer.                                                           *)
(***************************************************************************)
EXTENDS AorgluRqueue, TLAPS, FiniteSetTheorems, SequenceTheorems, WellFoundedInduction

(***************************************************************************)
(* Recursion.  The walk along the list and purge() are loops: functions on *)
(* 0..N whose value at k + 1 is a function of the one at k.                *)
(***************************************************************************)
\* A set of numbers with 0, and with n + 1 whenever it has n, has them all.
LEMMA Induction ==
  ASSUME NEW S, 0 \in S, \A n \in Nat : n \in S => n + 1 \in S
  PROVE  \A n \in Nat : n \in S
<1> DEFINE T == {n \in Nat : n \notin S}
<1> SUFFICES ASSUME T # {} PROVE FALSE
  OBVIOUS
<1>1. PICK m \in T : \A k \in T : ~(<<k, m>> \in OpToRel(<, Nat))
  BY WFMin, NatLessThanWellFounded, Zenon
<1>2. m # 0 /\ m - 1 \in Nat /\ m - 1 < m
  OBVIOUS
<1>3. m - 1 \notin T
  <2>1. <<m - 1, m>> \in OpToRel(<, Nat)
    BY <1>2, Zenon DEF OpToRel
  <2> QED BY <1>1, <2>1
<1> QED BY <1>2, <1>3

\* f[k] is what a loop has made of v in k turns, G[x] of x in one.
Turns(f, v, G, N) == f[0] = v /\ \A k \in 0..N : k # 0 => f[k] = G[f[k - 1]]

\* A loop of N turns that stays in V has a value after each of them.
LEMMA Loop ==
  ASSUME NEW V, NEW v \in V, NEW G \in [V -> V], NEW N \in Nat
  PROVE  \E f \in [0..N -> V] : Turns(f, v, G, N)
<1> DEFINE S == {n \in Nat : \E f \in [0..n -> V] : Turns(f, v, G, n)}
<1>1. 0 \in S
  <2> DEFINE f == [k \in 0..0 |-> v]
  <2>1. f \in [0..0 -> V] /\ Turns(f, v, G, 0)
    BY DEF Turns
  <2> QED BY <2>1
<1>2. ASSUME NEW n \in Nat, n \in S
      PROVE  n + 1 \in S
  <2>1. PICK f \in [0..n -> V] : Turns(f, v, G, n)
    BY <1>2
  <2> DEFINE g == [k \in 0..n + 1 |-> IF k = n + 1 THEN G[f[n]] ELSE f[k]]
  <2>2. g \in [0..n + 1 -> V]
    OBVIOUS
  <2>3. Turns(g, v, G, n + 1)
    BY <2>1 DEF Turns
  <2> QED BY <2>2, <2>3
<1> HIDE DEF S
<1>3. N \in S
  BY <1>1, <1>2, Induction
<1> QED BY <1>3 DEF S

(***************************************************************************)
(* Finding the first packet of a kind.                                     *)
(***************************************************************************)
\* The smallest of some numbers.
LEMMA MinIs ==
  ASSUME NEW S \in SUBSET Nat, S # {}
  PROVE  Min(S) \in S /\ \A k \in S : Min(S) <= k
<1>1. PICK m \in S : \A k \in S : ~(<<k, m>> \in OpToRel(<, Nat))
  BY WFMin, NatLessThanWellFounded, Zenon
<1>2. \A k \in S : m <= k
  <2> TAKE k \in S
  <2>1. k \in Nat /\ m \in Nat
    OBVIOUS
  <2>2. ~(k < m)
    BY <1>1, <2>1, Zenon DEF OpToRel
  <2> QED BY <2>1, <2>2
<1>3. \E x \in S : \A y \in S : x =< y
  BY <1>2
<1> QED BY <1>3, Zenon DEF Min

\* i is the smallest member of I, or 0 if there is none.
First(i, I) ==
  IF I = {} THEN i = 0 ELSE i \in I /\ \A j \in I : i <= j

\* findPacketWithDst() finds the first packet with the destination.
LEMMA FindDst ==
  ASSUME NEW l, NEW d, Chain(l) \in Seq(Packet)
  PROVE  First(findPacketWithDst(l, d),
               {i \in 1..Len(Chain(l)) : dst[Chain(l)[i]] = d})
<1> DEFINE I == {i \in 1..Len(Chain(l)) : dst[Chain(l)[i]] = d}
<1>1. findPacketWithDst(l, d) = IF I # {} THEN Min(I) ELSE 0
  BY DEF findPacketWithDst, SelectInSeq
<1>2. I \in SUBSET Nat
  BY LenProperties
<1> QED BY <1>1, <1>2, MinIs DEF First

\* findAgedPacket() finds the first packet that has timed out.
LEMMA FindAged ==
  ASSUME NEW l, Chain(l) \in Seq(Packet)
  PROVE  First(findAgedPacket(l), {i \in 1..Len(Chain(l)) : left[Chain(l)[i]] < 0})
<1> DEFINE I == {i \in 1..Len(Chain(l)) : left[Chain(l)[i]] < 0}
<1>1. findAgedPacket(l) = IF I # {} THEN Min(I) ELSE 0
  BY DEF findAgedPacket, SelectInSeq
<1>2. I \in SUBSET Nat
  BY LenProperties
<1> QED BY <1>1, <1>2, MinIs DEF First

(***************************************************************************)
(* The list.                                                               *)
(***************************************************************************)
List == [head: Pointer, tail: Pointer, len: Nat, next: [Packet -> Pointer]]

\* The pointers of l thread the packets c, no packet twice.
Threads(l, c) ==
  /\ l \in List /\ c \in Seq(Packet)
  /\ \A i, j \in 1..Len(c) : c[i] = c[j] => i = j
  /\ l.len = Len(c)
  /\ l.head = IF Len(c) = 0 THEN Null ELSE c[1]
  /\ l.tail = IF Len(c) = 0 THEN Null ELSE c[Len(c)]
  /\ \A i \in 1..Len(c) : l.next[c[i]] = IF i = Len(c) THEN Null ELSE c[i + 1]

\* There are no more of them than there are packets.
LEMMA ThreadsShort ==
  ASSUME NEW l, NEW c, Threads(l, c)
  PROVE  Len(c) \in Nat /\ Cardinality(Packet) \in Nat /\ Len(c) <= Cardinality(Packet)
<1>1. c \in [1..Len(c) -> Packet] /\ Len(c) \in Nat
  BY LenProperties DEF Threads
<1>2. c \in Injection(1..Len(c), Packet)
  BY <1>1 DEF Threads, Injection, IsInjective
<1>3. /\ IsFiniteSet(1..Len(c)) /\ Cardinality(1..Len(c)) = Len(c)
  <2>1. 1 \in Int /\ Len(c) \in Int
    BY <1>1
  <2>2. /\ IsFiniteSet(1..Len(c))
        /\ Cardinality(1..Len(c)) = IF 1 > Len(c) THEN 0 ELSE Len(c) - 1 + 1
    BY <2>1, FS_Interval
  <2> QED BY <1>1, <2>2
<1>4. IsFiniteSet(Packet) /\ Cardinality(Packet) \in Nat
  BY QueueAssumption, FS_CardinalityType
<1> QED BY <1>1, <1>2, <1>3, <1>4, FS_Injection

\* What a walk of k steps at most meets, from each pointer.
IsWalk(l, f, N) ==
  f = [k \in 0..N |->
        [p \in Pointer |-> IF k = 0 \/ p = Null THEN <<>>
                           ELSE <<p>> \o f[k - 1][l.next[p]]]]

\* There is such a walk, of any number of steps.
LEMMA WalkExists ==
  ASSUME NEW l \in List, NEW N \in Nat
  PROVE  \E f : IsWalk(l, f, N)
<1> DEFINE V == [Pointer -> Seq(Packet)]
           v == [p \in Pointer |-> <<>>]
           Further(w) == [p \in Pointer |-> IF p = Null THEN <<>> ELSE <<p>> \o w[l.next[p]]]
           G == [w \in V |-> Further(w)]
<1>1. v \in V
  OBVIOUS
<1>2. ASSUME NEW w \in V
      PROVE  Further(w) \in V
  <2> SUFFICES ASSUME NEW p \in Pointer, p # Null
               PROVE  <<p>> \o w[l.next[p]] \in Seq(Packet)
    BY EmptySeq
  <2>1. l.next[p] \in Pointer /\ <<p>> \in Seq(Packet)
    BY DEF List, Pointer
  <2>2. w[l.next[p]] \in Seq(Packet)
    BY <2>1
  <2> QED BY <2>1, <2>2, ConcatProperties
<1>3. G \in [V -> V]
  BY <1>2
<1> HIDE DEF V, v, G
<1>4. PICK f \in [0..N -> V] : Turns(f, v, G, N)
  BY <1>1, <1>3, Loop
<1> USE DEF v, G, Turns
<1>5. ASSUME NEW k \in 0..N
      PROVE  f[k] = [p \in Pointer |-> IF k = 0 \/ p = Null THEN <<>>
                                       ELSE <<p>> \o f[k - 1][l.next[p]]]
  <2>1. CASE k = 0
    BY <1>4, <2>1
  <2>2. CASE k # 0
    <3>1. k - 1 \in 0..N /\ f[k - 1] \in V
      BY <2>2
    <3>2. f[k] = Further(f[k - 1])
      BY <1>4, <2>2, <3>1
    <3> QED BY <2>2, <3>2
  <2> QED BY <2>1, <2>2
<1>6. IsWalk(l, f, N)
  BY <1>5 DEF IsWalk
<1> QED BY <1>6

\* Chain is what it meets from the head, in more steps than there are packets.
LEMMA ChainWalks ==
  ASSUME NEW l \in List
  PROVE  \E f : /\ IsWalk(l, f, Cardinality(Packet) + 1)
                /\ Chain(l) = f[Cardinality(Packet) + 1][l.head]
<1>1. Cardinality(Packet) + 1 \in Nat
  BY QueueAssumption, FS_CardinalityType
<1>2. \E f : IsWalk(l, f, Cardinality(Packet) + 1)
  BY <1>1, WalkExists
<1> DEFINE walk == CHOOSE f : IsWalk(l, f, Cardinality(Packet) + 1)
<1>3. IsWalk(l, walk, Cardinality(Packet) + 1)
  BY <1>2, Zenon
<1>4. Chain(l) = walk[Cardinality(Packet) + 1][l.head]
  BY Zenon DEF Chain, IsWalk
<1> QED BY <1>3, <1>4

\* The walk meets the packets that are threaded.
LEMMA ChainIs ==
  ASSUME NEW l, NEW c, Threads(l, c)
  PROVE  Chain(l) = c
<1> DEFINE N == Cardinality(Packet) + 1
           n == Len(c)
           At(i) == IF i = n + 1 THEN Null ELSE c[i]
<1>1. /\ l \in List /\ c \in Seq(Packet) /\ c \in [1..n -> Packet]
      /\ n \in Nat /\ N \in Nat /\ n < N /\ Null \notin Packet
  BY ThreadsShort, LenProperties, QueueAssumption DEF Threads
<1>9. l.head = At(1) /\ \A i \in 1..n : l.next[c[i]] = At(i + 1)
  <2>0. n \in Nat
    BY <1>1
  <2>1. l.head = At(1)
    <3>1. l.head = IF n = 0 THEN Null ELSE c[1]
      BY Zenon DEF Threads
    <3> HIDE DEF n
    <3> QED BY <2>0, <3>1
  <2>2. \A i \in 1..n : l.next[c[i]] = IF i = n THEN Null ELSE c[i + 1]
    BY Zenon DEF Threads
  <2>3. \A i \in 1..n : At(i + 1) = IF i = n THEN Null ELSE c[i + 1]
    <3> HIDE DEF n
    <3> QED BY <2>0
  <2> QED BY <2>1, <2>2, <2>3
<1>2. PICK f : IsWalk(l, f, N) /\ Chain(l) = f[N][l.head]
  BY <1>1, ChainWalks
<1> HIDE DEF N
<1>3. \A k \in 0..N : \A p \in Pointer :
        f[k][p] = IF k = 0 \/ p = Null THEN <<>> ELSE <<p>> \o f[k - 1][l.next[p]]
  <2> TAKE k \in 0..N
  <2> DEFINE row == [p \in Pointer |-> IF k = 0 \/ p = Null THEN <<>>
                                      ELSE <<p>> \o f[k - 1][l.next[p]]]
  <2>1. f[k] = row
    BY <1>2, Zenon DEF IsWalk
  <2>2. \A p \in Pointer :
          row[p] = IF k = 0 \/ p = Null THEN <<>> ELSE <<p>> \o f[k - 1][l.next[p]]
    OBVIOUS
  <2> HIDE DEF row
  <2> QED BY <2>1, <2>2
<1> HIDE DEF n
<1> DEFINE Meets(k) == k \in 0..N =>
             \A i \in 1..n + 1 : n + 1 - i <= k => f[k][At(i)] = SubSeq(c, i, n)
           S == {k \in Nat : Meets(k)}
<1>4. At(n + 1) = Null /\ SubSeq(c, n + 1, n) = <<>>
  BY <1>1, SubSeqEmpty
<1>5. 0 \in S
  <2> SUFFICES ASSUME NEW i \in 1..n + 1, n + 1 - i <= 0
               PROVE  f[0][At(i)] = SubSeq(c, i, n)
    OBVIOUS
  <2>1. i = n + 1
    BY <1>1
  <2>2. f[0][Null] = <<>>
    <3>1. 0 \in 0..N /\ Null \in Pointer
      BY <1>1 DEF Pointer
    <3> QED BY <1>3, <3>1, Zenon
  <2> QED BY <1>4, <2>1, <2>2
<1>6. ASSUME NEW k \in Nat, k \in S
      PROVE  k + 1 \in S
  <2> SUFFICES ASSUME k + 1 \in 0..N, NEW i \in 1..n + 1, n + 1 - i <= k + 1
               PROVE  f[k + 1][At(i)] = SubSeq(c, i, n)
    OBVIOUS
  <2>1. CASE i = n + 1
    <3>1. Null \in Pointer
      BY DEF Pointer
    <3>2. f[k + 1][Null] = <<>>
      BY <1>3, <3>1, Zenon
    <3> QED BY <1>4, <2>1, <3>2
  <2>2. CASE i # n + 1
    <3>1. i \in 1..n /\ i + 1 \in 1..n + 1 /\ n + 1 - (i + 1) <= k /\ k \in 0..N
      BY <1>1, <2>2
    <3>2. c[i] \in Pointer /\ c[i] # Null /\ At(i) = c[i]
      BY <1>1, <3>1 DEF n, Pointer
    <3>7. l.next[c[i]] = At(i + 1)
      BY <1>9, <3>1
    <3>3. f[k + 1][c[i]] = <<c[i]>> \o f[k][At(i + 1)]
      <4>1. k + 1 # 0 /\ k + 1 - 1 = k
        OBVIOUS
      <4>2. PICK j \in 0..N : j = k + 1
        OBVIOUS
      <4>3. f[j][c[i]] = IF j = 0 \/ c[i] = Null THEN <<>>
                         ELSE <<c[i]>> \o f[j - 1][l.next[c[i]]]
        BY <1>3, <3>2, Zenon
      <4>4. j # 0 /\ j - 1 = k
        BY <4>1, <4>2
      <4>5. f[j][c[i]] = <<c[i]>> \o f[k][l.next[c[i]]]
        BY <3>2, <4>3, <4>4, Zenon
      <4> QED BY <3>7, <4>2, <4>5, Zenon
    <3>4. f[k][At(i + 1)] = SubSeq(c, i + 1, n)
      BY <1>6, <3>1
    <3>6. SubSeq(c, i, n) = <<c[i]>> \o SubSeq(c, i + 1, n)
      BY <1>1, <3>1, SubSeqRecursiveFirst DEF n
    <3> QED BY <3>2, <3>3, <3>4, <3>6
  <2> QED BY <2>1, <2>2
<1> HIDE DEF S
<1>7. N \in S
  BY <1>1, <1>5, <1>6, Induction
<1>8. f[N][At(1)] = SubSeq(c, 1, n)
  BY <1>1, <1>7 DEF S
<1>10. SubSeq(c, 1, n) = c
  BY <1>1, SubSeqFull DEF n
<1> QED BY <1>2, <1>8, <1>9, <1>10

\* d is c without its i-th packet.
Without(S, c, i, d) ==
  /\ d \in Seq(S) /\ Len(d) = Len(c) - 1
  /\ \A j \in 1..Len(d) : d[j] = IF j < i THEN c[j] ELSE c[j + 1]

\* RemoveAt is without the i-th element.
LEMMA RemoveAtIs ==
  ASSUME NEW S, NEW c \in Seq(S), NEW i \in 1..Len(c)
  PROVE  Without(S, c, i, RemoveAt(c, i))
<1> DEFINE n == Len(c)
           a == SubSeq(c, 1, i - 1)
           b == SubSeq(c, i + 1, n)
<1>1. n \in Nat /\ i \in Nat /\ 1 <= i /\ i <= n
  BY LenProperties
<1>2. \A j \in 1..n : c[j] \in S
  BY ElementOfSeq
<1>3. /\ a \in Seq(S) /\ Len(a) = i - 1
      /\ \A j \in 1..i - 1 : a[j] = c[j]
  <2> HIDE DEF n
  <2>1. 1 \in Int /\ i - 1 \in Int /\ \A j \in 1..i - 1 : c[j] \in S
    BY <1>1, <1>2
  <2>2. /\ a \in Seq(S)
        /\ Len(a) = IF 1 <= i - 1 THEN i - 1 - 1 + 1 ELSE 0
        /\ \A j \in 1..i - 1 - 1 + 1 : a[j] = c[1 + j - 1]
    BY <2>1, SubSeqProperties
  <2> HIDE DEF a
  <2>3. \A j \in 1..i - 1 : j \in 1..i - 1 - 1 + 1 /\ 1 + j - 1 = j
    BY <1>1
  <2> QED BY <1>1, <2>2, <2>3
<1>4. /\ b \in Seq(S) /\ Len(b) = n - i
      /\ \A j \in 1..n - i : b[j] = c[i + j]
  <2> HIDE DEF n
  <2>1. i + 1 \in Int /\ n \in Int /\ \A j \in i + 1..n : c[j] \in S
    BY <1>1, <1>2
  <2>2. /\ b \in Seq(S)
        /\ Len(b) = IF i + 1 <= n THEN n - (i + 1) + 1 ELSE 0
        /\ \A j \in 1..n - (i + 1) + 1 : b[j] = c[i + 1 + j - 1]
    BY <2>1, SubSeqProperties
  <2> HIDE DEF b
  <2>3. \A j \in 1..n - i : j \in 1..n - (i + 1) + 1 /\ i + 1 + j - 1 = i + j
    BY <1>1
  <2> QED BY <1>1, <2>2, <2>3
<1>5. RemoveAt(c, i) = a \o b
  BY Zenon DEF RemoveAt
<1> HIDE DEF a, b, n
<1>6. /\ a \o b \in Seq(S) /\ Len(a \o b) = Len(a) + Len(b)
      /\ \A j \in 1..Len(a) + Len(b) :
           (a \o b)[j] = IF j <= Len(a) THEN a[j] ELSE b[j - Len(a)]
  BY <1>3, <1>4, ConcatProperties
<1> DEFINE d == a \o b
<1> HIDE DEF d
<1>7. /\ d \in Seq(S) /\ Len(d) = n - 1
      /\ \A j \in 1..n - 1 : d[j] = IF j <= i - 1 THEN a[j] ELSE b[j - (i - 1)]
  BY <1>1, <1>3, <1>4, <1>6 DEF d
<1>8. \A j \in 1..n - 1 : d[j] = IF j < i THEN c[j] ELSE c[j + 1]
  <2> TAKE j \in 1..n - 1
  <2>1. CASE j < i
    BY <1>1, <1>3, <1>7, <2>1
  <2>2. CASE ~(j < i)
    <3>1. j - (i - 1) \in 1..n - i /\ i + (j - (i - 1)) = j + 1 /\ ~(j <= i - 1)
      BY <1>1, <2>2
    <3> QED BY <1>4, <1>7, <2>2, <3>1
  <2> QED BY <2>1, <2>2
<1>9. RemoveAt(c, i) = d
  BY <1>5 DEF d
<1> QED BY <1>7, <1>8, <1>9 DEF Without, n

\* The tail is without the first.
LEMMA TailIs ==
  ASSUME NEW S, NEW c \in Seq(S), Len(c) # 0
  PROVE  Without(S, c, 1, Tail(c)) /\ Head(c) = c[1]
<1>1. c # <<>>
  OBVIOUS
<1>2. Len(c) \in Nat
  BY LenProperties
<1>3. /\ Tail(c) \in Seq(S) /\ Len(Tail(c)) = Len(c) - 1
      /\ \A j \in 1..Len(Tail(c)) : Tail(c)[j] = c[j + 1]
  BY <1>1, HeadTailProperties
<1>4. \A j \in 1..Len(Tail(c)) : ~(j < 1)
  BY <1>2, <1>3
<1>5. Head(c) = c[1]
  BY <1>1
<1> QED BY <1>3, <1>4, <1>5 DEF Without

\* remove_head() takes the first packet off a list that has one.
LEMMA RemoveHeadThreads ==
  ASSUME NEW l, NEW c, Threads(l, c), Len(c) # 0, NEW d, Without(Packet, c, 1, d)
  PROVE  Threads(remove_head(l), d)
<1> DEFINE n == Len(c)
           m == remove_head(l)
<1>1. /\ n \in Nat \ {0} /\ \A i \in 1..n : c[i] \in Packet /\ c[i] # Null
  BY ThreadsShort, ElementOfSeq, QueueAssumption DEF Threads
<1>2. /\ l \in List /\ l.len = n /\ l.head = c[1] /\ l.tail = c[n]
      /\ \A i, j \in 1..n : c[i] = c[j] => i = j
      /\ \A i \in 1..n : l.next[c[i]] = IF i = n THEN Null ELSE c[i + 1]
  BY <1>1 DEF Threads
<1>3. /\ d \in Seq(Packet) /\ Len(d) = n - 1
      /\ \A j \in 1..n - 1 : d[j] = c[j + 1]
  BY <1>1 DEF Without
<1> HIDE DEF n
<1>4. l.head = l.tail <=> n = 1
  BY <1>1, <1>2
<1>5. /\ m \in List /\ m.len = n - 1 /\ m.next = l.next
      /\ m.head = IF n = 1 THEN Null ELSE l.next[l.head]
      /\ m.tail = IF n = 1 THEN Null ELSE l.tail
  <2>1. l.next[l.head] \in Pointer /\ Null \in Pointer
    BY <1>1, <1>2 DEF List, Pointer
  <2>2. n - 1 \in Nat /\ l.head # Null
    BY <1>1, <1>2
  <2> QED BY <1>2, <1>4, <2>1, <2>2 DEF remove_head, List
<1> HIDE DEF m
<1>6. \A i, j \in 1..Len(d) : d[i] = d[j] => i = j
  BY <1>1, <1>2, <1>3
<1>7. m.head = IF Len(d) = 0 THEN Null ELSE d[1]
  BY <1>1, <1>2, <1>3, <1>5
<1>8. m.tail = IF Len(d) = 0 THEN Null ELSE d[Len(d)]
  BY <1>1, <1>2, <1>3, <1>5
<1>9. \A i \in 1..Len(d) : m.next[d[i]] = IF i = Len(d) THEN Null ELSE d[i + 1]
  BY <1>1, <1>2, <1>3, <1>5
<1>10. m.len = Len(d)
  BY <1>3, <1>5
<1>11. m \in List /\ d \in Seq(Packet)
  BY <1>3, <1>5
<1> QED BY <1>6, <1>7, <1>8, <1>9, <1>10, <1>11, Zenon DEF Threads, m

\* There is no head to remove from an empty list.
LEMMA RemoveHeadNone ==
  ASSUME NEW l, NEW c, Threads(l, c), Len(c) = 0
  PROVE  remove_head(l) = l
BY DEF remove_head, Threads, List

\* Each of the three branches of unlink takes the i-th packet off.
LEMMA UnlinkThreads ==
  ASSUME NEW l, NEW c, Threads(l, c), NEW i \in 1..Len(c), NEW d, Without(Packet, c, i, d)
  PROVE  Threads(unlink(l, i), d)
<1> DEFINE n == Len(c)
<1>1. /\ n \in Nat \ {0} /\ i \in 1..n
      /\ \A j \in 1..n : c[j] \in Packet /\ c[j] # Null
  BY ThreadsShort, ElementOfSeq, QueueAssumption DEF Threads
<1>2. /\ l \in List /\ l.len = n /\ l.head = c[1] /\ l.tail = c[n]
      /\ \A j, k \in 1..n : c[j] = c[k] => j = k
      /\ \A j \in 1..n : l.next[c[j]] = IF j = n THEN Null ELSE c[j + 1]
  BY <1>1 DEF Threads
<1>3. /\ d \in Seq(Packet) /\ Len(d) = n - 1
      /\ \A j \in 1..n - 1 : d[j] = IF j < i THEN c[j] ELSE c[j + 1]
  BY DEF Without
<1>4. Chain(l) = c
  BY ChainIs
<1>5. CASE i = 1
  <2>1. unlink(l, i) = remove_head(l)
    BY <1>2, <1>4, <1>5 DEF unlink
  <2>2. Threads(remove_head(l), d)
    BY <1>1, <1>5, RemoveHeadThreads
  <2> QED BY <2>1, <2>2
<1>6. ASSUME i # 1
      PROVE  Threads(unlink(l, i), d)
  <2> DEFINE prev == c[i - 1]
             m == unlink(l, i)
             behind == IF i = n THEN Null ELSE l.next[c[i]]
  <2> HIDE DEF n
  <2>1. /\ i - 1 \in 1..n - 1 /\ i - 1 \in 1..n /\ 1 \in 1..n /\ n \in 1..n
        /\ n - 1 \in Nat \ {0}
    BY <1>1, <1>6
  <2>2. c[i] # l.head /\ (c[i] = l.tail <=> i = n) /\ prev \in Packet
    BY <1>1, <1>2, <1>6, <2>1
  <2>3. m = [l EXCEPT !.next[prev] = behind,
                      !.tail = IF i = n THEN prev ELSE @, !.len = @ - 1]
    <3>1. m = IF i = n
              THEN [l EXCEPT !.next[prev] = Null, !.tail = prev, !.len = @ - 1]
              ELSE [l EXCEPT !.next[prev] = l.next[c[i]], !.len = @ - 1]
      BY <1>4, <2>2, Zenon DEF unlink
    <3> QED BY <1>2, <3>1 DEF List
  <2>4. behind \in Pointer
    BY <1>1, <1>2 DEF List, Pointer
  <2>5. /\ m \in List /\ m.len = n - 1 /\ m.head = c[1]
        /\ m.tail = IF i = n THEN prev ELSE c[n]
        /\ m.next = [l.next EXCEPT ![prev] = behind]
    <3>1. m = [head |-> l.head, tail |-> IF i = n THEN prev ELSE l.tail,
               len |-> l.len - 1, next |-> [l.next EXCEPT ![prev] = behind]]
      BY <1>2, <2>3 DEF List
    <3>2. [l.next EXCEPT ![prev] = behind] \in [Packet -> Pointer]
      BY <1>2, <2>4 DEF List
    <3>3. (IF i = n THEN prev ELSE l.tail) \in Pointer /\ l.head \in Pointer
      BY <1>2, <2>2 DEF List, Pointer
    <3> HIDE DEF m, behind, prev
    <3> QED BY <1>2, <2>1, <3>1, <3>2, <3>3 DEF List
  <2> HIDE DEF m
  <2>6. \A j \in 1..n - 1 : m.next[d[j]] = IF j = n - 1 THEN Null ELSE d[j + 1]
    <3> TAKE j \in 1..n - 1
    <3> DEFINE at == IF j < i THEN j ELSE j + 1
    <3>1. at \in 1..n /\ d[j] = c[at] /\ (at = i - 1 <=> j = i - 1) /\ at # i
      BY <1>1, <1>3, <2>1
    <3>2. l.next \in [Packet -> Pointer] /\ c[at] \in Packet
      BY <1>1, <1>2, <3>1 DEF List
    <3>3. CASE j = i - 1
      <4>1. m.next[d[j]] = behind
        BY <1>1, <2>5, <3>1, <3>2, <3>3
      <4>2. behind = IF i = n THEN Null ELSE c[i + 1]
        BY <1>1, <1>2
      <4>3. i # n => i \in 1..n - 1 /\ d[i] = c[i + 1]
        BY <1>1, <1>3
      <4>4. j = n - 1 <=> i = n
        BY <1>1, <3>3
      <4>5. j + 1 = i
        BY <1>1, <3>3
      <4> HIDE DEF behind
      <4> QED BY <4>1, <4>2, <4>3, <4>4, <4>5
    <3>4. CASE j # i - 1
      <4>1. c[at] # prev
        BY <1>2, <2>1, <3>1, <3>4
      <4>2. m.next[d[j]] = l.next[c[at]]
        BY <2>5, <3>1, <3>2, <4>1
      <4>3. l.next[c[at]] = IF at = n THEN Null ELSE c[at + 1]
        BY <1>2, <3>1
      <4>4. at = n <=> j = n - 1
        BY <1>1, <2>1, <3>1, <3>4
      <4>5. j # n - 1 => j + 1 \in 1..n - 1 /\ d[j + 1] = c[at + 1]
        BY <1>1, <1>3, <3>1, <3>4
      <4> HIDE DEF at
      <4> QED BY <4>2, <4>3, <4>4, <4>5
    <3> QED BY <3>3, <3>4
  <2>7. \A j, k \in 1..n - 1 : d[j] = d[k] => j = k
    <3> SUFFICES ASSUME NEW j \in 1..n - 1, NEW k \in 1..n - 1, d[j] = d[k] PROVE j = k
      OBVIOUS
    <3> DEFINE a == IF j < i THEN j ELSE j + 1
               b == IF k < i THEN k ELSE k + 1
    <3>1. a \in 1..n /\ b \in 1..n /\ d[j] = c[a] /\ d[k] = c[b]
      <4>1. a \in 1..n /\ d[j] = c[a]
        BY <1>1, <1>3, <2>1
      <4>2. b \in 1..n /\ d[k] = c[b]
        BY <1>1, <1>3, <2>1
      <4> QED BY <4>1, <4>2
    <3>2. a = b
      <4> HIDE DEF a, b
      <4>1. c[a] = c[b]
        BY <3>1
      <4>2. \A x, y \in 1..n : c[x] = c[y] => x = y
        BY <1>2
      <4> QED BY <3>1, <4>1, <4>2, Zenon
    <3> QED BY <1>1, <3>2
  <2>8. d[1] = c[1]
    BY <1>1, <1>3, <1>6, <2>1
  <2>9. d[n - 1] = IF i = n THEN prev ELSE c[n]
    BY <1>1, <1>3, <2>1
  <2> HIDE DEF prev
  <2> QED BY <1>3, <2>1, <2>5, <2>6, <2>7, <2>8, <2>9 DEF Threads, m
<1> QED BY <1>5, <1>6

\* A packet that is not on the list goes to its end, whatever its next_ was.
LEMMA AppendThreads ==
  ASSUME NEW l, NEW c, Threads(l, c), NEW p \in Packet, \A i \in 1..Len(c) : c[i] # p
  PROVE  Threads(append(l, p), Append(c, p))
<1> DEFINE n == Len(c)
           m == append(l, p)
           d == Append(c, p)
<1>1. /\ n \in Nat /\ \A j \in 1..n : c[j] \in Packet /\ c[j] # Null
  BY ThreadsShort, ElementOfSeq, QueueAssumption DEF Threads
<1>2. /\ l \in List /\ l.len = n
      /\ l.head = IF n = 0 THEN Null ELSE c[1]
      /\ l.tail = IF n = 0 THEN Null ELSE c[n]
      /\ \A j, k \in 1..n : c[j] = c[k] => j = k
      /\ \A j \in 1..n : l.next[c[j]] = IF j = n THEN Null ELSE c[j + 1]
  BY DEF Threads
<1>3. /\ d \in Seq(Packet) /\ Len(d) = n + 1
      /\ \A j \in 1..n : d[j] = c[j]
      /\ d[n + 1] = p
  BY AppendProperties DEF Threads
<1> HIDE DEF n, d
<1>4. l.head = Null <=> n = 0
  BY <1>1, <1>2
<1>5. p \in Pointer /\ Null \in Pointer /\ p # Null
  BY QueueAssumption DEF Pointer
<1>6. /\ m \in List /\ m.len = n + 1 /\ m.tail = p
      /\ m.head = IF n = 0 THEN p ELSE c[1]
  <2>1. [l.next EXCEPT ![p] = Null] \in [Packet -> Pointer]
    BY <1>2, <1>5 DEF List
  <2>2. [[l.next EXCEPT ![p] = Null] EXCEPT ![l.tail] = p] \in [Packet -> Pointer]
    BY <1>5, <2>1
  <2>3. m = IF n = 0
            THEN [head |-> p, tail |-> p, len |-> l.len + 1,
                  next |-> [l.next EXCEPT ![p] = Null]]
            ELSE [head |-> l.head, tail |-> p, len |-> l.len + 1,
                  next |-> [[l.next EXCEPT ![p] = Null] EXCEPT ![l.tail] = p]]
    <3> DEFINE x == [l.next EXCEPT ![p] = Null]
               y == [x EXCEPT ![l.tail] = p]
    <3>1. CASE n = 0
      <4>1. m = [l EXCEPT !.next = x, !.head = p, !.tail = p, !.len = @ + 1]
        BY <1>4, <3>1 DEF append
      <4> HIDE DEF m, x
      <4>2. m = [head |-> p, tail |-> p, len |-> l.len + 1, next |-> x]
        BY <1>2, <4>1 DEF List
      <4> QED BY <3>1, <4>2 DEF x
    <3>2. CASE n # 0
      <4>1. m = [l EXCEPT !.next = y, !.tail = p, !.len = @ + 1]
        BY <1>4, <3>2 DEF append
      <4> HIDE DEF m, y
      <4>2. m = [head |-> l.head, tail |-> p, len |-> l.len + 1, next |-> y]
        BY <1>2, <4>1 DEF List
      <4> QED BY <3>2, <4>2 DEF y
    <3> QED BY <3>1, <3>2
  <2>4. l.head \in Pointer /\ n + 1 \in Nat
    BY <1>1, <1>2 DEF List
  <2> HIDE DEF m
  <2> QED BY <1>2, <1>5, <2>1, <2>2, <2>3, <2>4 DEF List
<1>7. /\ m.next[p] = Null
      /\ \A j \in 1..n : m.next[c[j]] = IF j = n THEN p ELSE c[j + 1]
  <2>1. CASE n = 0
    BY <1>2, <1>4, <2>1 DEF append, List
  <2>2. CASE n # 0
    <3>1. n \in 1..n /\ l.tail = c[n] /\ c[n] # p /\ c[n] \in Packet
      BY <1>1, <1>2, <2>2 DEF n
    <3>2. m.next = [[l.next EXCEPT ![p] = Null] EXCEPT ![l.tail] = p]
      BY <1>2, <1>4, <2>2 DEF append, List
    <3>3. l.next \in [Packet -> Pointer]
      BY <1>2 DEF List
    <3>4. m.next[p] = Null
      BY <3>1, <3>2, <3>3
    <3>5. ASSUME NEW j \in 1..n
          PROVE  m.next[c[j]] = IF j = n THEN p ELSE c[j + 1]
      <4>1. c[j] \in Packet /\ c[j] # p /\ (c[j] = c[n] <=> j = n)
        BY <1>1, <1>2, <3>1, <3>5 DEF n
      <4> QED BY <1>2, <3>1, <3>2, <3>3, <4>1
    <3> QED BY <3>4, <3>5
  <2> QED BY <2>1, <2>2
<1> HIDE DEF m
<1>8. \A j, k \in 1..n + 1 : d[j] = d[k] => j = k
  <2>1. \A j \in 1..n : c[j] # p
    BY DEF n
  <2>2. \A j \in 1..n + 1 : j \in 1..n \/ j = n + 1
    BY <1>1
  <2> QED BY <1>2, <1>3, <2>1, <2>2
<1>9. \A j \in 1..n + 1 : m.next[d[j]] = IF j = n + 1 THEN Null ELSE d[j + 1]
  <2> TAKE j \in 1..n + 1
  <2>1. CASE j = n + 1
    BY <1>3, <1>7, <2>1
  <2>2. CASE j # n + 1
    <3>1. j \in 1..n /\ (j # n => j + 1 \in 1..n)
      BY <1>1, <2>2
    <3> QED BY <1>3, <1>7, <2>2, <3>1
  <2> QED BY <2>1, <2>2
<1>10. d[1] = IF n = 0 THEN p ELSE c[1]
  BY <1>1, <1>3
<1> QED BY <1>1, <1>3, <1>6, <1>8, <1>9, <1>10 DEF Threads, m, d

(***************************************************************************)
(* purge(): the packets that timed out are the first ones.                 *)
(***************************************************************************)
LeftType == left \in [Packet -> Int]

\* The packets of c are in the order of their deadlines.
Sorted(c) ==
  \A i, j \in 1..Len(c) : i < j => left[c[i]] <= left[c[j]]

\* d is what is left of c behind its first j packets.
Rest(S, c, j, d) ==
  /\ d \in Seq(S) /\ Len(d) = Len(c) - j
  /\ \A i \in 1..Len(d) : d[i] = c[i + j]

\* A subsequence to the end is such a rest.
LEMMA RestIs ==
  ASSUME NEW S, NEW c \in Seq(S), NEW j \in 0..Len(c)
  PROVE  Rest(S, c, j, SubSeq(c, j + 1, Len(c)))
<1> DEFINE n == Len(c)
           d == SubSeq(c, j + 1, n)
<1>1. n \in Nat /\ \A i \in 1..n : c[i] \in S
  BY LenProperties, ElementOfSeq
<1> HIDE DEF n
<1>2. j + 1 \in Int /\ n \in Int /\ \A i \in j + 1..n : c[i] \in S
  BY <1>1 DEF n
<1>3. /\ d \in Seq(S)
      /\ Len(d) = IF j + 1 <= n THEN n - (j + 1) + 1 ELSE 0
      /\ \A i \in 1..n - (j + 1) + 1 : d[i] = c[j + 1 + i - 1]
  BY <1>2, SubSeqProperties
<1> HIDE DEF d
<1>4. j \in 0..n
  BY DEF n
<1>5. Len(d) = n - j
  BY <1>1, <1>3, <1>4
<1>6. \A i \in 1..n - j : d[i] = c[i + j]
  <2> TAKE i \in 1..n - j
  <2>1. i \in 1..n - (j + 1) + 1 /\ j + 1 + i - 1 = i + j
    BY <1>1, <1>4
  <2> QED BY <1>3, <2>1
<1> QED BY <1>3, <1>5, <1>6 DEF Rest, n, d

\* Sequences with the same elements are the same.
LEMMA SeqSame ==
  ASSUME NEW S, NEW s \in Seq(S), NEW t \in Seq(S), Len(s) = Len(t),
         \A i \in 1..Len(s) : s[i] = t[i]
  PROVE  s = t
BY SeqEqual

\* What is left of a good list.
LEMMA RestKept ==
  ASSUME LeftType, NEW c \in Seq(Packet), NEW j \in 0..Len(c), NEW d,
         Rest(Packet, c, j, d), Sorted(c)
  PROVE  /\ Sorted(d)
         /\ Len(d) # 0 => /\ Rest(Packet, c, j + 1, Tail(d)) /\ j + 1 \in 0..Len(c)
                          /\ d[1] = c[j + 1]
<1>1. Len(c) \in Nat
  BY LenProperties
<1>2. /\ d \in Seq(Packet) /\ Len(d) = Len(c) - j
      /\ \A i \in 1..Len(c) - j : d[i] = c[i + j]
  BY DEF Rest
<1> DEFINE n == Len(c)
<1> HIDE DEF n
<1>3. /\ n \in Nat /\ j \in 0..n /\ Len(d) = n - j
      /\ \A i \in 1..n - j : d[i] = c[i + j]
      /\ \A i, k \in 1..n : i < k => left[c[i]] <= left[c[k]]
  BY <1>1, <1>2 DEF n, Sorted
<1>4. Sorted(d)
  <2> SUFFICES ASSUME NEW i \in 1..n - j, NEW k \in 1..n - j, i < k
               PROVE  left[d[i]] <= left[d[k]]
    BY <1>3 DEF Sorted
  <2>1. i + j \in 1..n /\ k + j \in 1..n /\ i + j < k + j
    BY <1>3
  <2> QED BY <1>3, <2>1
<1>5. ASSUME Len(d) # 0
      PROVE  Rest(Packet, c, j + 1, Tail(d)) /\ j + 1 \in 0..n /\ d[1] = c[j + 1]
  <2>1. Without(Packet, d, 1, Tail(d))
    BY <1>2, <1>5, TailIs
  <2>2. /\ Tail(d) \in Seq(Packet) /\ Len(Tail(d)) = n - (j + 1)
        /\ \A i \in 1..n - (j + 1) : Tail(d)[i] = d[i + 1]
    BY <1>3, <2>1 DEF Without
  <2>3. \A i \in 1..n - (j + 1) : Tail(d)[i] = c[i + (j + 1)]
    <3> TAKE i \in 1..n - (j + 1)
    <3>1. i + 1 \in 1..n - j /\ i + 1 + j = i + (j + 1)
      BY <1>3
    <3> QED BY <1>3, <2>2, <3>1
  <2>4. 1 \in 1..n - j /\ 1 + j = j + 1
    BY <1>3, <1>5
  <2>5. d[1] = c[j + 1] /\ j + 1 \in 0..n
    BY <1>3, <2>4
  <2> QED BY <2>2, <2>3, <2>5 DEF Rest, n
<1> QED BY <1>4, <1>5 DEF n

\* One turn of purge() takes the first packet off if it timed out, and nothing
\* otherwise: in the order of deadlines no other packet can have timed out.
LEMMA PurgeOne ==
  ASSUME LeftType, NEW l, NEW c, Threads(l, c), Sorted(c)
  PROVE  IF Len(c) # 0 /\ left[c[1]] < 0
         THEN Threads(purge_one(l), Tail(c))
         ELSE purge_one(l) = l
<1> DEFINE n == Len(c)
           I == {i \in 1..n : left[c[i]] < 0}
<1>1. c \in Seq(Packet) /\ n \in Nat /\ Chain(l) = c /\ \A i \in 1..n : left[c[i]] \in Int
  BY ThreadsShort, ChainIs, ElementOfSeq DEF Threads, LeftType
<1>2. First(findAgedPacket(l), I)
  BY <1>1, FindAged
<1>3. CASE n # 0 /\ left[c[1]] < 0
  <2>1. 1 \in I /\ \A i \in I : i \in Nat /\ 1 <= i
    BY <1>1, <1>3
  <2>2. findAgedPacket(l) = 1
    BY <1>2, <2>1 DEF First
  <2>3. purge_one(l) = unlink(l, 1)
    BY <2>2 DEF purge_one
  <2>4. Without(Packet, c, 1, Tail(c)) /\ 1 \in 1..Len(c)
    BY <1>1, <1>3, TailIs
  <2> QED BY <1>3, <2>3, <2>4, UnlinkThreads
<1>4. CASE ~(n # 0 /\ left[c[1]] < 0)
  <2>1. I = {}
    <3> SUFFICES ASSUME NEW i \in 1..n, left[c[i]] < 0 PROVE FALSE
      OBVIOUS
    <3>1. n # 0 /\ 1 \in 1..n /\ ~(left[c[1]] < 0)
      BY <1>1, <1>4
    <3>2. left[c[1]] <= left[c[i]]
      BY <1>1, <3>1 DEF Sorted
    <3> QED BY <1>1, <3>1, <3>2
  <2>2. findAgedPacket(l) = 0
    BY <1>2, <2>1 DEF First
  <2> QED BY <1>4, <2>2 DEF purge_one
<1> QED BY <1>3, <1>4

\* The values of purge()'s loop.
IsPurge(l, f, N) ==
  f = [k \in 0..N |-> IF k = 0 THEN l ELSE purge_one(f[k - 1])]

\* The loop of purge() has a value after each turn.
LEMMA PurgeLoops ==
  ASSUME LeftType, NEW l, NEW c, Threads(l, c), Sorted(c)
  PROVE  \E f : /\ IsPurge(l, f, Cardinality(Packet))
                /\ purge(l) = f[Cardinality(Packet)]
<1> DEFINE N == Cardinality(Packet)
           V == {m \in List : \E d \in Seq(Packet) : Threads(m, d) /\ Sorted(d)}
           G == [m \in V |-> purge_one(m)]
<1>1. N \in Nat
  BY QueueAssumption, FS_CardinalityType
<1>2. l \in V
  BY DEF Threads
<1>3. ASSUME NEW m \in V
      PROVE  purge_one(m) \in V
  <2>1. PICK d \in Seq(Packet) : Threads(m, d) /\ Sorted(d)
    OBVIOUS
  <2>2. CASE Len(d) # 0 /\ left[d[1]] < 0
    <3>1. Threads(purge_one(m), Tail(d))
      BY <2>1, <2>2, PurgeOne
    <3>2. Rest(Packet, d, 0, d) /\ Len(d) \in Nat
      <4>1. Len(d) \in Nat
        BY LenProperties
      <4> QED BY <4>1 DEF Rest
    <3>3. Rest(Packet, d, 0 + 1, Tail(d)) /\ 0 + 1 \in 0..Len(d)
      <4>1. 0 \in 0..Len(d)
        BY <3>2
      <4> QED BY <2>1, <2>2, <3>2, <4>1, RestKept
    <3>4. Sorted(Tail(d))
      BY <2>1, <3>3, RestKept
    <3> QED BY <3>1, <3>4 DEF Threads
  <2>3. CASE ~(Len(d) # 0 /\ left[d[1]] < 0)
    BY <2>1, <2>3, PurgeOne
  <2> QED BY <2>2, <2>3
<1>4. G \in [V -> V]
  BY <1>3
<1> HIDE DEF V, N, G
<1>5. PICK f \in [0..N -> V] : Turns(f, l, G, N)
  BY <1>1, <1>2, <1>4, Loop
<1> USE DEF Turns
<1>6. \A k \in 0..N : f[k] = IF k = 0 THEN l ELSE purge_one(f[k - 1])
  <2> TAKE k \in 0..N
  <2>1. CASE k = 0
    BY <1>5, <2>1
  <2>2. CASE k # 0
    <3>1. k - 1 \in 0..N /\ f[k - 1] \in V
      BY <1>1, <1>5, <2>2
    <3>2. G[f[k - 1]] = purge_one(f[k - 1])
      BY <3>1 DEF G
    <3> QED BY <1>5, <2>2, <3>2
  <2> QED BY <2>1, <2>2
<1>7. IsPurge(l, f, N)
  BY <1>5, <1>6 DEF IsPurge
<1> DEFINE after == CHOOSE g : IsPurge(l, g, N)
<1>8. IsPurge(l, after, N)
  BY <1>7, Zenon
<1>9. purge(l) = after[N]
  BY Zenon DEF purge, IsPurge, N
<1> HIDE DEF after
<1> QED BY <1>8, <1>9 DEF N

\* purge() leaves the packets that have not timed out: all behind the first j.
LEMMA PurgeIs ==
  ASSUME LeftType, NEW l, NEW c, Threads(l, c), Sorted(c)
  PROVE  \E j \in 0..Len(c) :
           /\ Threads(purge(l), SubSeq(c, j + 1, Len(c)))
           /\ \A i \in 1..j : left[c[i]] < 0
           /\ j # Len(c) => left[c[j + 1]] >= 0
<1> DEFINE n == Len(c)
           N == Cardinality(Packet)
<1>1. /\ c \in Seq(Packet) /\ n \in Nat /\ N \in Nat /\ n <= N
      /\ \A i \in 1..n : left[c[i]] \in Int
  BY ThreadsShort, ElementOfSeq DEF Threads, LeftType
<1>2. PICK f : IsPurge(l, f, N) /\ purge(l) = f[N]
  BY PurgeLoops
<1>3. \A k \in 0..N : f[k] = IF k = 0 THEN l ELSE purge_one(f[k - 1])
  BY <1>2 DEF IsPurge
<1> DEFINE Gone(k, j, d) ==
             /\ Threads(f[k], d) /\ Rest(Packet, c, j, d)
             /\ \A i \in 1..j : left[c[i]] < 0
             /\ j = k \/ (j < n => left[c[j + 1]] >= 0)
           S == {k \in Nat : k \in 0..N => \E j \in 0..n : \E d : Gone(k, j, d)}
<1> HIDE DEF N, n
<1>4. 0 \in S
  <2>1. f[0] = l /\ 0 \in 0..n
    BY <1>1, <1>3
  <2>2. Rest(Packet, c, 0, c)
    BY <1>1 DEF Rest, n
  <2>3. Gone(0, 0, c)
    BY <2>1, <2>2
  <2> HIDE DEF Gone
  <2> QED BY <2>1, <2>3
<1>5. ASSUME NEW k \in Nat, k \in S
      PROVE  k + 1 \in S
  <2> SUFFICES ASSUME k + 1 \in 0..N
               PROVE  \E j \in 0..n : \E d : Gone(k + 1, j, d)
    BY DEF Gone
  <2>1. k \in 0..N
    BY <1>1
  <2>2. PICK j \in 0..n : \E d : Gone(k, j, d)
    BY <1>5, <2>1
  <2>3. PICK d : Gone(k, j, d)
    BY <2>2
  <2>4. f[k + 1] = purge_one(f[k])
    <3>1. k + 1 # 0 /\ k + 1 - 1 = k
      OBVIOUS
    <3> QED BY <1>3, <3>1
  <2>5. /\ Sorted(d) /\ Len(d) = n - j
        /\ Len(d) # 0 => /\ Rest(Packet, c, j + 1, Tail(d)) /\ j + 1 \in 0..n
                         /\ d[1] = c[j + 1]
    <3>1. j \in 0..Len(c) /\ Rest(Packet, c, j, d)
      BY <2>3 DEF n
    <3> QED BY <1>1, <3>1, RestKept DEF n, Rest
  <2>6. CASE Len(d) # 0 /\ left[d[1]] < 0
    <3>1. Threads(f[k + 1], Tail(d))
      BY <2>3, <2>4, <2>5, <2>6, PurgeOne
    <3>2. \A i \in 1..j + 1 : left[c[i]] < 0
      <4> TAKE i \in 1..j + 1
      <4>1. i \in 1..j \/ i = j + 1
        BY <1>1
      <4> QED BY <2>3, <2>5, <2>6, <4>1
    <3>3. j < n
      BY <1>1, <2>5, <2>6
    <3>4. j + 1 = k + 1 \/ (j + 1 < n => left[c[j + 1 + 1]] >= 0)
      <4>1. left[c[j + 1]] \in Int /\ left[c[j + 1]] < 0
        <5>1. j + 1 \in 1..n
          BY <1>1, <3>3
        <5> QED BY <1>1, <2>5, <2>6, <5>1
      <4> QED BY <2>3, <3>3, <4>1
    <3>5. Gone(k + 1, j + 1, Tail(d))
      BY <2>5, <2>6, <3>1, <3>2, <3>4
    <3> HIDE DEF Gone
    <3> QED BY <2>5, <2>6, <3>5
  <2>7. CASE ~(Len(d) # 0 /\ left[d[1]] < 0)
    <3>1. f[k + 1] = f[k]
      BY <2>3, <2>4, <2>5, <2>7, PurgeOne
    <3>2. j < n => left[c[j + 1]] >= 0
      <4> SUFFICES ASSUME j < n PROVE left[c[j + 1]] >= 0
        OBVIOUS
      <4>1. Len(d) # 0 /\ j + 1 \in 1..n
        BY <1>1, <2>5
      <4>2. left[d[1]] = left[c[j + 1]] /\ left[c[j + 1]] \in Int
        BY <1>1, <2>5, <4>1
      <4> QED BY <2>7, <4>1, <4>2
    <3>3. Gone(k + 1, j, d)
      BY <2>3, <3>1, <3>2
    <3> HIDE DEF Gone
    <3> QED BY <3>3
  <2> QED BY <2>6, <2>7
<1> HIDE DEF S
<1>6. N \in S
  BY <1>1, <1>4, <1>5, Induction
<1>7. PICK j \in 0..n : \E d : Gone(N, j, d)
  BY <1>1, <1>6 DEF S
<1>8. PICK d : Gone(N, j, d)
  BY <1>7
<1>9. d = SubSeq(c, j + 1, n)
  <2>1. Rest(Packet, c, j, SubSeq(c, j + 1, n)) /\ Rest(Packet, c, j, d)
    BY <1>1, <1>8, RestIs DEF n
  <2> QED BY <2>1, SeqSame DEF Rest
<1>10. j # n => left[c[j + 1]] >= 0
  BY <1>1, <1>8
<1> QED BY <1>2, <1>8, <1>9, <1>10 DEF n

(***************************************************************************)
(* The invariant.                                                          *)
(***************************************************************************)
\* The pointers thread the packets that a walk meets, in the order of their
\* deadlines, and there are no more of them than the limit.
QueueInv ==
  /\ LeftType
  /\ \A p \in Packet : left[p] <= Timeout
  /\ Threads(list, Chain(list))
  /\ Sorted(Chain(list))
  /\ Len(Chain(list)) <= Limit

\* b is what purge() leaves of c: all but the first j packets, which timed out.
Survivors(c, j, b) ==
  /\ c \in Seq(Packet) /\ j \in 0..Len(c) /\ Rest(Packet, c, j, b)
  /\ \A i \in 1..j : left[c[i]] < 0
  /\ j # Len(c) => left[c[j + 1]] >= 0

\* What a call finds.
Purged(j, b) ==
  /\ Survivors(Chain(list), j, b)
  /\ Threads(purge(list), b) /\ Sorted(b)
  /\ Len(b) \in Nat /\ Len(b) <= Limit

\* purge() leaves a list in order, within the limit.
LEMMA PurgeKeeps ==
  ASSUME QueueInv
  PROVE  \E j, b : Purged(j, b)
<1> DEFINE c == Chain(list)
<1>1. Threads(list, c) /\ Sorted(c) /\ LeftType /\ c \in Seq(Packet) /\ Len(c) \in Nat
  BY ThreadsShort DEF QueueInv, Threads
<1>2. Len(c) <= Limit /\ Limit \in Nat
  BY QueueAssumption DEF QueueInv
<1> HIDE DEF c
<1>3. PICK j \in 0..Len(c) :
        /\ Threads(purge(list), SubSeq(c, j + 1, Len(c)))
        /\ \A i \in 1..j : left[c[i]] < 0
        /\ j # Len(c) => left[c[j + 1]] >= 0
  BY <1>1, PurgeIs
<1> DEFINE b == SubSeq(c, j + 1, Len(c))
<1>4. Rest(Packet, c, j, b)
  BY <1>1, RestIs
<1> HIDE DEF b
<1>5. Sorted(b)
  BY <1>1, <1>4, RestKept
<1>6. Len(b) \in Nat /\ Len(b) <= Limit
  BY <1>1, <1>2, <1>4 DEF Rest
<1>7. Threads(purge(list), b)
  BY <1>3 DEF b
<1>8. Purged(j, b)
  BY <1>1, <1>3, <1>4, <1>5, <1>6, <1>7 DEF Purged, Survivors, c
<1> QED BY <1>8

\* A sorted list is sorted without one of its packets.
LEMMA SortedWithout ==
  ASSUME NEW c \in Seq(Packet), Sorted(c), NEW i \in 1..Len(c), NEW d,
         Without(Packet, c, i, d)
  PROVE  Sorted(d)
<1> DEFINE n == Len(c)
<1>1. n \in Nat
  BY LenProperties
<1>2. /\ Len(d) = n - 1
      /\ \A j \in 1..n - 1 : d[j] = IF j < i THEN c[j] ELSE c[j + 1]
      /\ \A j, k \in 1..n : j < k => left[c[j]] <= left[c[k]]
      /\ i \in 1..n
  BY DEF Without, Sorted
<1> HIDE DEF n
<1> SUFFICES ASSUME NEW j \in 1..n - 1, NEW k \in 1..n - 1, j < k
             PROVE  left[d[j]] <= left[d[k]]
  BY <1>2 DEF Sorted
<1> DEFINE x == IF j < i THEN j ELSE j + 1
           y == IF k < i THEN k ELSE k + 1
<1>3. x \in 1..n /\ y \in 1..n /\ x < y
  BY <1>1, <1>2
<1>4. d[j] = c[x] /\ d[k] = c[y]
  BY <1>1, <1>2
<1> HIDE DEF x, y
<1> QED BY <1>2, <1>3, <1>4

(***************************************************************************)
(* The calls, in terms of the packets.                                     *)
(***************************************************************************)
\* A full buffer gives up its oldest packet.
Room(b) == IF Len(b) = Limit THEN Tail(b) ELSE b

Entered(p, j, b) ==
  /\ Purged(j, b)
  /\ \A i \in DOMAIN Chain(list) : Chain(list)[i] # p
  /\ Threads(list', Append(Room(b), p))
  /\ left' = [left EXCEPT ![p] = Timeout]
  /\ result' = IF Len(b) = Limit THEN b[1] ELSE Null

\* The packet at position i leaves, or none.
Taken(i, j, b) ==
  /\ Purged(j, b)
  /\ i \in 0..Len(b)
  /\ Threads(list', IF i = 0 THEN b ELSE RemoveAt(b, i))
  /\ left' = left
  /\ result' = IF i = 0 THEN Null ELSE b[i]

\* What room is made of: packets of b, without its first one at most.
LEMMA RoomIs ==
  ASSUME NEW b \in Seq(Packet), Sorted(b), Len(b) <= Limit
  PROVE  /\ Room(b) \in Seq(Packet) /\ Sorted(Room(b))
         /\ Len(Room(b)) \in Nat /\ Len(Room(b)) < Limit
         /\ \A i \in 1..Len(Room(b)) : \E k \in 1..Len(b) : Room(b)[i] = b[k]
         /\ Len(b) = Limit => Len(b) # 0 /\ Without(Packet, b, 1, Tail(b))
<1>1. Len(b) \in Nat /\ Limit \in Nat \ {0}
  BY LenProperties, QueueAssumption
<1>2. CASE Len(b) = Limit
  <2>1. Without(Packet, b, 1, Tail(b)) /\ Room(b) = Tail(b) /\ 1 \in 1..Len(b)
    BY <1>1, <1>2, TailIs DEF Room
  <2>2. Sorted(Tail(b))
    BY <2>1, SortedWithout
  <2>3. /\ Tail(b) \in Seq(Packet) /\ Len(Tail(b)) = Len(b) - 1
        /\ \A i \in 1..Len(Tail(b)) : Tail(b)[i] = IF i < 1 THEN b[i] ELSE b[i + 1]
    BY <2>1 DEF Without
  <2>4. \A i \in 1..Len(b) - 1 : i + 1 \in 1..Len(b) /\ ~(i < 1)
    BY <1>1
  <2> QED BY <1>1, <1>2, <2>1, <2>2, <2>3, <2>4
<1>3. CASE Len(b) # Limit
  BY <1>1, <1>3 DEF Room
<1> QED BY <1>2, <1>3

\* enque() purges, makes room, and appends the packet.
LEMMA EnqueIs ==
  ASSUME QueueInv, NEW p \in Packet, enque(p)
  PROVE  \E j, b : Entered(p, j, b)
<1> DEFINE l == purge(list)
           c == Chain(list)
<1>1. PICK j, b : Purged(j, b)
  BY PurgeKeeps
<1>2. /\ Threads(l, b) /\ b \in Seq(Packet) /\ Sorted(b)
      /\ Len(b) \in Nat /\ Len(b) <= Limit /\ Survivors(c, j, b)
  BY <1>1 DEF Purged, Survivors, Rest
<1>3. l.len = Len(b) /\ l.head = IF Len(b) = 0 THEN Null ELSE b[1]
  BY <1>2 DEF Threads
<1>4. /\ \A i \in DOMAIN c : c[i] # p
      /\ list' = append(IF l.len = Limit THEN remove_head(l) ELSE l, p)
      /\ left' = [left EXCEPT ![p] = Timeout]
      /\ result' = IF l.len = Limit THEN l.head ELSE Null
  BY Zenon DEF enque
<1>5. \A i \in 1..Len(b) : b[i] # p
  <2>1. c \in Seq(Packet) /\ j \in 0..Len(c) /\ Len(b) = Len(c) - j /\ Len(c) \in Nat
        /\ \A i \in 1..Len(b) : b[i] = c[i + j]
    BY <1>2, LenProperties DEF Survivors, Rest
  <2>2. DOMAIN c = 1..Len(c)
    BY <2>1, LenProperties
  <2> HIDE DEF c
  <2>3. \A i \in 1..Len(b) : i + j \in 1..Len(c)
    BY <2>1
  <2> QED BY <1>4, <2>1, <2>2, <2>3
<1> HIDE DEF l, c
<1> DEFINE m == IF l.len = Limit THEN remove_head(l) ELSE l
<1>6. /\ Room(b) \in Seq(Packet)
      /\ \A i \in 1..Len(Room(b)) : \E k \in 1..Len(b) : Room(b)[i] = b[k]
      /\ Len(b) = Limit => Len(b) # 0 /\ Without(Packet, b, 1, Tail(b))
  BY <1>2, RoomIs
<1>7. Threads(m, Room(b))
  <2>1. CASE Len(b) = Limit
    BY <1>2, <1>3, <1>6, <2>1, RemoveHeadThreads DEF Room
  <2>2. CASE Len(b) # Limit
    BY <1>2, <1>3, <2>2 DEF Room
  <2> QED BY <2>1, <2>2
<1>8. \A i \in 1..Len(Room(b)) : Room(b)[i] # p
  BY <1>5, <1>6
<1> HIDE DEF m
<1>9. Threads(append(m, p), Append(Room(b), p))
  BY <1>7, <1>8, AppendThreads
<1>10. result' = IF Len(b) = Limit THEN b[1] ELSE Null
  BY <1>3, <1>4, <1>6
<1>11. list' = append(m, p)
  BY <1>4 DEF m
<1>12. Entered(p, j, b)
  BY <1>1, <1>4, <1>9, <1>10, <1>11 DEF Entered, c
<1> QED BY <1>12

\* Taking the packet at position i of what purge() leaves.
LEMMA TakenIs ==
  ASSUME QueueInv, NEW j, NEW b, Purged(j, b), NEW i \in 1..Len(b),
         list' = unlink(purge(list), i), left' = left, result' = b[i]
  PROVE  Taken(i, j, b)
<1>1. Threads(purge(list), b) /\ b \in Seq(Packet) /\ Len(b) \in Nat
  BY DEF Purged, Threads
<1>2. Without(Packet, b, i, RemoveAt(b, i))
  BY <1>1, RemoveAtIs
<1>3. Threads(list', RemoveAt(b, i))
  BY <1>1, <1>2, UnlinkThreads
<1>4. i # 0 /\ i \in 0..Len(b)
  BY <1>1
<1> QED BY <1>3, <1>4 DEF Taken

\* deque() takes the first packet that purge() leaves, if any.
LEMMA DequeIs ==
  ASSUME QueueInv, deque
  PROVE  \E j, b : Taken(IF Len(b) = 0 THEN 0 ELSE 1, j, b)
<1> DEFINE l == purge(list)
<1>1. PICK j, b : Purged(j, b)
  BY PurgeKeeps
<1>2. Threads(l, b) /\ b \in Seq(Packet) /\ Len(b) \in Nat
  BY <1>1 DEF Purged, Threads
<1>3. l.head = IF Len(b) = 0 THEN Null ELSE b[1]
  BY <1>2 DEF Threads
<1>4. list' = remove_head(l) /\ result' = l.head /\ left' = left
  BY DEF deque
<1> HIDE DEF l
<1>5. CASE Len(b) = 0
  <2>1. Threads(list', b) /\ result' = Null
    BY <1>2, <1>3, <1>4, <1>5, RemoveHeadNone
  <2>2. Taken(0, j, b)
    BY <1>1, <1>2, <1>4, <2>1 DEF Taken
  <2> QED BY <1>5, <2>2
<1>6. CASE Len(b) # 0
  <2>1. 1 \in 1..Len(b) /\ Chain(l) = b
    BY <1>2, <1>6, ChainIs
  <2>2. list' = unlink(l, 1) /\ result' = b[1]
    BY <1>3, <1>4, <1>6, <2>1 DEF unlink
  <2>3. Taken(1, j, b)
    BY <1>1, <1>4, <2>1, <2>2, TakenIs DEF l
  <2> QED BY <1>6, <2>3
<1> QED BY <1>5, <1>6

\* deque(dst) takes the first packet for that destination, if any.
LEMMA DequeForIs ==
  ASSUME QueueInv, NEW d \in Address, dequeFor(d)
  PROVE  \E i, j, b : /\ First(i, {k \in 1..Len(b) : dst[b[k]] = d})
                      /\ Taken(i, j, b)
<1> DEFINE l == purge(list)
           i == findPacketWithDst(l, d)
<1>1. PICK j, b : Purged(j, b)
  BY PurgeKeeps
<1>2. Threads(l, b) /\ b \in Seq(Packet) /\ Len(b) \in Nat /\ Chain(l) = b
  BY <1>1, ChainIs DEF Purged, Threads
<1>3. First(i, {k \in 1..Len(b) : dst[b[k]] = d})
  BY <1>2, FindDst
<1>4. /\ list' = IF i = 0 THEN l ELSE unlink(l, i)
      /\ result' = IF i = 0 THEN Null ELSE b[i]
      /\ left' = left
  <2>1. /\ list' = IF i = 0 THEN l ELSE unlink(l, i)
        /\ result' = IF i = 0 THEN Null ELSE Chain(l)[i]
        /\ left' = left
    BY Zenon DEF dequeFor
  <2> HIDE DEF l, i
  <2> QED BY <1>2, <2>1
<1> HIDE DEF i, l
<1>5. i = 0 \/ i \in 1..Len(b)
  BY <1>3 DEF First
<1>6. CASE i = 0
  <2>1. Taken(i, j, b)
    BY <1>1, <1>2, <1>4, <1>6 DEF Taken
  <2> QED BY <1>3, <2>1
<1>7. CASE i # 0
  <2>1. Taken(i, j, b)
    BY <1>1, <1>4, <1>5, <1>7, TakenIs DEF l
  <2> QED BY <1>3, <2>1
<1> QED BY <1>6, <1>7

(***************************************************************************)
(* The invariant holds.                                                    *)
(***************************************************************************)
\* What every step has to show of the list it leaves.
LEMMA InvFrom ==
  ASSUME NEW d, Threads(list', d), Sorted(d)', Len(d) <= Limit,
         LeftType', \A p \in Packet : left'[p] <= Timeout
  PROVE  QueueInv'
<1>1. Chain(list') = d
  BY ChainIs
<1>2. Sorted(Chain(list))'
  BY <1>1 DEF Sorted
<1> QED BY <1>1, <1>2 DEF QueueInv

\* The packet that enters has the latest deadline, and is not in the buffer yet.
LEMMA EnteredKeeps ==
  ASSUME QueueInv, NEW p \in Packet, NEW j, NEW b, Entered(p, j, b)
  PROVE  QueueInv'
<1> DEFINE e == Room(b)
           d == Append(e, p)
<1>1. b \in Seq(Packet) /\ Sorted(b) /\ Len(b) \in Nat /\ Len(b) <= Limit
      /\ Survivors(Chain(list), j, b)
  BY DEF Entered, Purged, Survivors, Rest
<1>2. /\ e \in Seq(Packet) /\ Sorted(e) /\ Len(e) \in Nat /\ Len(e) < Limit
      /\ \A i \in 1..Len(e) : \E k \in 1..Len(b) : e[i] = b[k]
  BY <1>1, RoomIs
<1>3. /\ Len(d) = Len(e) + 1 /\ d[Len(e) + 1] = p
      /\ \A i \in 1..Len(e) : d[i] = e[i]
  BY <1>2, AppendProperties
<1>4. \A i \in 1..Len(b) : b[i] # p
  <2> DEFINE c == Chain(list)
  <2>1. c \in Seq(Packet) /\ j \in 0..Len(c) /\ Len(b) = Len(c) - j /\ Len(c) \in Nat
        /\ \A i \in 1..Len(b) : b[i] = c[i + j]
    BY <1>1, LenProperties DEF Survivors, Rest
  <2>2. DOMAIN c = 1..Len(c) /\ \A i \in DOMAIN c : c[i] # p
    BY <2>1, LenProperties DEF Entered
  <2> HIDE DEF c
  <2>3. \A i \in 1..Len(b) : i + j \in 1..Len(c)
    BY <2>1
  <2> QED BY <2>1, <2>2, <2>3
<1>5. left' = [left EXCEPT ![p] = Timeout] /\ LeftType /\ \A x \in Packet : left[x] <= Timeout
  BY DEF Entered, QueueInv
<1>6. LeftType' /\ \A x \in Packet : left'[x] <= Timeout
  BY <1>5, QueueAssumption DEF LeftType
<1>7. \A i \in 1..Len(e) : e[i] \in Packet /\ e[i] # p
  BY <1>2, <1>4, ElementOfSeq
<1>8. \A i \in 1..Len(e) : left'[e[i]] = left[e[i]]
  BY <1>5, <1>7 DEF LeftType
<1> HIDE DEF e, d
<1>9. Sorted(d)'
  <2> SUFFICES ASSUME NEW i \in 1..Len(e) + 1, NEW k \in 1..Len(e) + 1, i < k
               PROVE  left'[d[i]] <= left'[d[k]]
    BY <1>3 DEF Sorted
  <2>1. i \in 1..Len(e) /\ left'[d[i]] = left[e[i]] /\ d[i] = e[i]
    BY <1>2, <1>3, <1>8
  <2>2. CASE k = Len(e) + 1
    <3>1. left'[d[k]] = Timeout
      BY <1>3, <1>5, <2>2 DEF LeftType
    <3> QED BY <1>5, <1>7, <2>1, <3>1
  <2>3. CASE k # Len(e) + 1
    <3>1. k \in 1..Len(e)
      <4> DEFINE n == Len(e)
      <4>1. n \in Nat /\ k \in 1..n + 1 /\ k # n + 1
        BY <1>2, <2>3
      <4> HIDE DEF n
      <4>2. k \in 1..n
        BY <4>1
      <4> QED BY <4>2 DEF n
    <3>2. left'[d[k]] = left[e[k]]
      BY <1>3, <1>8, <3>1
    <3> QED BY <1>2, <2>1, <3>1, <3>2 DEF Sorted
  <2> QED BY <2>2, <2>3
<1>10. Threads(list', d) /\ Len(d) <= Limit
  BY <1>2, <1>3, QueueAssumption DEF Entered, d, e
<1> QED BY <1>6, <1>9, <1>10, InvFrom

\* A list is in order without the packet that leaves.
LEMMA TakenKeeps ==
  ASSUME QueueInv, NEW i, NEW j, NEW b, Taken(i, j, b)
  PROVE  QueueInv'
<1> DEFINE d == IF i = 0 THEN b ELSE RemoveAt(b, i)
<1>1. /\ b \in Seq(Packet) /\ Sorted(b) /\ Len(b) \in Nat /\ Len(b) <= Limit
      /\ i \in 0..Len(b) /\ Threads(list', d) /\ left' = left
  BY DEF Taken, Purged, Threads
<1>2. i # 0 => Without(Packet, b, i, RemoveAt(b, i))
  BY <1>1, RemoveAtIs
<1>3. Sorted(d) /\ Len(d) <= Limit
  <2>1. CASE i = 0
    BY <1>1, <2>1
  <2>2. CASE i # 0
    <3>1. i \in 1..Len(b)
      BY <1>1, <2>2
    <3>2. Sorted(RemoveAt(b, i))
      BY <1>1, <1>2, <3>1, SortedWithout
    <3>3. Len(RemoveAt(b, i)) = Len(b) - 1
      BY <1>2, <2>2 DEF Without
    <3> QED BY <1>1, <2>2, <3>2, <3>3, QueueAssumption
  <2> QED BY <2>1, <2>2
<1> HIDE DEF d
<1>4. Sorted(d)'
  BY <1>1, <1>3 DEF Sorted
<1>5. LeftType' /\ \A p \in Packet : left'[p] <= Timeout
  BY <1>1 DEF QueueInv, LeftType
<1> QED BY <1>1, <1>3, <1>4, <1>5, InvFrom

\* The clock runs for every packet alike.
LEMMA TickKeeps ==
  ASSUME QueueInv, Tick
  PROVE  QueueInv'
<1>0. PICK c : c = Chain(list)
  OBVIOUS
<1>1. /\ LeftType /\ list' = list /\ Threads(list, c) /\ Sorted(c) /\ Len(c) <= Limit
      /\ \A p \in Packet : left[p] <= Timeout
      /\ left' = [p \in Packet |-> IF left[p] < 0 THEN left[p] ELSE left[p] - 1]
  BY <1>0 DEF QueueInv, Tick
<1>2. \A p \in Packet : left[p] \in Int
  BY <1>1 DEF LeftType
<1>3. \A p \in Packet : left'[p] = IF left[p] < 0 THEN left[p] ELSE left[p] - 1
  BY <1>1
<1>4. LeftType'
  BY <1>1, <1>2 DEF LeftType
<1>5. \A p \in Packet : left'[p] <= Timeout
  BY <1>1, <1>2, <1>3, QueueAssumption
<1>6. \A i \in 1..Len(c) : c[i] \in Packet
  BY <1>1, ElementOfSeq DEF Threads
<1>7. Sorted(c)'
  <2> SUFFICES ASSUME NEW i \in 1..Len(c), NEW k \in 1..Len(c), i < k
               PROVE  left'[c[i]] <= left'[c[k]]
    BY DEF Sorted
  <2>1. left[c[i]] <= left[c[k]] /\ c[i] \in Packet /\ c[k] \in Packet
    BY <1>1, <1>6 DEF Sorted
  <2> QED BY <1>2, <1>3, <2>1
<1> QED BY <1>1, <1>4, <1>5, <1>7, InvFrom

\* The empty list.
LEMMA InvInit == Init => QueueInv
<1> SUFFICES ASSUME Init PROVE QueueInv
  OBVIOUS
<1>1. list \in List
  BY DEF Init, List, Pointer
<1>2. Threads(list, <<>>)
  BY <1>1 DEF Init, Threads
<1>3. Chain(list) = <<>>
  BY <1>2, ChainIs
<1>4. Sorted(<<>>)
  BY DEF Sorted
<1>5. LeftType /\ \A p \in Packet : left[p] <= Timeout
  BY QueueAssumption DEF Init, LeftType
<1> QED BY <1>2, <1>3, <1>4, <1>5, QueueAssumption DEF QueueInv

\* Every step keeps the invariant.
LEMMA InvStep == QueueInv /\ [Next]_vars => QueueInv'
<1> SUFFICES ASSUME QueueInv, [Next]_vars PROVE QueueInv'
  OBVIOUS
<1>1. ASSUME NEW p \in Packet, enque(p)
      PROVE  QueueInv'
  BY <1>1, EnqueIs, EnteredKeeps
<1>2. CASE deque
  BY <1>2, DequeIs, TakenKeeps
<1>3. ASSUME NEW d \in Address, dequeFor(d)
      PROVE  QueueInv'
  BY <1>3, DequeForIs, TakenKeeps
<1>4. ASSUME list' = list, left' = left
      PROVE  QueueInv'
  BY <1>4 DEF QueueInv, LeftType, Sorted
<1>5. ASSUME NEW d \in Address, find(d)
      PROVE  QueueInv'
  BY <1>4, <1>5 DEF find
<1>6. CASE Tick
  BY <1>6, TickKeeps
<1>7. CASE UNCHANGED vars
  BY <1>4, <1>7 DEF vars
<1> QED BY <1>1, <1>2, <1>3, <1>5, <1>6, <1>7 DEF Next

\* The invariant holds in every state.
LEMMA InvHolds == Spec => []QueueInv
BY InvInit, InvStep, PTL DEF Spec

\* verifyQueue() always holds: the length is that of the list, and the tail its
\* last packet, whatever next_ pointers the packets came with.
THEOREM ListIsWhole == Spec => []VerifyQueue
<1>1. QueueInv => VerifyQueue
  <2> SUFFICES ASSUME QueueInv PROVE VerifyQueue
    OBVIOUS
  <2> DEFINE c == Chain(list)
  <2>1. Threads(list, c) /\ c \in Seq(Packet) /\ (Len(c) = 0 <=> c = <<>>)
    BY EmptySeq DEF QueueInv, Threads
  <2> HIDE DEF c
  <2>2. list.len = Len(c) /\ list.tail = IF c = <<>> THEN Null ELSE c[Len(c)]
    BY <2>1 DEF Threads
  <2> QED BY <2>2 DEF VerifyQueue, c
<1> QED BY <1>1, InvHolds, PTL

\* The packets that have timed out are always in front of the others.
THEOREM DeadlinesInOrder == Spec => []AgedAtHead
<1>1. QueueInv => AgedAtHead
  <2> SUFFICES ASSUME QueueInv PROVE AgedAtHead
    OBVIOUS
  <2> DEFINE c == Chain(list)
  <2>1. Sorted(c) /\ c \in Seq(Packet) /\ DOMAIN c = 1..Len(c)
    BY LenProperties DEF QueueInv, Threads
  <2> HIDE DEF c
  <2> QED BY <2>1 DEF AgedAtHead, Sorted, c
<1> QED BY <1>1, InvHolds, PTL

\* The list never holds more than limit_ packets, although packets are only
\* purged, and made room for, when the next one comes.
THEOREM BelowLimit == Spec => [](Len(Chain(list)) <= Limit)
<1>1. QueueInv => Len(Chain(list)) <= Limit
  BY DEF QueueInv
<1> QED BY <1>1, InvHolds, PTL

(***************************************************************************)
(* The list implements PacketBuffer.                                       *)
(***************************************************************************)
Item == [pkt: Packet, left: Int]

\* The items of the packets c, where lf is the time left to each.
Timed(lf, c) == [i \in DOMAIN c |-> [pkt |-> c[i], left |-> lf[c[i]]]]

\* The items are those of the packets, one by one.
LEMMA ItemsType ==
  ASSUME NEW lf \in [Packet -> Int], NEW c \in Seq(Packet)
  PROVE  /\ Timed(lf, c) \in Seq(Item) /\ Len(Timed(lf, c)) = Len(c)
         /\ Len(c) \in Nat /\ DOMAIN Timed(lf, c) = 1..Len(c)
         /\ \A i \in 1..Len(c) :
              /\ c[i] \in Packet /\ lf[c[i]] \in Int
              /\ Timed(lf, c)[i] = [pkt |-> c[i], left |-> lf[c[i]]]
              /\ Timed(lf, c)[i].pkt = c[i] /\ Timed(lf, c)[i].left = lf[c[i]]
<1>1. Len(c) \in Nat /\ DOMAIN c = 1..Len(c) /\ \A i \in 1..Len(c) : c[i] \in Packet
  BY LenProperties, ElementOfSeq
<1>2. \A i \in 1..Len(c) : lf[c[i]] \in Int
  BY <1>1
<1>3. Timed(lf, c) = [i \in 1..Len(c) |-> [pkt |-> c[i], left |-> lf[c[i]]]]
  BY <1>1 DEF Timed
<1> DEFINE n == Len(c)
           s == Timed(lf, c)
<1> HIDE DEF n, s
<1>4. n \in Nat /\ s \in [1..n -> Item]
  BY <1>1, <1>2, <1>3 DEF Item, n, s
<1>5. s \in Seq(Item) /\ Len(s) = n
  BY <1>4
<1>6. \A i \in 1..n : s[i] = [pkt |-> c[i], left |-> lf[c[i]]]
  BY <1>3 DEF n, s
<1> QED BY <1>1, <1>2, <1>4, <1>5, <1>6 DEF n, s

\* Leaving out a packet is leaving out its item.
LEMMA ItemsWithout ==
  ASSUME NEW lf \in [Packet -> Int], NEW c \in Seq(Packet), NEW i \in 1..Len(c), NEW d,
         Without(Packet, c, i, d), NEW s, Without(Item, Timed(lf, c), i, s)
  PROVE  Timed(lf, d) = s
<1>1. Without(Packet, c, i, d)
  OBVIOUS
<1>2. /\ Timed(lf, c) \in Seq(Item) /\ Len(Timed(lf, c)) = Len(c) /\ Len(c) \in Nat
      /\ \A k \in 1..Len(c) : Timed(lf, c)[k] = [pkt |-> c[k], left |-> lf[c[k]]]
  BY ItemsType
<1>3. /\ d \in Seq(Packet) /\ Len(d) = Len(c) - 1
      /\ \A k \in 1..Len(c) - 1 : d[k] = IF k < i THEN c[k] ELSE c[k + 1]
  BY DEF Without
<1>4. /\ Timed(lf, d) \in Seq(Item) /\ Len(Timed(lf, d)) = Len(c) - 1
      /\ \A k \in 1..Len(c) - 1 : Timed(lf, d)[k] = [pkt |-> d[k], left |-> lf[d[k]]]
  <2>1. lf \in [Packet -> Int] /\ d \in Seq(Packet)
    BY <1>3
  <2>2. /\ Timed(lf, d) \in Seq(Item) /\ Len(Timed(lf, d)) = Len(d)
        /\ \A k \in 1..Len(d) : Timed(lf, d)[k] = [pkt |-> d[k], left |-> lf[d[k]]]
    BY <2>1, ItemsType
  <2> QED BY <1>3, <2>2
<1>5. /\ s \in Seq(Item) /\ Len(s) = Len(c) - 1
      /\ \A k \in 1..Len(c) - 1 : s[k] = IF k < i THEN Timed(lf, c)[k] ELSE Timed(lf, c)[k + 1]
  BY <1>2 DEF Without
<1>6. ASSUME NEW k \in 1..Len(c) - 1
      PROVE  Timed(lf, d)[k] = s[k]
  <2> DEFINE x == IF k < i THEN k ELSE k + 1
             n == Len(c)
  <2>1. x \in 1..n
    <3> HIDE DEF n
    <3>1. n \in Nat /\ k \in 1..n - 1
      BY <1>2 DEF n
    <3> QED BY <3>1
  <2>2. d[k] = c[x] /\ s[k] = Timed(lf, c)[x]
    BY <1>3, <1>5
  <2> HIDE DEF x
  <2>3. Timed(lf, c)[x] = [pkt |-> c[x], left |-> lf[c[x]]]
    BY <1>2, <2>1
  <2> QED BY <1>4, <2>2, <2>3
<1> QED BY <1>4, <1>5, <1>6, SeqSame

\* The items behind the first j.
LEMMA ItemsRest ==
  ASSUME NEW lf \in [Packet -> Int], NEW c \in Seq(Packet), NEW j \in 0..Len(c),
         NEW d, Rest(Packet, c, j, d),
         NEW s, Rest(Item, Timed(lf, c), j, s)
  PROVE  Timed(lf, d) = s
<1>2. /\ Timed(lf, c) \in Seq(Item) /\ Len(Timed(lf, c)) = Len(c) /\ Len(c) \in Nat
      /\ \A k \in 1..Len(c) : Timed(lf, c)[k] = [pkt |-> c[k], left |-> lf[c[k]]]
  BY ItemsType
<1>3. /\ d \in Seq(Packet) /\ Len(d) = Len(c) - j
      /\ \A k \in 1..Len(c) - j : d[k] = c[k + j]
  BY DEF Rest
<1>4. /\ Timed(lf, d) \in Seq(Item) /\ Len(Timed(lf, d)) = Len(c) - j
      /\ \A k \in 1..Len(c) - j : Timed(lf, d)[k] = [pkt |-> d[k], left |-> lf[d[k]]]
  <2>1. lf \in [Packet -> Int] /\ d \in Seq(Packet)
    BY <1>3
  <2>2. /\ Timed(lf, d) \in Seq(Item) /\ Len(Timed(lf, d)) = Len(d)
        /\ \A k \in 1..Len(d) : Timed(lf, d)[k] = [pkt |-> d[k], left |-> lf[d[k]]]
    BY <2>1, ItemsType
  <2> QED BY <1>3, <2>2
<1>5. /\ s \in Seq(Item) /\ Len(s) = Len(c) - j
      /\ \A k \in 1..Len(c) - j : s[k] = Timed(lf, c)[k + j]
  BY <1>2 DEF Rest
<1>6. ASSUME NEW k \in 1..Len(c) - j
      PROVE  Timed(lf, d)[k] = s[k]
  <2> DEFINE n == Len(c)
  <2>1. k + j \in 1..n
    <3> HIDE DEF n
    <3>1. n \in Nat /\ j \in 0..n /\ k \in 1..n - j
      BY <1>2 DEF n
    <3> QED BY <3>1
  <2>2. Timed(lf, c)[k + j] = [pkt |-> c[k + j], left |-> lf[c[k + j]]]
    BY <1>2, <2>1
  <2> QED BY <1>3, <1>4, <1>5, <2>2
<1> QED BY <1>4, <1>5, <1>6, SeqSame

\* There is one first of a kind.
LEMMA OneFirst ==
  ASSUME NEW I \in SUBSET Nat, NEW i, NEW j, First(i, I), First(j, I)
  PROVE  i = j
<1>1. CASE I = {}
  BY <1>1 DEF First
<1>2. CASE I # {}
  <2>1. i \in I /\ j \in I /\ i <= j /\ j <= i
    BY <1>2 DEF First
  <2> QED BY <2>1
<1> QED BY <1>1, <1>2

\* PacketBuffer finds the first item of a kind as the list finds a packet.
LEMMA BufferMin ==
  ASSUME NEW S \in SUBSET Nat, S # {}
  PROVE  Buffer!Min(S) = Min(S)
BY DEF Buffer!Min, Min

\* What purge() leaves is what PacketBuffer calls fresh.
LEMMA FreshIs ==
  ASSUME LeftType, NEW j, NEW b, Survivors(Chain(list), j, b)
  PROVE  Buffer!Fresh = Timed(left, b)
<1>0. left \in [Packet -> Int]
  BY DEF LeftType
<1> DEFINE c == Chain(list)
           n == Len(c)
           I == {i \in 1..Len(Timed(left, c)) : Timed(left, c)[i].left >= 0}
           first == IF I # {} THEN Buffer!Min(I) ELSE 0
<1>1. Buffer!Fresh = IF first = 0 THEN <<>>
                     ELSE SubSeq(Timed(left, c), first, Len(Timed(left, c)))
  BY DEF Buffer!Fresh, Buffer!SelectInSeq, Items, Timed
<1>2. /\ c \in Seq(Packet) /\ j \in 0..n /\ Rest(Packet, c, j, b)
      /\ \A i \in 1..j : left[c[i]] < 0
      /\ j # n => left[c[j + 1]] >= 0
  BY DEF Survivors
<1>3. /\ n \in Nat /\ Timed(left, c) \in Seq(Item) /\ Len(Timed(left, c)) = n
      /\ \A i \in 1..n : Timed(left, c)[i].left = left[c[i]] /\ left[c[i]] \in Int
  BY <1>2, <1>0, ItemsType
<1>4. I \in SUBSET Nat /\ First(first, I)
  <2>1. I \in SUBSET Nat
    BY <1>3
  <2> HIDE DEF I
  <2>2. CASE I = {}
    BY <2>1, <2>2 DEF First
  <2>3. CASE I # {}
    <3>1. first = Min(I)
      BY <2>1, <2>3, BufferMin
    <3>2. Min(I) \in I /\ \A k \in I : Min(I) <= k
      BY <2>1, <2>3, MinIs
    <3> HIDE DEF first
    <3> QED BY <2>1, <2>3, <3>1, <3>2 DEF First
  <2> QED BY <2>2, <2>3
<1> HIDE DEF first, n
<1>5. \A i \in I : i \in j + 1..n
  <2> SUFFICES ASSUME NEW i \in 1..n, left[c[i]] >= 0 PROVE i \in j + 1..n
    BY <1>3
  <2>1. ~(i \in 1..j)
    BY <1>2, <1>3
  <2> QED BY <1>2, <1>3, <2>1
<1>6. CASE j = n
  <2>1. I = {}
    BY <1>3, <1>5, <1>6
  <2>2. Buffer!Fresh = <<>>
    BY <1>1, <1>4, <2>1 DEF First
  <2>3. Rest(Item, Timed(left, c), j, <<>>)
    BY <1>3, <1>6 DEF Rest
  <2> QED BY <1>2, <2>2, <2>3, <1>0, ItemsRest DEF n
<1>7. CASE j # n
  <2>1. j + 1 \in I
    BY <1>2, <1>3, <1>7
  <2>2. First(j + 1, I)
    <3> HIDE DEF I
    <3>1. \A i \in I : j + 1 <= i
      BY <1>2, <1>3, <1>5
    <3> QED BY <2>1, <3>1 DEF First
  <2>3. first = j + 1
    BY <1>4, <2>2, OneFirst
  <2>4. Buffer!Fresh = SubSeq(Timed(left, c), j + 1, Len(Timed(left, c)))
    BY <1>1, <1>2, <1>3, <2>3
  <2>5. Rest(Item, Timed(left, c), j, SubSeq(Timed(left, c), j + 1, Len(Timed(left, c))))
    BY <1>2, <1>3, RestIs
  <2>6. Timed(left, b) = SubSeq(Timed(left, c), j + 1, Len(Timed(left, c)))
    <3> DEFINE s == SubSeq(Timed(left, c), j + 1, Len(Timed(left, c)))
    <3>1. Rest(Item, Timed(left, c), j, s) /\ c \in Seq(Packet) /\ j \in 0..Len(c)
      BY <1>2, <2>5 DEF n
    <3> HIDE DEF s, c
    <3>2. Timed(left, b) = s
      BY <1>2, <3>1, <1>0, ItemsRest
    <3> QED BY <3>2 DEF s
  <2> QED BY <2>4, <2>6, Zenon
<1> QED BY <1>6, <1>7

\* The buffer, before and after a step.
LEMMA BufferIs ==
  ASSUME NEW d, Threads(list', d)
  PROVE  /\ Items(Chain(list)) = Timed(left, Chain(list))
         /\ Items(Chain(list))' = Timed(left', d)
<1>1. Chain(list') = d
  BY ChainIs
<1> QED BY <1>1, Zenon DEF Items, Timed

\* Buffer!Enque: the items of the packets that stay are what they were.
LEMMA RefinesEnque ==
  ASSUME QueueInv, NEW p \in Packet, NEW j, NEW b, Entered(p, j, b)
  PROVE  Buffer!Enque(p)
<1> DEFINE e == Room(b)
           d == Append(e, p)
           F == Timed(left, b)
           n == Len(e)
<1>1. /\ b \in Seq(Packet) /\ Sorted(b) /\ Len(b) \in Nat /\ Len(b) <= Limit
      /\ Survivors(Chain(list), j, b) /\ LeftType /\ Chain(list) \in Seq(Packet)
      /\ left \in [Packet -> Int]
  BY DEF Entered, Purged, Survivors, Rest, QueueInv, LeftType
<1>2. /\ left' = [left EXCEPT ![p] = Timeout] /\ Threads(list', d)
      /\ result' = IF Len(b) = Limit THEN b[1] ELSE Null
      /\ \A i \in DOMAIN Chain(list) : Chain(list)[i] # p
  BY DEF Entered
<1>3. Buffer!Fresh = F
  BY <1>1, FreshIs
<1>4. /\ e \in Seq(Packet) /\ n \in Nat /\ n < Limit
      /\ \A i \in 1..n : \E k \in 1..Len(b) : e[i] = b[k]
      /\ Len(b) = Limit => Len(b) # 0 /\ Without(Packet, b, 1, Tail(b))
  BY <1>1, RoomIs
<1>5. p \notin Buffer!Contents
  <2> DEFINE c == Chain(list)
  <2>1. c \in Seq(Packet) /\ DOMAIN c = 1..Len(c)
    BY <1>1, LenProperties
  <2>2. /\ DOMAIN Timed(left, c) = 1..Len(c)
        /\ \A i \in 1..Len(c) : Timed(left, c)[i].pkt = c[i]
    BY <1>1, ItemsType
  <2>3. Buffer!Contents = {Timed(left, c)[i].pkt : i \in DOMAIN Timed(left, c)}
    BY DEF Buffer!Contents, Items, Timed
  <2> HIDE DEF c
  <2>4. \A i \in 1..Len(c) : c[i] # p
    BY <1>2, <2>1 DEF c
  <2> QED BY <2>2, <2>3, <2>4
<1>6. \A i \in 1..n : e[i] \in Packet /\ e[i] # p
  <2> DEFINE c == Chain(list)
  <2>1. /\ Len(b) = Len(c) - j /\ Len(c) \in Nat /\ j \in 0..Len(c) /\ DOMAIN c = 1..Len(c)
        /\ \A i \in 1..Len(b) : b[i] = c[i + j]
    BY <1>1, LenProperties DEF Survivors, Rest
  <2> HIDE DEF c
  <2>2. \A i \in 1..Len(b) : b[i] # p
    <3> TAKE i \in 1..Len(b)
    <3>1. i + j \in 1..Len(c)
      BY <2>1
    <3> QED BY <1>2, <2>1, <3>1 DEF c
  <2>3. \A i \in 1..n : e[i] \in Packet
    BY <1>4, ElementOfSeq
  <2> HIDE DEF e
  <2> QED BY <1>4, <2>2, <2>3
\* The items of the packets that stay are what they were.
<1>7. Timed(left', d) = Append(Timed(left, e), [pkt |-> p, left |-> Timeout])
  <2> DEFINE s == Append(Timed(left, e), [pkt |-> p, left |-> Timeout])
  <2> HIDE DEF e
  <2>1. /\ Timed(left, e) \in Seq(Item) /\ Len(Timed(left, e)) = n
        /\ \A i \in 1..n : Timed(left, e)[i] = [pkt |-> e[i], left |-> left[e[i]]]
    BY <1>1, <1>4, ItemsType
  <2>2. [pkt |-> p, left |-> Timeout] \in Item
    BY QueueAssumption DEF Item
  <2>3. /\ s \in Seq(Item) /\ Len(s) = n + 1
        /\ s[n + 1] = [pkt |-> p, left |-> Timeout]
        /\ \A i \in 1..n : s[i] = Timed(left, e)[i]
    BY <2>1, <2>2, AppendProperties
  <2>4. d \in Seq(Packet) /\ Len(d) = n + 1 /\ d[n + 1] = p /\ \A i \in 1..n : d[i] = e[i]
    BY <1>4, AppendProperties
  <2>5. left' \in [Packet -> Int]
    BY <1>1, <1>2, QueueAssumption
  <2> HIDE DEF d, s
  <2>6. /\ Timed(left', d) \in Seq(Item) /\ Len(Timed(left', d)) = n + 1
        /\ \A i \in 1..n + 1 : Timed(left', d)[i] = [pkt |-> d[i], left |-> left'[d[i]]]
    BY <2>4, <2>5, ItemsType
  <2> HIDE DEF n
  <2>7. ASSUME NEW i \in 1..n + 1
        PROVE  Timed(left', d)[i] = s[i]
    <3>1. CASE i = n + 1
      <4>1. left'[p] = Timeout
        BY <1>1, <1>2
      <4>2. i \in 1..n + 1
        OBVIOUS
      <4> QED BY <2>3, <2>4, <2>6, <3>1, <4>1, <4>2
    <3>2. CASE i # n + 1
      <4>1. i \in 1..n /\ i \in 1..n + 1
        BY <1>4, <3>2
      <4>2. left'[e[i]] = left[e[i]]
        BY <1>1, <1>2, <1>6, <4>1
      <4> QED BY <2>1, <2>3, <2>4, <2>6, <4>1, <4>2
    <3> QED BY <3>1, <3>2
  <2> QED BY <2>3, <2>6, <2>7, SeqSame DEF s
<1>8. Items(Chain(list))' = Append(Timed(left, e), Buffer!Item(p))
  BY <1>2, <1>7, BufferIs DEF Buffer!Item
<1>9. /\ F \in Seq(Item) /\ Len(F) = Len(b)
      /\ \A i \in 1..Len(b) : F[i].pkt = b[i]
  BY <1>1, ItemsType
<1>10. CASE Len(b) = Limit
  <2>1. Without(Item, F, 1, Tail(F)) /\ Head(F) = F[1]
    BY <1>4, <1>9, <1>10, TailIs
  <2>2. 1 \in 1..Len(b)
    BY <1>1, <1>4, <1>10
  <2>3. Timed(left, Tail(b)) = Tail(F)
    BY <1>1, <1>4, <1>10, <2>1, <2>2, ItemsWithout
  <2>4. Items(Chain(list))' = Append(Tail(Buffer!Fresh), Buffer!Item(p))
    BY <1>3, <1>8, <1>10, <2>3 DEF Room
  <2>5. result' = Head(Buffer!Fresh).pkt
    BY <1>2, <1>3, <1>9, <1>10, <2>1, <2>2
  <2>6. Len(Buffer!Fresh) = Limit
    BY <1>3, <1>9, <1>10
  <2> QED BY <1>5, <2>4, <2>5, <2>6 DEF Buffer!Enque
<1>11. CASE Len(b) # Limit
  <2>1. Items(Chain(list))' = Append(Buffer!Fresh, Buffer!Item(p))
    BY <1>3, <1>8, <1>11 DEF Room
  <2>2. result' = Null /\ Len(Buffer!Fresh) # Limit
    BY <1>2, <1>3, <1>9, <1>11
  <2> QED BY <1>5, <2>1, <2>2 DEF Buffer!Enque
<1> QED BY <1>10, <1>11

\* Buffer!Take: the same packet leaves, and is handed out.
LEMMA RefinesTake ==
  ASSUME QueueInv, NEW i, NEW j, NEW b, Taken(i, j, b)
  PROVE  /\ Buffer!Take(i)
         /\ Buffer!Fresh \in Seq(Item) /\ Len(Buffer!Fresh) = Len(b)
         /\ \A k \in 1..Len(b) : Buffer!Fresh[k].pkt = b[k]
<1> DEFINE d == IF i = 0 THEN b ELSE RemoveAt(b, i)
           F == Timed(left, b)
<1>1. /\ b \in Seq(Packet) /\ Len(b) \in Nat /\ Survivors(Chain(list), j, b)
      /\ LeftType /\ left \in [Packet -> Int]
  BY DEF Taken, Purged, Threads, QueueInv, LeftType
<1>2. /\ i \in 0..Len(b) /\ Threads(list', d) /\ left' = left
      /\ result' = IF i = 0 THEN Null ELSE b[i]
  BY DEF Taken
<1>3. Buffer!Fresh = F
  BY <1>1, FreshIs
<1>4. /\ F \in Seq(Item) /\ Len(F) = Len(b)
      /\ \A k \in 1..Len(b) : F[k].pkt = b[k]
  BY <1>1, ItemsType
<1>5. Items(Chain(list))' = Timed(left, d)
  BY <1>2, BufferIs
<1>6. CASE i = 0
  BY <1>2, <1>3, <1>4, <1>5, <1>6 DEF Buffer!Take
<1>7. CASE i # 0
  <2>1. i \in 1..Len(b)
    BY <1>1, <1>2, <1>7
  <2>2. Without(Packet, b, i, RemoveAt(b, i)) /\ Without(Item, F, i, RemoveAt(F, i))
    BY <1>1, <1>4, <2>1, RemoveAtIs
  <2>3. Timed(left, RemoveAt(b, i)) = RemoveAt(F, i)
    BY <1>1, <2>1, <2>2, ItemsWithout
  <2>4. Buffer!RemoveAt(F, i) = RemoveAt(F, i)
    BY DEF Buffer!RemoveAt, RemoveAt
  <2>5. Items(Chain(list))' = Buffer!RemoveAt(Buffer!Fresh, i)
    BY <1>3, <1>5, <1>7, <2>3, <2>4
  <2>6. result' = Buffer!Fresh[i].pkt
    BY <1>2, <1>3, <1>4, <1>7, <2>1
  <2> QED BY <1>3, <1>4, <1>7, <2>5, <2>6 DEF Buffer!Take
<1> QED BY <1>3, <1>4, <1>6, <1>7

\* Buffer!Deque.
LEMMA RefinesDeque ==
  ASSUME QueueInv, deque
  PROVE  Buffer!Deque
<1>1. PICK j, b : Taken(IF Len(b) = 0 THEN 0 ELSE 1, j, b)
  BY DequeIs
<1> DEFINE i == IF Len(b) = 0 THEN 0 ELSE 1
<1>2. /\ Buffer!Take(i) /\ Buffer!Fresh \in Seq(Item)
      /\ Len(Buffer!Fresh) = Len(b)
  BY <1>1, RefinesTake
<1>3. Len(b) = 0 <=> Buffer!Fresh = <<>>
  BY <1>2, EmptySeq
<1>4. i = IF Buffer!Fresh = <<>> THEN 0 ELSE 1
  BY <1>3
<1> HIDE DEF i
<1> QED BY <1>2, <1>4 DEF Buffer!Deque

\* Buffer!DequeFor: both find the first packet for the destination.
LEMMA RefinesDequeFor ==
  ASSUME QueueInv, NEW a \in Address, dequeFor(a)
  PROVE  Buffer!DequeFor(a)
<1>1. PICK i, j, b : First(i, {k \in 1..Len(b) : dst[b[k]] = a}) /\ Taken(i, j, b)
  BY DequeForIs
<1> DEFINE F == Buffer!Fresh
           I == {k \in 1..Len(F) : dst[F[k].pkt] = a}
           found == IF I # {} THEN Buffer!Min(I) ELSE 0
<1>2. /\ Buffer!Take(i) /\ F \in Seq(Item) /\ Len(F) = Len(b)
      /\ \A k \in 1..Len(b) : F[k].pkt = b[k]
  BY <1>1, RefinesTake
<1>3. I = {k \in 1..Len(b) : dst[b[k]] = a} /\ I \in SUBSET Nat
  BY <1>2, LenProperties
<1>4. Buffer!DequeFor(a) <=> Buffer!Take(found)
  BY DEF Buffer!DequeFor, Buffer!SelectInSeq
<1> HIDE DEF I, F
<1>5. First(found, I)
  <2>1. CASE I = {}
    BY <2>1 DEF First
  <2>2. CASE I # {}
    <3>1. found = Min(I) /\ Min(I) \in I /\ \A k \in I : Min(I) <= k
      BY <1>3, <2>2, BufferMin, MinIs
    <3> HIDE DEF found
    <3> QED BY <2>2, <3>1 DEF First
  <2> QED BY <2>1, <2>2
<1> HIDE DEF found
<1>6. found = i
  BY <1>1, <1>3, <1>5, OneFirst
<1> QED BY <1>2, <1>4, <1>6

\* Buffer!Find: neither purges.
LEMMA RefinesFind ==
  ASSUME QueueInv, NEW a \in Address, find(a)
  PROVE  Buffer!Find(a)
<1>0. PICK c : c = Chain(list)
  OBVIOUS
<1>1. c \in Seq(Packet) /\ left \in [Packet -> Int] /\ Threads(list, c)
  BY <1>0 DEF QueueInv, Threads, LeftType
<1>2. result' = (findPacketWithDst(list, a) # 0) /\ list' = list /\ left' = left
  BY DEF find
<1> DEFINE I == {i \in 1..Len(c) : dst[c[i]] = a}
<1>3. First(findPacketWithDst(list, a), I) /\ \A i \in I : i # 0
  BY <1>0, <1>1, FindDst, LenProperties
<1>4. findPacketWithDst(list, a) # 0 <=> I # {}
  BY <1>3 DEF First
<1>5. /\ Items(Chain(list)) = Timed(left, c) /\ Items(Chain(list))' = Timed(left, c)
  BY <1>0, <1>1, <1>2, BufferIs
<1>6. /\ DOMAIN Timed(left, c) = 1..Len(c)
      /\ \A i \in 1..Len(c) : Timed(left, c)[i].pkt = c[i]
  BY <1>1, ItemsType
<1>7. result' = \E i \in DOMAIN Timed(left, c) : dst[Timed(left, c)[i].pkt] = a
  BY <1>2, <1>4, <1>6
<1> QED BY <1>5, <1>7 DEF Buffer!Find

\* Buffer!Tick.
LEMMA RefinesTick ==
  ASSUME QueueInv, Tick
  PROVE  Buffer!Tick
<1>0. PICK c : c = Chain(list)
  OBVIOUS
<1>1. /\ c \in Seq(Packet) /\ left \in [Packet -> Int] /\ Threads(list, c)
      /\ list' = list /\ result' = result
      /\ left' = [p \in Packet |-> IF left[p] < 0 THEN left[p] ELSE left[p] - 1]
  BY <1>0 DEF QueueInv, Threads, LeftType, Tick
<1>2. left' \in [Packet -> Int]
  BY <1>1
<1> DEFINE s == Timed(left, c)
           t == Timed(left', c)
           Later(item) == [item EXCEPT !.left = IF @ < 0 THEN @ ELSE @ - 1]
           u == [i \in DOMAIN s |-> Later(s[i])]
<1>3. Items(Chain(list)) = s /\ Items(Chain(list))' = t
  BY <1>0, <1>1, BufferIs
<1>4. /\ DOMAIN s = 1..Len(c) /\ DOMAIN t = 1..Len(c)
      /\ \A i \in 1..Len(c) : /\ c[i] \in Packet
                              /\ s[i] = [pkt |-> c[i], left |-> left[c[i]]]
                              /\ t[i] = [pkt |-> c[i], left |-> left'[c[i]]]
  BY <1>1, <1>2, ItemsType
<1>5. t = [i \in 1..Len(c) |-> t[i]]
  BY <1>4 DEF Timed
<1> HIDE DEF s, t
<1>6. \A i \in 1..Len(c) : t[i] = Later(s[i])
  BY <1>1, <1>4
<1>7. t = u
  BY <1>4, <1>5, <1>6
<1> QED BY <1>1, <1>3, <1>7 DEF Buffer!Tick

\* The empty buffer.
LEMMA RefinesInit == Init => Buffer!Init
<1> SUFFICES ASSUME Init PROVE Buffer!Init
  OBVIOUS
<1>1. list \in List
  BY DEF Init, List, Pointer
<1>2. Threads(list, <<>>)
  BY <1>1 DEF Init, Threads
<1>3. Chain(list) = <<>>
  BY <1>2, ChainIs
<1>4. Items(<<>>) = <<>>
  BY DEF Items
<1> QED BY <1>3, <1>4 DEF Init, Buffer!Init

\* Every step of the list is one of the buffer, or leaves it alone.
LEMMA RefinesNext ==
  QueueInv /\ [Next]_vars => [Buffer!Next]_<<Items(Chain(list)), result>>
<1> SUFFICES ASSUME QueueInv, [Next]_vars
             PROVE  [Buffer!Next]_<<Items(Chain(list)), result>>
  OBVIOUS
<1>1. ASSUME NEW p \in Packet, enque(p)
      PROVE  Buffer!Next
  <2>1. Buffer!Enque(p)
    BY <1>1, EnqueIs, RefinesEnque
  <2> QED BY <2>1 DEF Buffer!Next
<1>2. CASE deque
  BY <1>2, RefinesDeque DEF Buffer!Next
<1>3. ASSUME NEW d \in Address, dequeFor(d)
      PROVE  Buffer!Next
  <2>1. Buffer!DequeFor(d)
    BY <1>3, RefinesDequeFor
  <2> QED BY <2>1 DEF Buffer!Next
<1>4. ASSUME NEW d \in Address, find(d)
      PROVE  Buffer!Next
  <2>1. Buffer!Find(d)
    BY <1>4, RefinesFind
  <2> QED BY <2>1 DEF Buffer!Next
<1>5. CASE Tick
  BY <1>5, RefinesTick DEF Buffer!Next
<1>6. CASE UNCHANGED vars
  <2>1. list' = list /\ left' = left /\ result' = result
    BY <1>6 DEF vars
  <2>2. Items(Chain(list))' = Items(Chain(list))
    BY <2>1, Zenon DEF Items
  <2> QED BY <2>1, <2>2
<1> QED BY <1>1, <1>2, <1>3, <1>4, <1>5, <1>6 DEF Next

\* The linked list implements the buffer: the same packets are handed out in the
\* same order, the oldest is evicted when it is full, and none that timed out is
\* handed out, although purge() takes the packets out one by one, wherever it
\* finds them, and a packet comes with the pointer it left with.
THEOREM ImplementsPacketBuffer == Spec => ImplementsBuffer
<1>1. QueueInv /\ [Next]_vars => [Buffer!Next]_<<Items(Chain(list)), result>>
  BY RefinesNext
<1> QED BY <1>1, RefinesInit, InvHolds, PTL DEF Spec, ImplementsBuffer, Buffer!Spec
=============================================================================
