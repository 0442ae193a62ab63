-------------------------- MODULE PriQueue_proofs --------------------------
(***************************************************************************)
(* Proofs about PriQueue.                                                  *)
(***************************************************************************)
EXTENDS PriQueue, TLAPS, FiniteSetTheorems, SequenceTheorems

\* The packets in s.
In(s) == {s[i] : i \in DOMAIN s}

\* No packet is twice in s, and when routing packets are preferred, none is
\* behind another.
Good(s) ==
  /\ s \in Seq(Packet)
  /\ \A i, j \in DOMAIN s : s[i] = s[j] => i = j
  /\ Prefer => \A i, j \in DOMAIN s : i < j /\ s[j] \in Routing => s[i] \in Routing

\* s is what is left of t when some packets have gone.
LeftOf(s, t) ==
  /\ s \in Seq(Packet)
  /\ Len(s) <= Len(t)
  /\ \E f \in [DOMAIN s -> DOMAIN t] :
       /\ \A i, j \in DOMAIN s : i < j => f[i] < f[j]
       /\ \A i \in DOMAIN s : s[i] = t[f[i]]

\* What is left of a good queue is good.
LEMMA LeftIsGood ==
  ASSUME NEW s, NEW t, Good(t), LeftOf(s, t)
  PROVE  Good(s) /\ In(s) \subseteq In(t)
<1>1. PICK f \in [DOMAIN s -> DOMAIN t] :
        /\ \A i, j \in DOMAIN s : i < j => f[i] < f[j]
        /\ \A i \in DOMAIN s : s[i] = t[f[i]]
  BY DEF LeftOf
<1>2. DOMAIN s \subseteq Nat /\ DOMAIN t \subseteq Nat /\ s \in Seq(Packet)
  BY LenProperties DEF LeftOf, Good
<1>3. \A i, j \in DOMAIN s : s[i] = s[j] => i = j
  <2> SUFFICES ASSUME NEW i \in DOMAIN s, NEW j \in DOMAIN s, s[i] = s[j]
               PROVE  i = j
    OBVIOUS
  <2>1. f[i] = f[j]
    BY <1>1 DEF Good
  <2>2. f[i] \in Nat
    BY <1>1, <1>2
  <2> QED BY <1>1, <1>2, <2>1, <2>2
<1>4. Prefer => \A i, j \in DOMAIN s : i < j /\ s[j] \in Routing => s[i] \in Routing
  BY <1>1 DEF Good
<1>5. In(s) \subseteq In(t)
  BY <1>1 DEF In
<1> QED BY <1>2, <1>3, <1>4, <1>5 DEF Good

\* A sequence without its head is left of it.
LEMMA TailLeft ==
  ASSUME NEW s \in Seq(Packet), s # <<>>
  PROVE  /\ LeftOf(Tail(s), s)
         /\ Len(Tail(s)) = Len(s) - 1
         /\ Len(s) \in Nat \ {0}
<1>1. /\ Tail(s) \in Seq(Packet)
      /\ Len(Tail(s)) = Len(s) - 1
      /\ \A i \in 1 .. Len(Tail(s)) : Tail(s)[i] = s[i + 1]
  BY HeadTailProperties
<1>2. DOMAIN Tail(s) = 1 .. Len(s) - 1 /\ DOMAIN s = 1 .. Len(s) /\ Len(s) \in Nat \ {0}
  BY <1>1, LenProperties, EmptySeq
<1> DEFINE f == [i \in DOMAIN Tail(s) |-> i + 1]
<1>3. f \in [DOMAIN Tail(s) -> DOMAIN s]
  BY <1>2
<1>4. \A i, j \in DOMAIN Tail(s) : i < j => f[i] < f[j]
  BY <1>2
<1>5. \A i \in DOMAIN Tail(s) : Tail(s)[i] = s[f[i]]
  BY <1>1, <1>2
<1> HIDE DEF f
<1> QED BY <1>1, <1>2, <1>3, <1>4, <1>5 DEF LeftOf

\* The head of a good queue leaves a good queue behind, and is not in it.
LEMMA HeadGone ==
  ASSUME NEW s, Good(s), s # <<>>
  PROVE  /\ Good(Tail(s)) /\ Len(Tail(s)) = Len(s) - 1 /\ Len(s) \in Nat \ {0}
         /\ In(Tail(s)) \subseteq In(s)
         /\ Head(s) \in In(s) /\ Head(s) \notin In(Tail(s))
<1>1. s \in Seq(Packet)
  BY DEF Good
<1>2. /\ LeftOf(Tail(s), s)
      /\ Len(Tail(s)) = Len(s) - 1
      /\ Len(s) \in Nat \ {0}
  BY <1>1, TailLeft
<1>3. Good(Tail(s)) /\ In(Tail(s)) \subseteq In(s)
  BY <1>2, LeftIsGood
<1>4. Head(s) = s[1] /\ 1 \in DOMAIN s /\ Head(s) \in In(s)
  BY <1>1, <1>2, LenProperties DEF In
<1>5. Head(s) \notin In(Tail(s))
  <2> SUFFICES ASSUME NEW i \in DOMAIN Tail(s), Tail(s)[i] = s[1] PROVE FALSE
    BY <1>4 DEF In
  <2>1. i \in 1 .. Len(Tail(s)) /\ Tail(s)[i] = s[i + 1]
    BY <1>1, <1>2, HeadTailProperties, LenProperties DEF LeftOf
  <2>2. i + 1 \in DOMAIN s /\ i + 1 # 1
    BY <1>1, <1>2, <2>1, LenProperties
  <2> QED BY <1>4, <2>1, <2>2 DEF Good
<1> QED BY <1>2, <1>3, <1>4, <1>5

\* So is all but the last packet.
LEMMA FrontLeft ==
  ASSUME NEW s \in Seq(Packet), s # <<>>
  PROVE  /\ LeftOf(Front(s), s)
         /\ Len(Front(s)) = Len(s) - 1
         /\ Last(s) \in In(s)
         /\ \A i \in DOMAIN Front(s) : Front(s)[i] = s[i] /\ i \in 1 .. Len(s) - 1
<1>1. DOMAIN s = 1 .. Len(s) /\ Len(s) \in Nat \ {0} /\ \A i \in 1 .. Len(s) : s[i] \in Packet
  BY LenProperties, EmptySeq, ElementOfSeq
<1>2. \A i \in 1 .. Len(s) - 1 : s[i] \in Packet
  BY <1>1
<1>3. /\ Front(s) \in Seq(Packet)
      /\ Len(Front(s)) = Len(s) - 1
      /\ \A i \in 1 .. Len(s) - 1 : Front(s)[i] = s[i]
  <2>1. 1 \in Int /\ Len(s) - 1 \in Int
    BY <1>1
  <2>2. /\ SubSeq(s, 1, Len(s) - 1) \in Seq(Packet)
        /\ Len(SubSeq(s, 1, Len(s) - 1)) = IF 1 <= Len(s) - 1 THEN Len(s) - 1 - 1 + 1 ELSE 0
        /\ \A i \in 1 .. Len(s) - 1 - 1 + 1 : SubSeq(s, 1, Len(s) - 1)[i] = s[1 + i - 1]
    BY <1>2, <2>1, SubSeqProperties
  <2> QED BY <1>1, <2>2 DEF Front
<1>4. DOMAIN Front(s) = 1 .. Len(s) - 1
  BY <1>3, LenProperties
<1> DEFINE f == [i \in DOMAIN Front(s) |-> i]
<1>5. f \in [DOMAIN Front(s) -> DOMAIN s]
  BY <1>1, <1>4
<1>6. \A i, j \in DOMAIN Front(s) : i < j => f[i] < f[j]
  OBVIOUS
<1>7. \A i \in DOMAIN Front(s) : Front(s)[i] = s[f[i]]
  BY <1>3, <1>4
<1>8. Len(Front(s)) <= Len(s)
  BY <1>1, <1>3
<1>9. LeftOf(Front(s), s)
  <2> HIDE DEF f
  <2> QED BY <1>3, <1>5, <1>6, <1>7, <1>8 DEF LeftOf
<1>10. Last(s) \in In(s)
  BY <1>1 DEF Last, In
<1> QED BY <1>3, <1>4, <1>9, <1>10

\* And so is a sequence without one of its elements, which alone is gone.
LEMMA RemoveAtLeft ==
  ASSUME NEW s \in Seq(Packet), NEW at \in DOMAIN s
  PROVE  /\ LeftOf(RemoveAt(s, at), s)
         /\ \A i \in DOMAIN RemoveAt(s, at) :
              \E j \in DOMAIN s \ {at} : RemoveAt(s, at)[i] = s[j]
<1>1. /\ DOMAIN s = 1 .. Len(s) /\ Len(s) \in Nat /\ at \in 1 .. Len(s)
      /\ \A i \in 1 .. Len(s) : s[i] \in Packet
  BY LenProperties, ElementOfSeq
<1> DEFINE a == SubSeq(s, 1, at - 1)
           b == SubSeq(s, at + 1, Len(s))
<1>2. a \in Seq(Packet) /\ Len(a) = at - 1 /\ \A i \in 1 .. at - 1 : a[i] = s[i]
  <2>1. 1 \in Int /\ at - 1 \in Int /\ \A i \in 1 .. at - 1 : s[i] \in Packet
    BY <1>1
  <2>2. /\ a \in Seq(Packet)
        /\ Len(a) = IF 1 <= at - 1 THEN at - 1 - 1 + 1 ELSE 0
        /\ \A i \in 1 .. at - 1 - 1 + 1 : a[i] = s[1 + i - 1]
    BY <2>1, SubSeqProperties
  <2> QED BY <1>1, <2>2
<1>3. b \in Seq(Packet) /\ Len(b) = Len(s) - at /\ \A i \in 1 .. Len(s) - at : b[i] = s[at + i]
  <2>1. at + 1 \in Int /\ Len(s) \in Int /\ \A i \in at + 1 .. Len(s) : s[i] \in Packet
    BY <1>1
  <2>2. /\ b \in Seq(Packet)
        /\ Len(b) = IF at + 1 <= Len(s) THEN Len(s) - (at + 1) + 1 ELSE 0
        /\ \A i \in 1 .. Len(s) - (at + 1) + 1 : b[i] = s[at + 1 + i - 1]
    BY <2>1, SubSeqProperties
  <2> HIDE DEF b
  <2>3. Len(s) - (at + 1) + 1 = Len(s) - at /\ \A i \in Int : at + 1 + i - 1 = at + i
    BY <1>1
  <2>4. Len(b) = IF at + 1 <= Len(s) THEN Len(s) - (at + 1) + 1 ELSE 0
    BY <2>2, Zenon
  <2>5. Len(b) = Len(s) - at
    BY <1>1, <2>4
  <2>6. ASSUME NEW i \in 1 .. Len(s) - at PROVE b[i] = s[at + i]
    <3>1. i \in 1 .. Len(s) - (at + 1) + 1
      BY <2>3, Zenon
    <3>2. at + 1 + i - 1 = at + i
      BY <1>1
    <3>3. b[i] = s[at + 1 + i - 1]
      BY <2>2, <3>1, Zenon
    <3> QED BY <3>2, <3>3, Zenon
  <2> QED BY <2>2, <2>5, <2>6, Zenon
<1> HIDE DEF a, b
<1> DEFINE r == a \o b
<1>4. /\ r \in Seq(Packet)
      /\ Len(r) = Len(a) + Len(b)
      /\ \A i \in 1 .. Len(a) + Len(b) : r[i] = IF i <= Len(a) THEN a[i] ELSE b[i - Len(a)]
  BY <1>2, <1>3, ConcatProperties
<1> HIDE DEF r
<1>5. Len(r) = Len(s) - 1 /\ DOMAIN r = 1 .. Len(s) - 1
  BY <1>1, <1>2, <1>3, <1>4, LenProperties
<1> DEFINE f == [i \in DOMAIN r |-> IF i < at THEN i ELSE i + 1]
<1>6. f \in [DOMAIN r -> DOMAIN s] /\ \A i \in DOMAIN r : f[i] # at
  BY <1>1, <1>5
<1>7. \A i, j \in DOMAIN r : i < j => f[i] < f[j]
  BY <1>1, <1>5
<1>8. \A i \in DOMAIN r : r[i] = s[f[i]]
  <2> SUFFICES ASSUME NEW i \in DOMAIN r PROVE r[i] = s[f[i]]
    OBVIOUS
  <2>1. CASE i < at
    BY <1>1, <1>2, <1>3, <1>4, <1>5, <2>1
  <2>2. CASE ~(i < at)
    <3>1. r[i] = b[i - (at - 1)]
      BY <1>1, <1>2, <1>3, <1>4, <1>5, <2>2
    <3>2. i - (at - 1) \in 1 .. Len(s) - at
      BY <1>1, <1>5, <2>2
    <3>3. at + (i - (at - 1)) = i + 1
      BY <1>1, <1>5
    <3> QED BY <1>3, <2>2, <3>1, <3>2, <3>3
  <2> QED BY <2>1, <2>2
<1>9. RemoveAt(s, at) = r
  BY DEF RemoveAt, r, a, b
<1>10. LeftOf(r, s)
  <2>1. Len(r) <= Len(s)
    BY <1>1, <1>5
  <2> HIDE DEF f
  <2> QED BY <1>4, <1>6, <1>7, <1>8, <2>1 DEF LeftOf
<1> QED BY <1>6, <1>8, <1>9, <1>10

\* filterAll: the packets that stay are what is left of the queue.
LEMMA FilterLeft ==
  ASSUME NEW s \in Seq(Packet), NEW kept \in SUBSET DOMAIN s,
         NEW at \in [1..Cardinality(kept) -> kept],
         \A i, j \in DOMAIN at : i < j => at[i] < at[j]
  PROVE  /\ LeftOf([i \in DOMAIN at |-> s[at[i]]], s)
         /\ \A x \in In([i \in DOMAIN at |-> s[at[i]]]) : \E i \in kept : x = s[i]
<1>1. DOMAIN s = 1 .. Len(s) /\ Len(s) \in Nat /\ \A i \in 1 .. Len(s) : s[i] \in Packet
  BY LenProperties, ElementOfSeq
<1>2. IsFiniteSet(DOMAIN s) /\ Cardinality(DOMAIN s) = Len(s)
  <2>1. IsFiniteSet(1 .. Len(s)) /\ Cardinality(1 .. Len(s)) = IF 1 > Len(s) THEN 0 ELSE Len(s) - 1 + 1
    BY <1>1, FS_Interval
  <2> QED BY <1>1, <2>1
<1>3. IsFiniteSet(kept) /\ Cardinality(kept) <= Len(s)
  BY <1>2, FS_Subset
<1>4. Cardinality(kept) \in Nat
  BY <1>3, FS_CardinalityType
<1> DEFINE r == [i \in DOMAIN at |-> s[at[i]]]
<1>5. DOMAIN at = 1 .. Cardinality(kept) /\ DOMAIN r = DOMAIN at
  OBVIOUS
<1>6. \A i \in DOMAIN at : at[i] \in DOMAIN s /\ at[i] \in kept
  OBVIOUS
<1>7. r \in [1 .. Cardinality(kept) -> Packet]
  BY <1>1, <1>5, <1>6
<1>8. r \in Seq(Packet) /\ Len(r) = Cardinality(kept)
  BY <1>4, <1>7, SMT
<1>9. \A i \in DOMAIN r : r[i] = s[at[i]]
  OBVIOUS
<1>10. at \in [DOMAIN r -> DOMAIN s]
  BY <1>5, <1>6
<1> HIDE DEF r
<1>11. LeftOf(r, s)
  BY <1>3, <1>5, <1>8, <1>9, <1>10 DEF LeftOf
<1>12. \A x \in In(r) : \E i \in kept : x = s[i]
  BY <1>5, <1>6, <1>9 DEF In
<1> QED BY <1>11, <1>12 DEF r

\* A packet that is not in a good queue may go to its end, if it is not a
\* routing packet that is preferred...
LEMMA AppendIsGood ==
  ASSUME NEW s, Good(s), NEW p \in Packet, p \notin In(s), ~(Prefer /\ p \in Routing)
  PROVE  /\ Good(Append(s, p))
         /\ In(Append(s, p)) = In(s) \cup {p}
         /\ Len(Append(s, p)) = Len(s) + 1
<1>1. /\ s \in Seq(Packet) /\ DOMAIN s = 1 .. Len(s) /\ Len(s) \in Nat
      /\ \A i \in 1 .. Len(s) : s[i] # p
  BY LenProperties DEF Good, In
<1> DEFINE r == Append(s, p)
<1>2. /\ r \in Seq(Packet)
      /\ Len(r) = Len(s) + 1
      /\ \A i \in 1 .. Len(s) : r[i] = s[i]
      /\ r[Len(s) + 1] = p
  BY <1>1, AppendProperties
<1>3. DOMAIN r = 1 .. Len(s) + 1
  BY <1>2, LenProperties
<1> HIDE DEF r
<1>4. \A i \in DOMAIN r : i \in 1 .. Len(s) \/ i = Len(s) + 1
  BY <1>1, <1>3
<1>5. \A i, j \in DOMAIN r : r[i] = r[j] => i = j
  BY <1>1, <1>2, <1>4 DEF Good
<1>6. Prefer => \A i, j \in DOMAIN r : i < j /\ r[j] \in Routing => r[i] \in Routing
  BY <1>1, <1>2, <1>3, <1>4 DEF Good
<1>7. In(r) = In(s) \cup {p}
  BY <1>1, <1>2, <1>3, <1>4 DEF In
<1> QED BY <1>2, <1>5, <1>6, <1>7 DEF Good, r

\* ... and a routing packet may go to its head.
LEMMA PrependIsGood ==
  ASSUME NEW s, Good(s), NEW p \in Packet, p \notin In(s), p \in Routing
  PROVE  /\ Good(<<p>> \o s)
         /\ In(<<p>> \o s) = In(s) \cup {p}
         /\ Len(<<p>> \o s) = Len(s) + 1
<1>1. /\ s \in Seq(Packet) /\ DOMAIN s = 1 .. Len(s) /\ Len(s) \in Nat
      /\ \A i \in 1 .. Len(s) : s[i] # p
  BY LenProperties DEF Good, In
<1>2. <<p>> \in Seq(Packet) /\ Len(<<p>>) = 1 /\ <<p>>[1] = p
  OBVIOUS
<1> DEFINE r == <<p>> \o s
<1>3. /\ r \in Seq(Packet)
      /\ Len(r) = 1 + Len(s)
      /\ \A i \in 1 .. 1 + Len(s) : r[i] = IF i <= 1 THEN <<p>>[i] ELSE s[i - 1]
  BY <1>1, <1>2, ConcatProperties
<1>4. DOMAIN r = 1 .. 1 + Len(s)
  BY <1>3, LenProperties
<1> HIDE DEF r
<1>5. r[1] = p /\ \A i \in 1 .. Len(s) : r[i + 1] = s[i]
  <2>1. r[1] = p
    BY <1>1, <1>2, <1>3
  <2>2. ASSUME NEW i \in 1 .. Len(s) PROVE r[i + 1] = s[i]
    <3>1. i + 1 \in 1 .. 1 + Len(s) /\ ~(i + 1 <= 1) /\ i + 1 - 1 = i
      BY <1>1
    <3> QED BY <1>3, <3>1
  <2> QED BY <2>1, <2>2
<1>6. \A i \in DOMAIN r : i = 1 \/ (i - 1 \in 1 .. Len(s) /\ r[i] = s[i - 1])
  <2> SUFFICES ASSUME NEW i \in DOMAIN r, i # 1
               PROVE  i - 1 \in 1 .. Len(s) /\ r[i] = s[i - 1]
    OBVIOUS
  <2>1. i - 1 \in 1 .. Len(s) /\ ~(i <= 1)
    BY <1>1, <1>4
  <2> QED BY <1>3, <1>4, <2>1
<1>7. \A i, j \in DOMAIN r : r[i] = r[j] => i = j
  <2> SUFFICES ASSUME NEW i \in DOMAIN r, NEW j \in DOMAIN r, r[i] = r[j]
               PROVE  i = j
    OBVIOUS
  <2>1. CASE i = 1 \/ j = 1
    BY <1>1, <1>5, <1>6, <2>1
  <2>2. CASE i # 1 /\ j # 1
    <3>1. i - 1 = j - 1
      BY <1>1, <1>6, <2>2 DEF Good
    <3> QED BY <1>4, <3>1, <1>1
  <2> QED BY <2>1, <2>2
<1>8. Prefer => \A i, j \in DOMAIN r : i < j /\ r[j] \in Routing => r[i] \in Routing
  <2> SUFFICES ASSUME Prefer, NEW i \in DOMAIN r, NEW j \in DOMAIN r,
                      i < j, r[j] \in Routing
               PROVE  r[i] \in Routing
    OBVIOUS
  <2>1. CASE i = 1
    BY <1>5, <2>1
  <2>2. CASE i # 1
    <3>1. j # 1 /\ i - 1 < j - 1
      BY <1>1, <1>4, <2>2
    <3>2. s[j - 1] \in Routing /\ i - 1 \in DOMAIN s /\ j - 1 \in DOMAIN s
      BY <1>1, <1>6, <2>2, <3>1
    <3> QED BY <1>6, <2>2, <3>1, <3>2 DEF Good
  <2> QED BY <2>1, <2>2
<1>9. In(r) = In(s) \cup {p}
  <2>1. In(r) \subseteq In(s) \cup {p}
    BY <1>1, <1>5, <1>6 DEF In
  <2>2. p \in In(r)
    BY <1>1, <1>4, <1>5 DEF In
  <2>3. ASSUME NEW i \in DOMAIN s PROVE s[i] \in In(r)
    <3>1. i + 1 \in DOMAIN r
      BY <1>1, <1>4
    <3> QED BY <1>1, <1>5, <3>1 DEF In
  <2>4. In(s) \subseteq In(r)
    BY <2>3 DEF In
  <2> QED BY <2>1, <2>2, <2>4
<1> QED BY <1>3, <1>7, <1>8, <1>9 DEF Good, r

(***************************************************************************)
(* The inductive invariant.                                                *)
(***************************************************************************)
\* The queue is good and below its limit, waits only for a packet on the link,
\* and no packet is in two places.
QInv ==
  /\ Good(q)
  /\ Len(q) < qlim
  /\ q # <<>> => link # {}
  /\ In(q) \cap link = {} /\ In(q) \cap out = {} /\ link \cap out = {}

\* Handing a packet down keeps the invariant, whatever has become of the queue
\* before, as long as nobody else has the packets of s.
LEMMA HandDownKeeps ==
  ASSUME NEW s, Good(s), Len(s) < qlim, HandDown(s), UNCHANGED Prefer,
         NEW o, out' = o,
         In(s) \cap link = {}, In(s) \cap o = {}, link \cap o = {}
  PROVE  QInv'
<1>1. CASE link = {} /\ s # <<>>
  <2>1. q' = Tail(s) /\ link' = {Head(s)}
    BY <1>1 DEF HandDown
  <2>2. /\ Good(Tail(s)) /\ Len(Tail(s)) = Len(s) - 1 /\ Len(s) \in Nat \ {0}
        /\ In(Tail(s)) \subseteq In(s)
        /\ Head(s) \in In(s) /\ Head(s) \notin In(Tail(s))
    BY <1>1, HeadGone
  <2>3. Good(q)'
    BY <2>1, <2>2 DEF Good
  <2>4. (Len(q) < qlim)'
    BY <2>1, <2>2, LimitAssumption
  <2>5. (link # {})'
    BY <2>1
  <2>6. (In(q) \cap link = {} /\ In(q) \cap out = {} /\ link \cap out = {})'
    BY <2>1, <2>2 DEF In
  <2> QED BY <2>3, <2>4, <2>5, <2>6 DEF QInv
<1>2. CASE ~(link = {} /\ s # <<>>)
  <2>1. q' = s /\ link' = link
    BY <1>2 DEF HandDown
  <2>2. Good(q)'
    BY <2>1 DEF Good
  <2>3. (In(q) \cap link = {} /\ In(q) \cap out = {} /\ link \cap out = {})'
    BY <2>1 DEF In
  <2> QED BY <1>2, <2>1, <2>2, <2>3 DEF QInv
<1> QED BY <1>1, <1>2

\* The queue is empty at first.
LEMMA InitInv == Init => QInv
<1> SUFFICES ASSUME Init PROVE QInv
  OBVIOUS
<1>1. q = <<>> /\ link = {} /\ out = {}
  BY DEF Init
<1>2. q \in Seq(Packet) /\ Len(q) = 0 /\ DOMAIN q = {}
  BY <1>1
<1> QED BY <1>1, <1>2, LimitAssumption DEF QInv, Good, In

\* recv keeps the invariant, by either path.
LEMMA recvKeeps ==
  ASSUME QInv, NEW p \in Packet, recv(p)
  PROVE  QInv'
<1>1. Good(q) /\ q \in Seq(Packet) /\ p \notin In(q) /\ UNCHANGED Prefer
  BY DEF recv, Fresh, InQueue, QInv, Good, In
<1>2. Len(q) \in Nat /\ p \notin link /\ p \notin out
  BY <1>1, LenProperties DEF recv, Fresh
<1>3. CASE Prefer /\ p \in Routing
  <2> DEFINE longer == <<p>> \o q
  <2>1. /\ Good(longer)
        /\ In(longer) = In(q) \cup {p}
        /\ Len(longer) = Len(q) + 1
    BY <1>1, <1>3, PrependIsGood
  <2>2. recvHighPriority(p)
    BY <1>3 DEF recv
  <2>3. /\ Len(longer) >= qlim => HandDown(Front(longer)) /\ out' = out \cup {Last(longer)}
        /\ ~(Len(longer) >= qlim) => HandDown(longer) /\ UNCHANGED out
    BY <2>2 DEF recvHighPriority
  <2> HIDE DEF longer
  <2>4. CASE Len(longer) >= qlim
    <3>1. longer # <<>>
      <4> SUFFICES ASSUME longer = <<>> PROVE FALSE
        OBVIOUS
      <4> QED BY <1>2, <2>1
    <3>2. /\ LeftOf(Front(longer), longer)
          /\ Len(Front(longer)) = Len(longer) - 1
          /\ Last(longer) \in In(longer)
          /\ \A i \in DOMAIN Front(longer) :
               Front(longer)[i] = longer[i] /\ i \in 1 .. Len(longer) - 1
      BY <2>1, <3>1, FrontLeft DEF Good
    <3>3. Good(Front(longer)) /\ In(Front(longer)) \subseteq In(longer)
      BY <2>1, <3>2, LeftIsGood
    <3>4. Last(longer) \notin In(Front(longer))
      <4> SUFFICES ASSUME NEW i \in DOMAIN Front(longer),
                          longer[i] = longer[Len(longer)]
                   PROVE  FALSE
        BY <3>2, Zenon DEF In, Last
      <4>1. i \in DOMAIN longer /\ Len(longer) \in DOMAIN longer /\ i # Len(longer)
        BY <1>2, <2>1, <3>2, LenProperties DEF Good
      <4> QED BY <2>1, <4>1 DEF Good
    <3>5. Len(Front(longer)) < qlim
      BY <1>2, <2>1, <3>2, LimitAssumption DEF QInv
    <3>6. /\ In(Front(longer)) \cap link = {}
          /\ In(Front(longer)) \cap (out \cup {Last(longer)}) = {}
          /\ link \cap (out \cup {Last(longer)}) = {}
      BY <1>2, <2>1, <3>2, <3>3, <3>4 DEF QInv
    <3>7. HandDown(Front(longer)) /\ out' = out \cup {Last(longer)}
      BY <2>3, <2>4
    <3> QED BY <1>1, <3>3, <3>5, <3>6, <3>7, HandDownKeeps
  <2>5. CASE ~(Len(longer) >= qlim)
    <3>1. HandDown(longer) /\ out' = out
      BY <2>3, <2>5
    <3>2. Len(longer) < qlim
      BY <1>2, <2>1, <2>5, LimitAssumption
    <3>3. In(longer) \cap link = {} /\ In(longer) \cap out = {} /\ link \cap out = {}
      BY <1>2, <2>1 DEF QInv
    <3> QED BY <1>1, <2>1, <3>1, <3>2, <3>3, HandDownKeeps
  <2> QED BY <2>4, <2>5
<1>4. CASE ~(Prefer /\ p \in Routing)
  <2>1. QueueRecv(p)
    BY <1>4 DEF recv
  <2>2. CASE Len(q) + 1 >= qlim
    <3>1. HandDown(q) /\ out' = out \cup {p}
      BY <2>1, <2>2 DEF QueueRecv
    <3>2. /\ In(q) \cap link = {}
          /\ In(q) \cap (out \cup {p}) = {}
          /\ link \cap (out \cup {p}) = {}
      BY <1>1, <1>2 DEF QInv
    <3>3. Len(q) < qlim
      BY DEF QInv
    <3> QED BY <1>1, <3>1, <3>2, <3>3, HandDownKeeps
  <2>3. CASE ~(Len(q) + 1 >= qlim)
    <3>1. HandDown(Append(q, p)) /\ out' = out
      BY <2>1, <2>3 DEF QueueRecv
    <3>2. /\ Good(Append(q, p))
          /\ In(Append(q, p)) = In(q) \cup {p}
          /\ Len(Append(q, p)) = Len(q) + 1
      BY <1>1, <1>4, AppendIsGood
    <3>3. Len(Append(q, p)) < qlim
      BY <1>2, <2>3, <3>2, LimitAssumption
    <3>4. /\ In(Append(q, p)) \cap link = {}
          /\ In(Append(q, p)) \cap out = {}
          /\ link \cap out = {}
      BY <1>2, <3>2 DEF QInv
    <3> QED BY <1>1, <3>1, <3>2, <3>3, <3>4, HandDownKeeps
  <2> QED BY <2>2, <2>3
<1> QED BY <1>3, <1>4

\* Packets that leave the queue while the link keeps its own.
LEMMA LeavingKeeps ==
  ASSUME QInv, LeftOf(q', q), UNCHANGED <<Prefer, link>>,
         out' \subseteq out \cup (In(q) \ In(q'))
  PROVE  QInv'
<1>1. Good(q') /\ In(q') \subseteq In(q)
  BY LeftIsGood DEF QInv
<1>2. Good(q)'
  BY <1>1 DEF Good
<1>3. Len(q) \in Nat /\ Len(q') \in Nat /\ Len(q') <= Len(q)
  BY LenProperties DEF QInv, Good, LeftOf
<1>4. (Len(q) < qlim)'
  BY <1>3, LimitAssumption DEF QInv
<1>5. (q # <<>> => link # {})'
  <2>1. q = <<>> => q' = <<>>
    BY <1>1, <1>3, EmptySeq DEF Good
  <2> QED BY <2>1 DEF QInv
<1>6. (In(q) \cap link = {} /\ In(q) \cap out = {} /\ link \cap out = {})'
  <2>1. In(q)' = In(q')
    BY DEF In
  <2> QED BY <1>1, <2>1 DEF QInv
<1> QED BY <1>2, <1>4, <1>5, <1>6 DEF QInv

\* So does the link layer that is done.
LEMMA resumeKeeps ==
  ASSUME QInv, resume
  PROVE  QInv'
<1> DEFINE o == out \cup link
<1>1. Good(q) /\ q \in Seq(Packet) /\ UNCHANGED Prefer /\ out' = o
  BY DEF resume, QInv, Good
<1>2. CASE q = <<>>
  <2>1. q' = <<>> /\ link' = {}
    BY <1>2 DEF resume
  <2>2. Good(q)' /\ (Len(q) < qlim)'
    BY <1>1, <1>2, <2>1 DEF QInv, Good
  <2>3. In(q)' = {}
    BY <2>1 DEF In
  <2> QED BY <2>1, <2>2, <2>3 DEF QInv
<1>3. CASE q # <<>>
  <2>1. q' = Tail(q) /\ link' = {Head(q)}
    BY <1>3 DEF resume
  <2>2. /\ Good(Tail(q)) /\ Len(Tail(q)) = Len(q) - 1 /\ Len(q) \in Nat \ {0}
        /\ In(Tail(q)) \subseteq In(q)
        /\ Head(q) \in In(q) /\ Head(q) \notin In(Tail(q))
    BY <1>1, <1>3, HeadGone
  <2>3. Good(q)'
    BY <1>1, <2>1, <2>2 DEF Good
  <2>4. (Len(q) < qlim)'
    BY <2>1, <2>2, LimitAssumption DEF QInv
  <2>5. (In(q) \cap link = {} /\ In(q) \cap out = {} /\ link \cap out = {})'
    <3>1. In(q)' = In(Tail(q))
      BY <2>1 DEF In
    <3> QED BY <1>1, <2>1, <2>2, <3>1 DEF QInv
  <2> QED BY <2>1, <2>3, <2>4, <2>5 DEF QInv
<1> QED BY <1>2, <1>3

\* So does the filter by a function.
LEMMA filterAllKeeps ==
  ASSUME QInv, NEW S \in SUBSET Packet, filterAll(S)
  PROVE  QInv'
<1> DEFINE kept == {i \in DOMAIN q : q[i] \notin S}
<1>1. PICK at \in [1..Cardinality(kept) -> kept] :
        /\ \A i, j \in DOMAIN at : i < j => at[i] < at[j]
        /\ q' = [i \in DOMAIN at |-> q[at[i]]]
  BY DEF filterAll
<1>2. q \in Seq(Packet) /\ kept \in SUBSET DOMAIN q
  BY DEF QInv, Good
<1>3. LeftOf(q', q) /\ \A x \in In(q') : \E i \in kept : x = q[i]
  BY <1>1, <1>2, FilterLeft
<1>4. out' = out \cup (In(q) \cap S) /\ UNCHANGED <<Prefer, link>>
  BY DEF filterAll, InQueue, In
<1> QED BY <1>3, <1>4, LeavingKeeps

\* So does the filter by next hop.
LEMMA filterKeepsInv ==
  ASSUME QInv, NEW id \in Hop, filter(id)
  PROVE  QInv'
<1>1. PICK at \in FirstFor(id) : q' = RemoveAt(q, at) /\ out' = out \cup {q[at]}
  BY DEF filter
<1>2. q \in Seq(Packet) /\ at \in DOMAIN q
  BY DEF QInv, Good, FirstFor
<1>3. /\ LeftOf(q', q)
      /\ \A i \in DOMAIN q' : \E j \in DOMAIN q \ {at} : q'[i] = q[j]
  BY <1>1, <1>2, RemoveAtLeft
<1>4. q[at] \in In(q) /\ q[at] \notin In(q')
  BY <1>2, <1>3 DEF In, QInv, Good
<1>5. UNCHANGED <<Prefer, link>>
  BY DEF filter
<1> QED BY <1>1, <1>3, <1>4, <1>5, LeavingKeeps

\* And so does the end of the simulation.
LEMMA TerminateKeeps ==
  ASSUME QInv, Terminate
  PROVE  QInv'
<1>1. q' = <<>> /\ UNCHANGED <<Prefer, link>> /\ out' = out \cup In(q)
  BY DEF Terminate, InQueue, In
<1>2. q \in Seq(Packet) /\ Len(q) \in Nat
  BY LenProperties DEF QInv, Good
<1>3. In(q') = {}
  BY <1>1 DEF In
<1>4. LeftOf(q', q)
  <2>1. q' \in Seq(Packet) /\ Len(q') = 0 /\ DOMAIN q' = {}
    BY <1>1
  <2> DEFINE f == [i \in DOMAIN q' |-> i]
  <2>2. f \in [DOMAIN q' -> DOMAIN q]
    BY <2>1
  <2>3. /\ \A i, j \in DOMAIN q' : i < j => f[i] < f[j]
        /\ \A i \in DOMAIN q' : q'[i] = q[f[i]]
    BY <2>1
  <2> HIDE DEF f
  <2>4. Len(q') <= Len(q)
    BY <1>2, <2>1
  <2> QED BY <2>1, <2>2, <2>3, <2>4 DEF LeftOf
<1> QED BY <1>1, <1>3, <1>4, LeavingKeeps

\* Every step keeps the invariant.
LEMMA NextKeeps == QInv /\ [Next]_vars => QInv'
<1> SUFFICES ASSUME QInv, [Next]_vars PROVE QInv'
  OBVIOUS
<1>1. ASSUME NEW p \in Packet, recv(p) PROVE QInv'
  BY <1>1, recvKeeps
<1>2. CASE resume
  BY <1>2, resumeKeeps
<1>3. ASSUME NEW S \in SUBSET Packet, filterAll(S) PROVE QInv'
  BY <1>3, filterAllKeeps
<1>4. ASSUME NEW id \in Hop, filter(id) PROVE QInv'
  BY <1>4, filterKeepsInv
<1>5. CASE Terminate
  BY <1>5, TerminateKeeps
<1>6. CASE UNCHANGED vars
  BY <1>6 DEF vars, QInv, Good, In
<1> QED BY <1>1, <1>2, <1>3, <1>4, <1>5, <1>6 DEF Next

\* The invariant holds of every behaviour of the queue.
THEOREM Invariant == Spec => []QInv
BY InitInv, NextKeeps, PTL DEF Spec

(***************************************************************************)
(* The properties.                                                         *)
(***************************************************************************)
\* recvHighPriority: whatever is sent, dropped or filtered, a routing packet
\* never waits behind another one when routing packets are preferred.
THEOREM RoutingIsFirst == Spec => []RoutingFirst
<1>1. QInv => RoutingFirst
  BY DEF QInv, Good, RoutingFirst
<1> QED BY <1>1, Invariant, PTL

\* recvHighPriority and DropTail::enque: the queue stays below its limit,
\* whichever of the two puts packets in, for every limit.
THEOREM StaysBelowLimit == Spec => []BelowLimit
<1>1. QInv => BelowLimit
  BY DEF QInv, BelowLimit
<1> QED BY <1>1, Invariant, PTL

\* recvHighPriority hands a packet down whenever the queue is not blocked: no
\* packet waits while the link is free.
THEOREM LinkIsUsed == Spec => []NoneWaitsForNothing
<1>1. QInv => NoneWaitsForNothing
  BY DEF QInv, NoneWaitsForNothing
<1> QED BY <1>1, Invariant, PTL

\* filter(id) and the drops: a packet is in one place, and once.
THEOREM PacketIsOnce == Spec => []PacketOnce
<1>1. QInv => PacketOnce
  BY DEF QInv, Good, PacketOnce, IsInjective, InQueue, In
<1> QED BY <1>1, Invariant, PTL
=============================================================================
