----------------------- MODULE LruSessionCache_proofs -----------------------
(***************************************************************************)
(* Proofs about the session cache, for every set of projects, of handlers  *)
(* and of sessions, and for every capacity of at least one.                *)
(***************************************************************************)
EXTENDS LruSessionCache, SequenceTheorems, FiniteSetTheorems, TLAPS

(***************************************************************************)
(* Facts about the sequence operators the cache is built from.             *)
(***************************************************************************)

\* VecDeque::remove(index) closes the gap and keeps every other element.
LEMMA RemoveAtFacts ==
  ASSUME NEW S, NEW s \in Seq(S), NEW k \in 1..Len(s)
  PROVE  /\ RemoveAt(s, k) \in Seq(S)
         /\ Len(RemoveAt(s, k)) = Len(s) - 1
         /\ \A j \in 1..(Len(s) - 1) :
              RemoveAt(s, k)[j] = IF j < k THEN s[j] ELSE s[j + 1]
<1> DEFINE a == SubSeq(s, 1, k - 1)
           b == SubSeq(s, k + 1, Len(s))
<1>1. /\ a \in Seq(S)
      /\ Len(a) = k - 1
      /\ \A i \in 1..(k - 1) : a[i] = s[i]
  BY SubSeqProperties, LenProperties
<1>2. /\ b \in Seq(S)
      /\ Len(b) = Len(s) - k
      /\ \A i \in 1..(Len(s) - k) : b[i] = s[k + i]
  <2>1. \A i \in (k + 1)..Len(s) : s[i] \in S
    BY ElementOfSeq, LenProperties
  <2>2. /\ b \in Seq(S)
        /\ Len(b) = IF k + 1 <= Len(s) THEN Len(s) - (k + 1) + 1 ELSE 0
        /\ \A i \in 1..(Len(s) - (k + 1) + 1) : b[i] = s[(k + 1) + i - 1]
    <3>1. k + 1 \in Int /\ Len(s) \in Int
      BY LenProperties
    <3> QED  BY <2>1, <3>1, SubSeqProperties
  <2> QED  BY <2>2, LenProperties
<1>3. /\ a \o b \in Seq(S)
      /\ Len(a \o b) = Len(a) + Len(b)
      /\ \A i \in 1..(Len(a) + Len(b)) :
           (a \o b)[i] = IF i <= Len(a) THEN a[i] ELSE b[i - Len(a)]
  <2> HIDE DEF a, b
  <2> QED  BY <1>1, <1>2, ConcatProperties, Zenon
<1>4. RemoveAt(s, k) = a \o b
  BY DEF RemoveAt
<1> HIDE DEF a, b
<1>5. Len(s) \in Nat
  BY LenProperties
<1>6. ASSUME NEW j \in 1..(Len(s) - 1)
      PROVE  (a \o b)[j] = IF j < k THEN s[j] ELSE s[j + 1]
  <2>1. CASE j < k
    BY <2>1, <1>1, <1>2, <1>3, <1>5
  <2>2. CASE j >= k
    <3>1. (a \o b)[j] = b[j - (k - 1)]
      <4>1. j \in 1..(Len(a) + Len(b)) /\ ~(j <= Len(a)) /\ j - Len(a) = j - (k - 1)
        BY <2>2, <1>1, <1>2, <1>5
      <4> QED  BY <1>3, <4>1
    <3>2. b[j - (k - 1)] = s[k + (j - (k - 1))]
      BY <2>2, <1>2, <1>5
    <3>3. k + (j - (k - 1)) = j + 1
      BY <1>5
    <3> QED  BY <2>2, <3>1, <3>2, <3>3, <1>5
  <2>3. j < k \/ j >= k
    BY <1>5
  <2> QED  BY <2>1, <2>2, <2>3, Zenon
<1> QED  BY <1>1, <1>2, <1>3, <1>4, <1>5, <1>6

\* In a sequence without repetitions the first occurrence is the occurrence.
LEMMA FirstIsOnly ==
  ASSUME NEW S, NEW s \in Seq(S), IsInjective(s), NEW k \in 1..Len(s)
  PROVE  RemoveFirst(s, s[k]) = RemoveAt(s, k)
<1> DEFINE I == {i \in 1..Len(s) : s[i] = s[k]}
<1>1. DOMAIN s = 1..Len(s)
  BY LenProperties
<1>2. I = {k}
  BY <1>1 DEF IsInjective
<1>3. Min(I) = k
  BY <1>2, LenProperties DEF Min
<1>4. SelectInSeq(s, LAMBDA v : v = s[k]) = Min(I)
  BY <1>2 DEF SelectInSeq
<1>5. \E i \in 1..Len(s) : s[i] = s[k]
  OBVIOUS
<1> HIDE DEF I
<1> QED  BY <1>3, <1>4, <1>5 DEF RemoveFirst

\* move_to_front keeps the order free of repetitions and adds only its path.
LEMMA MoveToFrontFacts ==
  ASSUME NEW S, NEW s \in Seq(S), IsInjective(s), NEW p \in S
  PROVE  /\ MoveToFront(s, p) \in Seq(S)
         /\ IsInjective(MoveToFront(s, p))
         /\ ToSet(MoveToFront(s, p)) = ToSet(s) \cup {p}
         /\ MoveToFront(s, p)[1] = p
         /\ Len(MoveToFront(s, p)) = IF p \in ToSet(s) THEN Len(s) ELSE Len(s) + 1
<1> DEFINE r == RemoveFirst(s, p)
           t == <<p>> \o r
<1>0. Len(s) \in Nat /\ DOMAIN s = 1..Len(s)
  BY LenProperties
<1>1. /\ r \in Seq(S)
      /\ Len(r) = IF p \in ToSet(s) THEN Len(s) - 1 ELSE Len(s)
      /\ \A i, j \in 1..Len(r) : r[i] = r[j] => i = j
      /\ \A i \in 1..Len(r) : r[i] # p
      /\ \A i \in 1..Len(r) : \E j \in 1..Len(s) : r[i] = s[j]
      /\ \A j \in 1..Len(s) : s[j] # p => \E i \in 1..Len(r) : r[i] = s[j]
  <2>1. CASE p \notin ToSet(s)
    <3>1. r = s
      BY <2>1, <1>0 DEF RemoveFirst, ToSet
    <3> QED  BY <2>1, <3>1, <1>0 DEF ToSet, IsInjective
  <2>2. CASE p \in ToSet(s)
    <3>1. PICK k \in 1..Len(s) : s[k] = p
      BY <2>2, <1>0 DEF ToSet
    <3>2. r = RemoveAt(s, k)
      BY <3>1, FirstIsOnly
    <3>3. /\ r \in Seq(S)
          /\ Len(r) = Len(s) - 1
          /\ \A j \in 1..(Len(s) - 1) : r[j] = IF j < k THEN s[j] ELSE s[j + 1]
      BY <3>2, RemoveAtFacts, Zenon
    <3> HIDE DEF r
    <3> DEFINE at(m) == IF m < k THEN m ELSE m + 1
    <3>a. \A m \in 1..Len(r) : at(m) \in 1..Len(s) /\ at(m) # k /\ r[m] = s[at(m)]
      BY <3>3, <1>0
    <3>b. \A i, j \in 1..Len(r) : at(i) = at(j) => i = j
      BY <3>3, <1>0
    <3> HIDE DEF at
    <3>c. \A i, j \in 1..Len(s) : s[i] = s[j] => i = j
      BY <1>0 DEF IsInjective
    <3>4. \A i, j \in 1..Len(r) : r[i] = r[j] => i = j
      BY <3>a, <3>b, <3>c
    <3>5. \A i \in 1..Len(r) : r[i] # p
      BY <3>1, <3>a, <3>c
    <3>6. \A i \in 1..Len(r) : \E j \in 1..Len(s) : r[i] = s[j]
      BY <3>a
    <3>7. ASSUME NEW j \in 1..Len(s), s[j] # p
          PROVE  \E i \in 1..Len(r) : r[i] = s[j]
      <4>1. CASE j < k
        BY <4>1, <3>3, <1>0
      <4>2. CASE j > k
        <5>1. j - 1 \in 1..Len(r) /\ r[j - 1] = s[j]
          BY <4>2, <3>3, <1>0
        <5> QED  BY <5>1
      <4> QED  BY <3>1, <3>7, <4>1, <4>2, <1>0
    <3> QED  BY <2>2, <3>3, <3>4, <3>5, <3>6, <3>7
  <2> QED  BY <2>1, <2>2
<1> HIDE DEF r
<1>length. Len(r) = IF p \in ToSet(s) THEN Len(s) - 1 ELSE Len(s)
  BY <1>1
<1>distinct. \A i, j \in 1..Len(r) : r[i] = r[j] => i = j
  BY <1>1
<1>others. \A i \in 1..Len(r) : r[i] # p
  BY <1>1
<1>sound. \A i \in 1..Len(r) : r[i] \in ToSet(s)
  BY <1>0, <1>1, Zenon DEF ToSet
<1>2. <<p>> \in Seq(S) /\ Len(<<p>>) = 1 /\ <<p>>[1] = p
  OBVIOUS
<1>3. /\ t \in Seq(S)
      /\ Len(t) = 1 + Len(r)
      /\ \A i \in 1..(1 + Len(r)) : t[i] = IF i <= 1 THEN <<p>>[i] ELSE r[i - 1]
  BY <1>1, <1>2, ConcatProperties
<1>4. Len(r) \in Nat
  BY <1>1, LenProperties
<1>5. t[1] = p /\ \A i \in 1..Len(r) : t[i + 1] = r[i]
  <2>1. t[1] = p
    BY <1>2, <1>3, <1>4
  <2>2. ASSUME NEW i \in 1..Len(r)
        PROVE  t[i + 1] = r[i]
    <3>1. i + 1 \in 1..(1 + Len(r)) /\ ~(i + 1 <= 1) /\ (i + 1) - 1 = i
      BY <1>4
    <3> QED  BY <3>1, <1>3
  <2> QED  BY <2>1, <2>2
<1> HIDE DEF t
<1>6. DOMAIN t = 1..(1 + Len(r))
  BY <1>3, LenProperties
<1>7. IsInjective(t)
  <2> SUFFICES ASSUME NEW i \in 1..(1 + Len(r)), NEW j \in 1..(1 + Len(r)), t[i] = t[j]
               PROVE  i = j
    BY <1>6 DEF IsInjective
  <2>1. \A m \in 1..(1 + Len(r)) : m # 1 => m - 1 \in 1..Len(r) /\ t[m] = r[m - 1]
    BY <1>3, <1>4
  <2>2. CASE i = 1 \/ j = 1
    BY <2>1, <2>2, <1>others, <1>5
  <2>3. CASE i # 1 /\ j # 1
    <3>1. r[i - 1] = r[j - 1]
      BY <2>1, <2>3
    <3>2. i - 1 = j - 1
      BY <2>1, <2>3, <3>1, <1>distinct
    <3> QED  BY <3>2, <1>4
  <2> QED  BY <2>2, <2>3
<1>8. ToSet(t) = ToSet(s) \cup {p}
  <2>1. ToSet(t) \subseteq ToSet(s) \cup {p}
    <3> SUFFICES ASSUME NEW i \in 1..(1 + Len(r))
                 PROVE  t[i] \in ToSet(s) \cup {p}
      BY <1>6 DEF ToSet
    <3>1. CASE i = 1
      BY <3>1, <1>5
    <3>2. CASE i # 1
      <4>1. i - 1 \in 1..Len(r) /\ t[i] = r[i - 1]
        BY <3>2, <1>3, <1>4
      <4> QED  BY <4>1, <1>sound
    <3> QED  BY <3>1, <3>2
  <2>2. p \in ToSet(t)
    BY <1>4, <1>5, <1>6 DEF ToSet
  <2>3. ToSet(s) \subseteq ToSet(t)
    <3> SUFFICES ASSUME NEW j \in 1..Len(s), s[j] # p
                 PROVE  s[j] \in ToSet(t)
      BY <2>2, <1>0 DEF ToSet
    <3>1. PICK i \in 1..Len(r) : r[i] = s[j]
      BY <1>1
    <3>2. i + 1 \in DOMAIN t /\ t[i + 1] = s[j]
      BY <3>1, <1>4, <1>5, <1>6
    <3> QED  BY <3>2 DEF ToSet
  <2> QED  BY <2>1, <2>2, <2>3
<1>9. t = MoveToFront(s, p)
  BY DEF t, r, MoveToFront
<1>10. Len(t) = IF p \in ToSet(s) THEN Len(s) ELSE Len(s) + 1
  <2>1. Len(t) = 1 + Len(r)
    BY <1>3
  <2>2. CASE p \in ToSet(s)
    BY <2>1, <2>2, <1>0, <1>length
  <2>3. CASE p \notin ToSet(s)
    BY <2>1, <2>3, <1>0, <1>length
  <2> QED  BY <2>2, <2>3
<1> QED  BY <1>3, <1>5, <1>7, <1>8, <1>9, <1>10

\* pop_back drops exactly the last path.
LEMMA FrontFacts ==
  ASSUME NEW S, NEW s \in Seq(S), IsInjective(s), s # <<>>
  PROVE  /\ Front(s) \in Seq(S)
         /\ IsInjective(Front(s))
         /\ ToSet(Front(s)) = ToSet(s) \ {Last(s)}
         /\ Len(Front(s)) = Len(s) - 1
         /\ Last(s) \in ToSet(s)
<1>1. Len(s) \in Nat \ {0} /\ DOMAIN s = 1..Len(s)
  BY LenProperties, EmptySeq
<1>2. /\ Front(s) \in Seq(S)
      /\ Len(Front(s)) = Len(s) - 1
      /\ \A i \in 1..(Len(s) - 1) : Front(s)[i] = s[i]
  BY <1>1 DEF Front
<1>3. DOMAIN Front(s) = 1..(Len(s) - 1)
  BY <1>2, LenProperties
<1>4. IsInjective(Front(s))
  BY <1>1, <1>2, <1>3 DEF IsInjective
<1>5. ToSet(Front(s)) = ToSet(s) \ {s[Len(s)]}
  <2>1. ASSUME NEW i \in 1..(Len(s) - 1)
        PROVE  Front(s)[i] \in ToSet(s) /\ Front(s)[i] # s[Len(s)]
    BY <1>1, <1>2 DEF IsInjective, ToSet
  <2>2. ASSUME NEW i \in 1..Len(s), s[i] # s[Len(s)]
        PROVE  s[i] \in ToSet(Front(s))
    <3>1. i \in 1..(Len(s) - 1)
      BY <2>2, <1>1
    <3> QED  BY <3>1, <1>2, <1>3 DEF ToSet
  <2> QED  BY <2>1, <2>2, <1>1, <1>3 DEF ToSet
<1>6. Last(s) = s[Len(s)] /\ s[Len(s)] \in ToSet(s)
  BY <1>1 DEF Last, ToSet
<1> QED  BY <1>2, <1>4, <1>5, <1>6

\* push_front of a path that is not in the order.
LEMMA PushFrontFacts ==
  ASSUME NEW S, NEW s \in Seq(S), IsInjective(s), NEW p \in S, p \notin ToSet(s)
  PROVE  /\ <<p>> \o s \in Seq(S)
         /\ IsInjective(<<p>> \o s)
         /\ ToSet(<<p>> \o s) = ToSet(s) \cup {p}
         /\ (<<p>> \o s)[1] = p
         /\ Len(<<p>> \o s) = Len(s) + 1
<1>1. DOMAIN s = 1..Len(s)
  BY LenProperties
<1>2. RemoveFirst(s, p) = s
  BY <1>1 DEF RemoveFirst, ToSet
<1>3. MoveToFront(s, p) = <<p>> \o s
  BY <1>2 DEF MoveToFront
<1>4. /\ MoveToFront(s, p) \in Seq(S)
      /\ IsInjective(MoveToFront(s, p))
      /\ ToSet(MoveToFront(s, p)) = ToSet(s) \cup {p}
      /\ MoveToFront(s, p)[1] = p
      /\ Len(MoveToFront(s, p)) = IF p \in ToSet(s) THEN Len(s) ELSE Len(s) + 1
  BY MoveToFrontFacts
<1> QED  BY <1>3, <1>4

\* A path list without repetitions is as long as its set of paths is large,
\* so DashMap::len() and VecDeque::len() can stand for each other.
LEMMA OrderCounts ==
  ASSUME NEW S, NEW s \in Seq(S), IsInjective(s)
  PROVE  Cardinality(ToSet(s)) = Len(s)
<1>1. Len(s) \in Nat /\ DOMAIN s = 1..Len(s)
  BY LenProperties
<1>2. s \in [1..Len(s) -> ToSet(s)]
  BY <1>1, LenProperties DEF ToSet
<1>3. s \in Bijection(1..Len(s), ToSet(s))
  BY <1>1, <1>2 DEF Bijection, Injection, Surjection, IsInjective, ToSet
<1> QED  BY <1>1, <1>3, FS_CountingElements DEF ExistsBijection

-----------------------------------------------------------------------------
(***************************************************************************)
(* The inductive invariant.  LastUsedSurvives needs the third conjunct:    *)
(* once the cache is full, the last lookup is at the front of the order.   *)
(***************************************************************************)
LastUsedInFront ==
  recency # <<>> =>
    /\ recency[1] \in DOMAIN sessions
    /\ Len(usage_order) >= Capacity => usage_order[1] = recency[1]

IInv ==
  /\ TypeOK
  /\ OrderMatchesMap
  /\ IsInjective(recency)
  /\ LastUsedInFront

\* The cache is full exactly when the order has its capacity.
LEMMA FullIsLength ==
  ASSUME TypeOK, OrderMatchesMap
  PROVE  IsFull(sessions) <=> Len(usage_order) >= Capacity
BY OrderCounts DEF TypeOK, OrderMatchesMap, IsFull

\* What insert leaves behind, from any consistent cache.
LEMMA InsertFacts ==
  ASSUME TypeOK, OrderMatchesMap, NEW p \in Paths, NEW s \in Sessions
  PROVE  LET after == Insert(sessions, usage_order, p, s)
         IN  /\ DOMAIN after.map \subseteq Paths
             /\ after.map \in [DOMAIN after.map -> Sessions]
             /\ after.order \in Seq(Paths)
             /\ IsInjective(after.order)
             /\ ToSet(after.order) = DOMAIN after.map
             /\ Len(after.order) <= Capacity
             /\ after.order[1] = p
             /\ p \in DOMAIN after.map
             /\ DOMAIN sessions \subseteq DOMAIN after.map \cup
                  (IF Len(usage_order) >= Capacity THEN {Last(usage_order)} ELSE {})
<1> DEFINE after == Insert(sessions, usage_order, p, s)
<1>1. /\ usage_order \in Seq(Paths) /\ IsInjective(usage_order)
      /\ ToSet(usage_order) = DOMAIN sessions
      /\ Len(usage_order) <= Capacity /\ Len(usage_order) \in Nat
      /\ DOMAIN sessions \subseteq Paths
      /\ sessions \in [DOMAIN sessions -> Sessions]
  BY LenProperties DEF TypeOK, OrderMatchesMap
<1>2. CASE p \in DOMAIN sessions
  <2>1. after.map = Put(sessions, p, s) /\ after.order = MoveToFront(usage_order, p)
    BY <1>2 DEF Insert
  <2>2. DOMAIN after.map = DOMAIN sessions /\ after.map \in [DOMAIN sessions -> Sessions]
    BY <2>1, <1>1, <1>2, Zenon DEF Put
  <2>3. /\ after.order \in Seq(Paths) /\ IsInjective(after.order)
        /\ ToSet(after.order) = ToSet(usage_order) \cup {p}
        /\ after.order[1] = p
        /\ Len(after.order) = Len(usage_order)
    <3>1. /\ MoveToFront(usage_order, p) \in Seq(Paths)
          /\ IsInjective(MoveToFront(usage_order, p))
          /\ ToSet(MoveToFront(usage_order, p)) = ToSet(usage_order) \cup {p}
          /\ MoveToFront(usage_order, p)[1] = p
          /\ Len(MoveToFront(usage_order, p)) =
               IF p \in ToSet(usage_order) THEN Len(usage_order) ELSE Len(usage_order) + 1
      BY <1>1, MoveToFrontFacts, Zenon
    <3> QED  BY <2>1, <3>1, <1>1, <1>2
  <2> QED  BY <2>2, <2>3, <1>1, <1>2, Zenon
<1>3. CASE p \notin DOMAIN sessions
  <2> DEFINE full == Len(usage_order) >= Capacity
             room == IF IsFull(sessions) THEN EvictLeastUsed(sessions, usage_order)
                     ELSE [map |-> sessions, order |-> usage_order]
  <2>1. after.map = Put(room.map, p, s) /\ after.order = <<p>> \o room.order
    BY <1>3 DEF Insert
  <2>2. /\ room.map \in [DOMAIN room.map -> Sessions]
        /\ DOMAIN room.map \subseteq DOMAIN sessions
        /\ DOMAIN sessions \subseteq DOMAIN room.map \cup
             (IF full THEN {Last(usage_order)} ELSE {})
        /\ room.order \in Seq(Paths) /\ IsInjective(room.order)
        /\ ToSet(room.order) = DOMAIN room.map
        /\ Len(room.order) + 1 <= Capacity
    <3>1. CASE full
      <4>1. usage_order # <<>>
        BY <3>1, <1>1, CapacityAssumption, EmptySeq
      <4>2. room = [map |-> Restrict(sessions, DOMAIN sessions \ {Last(usage_order)}),
                    order |-> Front(usage_order)]
        BY <3>1, <4>1, FullIsLength DEF EvictLeastUsed
      <4>3. /\ Front(usage_order) \in Seq(Paths)
            /\ IsInjective(Front(usage_order))
            /\ ToSet(Front(usage_order)) = ToSet(usage_order) \ {Last(usage_order)}
            /\ Len(Front(usage_order)) = Len(usage_order) - 1
        BY <4>1, <1>1, FrontFacts
      <4>4. /\ room.order = Front(usage_order)
            /\ DOMAIN room.map = DOMAIN sessions \ {Last(usage_order)}
            /\ room.map \in [DOMAIN room.map -> Sessions]
        BY <4>2, <1>1 DEF Restrict
      <4> HIDE DEF room
      <4> QED  BY <3>1, <4>3, <4>4, <1>1, CapacityAssumption
    <3>2. CASE ~full
      <4>1. room = [map |-> sessions, order |-> usage_order]
        BY <3>2, FullIsLength
      <4> HIDE DEF room
      <4> QED  BY <3>2, <4>1, <1>1, CapacityAssumption
    <3> QED  BY <3>1, <3>2
  <2> HIDE DEF room
  <2>3. DOMAIN after.map = DOMAIN room.map \cup {p} /\ after.map \in [DOMAIN after.map -> Sessions]
    BY <2>1, <2>2 DEF Put
  <2>4. p \notin ToSet(room.order)
    BY <2>2, <1>3
  <2>5. /\ after.order \in Seq(Paths) /\ IsInjective(after.order)
        /\ ToSet(after.order) = ToSet(room.order) \cup {p}
        /\ after.order[1] = p
        /\ Len(after.order) = Len(room.order) + 1
    BY <2>1, <2>2, <2>4, PushFrontFacts
  <2> QED  BY <2>2, <2>3, <2>5, <1>1
<1> QED  BY <1>2, <1>3

\* An empty cache is consistent.
LEMMA InitIInv == Init => IInv
<1> SUFFICES ASSUME Init PROVE IInv
  OBVIOUS
<1>1. sessions = <<>> /\ usage_order = <<>> /\ recency = <<>>
  BY DEF Init
<1>2. <<>> \in Seq(Paths) /\ Len(<<>>) = 0 /\ DOMAIN <<>> = {}
  BY EmptySeq
<1>3. TypeOK
  <2>1. call \in [Handlers -> Calls]
    BY DEF Init, Idle, Calls
  <2>2. sessions \in [DOMAIN sessions -> Sessions]
    BY <1>1, <1>2
  <2> QED  BY <1>1, <1>2, <2>1, <2>2, CapacityAssumption DEF TypeOK
<1>4. OrderMatchesMap
  BY <1>1, <1>2 DEF OrderMatchesMap, IsInjective, ToSet
<1> QED  BY <1>1, <1>2, <1>3, <1>4 DEF IInv, IsInjective, LastUsedInFront

\* A lookup that hits.
LEMMA SessionCachedIInv ==
  ASSUME IInv, NEW h \in Handlers, NEW p \in Paths, SessionCached(h, p)
  PROVE  IInv' /\ DOMAIN sessions' = DOMAIN sessions
<1> USE DEF IInv
<1>1. /\ sessions' = sessions /\ p \in DOMAIN sessions
      /\ usage_order' = GetOrder(sessions, usage_order, p)
      /\ recency' = MoveToFront(recency, p)
  BY DEF SessionCached
<1>2. call' \in [Handlers -> Calls]
  <2>1. [at |-> "holds", path |-> p, session |-> sessions[p]] \in Calls
    BY <1>1 DEF TypeOK, Calls
  <2> QED  BY <2>1 DEF SessionCached, TypeOK
<1>3. /\ usage_order \in Seq(Paths) /\ IsInjective(usage_order)
      /\ recency \in Seq(Paths) /\ IsInjective(recency)
  BY DEF TypeOK, OrderMatchesMap
<1>4. /\ recency' \in Seq(Paths) /\ IsInjective(recency') /\ recency'[1] = p
  BY <1>1, <1>3, MoveToFrontFacts
<1>5. /\ usage_order' \in Seq(Paths)
      /\ IsInjective(usage_order')
      /\ ToSet(usage_order') = ToSet(usage_order)
      /\ Len(usage_order') = Len(usage_order)
      /\ Len(usage_order) >= Capacity => usage_order'[1] = p
  <2>1. CASE IsFull(sessions)
    <3>1. usage_order' = MoveToFront(usage_order, p)
      BY <1>1, <2>1 DEF GetOrder
    <3>2. /\ MoveToFront(usage_order, p) \in Seq(Paths)
          /\ IsInjective(MoveToFront(usage_order, p))
          /\ ToSet(MoveToFront(usage_order, p)) = ToSet(usage_order) \cup {p}
          /\ MoveToFront(usage_order, p)[1] = p
          /\ Len(MoveToFront(usage_order, p)) =
               IF p \in ToSet(usage_order) THEN Len(usage_order) ELSE Len(usage_order) + 1
      BY <1>3, MoveToFrontFacts
    <3>3. p \in ToSet(usage_order)
      BY <1>1 DEF OrderMatchesMap
    <3> QED  BY <3>1, <3>2, <3>3
  <2>2. CASE ~IsFull(sessions)
    <3>1. usage_order' = usage_order
      BY <1>1, <2>2 DEF GetOrder
    <3>2. ~(Len(usage_order) >= Capacity)
      BY <2>2, FullIsLength
    <3> QED  BY <3>1, <3>2, <1>3
  <2> QED  BY <2>1, <2>2
<1>6. TypeOK'
  BY <1>1, <1>2, <1>4, <1>5 DEF TypeOK
<1>7. OrderMatchesMap'
  BY <1>1, <1>5 DEF OrderMatchesMap
<1>8. LastUsedInFront'
  BY <1>1, <1>4, <1>5 DEF LastUsedInFront
<1> QED  BY <1>1, <1>4, <1>6, <1>7, <1>8

\* The insert that ends a lookup that missed.
LEMMA InitDoneIInv ==
  ASSUME IInv, NEW h \in Handlers, InitDone(h)
  PROVE  /\ IInv'
         /\ DOMAIN sessions \subseteq DOMAIN sessions' \cup
              (IF Len(usage_order) >= Capacity THEN {Last(usage_order)} ELSE {})
<1> USE DEF IInv
<1> DEFINE p == call[h].path
           s == call[h].session
<1>1. call[h] \in [at : {"init", "holds"}, path : Paths, session : Sessions]
  BY DEF TypeOK, Calls, InitDone
<1>2. p \in Paths /\ s \in Sessions
  BY <1>1
<1>3. call' \in [Handlers -> Calls]
  BY <1>1 DEF InitDone, TypeOK, Calls
<1>4. /\ sessions' = Insert(sessions, usage_order, p, s).map
      /\ usage_order' = Insert(sessions, usage_order, p, s).order
      /\ recency' = MoveToFront(recency, p)
  BY DEF InitDone
<1>5. /\ DOMAIN sessions' \subseteq Paths
      /\ sessions' \in [DOMAIN sessions' -> Sessions]
      /\ usage_order' \in Seq(Paths)
      /\ IsInjective(usage_order')
      /\ ToSet(usage_order') = DOMAIN sessions'
      /\ Len(usage_order') <= Capacity
      /\ usage_order'[1] = p
      /\ p \in DOMAIN sessions'
      /\ DOMAIN sessions \subseteq DOMAIN sessions' \cup
           (IF Len(usage_order) >= Capacity THEN {Last(usage_order)} ELSE {})
  <2> HIDE DEF p, s
  <2> QED  BY <1>2, <1>4, InsertFacts
<1>6. /\ recency' \in Seq(Paths) /\ IsInjective(recency') /\ recency'[1] = p
  BY <1>2, <1>4, MoveToFrontFacts DEF TypeOK
<1> HIDE DEF p, s
<1>7. TypeOK'
  BY <1>3, <1>5, <1>6 DEF TypeOK
<1>8. OrderMatchesMap'
  BY <1>5 DEF OrderMatchesMap
<1>9. LastUsedInFront'
  BY <1>5, <1>6 DEF LastUsedInFront
<1> QED  BY <1>5, <1>6, <1>7, <1>8, <1>9

\* The steps that touch neither the map nor the order.
LEMMA CallOnlyIInv ==
  ASSUME IInv, UNCHANGED <<sessions, usage_order, recency>>, call' \in [Handlers -> Calls]
  PROVE  IInv' /\ DOMAIN sessions' = DOMAIN sessions
BY DEF IInv, TypeOK, OrderMatchesMap, LastUsedInFront

\* Every step, and every stuttering step, keeps the invariant.
LEMMA NextIInv ==
  ASSUME IInv, [Next]_vars
  PROVE  /\ IInv'
         /\ DOMAIN sessions \subseteq DOMAIN sessions' \cup
              (IF Len(usage_order) >= Capacity THEN {Last(usage_order)} ELSE {})
<1>0. call \in [Handlers -> Calls]
  BY DEF IInv, TypeOK
<1>1. ASSUME NEW h \in Handlers, NEW p \in Paths, SessionCached(h, p)
      PROVE  IInv' /\ DOMAIN sessions' = DOMAIN sessions
  BY <1>1, SessionCachedIInv
<1>2. ASSUME NEW h \in Handlers, NEW p \in Paths, SessionMissing(h, p)
      PROVE  IInv' /\ DOMAIN sessions' = DOMAIN sessions
  <2>1. call' \in [Handlers -> Calls]
    BY <1>0, <1>2 DEF SessionMissing, Calls
  <2> QED  BY <1>2, <2>1, CallOnlyIInv DEF SessionMissing
<1>3. ASSUME NEW h \in Handlers, InitFails(h) \/ HandlerDone(h)
      PROVE  IInv' /\ DOMAIN sessions' = DOMAIN sessions
  <2>1. call' \in [Handlers -> Calls]
    BY <1>0, <1>3 DEF InitFails, HandlerDone, Idle, Calls
  <2> QED  BY <1>3, <2>1, CallOnlyIInv DEF InitFails, HandlerDone
<1>4. CASE UNCHANGED vars
  BY <1>0, <1>4, CallOnlyIInv DEF vars
<1> QED  BY <1>1, <1>2, <1>3, <1>4, InitDoneIInv DEF Next

\* The inductive invariant holds in every reachable state of the cache.
THEOREM Invariance == Spec => []IInv
<1>1. IInv /\ [Next]_vars => IInv'
  BY NextIInv
<1> QED  BY InitIInv, <1>1, PTL DEF Spec

(* The session map and the usage order of LruSessionCache have their types *)
(* in every reachable state.                                               *)
THEOREM TypeCorrect == Spec => []TypeOK
BY Invariance, PTL DEF IInv

(* LruSessionCache's map and usage order never disagree and the cache      *)
(* never holds more than Capacity sessions, however the get and insert     *)
(* calls of concurrent url_to_session handlers interleave.                 *)
THEOREM OrderAlwaysMatchesMap == Spec => []OrderMatchesMap
BY Invariance, PTL DEF IInv

(* insert's eviction never drops the project that was looked up last, when *)
(* the capacity is at least two.                                           *)
THEOREM LastUsedAlwaysSurvives == Spec => LastUsedSurvives
<1>1. IInv /\ [Next]_vars =>
        [Capacity > 1 /\ recency # <<>> => recency[1] \in DOMAIN sessions']_vars
  <2> SUFFICES ASSUME IInv, [Next]_vars, Capacity > 1, recency # <<>>
               PROVE  recency[1] \in DOMAIN sessions'
    OBVIOUS
  <2>1. DOMAIN sessions \subseteq DOMAIN sessions' \cup
          (IF Len(usage_order) >= Capacity THEN {Last(usage_order)} ELSE {})
    BY NextIInv
  <2>2. recency[1] \in DOMAIN sessions
    BY DEF IInv, LastUsedInFront
  <2>3. CASE Len(usage_order) >= Capacity
    <3>1. usage_order[1] = recency[1]
      BY <2>3 DEF IInv, LastUsedInFront
    <3>2. usage_order \in Seq(Paths) /\ IsInjective(usage_order)
      BY DEF IInv, TypeOK, OrderMatchesMap
    <3>3. DOMAIN usage_order = 1..Len(usage_order) /\ Len(usage_order) \in Nat
      BY <3>2, LenProperties
    <3>4. usage_order[1] # usage_order[Len(usage_order)]
      BY <2>3, <3>2, <3>3, CapacityAssumption DEF IsInjective
    <3> QED  BY <2>1, <2>2, <2>3, <3>1, <3>4 DEF Last
  <2>4. CASE ~(Len(usage_order) >= Capacity)
    BY <2>1, <2>2, <2>4
  <2> QED  BY <2>3, <2>4
<1> QED  BY Invariance, <1>1, PTL DEF Spec, LastUsedSurvives
=============================================================================
