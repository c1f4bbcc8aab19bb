---------------------- MODULE StorageCollections_proofs ----------------------
(* The storage collections implement what they promise (ContractStorage), for *)
(* every set of element types, values, keys and slices: first the packing of  *)
(* values into slots (StorageApi), then one element in its region, then the   *)
(* loops of the vector's operations, and last every call.                     *)
EXTENDS StorageCollections, WellFoundedInduction, TLAPS

\* slot_calculator finds exactly the slots of a value: the place in the first
\* slot is the value's word offset, and the buffer of read and write, which has
\* the size of those slots, holds the whole value.
THEOREM SlotsCoverValue ==
  ASSUME NEW t, IsType(t), t.size > 0, NEW offset \in Nat
  PROVE  /\ FirstSlot(t, offset) \in Nat
         /\ NumberOfSlots(t, offset) \in Nat \ {0}
         /\ PlaceInSlot(offset) \in 0 .. 3
         /\ 4 * FirstSlot(t, offset) + PlaceInSlot(offset) = offset
         /\ Words(t) \in Nat \ {0}
         /\ PlaceInSlot(offset) + Words(t) <= 4 * NumberOfSlots(t, offset)
<1> DEFINE q == offset \div 4
           p == offset % 4
           s == t.size
<1>1. q \in Nat /\ p \in 0 .. 3 /\ offset = 4 * q + p /\ s \in Nat /\ s > 0
  BY SMTT(30) DEF IsType
<1>2. t.ref \in BOOLEAN /\ (~t.ref => s <= 8)
  BY SMTT(30) DEF IsType
<1>3. LastSlot(t, offset) = q + (p * 8 + s + 31) \div 32
  <2>1. LastSlot(t, offset) = ((4 * q + p) * 8 + s + 31) \div 32
    BY <1>1, SMTT(30) DEF LastSlot
  <2> QED BY <2>1, <1>1, SMTT(30)
<1>4. NumberOfSlots(t, offset) = (p * 8 + s + 31) \div 32
  <2>1. CASE t.ref
    BY <2>1, SMTT(30) DEF NumberOfSlots, PlaceInSlot
  <2>2. CASE ~t.ref
    <3>1. p * 8 + s + 31 >= 32 /\ p * 8 + s + 31 < 64
      BY <2>2, <1>1, <1>2, SMTT(30)
    <3>2. (p * 8 + s + 31) \div 32 = 1
      BY <3>1, <1>1, SMTT(30)
    <3> QED BY <2>2, <3>2, SMTT(30) DEF NumberOfSlots
  <2> QED BY <2>1, <2>2, SMTT(30)
<1>5. FirstSlot(t, offset) = q
  BY <1>1, <1>3, <1>4, SMTT(30) DEF FirstSlot
<1>6. (p * 8 + s + 31) \div 32 \in Nat \ {0} /\ 32 * ((p * 8 + s + 31) \div 32) >= p * 8 + s
  BY <1>1, SMTT(30)
<1>7. Words(t) \in Nat \ {0} /\ Words(t) = (s + 7) \div 8
  BY <1>1, SMTT(30) DEF Words
<1>8. p + (s + 7) \div 8 <= 4 * ((p * 8 + s + 31) \div 32)
  BY <1>1, <1>6, SMTT(30)
<1> QED BY <1>1, <1>4, <1>5, <1>6, <1>7, <1>8, SMTT(30) DEF PlaceInSlot

-----------------------------------------------------------------------------
\* The word at a word address of a region.
WordOf(region, a) == region[a \div 4][a % 4]

\* A value that read finds is the words from its offset on.
LEMMA ReadWords ==
  ASSUME NEW region, NEW t, IsType(t), t.size > 0, NEW offset \in Nat,
         AllSet(region, FirstSlot(t, offset), NumberOfSlots(t, offset))
  PROVE  Read(region, t, offset) =
           Some([w \in 0 .. (Words(t) - 1) |-> WordOf(region, offset + w)])
<1> DEFINE f == FirstSlot(t, offset)
           n == NumberOfSlots(t, offset)
           p == PlaceInSlot(offset)
           loaded == LoadQuad(region, f, n)
<1>1. /\ f \in Nat /\ n \in Nat \ {0} /\ p \in 0 .. 3 /\ 4 * f + p = offset
      /\ Words(t) \in Nat \ {0} /\ p + Words(t) <= 4 * n
  BY SlotsCoverValue, SMTT(30)
<1>2. ASSUME NEW w \in 0 .. (Words(t) - 1)
      PROVE  loaded[p + w] = WordOf(region, offset + w)
  <2> HIDE DEF f, n, p
  <2>1. p + w \in 0 .. (4 * n - 1)
    BY <1>1, SMTT(30)
  <2>2. (p + w) \div 4 \in 0 .. (n - 1)
    BY <1>1, <2>1, SMTT(30)
  <2>3. f + (p + w) \div 4 \in DOMAIN region
    <3>1. f + (p + w) \div 4 \in f .. (f + n - 1)
      BY <1>1, <2>2, SMTT(30)
    <3> QED BY <3>1, SMTT(30) DEF AllSet, f, n
  <2>4. (offset + w) \div 4 = f + (p + w) \div 4 /\ (offset + w) % 4 = (p + w) % 4
    BY <1>1, SMTT(30)
  <2>5. loaded[p + w] = region[f + (p + w) \div 4][(p + w) % 4]
    BY <2>1, <2>3, SMTT(30) DEF LoadQuad
  <2> QED BY <2>4, <2>5, SMTT(30) DEF WordOf
<1>3. Read(region, t, offset) = Some([w \in 0 .. (Words(t) - 1) |-> loaded[p + w]])
  BY SMTT(30) DEF Read, IsType
<1>4. [w \in 0 .. (Words(t) - 1) |-> loaded[p + w]]
        = [w \in 0 .. (Words(t) - 1) |-> WordOf(region, offset + w)]
  <2> HIDE DEF loaded, p
  <2> QED BY <1>2, SMTT(30)
<1> QED BY <1>3, <1>4, Zenon

\* write sets the slots of the value and takes away none.
LEMMA SlotsAfterWrite ==
  ASSUME NEW region, NEW t, t.size \in Nat, t.size > 0, NEW offset, NEW value
  PROVE  DOMAIN Write(region, t, offset, value) =
           DOMAIN region \cup FirstSlot(t, offset) ..
                              (FirstSlot(t, offset) + NumberOfSlots(t, offset) - 1)
BY SMTT(30) DEF Write, StoreQuad

\* After write, the value's words are the value's; every other word of a set
\* slot is what it was, or zero in a slot that was not set.
LEMMA WordsAfterWrite ==
  ASSUME NEW region, DOMAIN region \subseteq Nat,
         NEW t, IsType(t), t.size > 0, NEW offset \in Nat, NEW value, NEW a \in Nat,
         a \div 4 \in DOMAIN Write(region, t, offset, value)
  PROVE  WordOf(Write(region, t, offset, value), a) =
           IF a \in offset .. (offset + Words(t) - 1) THEN value[a - offset]
           ELSE IF a \div 4 \in DOMAIN region THEN WordOf(region, a) ELSE 0
<1> DEFINE f == FirstSlot(t, offset)
           n == NumberOfSlots(t, offset)
           p == PlaceInSlot(offset)
           W == Write(region, t, offset, value)
           buffer == PaddedValue(region, t, offset, value)
           q == a \div 4
           r == a % 4
<1>1. /\ f \in Nat /\ n \in Nat \ {0} /\ p \in 0 .. 3 /\ 4 * f + p = offset
      /\ Words(t) \in Nat \ {0} /\ p + Words(t) <= 4 * n
  BY SlotsCoverValue, SMTT(30)
<1>2. q \in Nat /\ r \in 0 .. 3 /\ a = 4 * q + r
  BY SMTT(30)
<1>3. DOMAIN W = DOMAIN region \cup f .. (f + n - 1)
  BY SlotsAfterWrite, Zenon DEF IsType
<1>4. CASE q \in f .. (f + n - 1)
  <2> DEFINE b == 4 * (q - f) + r
  <2>1. W[q] = [w \in 0 .. 3 |-> buffer[4 * (q - f) + w]]
    BY <1>3, <1>4, SMTT(30) DEF Write, StoreQuad, IsType
  <2>2. W[q][r] = buffer[b]
    BY <1>2, <2>1, SMTT(30)
  <2>3. b \in 0 .. (4 * n - 1) /\ b \div 4 = q - f /\ b % 4 = r
    <3> HIDE DEF f, n, q, r
    <3> QED BY <1>1, <1>2, <1>4, SMTT(30)
  <2>4. buffer[b] = IF b - p \in 0 .. (Words(t) - 1) THEN value[b - p]
                    ELSE LoadQuad(region, f, n)[b]
    BY <2>3, SMTT(30) DEF PaddedValue, LoadQuad
  <2>5. LoadQuad(region, f, n)[b] =
          IF q \in DOMAIN region THEN region[q][r] ELSE 0
    <3>1. f + (b \div 4) = q
      <4> HIDE DEF f, q, b
      <4> QED BY <1>1, <1>2, <2>3, SMTT(30)
    <3> QED BY <2>3, <3>1, SMTT(30) DEF LoadQuad
  <2>6. b - p = a - offset
    <3> HIDE DEF f, p, q, r
    <3> QED BY <1>1, <1>2, SMTT(30)
  <2>7. (b - p \in 0 .. (Words(t) - 1)) <=> (a \in offset .. (offset + Words(t) - 1))
    <3> HIDE DEF b, p
    <3> QED BY <1>1, <2>3, <2>6, SMTT(30)
  <2> QED BY <2>2, <2>4, <2>5, <2>6, <2>7, SMTT(30) DEF WordOf
<1>5. CASE q \notin f .. (f + n - 1)
  <2>1. q \in DOMAIN region /\ W[q] = region[q]
    BY <1>3, <1>5, SMTT(30) DEF Write, StoreQuad, IsType
  <2>2. a \notin offset .. (offset + Words(t) - 1)
    <3> HIDE DEF f, n, p, q, r
    <3> QED BY <1>1, <1>2, <1>5, SMTT(30)
  <2> QED BY <2>1, <2>2, SMTT(30) DEF WordOf
<1> QED BY <1>4, <1>5, SMTT(30)

-----------------------------------------------------------------------------
\* What write has written read finds again, whatever the slots held, and however
\* many of them the value straddles.
THEOREM ReadAfterWrite ==
  ASSUME NEW region, DOMAIN region \subseteq Nat,
         NEW t, IsType(t), t.size > 0, NEW offset \in Nat, NEW value
  PROVE  Read(Write(region, t, offset, value), t, offset) =
           Some([w \in 0 .. (Words(t) - 1) |-> value[w]])
<1> DEFINE f == FirstSlot(t, offset)
           n == NumberOfSlots(t, offset)
           W == Write(region, t, offset, value)
<1>1. AllSet(W, f, n)
  <2>1. DOMAIN W = DOMAIN region \cup f .. (f + n - 1)
    BY SlotsAfterWrite, Zenon DEF IsType
  <2> QED BY <2>1, SMTT(30) DEF AllSet
<1>2. Read(W, t, offset) = Some([w \in 0 .. (Words(t) - 1) |-> WordOf(W, offset + w)])
  BY <1>1, ReadWords, SMTT(30)
<1>3. Words(t) \in Nat /\ f \in Nat /\ n \in Nat /\ PlaceInSlot(offset) \in 0 .. 3
      /\ 4 * f + PlaceInSlot(offset) = offset /\ PlaceInSlot(offset) + Words(t) <= 4 * n
  BY SlotsCoverValue, SMTT(30)
<1>4. ASSUME NEW w \in 0 .. (Words(t) - 1)
      PROVE  WordOf(W, offset + w) = value[w]
  <2>1. (offset + w) \div 4 \in f .. (f + n - 1)
    <3> DEFINE p == PlaceInSlot(offset)
    <3>1. (p + w) \div 4 \in 0 .. (n - 1)
      <4> HIDE DEF f, n, p
      <4> QED BY <1>3, SMTT(30) DEF p
    <3>2. (offset + w) \div 4 = f + (p + w) \div 4
      <4> HIDE DEF f, n, p
      <4> QED BY <1>3, SMTT(30) DEF p
    <3> HIDE DEF f, n, p
    <3> QED BY <1>3, <3>1, <3>2, SMTT(30)
  <2>2. (offset + w) \div 4 \in DOMAIN W
    BY <1>1, <2>1, SMTT(30) DEF AllSet
  <2>3. /\ offset + w \in Nat /\ offset + w \in offset .. (offset + Words(t) - 1)
        /\ (offset + w) - offset = w
    BY <1>3, SMTT(30)
  <2> HIDE DEF W
  <2> QED BY <2>2, <2>3, WordsAfterWrite, SMTT(30) DEF W
<1> HIDE DEF W
<1>5. [w \in 0 .. (Words(t) - 1) |-> WordOf(W, offset + w)]
        = [w \in 0 .. (Words(t) - 1) |-> value[w]]
  BY <1>4, SMTT(30)
<1> QED BY <1>2, <1>5, Zenon DEF W

\* A write never disturbs a stored value whose words it does not overlap, though
\* it rewrites whole slots that both share.
THEOREM WriteKeepsOthers ==
  ASSUME NEW region, DOMAIN region \subseteq Nat,
         NEW t, IsType(t), t.size > 0, NEW offset \in Nat, NEW value,
         NEW u, IsType(u), u.size > 0, NEW other \in Nat,
         other + Words(u) <= offset \/ offset + Words(t) <= other,
         AllSet(region, FirstSlot(u, other), NumberOfSlots(u, other))
  PROVE  Read(Write(region, t, offset, value), u, other) = Read(region, u, other)
<1> DEFINE f == FirstSlot(u, other)
           n == NumberOfSlots(u, other)
           W == Write(region, t, offset, value)
<1>1. DOMAIN region \subseteq DOMAIN W
  <2>1. DOMAIN W = DOMAIN region \cup FirstSlot(t, offset) ..
                                       (FirstSlot(t, offset) + NumberOfSlots(t, offset) - 1)
    BY SlotsAfterWrite, Zenon DEF IsType
  <2> QED BY <2>1, SMTT(30)
<1>2. AllSet(W, f, n)
  BY <1>1, SMTT(30) DEF AllSet
<1>3. /\ Read(W, u, other) = Some([w \in 0 .. (Words(u) - 1) |-> WordOf(W, other + w)])
      /\ Read(region, u, other) = Some([w \in 0 .. (Words(u) - 1) |-> WordOf(region, other + w)])
  BY <1>2, ReadWords, SMTT(30)
<1>4. Words(u) \in Nat /\ f \in Nat /\ n \in Nat /\ PlaceInSlot(other) \in 0 .. 3
      /\ 4 * f + PlaceInSlot(other) = other /\ PlaceInSlot(other) + Words(u) <= 4 * n
  BY SlotsCoverValue, SMTT(30)
<1>5. Words(t) \in Nat
  BY SlotsCoverValue, SMTT(30)
<1>6. ASSUME NEW w \in 0 .. (Words(u) - 1)
      PROVE  WordOf(W, other + w) = WordOf(region, other + w)
  <2>1. (other + w) \div 4 \in f .. (f + n - 1)
    <3> DEFINE p == PlaceInSlot(other)
    <3>1. (p + w) \div 4 \in 0 .. (n - 1)
      <4> HIDE DEF f, n, p
      <4> QED BY <1>4, SMTT(30) DEF p
    <3>2. (other + w) \div 4 = f + (p + w) \div 4
      <4> HIDE DEF f, n, p
      <4> QED BY <1>4, SMTT(30) DEF p
    <3> HIDE DEF f, n, p
    <3> QED BY <1>4, <3>1, <3>2, SMTT(30)
  <2>2. (other + w) \div 4 \in DOMAIN region
    BY <2>1, SMTT(30) DEF AllSet
  <2>3. other + w \in Nat /\ other + w \notin offset .. (offset + Words(t) - 1)
    BY <1>4, <1>5, SMTT(30)
  <2>4. (other + w) \div 4 \in DOMAIN W
    BY <1>1, <2>2, SMTT(30)
  <2> HIDE DEF W
  <2> QED BY <2>2, <2>3, <2>4, WordsAfterWrite, SMTT(30) DEF W
<1> HIDE DEF W
<1>7. [w \in 0 .. (Words(u) - 1) |-> WordOf(W, other + w)]
        = [w \in 0 .. (Words(u) - 1) |-> WordOf(region, other + w)]
  BY <1>6, SMTT(30)
<1> QED BY <1>3, <1>7, Zenon DEF W

-----------------------------------------------------------------------------
\* offset_calculator gives element i the words from i * Words(t) on.
LEMMA OffsetIsWords ==
  ASSUME NEW t, IsType(t), NEW i \in Nat
  PROVE  OffsetCalculator(t, i) = i * Words(t) /\ i * Words(t) \in Nat /\ Words(t) \in Nat
<1>1. t.size \in Nat
  BY SMTT(30) DEF IsType
<1>2. Words(t) \in Nat /\ (t.size + 7) - ((t.size + 7) % 8) = 8 * Words(t)
  BY <1>1, SMTT(30) DEF Words
<1> DEFINE k == Words(t)
<1>3. i * (8 * k) = 8 * (i * k) /\ i * k \in Nat
  <2>1. k \in Nat
    BY <1>2, SMTT(30)
  <2> HIDE DEF k
  <2> QED BY <2>1, SMTT(30)
<1>4. (8 * (i * k)) \div 8 = i * k
  <2> DEFINE m == i * k
  <2>1. m \in Nat
    BY <1>3, SMTT(30)
  <2> HIDE DEF m
  <2>2. (8 * m) \div 8 = m
    BY <2>1, SMTT(30)
  <2> QED BY <2>2, SMTT(30) DEF m
<1> QED BY <1>2, <1>3, <1>4, SMTT(30) DEF OffsetCalculator

\* Elements of different index share no word.
LEMMA ElementsApart ==
  ASSUME NEW t, IsType(t), NEW i \in Nat, NEW j \in Nat, i < j
  PROVE  OffsetCalculator(t, i) + Words(t) <= OffsetCalculator(t, j)
<1> DEFINE k == Words(t)
<1>1. k \in Nat /\ OffsetCalculator(t, i) = i * k /\ OffsetCalculator(t, j) = j * k
  BY OffsetIsWords, SMTT(30)
<1>2. PICK d \in Nat : j = i + 1 + d
  <2>1. j - i - 1 \in Nat /\ j = i + 1 + (j - i - 1)
    BY SMTT(30)
  <2> QED BY <2>1, SMTT(30)
<1>3. j * k = i * k + k + d * k /\ d * k \in Nat /\ i * k \in Nat
  <2> HIDE DEF k
  <2> QED BY <1>1, <1>2, SMTT(30)
<1> QED BY <1>1, <1>3, SMTT(30)

\* Writing one element of a StorageVec leaves every other element that is stored
\* as it was: push, set, fill and the copies of insert, remove and reverse reach
\* the neighbours of an element in no slot, for every element type.
THEOREM ElementWritesAreLocal ==
  ASSUME NEW region, DOMAIN region \subseteq Nat,
         NEW t, IsType(t), t.size > 0, NEW i \in Nat, NEW j \in Nat, i # j, NEW value,
         AllSet(region, FirstSlot(t, OffsetCalculator(t, j)),
                        NumberOfSlots(t, OffsetCalculator(t, j)))
  PROVE  Read(Write(region, t, OffsetCalculator(t, i), value), t, OffsetCalculator(t, j))
           = Read(region, t, OffsetCalculator(t, j))
<1>1. OffsetCalculator(t, i) \in Nat /\ OffsetCalculator(t, j) \in Nat
  BY OffsetIsWords, SMTT(30)
<1>2. i < j \/ j < i
  BY SMTT(30)
<1>3. \/ OffsetCalculator(t, j) + Words(t) <= OffsetCalculator(t, i)
      \/ OffsetCalculator(t, i) + Words(t) <= OffsetCalculator(t, j)
  BY <1>2, ElementsApart, SMTT(30)
<1> QED BY <1>1, <1>3, WriteKeepsOthers, SMTT(30)

-----------------------------------------------------------------------------
(* One element of a vector in its region, as element i of a type t.         *)

\* The element, and the slots it lies in.
ElemAt(R, t, i) == Read(R, t, OffsetCalculator(t, i))
SlotsAt(t, i) ==
  LET f == FirstSlot(t, OffsetCalculator(t, i))
  IN  f .. (f + NumberOfSlots(t, OffsetCalculator(t, i)) - 1)
\* What an element that was written is: nothing, for a type without size.
HoldsOf(t, v) == IF t.size = 0 THEN None ELSE Some(v)

\* An element is there, or it has slots of its own and none of them is set:
\* never does an element share the slots of one that was cleared.
InOrder(R, t, i) ==
  \/ t.size = 0
  \/ ElemAt(R, t, i) # None
  \/ t.size % 32 = 0 /\ SlotsAt(t, i) \cap DOMAIN R = {}

\* The elements of the indices D are e, and are in order.
Content(R, t, D, e) ==
  /\ DOMAIN R \subseteq Nat
  /\ \A i \in D : ElemAt(R, t, i) = e[i] /\ InOrder(R, t, i)

\* An option that holds something is not None.
LEMMA NotNone ==
  ASSUME NEW x PROVE Some(x) # None /\ Some(x)[1] = x
  BY SMTT(30) DEF Some, None

\* What read finds is a value, and it finds one where all slots are set.
LEMMA ReadFinds ==
  ASSUME NEW R, NEW t, IsType(t), NEW o \in Nat
  PROVE  /\ Read(R, t, o) # None <=> t.size # 0 /\ AllSet(R, FirstSlot(t, o), NumberOfSlots(t, o))
         /\ Read(R, t, o) # None => IsValue(t, Read(R, t, o)[1]) /\ Read(R, t, o) = Some(Read(R, t, o)[1])
<1> DEFINE v == [w \in 0 .. (Words(t) - 1) |->
                   LoadQuad(R, FirstSlot(t, o), NumberOfSlots(t, o))[PlaceInSlot(o) + w]]
<1>1. Read(R, t, o) = IF t.size = 0 THEN None
                      ELSE IF AllSet(R, FirstSlot(t, o), NumberOfSlots(t, o)) THEN Some(v) ELSE None
  BY Zenon DEF Read
<1>2. IsValue(t, v)
  BY Zenon DEF IsValue
<1> HIDE DEF v
<1> QED
  BY <1>1, <1>2, NotNone, Zenon

\* An element is there exactly if all its slots are set, and then it is a value.
LEMMA ElemFound ==
  ASSUME NEW R, NEW t, IsType(t), NEW i \in Nat
  PROVE  /\ ElemAt(R, t, i) # None <=> t.size # 0 /\ SlotsAt(t, i) \subseteq DOMAIN R
         /\ ElemAt(R, t, i) # None => IsValue(t, ElemAt(R, t, i)[1])
                                      /\ ElemAt(R, t, i) = Some(ElemAt(R, t, i)[1])
<1>1. OffsetCalculator(t, i) \in Nat
  BY OffsetIsWords, Zenon
<1> QED
  BY <1>1, ReadFinds, Zenon DEF ElemAt, SlotsAt, AllSet

\* Elements of whole slots share none.
LEMMA OwnSlots ==
  ASSUME NEW t, IsType(t), t.size > 0, t.size % 32 = 0, NEW i \in Nat, NEW j \in Nat, i # j
  PROVE  SlotsAt(t, i) \cap SlotsAt(t, j) = {}
<1>1. ASSUME NEW a \in Nat, NEW b \in Nat, a < b
      PROVE  \A s \in SlotsAt(t, a), u \in SlotsAt(t, b) : s < u
  <2> DEFINE o == OffsetCalculator(t, a)
             q == OffsetCalculator(t, b)
             m == t.size \div 32
             z == t.size
  <2>0. z \in Nat /\ z > 0 /\ z % 32 = 0 /\ (~t.ref => z <= 8)
    BY SMTT(30) DEF IsType
  <2>1. m \in Nat /\ z = 32 * m /\ m > 0
    BY <2>0, SMTT(30)
  <2>2. Words(t) = 4 * m
    BY <2>0, <2>1, SMTT(30) DEF Words
  <2>3. o = a * Words(t) /\ q = b * Words(t) /\ o \in Nat /\ q \in Nat /\ o + Words(t) <= q
    BY <1>1, OffsetIsWords, ElementsApart, Zenon
  <2>4. a * (4 * m) = 4 * (a * m) /\ b * (4 * m) = 4 * (b * m) /\ a * m \in Nat /\ b * m \in Nat
    <3> HIDE DEF m
    <3> QED BY <2>1, SMTT(30)
  <2>5. PICK x \in Nat, y \in Nat : o = 4 * x /\ q = 4 * y
    BY <2>2, <2>3, <2>4, Zenon
  <2>6. t.ref
    BY <2>0, SMTT(30) DEF IsType
  <2>7. FirstSlot(t, o) = x /\ NumberOfSlots(t, o) = m /\ FirstSlot(t, q) = y /\ NumberOfSlots(t, q) = m
    <3>1. PlaceInSlot(o) = 0 /\ PlaceInSlot(q) = 0
      BY <2>5, SMTT(30) DEF PlaceInSlot
    <3>2. NumberOfSlots(t, o) = m /\ NumberOfSlots(t, q) = m
      <4>1. NumberOfSlots(t, o) = (0 * 8 + z + 31) \div 32 /\ NumberOfSlots(t, q) = (0 * 8 + z + 31) \div 32
        BY <2>6, <3>1, Zenon DEF NumberOfSlots
      <4>2. (0 * 8 + z + 31) \div 32 = m
        <5> HIDE DEF z, m
        <5> QED BY <2>1, SMTT(30)
      <4> QED BY <4>1, <4>2, Zenon
    <3>3. LastSlot(t, o) = x + m /\ LastSlot(t, q) = y + m
      BY <2>1, <2>5, SMTT(30) DEF LastSlot
    <3> QED BY <2>1, <3>2, <3>3, SMTT(30) DEF FirstSlot
  <2>8. x + m <= y
    BY <2>1, <2>2, <2>3, <2>5, SMTT(30)
  <2>9. SlotsAt(t, a) = x .. (x + m - 1) /\ SlotsAt(t, b) = y .. (y + m - 1)
    BY <2>7, Zenon DEF SlotsAt
  <2> QED BY <2>1, <2>8, <2>9, SMTT(30)
<1>2. SlotsAt(t, i) \subseteq Int /\ SlotsAt(t, j) \subseteq Int
  BY SMTT(30) DEF SlotsAt
<1>3. i < j \/ j < i
  BY SMTT(30)
<1> QED
  BY <1>1, <1>2, <1>3, SMTT(30)

\* write and one element: it is there, the others stay what they are.
ElemPut(R, t, i, v, R2) ==
  /\ DOMAIN R2 \subseteq Nat
  /\ ElemAt(R2, t, i) = HoldsOf(t, v) /\ InOrder(R2, t, i)
  /\ \A j \in Nat \ {i} : InOrder(R, t, j) =>
        ElemAt(R2, t, j) = ElemAt(R, t, j) /\ InOrder(R2, t, j)

\* A write to an element of a vector: the elements that are in order stay so.
LEMMA ElemWritten ==
  ASSUME NEW R, DOMAIN R \subseteq Nat, NEW t, IsType(t), NEW i \in Nat, NEW v, IsValue(t, v)
  PROVE  ElemPut(R, t, i, v, Write(R, t, OffsetCalculator(t, i), v))
<1> DEFINE o == OffsetCalculator(t, i)
           R2 == Write(R, t, o, v)
<1>0. o \in Nat /\ t.size \in Nat
  BY OffsetIsWords, Zenon DEF IsType
<1>1. CASE t.size = 0
  <2>1. R2 = R
    BY <1>1, Zenon DEF Write
  <2>2. \A j : ElemAt(R, t, j) = None /\ InOrder(R, t, j)
    BY <1>1, Zenon DEF ElemAt, Read, InOrder
  <2> QED
    BY <1>1, <2>1, <2>2, Zenon DEF ElemPut, HoldsOf
<1>2. CASE t.size # 0
  <2>0. t.size > 0
    BY <1>0, <1>2, SMTT(30)
  <2>1. DOMAIN R2 = DOMAIN R \cup SlotsAt(t, i)
    BY <1>0, <2>0, SlotsAfterWrite, Zenon DEF SlotsAt
  <2>2. SlotsAt(t, i) \subseteq Nat
    BY <1>0, <2>0, SlotsCoverValue, SMTT(30) DEF SlotsAt
  <2>3. ElemAt(R2, t, i) = Some(v)
    <3>1. Read(R2, t, o) = Some([w \in 0 .. (Words(t) - 1) |-> v[w]])
      BY <1>0, <2>0, ReadAfterWrite, SMTT(30)
    <3>2. [w \in 0 .. (Words(t) - 1) |-> v[w]] = v
      BY Zenon DEF IsValue
    <3> QED
      BY <3>1, <3>2, Zenon DEF ElemAt
  <2>4. ASSUME NEW j \in Nat, j # i, InOrder(R, t, j)
        PROVE  ElemAt(R2, t, j) = ElemAt(R, t, j) /\ InOrder(R2, t, j)
    <3>1. CASE ElemAt(R, t, j) # None
      <4>1. AllSet(R, FirstSlot(t, OffsetCalculator(t, j)), NumberOfSlots(t, OffsetCalculator(t, j)))
        BY <3>1, ElemFound, Zenon DEF SlotsAt, AllSet
      <4>2. ElemAt(R2, t, j) = ElemAt(R, t, j)
        <5>1. i # j
          BY <2>4, SMTT(30)
        <5> QED
          BY <2>0, <4>1, <5>1, ElementWritesAreLocal, SMTT(30) DEF ElemAt
      <4> QED
        BY <3>1, <4>2, Zenon DEF InOrder
    <3>2. CASE ElemAt(R, t, j) = None
      <4>1. t.size % 32 = 0 /\ SlotsAt(t, j) \cap DOMAIN R = {}
        BY <1>2, <2>4, <3>2, Zenon DEF InOrder
      <4>2. SlotsAt(t, j) \cap DOMAIN R2 = {}
        BY <2>0, <2>1, <2>4, <4>1, OwnSlots, Zenon
      <4>3. ElemAt(R2, t, j) = None
        <5>1. \E s : s \in SlotsAt(t, j)
          <6>1. OffsetCalculator(t, j) \in Nat
            BY OffsetIsWords, Zenon
          <6>2. FirstSlot(t, OffsetCalculator(t, j)) \in Nat
                /\ NumberOfSlots(t, OffsetCalculator(t, j)) \in Nat \ {0}
            BY <2>0, <6>1, SlotsCoverValue, Zenon
          <6>3. FirstSlot(t, OffsetCalculator(t, j)) \in SlotsAt(t, j)
            BY <6>2, SMTT(30) DEF SlotsAt
          <6> QED BY <6>3, Zenon
        <5> QED
          BY <4>2, <5>1, ElemFound, Zenon
      <4> QED
        BY <3>2, <4>1, <4>2, <4>3, Zenon DEF InOrder
    <3> QED
      BY <3>1, <3>2, Zenon
  <2>5. InOrder(R2, t, i)
    BY <2>3, NotNone, Zenon DEF InOrder
  <2>6. DOMAIN R2 \subseteq Nat
    BY <2>1, <2>2, Zenon
  <2> HIDE DEF R2
  <2>7. ElemPut(R, t, i, v, R2)
    BY <1>2, <2>3, <2>4, <2>5, <2>6, Zenon DEF ElemPut, HoldsOf
  <2> QED
    BY <2>7, Zenon DEF R2
<1> QED
  BY <1>1, <1>2, Zenon

\* e2 on D2 is e on D with x for i.
Patched(D, e, i, x, D2, e2) ==
  D2 \subseteq D \cup {i} /\ \A j \in D2 : e2[j] = IF j = i THEN x ELSE e[j]

\* The content of the region after a write of an element.
LEMMA ContentPut ==
  ASSUME NEW R, NEW R2, NEW t, NEW i \in Nat, NEW v, ElemPut(R, t, i, v, R2),
         NEW D \in SUBSET Nat, NEW e, Content(R, t, D, e),
         NEW D2, NEW e2, Patched(D, e, i, HoldsOf(t, v), D2, e2)
  PROVE  Content(R2, t, D2, e2)
  BY Zenon DEF ElemPut, Content, Patched

-----------------------------------------------------------------------------
(* The regions of the storage, and the lengths kept in two of them.        *)

\* Slot numbers are natural.
IsStore(st) == st = [r \in Regions |-> st[r]] /\ \A r \in Regions : DOMAIN st[r] \subseteq Nat

\* No two regions are the same: field ids and hashes never meet.
LEMMA RegionsApart ==
  /\ VecField \in Regions /\ VecData \in Regions /\ SliceField \in Regions /\ SliceData \in Regions
  /\ VecField # VecData /\ VecField # SliceField /\ VecField # SliceData
  /\ VecData # SliceField /\ VecData # SliceData /\ SliceField # SliceData
  /\ \A k \in MapKeys : /\ MapSlot(k) \in Regions
                        /\ MapSlot(k) # VecField /\ MapSlot(k) # VecData
                        /\ MapSlot(k) # SliceField /\ MapSlot(k) # SliceData
  /\ \A k, m \in MapKeys : MapSlot(k) = MapSlot(m) => k = m
<1>1. /\ VecField \in Regions /\ VecData \in Regions /\ SliceField \in Regions /\ SliceData \in Regions
      /\ \A k \in MapKeys : MapSlot(k) \in Regions
  BY Zenon DEF Regions
<1>2. /\ VecField # VecData /\ VecField # SliceField /\ VecField # SliceData
      /\ VecData # SliceField /\ VecData # SliceData /\ SliceField # SliceData
  BY SMTT(30) DEF VecField, VecData, SliceField, SliceData
<1>3. \A k : /\ MapSlot(k) # VecField /\ MapSlot(k) # VecData
             /\ MapSlot(k) # SliceField /\ MapSlot(k) # SliceData
  BY SMTT(30) DEF VecField, VecData, SliceField, SliceData, MapSlot
<1>4. \A k, m : MapSlot(k) = MapSlot(m) => k = m
  BY SMTT(30) DEF MapSlot
<1> QED
  BY <1>1, <1>2, <1>3, <1>4, Zenon

\* st2 is st with R for the region r.
Replaced(st, r, R, st2) ==
  IsStore(st2) /\ st2[r] = R /\ \A q \in Regions : q # r => st2[q] = st[q]

\* A call that replaces one region leaves the others.
LEMMA StorePut ==
  ASSUME NEW st, IsStore(st), NEW r \in Regions, NEW R, DOMAIN R \subseteq Nat,
         NEW st2, st2 = [st EXCEPT ![r] = R]
  PROVE  Replaced(st, r, R, st2)
  BY Zenon DEF IsStore, Replaced

\* write of a length, and its read.
LEMMA LenWritten ==
  ASSUME NEW st, IsStore(st), NEW key \in Regions, NEW n, NEW st2, st2 = WithLen(st, key, n)
  PROVE  /\ IsStore(st2) /\ LenAt(st2, key) = n
         /\ \A r \in Regions : r # key => st2[r] = st[r]
<1> DEFINE v == [w \in {0} |-> n]
           R == Write(st[key], U64, 0, v)
<1>1. IsType(U64) /\ U64.size = 8 /\ U64.size > 0 /\ U64.size # 0 /\ 0 \in Nat
  BY SMTT(30) DEF U64, IsType
<1>2. Words(U64) = 1
  BY <1>1, SMTT(30) DEF Words
<1>3. DOMAIN st[key] \subseteq Nat
  BY Zenon DEF IsStore
<1>4. Read(R, U64, 0) = Some([w \in 0 .. (Words(U64) - 1) |-> v[w]])
  BY <1>1, <1>3, ReadAfterWrite, SMTT(30)
<1>5. Read(R, U64, 0) # None /\ Read(R, U64, 0)[1][0] = n
  <2> DEFINE x == [w \in 0 .. (Words(U64) - 1) |-> v[w]]
  <2>1. x[0] = n
    BY <1>2, SMTT(30)
  <2>2. Read(R, U64, 0) = Some(x)
    BY <1>4, Zenon
  <2> HIDE DEF x, R
  <2> QED BY <2>1, <2>2, NotNone, Zenon
<1>6. DOMAIN R \subseteq Nat
  <2>1. FirstSlot(U64, 0) \in Nat /\ NumberOfSlots(U64, 0) \in Nat
    BY <1>1, SlotsCoverValue, Zenon
  <2>2. DOMAIN R = DOMAIN st[key] \cup FirstSlot(U64, 0) .. (FirstSlot(U64, 0) + NumberOfSlots(U64, 0) - 1)
    <3> HIDE DEF v
    <3>1. U64.size \in Nat
      BY <1>1, Zenon DEF IsType
    <3> QED BY <1>1, <3>1, SlotsAfterWrite, Zenon
  <2> HIDE DEF R
  <2> QED BY <1>3, <2>1, <2>2, SMTT(30)
<1>7. st2 = [st EXCEPT ![key] = R]
  BY Zenon DEF WithLen
<1> HIDE DEF R
<1>8. Replaced(st, key, R, st2)
  BY <1>6, <1>7, StorePut, Zenon
<1> QED
  BY <1>5, <1>8, Zenon DEF LenAt, Replaced, R

-----------------------------------------------------------------------------
(* Induction, from the least counterexample.                               *)

\* A set of numbers that is not empty has a least one.
LEMMA LeastNatural ==
  ASSUME NEW T \in SUBSET Nat, T # {}
  PROVE  \E x \in T : \A y \in T : x <= y
<1>1. PICK x \in T : \A y \in T : ~(<<y, x>> \in OpToRel(<, Nat))
  BY NatLessThanWellFounded, WFMin, Zenon
<1>2. \A y \in T : ~(y < x)
  BY <1>1, Zenon DEF OpToRel
<1> QED
  BY <1>2, SMTT(30)

\* Induction up to N.
LEMMA UpTo ==
  ASSUME NEW N \in Nat, NEW S, 0 \in S, \A n \in 1 .. N : n - 1 \in S => n \in S
  PROVE  N \in S
<1> DEFINE T == {n \in Nat : n <= N /\ n \notin S}
<1> SUFFICES ASSUME N \notin S PROVE FALSE
  BY Zenon
<1>1. N \in T
  BY SMTT(30)
<1>2. PICK n \in T : \A m \in T : n <= m
  BY <1>1, LeastNatural, Zenon
<1>3. n # 0
  BY <1>2, Zenon
<1>4. n \in 1 .. N /\ n - 1 \in Nat /\ n - 1 <= N /\ ~(n <= n - 1)
  BY <1>2, <1>3, SMTT(30)
<1>5. n - 1 \in S
  BY <1>2, <1>4, Zenon
<1> QED
  BY <1>2, <1>4, <1>5, Zenon

-----------------------------------------------------------------------------
(* A call on the vector changes the elements' region, then the length.     *)

\* st differs from store in the elements of the vector only; those of D are e.
Keeping(st, D, e) ==
  /\ IsStore(st)
  /\ \A r \in Regions : r # VecData => st[r] = store[r]
  /\ Content(st[VecData], type, D, e)

\* The call so far: unless it reverts, ok, the elements of D are e.
Outcome(acc, ok, D, e) ==
  IF ok THEN acc # None /\ acc = Some(acc[1]) /\ Keeping(acc[1], D, e) ELSE acc = None

\* A call that did not revert so far.
LEMMA OutcomeOf ==
  ASSUME NEW st, NEW D, NEW e, Keeping(st, D, e), NEW acc, acc = Some(st), NEW ok, ok
  PROVE  Outcome(acc, ok, D, e)
  BY NotNone, Zenon DEF Outcome

\* A write of an element in a call on the vector.
LEMMA KeepingPut ==
  ASSUME IsType(type), NEW st, NEW D \in SUBSET Nat, NEW e, Keeping(st, D, e),
         NEW i \in Nat, NEW v, IsValue(type, v), NEW st2, st2 = WithElem(st, i, v),
         NEW D2, NEW e2, Patched(D, e, i, HoldsOf(type, v), D2, e2)
  PROVE  Keeping(st2, D2, e2)
<1> DEFINE R == st[VecData]
           R2 == Write(R, type, OffsetCalculator(type, i), v)
<1>1. IsStore(st) /\ VecData \in Regions /\ DOMAIN R \subseteq Nat /\ Content(R, type, D, e)
  BY RegionsApart, Zenon DEF Keeping, IsStore
<1>2. ElemPut(R, type, i, v, R2)
  BY <1>1, ElemWritten, Zenon
<1>3. st2 = [st EXCEPT ![VecData] = R2]
  BY Zenon DEF WithElem
<1> HIDE DEF R, R2
<1>4. DOMAIN R2 \subseteq Nat
  BY <1>2, Zenon DEF ElemPut
<1>5. Replaced(st, VecData, R2, st2)
  BY <1>1, <1>3, <1>4, StorePut, Zenon
<1>6. Content(R2, type, D2, e2)
  BY <1>1, <1>2, ContentPut, Zenon
<1> QED
  BY <1>1, <1>5, <1>6, Zenon DEF Keeping, Replaced

\* A read of an element in a call on the vector: what is there is a value.
LEMMA KeepingRead ==
  ASSUME IsType(type), NEW st, NEW D \in SUBSET Nat, NEW e, Keeping(st, D, e), NEW i \in D
  PROVE  /\ Elem(st, i) = e[i]
         /\ e[i] # None => /\ IsValue(type, e[i][1]) /\ HoldsOf(type, e[i][1]) = e[i]
                           /\ e[i] = Some(e[i][1])
<1>1. Elem(st, i) = ElemAt(st[VecData], type, i)
  BY Zenon DEF Elem, ElemAt
<1>2. ElemAt(st[VecData], type, i) = e[i]
  BY Zenon DEF Keeping, Content
<1>3. i \in Nat
  BY Zenon
<1> QED
  BY <1>1, <1>2, <1>3, ElemFound, Zenon DEF HoldsOf

\* A copy: it reverts if the element is not there, else the target becomes it.
LEMMA CopiedStep ==
  ASSUME IsType(type), NEW acc, NEW D \in SUBSET Nat, NEW e, Outcome(acc, TRUE, D, e),
         NEW from \in D, NEW to \in Nat,
         NEW D2, NEW e2, Patched(D, e, to, e[from], D2, e2)
  PROVE  Outcome(Copied(acc, from, to), e[from] # None, D2, e2)
<1> DEFINE st == acc[1]
<1>1. acc # None /\ Keeping(st, D, e)
  BY Zenon DEF Outcome
<1>2. Elem(st, from) = e[from]
  BY <1>1, KeepingRead, SMTT(30)
<1>3. Copied(acc, from, to) = IF e[from] = None THEN None ELSE Some(WithElem(st, to, e[from][1]))
  BY <1>1, <1>2, Zenon DEF Copied
<1>4. CASE e[from] = None
  BY <1>3, <1>4, Zenon DEF Outcome
<1>5. CASE e[from] # None
  <2> DEFINE v == e[from][1]
             st2 == WithElem(st, to, v)
  <2>1. IsValue(type, v) /\ HoldsOf(type, v) = e[from]
    BY <1>1, <1>5, KeepingRead, SMTT(30)
  <2>2. Patched(D, e, to, HoldsOf(type, v), D2, e2)
    BY <2>1, Zenon
  <2> HIDE DEF v
  <2>3. Keeping(st2, D2, e2)
    BY <1>1, <2>1, <2>2, KeepingPut, Zenon
  <2>4. Copied(acc, from, to) = Some(st2)
    BY <1>3, <1>5, Zenon DEF v
  <2> HIDE DEF st2
  <2> QED BY <1>5, <2>3, <2>4, OutcomeOf, Zenon
<1> QED
  BY <1>4, <1>5, Zenon

\* e2 on D is e with i and j changing places.
Swapped(D, e, i, j, e2) ==
  \A k \in D : e2[k] = IF k = i THEN e[j] ELSE IF k = j THEN e[i] ELSE e[k]

\* An exchange: it reverts unless both elements are there.
LEMMA ExchangedStep ==
  ASSUME IsType(type), NEW acc, NEW D \in SUBSET Nat, NEW e, Outcome(acc, TRUE, D, e),
         NEW i \in D, NEW j \in D, i # j, NEW e2, Swapped(D, e, i, j, e2)
  PROVE  Outcome(Exchanged(acc, i, j), e[i] # None /\ e[j] # None, D, e2)
<1> DEFINE half == Copied(acc, j, i)
           e1 == [k \in D |-> IF k = i THEN e[j] ELSE e[k]]
           st == acc[1]
<1>1. acc # None /\ Keeping(st, D, e) /\ i \in Nat /\ j \in Nat
  BY Zenon DEF Outcome
<1>2. Elem(st, i) = e[i]
  BY <1>1, KeepingRead, SMTT(30)
<1>3. Outcome(half, e[j] # None, D, e1)
  <2>1. Patched(D, e, i, e[j], D, e1)
    BY Zenon DEF Patched
  <2> HIDE DEF e1
  <2> QED BY <1>1, <2>1, CopiedStep, Zenon
<1>4. Exchanged(acc, i, j) = IF e[i] = None \/ half = None THEN None
                             ELSE Some(WithElem(half[1], j, e[i][1]))
  BY <1>1, <1>2, Zenon DEF Exchanged
<1>5. CASE ~(e[i] # None /\ e[j] # None)
  BY <1>3, <1>4, <1>5, Zenon DEF Outcome
<1>6. CASE e[i] # None /\ e[j] # None
  <2> DEFINE v == e[i][1]
             st2 == WithElem(half[1], j, v)
  <2>1. half # None /\ Keeping(half[1], D, e1)
    BY <1>3, <1>6, Zenon DEF Outcome
  <2>2. IsValue(type, v) /\ HoldsOf(type, v) = e[i]
    BY <1>1, <1>6, KeepingRead, SMTT(30)
  <2>3. Patched(D, e1, j, HoldsOf(type, v), D, e2)
    BY <2>2, Zenon DEF Patched, Swapped
  <2>5. Exchanged(acc, i, j) = Some(st2)
    BY <1>4, <1>6, <2>1, Zenon
  <2> HIDE DEF v, e1, half
  <2>6. Keeping(st2, D, e2)
    BY <1>1, <2>1, <2>2, <2>3, KeepingPut, Zenon
  <2> HIDE DEF st2
  <2> QED BY <1>6, <2>5, <2>6, OutcomeOf, Zenon
<1> QED
  BY <1>5, <1>6, Zenon

-----------------------------------------------------------------------------
(* The loops: what has been done after each round.                         *)

\* a is what the rounds of the loop leave, one after the other.
MoveRounds(moves, k, a) ==
  a = [n \in 0 .. k |-> IF n = 0 THEN Some(store) ELSE Copied(a[n - 1], moves[n][1], moves[n][2])]

\* The loop of copies is its rounds.
LEMMA MovedRounds ==
  ASSUME NEW moves, NEW k \in Nat, Len(moves) = k
  PROVE  \E a : MoveRounds(moves, k, a) /\ Moved(moves) = a[k]
<1> DEFINE S == {n \in Nat : \E a : MoveRounds(moves, n, a)}
<1>1. 0 \in S
  <2> DEFINE a == [n \in 0 .. 0 |-> Some(store)]
  <2>1. MoveRounds(moves, 0, a)
    BY SMTT(30) DEF MoveRounds
  <2> HIDE DEF a
  <2> QED BY <2>1, SMTT(30)
<1>2. ASSUME NEW n \in 1 .. k, n - 1 \in S PROVE n \in S
  <2>1. PICK b : MoveRounds(moves, n - 1, b)
    BY <1>2, Zenon
  <2> DEFINE a == [m \in 0 .. n |-> IF m < n THEN b[m] ELSE Copied(b[n - 1], moves[n][1], moves[n][2])]
  <2>2. ASSUME NEW m \in 0 .. n
        PROVE  a[m] = IF m = 0 THEN Some(store) ELSE Copied(a[m - 1], moves[m][1], moves[m][2])
    <3>1. CASE m = n
      <4>1. m # 0 /\ n - 1 \in 0 .. n /\ n - 1 < n /\ ~(n < n)
        BY <3>1, SMTT(30)
      <4>2. a[n - 1] = b[n - 1]
        BY <4>1, Zenon
      <4> QED BY <3>1, <4>1, <4>2, Zenon
    <3>2. CASE m # n
      <4>1. m < n /\ m \in 0 .. (n - 1) /\ (m # 0 => m - 1 < n /\ m - 1 \in 0 .. n)
        BY <3>2, SMTT(30)
      <4>2. b[m] = IF m = 0 THEN Some(store) ELSE Copied(b[m - 1], moves[m][1], moves[m][2])
        BY <2>1, <4>1, Zenon DEF MoveRounds
      <4>3. a[m] = b[m] /\ (m # 0 => a[m - 1] = b[m - 1])
        BY <4>1, Zenon
      <4> QED BY <4>2, <4>3, Zenon
    <3> QED BY <3>1, <3>2, Zenon
  <2>3. MoveRounds(moves, n, a)
    <3>1. a = [m \in 0 .. n |-> a[m]]
      BY Zenon
    <3> HIDE DEF a
    <3> QED BY <2>2, <3>1, Zenon DEF MoveRounds
  <2>4. n \in Nat
    BY SMTT(30)
  <2> HIDE DEF a
  <2> QED BY <2>3, <2>4, Zenon
<1>3. k \in S
  <2> HIDE DEF S
  <2> QED BY <1>1, <1>2, UpTo, Zenon
<1>4. \E a : MoveRounds(moves, k, a)
  BY <1>3, Zenon
<1> DEFINE f == CHOOSE a : MoveRounds(moves, k, a)
<1>5. MoveRounds(moves, k, f)
  BY <1>4, Zenon
<1>6. Moved(moves) = f[k]
  BY Zenon DEF Moved, MoveRounds
<1> HIDE DEF f
<1> QED
  BY <1>5, <1>6, Zenon

\* D[n] and c[n] are the elements that are kept, and what they are, after n rounds.
MovesTo(moves, k, D, c) ==
  \A n \in 1 .. k : /\ D[n - 1] \in SUBSET Nat /\ moves[n][1] \in D[n - 1] /\ moves[n][2] \in Nat
                    /\ Patched(D[n - 1], c[n - 1], moves[n][2], c[n - 1][moves[n][1]], D[n], c[n])

\* Is every element there that one of k rounds copies?
SourcesThere(moves, k, c) == \A n \in 1 .. k : c[n - 1][moves[n][1]] # None

\* The loop of copies: it reverts as soon as an element it copies is not there,
\* and otherwise the elements are what the rounds make them.
LEMMA MovedOutcome ==
  ASSUME IsType(type), NEW moves, NEW k \in Nat, Len(moves) = k,
         NEW D, NEW c, MovesTo(moves, k, D, c), Keeping(store, D[0], c[0])
  PROVE  Outcome(Moved(moves), SourcesThere(moves, k, c), D[k], c[k])
<1>1. PICK a : MoveRounds(moves, k, a) /\ Moved(moves) = a[k]
  BY MovedRounds, Zenon
<1> DEFINE S == {n \in Nat : Outcome(a[n], SourcesThere(moves, n, c), D[n], c[n])}
<1>2. 0 \in S
  <2>1. a[0] = Some(store)
    BY <1>1, SMTT(30) DEF MoveRounds
  <2>2. SourcesThere(moves, 0, c)
    BY SMTT(30) DEF SourcesThere
  <2>3. Outcome(a[0], SourcesThere(moves, 0, c), D[0], c[0])
    BY <2>1, <2>2, OutcomeOf, Zenon
  <2> QED BY <2>3, SMTT(30)
<1>3. ASSUME NEW n \in 1 .. k, n - 1 \in S PROVE n \in S
  <2> DEFINE src == moves[n][1]
             dst == moves[n][2]
             here == c[n - 1][src] # None
  <2>1. a[n] = Copied(a[n - 1], src, dst)
    BY <1>1, <1>3, SMTT(30) DEF MoveRounds
  <2>2. /\ D[n - 1] \in SUBSET Nat /\ src \in D[n - 1] /\ dst \in Nat
        /\ Patched(D[n - 1], c[n - 1], dst, c[n - 1][src], D[n], c[n])
    BY <1>3, Zenon DEF MovesTo
  <2>3. SourcesThere(moves, n, c) <=> SourcesThere(moves, n - 1, c) /\ here
    <3>1. \A m : m \in 1 .. n <=> m \in 1 .. (n - 1) \/ m = n
      BY <1>3, SMTT(30)
    <3> QED BY <3>1, Zenon DEF SourcesThere
  <2>4. Outcome(a[n - 1], SourcesThere(moves, n - 1, c), D[n - 1], c[n - 1])
    BY <1>3, Zenon
  <2>5. Outcome(a[n], SourcesThere(moves, n, c), D[n], c[n])
    <3>1. CASE SourcesThere(moves, n - 1, c)
      <4>1. Outcome(a[n - 1], TRUE, D[n - 1], c[n - 1])
        BY <2>4, <3>1, Zenon DEF Outcome
      <4> HIDE DEF src, dst
      <4>2. Outcome(Copied(a[n - 1], src, dst), c[n - 1][src] # None, D[n], c[n])
        BY <2>2, <4>1, CopiedStep, Zenon
      <4> QED BY <2>1, <2>3, <3>1, <4>2, Zenon DEF Outcome
    <3>2. CASE ~SourcesThere(moves, n - 1, c)
      <4>1. a[n - 1] = None
        BY <2>4, <3>2, Zenon DEF Outcome
      <4>2. a[n] = None
        BY <2>1, <4>1, Zenon DEF Copied
      <4> QED BY <2>3, <3>2, <4>2, Zenon DEF Outcome
    <3> QED BY <3>1, <3>2, Zenon
  <2>6. n \in Nat
    BY SMTT(30)
  <2> QED BY <2>5, <2>6, Zenon
<1>4. k \in S
  <2> HIDE DEF S
  <2> QED BY <1>2, <1>3, UpTo, Zenon
<1> QED
  BY <1>1, <1>4, Zenon

\* The same for the rounds of reverse.
ReverseRounds(k, a) ==
  a = [n \in 0 .. k |-> IF n = 0 THEN Some(store) ELSE Exchanged(a[n - 1], n - 1, len - n)]

\* The loop of reverse is its rounds.
LEMMA ReversedRounds ==
  ASSUME NEW k \in Nat, len \div 2 = k
  PROVE  \E a : ReverseRounds(k, a) /\ Reversed = a[k]
<1> DEFINE S == {n \in Nat : \E a : ReverseRounds(n, a)}
<1>1. 0 \in S
  <2> DEFINE a == [n \in 0 .. 0 |-> Some(store)]
  <2>1. ReverseRounds(0, a)
    BY SMTT(30) DEF ReverseRounds
  <2> HIDE DEF a
  <2> QED BY <2>1, SMTT(30)
<1>2. ASSUME NEW n \in 1 .. k, n - 1 \in S PROVE n \in S
  <2>1. PICK b : ReverseRounds(n - 1, b)
    BY <1>2, Zenon
  <2> DEFINE a == [m \in 0 .. n |-> IF m < n THEN b[m] ELSE Exchanged(b[n - 1], n - 1, len - n)]
  <2>2. ASSUME NEW m \in 0 .. n
        PROVE  a[m] = IF m = 0 THEN Some(store) ELSE Exchanged(a[m - 1], m - 1, len - m)
    <3>1. CASE m = n
      <4>1. m # 0 /\ n - 1 \in 0 .. n /\ n - 1 < n /\ ~(n < n)
        BY <3>1, SMTT(30)
      <4>2. a[n - 1] = b[n - 1]
        BY <4>1, Zenon
      <4> QED BY <3>1, <4>1, <4>2, Zenon
    <3>2. CASE m # n
      <4>1. m < n /\ m \in 0 .. (n - 1) /\ (m # 0 => m - 1 < n /\ m - 1 \in 0 .. n)
        BY <3>2, SMTT(30)
      <4>2. b[m] = IF m = 0 THEN Some(store) ELSE Exchanged(b[m - 1], m - 1, len - m)
        BY <2>1, <4>1, Zenon DEF ReverseRounds
      <4>3. a[m] = b[m] /\ (m # 0 => a[m - 1] = b[m - 1])
        BY <4>1, Zenon
      <4> QED BY <4>2, <4>3, Zenon
    <3> QED BY <3>1, <3>2, Zenon
  <2>3. ReverseRounds(n, a)
    <3>1. a = [m \in 0 .. n |-> a[m]]
      BY Zenon
    <3> HIDE DEF a
    <3> QED BY <2>2, <3>1, Zenon DEF ReverseRounds
  <2>4. n \in Nat
    BY SMTT(30)
  <2> HIDE DEF a
  <2> QED BY <2>3, <2>4, Zenon
<1>3. k \in S
  <2> HIDE DEF S
  <2> QED BY <1>1, <1>2, UpTo, Zenon
<1>4. \E a : ReverseRounds(k, a)
  BY <1>3, Zenon
<1> DEFINE f == CHOOSE a : ReverseRounds(k, a)
<1>5. ReverseRounds(k, f)
  BY <1>4, Zenon
<1>6. Reversed = f[k]
  BY Zenon DEF Reversed, ReverseRounds
<1> HIDE DEF f
<1> QED
  BY <1>5, <1>6, Zenon

\* The elements after n rounds of reverse.
ReversedBy(e, n) == [j \in Nat |-> IF j < n \/ j >= len - n THEN e[len - 1 - j] ELSE e[j]]

\* Are all elements there that n rounds of reverse exchange?
EndsThere(e, n) == \A m \in 1 .. n : e[m - 1] # None /\ e[len - m] # None

\* A round of reverse exchanges two elements no earlier round has touched.
LEMMA ReversedStep ==
  ASSUME len \in Nat, NEW n \in Nat, n > 0, 2 * n <= len, NEW e
  PROVE  /\ Swapped(0 .. (len - 1), ReversedBy(e, n - 1), n - 1, len - n, ReversedBy(e, n))
         /\ ReversedBy(e, n - 1)[n - 1] = e[n - 1] /\ ReversedBy(e, n - 1)[len - n] = e[len - n]
         /\ n - 1 \in 0 .. (len - 1) /\ len - n \in 0 .. (len - 1) /\ n - 1 # len - n
<1> DEFINE d == ReversedBy(e, n - 1)
           d2 == ReversedBy(e, n)
<1>1. n - 1 \in 0 .. (len - 1) /\ len - n \in 0 .. (len - 1) /\ n - 1 # len - n
  BY SMTT(30)
<1>2. \A j \in 0 .. (len - 1) :
         /\ d[j] = IF j < n - 1 \/ j >= len - (n - 1) THEN e[len - 1 - j] ELSE e[j]
         /\ d2[j] = IF j < n \/ j >= len - n THEN e[len - 1 - j] ELSE e[j]
  BY SMTT(30) DEF ReversedBy
<1> HIDE DEF d, d2
<1>3. d[n - 1] = e[n - 1] /\ d[len - n] = e[len - n]
  <2>1. ~(n - 1 < n - 1 \/ n - 1 >= len - (n - 1)) /\ ~(len - n < n - 1 \/ len - n >= len - (n - 1))
    BY SMTT(30)
  <2> QED BY <1>1, <1>2, <2>1, Zenon
<1>4. ASSUME NEW j \in 0 .. (len - 1)
      PROVE  d2[j] = IF j = n - 1 THEN d[len - n] ELSE IF j = len - n THEN d[n - 1] ELSE d[j]
  <2>1. CASE j = n - 1
    <3>1. len - 1 - j = len - n /\ j < n
      BY <2>1, SMTT(30)
    <3> QED BY <1>2, <1>3, <2>1, <3>1, Zenon
  <2>2. CASE j = len - n
    <3>1. len - 1 - j = n - 1 /\ j >= len - n
      BY <2>2, SMTT(30)
    <3> QED BY <1>1, <1>2, <1>3, <2>2, <3>1, Zenon
  <2>3. CASE j # n - 1 /\ j # len - n
    <3>1. (j < n <=> j < n - 1) /\ (j >= len - n <=> j >= len - (n - 1))
      BY <2>3, SMTT(30)
    <3> QED BY <1>2, <2>3, <3>1, Zenon
  <2> QED BY <2>1, <2>2, <2>3, Zenon
<1> QED
  BY <1>1, <1>3, <1>4, Zenon DEF Swapped, d, d2

\* The loop of reverse, up to the middle.
LEMMA ReversedOutcome ==
  ASSUME IsType(type), len \in Nat, NEW e, Keeping(store, 0 .. (len - 1), e),
         NEW k \in Nat, k = len \div 2
  PROVE  Outcome(Reversed, EndsThere(e, k), 0 .. (len - 1), ReversedBy(e, k))
<1>1. PICK a : ReverseRounds(k, a) /\ Reversed = a[k]
  BY ReversedRounds, Zenon
<1> DEFINE D == 0 .. (len - 1)
           S == {n \in Nat : Outcome(a[n], EndsThere(e, n), D, ReversedBy(e, n))}
<1>0. D \in SUBSET Nat /\ 2 * k <= len
  BY SMTT(30)
<1>2. 0 \in S
  <2>1. a[0] = Some(store)
    BY <1>1, SMTT(30) DEF ReverseRounds
  <2>2. EndsThere(e, 0)
    BY SMTT(30) DEF EndsThere
  <2>3. Keeping(store, D, ReversedBy(e, 0))
    <3>1. \A j \in D : ReversedBy(e, 0)[j] = e[j]
      BY SMTT(30) DEF ReversedBy
    <3>2. D \subseteq D
      BY Zenon
    <3> HIDE DEF D
    <3> QED BY <3>1, <3>2, Zenon DEF Keeping, Content, D
  <2>4. Outcome(a[0], EndsThere(e, 0), D, ReversedBy(e, 0))
    BY <2>1, <2>2, <2>3, OutcomeOf, Zenon
  <2> QED BY <2>4, SMTT(30)
<1>3. ASSUME NEW n \in 1 .. k, n - 1 \in S PROVE n \in S
  <2> DEFINE d == ReversedBy(e, n - 1)
  <2>0. n \in Nat /\ n > 0 /\ 2 * n <= len
    BY <1>0, SMTT(30)
  <2>1. a[n] = Exchanged(a[n - 1], n - 1, len - n)
    BY <1>1, <1>3, SMTT(30) DEF ReverseRounds
  <2>2. /\ Swapped(D, d, n - 1, len - n, ReversedBy(e, n))
        /\ d[n - 1] = e[n - 1] /\ d[len - n] = e[len - n]
        /\ n - 1 \in D /\ len - n \in D /\ n - 1 # len - n
    BY <2>0, ReversedStep, Zenon
  <2>3. EndsThere(e, n) <=> EndsThere(e, n - 1) /\ d[n - 1] # None /\ d[len - n] # None
    <3>1. \A m : m \in 1 .. n <=> m \in 1 .. (n - 1) \/ m = n
      BY <1>3, SMTT(30)
    <3> HIDE DEF d
    <3> QED BY <2>2, <3>1, Zenon DEF EndsThere
  <2>4. Outcome(a[n - 1], EndsThere(e, n - 1), D, d)
    BY <1>3, Zenon
  <2>5. Outcome(a[n], EndsThere(e, n), D, ReversedBy(e, n))
    <3> HIDE DEF d, D
    <3>1. CASE EndsThere(e, n - 1)
      <4>1. Outcome(a[n - 1], TRUE, D, d)
        BY <2>4, <3>1, Zenon DEF Outcome
      <4>2. Outcome(Exchanged(a[n - 1], n - 1, len - n), d[n - 1] # None /\ d[len - n] # None, D, ReversedBy(e, n))
        BY <1>0, <2>2, <4>1, ExchangedStep, Zenon
      <4> QED BY <2>1, <2>3, <3>1, <4>2, Zenon DEF Outcome
    <3>2. CASE ~EndsThere(e, n - 1)
      <4>1. a[n - 1] = None
        BY <2>4, <3>2, Zenon DEF Outcome
      <4>2. a[n] = None
        BY <2>1, <4>1, Zenon DEF Exchanged
      <4> QED BY <2>3, <3>2, <4>2, Zenon DEF Outcome
    <3> QED BY <3>1, <3>2, Zenon
  <2> QED BY <2>0, <2>5, Zenon
<1>4. k \in S
  <2> HIDE DEF S
  <2> QED BY <1>2, <1>3, UpTo, Zenon
<1> QED
  BY <1>1, <1>4, Zenon

\* The same for the rounds of fill and resize.
FillRounds(i, k, v, a) ==
  a = [n \in 0 .. k |-> IF n = 0 THEN store ELSE WithElem(a[n - 1], i + n - 1, v)]

\* The loop of fill and resize is its rounds.
LEMMA FilledRounds ==
  ASSUME NEW i, NEW k \in Nat, NEW v
  PROVE  \E a : FillRounds(i, k, v, a) /\ Filled(i, k, v) = a[k]
<1> DEFINE S == {n \in Nat : \E a : FillRounds(i, n, v, a)}
<1>1. 0 \in S
  <2> DEFINE a == [n \in 0 .. 0 |-> store]
  <2>1. FillRounds(i, 0, v, a)
    BY SMTT(30) DEF FillRounds
  <2> HIDE DEF a
  <2> QED BY <2>1, SMTT(30)
<1>2. ASSUME NEW n \in 1 .. k, n - 1 \in S PROVE n \in S
  <2>1. PICK b : FillRounds(i, n - 1, v, b)
    BY <1>2, Zenon
  <2> DEFINE a == [m \in 0 .. n |-> IF m < n THEN b[m] ELSE WithElem(b[n - 1], i + n - 1, v)]
  <2>2. ASSUME NEW m \in 0 .. n
        PROVE  a[m] = IF m = 0 THEN store ELSE WithElem(a[m - 1], i + m - 1, v)
    <3>1. CASE m = n
      <4>1. m # 0 /\ n - 1 \in 0 .. n /\ n - 1 < n /\ ~(n < n)
        BY <3>1, SMTT(30)
      <4>2. a[n - 1] = b[n - 1]
        BY <4>1, Zenon
      <4> QED BY <3>1, <4>1, <4>2, Zenon
    <3>2. CASE m # n
      <4>1. m < n /\ m \in 0 .. (n - 1) /\ (m # 0 => m - 1 < n /\ m - 1 \in 0 .. n)
        BY <3>2, SMTT(30)
      <4>2. b[m] = IF m = 0 THEN store ELSE WithElem(b[m - 1], i + m - 1, v)
        BY <2>1, <4>1, Zenon DEF FillRounds
      <4>3. a[m] = b[m] /\ (m # 0 => a[m - 1] = b[m - 1])
        BY <4>1, Zenon
      <4> QED BY <4>2, <4>3, Zenon
    <3> QED BY <3>1, <3>2, Zenon
  <2>3. FillRounds(i, n, v, a)
    <3>1. a = [m \in 0 .. n |-> a[m]]
      BY Zenon
    <3> HIDE DEF a
    <3> QED BY <2>2, <3>1, Zenon DEF FillRounds
  <2>4. n \in Nat
    BY SMTT(30)
  <2> HIDE DEF a
  <2> QED BY <2>3, <2>4, Zenon
<1>3. k \in S
  <2> HIDE DEF S
  <2> QED BY <1>1, <1>2, UpTo, Zenon
<1>4. \E a : FillRounds(i, k, v, a)
  BY <1>3, Zenon
<1> DEFINE f == CHOOSE a : FillRounds(i, k, v, a)
<1>5. FillRounds(i, k, v, f)
  BY <1>4, Zenon
<1>6. Filled(i, k, v) = f[k]
  BY Zenon DEF Filled, FillRounds
<1> HIDE DEF f
<1> QED
  BY <1>5, <1>6, Zenon

\* The elements after n were filled from i on.
FilledBy(e, i, n, v) == [j \in Nat |-> IF j \in i .. (i + n - 1) THEN HoldsOf(type, v) ELSE e[j]]

\* The loop of fill and resize writes the elements it goes through and no other.
LEMMA FilledOutcome ==
  ASSUME IsType(type), NEW D \in SUBSET Nat, NEW e, Keeping(store, D, e),
         NEW i \in Nat, NEW k \in Nat, NEW v, IsValue(type, v)
  PROVE  Keeping(Filled(i, k, v), D \cup i .. (i + k - 1), FilledBy(e, i, k, v))
<1>1. PICK a : FillRounds(i, k, v, a) /\ Filled(i, k, v) = a[k]
  BY FilledRounds, Zenon
<1> DEFINE E(n) == D \cup i .. (i + n - 1)
           S == {n \in Nat : Keeping(a[n], E(n), FilledBy(e, i, n, v))}
<1>2. 0 \in S
  <2>1. a[0] = store
    BY <1>1, SMTT(30) DEF FillRounds
  <2>2. E(0) = D
    BY SMTT(30)
  <2>3. \A j \in D : FilledBy(e, i, 0, v)[j] = e[j]
    BY SMTT(30) DEF FilledBy
  <2>4. Keeping(a[0], E(0), FilledBy(e, i, 0, v))
    BY <2>1, <2>2, <2>3, Zenon DEF Keeping, Content
  <2> QED BY <2>4, SMTT(30)
<1>3. ASSUME NEW n \in 1 .. k, n - 1 \in S PROVE n \in S
  <2> DEFINE d == FilledBy(e, i, n - 1, v)
             d2 == FilledBy(e, i, n, v)
             F == E(n - 1)
             F2 == E(n)
  <2>1. a[n] = WithElem(a[n - 1], i + n - 1, v)
    BY <1>1, <1>3, SMTT(30) DEF FillRounds
  <2>2. Keeping(a[n - 1], F, d)
    BY <1>3, Zenon
  <2>3. i + n - 1 \in Nat /\ n \in Nat /\ F \in SUBSET Nat /\ F2 \subseteq F \cup {i + n - 1} /\ F2 \in SUBSET Nat
    BY SMTT(30)
  <2>4. \A j \in Nat : d2[j] = IF j = i + n - 1 THEN HoldsOf(type, v) ELSE d[j]
    <3>1. \A j \in Nat : j \in i .. (i + n - 1) <=> j = i + n - 1 \/ j \in i .. (i + (n - 1) - 1)
      BY SMTT(30)
    <3> QED BY <3>1, Zenon DEF FilledBy
  <2> HIDE DEF d, d2, F, F2
  <2>5. Patched(F, d, i + n - 1, HoldsOf(type, v), F2, d2)
    BY <2>3, <2>4, Zenon DEF Patched
  <2>6. Keeping(a[n], F2, d2)
    BY <2>1, <2>2, <2>3, <2>5, KeepingPut, Zenon
  <2> QED BY <2>3, <2>6, Zenon DEF F2, d2
<1>4. k \in S
  <2> HIDE DEF S
  <2> QED BY <1>2, <1>3, UpTo, Zenon
<1> QED
  BY <1>1, <1>4, Zenon

-----------------------------------------------------------------------------
(* The inductive invariant.                                                *)

\* The elements of a vector, numbered as the code numbers them.
Cells(s) == [i \in Nat |-> s[i + 1]]

\* The promise, and that the vector is in order.
StorageInv ==
  /\ type \in Types
  /\ IsStore(store)
  /\ len \in Nat
  /\ vec = [i \in 1 .. len |-> vec[i]]
  /\ Content(store[VecData], type, 0 .. (len - 1), Cells(vec))
  /\ map = [k \in MapKeys |-> Read(store[MapSlot(k)], type, 0)]
  /\ LenAt(store, SliceField) \in Nat
  /\ slice = StoredSlice
  /\ result = expected

\* The length of a function on 1 .. n.
LEMMA SeqLen ==
  ASSUME NEW n \in Nat, NEW f, f = [i \in 1 .. n |-> f[i]]
  PROVE  Len(f) = n
<1> DEFINE V == {f[i] : i \in 1 .. n}
<1>1. f \in [1 .. n -> V]
  <2>1. \A i \in 1 .. n : f[i] \in V
    BY Zenon
  <2> HIDE DEF V
  <2> QED BY <2>1, Zenon
<1> HIDE DEF V
<1>2. f \in Seq(V) /\ DOMAIN f = 1 .. n
  BY <1>1, SMTT(30)
<1> QED
  BY <1>2, SMTT(30)

\* What the invariant says of the vector, as the calls use it.
LEMMA InvFacts ==
  ASSUME StorageInv
  PROVE  /\ IsType(type) /\ type.size \in Nat /\ (type.size < 8 \/ type.size % 8 = 0)
         /\ len \in Nat /\ Len(vec) = len
         /\ 0 .. (len - 1) \in SUBSET Nat
         /\ Keeping(store, 0 .. (len - 1), Cells(vec))
         /\ \A i \in 0 .. (len - 1) : Cells(vec)[i] = vec[i + 1] /\ Elem(store, i) = vec[i + 1]
<1>1. IsType(type) /\ type.size \in Nat /\ (type.size < 8 \/ type.size % 8 = 0)
  BY TypesAssumption, Zenon DEF StorageInv, IsType
<1>2. len \in Nat /\ Len(vec) = len
  BY SeqLen, Zenon DEF StorageInv
<1>3. 0 .. (len - 1) \in SUBSET Nat
  BY <1>2, SMTT(30)
<1>4. Keeping(store, 0 .. (len - 1), Cells(vec))
  BY Zenon DEF StorageInv, Keeping
<1>5. ASSUME NEW i \in 0 .. (len - 1) PROVE Cells(vec)[i] = vec[i + 1] /\ Elem(store, i) = vec[i + 1]
  <2>1. i \in Nat
    BY <1>3, Zenon
  <2>2. Cells(vec)[i] = vec[i + 1]
    BY <2>1, Zenon DEF Cells
  <2>3. Elem(store, i) = Cells(vec)[i]
    <3> DEFINE D == 0 .. (len - 1)
               e == Cells(vec)
    <3>1. IsType(type) /\ D \in SUBSET Nat /\ Keeping(store, D, e) /\ i \in D
      BY <1>1, <1>3, <1>4, Zenon
    <3> HIDE DEF D, e
    <3>2. Elem(store, i) = e[i]
      BY <3>1, KeepingRead, SMTT(30)
    <3> QED BY <3>2, Zenon DEF e
  <2> QED BY <2>2, <2>3, Zenon
<1> QED
  BY <1>1, <1>2, <1>3, <1>4, <1>5, Zenon

\* The invariant is enough.
LEMMA InvImplies ==
  ASSUME StorageInv PROVE StoredAsPromised /\ ReturnsAsPromised
<1>1. \A i \in 1 .. len : i - 1 \in 0 .. (len - 1) /\ (i - 1) + 1 = i
  BY InvFacts, SMTT(30)
<1>2. \A i \in 1 .. len : Elem(store, i - 1) = vec[i]
  BY <1>1, InvFacts, Zenon
<1>3. vec = [i \in 1 .. len |-> Elem(store, i - 1)]
  BY <1>2, Zenon DEF StorageInv
<1> QED
  BY <1>3, Zenon DEF StorageInv, StoredAsPromised, ReturnsAsPromised

\* What every call on the vector leaves alone, and that it returns as promised.
Beside == type' = type /\ map' = map /\ slice' = slice /\ result' = expected'

\* A call that changes nothing keeps the invariant.
LEMMA Looked ==
  ASSUME StorageInv, store' = store, vec' = vec, Beside
  PROVE  StorageInv'
  BY Zenon DEF StorageInv, Beside, len, LenAt, StoredSlice, SliceAt

\* A call on the vector keeps the invariant if it leaves the other collections and
\* the elements up to the new length are the promised ones, in order.
LEMMA VecStep ==
  ASSUME StorageInv, Beside, IsStore(store'),
         \A r \in Regions : r # VecData /\ r # VecField => store'[r] = store[r],
         NEW n \in Nat, LenAt(store', VecField) = n,
         NEW D, 0 .. (n - 1) \subseteq D, NEW e, Content(store'[VecData], type, D, e),
         vec' = [i \in 1 .. n |-> e[i - 1]]
  PROVE  StorageInv'
<1>1. len' = n
  BY Zenon DEF len
<1>2. vec' = [i \in 1 .. n |-> vec'[i]]
  BY Zenon
<1>3. \A i \in 0 .. (n - 1) : Cells(vec')[i] = e[i]
  <2>1. \A i \in 0 .. (n - 1) : i \in Nat /\ i + 1 \in 1 .. n /\ (i + 1) - 1 = i
    BY SMTT(30)
  <2> QED BY <2>1, Zenon DEF Cells
<1>4. Content(store'[VecData], type, 0 .. (n - 1), Cells(vec'))
  BY <1>3, Zenon DEF Content
<1>5. store'[SliceField] = store[SliceField] /\ store'[SliceData] = store[SliceData]
      /\ \A k \in MapKeys : store'[MapSlot(k)] = store[MapSlot(k)]
  BY RegionsApart, Zenon
<1>6. LenAt(store', SliceField) = LenAt(store, SliceField) /\ StoredSlice' = StoredSlice
  BY <1>5, Zenon DEF LenAt, StoredSlice, SliceAt
<1>7. map' = [k \in MapKeys |-> Read(store'[MapSlot(k)], type, 0)]
  BY <1>5, Zenon DEF StorageInv, Beside
<1> QED
  BY <1>1, <1>2, <1>4, <1>6, <1>7, Zenon DEF StorageInv, Beside

\* A call that changes elements, and one that then stores a new length.
LEMMA VecPut ==
  ASSUME StorageInv, Beside, NEW D, NEW e, Keeping(store', D, e), 0 .. (len - 1) \subseteq D,
         vec' = [i \in 1 .. len |-> e[i - 1]]
  PROVE  StorageInv'
<1>1. /\ IsStore(store') /\ Content(store'[VecData], type, D, e)
      /\ \A r \in Regions : r # VecData => store'[r] = store[r]
  BY Zenon DEF Keeping
<1>2. LenAt(store', VecField) = len
  BY <1>1, RegionsApart, Zenon DEF len, LenAt
<1>3. len \in Nat
  BY Zenon DEF StorageInv
<1> QED
  BY <1>1, <1>2, <1>3, VecStep, Zenon

\* A call that changes elements, then stores a new length.
LEMMA VecResized ==
  ASSUME StorageInv, Beside, NEW st, NEW D, NEW e, Keeping(st, D, e),
         NEW n \in Nat, store' = WithLen(st, VecField, n), 0 .. (n - 1) \subseteq D,
         vec' = [i \in 1 .. n |-> e[i - 1]]
  PROVE  StorageInv'
<1>1. /\ IsStore(st) /\ Content(st[VecData], type, D, e)
      /\ \A r \in Regions : r # VecData => st[r] = store[r]
  BY Zenon DEF Keeping
<1>2. /\ IsStore(store') /\ LenAt(store', VecField) = n
      /\ \A r \in Regions : r # VecField => store'[r] = st[r]
  BY <1>1, RegionsApart, LenWritten, SMTT(30)
<1>3. store'[VecData] = st[VecData]
  BY <1>2, RegionsApart, Zenon
<1>4. \A r \in Regions : r # VecData /\ r # VecField => store'[r] = store[r]
  BY <1>1, <1>2, Zenon
<1>5. Content(store'[VecData], type, D, e)
  BY <1>1, <1>3, Zenon
<1> QED
  BY <1>2, <1>4, <1>5, VecStep, Zenon

\* A contract starts with nothing stored.
LEMMA InvInit ==
  ASSUME Init PROVE StorageInv
<1>1. /\ type \in Types /\ store = [r \in Regions |-> <<>>] /\ result = expected
      /\ vec = <<>> /\ map = [k \in MapKeys |-> None] /\ slice = None
  BY Zenon DEF Init, Deployed, Contract!Init, Contract!Nothing, None
<1>2. IsType(type) /\ type.size \in Nat /\ IsType(U64) /\ U64.size = 8 /\ U64.size > 0 /\ 0 \in Nat
  BY <1>1, TypesAssumption, SMTT(30) DEF IsType, U64
<1>3. \A r \in Regions : store[r] = <<>>
  BY <1>1, Zenon
<1>4. DOMAIN <<>> = {}
  BY SMTT(30)
<1>5. ASSUME NEW t, IsType(t) PROVE Read(<<>>, t, 0) = None
  <2>1. CASE t.size = 0
    BY <2>1, Zenon DEF Read
  <2>2. CASE t.size # 0
    <3>1. t.size > 0
      BY <1>5, <2>2, SMTT(30) DEF IsType
    <3>2. FirstSlot(t, 0) \in Nat /\ NumberOfSlots(t, 0) \in Nat \ {0}
      BY <1>2, <1>5, <3>1, SlotsCoverValue, Zenon
    <3>3. FirstSlot(t, 0) \in FirstSlot(t, 0) .. (FirstSlot(t, 0) + NumberOfSlots(t, 0) - 1)
      BY <3>2, SMTT(30)
    <3>4. ~AllSet(<<>>, FirstSlot(t, 0), NumberOfSlots(t, 0))
      BY <1>4, <3>3, Zenon DEF AllSet
    <3> QED BY <2>2, <3>4, Zenon DEF Read
  <2> QED BY <2>1, <2>2, Zenon
<1>6. len = 0 /\ LenAt(store, SliceField) = 0
  BY <1>2, <1>3, <1>5, RegionsApart, Zenon DEF len, LenAt
<1>7. IsStore(store)
  BY <1>1, <1>3, <1>4, Zenon DEF IsStore
<1>8. vec = [i \in 1 .. len |-> vec[i]]
  BY <1>1, <1>6, SMTT(30)
<1>9. Content(store[VecData], type, 0 .. (len - 1), Cells(vec))
  <2>1. 0 .. (len - 1) = {}
    BY <1>6, SMTT(30)
  <2> QED BY <1>3, <1>4, <2>1, RegionsApart, Zenon DEF Content
<1>10. map = [k \in MapKeys |-> Read(store[MapSlot(k)], type, 0)]
  BY <1>1, <1>2, <1>3, <1>5, RegionsApart, Zenon
<1>11. len \in Nat /\ LenAt(store, SliceField) \in Nat /\ slice = StoredSlice
  BY <1>1, <1>2, <1>6, Zenon DEF StoredSlice
<1> QED
  BY <1>1, <1>7, <1>8, <1>9, <1>10, <1>11, Zenon DEF StorageInv

-----------------------------------------------------------------------------
(* The calls on the vector.                                                *)

\* Append, element by element.
LEMMA AppendAt ==
  ASSUME NEW n \in Nat, NEW f, f = [i \in 1 .. n |-> f[i]], NEW x
  PROVE  Append(f, x) = [i \in 1 .. (n + 1) |-> IF i = n + 1 THEN x ELSE f[i]]
<1> DEFINE V == {f[i] : i \in 1 .. n} \cup {x}
<1>1. f \in [1 .. n -> V]
  <2>1. \A i \in 1 .. n : f[i] \in V
    BY Zenon
  <2> HIDE DEF V
  <2> QED BY <2>1, Zenon
<1>2. x \in V
  BY Zenon
<1> HIDE DEF V
<1>3. f \in Seq(V) /\ Len(f) = n
  BY <1>1, SeqLen, SMTT(30)
<1>4. Append(f, x) \in Seq(V) /\ Len(Append(f, x)) = n + 1
  BY <1>2, <1>3, SMTT(30)
<1>5. \A i \in 1 .. (n + 1) : Append(f, x)[i] = IF i = n + 1 THEN x ELSE f[i]
  BY <1>2, <1>3, SMTT(30)
<1>6. Append(f, x) = [i \in 1 .. (n + 1) |-> Append(f, x)[i]]
  BY <1>4, SMTT(30)
<1> QED
  BY <1>5, <1>6, Zenon

\* A vector without its last element, element by element.
LEMMA SubSeqAt ==
  ASSUME NEW n \in Nat, n > 0, NEW f, f = [i \in 1 .. n |-> f[i]]
  PROVE  SubSeq(f, 1, n - 1) = [i \in 1 .. (n - 1) |-> f[i]]
<1> DEFINE V == {f[i] : i \in 1 .. n}
<1>1. f \in [1 .. n -> V]
  <2>1. \A i \in 1 .. n : f[i] \in V
    BY Zenon
  <2> HIDE DEF V
  <2> QED BY <2>1, Zenon
<1> HIDE DEF V
<1>3. f \in Seq(V) /\ Len(f) = n
  BY <1>1, SeqLen, SMTT(30)
<1>4. SubSeq(f, 1, n - 1) \in Seq(V) /\ Len(SubSeq(f, 1, n - 1)) = n - 1
  BY <1>3, SMTT(30)
<1>5. \A i \in 1 .. (n - 1) : SubSeq(f, 1, n - 1)[i] = f[i]
  BY <1>3, SMTT(30)
<1>6. SubSeq(f, 1, n - 1) = [i \in 1 .. (n - 1) |-> SubSeq(f, 1, n - 1)[i]]
  BY <1>4, SMTT(30)
<1> QED
  BY <1>5, <1>6, Zenon

\* The words the promise uses for the same things.
LEMMA Promises ==
  ASSUME StorageInv
  PROVE  /\ Contract!Len0 = len
         /\ Contract!Nothing = None
         /\ \A v : Contract!Holds(v) = HoldsOf(type, v)
         /\ \A i : Contract!At(i) = vec[i + 1]
  BY InvFacts, Zenon DEF Contract!Len0, Contract!Nothing, Contract!Holds, Contract!Just, Contract!At,
                         HoldsOf, None, Some

\* push writes above the length, into slots whose stale words it keeps.
LEMMA PushStep ==
  ASSUME StorageInv, NEW v \in Values(type), push(v), Contract!Push(v)
  PROVE  StorageInv'
<1> DEFINE h == HoldsOf(type, v)
           D == 0 .. (len - 1)
           D2 == 0 .. len
           e == Cells(vec)
           e2 == [i \in Nat |-> IF i = len THEN h ELSE e[i]]
           st == WithElem(store, len, v)
<1>1. Beside
  BY SMTT(30) DEF push, Keeps, Returns, Contract!Push, Contract!VecBecomes, Contract!Returns, Beside
<1>2. IsType(type) /\ IsValue(type, v) /\ len \in Nat /\ D \in SUBSET Nat /\ Keeping(store, D, e)
  BY InvFacts, ValuesAssumption, Zenon DEF StorageInv
<1>3. Patched(D, e, len, h, D2, e2)
  <2>1. D2 \subseteq D \cup {len} /\ D2 \subseteq Nat
    BY <1>2, SMTT(30)
  <2> HIDE DEF D, D2, e, h
  <2> QED BY <2>1, Zenon DEF Patched
<1>4. store' = WithLen(st, VecField, len + 1)
  BY Zenon DEF push, Stores
<1>5. vec' = [i \in 1 .. (len + 1) |-> e2[i - 1]]
  <2>1. vec' = Append(vec, h)
    BY Promises, Zenon DEF Contract!Push, Contract!VecBecomes
  <2>2. vec' = [i \in 1 .. (len + 1) |-> IF i = len + 1 THEN h ELSE vec[i]]
    <3>1. vec = [i \in 1 .. len |-> vec[i]]
      BY Zenon DEF StorageInv
    <3> HIDE DEF h
    <3> QED BY <1>2, <2>1, <3>1, AppendAt, SMTT(30)
  <2>3. \A i \in 1 .. (len + 1) : i - 1 \in Nat /\ (i - 1 = len <=> i = len + 1) /\ (i - 1) + 1 = i
    BY <1>2, SMTT(30)
  <2>4. \A i \in 1 .. (len + 1) : e2[i - 1] = IF i = len + 1 THEN h ELSE vec[i]
    BY <2>3, Zenon DEF Cells
  <2> QED BY <2>2, <2>4, Zenon
<1> HIDE DEF D, D2, e, e2, st, h
<1>6. Keeping(st, D2, e2)
  BY <1>2, <1>3, KeepingPut, Zenon DEF st, h
<1>7. len + 1 \in Nat /\ 0 .. ((len + 1) - 1) \subseteq D2
  BY <1>2, SMTT(30) DEF D2
<1> QED
  BY <1>1, <1>4, <1>5, <1>6, <1>7, VecResized, Zenon

\* pop leaves the element where it is and stores the length.
LEMMA PopStep ==
  ASSUME StorageInv, pop, Contract!Pop
  PROVE  StorageInv'
<1>0. len \in Nat /\ Contract!Len0 = len /\ Contract!Nothing = None
  BY InvFacts, Promises, Zenon
<1>1. CASE len = 0
  <2>0. ~(len > 0)
    BY <1>1, SMTT(30)
  <2>1. store' = store /\ type' = type /\ result' = [ok |-> TRUE, val |-> None]
    BY <2>0, Zenon DEF pop, Keeps, Returns, Stores
  <2>2. vec' = vec /\ map' = map /\ slice' = slice /\ expected' = [ok |-> TRUE, val |-> None]
    BY <1>0, <2>0, Zenon DEF Contract!Pop, Contract!Same, Contract!Returns
  <2> QED BY <2>1, <2>2, Looked, Zenon DEF Beside
<1>2. CASE len # 0
  <2>0. len > 0 /\ len - 1 \in 0 .. (len - 1) /\ (len - 1) + 1 = len
    BY <1>0, <1>2, SMTT(30)
  <2>1. /\ type' = type /\ store' = WithLen(store, VecField, len - 1)
        /\ result' = [ok |-> TRUE, val |-> Elem(store, len - 1)]
    BY <1>2, Zenon DEF pop, Keeps, Returns, Stores
  <2>2. /\ vec' = SubSeq(vec, 1, len - 1) /\ map' = map /\ slice' = slice
        /\ expected' = [ok |-> TRUE, val |-> vec[len]]
    BY <1>0, <1>2, <2>0, Promises, Zenon DEF Contract!Pop, Contract!VecBecomes, Contract!Returns
  <2>3. Beside
    BY <2>0, <2>1, <2>2, InvFacts, Zenon DEF Beside
  <2>4. vec' = [i \in 1 .. (len - 1) |-> Cells(vec)[i - 1]]
    <3>1. vec' = [i \in 1 .. (len - 1) |-> vec[i]]
      BY <1>0, <2>0, <2>2, SubSeqAt, Zenon DEF StorageInv
    <3>2. \A i \in 1 .. (len - 1) : i - 1 \in Nat /\ (i - 1) + 1 = i
      BY <1>0, SMTT(30)
    <3>3. \A i \in 1 .. (len - 1) : Cells(vec)[i - 1] = vec[i]
      BY <3>2, Zenon DEF Cells
    <3> QED BY <3>1, <3>3, Zenon
  <2>5. len - 1 \in Nat /\ 0 .. ((len - 1) - 1) \subseteq 0 .. (len - 1)
    BY <1>0, <2>0, SMTT(30)
  <2>6. Keeping(store, 0 .. (len - 1), Cells(vec))
    BY InvFacts, Zenon
  <2> QED BY <2>1, <2>3, <2>4, <2>5, <2>6, VecResized, Zenon
<1> QED
  BY <1>1, <1>2, Zenon

\* set writes one element.
LEMMA SetStep ==
  ASSUME StorageInv, NEW i \in Nat, NEW v \in Values(type), set(i, v), Contract!Set(i, v)
  PROVE  StorageInv'
<1>0. IsType(type) /\ IsValue(type, v) /\ len \in Nat /\ 0 .. (len - 1) \in SUBSET Nat
      /\ Keeping(store, 0 .. (len - 1), Cells(vec)) /\ Contract!Len0 = len
  BY InvFacts, Promises, ValuesAssumption, Zenon DEF StorageInv
<1>1. CASE i >= len
  <2>0. ~(i < len)
    BY <1>0, <1>1, SMTT(30)
  <2>1. store' = store /\ vec' = vec /\ Beside
    BY <1>0, <2>0, Zenon DEF set, Keeps, Reverts, Contract!Set, Contract!Reverts, Beside
  <2> QED BY <2>1, Looked, Zenon
<1>2. CASE i < len
  <2> DEFINE h == HoldsOf(type, v)
             D == 0 .. (len - 1)
             e == Cells(vec)
             e2 == [j \in Nat |-> IF j = i THEN h ELSE e[j]]
  <2>0. ~(i >= len) /\ i \in D
    BY <1>0, <1>2, SMTT(30)
  <2>1. Beside /\ store' = WithElem(store, i, v)
    BY <1>0, <2>0, <1>2, Zenon
    DEF set, Keeps, Returns, Stores, Contract!Set, Contract!VecBecomes, Contract!Returns, Beside
  <2>2. vec' = [vec EXCEPT ![i + 1] = h]
    BY <1>0, <2>0, Promises, Zenon DEF Contract!Set, Contract!VecBecomes
  <2>3. vec' = [j \in 1 .. len |-> e2[j - 1]]
    <3>1. vec' = [j \in 1 .. len |-> IF j = i + 1 THEN h ELSE vec[j]]
      BY <2>2, Zenon DEF StorageInv
    <3>2. \A j \in 1 .. len : j - 1 \in Nat /\ (j - 1) + 1 = j /\ (j - 1 = i <=> j = i + 1)
      BY <1>0, SMTT(30)
    <3>3. \A j \in 1 .. len : e2[j - 1] = IF j = i + 1 THEN h ELSE vec[j]
      BY <3>2, Zenon DEF Cells
    <3> QED BY <3>1, <3>3, Zenon
  <2> HIDE DEF D, e, h
  <2>4. Patched(D, e, i, h, D, e2)
    <3>1. D \subseteq Nat
      BY <1>0, Zenon DEF D
    <3> QED BY <3>1, Zenon DEF Patched
  <2> HIDE DEF e2
  <2>5. Keeping(store', D, e2)
    BY <1>0, <2>1, <2>4, KeepingPut, Zenon DEF D, e, h
  <2>6. 0 .. (len - 1) \subseteq D
    BY Zenon DEF D
  <2> QED BY <2>1, <2>3, <2>5, <2>6, VecPut, Zenon
<1> QED
  BY <1>0, <1>1, <1>2, SMTT(30)

\* The elements after n rounds of the shift down to i, and of the shift up.
DownBy(e, i, n) == [j \in Nat |-> IF i <= j /\ j < i + n THEN e[j + 1] ELSE e[j]]
UpBy(e, n) == [j \in Nat |-> IF len - n < j /\ j <= len THEN e[j - 1] ELSE e[j]]

\* The shift of remove: every element is copied before it is overwritten.
LEMMA ShiftedDownOutcome ==
  ASSUME IsType(type), len \in Nat, NEW i \in Nat, i < len, NEW e, Keeping(store, 0 .. (len - 1), e)
  PROVE  Outcome(ShiftedDown(i), \A j \in (i + 1) .. (len - 1) : e[j] # None,
                 0 .. (len - 1), DownBy(e, i, len - 1 - i))
<1> DEFINE k == len - 1 - i
           moves == [n \in 1 .. k |-> <<i + n, i + n - 1>>]
           L == 0 .. (len - 1)
           D == [n \in 0 .. k |-> L]
           c == [n \in 0 .. k |-> DownBy(e, i, n)]
<1>1. k \in Nat /\ L \in SUBSET Nat
  BY SMTT(30)
<1>2. Len(moves) = k
  <2>1. moves = [n \in 1 .. k |-> moves[n]]
    BY Zenon
  <2> HIDE DEF moves, k
  <2> QED BY <1>1, <2>1, SeqLen, Zenon
<1>3. \A n \in 1 .. k : moves[n][1] = i + n /\ moves[n][2] = i + n - 1
  BY SMTT(30)
<1>4. \A n \in 1 .. k : /\ D[n - 1] = L /\ D[n] = L
                        /\ c[n - 1] = DownBy(e, i, n - 1) /\ c[n] = DownBy(e, i, n)
  <2>1. \A n \in 1 .. k : n - 1 \in 0 .. k /\ n \in 0 .. k
    BY <1>1, SMTT(30)
  <2> HIDE DEF k, L
  <2> QED BY <2>1, Zenon
<1>5. D[0] = L /\ D[k] = L /\ c[0] = DownBy(e, i, 0) /\ c[k] = DownBy(e, i, k)
  <2>1. 0 \in 0 .. k /\ k \in 0 .. k
    BY <1>1, SMTT(30)
  <2> HIDE DEF k, L
  <2> QED BY <2>1, Zenon
<1>6. \A n \in 1 .. k : DownBy(e, i, n - 1)[i + n] = e[i + n]
  <2>1. \A n \in 1 .. k : i + n \in Nat /\ ~(i + n < i + (n - 1))
    BY <1>1, SMTT(30)
  <2> QED BY <2>1, Zenon DEF DownBy
<1>7. ASSUME NEW n \in 1 .. k
      PROVE  Patched(L, DownBy(e, i, n - 1), i + n - 1, e[i + n], L, DownBy(e, i, n))
  <2>1. ASSUME NEW j \in L
        PROVE  DownBy(e, i, n)[j] = IF j = i + n - 1 THEN e[i + n] ELSE DownBy(e, i, n - 1)[j]
    <3>0. j \in Nat
      BY <1>1, Zenon
    <3>1. CASE j = i + n - 1
      <4>1. i <= j /\ j < i + n /\ j + 1 = i + n
        BY <3>1, <1>1, SMTT(30)
      <4> QED BY <3>0, <3>1, <4>1, Zenon DEF DownBy
    <3>2. CASE j # i + n - 1
      <4>1. j < i + n <=> j < i + (n - 1)
        BY <3>0, <3>2, <1>1, SMTT(30)
      <4> QED BY <3>0, <3>2, <4>1, Zenon DEF DownBy
    <3> QED BY <3>1, <3>2, Zenon
  <2> HIDE DEF L
  <2> QED BY <2>1, Zenon DEF Patched
<1>8. \A n \in 1 .. k : i + n \in L /\ i + n - 1 \in Nat
  BY <1>1, SMTT(30)
<1>9. Keeping(store, D[0], c[0])
  <2>1. \A j \in Nat : DownBy(e, i, 0)[j] = e[j]
    <3>1. \A j \in Nat : ~(i <= j /\ j < i + 0)
      BY SMTT(30)
    <3> QED BY <3>1, Zenon DEF DownBy
  <2>2. Keeping(store, L, DownBy(e, i, 0))
    BY <1>1, <2>1, Zenon DEF Keeping, Content
  <2> QED BY <1>5, <2>2, Zenon
<1> HIDE DEF k, moves, L, D, c
<1>10. MovesTo(moves, k, D, c)
  BY <1>1, <1>3, <1>4, <1>6, <1>7, <1>8, Zenon DEF MovesTo
<1>11. Outcome(Moved(moves), SourcesThere(moves, k, c), D[k], c[k])
  BY <1>1, <1>2, <1>9, <1>10, MovedOutcome, Zenon
<1>12. SourcesThere(moves, k, c) <=> \A j \in (i + 1) .. (len - 1) : e[j] # None
  <2>1. SourcesThere(moves, k, c) <=> \A n \in 1 .. k : e[i + n] # None
    BY <1>3, <1>4, <1>6, Zenon DEF SourcesThere
  <2>2. /\ \A n \in 1 .. k : i + n \in (i + 1) .. (len - 1)
        /\ \A j \in (i + 1) .. (len - 1) : j - i \in 1 .. k /\ i + (j - i) = j
    BY SMTT(30) DEF k
  <2> QED BY <2>1, <2>2, Zenon
<1>13. ShiftedDown(i) = Moved(moves)
  BY Zenon DEF ShiftedDown, moves, k
<1> QED
  BY <1>5, <1>11, <1>12, <1>13, Zenon DEF Outcome, L, k

\* The shift of insert: every element is copied before it is overwritten.
LEMMA ShiftedUpOutcome ==
  ASSUME IsType(type), len \in Nat, NEW i \in Nat, i <= len, NEW e, Keeping(store, 0 .. (len - 1), e)
  PROVE  Outcome(ShiftedUp(i), \A j \in i .. (len - 1) : e[j] # None,
                 IF i = len THEN 0 .. (len - 1) ELSE 0 .. len, UpBy(e, len - i))
<1> DEFINE k == len - i
           moves == [n \in 1 .. k |-> <<len - n, len - n + 1>>]
           L(n) == IF n = 0 THEN 0 .. (len - 1) ELSE 0 .. len
           D == [n \in 0 .. k |-> L(n)]
           c == [n \in 0 .. k |-> UpBy(e, n)]
<1>1. k \in Nat /\ \A n \in 0 .. k : L(n) \in SUBSET Nat
  BY SMTT(30)
<1>2. Len(moves) = k
  <2>1. moves = [n \in 1 .. k |-> moves[n]]
    BY Zenon
  <2> HIDE DEF moves, k
  <2> QED BY <1>1, <2>1, SeqLen, Zenon
<1>3. \A n \in 1 .. k : moves[n][1] = len - n /\ moves[n][2] = len - n + 1
  BY SMTT(30)
<1>4. \A n \in 1 .. k : /\ D[n - 1] = L(n - 1) /\ D[n] = L(n) /\ n - 1 \in 0 .. k
                        /\ c[n - 1] = UpBy(e, n - 1) /\ c[n] = UpBy(e, n)
  <2>1. \A n \in 1 .. k : n - 1 \in 0 .. k /\ n \in 0 .. k
    BY <1>1, SMTT(30)
  <2> HIDE DEF k, L
  <2> QED BY <2>1, Zenon
<1>5. D[0] = L(0) /\ D[k] = L(k) /\ c[0] = UpBy(e, 0) /\ c[k] = UpBy(e, k)
  <2>1. 0 \in 0 .. k /\ k \in 0 .. k
    BY <1>1, SMTT(30)
  <2> HIDE DEF k, L
  <2> QED BY <2>1, Zenon
<1>6. \A n \in 1 .. k : UpBy(e, n - 1)[len - n] = e[len - n]
  <2>1. \A n \in 1 .. k : len - n \in Nat /\ ~(len - (n - 1) < len - n)
    BY <1>1, SMTT(30)
  <2> QED BY <2>1, Zenon DEF UpBy
<1>7. ASSUME NEW n \in 1 .. k
      PROVE  Patched(L(n - 1), UpBy(e, n - 1), len - n + 1, e[len - n], L(n), UpBy(e, n))
  <2>1. ASSUME NEW j \in L(n)
        PROVE  UpBy(e, n)[j] = IF j = len - n + 1 THEN e[len - n] ELSE UpBy(e, n - 1)[j]
    <3>0. j \in Nat
      BY <1>1, SMTT(30)
    <3>1. CASE j = len - n + 1
      <4>1. len - n < j /\ j <= len /\ j - 1 = len - n
        BY <3>1, <1>1, SMTT(30)
      <4> QED BY <3>0, <3>1, <4>1, Zenon DEF UpBy
    <3>2. CASE j # len - n + 1
      <4>1. len - n < j <=> len - (n - 1) < j
        BY <3>0, <3>2, <1>1, SMTT(30)
      <4> QED BY <3>0, <3>2, <4>1, Zenon DEF UpBy
    <3> QED BY <3>1, <3>2, Zenon
  <2>2. L(n) \subseteq L(n - 1) \cup {len - n + 1}
    BY <1>1, SMTT(30)
  <2> HIDE DEF L
  <2> QED BY <2>1, <2>2, Zenon DEF Patched
<1>8. \A n \in 1 .. k : len - n \in L(n - 1) /\ len - n + 1 \in Nat
  BY <1>1, SMTT(30)
<1>9. Keeping(store, D[0], c[0])
  <2>1. \A j \in Nat : UpBy(e, 0)[j] = e[j]
    <3>1. \A j \in Nat : ~(len - 0 < j /\ j <= len)
      BY SMTT(30)
    <3> QED BY <3>1, Zenon DEF UpBy
  <2>2. 0 .. (len - 1) \subseteq Nat
    BY SMTT(30)
  <2>3. Keeping(store, 0 .. (len - 1), UpBy(e, 0))
    BY <2>1, <2>2, Zenon DEF Keeping, Content
  <2> QED BY <1>5, <2>3, Zenon
<1>0. L(k) = IF i = len THEN 0 .. (len - 1) ELSE 0 .. len
  BY SMTT(30)
<1> HIDE DEF k, moves, L, D, c
<1>10. MovesTo(moves, k, D, c)
  <2> SUFFICES ASSUME NEW n \in 1 .. k
      PROVE  /\ D[n - 1] \in SUBSET Nat /\ moves[n][1] \in D[n - 1] /\ moves[n][2] \in Nat
             /\ Patched(D[n - 1], c[n - 1], moves[n][2], c[n - 1][moves[n][1]], D[n], c[n])
    BY Zenon DEF MovesTo
  <2>1. /\ D[n - 1] = L(n - 1) /\ D[n] = L(n) /\ n - 1 \in 0 .. k
        /\ c[n - 1] = UpBy(e, n - 1) /\ c[n] = UpBy(e, n)
    BY <1>4, Zenon
  <2>2. moves[n][1] = len - n /\ moves[n][2] = len - n + 1 /\ c[n - 1][len - n] = e[len - n]
    BY <1>3, <1>6, <2>1, Zenon
  <2>3. L(n - 1) \in SUBSET Nat /\ len - n \in L(n - 1) /\ len - n + 1 \in Nat
    BY <1>1, <1>8, <2>1, Zenon
  <2>4. Patched(L(n - 1), UpBy(e, n - 1), len - n + 1, e[len - n], L(n), UpBy(e, n))
    BY <1>7, Zenon
  <2> QED BY <2>1, <2>2, <2>3, <2>4, Zenon
<1>11. Outcome(Moved(moves), SourcesThere(moves, k, c), D[k], c[k])
  BY <1>1, <1>2, <1>9, <1>10, MovedOutcome, Zenon
<1>12. SourcesThere(moves, k, c) <=> \A j \in i .. (len - 1) : e[j] # None
  <2>1. SourcesThere(moves, k, c) <=> \A n \in 1 .. k : e[len - n] # None
    BY <1>3, <1>4, <1>6, Zenon DEF SourcesThere
  <2>2. /\ \A n \in 1 .. k : len - n \in i .. (len - 1)
        /\ \A j \in i .. (len - 1) : len - j \in 1 .. k /\ len - (len - j) = j
    BY SMTT(30) DEF k
  <2> QED BY <2>1, <2>2, Zenon
<1>13. ShiftedUp(i) = Moved(moves)
  BY Zenon DEF ShiftedUp, moves, k
<1> QED
  BY <1>0, <1>5, <1>11, <1>12, <1>13, Zenon DEF Outcome, k

\* What the end of a call that may revert leaves.
LEMMA EndsEither ==
  ASSUME NEW after, NEW x, Ends(after, x)
  PROVE  /\ after = None => store' = store /\ result' = [ok |-> FALSE, val |-> <<>>]
         /\ after # None => store' = after[1] /\ result' = [ok |-> TRUE, val |-> x]
  BY Zenon DEF Ends, Stores, Returns, Reverts

\* The elements of indices is are all there, in the promise's words.
LEMMA ThereAre ==
  ASSUME StorageInv, NEW is \in SUBSET (0 .. (len - 1))
  PROVE  Contract!There(is) <=> \A j \in is : Cells(vec)[j] # None
<1>1. \A j \in is : Contract!At(j) = Cells(vec)[j]
  BY Promises, InvFacts, Zenon
<1> QED
  BY <1>1, Promises, Zenon DEF Contract!There

\* A reverted call, in the promise's words.
LEMMA RevertedStep ==
  ASSUME StorageInv, Keeps, store' = store, result' = [ok |-> FALSE, val |-> <<>>], Contract!Reverts
  PROVE  StorageInv'
<1>1. vec' = vec /\ Beside
  BY SMTT(30) DEF Keeps, Contract!Reverts, Beside
<1> QED
  BY <1>1, Looked, Zenon

\* remove closes the gap, or reverts when an element from i on is not there.
LEMMA RemoveStep ==
  ASSUME StorageInv, NEW i \in Nat, remove(i), Contract!RemoveIndex(i)
  PROVE  StorageInv'
<1> DEFINE e == Cells(vec)
           D == 0 .. (len - 1)
           removed == IF i < len THEN Elem(store, i) ELSE None
           shifted == IF removed = None THEN None ELSE ShiftedDown(i)
           after == IF shifted = None THEN None ELSE Some(WithLen(shifted[1], VecField, len - 1))
           ok == i < len /\ \A j \in i .. (len - 1) : e[j] # None
<1>0. /\ IsType(type) /\ len \in Nat /\ D \in SUBSET Nat /\ Keeping(store, D, e) /\ Contract!Len0 = len
      /\ \A j \in D : e[j] = vec[j + 1] /\ Elem(store, j) = vec[j + 1]
  BY InvFacts, Promises, Zenon
<1>1. Keeps /\ Ends(after, removed)
  BY Zenon DEF remove
<1>2. i < Contract!Len0 /\ Contract!There(i .. (Contract!Len0 - 1)) <=> ok
  <2>1. i .. (len - 1) \in SUBSET (0 .. (len - 1))
    BY <1>0, SMTT(30)
  <2> QED BY <1>0, <2>1, ThereAre, Zenon
<1>3. i < len => Outcome(ShiftedDown(i), \A j \in (i + 1) .. (len - 1) : e[j] # None, D, DownBy(e, i, len - 1 - i))
  <2> HIDE DEF e
  <2> QED BY <1>0, ShiftedDownOutcome, Zenon
<1>4. i < len => /\ removed = e[i] /\ i \in D
                 /\ \A j : j \in i .. (len - 1) <=> j = i \/ j \in (i + 1) .. (len - 1)
  <2>1. i < len => i \in D /\ \A j : j \in i .. (len - 1) <=> j = i \/ j \in (i + 1) .. (len - 1)
    BY <1>0, SMTT(30)
  <2> HIDE DEF e, D
  <2> QED BY <1>0, <2>1, Zenon
<1>5. CASE ~ok
  <2>1. shifted = None
    <3> HIDE DEF e, D
    <3> QED BY <1>3, <1>4, <1>5, Zenon DEF Outcome
  <2>2. after = None
    BY <2>1, Zenon
  <2>3. Contract!Reverts
    <3> HIDE DEF ok
    <3> QED BY <1>2, <1>5, Zenon DEF Contract!RemoveIndex
  <2> HIDE DEF after, removed
  <2> QED BY <1>1, <2>2, <2>3, EndsEither, RevertedStep, Zenon
<1>6. CASE ok
  <2> DEFINE e2 == DownBy(e, i, len - 1 - i)
             st == ShiftedDown(i)[1]
  <2>1. removed = vec[i + 1] /\ removed # None /\ shifted = ShiftedDown(i)
        /\ shifted # None /\ Keeping(st, D, e2)
    <3> HIDE DEF e, D, e2
    <3> QED BY <1>0, <1>3, <1>4, <1>6, Zenon DEF Outcome, e2
  <2>2. after = Some(WithLen(st, VecField, len - 1))
    <3> HIDE DEF shifted
    <3> QED BY <2>1, Zenon
  <2>3. store' = WithLen(st, VecField, len - 1) /\ result' = [ok |-> TRUE, val |-> vec[i + 1]]
    <3> HIDE DEF after, removed, st, shifted
    <3> QED BY <1>1, <2>1, <2>2, EndsEither, NotNone, Zenon
  <2>4. /\ vec' = [j \in 1 .. (len - 1) |-> IF j <= i THEN vec[j] ELSE vec[j + 1]]
        /\ map' = map /\ slice' = slice /\ expected' = [ok |-> TRUE, val |-> vec[i + 1]]
    <3> HIDE DEF ok
    <3> QED BY <1>0, <1>2, <1>6, Promises, Zenon DEF Contract!RemoveIndex, Contract!VecBecomes, Contract!Returns
  <2>5. Beside
    BY <1>1, <2>3, <2>4, Zenon DEF Keeps, Beside
  <2>6. vec' = [j \in 1 .. (len - 1) |-> e2[j - 1]]
    <3>1. \A j \in 1 .. (len - 1) :
            /\ j - 1 \in Nat /\ (j - 1) + 1 = j /\ j \in Nat
            /\ (j <= i <=> ~(i <= j - 1 /\ j - 1 < i + (len - 1 - i)))
      BY <1>0, <1>6, SMTT(30)
    <3>2. \A j \in 1 .. (len - 1) : e2[j - 1] = IF j <= i THEN vec[j] ELSE vec[j + 1]
      BY <3>1, Zenon DEF DownBy, Cells
    <3> HIDE DEF e2
    <3> QED BY <2>4, <3>2, Zenon
  <2>7. len - 1 \in Nat /\ 0 .. ((len - 1) - 1) \subseteq D
    BY <1>0, <1>6, SMTT(30)
  <2> HIDE DEF st, e2, D
  <2> QED BY <2>1, <2>3, <2>5, <2>6, <2>7, VecResized, Zenon
<1> QED
  BY <1>5, <1>6, Zenon

\* swap_remove fills the gap with the last element.
LEMMA SwapRemoveStep ==
  ASSUME StorageInv, NEW i \in Nat, swap_remove(i), Contract!SwapRemove(i)
  PROVE  StorageInv'
<1> DEFINE e == Cells(vec)
           D == 0 .. (len - 1)
           z == len - 1
           ok == i < len /\ e[i] # None /\ e[z] # None
<1>0. /\ IsType(type) /\ len \in Nat /\ D \in SUBSET Nat /\ Keeping(store, D, e) /\ Contract!Len0 = len
      /\ \A j \in D : e[j] = vec[j + 1] /\ Elem(store, j) = vec[j + 1]
  BY InvFacts, Promises, Zenon
<1>1. i < len => i \in D /\ z \in D /\ z \in Nat /\ z + 1 = len
  BY <1>0, SMTT(30)
<1>2. i < len /\ Elem(store, i) # None /\ Elem(store, len - 1) # None <=> ok
  BY <1>0, <1>1, Zenon
<1>3. i < Contract!Len0 /\ Contract!There({i, Contract!Len0 - 1}) <=> ok
  <2>1. i < len => {i, z} \in SUBSET (0 .. (len - 1))
    BY <1>1, Zenon
  <2>2. i < len => (Contract!There({i, z}) <=> \A j \in {i, z} : Cells(vec)[j] # None)
    BY <2>1, ThereAre, Zenon
  <2> QED BY <1>0, <2>2, Zenon
<1>4. CASE ~ok
  <2> HIDE DEF ok
  <2>1. Keeps /\ store' = store /\ result' = [ok |-> FALSE, val |-> <<>>]
    BY <1>2, <1>4, Zenon DEF swap_remove, Reverts
  <2>2. Contract!Reverts
    BY <1>3, <1>4, Zenon DEF Contract!SwapRemove
  <2> QED BY <2>1, <2>2, RevertedStep, Zenon
<1>5. CASE ok
  <2>0. i < len /\ i \in D /\ z \in D /\ z \in Nat /\ z + 1 = len /\ e[z] # None
    BY <1>1, <1>5, Zenon
  <2> HIDE DEF ok
  <2> DEFINE v == e[z][1]
             st == WithElem(store, i, v)
             e2 == [j \in Nat |-> IF j = i THEN e[z] ELSE e[j]]
  <2>1. Keeps /\ store' = WithLen(WithElem(store, i, Elem(store, len - 1)[1]), VecField, len - 1)
        /\ result' = [ok |-> TRUE, val |-> Elem(store, i)]
    BY <1>2, <1>5, Zenon DEF swap_remove, Stores, Returns
  <2>2. store' = WithLen(st, VecField, len - 1) /\ result' = [ok |-> TRUE, val |-> vec[i + 1]]
    BY <1>0, <2>0, <2>1, Zenon
  <2>3. /\ vec' = [j \in 1 .. (len - 1) |-> IF j = i + 1 THEN vec[len] ELSE vec[j]]
        /\ map' = map /\ slice' = slice /\ expected' = [ok |-> TRUE, val |-> vec[i + 1]]
    BY <1>0, <1>3, <1>5, Promises, Zenon DEF Contract!SwapRemove, Contract!VecBecomes, Contract!Returns
  <2>4. Beside
    BY <2>1, <2>2, <2>3, Zenon DEF Keeps, Beside
  <2>5. IsValue(type, v) /\ HoldsOf(type, v) = e[z]
    <3> HIDE DEF e, z, D
    <3> QED BY <1>0, <2>0, KeepingRead, SMTT(30)
  <2>6. Patched(D, e, i, HoldsOf(type, v), D, e2)
    <3> HIDE DEF e, z, D, v
    <3> QED BY <1>0, <2>5, Zenon DEF Patched
  <2>7. Keeping(st, D, e2)
    <3> HIDE DEF e, z, D, v, e2
    <3> QED BY <1>0, <2>5, <2>6, KeepingPut, Zenon
  <2>8. vec' = [j \in 1 .. (len - 1) |-> e2[j - 1]]
    <3>1. \A j \in 1 .. (len - 1) : j - 1 \in Nat /\ (j - 1) + 1 = j /\ (j - 1 = i <=> j = i + 1)
      BY <1>0, SMTT(30)
    <3>2. e[z] = vec[len]
      BY <1>0, <2>0, Zenon
    <3>3. \A j \in 1 .. (len - 1) : e2[j - 1] = IF j = i + 1 THEN vec[len] ELSE vec[j]
      <4>1. \A j \in 1 .. (len - 1) : e[j - 1] = vec[j]
        BY <3>1, Zenon DEF Cells
      <4> HIDE DEF e, z
      <4> QED BY <3>1, <3>2, <4>1, Zenon
    <3> HIDE DEF e2
    <3> QED BY <2>3, <3>3, Zenon
  <2>9. len - 1 \in Nat /\ 0 .. ((len - 1) - 1) \subseteq D
    BY <1>0, <2>0, SMTT(30)
  <2> HIDE DEF st, e2, D
  <2> QED BY <2>2, <2>4, <2>7, <2>8, <2>9, VecResized, Zenon
<1> QED
  BY <1>4, <1>5, Zenon

\* insert makes room, or reverts when an element from i on is not there.
LEMMA InsertStep ==
  ASSUME StorageInv, NEW i \in Nat, NEW v \in Values(type), insert(i, v), Contract!Insert(i, v)
  PROVE  StorageInv'
<1> DEFINE e == Cells(vec)
           D == 0 .. (len - 1)
           D1 == IF i = len THEN 0 .. (len - 1) ELSE 0 .. len
           h == HoldsOf(type, v)
           shifted == IF i <= len THEN ShiftedUp(i) ELSE None
           after == IF shifted = None THEN None
                    ELSE Some(WithLen(WithElem(shifted[1], i, v), VecField, len + 1))
           ok == i <= len /\ \A j \in i .. (len - 1) : e[j] # None
<1>0. /\ IsType(type) /\ IsValue(type, v) /\ len \in Nat /\ D \in SUBSET Nat /\ Keeping(store, D, e)
      /\ Contract!Len0 = len
  BY InvFacts, Promises, ValuesAssumption, Zenon DEF StorageInv
<1>1. Keeps /\ Ends(after, <<>>)
  BY Zenon DEF insert
<1>2. i <= Contract!Len0 /\ Contract!There(i .. (Contract!Len0 - 1)) <=> ok
  <2>1. i .. (len - 1) \in SUBSET (0 .. (len - 1))
    BY <1>0, SMTT(30)
  <2> QED BY <1>0, <2>1, ThereAre, Zenon
<1>3. i <= len => Outcome(ShiftedUp(i), \A j \in i .. (len - 1) : e[j] # None, D1, UpBy(e, len - i))
  <2> HIDE DEF e
  <2> QED BY <1>0, ShiftedUpOutcome, Zenon
<1>4. CASE ~ok
  <2>1. after = None
    <3> HIDE DEF e, D1
    <3> QED BY <1>3, <1>4, Zenon DEF Outcome
  <2>2. Contract!Reverts
    <3> HIDE DEF ok
    <3> QED BY <1>2, <1>4, Zenon DEF Contract!Insert
  <2> HIDE DEF after
  <2> QED BY <1>1, <2>1, <2>2, EndsEither, RevertedStep, Zenon
<1>5. CASE ok
  <2> DEFINE e1 == UpBy(e, len - i)
             e2 == [j \in Nat |-> IF j = i THEN h ELSE e1[j]]
             s1 == ShiftedUp(i)[1]
             st == WithElem(s1, i, v)
             D2 == 0 .. len
  <2>0. i <= len
    BY <1>5, Zenon
  <2>1. shifted = ShiftedUp(i) /\ shifted # None /\ Keeping(s1, D1, e1)
    <3> HIDE DEF e, D1, e1
    <3> QED BY <1>3, <1>5, Zenon DEF Outcome, e1
  <2>2. after = Some(WithLen(st, VecField, len + 1))
    <3> HIDE DEF shifted
    <3> QED BY <2>1, Zenon
  <2>3. store' = WithLen(st, VecField, len + 1) /\ result' = [ok |-> TRUE, val |-> <<>>]
    <3> HIDE DEF after, st
    <3> QED BY <1>1, <2>2, EndsEither, NotNone, Zenon
  <2>4. /\ vec' = [j \in 1 .. (len + 1) |-> IF j <= i THEN vec[j] ELSE IF j = i + 1 THEN h ELSE vec[j - 1]]
        /\ map' = map /\ slice' = slice /\ expected' = [ok |-> TRUE, val |-> <<>>]
    <3> HIDE DEF ok
    <3> QED BY <1>0, <1>2, <1>5, Promises, Zenon DEF Contract!Insert, Contract!VecBecomes, Contract!Returns
  <2>5. Beside
    BY <1>1, <2>3, <2>4, Zenon DEF Keeps, Beside
  <2>6. D1 \in SUBSET Nat /\ D2 \subseteq D1 \cup {i} /\ D2 \subseteq Nat
    BY <1>0, SMTT(30)
  <2>7. Patched(D1, e1, i, h, D2, e2)
    <3> HIDE DEF D1, D2, e1, h
    <3> QED BY <2>6, Zenon DEF Patched
  <2>8. vec' = [j \in 1 .. (len + 1) |-> e2[j - 1]]
    <3>1. \A j \in 1 .. (len + 1) :
            /\ j - 1 \in Nat /\ (j - 1 = i <=> j = i + 1) /\ (j <= i => j # i + 1 /\ (j - 1) + 1 = j)
            /\ (j <= i => ~(len - (len - i) < j - 1))
            /\ (~(j <= i) /\ j # i + 1 =>
                  len - (len - i) < j - 1 /\ j - 1 <= len /\ (j - 1) - 1 \in Nat /\ ((j - 1) - 1) + 1 = j - 1)
      BY <1>0, <2>0, SMTT(30)
    <3>2. ASSUME NEW j \in 1 .. (len + 1)
          PROVE  e2[j - 1] = IF j <= i THEN vec[j] ELSE IF j = i + 1 THEN h ELSE vec[j - 1]
      <4>1. CASE j = i + 1
        BY <3>1, <4>1, Zenon
      <4>2. CASE j # i + 1 /\ j <= i
        <5>1. e2[j - 1] = e[j - 1]
          BY <3>1, <4>2, Zenon DEF UpBy
        <5> QED BY <3>1, <4>2, <5>1, Zenon DEF Cells
      <4>3. CASE j # i + 1 /\ ~(j <= i)
        <5>1. e2[j - 1] = e[(j - 1) - 1]
          BY <3>1, <4>3, Zenon DEF UpBy
        <5> QED BY <3>1, <4>3, <5>1, Zenon DEF Cells
      <4> QED BY <4>1, <4>2, <4>3, Zenon
    <3> HIDE DEF e2, h
    <3> QED BY <2>4, <3>2, Zenon
  <2>9. len + 1 \in Nat /\ 0 .. ((len + 1) - 1) \subseteq D2
    BY <1>0, SMTT(30)
  <2> HIDE DEF s1, e1, e2, D1, D2, h
  <2>10. Keeping(st, D2, e2)
    BY <1>0, <2>1, <2>6, <2>7, KeepingPut, Zenon DEF h
  <2> HIDE DEF st
  <2> QED BY <2>3, <2>5, <2>8, <2>9, <2>10, VecResized, Zenon
<1> QED
  BY <1>4, <1>5, Zenon

\* swap exchanges two elements, and looks at none if they are the same.
LEMMA SwapStep ==
  ASSUME StorageInv, NEW i \in Nat, NEW j \in Nat, swap(i, j), Contract!Swap(i, j)
  PROVE  StorageInv'
<1> DEFINE e == Cells(vec)
           D == 0 .. (len - 1)
           ok == i < len /\ j < len /\ (i # j => e[i] # None /\ e[j] # None)
<1>0. /\ IsType(type) /\ len \in Nat /\ D \in SUBSET Nat /\ Keeping(store, D, e) /\ Contract!Len0 = len
      /\ \A k \in D : e[k] = vec[k + 1]
  BY InvFacts, Promises, Zenon
<1>1. (i < len <=> i \in D) /\ (j < len <=> j \in D) /\ (i >= len <=> ~(i < len)) /\ (j >= len <=> ~(j < len))
  BY <1>0, SMTT(30)
<1>2. i < Contract!Len0 /\ j < Contract!Len0 /\ (i # j => Contract!There({i, j})) <=> ok
  <2>1. i < len /\ j < len => {i, j} \in SUBSET (0 .. (len - 1))
    BY <1>1, Zenon
  <2>2. i < len /\ j < len => (Contract!There({i, j}) <=> \A k \in {i, j} : Cells(vec)[k] # None)
    BY <2>1, ThereAre, Zenon
  <2> QED BY <1>0, <2>2, Zenon
<1>3. Keeps
  BY Zenon DEF swap
<1>4. Keeping(Some(store)[1], D, e) /\ Outcome(Some(store), TRUE, D, e)
  <2> HIDE DEF D, e
  <2> QED BY <1>0, NotNone, Zenon DEF Outcome
<1>5. CASE ~ok
  <2>1. Contract!Reverts
    <3> HIDE DEF ok
    <3> QED BY <1>2, <1>5, Zenon DEF Contract!Swap
  <2>2. store' = store /\ result' = [ok |-> FALSE, val |-> <<>>]
    <3>1. CASE ~(i < len /\ j < len)
      BY <1>1, <3>1, Zenon DEF swap, Reverts
    <3>2. CASE i < len /\ j < len
      <4>1. i # j /\ ~(e[i] # None /\ e[j] # None)
        BY <1>5, <3>2, Zenon
      <4>2. Ends(Exchanged(Some(store), i, j), <<>>)
        BY <1>1, <3>2, <4>1, Zenon DEF swap
      <4> DEFINE e2 == [k \in D |-> IF k = i THEN e[j] ELSE IF k = j THEN e[i] ELSE e[k]]
      <4>3. Swapped(D, e, i, j, e2)
        BY Zenon DEF Swapped
      <4> HIDE DEF e2, D, e
      <4>4. Outcome(Exchanged(Some(store), i, j), e[i] # None /\ e[j] # None, D, e2)
        BY <1>0, <1>1, <1>4, <3>2, <4>1, <4>3, ExchangedStep, Zenon
      <4>5. Exchanged(Some(store), i, j) = None
        BY <4>1, <4>4, Zenon DEF Outcome
      <4> QED BY <4>2, <4>5, EndsEither, Zenon
    <3> QED BY <3>1, <3>2, Zenon
  <2> QED BY <1>3, <2>1, <2>2, RevertedStep, Zenon
<1>6. CASE ok
  <2> DEFINE e2 == [k \in Nat |-> IF k = i THEN e[j] ELSE IF k = j THEN e[i] ELSE e[k]]
  <2>0. i < len /\ j < len /\ i \in D /\ j \in D /\ ~(i >= len \/ j >= len)
    BY <1>1, <1>6, Zenon
  <2>1. /\ vec' = [vec EXCEPT ![i + 1] = vec[j + 1], ![j + 1] = vec[i + 1]]
        /\ map' = map /\ slice' = slice /\ expected' = [ok |-> TRUE, val |-> <<>>]
    <3> HIDE DEF ok
    <3>1. Contract!At(i) = vec[i + 1] /\ Contract!At(j) = vec[j + 1]
      BY Promises, Zenon
    <3> QED BY <1>2, <1>6, <3>1, Zenon DEF Contract!Swap, Contract!VecBecomes, Contract!Returns
  <2>2. Swapped(D, e, i, j, e2)
    <3> HIDE DEF D, e
    <3> QED BY <1>0, Zenon DEF Swapped
  <2>3. vec' = [k \in 1 .. len |-> e2[k - 1]]
    <3>1. \A k \in 1 .. len : /\ k - 1 \in Nat /\ (k - 1) + 1 = k
                              /\ (k - 1 = i <=> k = i + 1) /\ (k - 1 = j <=> k = j + 1)
      BY <1>0, SMTT(30)
    <3>2. \A k \in 1 .. len : e2[k - 1] = IF k = i + 1 THEN vec[j + 1] ELSE IF k = j + 1 THEN vec[i + 1] ELSE vec[k]
      <4>1. \A k \in 1 .. len : e[k - 1] = vec[k]
        BY <3>1, Zenon DEF Cells
      <4> HIDE DEF e
      <4> QED BY <1>0, <2>0, <3>1, <4>1, Zenon
    <3>3. vec = [k \in 1 .. len |-> vec[k]]
      BY Zenon DEF StorageInv
    <3>4. i + 1 \in 1 .. len /\ j + 1 \in 1 .. len /\ (i + 1 = j + 1 <=> i = j)
      BY <2>0, <1>0, SMTT(30)
    <3>5. vec' = [k \in 1 .. len |-> IF k = j + 1 THEN vec[i + 1] ELSE IF k = i + 1 THEN vec[j + 1] ELSE vec[k]]
      BY <2>1, <3>3, Zenon
    <3>6. \A k \in 1 .. len : e2[k - 1] = IF k = j + 1 THEN vec[i + 1] ELSE IF k = i + 1 THEN vec[j + 1] ELSE vec[k]
      <4> HIDE DEF e2
      <4> QED BY <3>2, <3>4, Zenon
    <3> HIDE DEF e2
    <3> QED BY <3>5, <3>6, Zenon
  <2>4. CASE i = j
    <3>1. store' = store /\ result' = [ok |-> TRUE, val |-> <<>>]
      BY <2>0, <2>4, Zenon DEF swap, Stores, Returns
    <3>2. \A k \in D : e2[k] = e[k]
      <4> HIDE DEF D, e
      <4> QED BY <1>0, <2>4, Zenon
    <3>3. Keeping(store', D, e2)
      <4> HIDE DEF D, e, e2
      <4> QED BY <1>0, <3>1, <3>2, Zenon DEF Keeping, Content
    <3>4. Beside
      BY <1>3, <2>1, <3>1, Zenon DEF Keeps, Beside
    <3> HIDE DEF e2
    <3> QED BY <2>3, <3>3, <3>4, VecPut, Zenon
  <2>5. CASE i # j
    <3>1. Ends(Exchanged(Some(store), i, j), <<>>)
      BY <2>0, <2>5, Zenon DEF swap
    <3>2. e[i] # None /\ e[j] # None
      BY <1>6, <2>5, Zenon
    <3>3. Outcome(Exchanged(Some(store), i, j), e[i] # None /\ e[j] # None, D, e2)
      <4> HIDE DEF D, e, e2
      <4> QED BY <1>0, <1>4, <2>0, <2>2, <2>5, ExchangedStep, Zenon
    <3>4. store' = Exchanged(Some(store), i, j)[1] /\ result' = [ok |-> TRUE, val |-> <<>>]
          /\ Keeping(Exchanged(Some(store), i, j)[1], D, e2)
      <4> HIDE DEF D, e, e2
      <4> QED BY <3>1, <3>2, <3>3, EndsEither, Zenon DEF Outcome
    <3>5. Beside
      BY <1>3, <2>1, <3>4, Zenon DEF Keeps, Beside
    <3>6. Keeping(store', D, e2)
      BY <3>4, Zenon
    <3> HIDE DEF e2
    <3> QED BY <2>3, <3>5, <3>6, VecPut, Zenon
  <2> QED BY <2>4, <2>5, Zenon
<1> QED
  BY <1>5, <1>6, Zenon

\* reverse exchanges the elements pairwise; the middle one may be cleared.
LEMMA ReverseStep ==
  ASSUME StorageInv, reverse, Contract!ReverseAll
  PROVE  StorageInv'
<1> DEFINE e == Cells(vec)
           D == 0 .. (len - 1)
           k == len \div 2
           e2 == ReversedBy(e, k)
<1>0. /\ IsType(type) /\ len \in Nat /\ D \in SUBSET Nat /\ Keeping(store, D, e) /\ Contract!Len0 = len
      /\ \A j \in D : e[j] = vec[j + 1]
  BY InvFacts, Promises, Zenon
<1>1. k \in Nat /\ 2 * k <= len /\ len <= 2 * k + 1
  BY <1>0, SMTT(30)
<1>2. Keeps /\ Ends(Reversed, <<>>)
  BY Zenon DEF reverse
<1>3. Outcome(Reversed, EndsThere(e, k), D, e2)
  <2> HIDE DEF e
  <2> QED BY <1>0, <1>1, ReversedOutcome, Zenon
<1>4. Contract!Reversible <=> EndsThere(e, k)
  <2> DEFINE M == {i \in 0 .. (len - 1) : 2 * i + 1 # len}
  <2>1. Contract!Reversible <=> \A j \in M : e[j] # None
    <3>1. M \in SUBSET (0 .. (len - 1))
      BY Zenon
    <3>2. Contract!Reversible <=> Contract!There(M)
      BY <1>0, Zenon DEF Contract!Reversible
    <3> HIDE DEF M
    <3> QED BY <3>1, <3>2, ThereAre, Zenon
  <2>2. \A m \in 1 .. k : m - 1 \in M /\ len - m \in M
    <3> HIDE DEF k
    <3> QED BY <1>0, <1>1, SMTT(30)
  <2>3. \A j \in M : \/ j + 1 \in 1 .. k /\ (j + 1) - 1 = j
                     \/ len - j \in 1 .. k /\ len - (len - j) = j
    <3> HIDE DEF k
    <3> QED BY <1>0, <1>1, SMTT(30)
  <2> HIDE DEF M, e, k
  <2> QED BY <2>1, <2>2, <2>3, Zenon DEF EndsThere
<1> HIDE DEF k
<1>5. CASE ~EndsThere(e, k)
  <2>1. Reversed = None /\ Contract!Reverts
    BY <1>3, <1>4, <1>5, Zenon DEF Outcome, Contract!ReverseAll
  <2> QED BY <1>2, <2>1, EndsEither, RevertedStep, Zenon
<1>6. CASE EndsThere(e, k)
  <2>1. store' = Reversed[1] /\ Keeping(Reversed[1], D, e2) /\ result' = [ok |-> TRUE, val |-> <<>>]
    <3> HIDE DEF e, D, e2
    <3> QED BY <1>2, <1>3, <1>6, EndsEither, Zenon DEF Outcome
  <2>2. /\ vec' = [j \in 1 .. len |-> vec[len + 1 - j]]
        /\ map' = map /\ slice' = slice /\ expected' = [ok |-> TRUE, val |-> <<>>]
    BY <1>0, <1>4, <1>6, Zenon DEF Contract!ReverseAll, Contract!VecBecomes, Contract!Returns
  <2>3. Beside
    BY <1>2, <2>1, <2>2, Zenon DEF Keeps, Beside
  <2>4. vec' = [j \in 1 .. len |-> e2[j - 1]]
    <3>1. ASSUME NEW j \in 1 .. len PROVE e2[j - 1] = vec[len + 1 - j]
      <4>1. j - 1 \in Nat /\ len - 1 - (j - 1) \in Nat /\ len - 1 - (j - 1) + 1 = len + 1 - j
        BY <1>0, SMTT(30)
      <4>2. e[len - 1 - (j - 1)] = vec[len + 1 - j]
        BY <4>1, Zenon DEF Cells
      <4>3. ~(j - 1 < k \/ j - 1 >= len - k) => len - 1 - (j - 1) = j - 1
        BY <1>0, <1>1, SMTT(30)
      <4> HIDE DEF e
      <4>4. e2[j - 1] = IF j - 1 < k \/ j - 1 >= len - k THEN e[len - 1 - (j - 1)] ELSE e[j - 1]
        BY <4>1, Zenon DEF ReversedBy
      <4> HIDE DEF e2
      <4> QED BY <4>2, <4>3, <4>4, Zenon
    <3> HIDE DEF e2
    <3> QED BY <2>2, <3>1, Zenon
  <2>5. Keeping(store', D, e2)
    BY <2>1, Zenon
  <2> HIDE DEF e2
  <2> QED BY <2>3, <2>4, <2>5, VecPut, Zenon
<1> QED
  BY <1>5, <1>6, Zenon

\* fill writes every element below the length.
LEMMA FillStep ==
  ASSUME StorageInv, NEW v \in Values(type), fill(v), Contract!Fill(v)
  PROVE  StorageInv'
<1> DEFINE e == Cells(vec)
           D == 0 .. (len - 1)
           D2 == D \cup 0 .. (0 + len - 1)
           e2 == FilledBy(e, 0, len, v)
<1>0. /\ IsType(type) /\ IsValue(type, v) /\ len \in Nat /\ D \in SUBSET Nat /\ Keeping(store, D, e)
      /\ Contract!Len0 = len
  BY InvFacts, Promises, ValuesAssumption, Zenon DEF StorageInv
<1>1. store' = Filled(0, len, v) /\ Keeps /\ result' = [ok |-> TRUE, val |-> <<>>]
  BY Zenon DEF fill, Stores, Returns
<1>2. /\ vec' = [j \in 1 .. len |-> HoldsOf(type, v)]
      /\ map' = map /\ slice' = slice /\ expected' = [ok |-> TRUE, val |-> <<>>]
  BY <1>0, Promises, Zenon DEF Contract!Fill, Contract!VecBecomes, Contract!Returns
<1>3. Beside
  BY <1>1, <1>2, Zenon DEF Keeps, Beside
<1>4. Keeping(store', D2, e2)
  <2>1. 0 \in Nat
    BY SMTT(30)
  <2> HIDE DEF e, D
  <2> QED BY <1>0, <1>1, <2>1, FilledOutcome, Zenon
<1>5. vec' = [j \in 1 .. len |-> e2[j - 1]]
  <2>1. \A j \in 1 .. len : j - 1 \in Nat /\ j - 1 \in 0 .. (0 + len - 1)
    BY <1>0, SMTT(30)
  <2>2. \A j \in 1 .. len : e2[j - 1] = HoldsOf(type, v)
    BY <2>1, Zenon DEF FilledBy
  <2> HIDE DEF e2
  <2> QED BY <1>2, <2>2, Zenon
<1>6. 0 .. (len - 1) \subseteq D2
  BY Zenon
<1> HIDE DEF D2, e2
<1> QED
  BY <1>3, <1>4, <1>5, <1>6, VecPut, Zenon

\* resize fills up to a new length above the old, or only stores a lower one.
LEMMA ResizeStep ==
  ASSUME StorageInv, NEW n \in Nat, NEW v \in Values(type), resize(n, v), Contract!Resize(n, v)
  PROVE  StorageInv'
<1> DEFINE e == Cells(vec)
           D == 0 .. (len - 1)
           k == IF len < n THEN n - len ELSE 0
           st == Filled(len, k, v)
           D2 == D \cup len .. (len + k - 1)
           e2 == FilledBy(e, len, k, v)
           h == HoldsOf(type, v)
<1>0. /\ IsType(type) /\ IsValue(type, v) /\ len \in Nat /\ D \in SUBSET Nat /\ Keeping(store, D, e)
      /\ Contract!Len0 = len
  BY InvFacts, Promises, ValuesAssumption, Zenon DEF StorageInv
<1>1. store' = WithLen(st, VecField, n) /\ Keeps /\ result' = [ok |-> TRUE, val |-> <<>>]
  BY Zenon DEF resize, Stores, Returns
<1>2. /\ vec' = [j \in 1 .. n |-> IF j <= len THEN vec[j] ELSE h]
      /\ map' = map /\ slice' = slice /\ expected' = [ok |-> TRUE, val |-> <<>>]
  BY <1>0, Promises, Zenon DEF Contract!Resize, Contract!VecBecomes, Contract!Returns
<1>3. Beside
  BY <1>1, <1>2, Zenon DEF Keeps, Beside
<1>4. k \in Nat /\ 0 .. (n - 1) \subseteq D2
  BY <1>0, SMTT(30)
<1>5. vec' = [j \in 1 .. n |-> e2[j - 1]]
  <2>1. \A j \in 1 .. n : /\ j - 1 \in Nat /\ (j - 1) + 1 = j
                          /\ (j <= len <=> ~(j - 1 \in len .. (len + k - 1)))
    BY <1>0, SMTT(30)
  <2>2. \A j \in 1 .. n : e[j - 1] = vec[j]
    BY <2>1, Zenon DEF Cells
  <2> HIDE DEF e, k
  <2>3. \A j \in 1 .. n : e2[j - 1] = IF j <= len THEN vec[j] ELSE h
    BY <2>1, <2>2, Zenon DEF FilledBy
  <2> HIDE DEF e2, h
  <2> QED BY <1>2, <2>3, Zenon
<1>6. Keeping(st, D2, e2)
  <2> HIDE DEF e, D, k
  <2> QED BY <1>0, <1>4, FilledOutcome, Zenon
<1> HIDE DEF D2, e2, st
<1> QED
  BY <1>1, <1>3, <1>4, <1>5, <1>6, VecResized, Zenon

\* The calls that only look at the vector.
LEMMA LookStep ==
  ASSUME StorageInv,
         \/ \E i \in Nat : get(i) /\ Contract!Get(i)
         \/ first /\ Contract!First
         \/ last /\ Contract!LastOf
         \/ iter /\ Contract!Iterate
         \/ length /\ Contract!LenOf
  PROVE  StorageInv'
<1>0. /\ IsType(type) /\ len \in Nat /\ Contract!Len0 = len /\ Contract!Nothing = None
      /\ \A i \in 0 .. (len - 1) : Elem(store, i) = vec[i + 1]
      /\ \A i : Contract!At(i) = vec[i + 1]
  BY InvFacts, Promises, Zenon
<1>1. len # 0 => 0 \in 0 .. (len - 1) /\ len - 1 \in 0 .. (len - 1)
  BY <1>0, SMTT(30)
<1>2. Read(store[VecData], type, 0) = Elem(store, 0)
  <2>1. OffsetCalculator(type, 0) = 0
    <3>1. 0 \in Nat
      BY SMTT(30)
    <3>2. OffsetCalculator(type, 0) = 0 * Words(type) /\ Words(type) \in Nat
      BY <1>0, <3>1, OffsetIsWords, Zenon
    <3> QED BY <3>2, SMTT(30)
  <2> QED BY <2>1, Zenon DEF Elem
<1>3. ASSUME NEW i \in Nat, get(i), Contract!Get(i) PROVE StorageInv'
  <2>1. (len <= i <=> ~(i < len)) /\ (i < len => i \in 0 .. (len - 1))
    BY <1>0, SMTT(30)
  <2>2. (IF len <= i THEN None ELSE Elem(store, i))
          = IF i < Contract!Len0 THEN Contract!At(i) ELSE Contract!Nothing
    BY <1>0, <2>1, Zenon
  <2>3. store' = store /\ vec' = vec /\ Beside
    BY <1>3, <2>2, Zenon DEF get, Keeps, Stores, Returns, Contract!Get, Contract!Same, Contract!Returns, Beside
  <2> QED BY <2>3, Looked, Zenon
<1>4. ASSUME first, Contract!First PROVE StorageInv'
  <2>1. (IF len = 0 THEN None ELSE Read(store[VecData], type, 0))
          = IF Contract!Len0 = 0 THEN Contract!Nothing ELSE Contract!At(0)
    BY <1>0, <1>1, <1>2, Zenon
  <2>2. store' = store /\ vec' = vec /\ Beside
    BY <1>4, <2>1, Zenon DEF first, Keeps, Stores, Returns, Contract!First, Contract!Same, Contract!Returns, Beside
  <2> QED BY <2>2, Looked, Zenon
<1>5. ASSUME last, Contract!LastOf PROVE StorageInv'
  <2>1. (IF len = 0 THEN None ELSE Elem(store, len - 1))
          = IF Contract!Len0 = 0 THEN Contract!Nothing ELSE Contract!At(Contract!Len0 - 1)
    BY <1>0, <1>1, Zenon
  <2>2. store' = store /\ vec' = vec /\ Beside
    BY <1>5, <2>1, Zenon DEF last, Keeps, Stores, Returns, Contract!LastOf, Contract!Same, Contract!Returns, Beside
  <2> QED BY <2>2, Looked, Zenon
<1>6. ASSUME iter, Contract!Iterate PROVE StorageInv'
  <2>1. vec = [i \in 1 .. len |-> Elem(store, i - 1)]
    BY InvImplies, Zenon DEF StoredAsPromised
  <2>2. store' = store /\ vec' = vec /\ Beside
    BY <1>6, <2>1, Zenon DEF iter, Keeps, Stores, Returns, Contract!Iterate, Contract!Same, Contract!Returns, Beside
  <2> QED BY <2>2, Looked, Zenon
<1>7. ASSUME length, Contract!LenOf PROVE StorageInv'
  <2>1. store' = store /\ vec' = vec /\ Beside
    BY <1>0, <1>7, Zenon DEF length, Keeps, Stores, Returns, Contract!LenOf, Contract!Same, Contract!Returns, Beside
  <2> QED BY <2>1, Looked, Zenon
<1> QED
  BY <1>3, <1>4, <1>5, <1>6, <1>7, Zenon

-----------------------------------------------------------------------------
(* Clearing.                                                               *)

\* __state_clear takes away the slots it names and no other.
LEMMA ClearedDomain ==
  ASSUME NEW R, DOMAIN R \subseteq Nat, NEW f, NEW n
  PROVE  /\ DOMAIN ClearQuad(R, f, n) = DOMAIN R \ f .. (f + n - 1)
         /\ DOMAIN ClearQuad(R, f, n) \subseteq Nat
         /\ \A s \in DOMAIN R \ f .. (f + n - 1) : ClearQuad(R, f, n)[s] = R[s]
  BY Zenon DEF ClearQuad

\* The regions R and R2 agree on the slots F.
Agree(R, R2, F) == \A s \in F : (s \in DOMAIN R2 <=> s \in DOMAIN R) /\ R2[s] = R[s]

\* A region whose slots are the same reads the same.
LEMMA SameSlots ==
  ASSUME NEW R, NEW R2, NEW t, NEW o,
         Agree(R, R2, FirstSlot(t, o) .. (FirstSlot(t, o) + NumberOfSlots(t, o) - 1)),
         IsType(t), o \in Nat
  PROVE  Read(R2, t, o) = Read(R, t, o)
<1> DEFINE f == FirstSlot(t, o)
           n == NumberOfSlots(t, o)
<1>1. CASE t.size = 0
  BY <1>1, Zenon DEF Read
<1>2. CASE t.size # 0
  <2>0. t.size > 0
    BY <1>2, SMTT(30) DEF IsType
  <2>1. f \in Nat /\ n \in Nat
    BY <2>0, SlotsCoverValue, Zenon
  <2>2. AllSet(R2, f, n) <=> AllSet(R, f, n)
    BY Zenon DEF AllSet, Agree
  <2>3. \A a \in 0 .. (4 * n - 1) : f + (a \div 4) \in f .. (f + n - 1)
    <3> HIDE DEF f, n
    <3> QED BY <2>1, SMTT(30)
  <2>4. LoadQuad(R2, f, n) = LoadQuad(R, f, n)
    <3>1. \A a \in 0 .. (4 * n - 1) :
            (IF f + (a \div 4) \in DOMAIN R2 THEN R2[f + (a \div 4)][a % 4] ELSE 0)
            = IF f + (a \div 4) \in DOMAIN R THEN R[f + (a \div 4)][a % 4] ELSE 0
      BY <2>3, Zenon DEF Agree
    <3> HIDE DEF f, n
    <3> QED BY <3>1, Zenon DEF LoadQuad
  <2> HIDE DEF f, n
  <2> QED BY <2>2, <2>4, Zenon DEF Read, f, n
<1> QED
  BY <1>1, <1>2, Zenon

\* What was cleared is not there.
LEMMA ReadAfterClear ==
  ASSUME NEW R, DOMAIN R \subseteq Nat, NEW t, IsType(t), NEW o \in Nat
  PROVE  DOMAIN Clear(R, t, o) \subseteq Nat /\ Read(Clear(R, t, o), t, o) = None
<1> DEFINE f == FirstSlot(t, o)
           n == NumberOfSlots(t, o)
<1>1. CASE t.size = 0
  BY <1>1, Zenon DEF Read, Clear
<1>2. CASE t.size # 0
  <2>0. t.size > 0
    BY <1>2, SMTT(30) DEF IsType
  <2>1. f \in Nat /\ n \in Nat \ {0}
    BY <2>0, SlotsCoverValue, Zenon
  <2>2. f \in f .. (f + n - 1)
    <3> HIDE DEF f, n
    <3> QED BY <2>1, SMTT(30)
  <2>3. Clear(R, t, o) = ClearQuad(R, f, n)
    BY <1>2, Zenon DEF Clear
  <2>4. DOMAIN Clear(R, t, o) \subseteq Nat /\ f \notin DOMAIN Clear(R, t, o)
    <3> HIDE DEF f, n
    <3>1. DOMAIN ClearQuad(R, f, n) = DOMAIN R \ f .. (f + n - 1) /\ DOMAIN ClearQuad(R, f, n) \subseteq Nat
      BY ClearedDomain, Zenon
    <3> QED BY <2>2, <2>3, <3>1, Zenon
  <2>5. ~AllSet(Clear(R, t, o), f, n)
    BY <2>2, <2>4, Zenon DEF AllSet
  <2> QED BY <2>4, <2>5, Zenon DEF Read
<1> QED
  BY <1>1, <1>2, Zenon

\* clear of an element of whole slots leaves the others, cleared or not.
LEMMA ClearAtStep ==
  ASSUME StorageInv, NEW i \in Nat, clear_at(i), Contract!ClearAt(i)
  PROVE  StorageInv'
<1> DEFINE e == Cells(vec)
           D == 0 .. (len - 1)
           R == store[VecData]
           o == OffsetCalculator(type, i)
           R2 == Clear(R, type, o)
           e2 == [j \in Nat |-> IF j = i THEN None ELSE e[j]]
<1>0. /\ IsType(type) /\ type.size \in Nat /\ len \in Nat /\ D \in SUBSET Nat /\ Keeping(store, D, e)
      /\ Contract!Len0 = len /\ Contract!Nothing = None
  BY InvFacts, Promises, Zenon
<1>1. /\ Keeps /\ type.size # 0 /\ type.size % 32 = 0 /\ i < len
      /\ store' = [store EXCEPT ![VecData] = R2] /\ result' = [ok |-> TRUE, val |-> <<>>]
  BY Zenon DEF clear_at, Stores, Returns
<1>2. /\ vec' = [vec EXCEPT ![i + 1] = None] /\ map' = map /\ slice' = slice
      /\ expected' = [ok |-> TRUE, val |-> <<>>]
  BY <1>0, Zenon DEF Contract!ClearAt, Contract!VecBecomes, Contract!Returns
<1>3. Beside
  BY <1>1, <1>2, Zenon DEF Keeps, Beside
<1>4. o \in Nat /\ type.size > 0 /\ i \in D
  <2>1. o \in Nat
    BY <1>0, OffsetIsWords, Zenon
  <2> HIDE DEF o
  <2> QED BY <1>0, <1>1, <2>1, SMTT(30)
<1>5. IsStore(store) /\ VecData \in Regions /\ DOMAIN R \subseteq Nat /\ Content(R, type, D, e)
  BY <1>0, RegionsApart, Zenon DEF Keeping, IsStore
<1>6. R2 = ClearQuad(R, FirstSlot(type, o), NumberOfSlots(type, o))
  BY <1>1, Zenon DEF Clear
<1>7. /\ DOMAIN R2 = DOMAIN R \ SlotsAt(type, i) /\ DOMAIN R2 \subseteq Nat
      /\ \A s \in DOMAIN R \ SlotsAt(type, i) : R2[s] = R[s]
  <2> DEFINE f == FirstSlot(type, o)
             n == NumberOfSlots(type, o)
             C == ClearQuad(R, f, n)
  <2>1. SlotsAt(type, i) = f .. (f + n - 1)
    BY Zenon DEF SlotsAt
  <2>2. R2 = C
    BY <1>6, Zenon
  <2>3. /\ DOMAIN C = DOMAIN R \ f .. (f + n - 1) /\ DOMAIN C \subseteq Nat
        /\ \A s \in DOMAIN R \ f .. (f + n - 1) : C[s] = R[s]
    <3> HIDE DEF f, n, R
    <3> QED BY <1>5, ClearedDomain, Zenon
  <2> HIDE DEF f, n, R, R2, C
  <2> QED BY <2>1, <2>2, <2>3, Zenon
<1>8. ElemAt(R2, type, i) = None /\ InOrder(R2, type, i)
  <2>1. ElemAt(R2, type, i) = None
    BY <1>0, <1>4, <1>5, ReadAfterClear, Zenon DEF ElemAt
  <2>2. SlotsAt(type, i) \cap DOMAIN R2 = {}
    BY <1>7, Zenon
  <2> QED BY <1>1, <2>1, <2>2, Zenon DEF InOrder
<1>9. ASSUME NEW j \in D, j # i
      PROVE  ElemAt(R2, type, j) = e[j] /\ InOrder(R2, type, j)
  <2>0. j \in Nat /\ ElemAt(R, type, j) = e[j] /\ InOrder(R, type, j)
    BY <1>0, <1>5, <1>9, Zenon DEF Content
  <2>1. SlotsAt(type, i) \cap SlotsAt(type, j) = {}
    BY <1>0, <1>1, <1>4, <1>9, <2>0, OwnSlots, Zenon
  <2> HIDE DEF R2, R
  <2>2. CASE ElemAt(R, type, j) # None
    <3>1. SlotsAt(type, j) \subseteq DOMAIN R
      BY <1>0, <2>0, <2>2, ElemFound, Zenon
    <3>2. Agree(R, R2, SlotsAt(type, j))
      BY <1>7, <2>1, <3>1, Zenon DEF Agree
    <3>3. OffsetCalculator(type, j) \in Nat
      BY <1>0, <2>0, OffsetIsWords, Zenon
    <3>4. ElemAt(R2, type, j) = ElemAt(R, type, j)
      <4> DEFINE q == OffsetCalculator(type, j)
      <4>1. Agree(R, R2, FirstSlot(type, q) .. (FirstSlot(type, q) + NumberOfSlots(type, q) - 1))
        BY <3>2, Zenon DEF SlotsAt
      <4> HIDE DEF q
      <4>2. Read(R2, type, q) = Read(R, type, q)
        BY <1>0, <3>3, <4>1, SameSlots, SMTT(30) DEF q
      <4> QED BY <4>2, Zenon DEF ElemAt, q
    <3> QED BY <2>0, <2>2, <3>4, Zenon DEF InOrder
  <2>3. CASE ElemAt(R, type, j) = None
    <3>1. SlotsAt(type, j) \cap DOMAIN R = {}
      BY <1>1, <2>0, <2>3, Zenon DEF InOrder
    <3>2. SlotsAt(type, j) \cap DOMAIN R2 = {}
      BY <1>7, <3>1, Zenon
    <3>3. \E s : s \in SlotsAt(type, j)
      <4>1. OffsetCalculator(type, j) \in Nat
        BY <1>0, <2>0, OffsetIsWords, Zenon
      <4>2. FirstSlot(type, OffsetCalculator(type, j)) \in Nat
            /\ NumberOfSlots(type, OffsetCalculator(type, j)) \in Nat \ {0}
        BY <1>0, <1>4, <4>1, SlotsCoverValue, Zenon
      <4>3. FirstSlot(type, OffsetCalculator(type, j)) \in SlotsAt(type, j)
        BY <4>2, SMTT(30) DEF SlotsAt
      <4> QED BY <4>3, Zenon
    <3>4. ElemAt(R2, type, j) = None
      BY <1>0, <2>0, <3>2, <3>3, ElemFound, Zenon
    <3> QED BY <1>1, <2>0, <2>3, <3>2, <3>4, Zenon DEF InOrder
  <2> QED BY <2>2, <2>3, Zenon
<1>10. Content(R2, type, D, e2)
  <2> HIDE DEF R2, D, e
  <2> QED BY <1>0, <1>7, <1>8, <1>9, Zenon DEF Content
<1>11. Replaced(store, VecData, R2, store')
  <2> HIDE DEF R2
  <2> QED BY <1>1, <1>5, <1>7, StorePut, Zenon
<1>12. Keeping(store', D, e2)
  <2> HIDE DEF R2, D, e2
  <2> QED BY <1>10, <1>11, Zenon DEF Keeping, Replaced
<1>13. vec' = [j \in 1 .. len |-> e2[j - 1]]
  <2>1. vec' = [j \in 1 .. len |-> IF j = i + 1 THEN None ELSE vec[j]]
    BY <1>2, Zenon DEF StorageInv
  <2>2. \A j \in 1 .. len : j - 1 \in Nat /\ (j - 1) + 1 = j /\ (j - 1 = i <=> j = i + 1)
    BY <1>0, SMTT(30)
  <2>3. \A j \in 1 .. len : e2[j - 1] = IF j = i + 1 THEN None ELSE vec[j]
    BY <2>2, Zenon DEF Cells
  <2> HIDE DEF e2
  <2> QED BY <2>1, <2>3, Zenon
<1>14. 0 .. (len - 1) \subseteq D
  BY Zenon
<1> HIDE DEF D, e2
<1> QED
  BY <1>3, <1>12, <1>13, <1>14, VecPut, Zenon

\* clear of a length, which then reads as none.
LEMMA LenCleared ==
  ASSUME NEW st, IsStore(st), NEW key \in Regions
  PROVE  /\ DOMAIN Clear(st[key], U64, 0) \subseteq Nat /\ Read(Clear(st[key], U64, 0), U64, 0) = None
         /\ Clear(st[key], U64, 0) = ClearQuad(st[key], 0, 1)
<1>1. IsType(U64) /\ U64.size = 8 /\ U64.size # 0 /\ 0 \in Nat /\ ~U64.ref
  BY SMTT(30) DEF U64, IsType
<1>2. DOMAIN st[key] \subseteq Nat
  BY Zenon DEF IsStore
<1>3. DOMAIN Clear(st[key], U64, 0) \subseteq Nat /\ Read(Clear(st[key], U64, 0), U64, 0) = None
  BY <1>1, <1>2, ReadAfterClear, Zenon
<1>4. FirstSlot(U64, 0) = 0 /\ NumberOfSlots(U64, 0) = 1
  BY <1>1, SMTT(30) DEF FirstSlot, NumberOfSlots, LastSlot
<1> QED
  BY <1>1, <1>3, <1>4, Zenon DEF Clear

\* clear of the vector takes its length; the elements stay as stale words.
LEMMA ClearVecStep ==
  ASSUME StorageInv, clear_vec, Contract!ClearVec
  PROVE  StorageInv'
<1> DEFINE R == Clear(store[VecField], U64, 0)
           D == 0 .. (len - 1)
           e == Cells(vec)
<1>1. Keeps /\ store' = [store EXCEPT ![VecField] = R] /\ result' = [ok |-> TRUE, val |-> <<>>]
  BY Zenon DEF clear_vec, Stores, Returns
<1>2. /\ vec' = <<>> /\ map' = map /\ slice' = slice /\ expected' = [ok |-> TRUE, val |-> <<>>]
  BY Zenon DEF Contract!ClearVec, Contract!VecBecomes, Contract!Returns
<1>3. Beside
  BY <1>1, <1>2, Zenon DEF Keeps, Beside
<1>4. IsStore(store) /\ Content(store[VecData], type, D, e)
  BY Zenon DEF StorageInv
<1>5. DOMAIN R \subseteq Nat /\ Read(R, U64, 0) = None
  BY <1>4, RegionsApart, LenCleared, Zenon
<1> HIDE DEF R
<1>6. Replaced(store, VecField, R, store')
  BY <1>1, <1>4, <1>5, RegionsApart, StorePut, Zenon
<1>7. LenAt(store', VecField) = 0 /\ IsStore(store') /\ store'[VecData] = store[VecData]
      /\ \A r \in Regions : r # VecData /\ r # VecField => store'[r] = store[r]
  BY <1>5, <1>6, RegionsApart, Zenon DEF Replaced, LenAt
<1>8. Content(store'[VecData], type, D, e)
  BY <1>4, <1>7, Zenon
<1>9. 0 \in Nat /\ 0 .. (0 - 1) \subseteq D /\ vec' = [i \in 1 .. 0 |-> e[i - 1]]
  <2>1. 0 .. (0 - 1) = {} /\ 1 .. 0 = {} /\ 0 \in Nat
    BY SMTT(30)
  <2>2. [i \in 1 .. 0 |-> e[i - 1]] = <<>>
    <3> HIDE DEF e
    <3> QED BY SMTT(30)
  <2> QED BY <1>2, <2>1, <2>2, Zenon
<1> HIDE DEF D, e
<1> QED
  BY <1>3, <1>7, <1>8, <1>9, VecStep, Zenon

-----------------------------------------------------------------------------
(* store_vec and load_vec: the elements as one slice.                      *)

\* A number of elements and a word of the next.
LEMMA DivMod ==
  ASSUME NEW k \in Nat \ {0}, NEW i \in Nat, NEW w \in 0 .. (k - 1)
  PROVE  (i * k + w) \div k = i /\ (i * k + w) % k = w
  BY SMTT(30)

\* store_vec and load_vec step through a slice by the words of an element.
LEMMA StrideIsWords ==
  ASSUME IsType(type), type.size > 0, type.size < 8 \/ type.size % 8 = 0
  PROVE  StrideBytes = 8 * Words(type) /\ StrideBytes \div 8 = Words(type)
         /\ Words(type) \in Nat \ {0} /\ type.size <= 8 * Words(type)
<1> DEFINE z == type.size
<1>1. z \in Nat /\ z > 0 /\ (z < 8 \/ z % 8 = 0)
  BY SMTT(30) DEF IsType
<1>2. Words(type) = (z + 7) \div 8 /\ StrideBytes = IF z < 8 THEN 8 ELSE z
  BY Zenon DEF Words, StrideBytes
<1> HIDE DEF z
<1>3. StrideBytes = 8 * Words(type) /\ Words(type) \in Nat \ {0} /\ z <= 8 * Words(type)
  BY <1>1, <1>2, SMTT(30)
<1> QED
  BY <1>3, SMTT(30) DEF z

\* Where word w of element i lies in a slice of n elements.
LEMMA VecWord ==
  ASSUME IsType(type), type.size > 0, type.size < 8 \/ type.size % 8 = 0,
         NEW n \in Nat, NEW i \in 0 .. (n - 1), NEW w \in 0 .. (Words(type) - 1),
         NEW a, a = OffsetCalculator(type, i) + w
  PROVE  /\ a \in 0 .. (4 * SlotsOfVec(n) - 1) /\ a \div 4 \in SlotsAt(type, i)
         /\ a = i * (StrideBytes \div 8) + w
         /\ a \div (StrideBytes \div 8) = i /\ a % (StrideBytes \div 8) = w
         /\ SlotsAt(type, i) \subseteq 0 .. (SlotsOfVec(n) - 1)
         /\ SlotsOfVec(n) \in Nat
<1> DEFINE W == Words(type)
           o == OffsetCalculator(type, i)
           f == FirstSlot(type, o)
           m == NumberOfSlots(type, o)
           p == PlaceInSlot(o)
           z == type.size
           N == SlotsOfVec(n)
<1>1. StrideBytes = 8 * W /\ StrideBytes \div 8 = W /\ W \in Nat \ {0} /\ z <= 8 * W /\ z \in Nat
  BY StrideIsWords, Zenon DEF IsType
<1>2. i \in Nat /\ o = i * W /\ o \in Nat
  <2>1. i \in Nat
    BY SMTT(30)
  <2> QED BY <2>1, OffsetIsWords, Zenon
<1>3. f \in Nat /\ m \in Nat \ {0} /\ p \in 0 .. 3 /\ 4 * f + p = o /\ p + W <= 4 * m
  BY <1>2, SlotsCoverValue, Zenon
<1>4. f + m = (o * 8 + z + 31) \div 32
  <2>1. f = (o * 8 + z + 31) \div 32 - m
    BY Zenon DEF FirstSlot, LastSlot
  <2>2. (o * 8 + z + 31) \div 32 \in Int
    BY <1>1, <1>2, SMTT(30)
  <2> HIDE DEF f, m, o, z
  <2> QED BY <1>3, <2>1, <2>2, SMTT(30)
<1>5. o + W <= n * W /\ n * W \in Nat
  <2>1. PICK d \in Nat : n = i + 1 + d
    <3>1. n - i - 1 \in Nat /\ n = i + 1 + (n - i - 1)
      BY <1>2, SMTT(30)
    <3> QED BY <3>1, Zenon
  <2> HIDE DEF W, o
  <2>2. n * W = i * W + W + d * W /\ d * W \in Nat /\ i * W \in Nat
    BY <1>1, <1>2, <2>1, SMTT(30)
  <2> QED BY <1>1, <1>2, <2>2, SMTT(30)
<1>6. N = (n * (8 * W) + 31) \div 32 /\ n * (8 * W) = 8 * (n * W)
  <2>1. N = (n * (8 * W) + 31) \div 32
    BY <1>1, Zenon DEF SlotsOfVec
  <2> HIDE DEF W, N
  <2> QED BY <1>1, <2>1, SMTT(30)
<1>7. N \in Nat /\ f + m <= N
  <2> DEFINE x == n * W
  <2>1. x \in Nat /\ o + W <= x /\ N = (8 * x + 31) \div 32
    BY <1>5, <1>6, Zenon
  <2> HIDE DEF x, N, W, o, z, f, m
  <2> QED BY <1>1, <1>2, <1>4, <2>1, SMTT(30)
<1>8. SlotsAt(type, i) = f .. (f + m - 1)
  BY Zenon DEF SlotsAt
<1>9. a \in Nat /\ a = i * W + w /\ w \in 0 .. (W - 1) /\ a = 4 * f + p + w
  <2>1. w \in 0 .. (W - 1) /\ a = o + w
    BY Zenon
  <2> HIDE DEF W, o, f, m, p
  <2> QED BY <1>1, <1>2, <1>3, <2>1, SMTT(30)
<1> HIDE DEF W, o, f, m, p, z, N
<1>10. a \in 0 .. (4 * N - 1) /\ a \div 4 \in f .. (f + m - 1) /\ f .. (f + m - 1) \subseteq 0 .. (N - 1)
  BY <1>1, <1>3, <1>7, <1>9, SMTT(30)
<1>11. a \div W = i /\ a % W = w
  <2>1. W \in Nat \ {0} /\ i \in Nat /\ w \in 0 .. (W - 1) /\ a = i * W + w
    BY <1>1, <1>2, <1>9, Zenon
  <2>2. (i * W + w) \div W = i /\ (i * W + w) % W = w
    BY <2>1, DivMod, Zenon
  <2> QED BY <2>1, <2>2, Zenon
<1> QED
  BY <1>1, <1>7, <1>8, <1>9, <1>10, <1>11, Zenon DEF N

\* store_vec lays the elements out where get finds them.
LEMMA StoreVecStep ==
  ASSUME StorageInv, NEW n \in Nat, NEW s \in [1 .. n -> Values(type)],
         store_vec(s), Contract!StoreVec(s)
  PROVE  StorageInv'
<1> DEFINE R == store[VecData]
           N == SlotsOfVec(n)
           B == VecBuffer(s)
           R2 == StoreQuad(R, 0, N, B)
           D == 0 .. (n - 1)
           e2 == [i \in Nat |-> HoldsOf(type, s[i + 1])]
           st == [store EXCEPT ![VecData] = R2]
<1>0. /\ IsType(type) /\ type.size \in Nat /\ (type.size < 8 \/ type.size % 8 = 0)
      /\ IsStore(store) /\ DOMAIN R \subseteq Nat /\ VecData \in Regions
      /\ \A i \in 1 .. n : IsValue(type, s[i])
  BY InvFacts, RegionsApart, ValuesAssumption, Zenon DEF StorageInv, IsStore
<1>1. Len(s) = n
  BY SeqLen, Zenon
<1>2. Keeps /\ store' = WithLen(st, VecField, n) /\ result' = [ok |-> TRUE, val |-> <<>>]
  BY <1>1, Zenon DEF store_vec, Stores, Returns
<1>3. /\ vec' = [i \in 1 .. n |-> HoldsOf(type, s[i])] /\ map' = map /\ slice' = slice
      /\ expected' = [ok |-> TRUE, val |-> <<>>]
  BY <1>1, Promises, Zenon DEF Contract!StoreVec, Contract!VecBecomes, Contract!Returns
<1>4. Beside
  BY <1>2, <1>3, Zenon DEF Keeps, Beside
<1>5. DOMAIN R2 = DOMAIN R \cup 0 .. (0 + N - 1) /\ 0 .. (0 + N - 1) \subseteq Nat
  <2>1. DOMAIN R2 = DOMAIN R \cup 0 .. (0 + N - 1)
    BY Zenon DEF StoreQuad
  <2>2. \A k : 0 .. k \subseteq Nat
    BY SMTT(30)
  <2> HIDE DEF N
  <2> QED BY <2>1, <2>2, Zenon
<1>6. DOMAIN R2 \subseteq Nat
  <2> HIDE DEF R2, R
  <2> QED BY <1>0, <1>5, Zenon
<1>7. ASSUME NEW i \in D PROVE ElemAt(R2, type, i) = e2[i] /\ InOrder(R2, type, i)
  <2>0. i \in Nat /\ i + 1 \in 1 .. n
    BY SMTT(30)
  <2>1. e2[i] = HoldsOf(type, s[i + 1])
    BY <2>0, Zenon
  <2>2. CASE type.size = 0
    BY <2>1, <2>2, Zenon DEF ElemAt, Read, InOrder, HoldsOf
  <2>3. CASE type.size # 0
    <3> DEFINE o == OffsetCalculator(type, i)
               v == s[i + 1]
               k == StrideBytes \div 8
    <3>0. type.size > 0
      BY <1>0, <2>3, SMTT(30)
    <3>1. o \in Nat /\ Words(type) \in Nat \ {0}
      BY <1>0, <2>0, <3>0, OffsetIsWords, StrideIsWords, Zenon
    <3>2. SlotsAt(type, i) \subseteq 0 .. (N - 1) /\ N \in Nat
      <4>1. 0 \in 0 .. (Words(type) - 1)
        BY <3>1, SMTT(30)
      <4> QED BY <1>0, <3>0, <4>1, VecWord, SMTT(30)
    <3>3. AllSet(R2, FirstSlot(type, o), NumberOfSlots(type, o))
      <4>1. 0 .. (N - 1) = 0 .. (0 + N - 1)
        BY <3>2, SMTT(30)
      <4> HIDE DEF R2, N
      <4> QED BY <1>5, <3>2, <4>1, Zenon DEF AllSet, SlotsAt
    <3>4. Read(R2, type, o) = Some([w \in 0 .. (Words(type) - 1) |-> WordOf(R2, o + w)])
      <4> HIDE DEF R2, o
      <4> QED BY <1>0, <3>0, <3>1, <3>3, ReadWords, SMTT(30) DEF o
    <3>5. ASSUME NEW w \in 0 .. (Words(type) - 1) PROVE WordOf(R2, o + w) = v[w]
      <4> DEFINE a == o + w
      <4>1. /\ a \in 0 .. (4 * N - 1) /\ a \div k = i /\ a % k = w /\ k = Words(type)
            /\ a \div 4 \in 0 .. (N - 1)
        <5>1. a \in 0 .. (4 * SlotsOfVec(n) - 1) /\ a \div 4 \in SlotsAt(type, i)
              /\ a \div (StrideBytes \div 8) = i /\ a % (StrideBytes \div 8) = w
          <6>1. a = OffsetCalculator(type, i) + w
            BY Zenon
          <6> HIDE DEF a
          <6> QED BY <1>0, <3>0, <6>1, VecWord, SMTT(30)
        <5>2. StrideBytes \div 8 = Words(type)
          BY <1>0, <3>0, StrideIsWords, Zenon
        <5> HIDE DEF a
        <5> QED BY <3>2, <5>1, <5>2, Zenon
      <4>2. B[a] = v[w]
        <5>1. a \in 0 .. (4 * SlotsOfVec(Len(s)) - 1)
          BY <1>1, <4>1, Zenon
        <5>2. i < Len(s) /\ w < Words(type)
          <6>1. i < n /\ w < Words(type)
            BY <3>1, SMTT(30)
          <6> QED BY <1>1, <6>1, Zenon
        <5>3. B[a] = IF a \div k < Len(s) /\ a % k < Words(type) THEN s[a \div k + 1][a % k] ELSE 0
          <6> HIDE DEF a
          <6> QED BY <5>1, Zenon DEF VecBuffer
        <5> HIDE DEF a, k, B
        <5> QED BY <4>1, <5>2, <5>3, Zenon
      <4>3. R2[a \div 4][a % 4] = B[4 * (a \div 4 - 0) + (a % 4)]
        <5>1. a \div 4 \in 0 .. (0 + N - 1) /\ a % 4 \in 0 .. 3
          <6> HIDE DEF a, N
          <6> QED BY <3>2, <4>1, SMTT(30)
        <5>2. R2[a \div 4] = [x \in 0 .. 3 |-> B[4 * (a \div 4 - 0) + x]]
          <6> HIDE DEF a, B, N, R
          <6> QED BY <5>1, Zenon DEF StoreQuad
        <5> HIDE DEF a, B, R2
        <5> QED BY <5>1, <5>2, Zenon
      <4>4. 4 * (a \div 4 - 0) + (a % 4) = a
        <5> HIDE DEF a, N
        <5> QED BY <3>2, <4>1, SMTT(30)
      <4> QED BY <4>2, <4>3, <4>4, Zenon DEF WordOf
    <3>6. ElemAt(R2, type, i) = Some(v)
      <4>1. [w \in 0 .. (Words(type) - 1) |-> WordOf(R2, o + w)] = [w \in 0 .. (Words(type) - 1) |-> v[w]]
        <5> HIDE DEF R2, v, o
        <5> QED BY <3>5, Zenon
      <4>2. v = [w \in 0 .. (Words(type) - 1) |-> v[w]]
        BY <1>0, <2>0, Zenon DEF IsValue
      <4> HIDE DEF R2, v
      <4> QED BY <3>4, <4>1, <4>2, Zenon DEF ElemAt
    <3> HIDE DEF R2, v
    <3> QED BY <2>1, <2>3, <3>6, NotNone, Zenon DEF HoldsOf, InOrder, v
  <2> QED BY <2>2, <2>3, Zenon
<1>8. Content(R2, type, D, e2)
  <2> HIDE DEF R2, D, e2
  <2> QED BY <1>6, <1>7, Zenon DEF Content
<1>9. Keeping(st, D, e2)
  <2> HIDE DEF R2
  <2>1. Replaced(store, VecData, R2, st)
    BY <1>0, <1>6, StorePut, Zenon
  <2> HIDE DEF st, D, e2
  <2> QED BY <1>8, <2>1, Zenon DEF Replaced, Keeping
<1>10. vec' = [i \in 1 .. n |-> e2[i - 1]]
  <2>1. \A i \in 1 .. n : i - 1 \in Nat /\ (i - 1) + 1 = i
    BY SMTT(30)
  <2>2. \A i \in 1 .. n : e2[i - 1] = HoldsOf(type, s[i])
    BY <2>1, Zenon
  <2> HIDE DEF e2
  <2> QED BY <1>3, <2>2, Zenon
<1>11. 0 .. (n - 1) \subseteq D
  BY Zenon
<1> HIDE DEF st, D, e2
<1> QED
  BY <1>2, <1>4, <1>9, <1>10, <1>11, VecResized, Zenon

\* load_vec finds what the calls on elements wrote, and zeros where one was cleared.
LEMMA LoadVecStep ==
  ASSUME StorageInv, load_vec, Contract!LoadVec
  PROVE  StorageInv'
<1> DEFINE R == store[VecData]
           W == Words(type)
           k == StrideBytes \div 8
           buffer == LoadQuad(R, 0, SlotsOfVec(len))
<1>0. /\ IsType(type) /\ type.size \in Nat /\ (type.size < 8 \/ type.size % 8 = 0) /\ len \in Nat
      /\ Contract!Len0 = len /\ Contract!Nothing = None
      /\ \A i \in 0 .. (len - 1) : Elem(store, i) = vec[i + 1]
  BY InvFacts, Promises, Zenon
<1>1. CASE ~(len = 0 \/ type.size # 0)
  <2>1. Keeps /\ store' = store /\ result' = [ok |-> FALSE, val |-> <<>>] /\ Contract!Reverts
    BY <1>0, <1>1, Zenon DEF load_vec, Reverts, Contract!LoadVec
  <2> QED BY <2>1, RevertedStep, Zenon
<1>2. CASE len = 0 \/ type.size # 0
  <2>1. Keeps /\ store' = store /\ result' = [ok |-> TRUE, val |-> LoadedVec]
    BY <1>2, Zenon DEF load_vec, Stores, Returns
  <2>2. /\ vec' = vec /\ map' = map /\ slice' = slice
        /\ expected' = [ok |-> TRUE, val |-> [i \in 1 .. len |-> Contract!Loaded(vec[i])]]
    BY <1>0, <1>2, Zenon DEF Contract!LoadVec, Contract!Same, Contract!Returns
  <2>3. ASSUME NEW i \in 1 .. len
        PROVE  [w \in 0 .. (W - 1) |-> buffer[(i - 1) * k + w]] = Contract!Loaded(vec[i])
    <3> DEFINE j == i - 1
               o == OffsetCalculator(type, j)
    <3>0. j \in Nat /\ j \in 0 .. (len - 1) /\ j + 1 = i /\ len # 0
      BY <1>0, SMTT(30)
    <3>1. type.size > 0 /\ type.size # 0
      BY <1>0, <1>2, <3>0, SMTT(30)
    <3>2. ElemAt(R, type, j) = vec[i] /\ InOrder(R, type, j)
      <4>1. Elem(store, j) = vec[j + 1]
        BY <1>0, <3>0, Zenon
      <4>2. InOrder(R, type, j)
        BY <3>0, Zenon DEF StorageInv, Content
      <4> QED BY <3>0, <4>1, <4>2, Zenon DEF Elem, ElemAt
    <3>3. o \in Nat
      BY <1>0, <3>0, OffsetIsWords, Zenon
    <3>4. ASSUME NEW w \in 0 .. (W - 1)
          PROVE  /\ buffer[j * k + w] = IF (o + w) \div 4 \in DOMAIN R THEN WordOf(R, o + w) ELSE 0
                 /\ (o + w) \div 4 \in SlotsAt(type, j)
      <4> DEFINE a == o + w
      <4>1. a \in 0 .. (4 * SlotsOfVec(len) - 1) /\ a \div 4 \in SlotsAt(type, j) /\ a = j * k + w
        <5>1. a = OffsetCalculator(type, j) + w
          BY Zenon
        <5> HIDE DEF a, j
        <5> QED BY <1>0, <3>0, <3>1, <5>1, VecWord, SMTT(30)
      <4>2. 0 + (a \div 4) = a \div 4
        <5> HIDE DEF a
        <5> QED BY <4>1, SMTT(30)
      <4>3. buffer[a] = IF 0 + (a \div 4) \in DOMAIN R THEN R[0 + (a \div 4)][a % 4] ELSE 0
        <5> HIDE DEF a, R
        <5> QED BY <4>1, Zenon DEF LoadQuad
      <4> HIDE DEF a, R, buffer, k, j, o
      <4> QED BY <4>1, <4>2, <4>3, Zenon DEF WordOf, a
    <3>5. CASE ElemAt(R, type, j) # None
      <4>1. SlotsAt(type, j) \subseteq DOMAIN R
        BY <1>0, <3>0, <3>5, ElemFound, Zenon
      <4>2. Read(R, type, o) = Some([w \in 0 .. (W - 1) |-> WordOf(R, o + w)])
        <5>1. AllSet(R, FirstSlot(type, o), NumberOfSlots(type, o))
          BY <4>1, Zenon DEF AllSet, SlotsAt
        <5> HIDE DEF R, o
        <5> QED BY <1>0, <3>1, <3>3, <5>1, ReadWords, SMTT(30) DEF o
      <4>3. vec[i] = Some([w \in 0 .. (W - 1) |-> WordOf(R, o + w)])
        BY <3>2, <4>2, Zenon DEF ElemAt
      <4>4. \A w \in 0 .. (W - 1) : buffer[j * k + w] = WordOf(R, o + w)
        <5> HIDE DEF R, buffer, k, j, o, W
        <5> QED BY <3>4, <4>1, Zenon
      <4> DEFINE x == [w \in 0 .. (W - 1) |-> buffer[j * k + w]]
      <4>5. vec[i] = Some(x)
        <5>1. x = [w \in 0 .. (W - 1) |-> WordOf(R, o + w)]
          <6> HIDE DEF R, buffer, k, j, o, W
          <6> QED BY <4>4, Zenon
        <5> HIDE DEF x
        <5> QED BY <4>3, <5>1, Zenon
      <4>6. Contract!Loaded(vec[i]) = x
        <5> HIDE DEF x
        <5> QED BY <1>0, <4>5, NotNone, Zenon DEF Contract!Loaded
      <4> QED BY <4>6, Zenon
    <3>6. CASE ElemAt(R, type, j) = None
      <4>1. SlotsAt(type, j) \cap DOMAIN R = {}
        BY <3>1, <3>2, <3>6, Zenon DEF InOrder
      <4>2. \A w \in 0 .. (W - 1) : buffer[j * k + w] = 0
        <5> HIDE DEF R, buffer, k, j, o, W
        <5> QED BY <3>4, <4>1, Zenon
      <4>3. Contract!Loaded(vec[i]) = [w \in 0 .. (W - 1) |-> 0]
        BY <1>0, <3>2, <3>6, Zenon DEF Contract!Loaded, Words
      <4>4. [w \in 0 .. (W - 1) |-> buffer[j * k + w]] = [w \in 0 .. (W - 1) |-> 0]
        <5> HIDE DEF buffer, k, j, W
        <5> QED BY <4>2, Zenon
      <4> QED BY <4>3, <4>4, Zenon
    <3> QED BY <3>5, <3>6, Zenon
  <2>4. LoadedVec = [i \in 1 .. len |-> Contract!Loaded(vec[i])]
    BY <2>3, Zenon DEF LoadedVec
  <2>5. Beside
    BY <2>1, <2>2, <2>4, Zenon DEF Keeps, Beside
  <2> QED BY <2>1, <2>2, <2>5, Looked, Zenon
<1> QED
  BY <1>1, <1>2, Zenon

-----------------------------------------------------------------------------
(* The calls on the map.                                                   *)

\* A call that changes the value of one key.
LEMMA MapPut ==
  ASSUME StorageInv, Keeps, vec' = vec, slice' = slice, result' = expected', NEW k \in MapKeys,
         NEW R, Replaced(store, MapSlot(k), R, store'),
         map' = [map EXCEPT ![k] = Read(R, type, 0)]
  PROVE  StorageInv'
<1>2. /\ IsStore(store') /\ store'[VecField] = store[VecField] /\ store'[VecData] = store[VecData]
      /\ store'[SliceField] = store[SliceField] /\ store'[SliceData] = store[SliceData]
      /\ store'[MapSlot(k)] = R /\ \A m \in MapKeys \ {k} : store'[MapSlot(m)] = store[MapSlot(m)]
  BY RegionsApart, Zenon DEF Replaced
<1>3. len' = len /\ LenAt(store', SliceField) = LenAt(store, SliceField) /\ StoredSlice' = StoredSlice
  <2>1. len' = len /\ LenAt(store', SliceField) = LenAt(store, SliceField)
    BY <1>2, Zenon DEF len, LenAt
  <2> QED BY <1>2, <2>1, Zenon DEF StoredSlice, SliceAt
<1>4. type' = type
  BY Zenon DEF Keeps
<1>5. map' = [m \in MapKeys |-> Read(store'[MapSlot(m)], type, 0)]
  <2>1. map' = [m \in MapKeys |-> IF m = k THEN Read(R, type, 0) ELSE Read(store[MapSlot(m)], type, 0)]
    BY Zenon DEF StorageInv
  <2>2. \A m \in MapKeys : Read(store'[MapSlot(m)], type, 0)
                             = IF m = k THEN Read(R, type, 0) ELSE Read(store[MapSlot(m)], type, 0)
    <3> TAKE m \in MapKeys
    <3>1. CASE m = k
      BY <1>2, <3>1, Zenon
    <3>2. CASE m # k
      BY <1>2, <3>2, Zenon
    <3> QED BY <3>1, <3>2, Zenon
  <2> QED BY <2>1, <2>2, Zenon
<1> QED
  BY <1>2, <1>3, <1>4, <1>5, Zenon DEF StorageInv

\* A call on the map or the slice that changes nothing.
LEMMA LookedElse ==
  ASSUME StorageInv, Keeps, store' = store, Contract!Same, result' = expected'
  PROVE  StorageInv'
<1>1. vec' = vec /\ Beside
  BY SMTT(30) DEF Keeps, Contract!Same, Beside
<1> QED
  BY <1>1, Looked, Zenon

\* insert, and the read of what it wrote.
LEMMA ValueWritten ==
  ASSUME StorageInv, NEW v \in Values(type), NEW k \in MapKeys
  PROVE  /\ DOMAIN Write(store[MapSlot(k)], type, 0, v) \subseteq Nat
         /\ Read(Write(store[MapSlot(k)], type, 0, v), type, 0) = HoldsOf(type, v)
<1> DEFINE R == store[MapSlot(k)]
<1>0. IsType(type) /\ type.size \in Nat /\ IsValue(type, v) /\ DOMAIN R \subseteq Nat /\ 0 \in Nat
  <2>1. 0 \in Nat
    BY SMTT(30)
  <2> QED BY <2>1, InvFacts, RegionsApart, ValuesAssumption, Zenon DEF StorageInv, IsStore
<1> HIDE DEF R
<1>1. CASE type.size = 0
  BY <1>0, <1>1, Zenon DEF Write, Read, HoldsOf, R
<1>2. CASE type.size # 0
  <2>0. type.size > 0
    BY <1>0, <1>2, SMTT(30)
  <2>1. Read(Write(R, type, 0, v), type, 0) = Some([w \in 0 .. (Words(type) - 1) |-> v[w]])
    BY <1>0, <2>0, ReadAfterWrite, SMTT(30)
  <2>2. v = [w \in 0 .. (Words(type) - 1) |-> v[w]]
    BY <1>0, Zenon DEF IsValue
  <2>3. FirstSlot(type, 0) \in Nat
    BY <1>0, <2>0, SlotsCoverValue, Zenon
  <2>4. DOMAIN Write(R, type, 0, v) =
          DOMAIN R \cup FirstSlot(type, 0) .. (FirstSlot(type, 0) + NumberOfSlots(type, 0) - 1)
    BY <1>0, <2>0, SlotsAfterWrite, Zenon
  <2>5. FirstSlot(type, 0) .. (FirstSlot(type, 0) + NumberOfSlots(type, 0) - 1) \subseteq Nat
    BY <2>3, SMTT(30)
  <2> QED BY <1>0, <1>2, <2>1, <2>2, <2>4, <2>5, Zenon DEF HoldsOf, R
<1> QED
  BY <1>1, <1>2, Zenon

\* The calls on the map; a failed try_insert changes nothing.
LEMMA MapStep ==
  ASSUME StorageInv, MapCall
  PROVE  StorageInv'
<1>0. PICK k \in MapKeys :
        \/ \E v \in Values(type) :
             \/ map_insert(k, v) /\ Contract!MapInsert(k, v)
             \/ try_insert(k, v) /\ Contract!TryInsert(k, v)
        \/ map_get(k) /\ Contract!MapGet(k)
        \/ map_remove(k) /\ Contract!MapRemove(k)
  BY Zenon DEF MapCall
<1> DEFINE R == store[MapSlot(k)]
<1>1. /\ IsType(type) /\ map[k] = Read(R, type, 0) /\ DOMAIN R \subseteq Nat
      /\ Contract!Nothing = None /\ \A v : Contract!Holds(v) = HoldsOf(type, v)
      /\ 0 \in Nat /\ IsStore(store) /\ MapSlot(k) \in Regions
  <2>1. 0 \in Nat
    BY SMTT(30)
  <2> QED BY <2>1, InvFacts, Promises, RegionsApart, Zenon DEF StorageInv, IsStore
<1>2. ASSUME NEW v \in Values(type), Keeps, store' = WithValue(k, v),
             Contract!MapBecomes([map EXCEPT ![k] = Contract!Holds(v)]), result' = expected'
      PROVE  StorageInv'
  <2> DEFINE W == Write(R, type, 0, v)
  <2>1. DOMAIN W \subseteq Nat /\ Read(W, type, 0) = HoldsOf(type, v)
    BY ValueWritten, Zenon
  <2>2. Replaced(store, MapSlot(k), W, store')
    <3>1. store' = [store EXCEPT ![MapSlot(k)] = W]
      BY <1>2, Zenon DEF WithValue
    <3> HIDE DEF W
    <3> QED BY <1>1, <2>1, <3>1, StorePut, Zenon
  <2> HIDE DEF W
  <2>3. map' = [map EXCEPT ![k] = Read(W, type, 0)] /\ vec' = vec /\ slice' = slice
    BY <1>1, <1>2, <2>1, Zenon DEF Contract!MapBecomes
  <2> QED BY <1>2, <2>1, <2>2, <2>3, MapPut, Zenon
<1>3. ASSUME NEW v \in Values(type), map_insert(k, v), Contract!MapInsert(k, v) PROVE StorageInv'
  <2>1. Keeps /\ store' = WithValue(k, v) /\ result' = expected'
        /\ Contract!MapBecomes([map EXCEPT ![k] = Contract!Holds(v)])
    BY <1>3, Zenon DEF map_insert, Stores, Returns, Contract!MapInsert, Contract!Returns
  <2> QED BY <1>2, <2>1, Zenon
<1>4. ASSUME NEW v \in Values(type), try_insert(k, v), Contract!TryInsert(k, v) PROVE StorageInv'
  <2>0. Keeps
    BY <1>4, Zenon DEF try_insert
  <2>1. CASE map[k] = None
    <3>1. store' = WithValue(k, v) /\ result' = [ok |-> TRUE, val |-> <<"Ok", v>>]
      BY <1>1, <1>4, <2>1, Zenon DEF try_insert, Stores, Returns
    <3>2. expected' = [ok |-> TRUE, val |-> <<"Ok", v>>]
          /\ Contract!MapBecomes([map EXCEPT ![k] = Contract!Holds(v)])
      BY <1>1, <1>4, <2>1, Zenon DEF Contract!TryInsert, Contract!Returns
    <3> QED BY <1>2, <2>0, <3>1, <3>2, Zenon
  <2>2. CASE map[k] # None
    <3>1. store' = store /\ result' = [ok |-> TRUE, val |-> <<"Err", map[k][1]>>]
      BY <1>1, <1>4, <2>2, Zenon DEF try_insert, Stores, Returns
    <3>2. Contract!Same /\ expected' = [ok |-> TRUE, val |-> <<"Err", map[k][1]>>]
      BY <1>1, <1>4, <2>2, Zenon DEF Contract!TryInsert, Contract!Returns
    <3> QED BY <2>0, <3>1, <3>2, LookedElse, Zenon
  <2> QED BY <2>1, <2>2, Zenon
<1>5. ASSUME map_get(k), Contract!MapGet(k) PROVE StorageInv'
  <2>1. Keeps /\ store' = store /\ Contract!Same /\ result' = expected'
    BY <1>1, <1>5, Zenon DEF map_get, Stores, Returns, Contract!MapGet, Contract!Returns
  <2> QED BY <2>1, LookedElse, Zenon
<1>6. ASSUME map_remove(k), Contract!MapRemove(k) PROVE StorageInv'
  <2> DEFINE C == Clear(R, type, 0)
  <2>1. DOMAIN C \subseteq Nat /\ Read(C, type, 0) = None
    BY <1>1, ReadAfterClear, Zenon
  <2>2. ClearReports(R, type, 0) = (type.size = 0 \/ map[k] # None)
    <3>1. map[k] # None <=> type.size # 0 /\ AllSet(R, FirstSlot(type, 0), NumberOfSlots(type, 0))
      BY <1>1, ReadFinds, Zenon
    <3> QED BY <3>1, Zenon DEF ClearReports
  <2>3. Keeps /\ store' = [store EXCEPT ![MapSlot(k)] = C]
        /\ result' = [ok |-> TRUE, val |-> <<ClearReports(R, type, 0)>>]
    BY <1>6, Zenon DEF map_remove, Stores, Returns
  <2>4. /\ map' = [map EXCEPT ![k] = None] /\ vec' = vec /\ slice' = slice
        /\ expected' = [ok |-> TRUE, val |-> <<type.size = 0 \/ map[k] # None>>]
    BY <1>1, <1>6, Zenon DEF Contract!MapRemove, Contract!MapBecomes, Contract!Returns
  <2>5. result' = expected'
    BY <2>2, <2>3, <2>4, Zenon
  <2> HIDE DEF C
  <2>6. Replaced(store, MapSlot(k), C, store')
    BY <1>1, <2>1, <2>3, StorePut, Zenon
  <2>7. map' = [map EXCEPT ![k] = Read(C, type, 0)] /\ vec' = vec /\ slice' = slice
    BY <2>1, <2>4, Zenon
  <2> QED BY <2>3, <2>5, <2>6, <2>7, MapPut, Zenon
<1> QED
  BY <1>0, <1>3, <1>4, <1>5, <1>6, Zenon

-----------------------------------------------------------------------------
(* The calls on the slice.                                                 *)

\* A call on the slice leaves the vector and the map.
LEMMA SliceStep0 ==
  ASSUME StorageInv, Keeps, vec' = vec, map' = map, result' = expected', IsStore(store'),
         \A r \in Regions : r # SliceField /\ r # SliceData => store'[r] = store[r],
         LenAt(store', SliceField) \in Nat, slice' = StoredSlice'
  PROVE  StorageInv'
<1>1. /\ store'[VecField] = store[VecField] /\ store'[VecData] = store[VecData]
      /\ \A m \in MapKeys : store'[MapSlot(m)] = store[MapSlot(m)]
  BY RegionsApart, Zenon
<1>2. len' = len
  BY <1>1, Zenon DEF len, LenAt
<1>3. type' = type
  BY Zenon DEF Keeps
<1>4. map' = [m \in MapKeys |-> Read(store'[MapSlot(m)], type, 0)]
  BY <1>1, Zenon DEF StorageInv
<1> QED
  BY <1>1, <1>2, <1>3, <1>4, Zenon DEF StorageInv

\* write_slice: what is read back is the slice, whatever longer one was there.
LEMMA WriteSliceStep ==
  ASSUME StorageInv, NEW s \in Slices, write_slice(s), Contract!WriteSlice(s)
  PROVE  StorageInv'
<1> DEFINE n == s.len
           N == SlotsOfSlice(n)
           W == (n + 7) \div 8
           buffer == [a \in 0 .. (4 * N - 1) |-> IF a \in DOMAIN s.words THEN s.words[a] ELSE 0]
           R == store[SliceData]
           R2 == StoreQuad(R, 0, N, buffer)
           st == [store EXCEPT ![SliceData] = R2]
<1>0. /\ n \in Nat /\ s = [len |-> n, words |-> [w \in 0 .. (W - 1) |-> s.words[w]]]
      /\ IsStore(store) /\ SliceData \in Regions /\ SliceField \in Regions /\ DOMAIN R \subseteq Nat
      /\ SliceField # SliceData
  BY ValuesAssumption, RegionsApart, Zenon DEF IsSlice, StorageInv, IsStore
<1>1. Keeps /\ store' = WithLen(st, SliceField, n) /\ result' = [ok |-> TRUE, val |-> <<>>]
  BY Zenon DEF write_slice, Stores, Returns
<1>2. /\ slice' = IF n = 0 THEN None ELSE Some(s)
      /\ vec' = vec /\ map' = map /\ expected' = [ok |-> TRUE, val |-> <<>>]
  BY Zenon DEF Contract!WriteSlice, Contract!Returns, Contract!Nothing, Contract!Just, None, Some
<1>3. N \in Nat /\ W \in Nat /\ W <= 4 * N
  BY <1>0, SMTT(30) DEF SlotsOfSlice
<1>4. DOMAIN R2 = DOMAIN R \cup 0 .. (0 + N - 1) /\ DOMAIN R2 \subseteq Nat
  <2>1. DOMAIN R2 = DOMAIN R \cup 0 .. (0 + N - 1)
    BY Zenon DEF StoreQuad
  <2>2. 0 .. (0 + N - 1) \subseteq Nat
    BY <1>3, SMTT(30)
  <2> HIDE DEF R2, R
  <2> QED BY <1>0, <2>1, <2>2, Zenon
<1>5. Replaced(store, SliceData, R2, st)
  <2> HIDE DEF R2
  <2> QED BY <1>0, <1>4, StorePut, Zenon
<1>6. IsStore(store') /\ LenAt(store', SliceField) = n /\ \A r \in Regions : r # SliceField => store'[r] = st[r]
  <2> HIDE DEF st, n
  <2>1. IsStore(st)
    BY <1>5, Zenon DEF Replaced
  <2> QED BY <1>0, <1>1, <2>1, LenWritten, SMTT(30)
<1>7. store'[SliceData] = R2 /\ \A r \in Regions : r # SliceField /\ r # SliceData => store'[r] = store[r]
  <2> HIDE DEF st, R2
  <2> QED BY <1>0, <1>5, <1>6, Zenon DEF Replaced
<1>8. ASSUME NEW w \in 0 .. (W - 1) PROVE LoadQuad(R2, 0, N)[w] = s.words[w]
  <2>1. w \in 0 .. (4 * N - 1) /\ 0 + (w \div 4) \in 0 .. (0 + N - 1) /\ w % 4 \in 0 .. 3
        /\ 4 * ((0 + (w \div 4)) - 0) + (w % 4) = w
    <3> HIDE DEF N, W
    <3> QED BY <1>3, SMTT(30)
  <2>2. LoadQuad(R2, 0, N)[w] = R2[0 + (w \div 4)][w % 4]
    <3> HIDE DEF R2, N, R
    <3> QED BY <1>4, <2>1, Zenon DEF LoadQuad
  <2>3. R2[0 + (w \div 4)] = [x \in 0 .. 3 |-> buffer[4 * ((0 + (w \div 4)) - 0) + x]]
    <3> DEFINE q == 0 + (w \div 4)
    <3>1. q \in 0 .. (0 + N - 1)
      BY <2>1, Zenon
    <3> HIDE DEF buffer, N, R, q
    <3>2. R2[q] = [x \in 0 .. 3 |-> buffer[4 * (q - 0) + x]]
      BY <3>1, Zenon DEF StoreQuad
    <3> QED BY <3>2, Zenon DEF q
  <2>4. R2[0 + (w \div 4)][w % 4] = buffer[w]
    <3>1. [x \in 0 .. 3 |-> buffer[4 * ((0 + (w \div 4)) - 0) + x]][w % 4]
            = buffer[4 * ((0 + (w \div 4)) - 0) + (w % 4)]
      <4> HIDE DEF buffer
      <4> QED BY <2>1, Zenon
    <3> HIDE DEF buffer, R2
    <3> QED BY <2>1, <2>3, <3>1, Zenon
  <2>5. s.words = [x \in 0 .. (W - 1) |-> s.words[x]]
    <3> DEFINE y == [x \in 0 .. (W - 1) |-> s.words[x]]
    <3>1. s = [len |-> n, words |-> y]
      BY <1>0, Zenon
    <3> HIDE DEF y, n
    <3>2. s.words = y
      BY <3>1, SMTT(30)
    <3> QED BY <3>2, Zenon DEF y
  <2>6. buffer[w] = s.words[w]
    <3>1. DOMAIN s.words = 0 .. (W - 1)
      BY <2>5, Zenon
    <3> HIDE DEF W, N
    <3> QED BY <2>1, <3>1, Zenon
  <2> QED BY <2>2, <2>4, <2>6, Zenon
<1>9. StoredSlice' = IF n = 0 THEN None ELSE Some(s)
  <2>1. StoredSlice' = IF n = 0 THEN None
                       ELSE Some([len |-> n, words |-> [w \in 0 .. (W - 1) |-> LoadQuad(R2, 0, N)[w]]])
    BY <1>6, <1>7, Zenon DEF StoredSlice, SliceAt
  <2>2. [w \in 0 .. (W - 1) |-> LoadQuad(R2, 0, N)[w]] = [w \in 0 .. (W - 1) |-> s.words[w]]
    <3> HIDE DEF R2, W, N
    <3> QED BY <1>8, Zenon
  <2> QED BY <1>0, <2>1, <2>2, Zenon
<1> HIDE DEF n, st, R2
<1> QED
  BY <1>0, <1>1, <1>2, <1>6, <1>7, <1>9, SliceStep0, Zenon

\* clear of the slice takes its length and its slots.
LEMMA ClearSliceStep ==
  ASSUME StorageInv, clear_slice, Contract!ClearSlice
  PROVE  StorageInv'
<1> DEFINE N == SlotsOfSlice(LenAt(store, SliceField))
           R1 == ClearQuad(store[SliceField], 0, 1)
           R2 == ClearQuad(store[SliceData], 0, N)
           s1 == [store EXCEPT ![SliceField] = R1]
<1>0. /\ IsStore(store) /\ SliceData \in Regions /\ SliceField \in Regions /\ SliceField # SliceData
      /\ DOMAIN store[SliceData] \subseteq Nat
  BY RegionsApart, Zenon DEF StorageInv, IsStore
<1>1. DOMAIN R1 \subseteq Nat /\ Read(R1, U64, 0) = None
  BY <1>0, LenCleared, Zenon
<1>2. DOMAIN R2 \subseteq Nat
  BY <1>0, ClearedDomain, Zenon
<1>3. Replaced(store, SliceField, R1, s1)
  <2> HIDE DEF R1
  <2> QED BY <1>0, <1>1, StorePut, Zenon
<1>4. IsStore(s1)
  <2> HIDE DEF s1, R1
  <2> QED BY <1>0, <1>3, Zenon DEF Replaced
<1>5. Keeps /\ result' = [ok |-> TRUE, val |-> <<>>] /\ store' = [s1 EXCEPT ![SliceData] = R2]
  BY Zenon DEF clear_slice, Stores, Returns
<1>6. Replaced(s1, SliceData, R2, store')
  <2> HIDE DEF s1, R2
  <2> QED BY <1>0, <1>2, <1>4, <1>5, StorePut, Zenon
<1>7. /\ IsStore(store') /\ store'[SliceField] = R1
      /\ \A r \in Regions : r # SliceField /\ r # SliceData => store'[r] = store[r]
  <2> HIDE DEF s1, R1, R2
  <2> QED BY <1>0, <1>3, <1>6, Zenon DEF Replaced
<1>8. LenAt(store', SliceField) = 0 /\ 0 \in Nat
  <2>1. 0 \in Nat
    BY SMTT(30)
  <2> HIDE DEF R1
  <2> QED BY <1>1, <1>7, <2>1, Zenon DEF LenAt
<1>9. slice' = None /\ vec' = vec /\ map' = map /\ expected' = [ok |-> TRUE, val |-> <<>>]
  BY Zenon DEF Contract!ClearSlice, Contract!Returns, Contract!Nothing, None
<1>10. StoredSlice' = None
  BY <1>8, Zenon DEF StoredSlice
<1> QED
  BY <1>5, <1>7, <1>8, <1>9, <1>10, SliceStep0, Zenon

\* The calls on the slice.
LEMMA SliceStep ==
  ASSUME StorageInv, SliceCall
  PROVE  StorageInv'
<1>1. ASSUME read_slice, Contract!ReadSlice PROVE StorageInv'
  <2>1. slice = StoredSlice
    BY Zenon DEF StorageInv
  <2>2. Keeps /\ store' = store /\ Contract!Same /\ result' = expected'
    BY <1>1, <2>1, Zenon DEF read_slice, Stores, Returns, Contract!ReadSlice, Contract!Returns
  <2> QED BY <2>2, LookedElse, Zenon
<1> QED
  BY <1>1, WriteSliceStep, ClearSliceStep, Zenon DEF SliceCall

-----------------------------------------------------------------------------

\* The calls on the vector.
LEMMA VecCallStep ==
  ASSUME StorageInv, VecCall
  PROVE  StorageInv'
<1>0. Indices \subseteq Nat
  BY BoundAssumption, SMTT(30) DEF Indices
<1> QED
  BY <1>0, PushStep, PopStep, SetStep, RemoveStep, SwapRemoveStep, InsertStep, SwapStep,
     ReverseStep, FillStep, ResizeStep, LookStep, ClearAtStep, ClearVecStep, StoreVecStep,
     LoadVecStep, Zenon DEF VecCall

\* However the operations of the storage collections are called, the regions stay
\* in order: every element below the length is there in its words, or it has its
\* slots to itself and all of them are clear.  The copying loops of remove, insert,
\* reverse, fill and resize (storage_vec.sw) keep this round by round.
THEOREM StorageInvariant == Spec => []StorageInv
<1>1. Init => StorageInv
  BY InvInit, Zenon
<1>2. StorageInv /\ [Next]_allVars => StorageInv'
  <2> SUFFICES ASSUME StorageInv, [Next]_allVars PROVE StorageInv'
    BY Zenon
  <2>1. CASE Next
    BY <2>1, VecCallStep, MapStep, SliceStep, Zenon DEF Next
  <2>2. CASE UNCHANGED allVars
    <3>1. store' = store /\ vec' = vec /\ Beside
      <4>1. result = expected
        BY Zenon DEF StorageInv
      <4> QED BY <2>2, <4>1, SMTT(30) DEF allVars, vars, Beside
    <3> QED BY <3>1, Looked, Zenon
  <2> QED BY <2>1, <2>2, Zenon
<1> QED
  BY <1>1, <1>2, PTL DEF Spec

\* The storage collections implement what they promise, for every element type,
\* length, map key and slice: the packed slots hold the sequence, the function and
\* the slice the calls of storage_vec.sw, storage_map.sw and storable_slice.sw meant.
THEOREM CollectionsStored == Spec => []StoredAsPromised
<1>1. StorageInv => StoredAsPromised
  BY InvImplies, Zenon
<1> QED
  BY <1>1, StorageInvariant, PTL

\* Every call on the storage collections returns, or reverts, as promised: an unwrap
\* in storage_vec.sw fails exactly if the contract cleared an element it needs.
THEOREM CallsReturn == Spec => []ReturnsAsPromised
<1>1. StorageInv => ReturnsAsPromised
  BY InvImplies, Zenon
<1> QED
  BY <1>1, StorageInvariant, PTL
=============================================================================
