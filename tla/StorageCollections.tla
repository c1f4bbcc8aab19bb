------------------------- MODULE StorageCollections --------------------------
(* The storage collections of the standard library over the storage API: a  *)
(* contract with one field, a StorageVec, a StorageMap or a StorageBytes     *)
(* (whose code StorageString shares), its operations called in any order.    *)
(* One call is one step: the virtual machine runs a transaction at a time    *)
(* and takes back the writes of one that reverts.                            *)
EXTENDS StorageApi, Sequences

CONSTANTS Types,        \* element types
          Values(_),    \* the values of a type
          MapKeys,
          Slices,       \* the slices a contract may store: bytes, and their words
          MaxLen        \* bound on the vector

ASSUME BoundAssumption == MaxLen \in Nat

\* Bytes of a part of a word and words in a row are kept apart by no property
\* here, so a type fills whole words or is smaller than one.
ASSUME TypesAssumption ==
  \A t \in Types : IsType(t) /\ (t.size < 8 \/ t.size % 8 = 0)

\* A value is the words it fills, a slice its number of bytes and their words.
IsValue(t, v) == v = [w \in 0 .. (Words(t) - 1) |-> v[w]]
IsSlice(s) == /\ s = [len |-> s.len, words |-> [w \in 0 .. ((s.len + 7) \div 8 - 1) |-> s.words[w]]]
              /\ s.len \in Nat

ASSUME ValuesAssumption ==
  /\ \A t \in Types : \A v \in Values(t) : IsValue(t, v)
  /\ \A s \in Slices : IsSlice(s)

VARIABLES field,        \* the kind of the contract's field
          type,         \* V, the element type
          store,        \* the regions of the contract's storage
          result        \* what the last call returned

vars == <<field, type, store, result>>

Indices == 0 .. MaxLen

\* The regions: field ids, and the hashes of field ids and map keys.
VecField == <<"vec">>
VecData == <<"vec", "sha256">>
SliceField == <<"bytes">>
SliceData == <<"bytes", "sha256">>
MapSlot(k) == <<"map", "sha256", k>>
Regions == {VecField, VecData, SliceField, SliceData} \cup {MapSlot(k) : k \in MapKeys}

Deployed ==
  /\ field \in {"vec", "map", "bytes"}
  /\ type \in Types
  /\ store = [r \in Regions |-> <<>>]
  /\ result = [ok |-> TRUE, val |-> <<>>]

Keeps == UNCHANGED <<field, type>>
Returns(x) == result' = [ok |-> TRUE, val |-> x]
Reverts == result' = [ok |-> FALSE, val |-> <<>>] /\ UNCHANGED store
Stores(st) == store' = st

\* A call that ends with storage after[1], or reverts.
Ends(after, x) == \/ after # None /\ Stores(after[1]) /\ Returns(x)
                  \/ after = None /\ Reverts

-----------------------------------------------------------------------------
(* StorageVec                                                              *)

\* The length stored at a field id, zero when there is none.
LenAt(st, key) == LET r == Read(st[key], U64, 0) IN IF r = None THEN 0 ELSE r[1][0]
WithLen(st, key, n) == [st EXCEPT ![key] = Write(@, U64, 0, [w \in {0} |-> n])]
len == LenAt(store, VecField)

Elem(st, i) == Read(st[VecData], type, OffsetCalculator(type, i))
WithElem(st, i, v) == [st EXCEPT ![VecData] = Write(@, type, OffsetCalculator(type, i), v)]

\* write(to, read(from).unwrap()), in a call that goes on with acc.
Copied(acc, from, to) ==
  LET e == IF acc = None THEN None ELSE Elem(acc[1], from)
  IN  IF e = None THEN None ELSE Some(WithElem(acc[1], to, e[1]))

Exchanged(acc, i, j) ==
  LET e == IF acc = None THEN None ELSE Elem(acc[1], i)
      half == Copied(acc, j, i)
  IN  IF e = None \/ half = None THEN None ELSE Some(WithElem(half[1], j, e[1]))

push(v) ==
  /\ Keeps /\ len < MaxLen
  /\ Stores(WithLen(WithElem(store, len, v), VecField, len + 1))
  /\ Returns(<<>>)

pop ==
  /\ Keeps
  /\ \/ len = 0 /\ Stores(store) /\ Returns(None)
     \/ len > 0 /\ Stores(WithLen(store, VecField, len - 1)) /\ Returns(Elem(store, len - 1))

\* A loop of copies: round n copies the element moves[n][1] to moves[n][2].
Moved(moves) ==
  LET after[n \in 0 .. Len(moves)] ==
        IF n = 0 THEN Some(store) ELSE Copied(after[n - 1], moves[n][1], moves[n][2])
  IN  after[Len(moves)]

\* The elements above the removed one move down, the lowest first.
ShiftedDown(i) == Moved([n \in 1 .. (len - 1 - i) |-> <<i + n, i + n - 1>>])

remove(i) ==
  /\ Keeps
  /\ LET removed == IF i < len THEN Elem(store, i) ELSE None
         shifted == IF removed = None THEN None ELSE ShiftedDown(i)
     IN  Ends(IF shifted = None THEN None ELSE Some(WithLen(shifted[1], VecField, len - 1)), removed)

swap_remove(i) ==
  /\ Keeps
  /\ LET ok == i < len /\ Elem(store, i) # None /\ Elem(store, len - 1) # None
     IN  \/ /\ ok
            /\ Stores(WithLen(WithElem(store, i, Elem(store, len - 1)[1]), VecField, len - 1))
            /\ Returns(Elem(store, i))
         \/ ~ok /\ Reverts

set(i, v) ==
  /\ Keeps
  /\ \/ i < len /\ Stores(WithElem(store, i, v)) /\ Returns(<<>>)
     \/ i >= len /\ Reverts

\* The elements from i on move up, the highest first.
ShiftedUp(i) == Moved([n \in 1 .. (len - i) |-> <<len - n, len - n + 1>>])

insert(i, v) ==
  /\ Keeps /\ len < MaxLen
  /\ LET shifted == IF i <= len THEN ShiftedUp(i) ELSE None
     IN  Ends(IF shifted = None THEN None
              ELSE Some(WithLen(WithElem(shifted[1], i, v), VecField, len + 1)), <<>>)

swap(i, j) ==
  /\ Keeps
  /\ \/ i < len /\ j < len /\ i # j /\ Ends(Exchanged(Some(store), i, j), <<>>)
     \/ i < len /\ i = j /\ Stores(store) /\ Returns(<<>>)
     \/ (i >= len \/ j >= len) /\ Reverts

\* The elements change places from both ends on to the middle.
Reversed ==
  LET after[n \in 0 .. (len \div 2)] ==
        IF n = 0 THEN Some(store) ELSE Exchanged(after[n - 1], n - 1, len - n)
  IN  after[len \div 2]

reverse == Keeps /\ Ends(Reversed, <<>>)

\* A loop that writes v to n elements from i on.
Filled(i, n, v) ==
  LET after[k \in 0 .. n] == IF k = 0 THEN store ELSE WithElem(after[k - 1], i + k - 1, v)
  IN  after[n]

fill(v) == Keeps /\ Stores(Filled(0, len, v)) /\ Returns(<<>>)

resize(new_len, v) ==
  /\ Keeps
  /\ LET grown == Filled(len, IF len < new_len THEN new_len - len ELSE 0, v)
     IN  Stores(WithLen(grown, VecField, new_len))
  /\ Returns(<<>>)

\* store_vec and load_vec move the elements as one slice, an element smaller
\* than a word padded to a word.
StrideBytes == IF type.size < 8 THEN 8 ELSE type.size
SlotsOfVec(n) == (n * StrideBytes + 31) \div 32

\* The slice in memory, zero up to a whole number of slots.
VecBuffer(s) ==
  LET stride == StrideBytes \div 8
  IN  [a \in 0 .. (4 * SlotsOfVec(Len(s)) - 1) |->
         IF a \div stride < Len(s) /\ a % stride < Words(type)
         THEN s[a \div stride + 1][a % stride] ELSE 0]

store_vec(s) ==
  /\ Keeps
  /\ Stores(WithLen([store EXCEPT ![VecData] = StoreQuad(@, 0, SlotsOfVec(Len(s)), VecBuffer(s))],
                    VecField, Len(s)))
  /\ Returns(<<>>)

LoadedVec ==
  LET buffer == LoadQuad(store[VecData], 0, SlotsOfVec(len))
      stride == StrideBytes \div 8
  IN  [i \in 1 .. len |-> [w \in 0 .. (Words(type) - 1) |-> buffer[(i - 1) * stride + w]]]

load_vec ==
  /\ Keeps
  /\ \/ (len = 0 \/ type.size # 0) /\ Stores(store) /\ Returns(LoadedVec)
     \/ len # 0 /\ type.size = 0 /\ Reverts

\* get, first, last and the iterator return storage keys, which the contract reads.
get(i) == /\ Keeps /\ Stores(store)
          /\ Returns(IF len <= i THEN None ELSE Elem(store, i))
first == /\ Keeps /\ Stores(store)
         /\ Returns(IF len = 0 THEN None ELSE Read(store[VecData], type, 0))

\* Mutant: the index of the last element is one too high.
last_at_len == /\ Keeps /\ Stores(store)
               /\ Returns(IF len = 0 THEN None ELSE Elem(store, len))

last == /\ Keeps /\ Stores(store)
        /\ Returns(IF len = 0 THEN None ELSE Elem(store, len - 1))
iter == /\ Keeps /\ Stores(store)
        /\ Returns([i \in 1 .. len |-> Elem(store, i - 1)])
length == Keeps /\ Stores(store) /\ Returns(<<len>>)

\* get(i).clear().  Its slots are cleared whole, so the contract does this only
\* where an element has slots of its own.
clear_at(i) ==
  /\ Keeps
  /\ type.size # 0 /\ type.size % 32 = 0 /\ i < len
  /\ Stores([store EXCEPT ![VecData] = Clear(@, type, OffsetCalculator(type, i))])
  /\ Returns(<<>>)

\* clear() of the storage key of the vector: a type without size, so the length goes.
clear_vec ==
  /\ Keeps
  /\ Stores([store EXCEPT ![VecField] = Clear(@, U64, 0)])
  /\ Returns(<<>>)

-----------------------------------------------------------------------------
(* StorageMap                                                              *)

WithValue(k, v) == [store EXCEPT ![MapSlot(k)] = Write(@, type, 0, v)]

map_insert(k, v) == Keeps /\ Stores(WithValue(k, v)) /\ Returns(<<>>)

map_get(k) == Keeps /\ Stores(store) /\ Returns(Read(store[MapSlot(k)], type, 0))

map_remove(k) ==
  /\ Keeps
  /\ Stores([store EXCEPT ![MapSlot(k)] = Clear(@, type, 0)])
  /\ Returns(<<ClearReports(store[MapSlot(k)], type, 0)>>)

try_insert(k, v) ==
  /\ Keeps
  /\ LET val == Read(store[MapSlot(k)], type, 0)
     IN  \/ val # None /\ Stores(store) /\ Returns(<<"Err", val[1]>>)
         \/ val = None /\ Stores(WithValue(k, v)) /\ Returns(<<"Ok", v>>)

-----------------------------------------------------------------------------
(* StorageBytes and StorageString                                          *)

SlotsOfSlice(bytes) == (bytes + 31) \div 32

\* A slice is its number of bytes and its words.
write_slice(s) ==
  /\ Keeps
  /\ LET buffer == [a \in 0 .. (4 * SlotsOfSlice(s.len) - 1) |->
                      IF a \in DOMAIN s.words THEN s.words[a] ELSE 0]
     IN  Stores(WithLen([store EXCEPT ![SliceData] = StoreQuad(@, 0, SlotsOfSlice(s.len), buffer)],
                        SliceField, s.len))
  /\ Returns(<<>>)

SliceAt(n) ==
  LET buffer == LoadQuad(store[SliceData], 0, SlotsOfSlice(n))
  IN  [len |-> n, words |-> [w \in 0 .. ((n + 7) \div 8 - 1) |-> buffer[w]]]

StoredSlice ==
  LET n == LenAt(store, SliceField) IN IF n = 0 THEN None ELSE Some(SliceAt(n))

read_slice == Keeps /\ Stores(store) /\ Returns(StoredSlice)

clear_slice ==
  /\ Keeps
  /\ LET n == LenAt(store, SliceField)
     IN  Stores([store EXCEPT ![SliceField] = ClearQuad(@, 0, 1),
                              ![SliceData] = ClearQuad(@, 0, SlotsOfSlice(n))])
  /\ Returns(<<>>)

-----------------------------------------------------------------------------
(* What the collections promise, called in step with them.                 *)

VARIABLES vec, map, slice,  \* what the contract has stored
          expected          \* what the last call should return

Contract == INSTANCE ContractStorage WITH result <- expected

allVars == <<vars, vec, map, slice, expected>>

VecCall ==
  \/ \E v \in Values(type) :
       \/ push(v) /\ Contract!Push(v)
       \/ fill(v) /\ Contract!Fill(v)
  \/ \E i \in Indices, v \in Values(type) :
       \/ set(i, v) /\ Contract!Set(i, v)
       \/ insert(i, v) /\ Contract!Insert(i, v)
       \/ resize(i, v) /\ Contract!Resize(i, v)
  \/ \E i \in Indices :
       \/ remove(i) /\ Contract!RemoveIndex(i)
       \/ swap_remove(i) /\ Contract!SwapRemove(i)
       \/ get(i) /\ Contract!Get(i)
       \/ clear_at(i) /\ Contract!ClearAt(i)
  \/ \E i, j \in Indices : swap(i, j) /\ Contract!Swap(i, j)
  \/ \E n \in Indices : \E s \in [1 .. n -> Values(type)] :
       store_vec(s) /\ Contract!StoreVec(s)
  \/ pop /\ Contract!Pop
  \/ reverse /\ Contract!ReverseAll
  \/ load_vec /\ Contract!LoadVec
  \/ first /\ Contract!First
  \/ last /\ Contract!LastOf
  \/ iter /\ Contract!Iterate
  \/ length /\ Contract!LenOf
  \/ clear_vec /\ Contract!ClearVec

MapCall == \E k \in MapKeys :
  \/ \E v \in Values(type) :
       \/ map_insert(k, v) /\ Contract!MapInsert(k, v)
       \/ try_insert(k, v) /\ Contract!TryInsert(k, v)
  \/ map_get(k) /\ Contract!MapGet(k)
  \/ map_remove(k) /\ Contract!MapRemove(k)

SliceCall ==
  \/ \E s \in Slices : write_slice(s) /\ Contract!WriteSlice(s)
  \/ read_slice /\ Contract!ReadSlice
  \/ clear_slice /\ Contract!ClearSlice

Next == \/ field = "vec" /\ VecCall
        \/ field = "map" /\ MapCall
        \/ field = "bytes" /\ SliceCall

Init == Deployed /\ Contract!Init
Spec == Init /\ [][Next]_allVars

\* Whatever was called before, stale words above the length and in reused slots
\* included, the packed slots hold what the calls meant for a sequence, a
\* function and a slice: an element that shares a slot or straddles two is never
\* disturbed by a write to its neighbour, shifting copies overwrite no element
\* before it was moved, and store_vec lays the elements out where get finds them.
StoredAsPromised ==
  /\ vec = [i \in 1 .. len |-> Elem(store, i - 1)]
  /\ map = [k \in MapKeys |-> Read(store[MapSlot(k)], type, 0)]
  /\ slice = StoredSlice

\* Every call returns, or reverts, as the contract expects: an unwrap of an
\* element below the length fails only if the contract cleared it.
ReturnsAsPromised == result = expected
=============================================================================
