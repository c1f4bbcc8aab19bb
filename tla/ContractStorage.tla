--------------------------- MODULE ContractStorage ---------------------------
(* What the storage collections of the standard library promise a contract: *)
(* a vector is a sequence, a map is a function of its keys, a stored slice   *)
(* is the last one written.  No slots, no offsets, no stale words.           *)
(*                                                                           *)
(* An element is None once its storage key was cleared, and always when the  *)
(* element type has no size; a call that unwraps it reverts, and a reverted  *)
(* call changes nothing.                                                     *)
EXTENDS Integers, Sequences

CONSTANTS Types,        \* element types
          MapKeys,
          MaxLen        \* bound on the vector

VARIABLES type,         \* the element type of the contract's collections
          vec, map, slice,
          result        \* what the last call returned

Nothing == <<>>
Just(x) == <<x>>

Returns(x) == result' = [ok |-> TRUE, val |-> x]
Reverts == result' = [ok |-> FALSE, val |-> <<>>] /\ UNCHANGED <<type, vec, map, slice>>

Len0 == Len(vec)
At(i) == vec[i + 1]
Holds(v) == IF type.size = 0 THEN Nothing ELSE Just(v)

VecBecomes(s) == vec' = s /\ UNCHANGED <<type, map, slice>>
Same == UNCHANGED <<type, vec, map, slice>>

\* Are the elements of indices is all there?
There(is) == \A i \in is : At(i) # Nothing

Init ==
  /\ type \in Types
  /\ vec = <<>>
  /\ map = [k \in MapKeys |-> Nothing]
  /\ slice = Nothing
  /\ result = [ok |-> TRUE, val |-> <<>>]

-----------------------------------------------------------------------------
Push(v) == /\ Len0 < MaxLen
           /\ VecBecomes(Append(vec, Holds(v)))
           /\ Returns(<<>>)

Pop == \/ Len0 = 0 /\ Same /\ Returns(Nothing)
       \/ Len0 > 0 /\ VecBecomes(SubSeq(vec, 1, Len0 - 1)) /\ Returns(At(Len0 - 1))

RemoveIndex(i) ==
  \/ /\ i < Len0 /\ There(i .. (Len0 - 1))
     /\ VecBecomes([k \in 1 .. (Len0 - 1) |-> IF k <= i THEN vec[k] ELSE vec[k + 1]])
     /\ Returns(At(i))
  \/ ~(i < Len0 /\ There(i .. (Len0 - 1))) /\ Reverts

SwapRemove(i) ==
  \/ /\ i < Len0 /\ There({i, Len0 - 1})
     /\ VecBecomes([k \in 1 .. (Len0 - 1) |-> IF k = i + 1 THEN vec[Len0] ELSE vec[k]])
     /\ Returns(At(i))
  \/ ~(i < Len0 /\ There({i, Len0 - 1})) /\ Reverts

Set(i, v) ==
  \/ i < Len0 /\ VecBecomes([vec EXCEPT ![i + 1] = Holds(v)]) /\ Returns(<<>>)
  \/ i >= Len0 /\ Reverts

Insert(i, v) ==
  /\ Len0 < MaxLen
  /\ \/ /\ i <= Len0 /\ There(i .. (Len0 - 1))
        /\ VecBecomes([k \in 1 .. (Len0 + 1) |-> IF k <= i THEN vec[k]
                                               ELSE IF k = i + 1 THEN Holds(v) ELSE vec[k - 1]])
        /\ Returns(<<>>)
     \/ ~(i <= Len0 /\ There(i .. (Len0 - 1))) /\ Reverts

Swap(i, j) ==
  \/ /\ i < Len0 /\ j < Len0 /\ (i # j => There({i, j}))
     /\ VecBecomes([vec EXCEPT ![i + 1] = At(j), ![j + 1] = At(i)])
     /\ Returns(<<>>)
  \/ ~(i < Len0 /\ j < Len0 /\ (i # j => There({i, j}))) /\ Reverts

\* The middle one of an odd number of elements is not looked at.
Reversible == There({i \in 0 .. (Len0 - 1) : 2 * i + 1 # Len0})

ReverseAll ==
  \/ Reversible /\ VecBecomes([k \in 1 .. Len0 |-> vec[Len0 + 1 - k]]) /\ Returns(<<>>)
  \/ ~Reversible /\ Reverts

Fill(v) == VecBecomes([i \in 1 .. Len0 |-> Holds(v)]) /\ Returns(<<>>)

Resize(n, v) ==
  /\ VecBecomes([i \in 1 .. n |-> IF i <= Len0 THEN vec[i] ELSE Holds(v)])
  /\ Returns(<<>>)

StoreVec(s) == VecBecomes([i \in 1 .. Len(s) |-> Holds(s[i])]) /\ Returns(<<>>)

\* An element that is not there is loaded as zeros.
Loaded(e) == IF e = Nothing THEN [w \in 0 .. ((type.size + 7) \div 8 - 1) |-> 0] ELSE e[1]

LoadVec ==
  \/ (Len0 = 0 \/ type.size # 0) /\ Same /\ Returns([i \in 1 .. Len0 |-> Loaded(vec[i])])
  \/ ~(Len0 = 0 \/ type.size # 0) /\ Reverts

\* get(i), first(), last() and the iterator, each read through its storage key.
Get(i) == Same /\ Returns(IF i < Len0 THEN At(i) ELSE Nothing)
First == Same /\ Returns(IF Len0 = 0 THEN Nothing ELSE At(0))
LastOf == Same /\ Returns(IF Len0 = 0 THEN Nothing ELSE At(Len0 - 1))
LenOf == Same /\ Returns(<<Len0>>)
Iterate == Same /\ Returns(vec)

\* Only an element that has its slots to itself is cleared alone.
ClearAt(i) == /\ type.size # 0 /\ type.size % 32 = 0 /\ i < Len0
              /\ VecBecomes([vec EXCEPT ![i + 1] = Nothing])
              /\ Returns(<<>>)

ClearVec == VecBecomes(<<>>) /\ Returns(<<>>)

-----------------------------------------------------------------------------
MapBecomes(m) == map' = m /\ UNCHANGED <<type, vec, slice>>

MapInsert(k, v) == MapBecomes([map EXCEPT ![k] = Holds(v)]) /\ Returns(<<>>)
MapGet(k) == Same /\ Returns(map[k])
MapRemove(k) == /\ MapBecomes([map EXCEPT ![k] = Nothing])
                /\ Returns(<<type.size = 0 \/ map[k] # Nothing>>)
TryInsert(k, v) ==
  \/ map[k] = Nothing /\ MapBecomes([map EXCEPT ![k] = Holds(v)]) /\ Returns(<<"Ok", v>>)
  \/ map[k] # Nothing /\ Same /\ Returns(<<"Err", map[k][1]>>)

\* An empty slice is read back as none.
WriteSlice(s) == /\ slice' = IF s.len = 0 THEN Nothing ELSE Just(s)
                 /\ UNCHANGED <<type, vec, map>>
                 /\ Returns(<<>>)
ReadSlice == Same /\ Returns(slice)
ClearSlice == slice' = Nothing /\ UNCHANGED <<type, vec, map>> /\ Returns(<<>>)
=============================================================================
