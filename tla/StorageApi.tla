------------------------------ MODULE StorageApi -----------------------------
(* The storage API of the standard library (storage/storage_api.sw): values *)
(* of a type are packed by words into 32-byte storage slots.               *)
(*                                                                         *)
(* A region is what lies behind one storage key: a function from the slot  *)
(* numbers that are set to their four words, slot number n standing for    *)
(* the key plus n.  Keys are hashes; that no two regions meet is taken     *)
(* from sha256.  A type is its size in bytes and whether it is a reference *)
(* type; a value is the words it fills, so what a byte does within a word  *)
(* is left out.                                                            *)
EXTENDS Integers

None == <<>>
Some(x) == <<x>>

\* The types: one of at most a word is a value type, all others are references.
IsType(t) == /\ t.size \in Nat
             /\ t.ref \in BOOLEAN
             /\ (~t.ref => t.size <= 8)

U64 == [size |-> 8, ref |-> FALSE]

\* The words a value fills.
Words(t) == (t.size + 7) \div 8

-----------------------------------------------------------------------------
(* The storage instructions of the virtual machine.                        *)

\* Are the n slots from first on all set?
AllSet(region, first, n) == first .. (first + n - 1) \subseteq DOMAIN region

\* __state_load_quad: the words of n slots; a slot that is not set reads as zero.
LoadQuad(region, first, n) ==
  [a \in 0 .. (4 * n - 1) |->
     IF first + (a \div 4) \in DOMAIN region
     THEN region[first + (a \div 4)][a % 4] ELSE 0]

\* __state_store_quad: n slots from a buffer of words.
StoreQuad(region, first, n, buffer) ==
  [s \in DOMAIN region \cup first .. (first + n - 1) |->
     IF s \in first .. (first + n - 1)
     THEN [w \in 0 .. 3 |-> buffer[4 * (s - first) + w]]
     ELSE region[s]]

\* __state_clear
ClearQuad(region, first, n) ==
  [s \in DOMAIN region \ first .. (first + n - 1) |-> region[s]]

-----------------------------------------------------------------------------
(* slot_calculator: the slots a value at a word offset spans, and the word *)
(* of the first of them it begins at.                                      *)

PlaceInSlot(offset) == offset % 4

LastSlot(t, offset) == (offset * 8 + t.size + 31) \div 32

NumberOfSlots(t, offset) ==
  IF t.ref THEN (PlaceInSlot(offset) * 8 + t.size + 31) \div 32 ELSE 1

FirstSlot(t, offset) == LastSlot(t, offset) - NumberOfSlots(t, offset)

\* Mutant: the buffer is not loaded with what the slots hold.
PaddedValueUnloaded(region, t, offset, value) ==
  [a \in 0 .. (4 * NumberOfSlots(t, offset) - 1) |->
     IF a - PlaceInSlot(offset) \in 0 .. (Words(t) - 1)
     THEN value[a - PlaceInSlot(offset)] ELSE 0]

\* The buffer of write: what the slots hold, the value copied over it.
PaddedValue(region, t, offset, value) ==
  LET old == LoadQuad(region, FirstSlot(t, offset), NumberOfSlots(t, offset))
  IN  [a \in DOMAIN old |->
         IF a - PlaceInSlot(offset) \in 0 .. (Words(t) - 1)
         THEN value[a - PlaceInSlot(offset)] ELSE old[a]]

Write(region, t, offset, value) ==
  IF t.size = 0 THEN region
  ELSE StoreQuad(region, FirstSlot(t, offset), NumberOfSlots(t, offset),
                 PaddedValue(region, t, offset, value))

Read(region, t, offset) ==
  IF t.size = 0 THEN None
  ELSE IF AllSet(region, FirstSlot(t, offset), NumberOfSlots(t, offset))
  THEN LET loaded == LoadQuad(region, FirstSlot(t, offset), NumberOfSlots(t, offset))
       IN  Some([w \in 0 .. (Words(t) - 1) |-> loaded[PlaceInSlot(offset) + w]])
  ELSE None

\* The slots are cleared whole, whatever else they hold.
Clear(region, t, offset) ==
  IF t.size = 0 THEN region
  ELSE ClearQuad(region, FirstSlot(t, offset), NumberOfSlots(t, offset))

\* Does clear report that all slots were set?
ClearReports(region, t, offset) ==
  t.size = 0 \/ AllSet(region, FirstSlot(t, offset), NumberOfSlots(t, offset))

\* offset_calculator: elements are padded to whole words.
OffsetCalculator(t, index) ==
  (index * ((t.size + 7) - ((t.size + 7) % 8))) \div 8
=============================================================================
