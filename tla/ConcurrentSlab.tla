--------------------------- MODULE ConcurrentSlab ---------------------------
(* The slab of sway-core/src/concurrent_slab.rs: a vector of items that may   *)
(* be empty, and a free list of the slots that garbage collection emptied.    *)
(* Every operation holds the slab's lock, so each is one operator here.  The  *)
(* free list is a stack in the code; which of its entries an insert pops does *)
(* not matter to anything proved here, so it is kept as the number of times a *)
(* slot occurs in it, and an insert may pop any of them.                      *)
EXTENDS Integers

CONSTANTS MaxItems,   \* bound of the model: slots of the vector
          NoItem      \* an emptied slot

ASSUME MaxItemsAssumption == MaxItems \in Nat

Slots == 0 .. MaxItems - 1

\* Default for Inner, and clear()
EmptySlab == [items |-> [i \in Slots |-> NoItem],
              len   |-> 0,
              free  |-> [i \in Slots |-> 0]]

Occupied(s) == {i \in Slots : s.items[i] # NoItem}

\* the slots insert_arc can use: one of the free list, else the next of the vector
InsertSlots(s) ==
    IF \E i \in Slots : s.free[i] > 0
    THEN {i \in Slots : s.free[i] > 0}
    ELSE Slots \cap {s.len}

(* Mutation: a slot is taken off the free list whether it is in it or not. *)
InsertArcUnchecked(s, i, v) ==
    [s EXCEPT !.items[i] = v, !.free[i] = @ - 1, !.len = IF i = s.len THEN @ + 1 ELSE @]

InsertArc(s, i, v) ==
    [items |-> [s.items EXCEPT ![i] = v],
     len   |-> IF s.free[i] > 0 THEN s.len ELSE s.len + 1,
     free  |-> IF s.free[i] > 0 THEN [s.free EXCEPT ![i] = @ - 1] ELSE s.free]

\* replace and replace_arc: whatever the slot holds, and without a look at the free list
Replace(s, i, v) == IF i < s.len THEN [s EXCEPT !.items[i] = v] ELSE s

(* Mutation: the slots that were empty before are put on the free list again. *)
RetainEmptied(s, kept) ==
    [items |-> [i \in Slots |-> IF i \in kept THEN s.items[i] ELSE NoItem],
     len   |-> s.len,
     free  |-> [i \in Slots |-> IF i < s.len /\ i \notin kept THEN s.free[i] + 1 ELSE s.free[i]]]

\* `kept` are the slots whose item satisfies the predicate
Retain(s, kept) ==
    LET dropped == Occupied(s) \ kept
    IN  [items |-> [i \in Slots |-> IF i \in dropped THEN NoItem ELSE s.items[i]],
         len   |-> s.len,
         free  |-> [i \in Slots |-> IF i \in dropped THEN s.free[i] + 1 ELSE s.free[i]]]

SlabOK(s, Items) ==
    s \in [items : [Slots -> Items \cup {NoItem}], len : 0 .. MaxItems, free : [Slots -> Nat]]

(* The free list holds exactly the emptied slots, each once: the assertion in *)
(* insert_arc never fires and an index in use is never given out again.       *)
FreeListExact(s) ==
    /\ \A i \in Slots : s.free[i] = IF i < s.len /\ s.items[i] = NoItem THEN 1 ELSE 0
    /\ \A i \in Slots : i >= s.len => s.items[i] = NoItem
=============================================================================
