-------------------------- MODULE TypeEngine_proofs --------------------------
(* Proofs about TypeEngine, for any number of types, modules and unifications: *)
(* the free list of the slab is exact, a shared type is in its slot, and a     *)
(* shared struct type never points to a collected type or to one that unification *)
(* may still replace; and a block whose unifications were applied again until  *)
(* nothing changed has made their types equal.                                 *)
EXTENDS TypeEngine, TLAPS, WellFoundedInduction

(* Reach, as the least set that holds the ids and their arguments. *)
LEMMA ReachHolds ==
    ASSUME NEW items, NEW ids \in SUBSET Slots
    PROVE  /\ Reach(items, ids) \subseteq Slots
           /\ ids \subseteq Reach(items, ids)
    BY Zenon DEF Reach

LEMMA ReachClosed ==
    ASSUME NEW items, NEW ids \in SUBSET Slots,
           \A i \in Slots : items[i] # NoItem => ArgIds(items[i].info) \subseteq Slots
    PROVE  ArgsWithin(items, Reach(items, ids))
    BY Zenon DEF Reach, ArgsWithin

LEMMA ReachLeast ==
    ASSUME NEW items, NEW ids, NEW W \in SUBSET Slots,
           ids \subseteq W, ArgsWithin(items, W)
    PROVE  Reach(items, ids) \subseteq W
    BY Zenon DEF Reach

(* What is reached does not change when the types it consists of do not. *)
LEMMA ReachKept ==
    ASSUME NEW items, NEW items2, NEW ids \in SUBSET Slots,
           \A i \in Slots : items[i] # NoItem => ArgIds(items[i].info) \subseteq Slots,
           \A i \in Reach(items, ids) : items2[i] = items[i]
    PROVE  Reach(items2, ids) \subseteq Reach(items, ids)
<1>1. ArgsWithin(items2, Reach(items, ids))
  BY ReachClosed, Zenon DEF ArgsWithin
<1> QED
  BY <1>1, ReachHolds, ReachLeast, Zenon

-----------------------------------------------------------------------------
(* The operations of the slab keep its type and its free list. *)

LEMMA InsertArcKeeps ==
    ASSUME NEW Items, NEW s, SlabOK(s, Items), FreeListExact(s), NoItem \notin Items,
           NEW v \in Items, NEW i \in InsertSlots(s)
    PROVE  /\ i \in Slots /\ s.items[i] = NoItem
           /\ SlabOK(InsertArc(s, i, v), Items)
           /\ FreeListExact(InsertArc(s, i, v))
           /\ InsertArc(s, i, v).items = [s.items EXCEPT ![i] = v]
<1> USE MaxItemsAssumption
<1>1. i \in Slots
  BY Zenon DEF InsertSlots
<1>2. CASE s.free[i] > 0
  <2>1. s.free[i] = 1 /\ i < s.len /\ s.items[i] = NoItem
    BY <1>1, <1>2, SMTT(30) DEF FreeListExact
  <2>2. InsertArc(s, i, v) = [items |-> [s.items EXCEPT ![i] = v], len |-> s.len,
                              free |-> [s.free EXCEPT ![i] = 0]]
    BY <1>1, <1>2, <2>1, SMTT(30) DEF InsertArc, SlabOK, Slots
  <2> QED
    BY <1>1, <2>1, <2>2, SMTT(30) DEF SlabOK, FreeListExact, Slots
<1>3. CASE ~(s.free[i] > 0)
  <2>1. i = s.len /\ s.free[i] = 0 /\ s.items[i] = NoItem
    BY <1>1, <1>3, SMTT(30) DEF InsertSlots, SlabOK, FreeListExact, Slots
  <2>2. InsertArc(s, i, v) = [items |-> [s.items EXCEPT ![i] = v], len |-> s.len + 1,
                              free |-> s.free]
    BY <1>1, <1>3, <2>1, Zenon DEF InsertArc, SlabOK, Slots
  <2> QED
    BY <1>1, <2>1, <2>2, SMTT(30) DEF SlabOK, FreeListExact, Slots
<1> QED
  BY <1>2, <1>3, Zenon

LEMMA ReplaceKeeps ==
    ASSUME NEW Items, NEW s, SlabOK(s, Items), FreeListExact(s), NoItem \notin Items,
           NEW v \in Items, NEW i \in Slots, s.items[i] # NoItem
    PROVE  /\ SlabOK(Replace(s, i, v), Items)
           /\ FreeListExact(Replace(s, i, v))
           /\ Replace(s, i, v).items = [s.items EXCEPT ![i] = v]
<1> USE MaxItemsAssumption
<1>1. i < s.len
  BY SMTT(30) DEF FreeListExact, SlabOK, Slots
<1>2. Replace(s, i, v) = [items |-> [s.items EXCEPT ![i] = v], len |-> s.len, free |-> s.free]
  BY <1>1, Zenon DEF Replace, SlabOK
<1> QED
  BY <1>1, <1>2, SMTT(30) DEF SlabOK, FreeListExact, Slots

LEMMA RetainKeeps ==
    ASSUME NEW Items, NEW s, SlabOK(s, Items), FreeListExact(s), NoItem \notin Items,
           NEW kept
    PROVE  /\ SlabOK(Retain(s, kept), Items)
           /\ FreeListExact(Retain(s, kept))
           /\ \A i \in Slots : Retain(s, kept).items[i] = IF i \in kept THEN s.items[i] ELSE NoItem
<1> USE MaxItemsAssumption
<1>1. \A i \in Occupied(s) : i < s.len /\ s.free[i] = 0
  BY SMTT(30) DEF Occupied, FreeListExact, SlabOK, Slots
<1>2. SlabOK(Retain(s, kept), Items)
  BY SMTT(30) DEF SlabOK, Retain
<1>3. FreeListExact(Retain(s, kept))
  BY <1>1, SMTT(30) DEF FreeListExact, SlabOK, Slots, Retain, Occupied
<1> QED
  BY <1>2, <1>3, Zenon DEF Occupied, Retain

-----------------------------------------------------------------------------
(* The inductive invariant. *)

(* A shared type is not one that unification may replace. *)
SharedClosed == \A t \in DOMAIN shareable : ~IsReplaceable(t.info)

(* What a struct type of the module m depends on is there, closed, and bound  *)
(* to no other module.                                                        *)
StructSafe(items, t) ==
    \A i \in Reach(items, ArgIds(t.info)) :
        /\ items[i] # NoItem
        /\ ~IsReplaceable(items[i].info)
        /\ items[i].src \in {NoSource, DeclModule[t.info.name]}
StructsSafe ==
    \A t \in DOMAIN shareable :
        t.info.kind = "struct" /\ t.src = DeclModule[t.info.name] => StructSafe(slab.items, t)

(* The types of the unifications of a block are there, with all they depend   *)
(* on: a set of slots that holds them and is closed under arguments.          *)
WholeSet(items, W) ==
    /\ W \subseteq Slots
    /\ \A i \in W : items[i] # NoItem /\ ArgIds(items[i].info) \subseteq W
InBlock(W) ==
    /\ \A k \in DOMAIN calls : calls[k].received \in W /\ calls[k].expected \in W
    /\ \A k \in DOMAIN unifications :
          unifications[k].received \in W /\ unifications[k].expected \in W
CallsWhole == \E W \in SUBSET Slots : WholeSet(slab.items, W) /\ InBlock(W)

(* Nothing waits outside a block. *)
Quiet ==
    /\ calls # <<>> => phase \in {"first", "reapply"}
    /\ phase = "idle" => unifications = <<>>

IInv ==
    /\ TypeOK /\ FreeSlotsExact /\ SharedInPlace
    /\ SharedClosed /\ StructsSafe /\ CallsWhole /\ Quiet

LEMMA ArgIdsInSlots ==
    ASSUME NEW info \in TypeInfos
    PROVE  ArgIds(info) \in SUBSET Slots
<1>1. info.args \in Seq(TypeArgs)
  BY Zenon DEF TypeInfos
<1>2. \A k \in DOMAIN info.args : info.args[k] \in TypeArgs
  BY <1>1, SMTT(30)
<1>3. \A k \in DOMAIN info.args : info.args[k].id \in Slots
  BY <1>2, Zenon DEF TypeArgs
<1> QED
  BY <1>3, Zenon DEF ArgIds

LEMMA ItemsTyped ==
    ASSUME NEW items \in [Slots -> TypeSourceInfos \cup {NoItem}]
    PROVE  \A i \in Slots : items[i] # NoItem => ArgIds(items[i].info) \subseteq Slots
<1> SUFFICES ASSUME NEW i \in Slots, items[i] # NoItem
             PROVE  ArgIds(items[i].info) \subseteq Slots
  BY Zenon
<1>1. items[i].info \in TypeInfos
  BY Zenon DEF TypeSourceInfos
<1> QED
  BY <1>1, ArgIdsInSlots, Zenon

(* Where every type that is reached is there, what is reached is a whole set. *)
LEMMA WholeReach ==
    ASSUME NEW items \in [Slots -> TypeSourceInfos \cup {NoItem}], NEW ids \in SUBSET Slots,
           Whole(items, ids)
    PROVE  WholeSet(items, Reach(items, ids)) /\ ids \subseteq Reach(items, ids)
<1>1. ArgsWithin(items, Reach(items, ids))
  BY ItemsTyped, ReachClosed, Zenon
<1> QED
  BY <1>1, ReachHolds, Zenon DEF Whole, WholeSet, ArgsWithin

LEMMA WholeSetReach ==
    ASSUME NEW items, NEW W \in SUBSET Slots, WholeSet(items, W), NEW i \in W
    PROVE  Whole(items, ArgIds(items[i].info))
<1>1. ArgsWithin(items, W)
  BY Zenon DEF WholeSet, ArgsWithin
<1>2. Reach(items, ArgIds(items[i].info)) \subseteq W
  BY <1>1, ReachLeast, Zenon DEF WholeSet
<1> QED
  BY <1>2, Zenon DEF Whole, WholeSet

(* A change of the slab that overwrites only empty slots and types that may   *)
(* be replaced, with at most one new entry of the shareable types.            *)
Grows ==
    /\ \A i \in Slots : \/ slab'.items[i] = slab.items[i]
                        \/ slab.items[i] = NoItem
                        \/ IsReplaceable(slab.items[i].info)
    /\ \/ shareable' = shareable
       \/ \E tsi \in TypeSourceInfos, i \in Slots :
             /\ shareable' = Share(tsi, i)
             /\ slab'.items[i] = tsi
             /\ IsTypeShareable(slab.items, tsi.info)
             /\ Whole(slab.items, ArgIds(tsi.info))

LEMMA SafeKept ==
    ASSUME SlabOK(slab, TypeSourceInfos), Grows,
           NEW t \in TypeSourceInfos, StructSafe(slab.items, t)
    PROVE  StructSafe(slab'.items, t)
<1> DEFINE R == Reach(slab.items, ArgIds(t.info))
<1>1. ArgIds(t.info) \in SUBSET Slots
  BY ArgIdsInSlots, Zenon DEF TypeSourceInfos
<1>2. slab.items \in [Slots -> TypeSourceInfos \cup {NoItem}]
  BY Zenon DEF SlabOK
<1>3. R \subseteq Slots
  BY <1>1, ReachHolds, SMTT(30)
<1>4. \A i \in R : slab'.items[i] = slab.items[i]
  BY <1>3, Zenon DEF Grows, StructSafe
<1>5. Reach(slab'.items, ArgIds(t.info)) \subseteq R
  BY <1>1, <1>2, <1>4, ItemsTyped, ReachKept, Zenon
<1> QED
  BY <1>4, <1>5, Zenon DEF StructSafe

LEMMA ShareableIsSafe ==
    ASSUME NEW items, NEW t, t.info.kind = "struct",
           IsTypeShareable(items, t.info), Whole(items, ArgIds(t.info))
    PROVE  StructSafe(items, t)
    BY Zenon DEF IsTypeShareable, IsTypeChangeable, ChangeableAtTop, ModuleMightOutlive, Whole, StructSafe

LEMMA SharedKept ==
    ASSUME TypeOK, SharedInPlace, SharedClosed, StructsSafe, Grows
    PROVE  SharedInPlace' /\ SharedClosed' /\ StructsSafe'
           /\ DOMAIN shareable' \subseteq TypeSourceInfos
           /\ \A t \in DOMAIN shareable' : shareable'[t] \in Slots
<1> SUFFICES ASSUME NEW t \in DOMAIN shareable'
             PROVE  /\ t \in TypeSourceInfos /\ shareable'[t] \in Slots
                    /\ slab'.items[shareable'[t]] = t
                    /\ ~IsReplaceable(t.info)
                    /\ t.info.kind = "struct" /\ t.src = DeclModule[t.info.name]
                         => StructSafe(slab'.items, t)
  BY Zenon DEF SharedInPlace, SharedClosed, StructsSafe
<1>1. CASE t \in DOMAIN shareable /\ shareable'[t] = shareable[t]
  <2>1. t \in TypeSourceInfos /\ shareable[t] \in Slots
    BY <1>1, Zenon DEF TypeOK
  <2>2. slab.items[shareable[t]] = t /\ ~IsReplaceable(t.info) /\ t # NoItem
    BY <1>1, <2>1, NoItemAssumption, Zenon DEF SharedInPlace, SharedClosed
  <2>3. slab'.items[shareable[t]] = t
    BY <2>1, <2>2, Zenon DEF Grows
  <2>4. t.info.kind = "struct" /\ t.src = DeclModule[t.info.name] => StructSafe(slab'.items, t)
    BY <1>1, <2>1, SafeKept, Zenon DEF TypeOK, StructsSafe
  <2> QED
    BY <1>1, <2>1, <2>2, <2>3, <2>4, Zenon
<1>2. CASE ~(t \in DOMAIN shareable /\ shareable'[t] = shareable[t])
  <2>1. PICK tsi \in TypeSourceInfos, i \in Slots :
          /\ shareable' = Share(tsi, i)
          /\ slab'.items[i] = tsi
          /\ IsTypeShareable(slab.items, tsi.info)
          /\ Whole(slab.items, ArgIds(tsi.info))
    BY <1>2, Zenon DEF Grows
  <2>2. t = tsi /\ shareable'[t] = i
    BY <1>2, <2>1, Zenon DEF Share
  <2>3. ~IsReplaceable(t.info)
    BY <2>1, <2>2, Zenon DEF IsTypeShareable, IsTypeChangeable, ChangeableAtTop
  <2>4. t.info.kind = "struct" => StructSafe(slab.items, t)
    BY <2>1, <2>2, ShareableIsSafe, Zenon
  <2>5. t.info.kind = "struct" => StructSafe(slab'.items, t)
    BY <2>2, <2>4, SafeKept, Zenon DEF TypeOK
  <2> QED
    BY <2>1, <2>2, <2>3, <2>5, Zenon
<1> QED
  BY <1>1, <1>2, Zenon

-----------------------------------------------------------------------------
(* insert_or_replace_type_source_info *)

LEMMA InsertTsiGrows ==
    ASSUME TypeOK, FreeSlotsExact, NEW tsi \in TypeSourceInfos, NEW isShareable \in BOOLEAN,
           InsertTsi(tsi, isShareable),
           isShareable => IsTypeShareable(slab.items, tsi.info) /\ Whole(slab.items, ArgIds(tsi.info))
    PROVE  /\ SlabOK(slab', TypeSourceInfos) /\ FreeSlotsExact' /\ Grows
           /\ \A W \in SUBSET Slots : WholeSet(slab.items, W) => WholeSet(slab'.items, W)
<1>0. SlabOK(slab, TypeSourceInfos) /\ FreeListExact(slab) /\ NoItem \notin TypeSourceInfos
  BY NoItemAssumption, Zenon DEF TypeOK, FreeSlotsExact
<1>1. PICK i \in InsertSlots(slab) : /\ slab' = InsertArc(slab, i, tsi)
                                     /\ shareable' = IF isShareable THEN Share(tsi, i) ELSE shareable
  BY Zenon DEF InsertTsi
<1>2. /\ i \in Slots /\ slab.items[i] = NoItem
      /\ SlabOK(slab', TypeSourceInfos) /\ FreeListExact(slab')
      /\ slab'.items = [slab.items EXCEPT ![i] = tsi]
  BY <1>0, <1>1, InsertArcKeeps, SMTT(30)
<1>3. slab.items \in [Slots -> TypeSourceInfos \cup {NoItem}]
  BY Zenon DEF TypeOK, SlabOK
<1>4. \A j \in Slots : j # i => slab'.items[j] = slab.items[j]
  BY <1>2, <1>3, Zenon
<1>5. slab'.items[i] = tsi
  BY <1>2, <1>3, Zenon
<1>6. Grows
  BY <1>1, <1>2, <1>4, <1>5, Zenon DEF Grows
<1>7. \A W \in SUBSET Slots : WholeSet(slab.items, W) => WholeSet(slab'.items, W)
  BY <1>2, <1>4, Zenon DEF WholeSet
<1> QED
  BY <1>2, <1>6, <1>7, Zenon DEF FreeSlotsExact

LEMMA SharedKeyFound ==
    ASSUME TypeOK, NEW tsi, SharedKey(tsi) # NoItem
    PROVE  /\ SharedKey(tsi) \in TypeSourceInfos
           /\ Whole(slab.items, ArgIds(SharedKey(tsi).info))
<1> DEFINE found == {t \in DOMAIN shareable :
                       Whole(slab.items, ArgIds(t.info)) /\ TsiEqual(slab.items, t, tsi)}
<1>1. found # {} /\ SharedKey(tsi) = CHOOSE t \in found : TRUE
  BY Zenon DEF SharedKey
<1>2. SharedKey(tsi) \in found
  BY <1>1, Zenon
<1> QED
  BY <1>2, Zenon DEF TypeOK

(* A type of a whole set is replaced by one whose arguments are in it. *)
LEMMA WholeSetReplace ==
    ASSUME NEW items \in [Slots -> TypeSourceInfos \cup {NoItem}],
           NEW items2 \in [Slots -> TypeSourceInfos \cup {NoItem}],
           NEW W \in SUBSET Slots, WholeSet(items, W), NEW at \in W, NEW t \in TypeSourceInfos,
           items2[at] = t, ArgIds(t.info) \subseteq W,
           \A i \in Slots : i # at => items2[i] = items[i] \/ items[i] = NoItem
    PROVE  WholeSet(items2, W)
    BY NoItemAssumption, Zenon DEF WholeSet

LEMMA WholeSetUnion ==
    ASSUME NEW items, NEW W \in SUBSET Slots, NEW V \in SUBSET Slots,
           WholeSet(items, W), WholeSet(items, V)
    PROVE  WholeSet(items, W \cup V)
    BY Zenon DEF WholeSet

LEMMA ReplaceTsiGrows ==
    ASSUME TypeOK, FreeSlotsExact, NEW tsi \in TypeSourceInfos,
           NEW W \in SUBSET Slots, WholeSet(slab.items, W), NEW at \in W,
           IsReplaceable(slab.items[at].info),
           ArgIds(tsi.info) \subseteq W, Whole(slab.items, ArgIds(tsi.info)),
           ReplaceTsi(at, tsi, IsTypeShareable(slab.items, tsi.info))
    PROVE  /\ SlabOK(slab', TypeSourceInfos) /\ FreeSlotsExact' /\ Grows
           /\ \E V \in SUBSET Slots : W \subseteq V /\ WholeSet(slab'.items, V)
<1>0. /\ slab.items \in [Slots -> TypeSourceInfos \cup {NoItem}]
      /\ SlabOK(slab, TypeSourceInfos) /\ FreeListExact(slab)
      /\ NoItem \notin TypeSourceInfos
  BY NoItemAssumption, Zenon DEF TypeOK, SlabOK, FreeSlotsExact
<1>1. at \in Slots /\ slab.items[at] # NoItem
  BY Zenon DEF WholeSet
<1>2. CASE slab' = Replace(slab, at, tsi) /\ shareable' = shareable
  <2>1. /\ SlabOK(slab', TypeSourceInfos) /\ FreeListExact(slab')
        /\ slab'.items = [slab.items EXCEPT ![at] = tsi]
    BY <1>0, <1>1, <1>2, ReplaceKeeps, SMTT(30)
  <2>2. slab'.items \in [Slots -> TypeSourceInfos \cup {NoItem}] /\ slab'.items[at] = tsi
        /\ \A i \in Slots : i # at => slab'.items[i] = slab.items[i]
    BY <1>0, <1>1, <2>1, Zenon
  <2>3. WholeSet(slab'.items, W)
    BY <1>0, <2>2, WholeSetReplace, SMTT(30)
  <2>4. Grows
    BY <1>2, <2>2, Zenon DEF Grows
  <2> QED
    BY <2>1, <2>3, <2>4, Zenon DEF FreeSlotsExact
<1>3. CASE slab' = Replace(slab, at, SharedKey(tsi)) /\ shareable' = shareable /\ SharedKey(tsi) # NoItem
  <2> DEFINE t == SharedKey(tsi)
             V == Reach(slab.items, ArgIds(t.info))
  <2>0. t \in TypeSourceInfos /\ Whole(slab.items, ArgIds(t.info)) /\ ArgIds(t.info) \in SUBSET Slots
    BY <1>3, SharedKeyFound, ArgIdsInSlots, Zenon DEF TypeSourceInfos
  <2>1. /\ SlabOK(slab', TypeSourceInfos) /\ FreeListExact(slab')
        /\ slab'.items = [slab.items EXCEPT ![at] = t]
    BY <1>0, <1>1, <1>3, <2>0, ReplaceKeeps, SMTT(30)
  <2>2. slab'.items \in [Slots -> TypeSourceInfos \cup {NoItem}] /\ slab'.items[at] = t
        /\ \A i \in Slots : i # at => slab'.items[i] = slab.items[i]
    BY <1>0, <1>1, <2>0, <2>1, Zenon
  <2>3. V \in SUBSET Slots /\ WholeSet(slab.items, V) /\ ArgIds(t.info) \subseteq V
    BY <1>0, <2>0, WholeReach, ReachHolds, SMTT(30)
  <2>4. WholeSet(slab.items, W \cup V)
    BY <2>3, WholeSetUnion, Zenon
  <2> HIDE DEF t, V
  <2>5. WholeSet(slab'.items, W \cup V)
    BY <1>0, <2>0, <2>2, <2>3, <2>4, WholeSetReplace, SMTT(30)
  <2>6. Grows
    BY <1>3, <2>2, Zenon DEF Grows
  <2> QED
    BY <2>1, <2>3, <2>5, <2>6, Zenon DEF FreeSlotsExact
<1>4. ASSUME NEW i \in InsertSlots(slab), IsTypeShareable(slab.items, tsi.info),
             slab' = Replace(InsertArc(slab, i, tsi), at, tsi), shareable' = Share(tsi, i)
      PROVE  /\ SlabOK(slab', TypeSourceInfos) /\ FreeSlotsExact' /\ Grows
             /\ \E V \in SUBSET Slots : W \subseteq V /\ WholeSet(slab'.items, V)
  <2> DEFINE s == InsertArc(slab, i, tsi)
  <2>1. /\ i \in Slots /\ slab.items[i] = NoItem
        /\ SlabOK(s, TypeSourceInfos) /\ FreeListExact(s)
        /\ s.items = [slab.items EXCEPT ![i] = tsi]
    BY <1>0, InsertArcKeeps, SMTT(30)
  <2> HIDE DEF s
  <2>2. s.items[at] # NoItem
    BY <1>0, <1>1, <2>1, Zenon
  <2>3. /\ SlabOK(slab', TypeSourceInfos) /\ FreeListExact(slab')
        /\ slab'.items = [s.items EXCEPT ![at] = tsi]
    <3>1. slab' = Replace(s, at, tsi)
      BY <1>4, Zenon DEF s
    <3> QED
      BY <1>0, <1>1, <2>1, <2>2, <3>1, ReplaceKeeps, SMTT(30)
  <2>4. slab'.items \in [Slots -> TypeSourceInfos \cup {NoItem}]
        /\ slab'.items[at] = tsi /\ slab'.items[i] = tsi
        /\ \A j \in Slots : j # at => slab'.items[j] = slab.items[j] \/ slab.items[j] = NoItem
    BY <1>0, <1>1, <2>1, <2>3, SMTT(30)
  <2>5. WholeSet(slab'.items, W)
    BY <1>0, <2>4, WholeSetReplace, Zenon
  <2>6. Grows
    BY <1>4, <2>1, <2>4, Zenon DEF Grows
  <2> QED
    BY <2>3, <2>5, <2>6, Zenon DEF FreeSlotsExact
<1> QED
  BY <1>2, <1>3, <1>4, Zenon DEF ReplaceTsi

-----------------------------------------------------------------------------
(* The steps. *)

LEMMA InitIInv ==
    Init => IInv
<1> SUFFICES ASSUME Init PROVE IInv
  BY Zenon
<1> USE MaxItemsAssumption, ConstantsAssumption
<1>0. NewTsi(Uint("u8"), NoSource) \in TypeSourceInfos /\ NewTsi(Uint("u64"), NoSource) \in TypeSourceInfos
  <2>1. <<>> \in Seq(TypeArgs)
    BY SMTT(30)
  <2> QED
    BY <2>1, Zenon DEF NewTsi, Uint, Info, TypeSourceInfos, TypeInfos, Uints, Sources
<1>1. BuiltIns[0] \in TypeSourceInfos /\ BuiltIns[1] \in TypeSourceInfos
      /\ BuiltIns \in [Slots -> TypeSourceInfos \cup {NoItem}]
      /\ \A i \in Slots : i >= 2 => BuiltIns[i] = NoItem
  BY <1>0, SMTT(30) DEF BuiltIns, Slots
<1>10. BuiltIns[0].info.kind = "uint" /\ BuiltIns[1].info.kind = "uint" /\ BuiltIns[0] # BuiltIns[1]
  BY SMTT(30) DEF BuiltIns, NewTsi, Uint, Info, Slots
<1> HIDE DEF BuiltIns
<1>2. slab = [items |-> BuiltIns, len |-> 2, free |-> [i \in Slots |-> 0]]
  BY Zenon DEF Init, EmptySlab
<1>3. SlabOK(slab, TypeSourceInfos)
  BY <1>1, <1>2, SMTT(30) DEF SlabOK
<1>4. FreeSlotsExact
  BY <1>1, <1>2, NoItemAssumption, SMTT(30) DEF FreeSlotsExact, FreeListExact, Slots
<1>5. SharedInPlace /\ SharedClosed /\ StructsSafe
      /\ DOMAIN shareable \subseteq TypeSourceInfos
      /\ \A t \in DOMAIN shareable : shareable[t] \in Slots
  <2>1. /\ DOMAIN shareable = {BuiltIns[0], BuiltIns[1]}
        /\ shareable[BuiltIns[0]] = 0 /\ shareable[BuiltIns[1]] = 1
    BY <1>10, Zenon DEF Init
  <2>2. 0 \in Slots /\ 1 \in Slots
    BY SMTT(30) DEF Slots
  <2> QED
    BY <1>1, <1>2, <1>10, <2>1, <2>2, Zenon DEF SharedInPlace, SharedClosed, StructsSafe, IsReplaceable
<1>6. TypeOK
  <2>1. unifications \in Seq(Calls) /\ calls \in Seq(Calls)
    BY SMTT(30) DEF Init
  <2>2. mark \in [next : Nat \ {0}, touched : BOOLEAN, failed : BOOLEAN]
    BY SMTT(30) DEF Init, NoMark
  <2>3. current \in Sources /\ phase \in {"idle", "first", "reapply", "solved"}
    BY Zenon DEF Init, Sources
  <2> QED
    BY <1>3, <1>5, <2>1, <2>2, <2>3, Zenon DEF TypeOK
<1>7. CallsWhole
  <2>1. WholeSet(slab.items, {}) /\ InBlock({})
    BY SMTT(30) DEF Init, WholeSet, InBlock
  <2> QED
    BY <2>1, Zenon DEF CallsWhole
<1>8. Quiet
  BY Zenon DEF Init, Quiet
<1> QED
  BY <1>4, <1>5, <1>6, <1>7, <1>8, Zenon DEF IInv

(* An insertion of a type, whatever its kind. *)
LEMMA InsertKeeps ==
    ASSUME IInv, NEW tsi \in TypeSourceInfos, NEW isShareable \in BOOLEAN,
           InsertTsi(tsi, isShareable),
           isShareable => IsTypeShareable(slab.items, tsi.info) /\ Whole(slab.items, ArgIds(tsi.info)),
           UNCHANGED <<unifications, phase, current, calls, mark>>
    PROVE  IInv'
<1>1. /\ SlabOK(slab', TypeSourceInfos) /\ FreeSlotsExact' /\ Grows
      /\ \A W \in SUBSET Slots : WholeSet(slab.items, W) => WholeSet(slab'.items, W)
  BY InsertTsiGrows, Zenon DEF IInv
<1>2. SharedInPlace' /\ SharedClosed' /\ StructsSafe'
      /\ DOMAIN shareable' \subseteq TypeSourceInfos
      /\ \A t \in DOMAIN shareable' : shareable'[t] \in Slots
  BY <1>1, SharedKept, Zenon DEF IInv
<1>3. TypeOK'
  BY <1>1, <1>2, Zenon DEF IInv, TypeOK
<1>4. CallsWhole'
  BY <1>1, Zenon DEF IInv, CallsWhole, InBlock
<1> QED
  BY <1>1, <1>2, <1>3, <1>4, Zenon DEF IInv, Quiet

LEMMA NewOpenKeeps ==
    ASSUME IInv, NewOpen PROVE IInv'
<1>1. PICK tsi \in {[info |-> Unknown, src |-> NoSource], [info |-> Numeric, src |-> NoSource]}
                    \cup {[info |-> Info("generic", g, <<>>), src |-> current] : g \in Generics} :
          InsertTsi(tsi, FALSE)
  BY Zenon DEF NewOpen
<1>2. tsi \in TypeSourceInfos
  <2>1. <<>> \in Seq(TypeArgs) /\ current \in Sources /\ NoSource \in Sources
    BY SMTT(30) DEF IInv, TypeOK, Sources
  <2>2. CASE tsi \in {[info |-> Unknown, src |-> NoSource], [info |-> Numeric, src |-> NoSource]}
    <3>1. Unknown \in TypeInfos /\ Numeric \in TypeInfos
      BY <2>1, Zenon DEF Unknown, Numeric, Info, TypeInfos
    <3> QED
      BY <2>1, <2>2, <3>1, SMTT(30) DEF TypeSourceInfos
  <2>3. ASSUME NEW g \in Generics, tsi = [info |-> Info("generic", g, <<>>), src |-> current]
        PROVE  tsi \in TypeSourceInfos
    BY <2>1, <2>3, Zenon DEF Info, TypeSourceInfos, TypeInfos
  <2> QED
    BY <1>1, <2>2, <2>3, Zenon
<1> QED
  BY Zenon, <1>1, <1>2, InsertKeeps DEF NewOpen

LEMMA SourceOfArgsTyped ==
    ASSUME NEW items \in [Slots -> TypeSourceInfos \cup {NoItem}], NEW args \in Seq(TypeArgs),
           \A k \in DOMAIN args : items[args[k].id] # NoItem
    PROVE  SourceOfArgs(items, args) \in Sources
<1>1. \A k \in DOMAIN args : args[k].span \in Sources /\ items[args[k].id].src \in Sources
  <2>1. \A k \in DOMAIN args : args[k] \in TypeArgs
    BY SMTT(30)
  <2>2. \A k \in DOMAIN args : args[k].id \in Slots /\ args[k].span \in Sources
    BY <2>1, Zenon DEF TypeArgs
  <2> QED
    BY <2>2, Zenon DEF TypeSourceInfos
<1> DEFINE spanned == {k \in DOMAIN args : /\ args[k].span # NoSource
                                           /\ \A j \in 1 .. k - 1 : args[j].span = NoSource}
           bound   == {k \in DOMAIN args : /\ items[args[k].id].src # NoSource
                                           /\ \A j \in 1 .. k - 1 : items[args[j].id].src = NoSource}
<1>2. spanned # {} => args[CHOOSE k \in spanned : TRUE].span \in Sources
  <2>1. spanned # {} => (CHOOSE k \in spanned : TRUE) \in DOMAIN args
    BY Zenon
  <2> QED
    BY <1>1, <2>1, Zenon
<1>3. bound # {} => items[args[CHOOSE k \in bound : TRUE].id].src \in Sources
  <2>1. bound # {} => (CHOOSE k \in bound : TRUE) \in DOMAIN args
    BY Zenon
  <2> QED
    BY Zenon, <1>1, <2>1
<1> QED
  BY Zenon, <1>2, <1>3 DEF SourceOfArgs, Sources

LEMMA InsertTupleKeeps ==
    ASSUME IInv, InsertTuple PROVE IInv'
<1>1. PICK n \in 1 .. MaxArity, span \in {current, NoSource} : \E ids \in [1 .. n -> Occupied(slab)] :
        LET args == [k \in 1 .. n |-> [id |-> ids[k], span |-> span]]
            info == Info("tuple", "none", args)
        IN  /\ Whole(slab.items, ArgIds(info))
            /\ InsertTsi([info |-> info, src |-> SourceOfArgs(slab.items, args)],
                         IsTypeShareable(slab.items, info))
  BY Zenon DEF InsertTuple
<1>2. PICK ids \in [1 .. n -> Occupied(slab)] :
        LET args == [k \in 1 .. n |-> [id |-> ids[k], span |-> span]]
            info == Info("tuple", "none", args)
        IN  /\ Whole(slab.items, ArgIds(info))
            /\ InsertTsi([info |-> info, src |-> SourceOfArgs(slab.items, args)],
                         IsTypeShareable(slab.items, info))
  BY Zenon, <1>1
<1> DEFINE args == [k \in 1 .. n |-> [id |-> ids[k], span |-> span]]
           info == Info("tuple", "none", args)
           tsi  == [info |-> info, src |-> SourceOfArgs(slab.items, args)]
<1>3. n \in Nat /\ span \in Sources
  BY ConstantsAssumption, SMTT(30) DEF IInv, TypeOK, Sources
<1>4. args \in Seq(TypeArgs) /\ \A k \in DOMAIN args : slab.items[args[k].id] # NoItem
  BY <1>3, SMTT(30) DEF Occupied, TypeArgs
<1> HIDE DEF args
<1>5. info \in TypeInfos
  BY <1>4, Zenon DEF Info, TypeInfos
<1>6. SourceOfArgs(slab.items, args) \in Sources
  BY Zenon, <1>4, SourceOfArgsTyped DEF IInv, TypeOK, SlabOK
<1>7. tsi \in TypeSourceInfos /\ tsi.info = info
  BY <1>5, <1>6, Zenon DEF TypeSourceInfos
<1>8. IsTypeShareable(slab.items, info) \in BOOLEAN
  BY Zenon DEF IsTypeShareable
<1>9. Whole(slab.items, ArgIds(info)) /\ InsertTsi(tsi, IsTypeShareable(slab.items, info))
  BY <1>2, Zenon DEF args
<1> HIDE DEF tsi, info
<1> QED
  BY Zenon, <1>7, <1>8, <1>9, InsertKeeps DEF InsertTuple

LEMMA InsertStructKeeps ==
    ASSUME IInv, InsertStruct PROVE IInv'
<1>1. PICK d \in Structs, id \in Occupied(slab) :
        LET info == Info("struct", d, <<[id |-> id, span |-> NoSource]>>)
        IN  /\ Whole(slab.items, {id})
            /\ InsertTsi([info |-> info, src |-> DeclModule[d]], IsTypeShareable(slab.items, info))
  BY Zenon DEF InsertStruct
<1> DEFINE arg  == [id |-> id, span |-> NoSource]
           info == Info("struct", d, <<arg>>)
           tsi  == [info |-> info, src |-> DeclModule[d]]
<1>2. arg \in TypeArgs
  BY Zenon DEF TypeArgs, Occupied, Sources
<1>3. <<arg>> \in Seq(TypeArgs) /\ DOMAIN <<arg>> = {1} /\ <<arg>>[1] = arg
  BY <1>2, SMTT(30)
<1>4. info \in TypeInfos
  BY <1>3, Zenon DEF Info, TypeInfos
<1>5. ArgIds(info) = {id}
  BY <1>3, SMTT(30) DEF ArgIds, Info
<1>6. tsi \in TypeSourceInfos /\ tsi.info = info
  BY <1>4, ConstantsAssumption, Zenon DEF TypeSourceInfos, Sources
<1>7. IsTypeShareable(slab.items, info) \in BOOLEAN
  BY Zenon DEF IsTypeShareable
<1>8. Whole(slab.items, ArgIds(info)) /\ InsertTsi(tsi, IsTypeShareable(slab.items, info))
  BY <1>1, <1>5, Zenon
<1> HIDE DEF tsi, info
<1> QED
  BY <1>6, <1>7, <1>8, InsertKeeps, Zenon DEF InsertStruct

(* Steps that leave the types alone. *)
LEMMA TypesUnchanged ==
    ASSUME IInv, UNCHANGED <<slab, shareable>>
    PROVE  /\ SlabOK(slab', TypeSourceInfos) /\ DOMAIN shareable' \subseteq TypeSourceInfos
           /\ \A t \in DOMAIN shareable' : shareable'[t] \in Slots
           /\ FreeSlotsExact' /\ SharedInPlace' /\ SharedClosed' /\ StructsSafe'
    BY Zenon DEF IInv, TypeOK, FreeSlotsExact, SharedInPlace, SharedClosed, StructsSafe

LEMMA UnifyKeeps ==
    ASSUME IInv, Unify PROVE IInv'
<1>0. UNCHANGED <<slab, shareable, phase, current, mark>> /\ phase = "first"
  BY Zenon DEF Unify
<1>1. PICK x \in Occupied(slab), y \in Occupied(slab), kind \in UnifyKinds :
        /\ Whole(slab.items, {x, y})
        /\ unifications' = Append(unifications, Call(x, y, current, kind))
        /\ calls' = <<Call(x, y, current, kind)>>
  BY Zenon DEF Unify
<1> DEFINE c == Call(x, y, current, kind)
<1>2. c \in Calls /\ c.received = x /\ c.expected = y
  BY ConstantsAssumption, Zenon DEF Call, Calls, Occupied, IInv, TypeOK
<1>3. unifications \in Seq(Calls) /\ slab.items \in [Slots -> TypeSourceInfos \cup {NoItem}]
      /\ {x, y} \in SUBSET Slots
  BY Zenon DEF IInv, TypeOK, SlabOK, Occupied
<1> HIDE DEF c
<1>4. TypeOK'
  <2>1. unifications' \in Seq(Calls) /\ calls' \in Seq(Calls)
    BY <1>1, <1>2, <1>3, SMTT(30) DEF c
  <2> QED
    BY <1>0, <2>1, TypesUnchanged, Zenon DEF IInv, TypeOK
<1>5. CallsWhole'
  <2>1. PICK W \in SUBSET Slots : WholeSet(slab.items, W) /\ InBlock(W)
    BY Zenon DEF IInv, CallsWhole
  <2>2. PICK V \in SUBSET Slots : WholeSet(slab.items, V) /\ x \in V /\ y \in V
    BY <1>1, <1>3, WholeReach, ReachHolds, SMTT(30)
  <2>3. WholeSet(slab'.items, W \cup V)
    BY <1>0, <2>1, <2>2, WholeSetUnion, Zenon
  <2>4. \A k \in DOMAIN calls' : calls'[k] = c
    <3>1. calls' = <<c>>
      BY <1>1, Zenon DEF c
    <3> QED
      BY <3>1, SMTT(30)
  <2>5. \A k \in DOMAIN unifications' : unifications'[k] = c \/ (k \in DOMAIN unifications /\ unifications'[k] = unifications[k])
    <3>1. unifications' = Append(unifications, c)
      BY <1>1, Zenon DEF c
    <3> QED
      BY <1>2, <1>3, <3>1, SMTT(30)
  <2>6. InBlock(W \cup V)'
    BY <1>2, <2>1, <2>2, <2>4, <2>5, Zenon DEF InBlock
  <2> QED
    BY <2>1, <2>2, <2>3, <2>6, Zenon DEF CallsWhole
<1> QED
  BY <1>0, <1>4, <1>5, TypesUnchanged, Zenon DEF IInv, Quiet

(* Steps that take calls away, or start one of the recorded unifications. *)
LEMMA CallsShrink ==
    ASSUME IInv, UNCHANGED slab, calls' \in Seq(Calls), unifications' \in Seq(Calls),
           \A k \in DOMAIN calls' :
              \/ \E j \in DOMAIN calls : calls'[k] = calls[j]
              \/ \E j \in DOMAIN unifications : calls'[k] = unifications[j],
           unifications' = unifications \/ unifications' = <<>>
    PROVE  CallsWhole'
<1>1. PICK W \in SUBSET Slots : WholeSet(slab.items, W) /\ InBlock(W)
  BY Zenon DEF IInv, CallsWhole
<1>2. InBlock(W)'
  BY <1>1, SMTT(30) DEF InBlock
<1> QED
  BY <1>1, <1>2, Zenon DEF CallsWhole

LEMMA BlockKeeps ==
    ASSUME IInv, StartBlock \/ Reapply \/ ReapplyEnd \/ EndBlock PROVE IInv'
<1>1. /\ UNCHANGED <<slab, shareable, calls>>
      /\ unifications' = unifications \/ unifications' = <<>>
      /\ phase' \in {"idle", "first", "reapply", "solved"} /\ current' \in Sources
  BY Zenon DEF IInv, TypeOK, StartBlock, Reapply, ReapplyEnd, EndBlock, Sources
<1>2. mark' \in [next : Nat \ {0}, touched : BOOLEAN, failed : BOOLEAN]
  <2>1. mark' = NoMark \/ mark' = mark
    BY Zenon DEF StartBlock, Reapply, ReapplyEnd, EndBlock
  <2>2. NoMark \in [next : Nat \ {0}, touched : BOOLEAN, failed : BOOLEAN]
    BY SMTT(30) DEF NoMark
  <2>3. mark \in [next : Nat \ {0}, touched : BOOLEAN, failed : BOOLEAN]
    BY Zenon DEF IInv, TypeOK
  <2> QED
    BY <2>1, <2>2, <2>3, Zenon
<1>3. unifications' \in Seq(Calls) /\ calls' \in Seq(Calls)
  <2>1. unifications \in Seq(Calls) /\ calls \in Seq(Calls) /\ <<>> \in Seq(Calls)
    BY SMTT(30) DEF IInv, TypeOK
  <2> QED
    BY Zenon, <1>1, <2>1
<1>4. CallsWhole'
  BY <1>1, <1>3, CallsShrink, Zenon
<1>5. Quiet'
  BY Zenon DEF IInv, Quiet, StartBlock, Reapply, ReapplyEnd, EndBlock
<1>6. TypeOK'
  BY <1>1, <1>2, <1>3, TypesUnchanged, Zenon DEF TypeOK
<1> QED
  BY <1>1, <1>4, <1>5, <1>6, TypesUnchanged, Zenon DEF IInv

LEMMA ReapplyNextKeeps ==
    ASSUME IInv, ReapplyNext PROVE IInv'
<1>1. /\ UNCHANGED <<slab, shareable, unifications, phase, current>> /\ phase = "reapply"
      /\ mark \in [next : Nat \ {0}, touched : BOOLEAN, failed : BOOLEAN]
      /\ unifications \in Seq(Calls) /\ calls \in Seq(Calls)
      /\ mark.next <= Len(unifications)
  BY Zenon DEF ReapplyNext, IInv, TypeOK
<1>2. mark.next \in DOMAIN unifications
  BY <1>1, SMTT(30)
<1>3. \/ calls' = calls
      \/ calls' = <<unifications[mark.next]>>
  BY Zenon DEF ReapplyNext
<1>4. /\ calls' \in Seq(Calls)
      /\ \A k \in DOMAIN calls' :
           \/ \E j \in DOMAIN calls : calls'[k] = calls[j]
           \/ \E j \in DOMAIN unifications : calls'[k] = unifications[j]
  <2>1. unifications[mark.next] \in Calls
    BY <1>1, <1>2, SMTT(30)
  <2>2. CASE calls' = calls
    BY <1>1, <2>2, Zenon
  <2>3. CASE calls' = <<unifications[mark.next]>>
    BY <1>2, <2>1, <2>3, SMTT(30)
  <2> QED
    BY <1>3, <2>2, <2>3, Zenon
<1>5. mark' \in [next : Nat \ {0}, touched : BOOLEAN, failed : BOOLEAN]
  <2>1. mark' = [mark EXCEPT !.next = @ + 1] \/ mark' = [mark EXCEPT !.next = @ + 1, !.failed = TRUE]
    BY Zenon DEF ReapplyNext
  <2>2. mark.next + 1 \in Nat \ {0}
    BY <1>1, SMTT(30)
  <2> QED
    BY Zenon, <1>1, <2>1, <2>2
<1>6. CallsWhole'
  BY <1>1, <1>4, CallsShrink, Zenon
<1> QED
  BY <1>1, <1>4, <1>5, <1>6, TypesUnchanged, Zenon DEF IInv, TypeOK, Quiet

LEMMA ClearModuleKeeps ==
    ASSUME IInv, NEW m \in Modules, ClearModule(m) PROVE IInv'
<1> DEFINE kept == {i \in Occupied(slab) : slab.items[i].src # m}
<1>0. /\ phase = "idle" /\ slab' = Retain(slab, kept)
      /\ shareable' = [t \in {u \in DOMAIN shareable : u.src # m} |-> shareable[t]]
      /\ UNCHANGED <<unifications, phase, current, calls, mark>>
  BY Zenon DEF ClearModule
<1>1. /\ SlabOK(slab', TypeSourceInfos) /\ FreeListExact(slab')
      /\ \A i \in Slots : slab'.items[i] = IF i \in kept THEN slab.items[i] ELSE NoItem
  <2>1. SlabOK(slab, TypeSourceInfos) /\ FreeListExact(slab)
    BY Zenon DEF IInv, TypeOK, FreeSlotsExact
  <2> QED
    BY <1>0, <2>1, RetainKeeps, NoItemAssumption, SMTT(30)
<1> HIDE DEF kept
<1>2. \A t \in DOMAIN shareable' :
        /\ t \in DOMAIN shareable /\ shareable'[t] = shareable[t] /\ t.src # m
        /\ t \in TypeSourceInfos /\ shareable[t] \in Slots /\ slab.items[shareable[t]] = t
  BY <1>0, Zenon DEF IInv, TypeOK, SharedInPlace
<1>3. SharedInPlace' /\ SharedClosed'
  BY <1>1, <1>2, NoItemAssumption, SMTT(30) DEF IInv, SharedInPlace, SharedClosed, kept, Occupied
<1>4. StructsSafe'
  <2> SUFFICES ASSUME NEW t \in DOMAIN shareable',
                      t.info.kind = "struct", t.src = DeclModule[t.info.name]
               PROVE  StructSafe(slab'.items, t)
    BY Zenon DEF StructsSafe
  <2> DEFINE R == Reach(slab.items, ArgIds(t.info))
  <2>1. StructSafe(slab.items, t)
    BY <1>2, Zenon DEF IInv, StructsSafe
  <2>2. ArgIds(t.info) \in SUBSET Slots
    BY <1>2, ArgIdsInSlots, Zenon DEF TypeSourceInfos
  <2>3. R \subseteq Slots
    BY <2>2, ReachHolds, SMTT(30)
  <2>4. \A i \in R : i \in kept
    <3>1. t.src # m /\ NoSource # m
      BY <1>2, ConstantsAssumption, Zenon
    <3> QED
      BY Zenon, <2>1, <2>3, <3>1 DEF StructSafe, kept, Occupied
  <2>5. \A i \in R : slab'.items[i] = slab.items[i]
    BY <1>1, <2>3, <2>4, Zenon
  <2>6. Reach(slab'.items, ArgIds(t.info)) \subseteq R
    <3>1. slab.items \in [Slots -> TypeSourceInfos \cup {NoItem}]
      BY Zenon DEF IInv, TypeOK, SlabOK
    <3>2. \A i \in Slots : slab.items[i] # NoItem => ArgIds(slab.items[i].info) \subseteq Slots
      BY <3>1, ItemsTyped, Zenon
    <3> QED
      BY Zenon, <2>2, <2>5, <3>2, ReachKept
  <2> QED
    BY <2>1, <2>5, <2>6, Zenon DEF StructSafe
<1>5. CallsWhole'
  <2>1. calls' = <<>> /\ unifications' = <<>>
    BY <1>0, Zenon DEF IInv, Quiet
  <2>2. WholeSet(slab'.items, {}) /\ InBlock({})'
    BY <2>1, SMTT(30) DEF WholeSet, InBlock
  <2> QED
    BY <2>2, Zenon DEF CallsWhole
<1>6. TypeOK'
  BY <1>0, <1>1, <1>2, Zenon DEF IInv, TypeOK
<1> QED
  BY <1>0, <1>1, <1>3, <1>4, <1>5, <1>6, Zenon DEF IInv, FreeSlotsExact, Quiet

(* A replacement by the unifier: the type replaced may be replaced, and the   *)
(* one it is replaced by is that of the other side of the call.               *)
LEMMA SolveKeeps ==
    ASSUME IInv, calls # <<>>, UNCHANGED <<unifications, phase, current>>,
           NEW at \in Slots, NEW by \in Slots, NEW src \in Sources,
           {at, by} = {Head(calls).received, Head(calls).expected},
           IsReplaceable(slab.items[at].info),
           Solve(at, slab.items[by].info, src)
    PROVE  IInv'
<1> DEFINE info == slab.items[by].info
           tsi == NewTsi(info, src)
<1>0. /\ calls \in Seq(Calls) /\ unifications \in Seq(Calls)
      /\ slab.items \in [Slots -> TypeSourceInfos \cup {NoItem}]
      /\ mark \in [next : Nat \ {0}, touched : BOOLEAN, failed : BOOLEAN]
  BY Zenon DEF IInv, TypeOK, SlabOK
<1>1. PICK W \in SUBSET Slots : WholeSet(slab.items, W) /\ InBlock(W)
  BY Zenon DEF IInv, CallsWhole
<1>2. at \in W /\ by \in W
  <2>1. 1 \in DOMAIN calls /\ Head(calls) = calls[1]
    BY <1>0, SMTT(30)
  <2> QED
    BY <1>1, <2>1, Zenon DEF InBlock
<1>3. slab.items[by] \in TypeSourceInfos /\ ArgIds(info) \subseteq W
      /\ Whole(slab.items, ArgIds(info))
  BY <1>0, <1>1, <1>2, WholeSetReach, Zenon DEF WholeSet
<1>4. tsi \in TypeSourceInfos /\ tsi.info = info
  BY <1>3, Zenon DEF NewTsi, TypeSourceInfos, Sources
<1>6. ReplaceTsi(at, tsi, IsTypeShareable(slab.items, info))
  BY Zenon DEF Solve, ReplaceWith
<1> HIDE DEF tsi, info
<1>7. /\ SlabOK(slab', TypeSourceInfos) /\ FreeSlotsExact' /\ Grows
      /\ \E V \in SUBSET Slots : W \subseteq V /\ WholeSet(slab'.items, V)
  <2>1. TypeOK /\ FreeSlotsExact
    BY Zenon DEF IInv
  <2>2. /\ ArgIds(tsi.info) \subseteq W /\ Whole(slab.items, ArgIds(tsi.info))
        /\ ReplaceTsi(at, tsi, IsTypeShareable(slab.items, tsi.info))
    BY Zenon, <1>3, <1>4, <1>6
  <2> QED
    BY Zenon, <1>1, <1>2, <1>4, <2>1, <2>2, ReplaceTsiGrows
<1>8. SharedInPlace' /\ SharedClosed' /\ StructsSafe'
      /\ DOMAIN shareable' \subseteq TypeSourceInfos
      /\ \A t \in DOMAIN shareable' : shareable'[t] \in Slots
  <2>1. TypeOK /\ SharedInPlace /\ SharedClosed /\ StructsSafe
    BY Zenon DEF IInv
  <2> QED
    BY Zenon, <1>7, <2>1, SharedKept
<1>9. calls' = Tail(calls) /\ calls' \in Seq(Calls)
  BY <1>0, SMTT(30) DEF Solve
<1>10. mark' \in [next : Nat \ {0}, touched : BOOLEAN, failed : BOOLEAN]
  <2>1. \E b \in BOOLEAN : mark' = [mark EXCEPT !.touched = b]
    BY Zenon, <1>0 DEF Solve, Touches
  <2> QED
    BY <1>0, <2>1, Zenon
<1>11. TypeOK'
  BY Zenon, <1>7, <1>8, <1>9, <1>10 DEF IInv, TypeOK
<1>12. CallsWhole'
  <2>1. PICK V \in SUBSET Slots : W \subseteq V /\ WholeSet(slab'.items, V)
    BY <1>7, Zenon
  <2>2. \A k \in DOMAIN calls' : k + 1 \in DOMAIN calls /\ calls'[k] = calls[k + 1]
    BY <1>0, <1>9, SMTT(30)
  <2>3. InBlock(V)'
    BY <1>1, <2>1, <2>2, Zenon DEF InBlock
  <2> QED
    BY <2>1, <2>3, Zenon DEF CallsWhole
<1>13. Quiet'
  BY <1>0, Zenon DEF IInv, Quiet
<1> QED
  BY <1>7, <1>8, <1>11, <1>12, <1>13, Zenon DEF IInv

LEMMA CallsForArgsTyped ==
    ASSUME NEW c \in Calls, NEW r \in TypeInfos, NEW e \in TypeInfos, Len(r.args) = Len(e.args)
    PROVE  /\ CallsForArgs(c, r, e) \in Seq(Calls)
           /\ \A k \in DOMAIN CallsForArgs(c, r, e) :
                 /\ CallsForArgs(c, r, e)[k].received \in ArgIds(r)
                 /\ CallsForArgs(c, r, e)[k].expected \in ArgIds(e)
<1>1. r.args \in Seq(TypeArgs) /\ e.args \in Seq(TypeArgs)
  BY Zenon DEF TypeInfos
<1>2. DOMAIN r.args = 1 .. Len(r.args) /\ DOMAIN e.args = DOMAIN r.args /\ Len(r.args) \in Nat
  BY <1>1, SMTT(30)
<1>3. \A k \in DOMAIN r.args : /\ r.args[k].id \in Slots /\ r.args[k].span \in Sources
                               /\ e.args[k].id \in Slots
  <2>1. \A k \in DOMAIN r.args : r.args[k] \in TypeArgs
    BY <1>1, SMTT(30)
  <2>2. \A k \in DOMAIN e.args : e.args[k] \in TypeArgs
    BY <1>1, SMTT(30)
  <2> QED
    BY <1>2, <2>1, <2>2, Zenon DEF TypeArgs
<1>4. c.span \in Sources /\ c.kind \in {"Default", "WithGeneric"}
  BY Zenon DEF Calls
<1>5. \A k \in DOMAIN r.args :
        Call(r.args[k].id, e.args[k].id, IF r.kind = "tuple" THEN r.args[k].span ELSE c.span, c.kind) \in Calls
  BY <1>3, <1>4, Zenon DEF Call, Calls
<1>6. CallsForArgs(c, r, e) \in Seq(Calls)
  BY <1>2, <1>5, SMTT(30) DEF CallsForArgs
<1>7. \A k \in DOMAIN r.args : r.args[k].id \in ArgIds(r) /\ e.args[k].id \in ArgIds(e)
  BY <1>2, Zenon DEF ArgIds
<1>8. DOMAIN CallsForArgs(c, r, e) = DOMAIN r.args
  BY Zenon DEF CallsForArgs
<1>9. \A k \in DOMAIN r.args : /\ CallsForArgs(c, r, e)[k].received = r.args[k].id
                               /\ CallsForArgs(c, r, e)[k].expected = e.args[k].id
  BY Zenon DEF CallsForArgs, Call
<1> QED
  BY <1>6, <1>7, <1>8, <1>9, Zenon

LEMMA UnifyStepKeeps ==
    ASSUME IInv, UnifyStep PROVE IInv'
<1> DEFINE c == Head(calls)
           r == slab.items[c.received].info
           e == slab.items[c.expected].info
<1>0. /\ calls \in Seq(Calls) /\ unifications \in Seq(Calls) /\ calls # <<>>
      /\ slab.items \in [Slots -> TypeSourceInfos \cup {NoItem}]
      /\ mark \in [next : Nat \ {0}, touched : BOOLEAN, failed : BOOLEAN]
      /\ UNCHANGED <<unifications, phase, current>>
  BY Zenon DEF IInv, TypeOK, SlabOK, UnifyStep
<1>1. c \in Calls /\ 1 \in DOMAIN calls /\ c = calls[1] /\ Tail(calls) \in Seq(Calls)
      /\ \A k \in DOMAIN Tail(calls) : k + 1 \in DOMAIN calls /\ Tail(calls)[k] = calls[k + 1]
  BY <1>0, SMTT(30)
<1>2. c.received \in Slots /\ c.expected \in Slots /\ c.span \in Sources
  BY <1>1, Zenon DEF Calls
<1>3. CASE UNCHANGED <<slab, shareable>> /\ calls' = Tail(calls)
           /\ mark' \in [next : Nat \ {0}, touched : BOOLEAN, failed : BOOLEAN]
  <2>1. \A k \in DOMAIN calls' : \E j \in DOMAIN calls : calls'[k] = calls[j]
    BY <1>1, <1>3, Zenon
  <2>2. CallsWhole'
    BY <1>0, <1>1, <1>3, <2>1, CallsShrink, Zenon
  <2>3. TypeOK'
    BY <1>0, <1>1, <1>3, TypesUnchanged, Zenon DEF IInv, TypeOK
  <2> QED
    BY <1>0, <1>3, <2>2, <2>3, TypesUnchanged, Zenon DEF IInv, Quiet
<1>4. CASE /\ c.received # c.expected /\ Unifiable(r, e)
           /\ calls' = CallsForArgs(c, r, e) \o Tail(calls)
           /\ UNCHANGED <<slab, shareable, mark>>
  <2>1. PICK W \in SUBSET Slots : WholeSet(slab.items, W) /\ InBlock(W)
    BY Zenon DEF IInv, CallsWhole
  <2>2. c.received \in W /\ c.expected \in W
    BY <1>1, <2>1, Zenon DEF InBlock
  <2>3. r \in TypeInfos /\ e \in TypeInfos /\ ArgIds(r) \subseteq W /\ ArgIds(e) \subseteq W
    BY <1>0, <2>1, <2>2, Zenon DEF WholeSet, TypeSourceInfos
  <2> DEFINE new == CallsForArgs(c, r, e)
  <2>4. /\ new \in Seq(Calls)
        /\ \A k \in DOMAIN new : new[k].received \in W /\ new[k].expected \in W
    BY Zenon, <1>1, <1>4, <2>3, CallsForArgsTyped DEF Unifiable
  <2>5. /\ calls' \in Seq(Calls)
        /\ \A k \in DOMAIN calls' :
             \/ \E j \in DOMAIN new : calls'[k] = new[j]
             \/ \E j \in DOMAIN Tail(calls) : calls'[k] = Tail(calls)[j]
    <3> HIDE DEF new
    <3>1. calls' = new \o Tail(calls)
      BY Zenon, <1>4 DEF new
    <3>2. calls' \in Seq(Calls) /\ Len(calls') = Len(new) + Len(Tail(calls))
      BY <1>1, <2>4, <3>1, SMTT(30)
    <3>3. \A k \in DOMAIN calls' : IF k <= Len(new) THEN k \in DOMAIN new /\ calls'[k] = new[k]
                                   ELSE k - Len(new) \in DOMAIN Tail(calls) /\ calls'[k] = Tail(calls)[k - Len(new)]
      BY <1>1, <2>4, <3>1, <3>2, SMTT(30)
    <3> QED
      BY <3>2, <3>3, Zenon
  <2>6. \A k \in DOMAIN calls' : calls'[k].received \in W /\ calls'[k].expected \in W
    <3>1. \A j \in DOMAIN Tail(calls) : Tail(calls)[j].received \in W /\ Tail(calls)[j].expected \in W
      BY <1>1, <2>1, Zenon DEF InBlock
    <3> QED
      BY Zenon, <2>4, <2>5, <3>1
  <2>7. InBlock(W)'
    BY <1>0, <2>1, <2>6, Zenon DEF InBlock
  <2>8. CallsWhole'
    BY Zenon, <1>4, <2>1, <2>7 DEF CallsWhole
  <2>9. TypeOK'
    BY Zenon, <1>0, <1>4, <2>5, TypesUnchanged DEF IInv, TypeOK
  <2> QED
    BY Zenon, <1>0, <1>4, <2>8, <2>9, TypesUnchanged DEF IInv, Quiet
<1>5. CASE SolveReceived(c, r, e) /\ Solve(c.received, e, c.span)
  BY Zenon, <1>0, <1>2, <1>5, SolveKeeps DEF SolveReceived, IsReplaceable
<1>6. CASE SolveExpected(r, e) /\ Solve(c.expected, r, c.span)
  <2>1. IsReplaceable(e)
    BY <1>6, Zenon DEF SolveExpected, IsReplaceable
  <2>2. {c.expected, c.received} = {c.received, c.expected}
    BY Zenon
  <2> QED
    BY Zenon, <1>0, <1>2, <1>6, <2>1, <2>2, SolveKeeps
<1>7. \A b \in BOOLEAN : [mark EXCEPT !.failed = b] \in [next : Nat \ {0}, touched : BOOLEAN, failed : BOOLEAN]
  BY <1>0, Zenon
<1>8. (phase = "reapply") \in BOOLEAN
  BY Zenon
<1> QED
  BY Zenon, <1>0, <1>3, <1>4, <1>5, <1>6, <1>7, <1>8 DEF UnifyStep

-----------------------------------------------------------------------------
LEMMA StepIInv ==
    IInv /\ [Next]_vars => IInv'
<1> SUFFICES ASSUME IInv, [Next]_vars PROVE IInv'
  BY Zenon
<1>1. CASE UNCHANGED vars
  <2>1. UNCHANGED <<slab, shareable, unifications, phase, current, calls, mark>>
    BY <1>1, Zenon DEF vars
  <2>2. CallsWhole'
    BY <2>1, Zenon DEF IInv, CallsWhole, InBlock
  <2> QED
    BY Zenon, <2>1, <2>2, TypesUnchanged DEF IInv, TypeOK, Quiet
<1>2. CASE Next
  BY <1>2, NewOpenKeeps, InsertTupleKeeps, InsertStructKeeps, UnifyKeeps, UnifyStepKeeps,
     BlockKeeps, ReapplyNextKeeps, ClearModuleKeeps, Zenon DEF Next
<1> QED
  BY <1>1, <1>2, Zenon

(* The inductive invariant holds in every state of the type engine. *)
THEOREM TypeEngineInvariant == Spec => []IInv
  BY InitIInv, StepIInv, PTL DEF Spec

(* Every slot, entry and unification of the type engine has its type. *)
THEOREM TypesTyped == Spec => []TypeOK
  BY TypeEngineInvariant, PTL DEF IInv

(* ConcurrentSlab: however types are inserted, replaced and collected, the    *)
(* free list holds the emptied slots, each once.                              *)
THEOREM FreeListAlwaysExact == Spec => []FreeSlotsExact
  BY TypeEngineInvariant, PTL DEF IInv

(* insert_or_replace_type_source_info: an id taken from the shareable types   *)
(* holds the very type that was looked for.                                   *)
THEOREM SharedAlwaysInPlace == Spec => []SharedInPlace
  BY TypeEngineInvariant, PTL DEF IInv

LEMMA SafeStructsOutlive ==
    ASSUME StructsSafe PROVE SharedStructsOutlive
    BY Zenon DEF StructsSafe, StructSafe, SharedStructsOutlive

(* module_might_outlive_type and is_type_changeable: garbage collection and   *)
(* unification never pull a type from under a shared struct.                  *)
THEOREM SharedStructsStayWhole == Spec => []SharedStructsOutlive
<1>1. IInv => SharedStructsOutlive
  BY SafeStructsOutlive, Zenon DEF IInv
<1> QED
  BY <1>1, TypeEngineInvariant, PTL

-----------------------------------------------------------------------------
(* Induction: a set of naturals that is not empty has a least member. *)
LEMMA LeastNatural ==
  ASSUME NEW T \in SUBSET Nat, T # {}
  PROVE  \E x \in T : \A y \in T : x <= y
<1>1. PICK x \in T : \A y \in T : ~(<<y, x>> \in OpToRel(<, Nat))
  BY NatLessThanWellFounded, WFMin, Zenon
<1>2. \A y \in T : ~(y < x)
  BY <1>1, Zenon DEF OpToRel
<1> QED
  BY <1>2, SMTT(30)

IsIteration(h, B, base, F, n) ==
    /\ h \in [0 .. n -> B] /\ h[0] = base
    /\ \A i \in 1 .. n : h[i] = F[h[i - 1]]

(* There is a function with a given start that goes on by a given function:  *)
(* recursive functions on 0 .. n exist.                                      *)
LEMMA Iterated ==
    ASSUME NEW B, NEW base \in B, NEW F \in [B -> B], NEW n \in Nat
    PROVE  \E h : IsIteration(h, B, base, F, n)
<1> DEFINE T == {m \in Nat : ~ \E h : IsIteration(h, B, base, F, m)}
<1> SUFFICES ASSUME T # {} PROVE FALSE
  BY Zenon
<1>1. PICK m \in T : \A j \in T : m <= j
  BY LeastNatural, Zenon
<1>2. CASE m = 0
  <2>1. IsIteration([i \in 0 .. 0 |-> base], B, base, F, 0)
    BY SMTT(30) DEF IsIteration
  <2> QED
    BY <1>1, <1>2, <2>1, Zenon
<1>3. CASE m # 0
  <2>1. m - 1 \in Nat /\ m - 1 \notin T
    BY <1>1, <1>3, SMTT(30)
  <2>2. PICK h : IsIteration(h, B, base, F, m - 1)
    BY <2>1, Zenon
  <2> DEFINE g == [i \in 0 .. m |-> IF i = m THEN F[h[m - 1]] ELSE h[i]]
  <2>3. IsIteration(g, B, base, F, m)
    BY <1>3, <2>1, <2>2, SMTT(30) DEF IsIteration
  <2> QED
    BY <1>1, <2>3, Zenon
<1> QED
  BY <1>2, <1>3, Zenon

(* One level of equality: the arguments are compared by f. *)
EqualBy(items, f, p) ==
    LET a == items[p[1]].info
        b == items[p[2]].info
    IN  /\ a.kind = b.kind
        /\ a.name = b.name
        /\ Len(a.args) = Len(b.args)
        /\ \A k \in DOMAIN a.args : f[<<a.args[k].id, b.args[k].id>>]

(* What IdsEqual computes at each depth. *)
LEMMA IdsEqualLevels ==
    ASSUME NEW items, MaxItems \in Nat
    PROVE  \A n \in 0 .. MaxItems, p \in Slots \X Slots :
             IdsEqual(items)[n][p] <=>
               \/ p[1] = p[2]
               \/ n > 0 /\ EqualBy(items, IdsEqual(items)[n - 1], p)
<1> DEFINE Pairs == Slots \X Slots
           Level(f, n) == [p \in Pairs |-> p[1] = p[2] \/ (n > 0 /\ EqualBy(items, f[n - 1], p))]
           Fix(f) == f = [n \in 0 .. MaxItems |-> Level(f, n)]
           B == [Pairs -> BOOLEAN]
           base == [p \in Pairs |-> p[1] = p[2]]
           F == [b \in B |-> [p \in Pairs |-> p[1] = p[2] \/ EqualBy(items, b, p)]]
<1>1. IdsEqual(items) = CHOOSE f : Fix(f)
  BY Zenon DEF IdsEqual, EqualBy
<1>2. \E f : Fix(f)
  <2>1. base \in B /\ F \in [B -> B]
    BY Zenon
  <2>2. PICK h : IsIteration(h, B, base, F, MaxItems)
    <3> HIDE DEF base, B, F
    <3> QED
      BY <2>1, Iterated, Zenon
  <2>3. ASSUME NEW n \in 0 .. MaxItems PROVE h[n] = Level(h, n)
    <3>1. CASE n = 0
      <4>1. h[0] = base
        BY <2>2, Zenon DEF IsIteration
      <4>2. ~(n > 0)
        BY <3>1, SMTT(30)
      <4> QED
        BY <3>1, <4>1, <4>2, Zenon
    <3>2. CASE n # 0
      <4>1. n \in 1 .. MaxItems /\ n > 0 /\ n - 1 \in 0 .. MaxItems
        BY <3>2, SMTT(30)
      <4>2. h[n] = F[h[n - 1]] /\ h[n - 1] \in B
        <5> HIDE DEF base, B, F
        <5> QED
          BY <2>2, <4>1, Zenon DEF IsIteration
      <4>3. F[h[n - 1]] = [p \in Pairs |-> p[1] = p[2] \/ EqualBy(items, h[n - 1], p)]
        BY <4>2, Zenon
      <4> QED
        BY <4>1, <4>2, <4>3, Zenon
    <3> QED
      BY <3>1, <3>2, Zenon
  <2>4. h = [n \in 0 .. MaxItems |-> h[n]]
    <3> HIDE DEF base, B, F
    <3> QED
      BY <2>2, Zenon DEF IsIteration
  <2>5. Fix(h)
    <3> HIDE DEF Level
    <3> QED
      BY <2>3, <2>4, Zenon
  <2> QED
    BY <2>5, Zenon
<1>3. Fix(IdsEqual(items))
  <2> HIDE DEF Fix
  <2> QED
    BY <1>1, <1>2, Zenon
<1>4. \A n \in 0 .. MaxItems : IdsEqual(items)[n] = Level(IdsEqual(items), n)
  <2> HIDE DEF Level
  <2> QED
    BY <1>3, Zenon
<1> QED
  BY <1>4, Zenon

(* One level of the check of coercion. *)
CoerceBy(items, deep, f, p) ==
    LET l == items[p[1]].info
        r == items[p[2]].info
    IN  IF l.kind = r.kind /\ l.kind \in {"tuple", "struct"}
        THEN /\ deep
             /\ l.name = r.name
             /\ Len(l.args) = Len(r.args)
             /\ \A k \in DOMAIN l.args : f[<<l.args[k].id, r.args[k].id>>]
             /\ KeepsConstraints(items, l.args, r.args)
        ELSE CoercesAtTop(items, l, r)

(* What IdsCoerce computes at each depth. *)
LEMMA IdsCoerceLevels ==
    ASSUME NEW items, MaxItems \in Nat
    PROVE  \A n \in 0 .. MaxItems, p \in Slots \X Slots :
             IdsCoerce(items)[n][p] <=>
               p[1] = p[2] \/ CoerceBy(items, n > 0, IdsCoerce(items)[n - 1], p)
<1> DEFINE Pairs == Slots \X Slots
           Level(f, n) == [p \in Pairs |-> p[1] = p[2] \/ CoerceBy(items, n > 0, f[n - 1], p)]
           Fix(f) == f = [n \in 0 .. MaxItems |-> Level(f, n)]
           B == [Pairs -> BOOLEAN]
           base == [p \in Pairs |-> p[1] = p[2] \/ CoerceBy(items, FALSE, {}, p)]
           F == [b \in B |-> [p \in Pairs |-> p[1] = p[2] \/ CoerceBy(items, TRUE, b, p)]]
<1>1. IdsCoerce(items) = CHOOSE f : Fix(f)
  BY Zenon DEF IdsCoerce, CoerceBy
<1>2. \E f : Fix(f)
  <2>1. base \in B /\ F \in [B -> B]
    BY Zenon
  <2>2. PICK h : IsIteration(h, B, base, F, MaxItems)
    <3> HIDE DEF base, B, F
    <3> QED
      BY <2>1, Iterated, Zenon
  <2>3. ASSUME NEW n \in 0 .. MaxItems PROVE h[n] = Level(h, n)
    <3>1. CASE n = 0
      <4>1. h[0] = base
        BY <2>2, Zenon DEF IsIteration
      <4>2. (n > 0) = FALSE
        BY <3>1, SMTT(30)
      <4>3. \A f, p : CoerceBy(items, FALSE, f, p) <=> CoerceBy(items, FALSE, {}, p)
        BY Zenon DEF CoerceBy
      <4>4. \A p \in Pairs : (p[1] = p[2] \/ CoerceBy(items, FALSE, {}, p))
                               = (p[1] = p[2] \/ CoerceBy(items, n > 0, h[n - 1], p))
        BY <4>2, <4>3, Zenon
      <4> QED
        BY <3>1, <4>1, <4>4, Zenon
    <3>2. CASE n # 0
      <4>1. n \in 1 .. MaxItems /\ (n > 0) = TRUE /\ n - 1 \in 0 .. MaxItems
        BY <3>2, SMTT(30)
      <4>2. h[n] = F[h[n - 1]] /\ h[n - 1] \in B
        <5> HIDE DEF base, B, F
        <5> QED
          BY <2>2, <4>1, Zenon DEF IsIteration
      <4>3. F[h[n - 1]] = [p \in Pairs |-> p[1] = p[2] \/ CoerceBy(items, TRUE, h[n - 1], p)]
        BY <4>2, Zenon
      <4> QED
        BY <4>1, <4>2, <4>3, Zenon
    <3> QED
      BY <3>1, <3>2, Zenon
  <2>4. h = [n \in 0 .. MaxItems |-> h[n]]
    <3> HIDE DEF base, B, F
    <3> QED
      BY <2>2, Zenon DEF IsIteration
  <2>5. Fix(h)
    <3> HIDE DEF Level
    <3> QED
      BY <2>3, <2>4, Zenon
  <2> QED
    BY <2>5, Zenon
<1>3. Fix(IdsCoerce(items))
  <2> HIDE DEF Fix
  <2> QED
    BY <1>1, <1>2, Zenon
<1>4. \A n \in 0 .. MaxItems : IdsCoerce(items)[n] = Level(IdsCoerce(items), n)
  <2> HIDE DEF Level
  <2> QED
    BY <1>3, Zenon
<1> QED
  BY <1>4, Zenon

(* A type that is open or an integer has no arguments. *)
Plain(info) ==
    /\ info.kind = "unknown" => info = Unknown
    /\ info.kind = "numeric" => info = Numeric
    /\ info.kind \in {"uint", "generic"} => info.args = <<>>
PlainItems(items) == \A i \in Slots : items[i] # NoItem => Plain(items[i].info)

LEMMA AgreePlain ==
    ASSUME NEW r, NEW e, Plain(r), Plain(e), Agree(r, e)
    PROVE  r.kind = e.kind /\ r.name = e.name /\ r.args = e.args /\ r.args = <<>>
<1>1. Unknown.args = <<>> /\ Numeric.args = <<>>
  BY Zenon DEF Unknown, Numeric, Info
<1>2. CASE r.kind = e.kind /\ r.kind \in {"unknown", "numeric"}
  BY <1>1, <1>2, Zenon DEF Plain
<1>3. CASE r.kind = e.kind /\ r.kind \in {"uint", "generic"} /\ r.name = e.name
  BY <1>3, Zenon DEF Plain
<1> QED
  BY <1>2, <1>3, Zenon DEF Agree

(* Unifier::unify leaves this pair alone, or goes on to pairs of P. *)
PassedOn(items, x, y, P) ==
    LET r == items[x].info
        e == items[y].info
    IN  \/ x = y
        \/ Agree(r, e)
        \/ /\ Unifiable(r, e)
           /\ \A k \in DOMAIN r.args : <<r.args[k].id, e.args[k].id>> \in P

Passed(items, P, Q) ==
    \A p \in P : /\ items[p[1]] # NoItem /\ items[p[2]] # NoItem
                 /\ PassedOn(items, p[1], p[2], Q)

(* Where a pair coerces and unification had nothing to do, down to the last   *)
(* argument, the types are equal.                                             *)
LEMMA CoercedEqual ==
    ASSUME NEW items \in [Slots -> TypeSourceInfos \cup {NoItem}], PlainItems(items),
           NEW P \in SUBSET (Slots \X Slots), Passed(items, P, P),
           NEW x \in Slots, NEW y \in Slots, <<x, y>> \in P, Coercion(items, x, y)
    PROVE  InfoEqual(items, items[x].info, items[y].info)
<1> USE MaxItemsAssumption
<1> DEFINE eq(n, p) == IdsEqual(items)[n][p]
           check(n, p) == IdsCoerce(items)[n][p]
<1>1. ASSUME NEW p \in P, NEW n \in 0 .. MaxItems, check(n, p), p[1] # p[2],
             \A q \in P : n > 0 /\ check(n - 1, q) => eq(n, q)
      PROVE  EqualBy(items, IdsEqual(items)[n], p)
  <2> DEFINE r == items[p[1]].info
             e == items[p[2]].info
  <2>1. /\ items[p[1]] # NoItem /\ items[p[2]] # NoItem /\ PassedOn(items, p[1], p[2], P)
        /\ p[1] \in Slots /\ p[2] \in Slots /\ p \in Slots \X Slots
    BY Zenon DEF Passed
  <2>2. Plain(r) /\ Plain(e)
    BY <2>1, Zenon DEF PlainItems
  <2>3. CASE Agree(r, e)
    <3>1. r.kind = e.kind /\ r.name = e.name /\ r.args = e.args /\ r.args = <<>>
      BY <2>2, <2>3, AgreePlain, Zenon
    <3>2. DOMAIN r.args = {}
      BY <3>1, SMTT(30)
    <3> QED
      BY <3>1, <3>2, Zenon DEF EqualBy
  <2>4. CASE Unifiable(r, e) /\ \A k \in DOMAIN r.args : <<r.args[k].id, e.args[k].id>> \in P
    <3>1. CoerceBy(items, n > 0, IdsCoerce(items)[n - 1], p)
      BY <1>1, <2>1, IdsCoerceLevels, Zenon
    <3>2. n > 0 /\ \A k \in DOMAIN r.args : check(n - 1, <<r.args[k].id, e.args[k].id>>)
      BY <2>4, <3>1, Zenon DEF CoerceBy, Unifiable
    <3>3. \A k \in DOMAIN r.args : eq(n, <<r.args[k].id, e.args[k].id>>)
      BY <1>1, <2>4, <3>2, Zenon
    <3> QED
      BY <2>4, <3>3, Zenon DEF EqualBy, Unifiable
  <2> QED
    BY <1>1, <2>1, <2>3, <2>4, Zenon DEF PassedOn
<1>2. \A n \in Nat : n < MaxItems => \A p \in P : check(n, p) => eq(n + 1, p)
  <2> DEFINE T == {n \in Nat : n < MaxItems /\ ~ \A p \in P : check(n, p) => eq(n + 1, p)}
  <2> SUFFICES ASSUME T # {} PROVE FALSE
    BY Zenon
  <2>1. PICK n \in T : \A j \in T : n <= j
    BY LeastNatural, Zenon
  <2>2. PICK p \in P : check(n, p) /\ ~eq(n + 1, p)
    BY <2>1, Zenon
  <2>3. n \in 0 .. MaxItems /\ n + 1 \in 0 .. MaxItems /\ n + 1 > 0 /\ n + 1 - 1 = n
    BY <2>1, SMTT(30)
  <2>4. p[1] # p[2] /\ ~EqualBy(items, IdsEqual(items)[n], p)
    <3>0. \A m \in 0 .. MaxItems : IdsEqual(items)[m][p] <=>
            p[1] = p[2] \/ (m > 0 /\ EqualBy(items, IdsEqual(items)[m - 1], p))
      BY IdsEqualLevels, Zenon
    <3> DEFINE m == n + 1
    <3>1. m \in 0 .. MaxItems /\ m > 0 /\ m - 1 = n /\ ~eq(m, p)
      BY <2>2, <2>3, SMTT(30)
    <3> HIDE DEF m
    <3> QED
      BY <3>0, <3>1, Zenon
  <2>5. n > 0 => \A q \in P : check(n - 1, q) => eq(n, q)
    <3> SUFFICES ASSUME n > 0 PROVE \A q \in P : check(n - 1, q) => eq(n, q)
      BY Zenon
    <3>1. n - 1 \in Nat /\ n - 1 < MaxItems /\ n - 1 \notin T /\ n - 1 + 1 = n
      BY <2>1, SMTT(30)
    <3> QED
      BY <3>1, Zenon
  <2> QED
    BY <1>1, <2>2, <2>3, <2>4, <2>5, Zenon
<1>3. MaxItems \in 0 .. MaxItems /\ (MaxItems > 0 => MaxItems - 1 \in Nat /\ MaxItems - 1 < MaxItems
                                                     /\ MaxItems - 1 + 1 = MaxItems)
  BY SMTT(30)
<1>4. check(MaxItems, <<x, y>>)
  BY Zenon DEF Coercion
<1>5. CASE x # y
  <2>1. EqualBy(items, IdsEqual(items)[MaxItems], <<x, y>>)
    <3>1. \A q \in P : MaxItems > 0 /\ check(MaxItems - 1, q) => eq(MaxItems, q)
      BY <1>2, <1>3, Zenon
    <3>2. <<x, y>>[1] # <<x, y>>[2]
      BY <1>5, Zenon
    <3> QED
      BY <1>1, <1>3, <1>4, <3>1, <3>2, Zenon
  <2> QED
    BY <2>1, Zenon DEF EqualBy, InfoEqual
<1>6. CASE x = y
  <2>1. items[x] # NoItem /\ items[x].info \in TypeInfos
    BY Zenon DEF Passed, TypeSourceInfos
  <2>2. \A k \in DOMAIN items[x].info.args : items[x].info.args[k].id \in Slots
    BY <2>1, ArgIdsInSlots, Zenon DEF ArgIds
  <2>3. \A i \in Slots : IdsEqual(items)[MaxItems][<<i, i>>]
    BY <1>3, IdsEqualLevels, Zenon
  <2> QED
    BY <1>6, <2>2, <2>3, Zenon DEF InfoEqual
<1> QED
  BY <1>5, <1>6, Zenon

-----------------------------------------------------------------------------
(* Every slot keeps a plain type. *)

LEMMA PlainPut ==
    ASSUME NEW items, DOMAIN items = Slots, PlainItems(items), NEW at, NEW t, Plain(t.info),
           NEW items2, items2 = [items EXCEPT ![at] = t]
    PROVE  PlainItems(items2)
    BY Zenon DEF PlainItems

(* insert_or_replace_type_source_info keeps the slots plain, inserting ... *)
LEMMA InsertPlain ==
    ASSUME SlabOK(slab, TypeSourceInfos), PlainItems(slab.items), NEW tsi, Plain(tsi.info),
           NEW isShareable, InsertTsi(tsi, isShareable)
    PROVE  PlainItems(slab'.items)
<1>1. PICK i : slab' = InsertArc(slab, i, tsi)
  BY Zenon DEF InsertTsi
<1>2. slab'.items = [slab.items EXCEPT ![i] = tsi] /\ DOMAIN slab.items = Slots
  BY <1>1, Zenon DEF InsertArc, SlabOK
<1> QED
  BY <1>2, PlainPut, Zenon

LEMMA ReplacePlain ==
    ASSUME NEW s, DOMAIN s.items = Slots, s = [items |-> s.items, len |-> s.len, free |-> s.free],
           PlainItems(s.items), NEW at, NEW t, Plain(t.info)
    PROVE  PlainItems(Replace(s, at, t).items)
<1>1. Replace(s, at, t).items = s.items \/ Replace(s, at, t).items = [s.items EXCEPT ![at] = t]
  BY Zenon DEF Replace
<1> QED
  BY <1>1, PlainPut, Zenon

(* ... and replacing, where it takes the type from the shareable ones too. *)
LEMMA SolvePlain ==
    ASSUME TypeOK, SharedInPlace, PlainItems(slab.items),
           NEW at, NEW info, Plain(info), NEW src, ReplaceWith(at, info, src)
    PROVE  PlainItems(slab'.items)
<1> DEFINE tsi == NewTsi(info, src)
<1>1. Plain(tsi.info)
  BY Zenon DEF NewTsi
<1>2. /\ DOMAIN slab.items = Slots
      /\ slab = [items |-> slab.items, len |-> slab.len, free |-> slab.free]
  BY Zenon DEF TypeOK, SlabOK
<1>3. SharedKey(tsi) # NoItem => Plain(SharedKey(tsi).info)
  <2> SUFFICES ASSUME SharedKey(tsi) # NoItem PROVE Plain(SharedKey(tsi).info)
    BY Zenon
  <2> DEFINE found == {t \in DOMAIN shareable :
                         Whole(slab.items, ArgIds(t.info)) /\ TsiEqual(slab.items, t, tsi)}
  <2>1. found # {} /\ SharedKey(tsi) = CHOOSE t \in found : TRUE
    BY Zenon DEF SharedKey
  <2>2. SharedKey(tsi) \in DOMAIN shareable
    BY <2>1, Zenon
  <2> QED
    BY <2>2, Zenon DEF TypeOK, SharedInPlace, PlainItems
<1> HIDE DEF tsi
<1>4. CASE slab' = Replace(slab, at, tsi)
  BY <1>1, <1>2, <1>4, ReplacePlain, Zenon
<1>5. CASE SharedKey(tsi) # NoItem /\ slab' = Replace(slab, at, SharedKey(tsi))
  BY <1>2, <1>3, <1>5, ReplacePlain, Zenon
<1>6. ASSUME NEW i, slab' = Replace(InsertArc(slab, i, tsi), at, tsi)
      PROVE  PlainItems(slab'.items)
  <2> DEFINE s == InsertArc(slab, i, tsi)
  <2>1. s.items = [slab.items EXCEPT ![i] = tsi] /\ s = [items |-> s.items, len |-> s.len, free |-> s.free]
    BY Zenon DEF InsertArc
  <2> HIDE DEF s
  <2>2. PlainItems(s.items) /\ DOMAIN s.items = Slots
    BY <1>1, <1>2, <2>1, PlainPut, Zenon
  <2> QED
    BY <1>1, <1>6, <2>1, <2>2, ReplacePlain, Zenon DEF s
<1> QED
  BY <1>4, <1>5, <1>6, Zenon DEF ReplaceWith, ReplaceTsi, tsi

(* Whatever is inserted, solved or collected, the slots stay plain. *)
LEMMA PlainStep ==
    ASSUME IInv, PlainItems(slab.items), [Next]_vars
    PROVE  PlainItems(slab'.items)
<1>0. TypeOK /\ SharedInPlace /\ SlabOK(slab, TypeSourceInfos)
  BY Zenon DEF IInv, TypeOK
<1>1. CASE slab' = slab
  BY <1>1, Zenon
<1>2. ASSUME NewOpen PROVE PlainItems(slab'.items)
  <2>1. PICK tsi \in {[info |-> Unknown, src |-> NoSource], [info |-> Numeric, src |-> NoSource]}
                      \cup {[info |-> Info("generic", g, <<>>), src |-> current] : g \in Generics} :
            InsertTsi(tsi, FALSE)
    BY <1>2, Zenon DEF NewOpen
  <2>2. Plain(tsi.info)
    BY <2>1, SMTT(30) DEF Plain, Unknown, Numeric, Info
  <2> QED
    BY <1>0, <2>1, <2>2, InsertPlain, Zenon
<1>3. \A name, args : Plain(Info("tuple", name, args)) /\ Plain(Info("struct", name, args))
  BY Zenon DEF Plain, Info
<1>4. ASSUME InsertTuple \/ InsertStruct PROVE PlainItems(slab'.items)
  <2>1. PICK name, args, src, b :
          \/ InsertTsi([info |-> Info("tuple", name, args), src |-> src], b)
          \/ InsertTsi([info |-> Info("struct", name, args), src |-> src], b)
    BY <1>4, Zenon DEF InsertTuple, InsertStruct
  <2>2. /\ [info |-> Info("tuple", name, args), src |-> src].info = Info("tuple", name, args)
        /\ [info |-> Info("struct", name, args), src |-> src].info = Info("struct", name, args)
    BY Zenon
  <2> QED
    BY <1>0, <1>3, <2>1, <2>2, InsertPlain, Zenon
<1>5. ASSUME UnifyStep PROVE PlainItems(slab'.items)
  <2> DEFINE c == Head(calls)
             r == slab.items[c.received].info
             e == slab.items[c.expected].info
  <2>1. Plain(r) /\ Plain(e)
    <3>1. calls \in Seq(Calls) /\ calls # <<>>
      BY <1>0, <1>5, Zenon DEF TypeOK, UnifyStep
    <3>2. 1 \in DOMAIN calls /\ c = calls[1]
      BY <3>1, SMTT(30)
    <3>3. PICK W \in SUBSET Slots : WholeSet(slab.items, W) /\ InBlock(W)
      BY Zenon DEF IInv, CallsWhole
    <3>4. c.received \in W /\ c.expected \in W
      BY <3>2, <3>3, Zenon DEF InBlock
    <3> QED
      BY <3>3, <3>4, Zenon DEF WholeSet, PlainItems
  <2>2. \/ slab' = slab
        \/ ReplaceWith(c.received, e, c.span)
        \/ ReplaceWith(c.expected, r, c.span)
    BY <1>5, Zenon DEF UnifyStep, Solve
  <2> QED
    BY <1>0, <1>1, <2>1, <2>2, SolvePlain, Zenon
<1>6. ASSUME NEW m \in Modules, ClearModule(m) PROVE PlainItems(slab'.items)
  <2>1. \A i \in Slots : slab'.items[i] = slab.items[i] \/ slab'.items[i] = NoItem
    BY <1>6, Zenon DEF ClearModule, Retain
  <2> QED
    BY <2>1, Zenon DEF PlainItems
<1>7. Next => \/ slab' = slab \/ NewOpen \/ InsertTuple \/ InsertStruct \/ UnifyStep
              \/ \E m \in Modules : ClearModule(m)
  BY Zenon DEF Next, StartBlock, Unify, Reapply, ReapplyNext, ReapplyEnd, EndBlock
<1> QED
  BY <1>1, <1>2, <1>4, <1>5, <1>6, <1>7, Zenon DEF vars

-----------------------------------------------------------------------------
(* A round of reapply_unifications that has replaced nothing so far: of the   *)
(* pairs P that Unifier::unify was called for, each was left alone or passed  *)
(* on to pairs of P or to calls that wait, and the unifications it came by    *)
(* are among them.                                                            *)
Pairs(s) == {<<s[k].received, s[k].expected>> : k \in DOMAIN s}

RoundPassed(items, us, cs, next, P) ==
    /\ Passed(items, P, P \cup Pairs(cs))
    /\ \A k \in DOMAIN us : k < next =>
          /\ Coercion(items, us[k].received, us[k].expected)
          /\ <<us[k].received, us[k].expected>> \in P \cup Pairs(cs)

Untouched == phase = "reapply" /\ ~mark.touched /\ ~mark.failed

RoundInv ==
    Untouched => \E P \in SUBSET (Slots \X Slots) :
                    RoundPassed(slab.items, unifications, calls, mark.next, P)

SolvedInv == PlainItems(slab.items) /\ RoundInv /\ Solved

LEMMA PassedOnMore ==
    ASSUME NEW items, NEW x, NEW y, NEW P, NEW Q, P \subseteq Q, PassedOn(items, x, y, P)
    PROVE  PassedOn(items, x, y, Q)
    BY Zenon DEF PassedOn

(* A call that is over joins the pairs that were passed on. *)
LEMMA CallPassed ==
    ASSUME NEW items, NEW us, NEW cs, NEW cs2, NEW next, NEW P,
           RoundPassed(items, us, cs, next, P),
           NEW x, NEW y, items[x] # NoItem, items[y] # NoItem,
           Pairs(cs) \subseteq {<<x, y>>} \cup Pairs(cs2), PassedOn(items, x, y, Pairs(cs2))
    PROVE  RoundPassed(items, us, cs2, next, P \cup {<<x, y>>})
<1> DEFINE Q == P \cup {<<x, y>>}
<1>1. P \cup Pairs(cs) \subseteq Q \cup Pairs(cs2) /\ Pairs(cs2) \subseteq Q \cup Pairs(cs2)
  BY Zenon
<1>2. ASSUME NEW p \in P
      PROVE  /\ items[p[1]] # NoItem /\ items[p[2]] # NoItem
             /\ PassedOn(items, p[1], p[2], Q \cup Pairs(cs2))
  BY <1>1, PassedOnMore, Zenon DEF RoundPassed, Passed
<1>3. PassedOn(items, x, y, Q \cup Pairs(cs2))
  BY <1>1, PassedOnMore, Zenon
<1>4. <<x, y>>[1] = x /\ <<x, y>>[2] = y
  BY Zenon
<1>5. Passed(items, Q, Q \cup Pairs(cs2))
  BY <1>2, <1>3, <1>4, Zenon DEF Passed
<1> QED
  BY <1>1, <1>5, Zenon DEF RoundPassed

LEMMA PairsOfCalls ==
    ASSUME NEW s \in Seq(Calls), s # <<>>
    PROVE  Pairs(s) \subseteq {<<Head(s).received, Head(s).expected>>} \cup Pairs(Tail(s))
<1>1. ASSUME NEW k \in DOMAIN s, k # 1
      PROVE  k - 1 \in DOMAIN Tail(s) /\ Tail(s)[k - 1] = s[k]
  BY <1>1, SMTT(30)
<1>2. Head(s) = s[1]
  BY SMTT(30)
<1> QED
  BY <1>1, <1>2, Zenon DEF Pairs

LEMMA PairsOfBoth ==
    ASSUME NEW s \in Seq(Calls), NEW t \in Seq(Calls)
    PROVE  Pairs(s) \subseteq Pairs(s \o t) /\ Pairs(t) \subseteq Pairs(s \o t)
<1>1. ASSUME NEW k \in DOMAIN s PROVE k \in DOMAIN (s \o t) /\ (s \o t)[k] = s[k]
  BY SMTT(30)
<1>2. ASSUME NEW k \in DOMAIN t
      PROVE  Len(s) + k \in DOMAIN (s \o t) /\ (s \o t)[Len(s) + k] = t[k]
  BY SMTT(30)
<1>3. Pairs(s) \subseteq Pairs(s \o t)
  BY <1>1, Zenon DEF Pairs
<1>4. Pairs(t) \subseteq Pairs(s \o t)
  BY <1>2, Zenon DEF Pairs
<1> QED
  BY <1>3, <1>4, Zenon

(* What is solved changes: a round that replaces nothing has not solved. *)
LEMMA SolvedTouches ==
    ASSUME NEW c, NEW r, NEW e
    PROVE  /\ SolveReceived(c, r, e) => ~InfoEqual(slab.items, r, e)
           /\ SolveExpected(r, e) => ~InfoEqual(slab.items, e, r)
<1>1. SolveReceived(c, r, e) => r.kind # e.kind \/ r.name # e.name
  <2>1. "unknown" # "uint" /\ "numeric" # "uint" /\ "generic" \in {"uint", "generic"}
    BY Zenon
  <2> QED
    BY <2>1, Zenon DEF SolveReceived, Agree
<1>2. SolveExpected(r, e) => r.kind # e.kind
  BY Zenon DEF SolveExpected
<1> QED
  BY <1>1, <1>2, Zenon DEF InfoEqual

(* Unifier::unify in a round that has replaced nothing. *)
LEMMA UnifyStepRound ==
    ASSUME IInv, IInv', RoundInv, UnifyStep, Untouched'
    PROVE  \E P \in SUBSET (Slots \X Slots) :
              RoundPassed(slab'.items, unifications', calls', mark'.next, P)
<1> DEFINE c == Head(calls)
           r == slab.items[c.received].info
           e == slab.items[c.expected].info
<1>0. /\ calls \in Seq(Calls) /\ calls # <<>> /\ UNCHANGED <<unifications, phase>>
      /\ slab.items \in [Slots -> TypeSourceInfos \cup {NoItem}]
      /\ mark \in [next : Nat \ {0}, touched : BOOLEAN, failed : BOOLEAN]
  BY Zenon DEF IInv, TypeOK, SlabOK, UnifyStep
<1>1. c \in Calls /\ Tail(calls) \in Seq(Calls) /\ 1 \in DOMAIN calls /\ c = calls[1]
  BY <1>0, SMTT(30)
<1>2. PICK W \in SUBSET Slots : WholeSet(slab.items, W) /\ InBlock(W)
  BY Zenon DEF IInv, CallsWhole
<1>3. /\ c.received \in Slots /\ c.expected \in Slots
      /\ slab.items[c.received] # NoItem /\ slab.items[c.expected] # NoItem
      /\ slab.items[c.received] \in TypeSourceInfos /\ slab.items[c.expected] \in TypeSourceInfos
  BY <1>0, <1>1, <1>2, Zenon DEF InBlock, WholeSet
<1>4. phase = "reapply" /\ ~mark'.touched /\ ~mark'.failed
  BY <1>0, Zenon DEF Untouched
<1>5. ASSUME NEW at, NEW info, NEW src, Solve(at, info, src),
             ~InfoEqual(slab.items, slab.items[at].info, info)
      PROVE  FALSE
  <2>1. Touches(at, info, src)
    BY <1>5, Zenon DEF Touches, TsiEqual
  <2>2. mark'.touched
    BY <1>0, <1>4, <1>5, <2>1, Zenon DEF Solve
  <2> QED
    BY <1>4, <2>2, Zenon
<1>6. mark' # [mark EXCEPT !.failed = phase = "reapply"]
  BY <1>0, <1>4, Zenon
<1>7. \/ /\ c.received = c.expected \/ Agree(r, e)
         /\ calls' = Tail(calls)
         /\ UNCHANGED <<slab, shareable, mark>>
      \/ /\ c.received # c.expected /\ Unifiable(r, e)
         /\ calls' = CallsForArgs(c, r, e) \o Tail(calls)
         /\ UNCHANGED <<slab, shareable, mark>>
  BY <1>5, <1>6, SolvedTouches, Zenon DEF UnifyStep
<1>8. slab' = slab /\ mark' = mark /\ unifications' = unifications
  BY <1>0, <1>7, Zenon
<1>9. PICK P \in SUBSET (Slots \X Slots) :
        RoundPassed(slab.items, unifications, calls, mark.next, P)
  BY <1>4, <1>8, Zenon DEF RoundInv, Untouched
<1>10. /\ Pairs(calls) \subseteq {<<c.received, c.expected>>} \cup Pairs(calls')
       /\ PassedOn(slab.items, c.received, c.expected, Pairs(calls'))
  <2>1. Pairs(calls) \subseteq {<<c.received, c.expected>>} \cup Pairs(Tail(calls))
    BY <1>0, PairsOfCalls, Zenon
  <2>2. CASE (c.received = c.expected \/ Agree(r, e)) /\ calls' = Tail(calls)
    BY <2>1, <2>2, Zenon DEF PassedOn
  <2>3. CASE Unifiable(r, e) /\ calls' = CallsForArgs(c, r, e) \o Tail(calls)
    <3> DEFINE new == CallsForArgs(c, r, e)
    <3>1. r \in TypeInfos /\ e \in TypeInfos
      BY <1>3, Zenon DEF TypeSourceInfos
    <3>2. new \in Seq(Calls)
      BY <1>1, <2>3, <3>1, CallsForArgsTyped, Zenon DEF Unifiable
    <3>3. Pairs(new) \subseteq Pairs(calls') /\ Pairs(Tail(calls)) \subseteq Pairs(calls')
      <4> HIDE DEF new
      <4>1. calls' = new \o Tail(calls)
        BY <2>3, Zenon DEF new
      <4> QED
        BY <1>1, <3>2, <4>1, PairsOfBoth, Zenon
    <3>4. /\ DOMAIN new = DOMAIN r.args
          /\ \A k \in DOMAIN r.args : new[k].received = r.args[k].id /\ new[k].expected = e.args[k].id
      BY Zenon DEF CallsForArgs, Call
    <3>5. \A k \in DOMAIN r.args : <<r.args[k].id, e.args[k].id>> \in Pairs(new)
      <4> HIDE DEF new
      <4> QED
        BY <3>4, Zenon DEF Pairs
    <3> HIDE DEF new
    <3> QED
      BY <2>1, <2>3, <3>3, <3>5, Zenon DEF PassedOn
  <2> QED
    BY <1>7, <2>2, <2>3, Zenon
<1> HIDE DEF c, r, e
<1>11. RoundPassed(slab.items, unifications, calls', mark.next, P \cup {<<c.received, c.expected>>})
  BY <1>3, <1>9, <1>10, CallPassed, Zenon
<1>12. P \cup {<<c.received, c.expected>>} \in SUBSET (Slots \X Slots)
  BY <1>3, SMTT(30)
<1> QED
  BY <1>8, <1>11, <1>12, Zenon

(* The next unification is taken when nothing waits: P is closed then. *)
LEMMA ReapplyNextRound ==
    ASSUME IInv, RoundInv, ReapplyNext, Untouched'
    PROVE  \E P \in SUBSET (Slots \X Slots) :
              RoundPassed(slab'.items, unifications', calls', mark'.next, P)
<1> DEFINE c == unifications[mark.next]
           us == unifications
<1>0. /\ mark \in [next : Nat \ {0}, touched : BOOLEAN, failed : BOOLEAN]
      /\ us \in Seq(Calls) /\ calls = <<>> /\ phase = "reapply"
  BY Zenon DEF IInv, TypeOK, ReapplyNext
<1>1. Coercion(slab.items, c.received, c.expected)
  <2>1. \/ Coercion(slab.items, c.received, c.expected)
        \/ mark' = [mark EXCEPT !.next = @ + 1, !.failed = TRUE]
    BY Zenon DEF ReapplyNext
  <2>2. ~mark'.failed
    BY Zenon DEF Untouched
  <2> QED
    BY <1>0, <2>1, <2>2, Zenon
<1>2. /\ calls' = <<c>> /\ mark' = [mark EXCEPT !.next = @ + 1]
      /\ slab' = slab /\ unifications' = unifications
  BY <1>1, Zenon DEF ReapplyNext
<1>3. mark'.next = mark.next + 1 /\ mark'.touched = mark.touched /\ mark'.failed = mark.failed
  BY <1>0, <1>2, Zenon
<1>4. PICK P \in SUBSET (Slots \X Slots) :
        RoundPassed(slab.items, unifications, calls, mark.next, P)
  BY <1>0, <1>3, Zenon DEF RoundInv, Untouched
<1>5. Pairs(calls) = {} /\ <<c.received, c.expected>> \in Pairs(calls')
  <2>1. DOMAIN calls = {} /\ 1 \in DOMAIN calls' /\ calls'[1] = c
    BY <1>0, <1>2, SMTT(30)
  <2> QED
    BY <2>1, Zenon DEF Pairs
<1>6. \A k \in DOMAIN us : k < mark'.next => k < mark.next \/ k = mark.next
  BY <1>0, <1>3, SMTT(30)
<1>7. P \cup Pairs(calls) \subseteq P \cup Pairs(calls')
  BY <1>5, Zenon
<1>8. Passed(slab.items, P, P \cup Pairs(calls'))
  BY <1>4, <1>7, PassedOnMore, Zenon DEF RoundPassed, Passed
<1>9. RoundPassed(slab.items, us, calls', mark'.next, P)
  BY <1>1, <1>4, <1>5, <1>6, <1>7, <1>8, Zenon DEF RoundPassed
<1> QED
  BY <1>2, <1>4, <1>9, Zenon

(* A round starts with no pair. *)
LEMMA RoundStarts ==
    ASSUME NEW items, NEW us \in Seq(Calls), NEW cs, NEW next, next = 1
    PROVE  \E P \in SUBSET (Slots \X Slots) : RoundPassed(items, us, cs, next, P)
<1>1. \A k \in DOMAIN us : ~(k < next)
  BY SMTT(30)
<1>2. RoundPassed(items, us, cs, next, {})
  BY <1>1, Zenon DEF RoundPassed, Passed
<1> QED
  BY <1>2, Zenon

LEMMA RoundStep ==
    ASSUME IInv, IInv', RoundInv, [Next]_vars
    PROVE  RoundInv'
<1> SUFFICES ASSUME Untouched'
             PROVE  \E P \in SUBSET (Slots \X Slots) :
                      RoundPassed(slab'.items, unifications', calls', mark'.next, P)
  BY Zenon DEF RoundInv
<1>1. CASE UNCHANGED vars
  BY <1>1, Zenon DEF vars, RoundInv, Untouched
<1>2. CASE UnifyStep
  BY <1>2, UnifyStepRound, Zenon
<1>3. CASE ReapplyNext
  BY <1>3, ReapplyNextRound, Zenon
<1>4. CASE Reapply \/ ReapplyEnd
  <2>1. phase' = "reapply"
    BY Zenon DEF Untouched
  <2>2. "solved" # "reapply" /\ NoMark.next = 1
    BY Zenon DEF NoMark
  <2>3. mark'.next = 1
    BY <1>4, <2>1, <2>2, Zenon DEF Reapply, ReapplyEnd
  <2>4. unifications' \in Seq(Calls)
    BY Zenon DEF IInv, TypeOK
  <2> QED
    BY <2>3, <2>4, RoundStarts, Zenon
<1>5. CASE NewOpen \/ InsertTuple \/ InsertStruct \/ StartBlock \/ Unify \/ EndBlock
           \/ \E m \in Modules : ClearModule(m)
  <2>1. phase' = "first" \/ phase' = "idle"
    BY <1>5, Zenon DEF NewOpen, InsertTuple, InsertStruct, CanInsert, StartBlock, Unify, EndBlock, ClearModule
  <2> QED
    BY <2>1, Zenon DEF Untouched
<1> QED
  BY <1>1, <1>2, <1>3, <1>4, <1>5, Zenon DEF Next

(* The round that replaced nothing ends with types that are equal. *)
LEMMA SolvedStep ==
    ASSUME IInv, PlainItems(slab.items), RoundInv, Solved, [Next]_vars
    PROVE  Solved'
<1> DEFINE us == unifications
<1> SUFFICES ASSUME phase' = "solved", ~mark'.failed, NEW k \in DOMAIN unifications'
             PROVE  InfoEqual(slab'.items, slab'.items[unifications'[k].received].info,
                                           slab'.items[unifications'[k].expected].info)
  BY Zenon DEF Solved
<1>1. CASE UNCHANGED vars
  BY <1>1, Zenon DEF vars, Solved
<1>2. CASE ReapplyEnd
  <2>1. /\ phase = "reapply" /\ calls = <<>> /\ mark.next > Len(us)
        /\ slab' = slab /\ unifications' = unifications
    BY <1>2, Zenon DEF ReapplyEnd
  <2>2. ~mark.touched /\ mark' = mark
    BY <1>2, <2>1, Zenon DEF ReapplyEnd
  <2>3. PICK P \in SUBSET (Slots \X Slots) : RoundPassed(slab.items, us, calls, mark.next, P)
    BY <2>1, <2>2, Zenon DEF RoundInv, Untouched
  <2>4. DOMAIN calls = {}
    BY <2>1, SMTT(30)
  <2>5. Pairs(calls) = {} /\ P \cup Pairs(calls) = P
    BY <2>4, Zenon DEF Pairs
  <2>6. Passed(slab.items, P, P)
    BY <2>3, <2>5, Zenon DEF RoundPassed
  <2>7. us \in Seq(Calls) /\ slab.items \in [Slots -> TypeSourceInfos \cup {NoItem}]
        /\ mark.next \in Nat
    BY Zenon DEF IInv, TypeOK, SlabOK
  <2>8. k \in DOMAIN us /\ k < mark.next /\ us[k] \in Calls
    BY <2>1, <2>7, SMTT(30)
  <2>9. us[k].received \in Slots /\ us[k].expected \in Slots
    BY <2>8, Zenon DEF Calls
  <2>10. <<us[k].received, us[k].expected>> \in P /\ Coercion(slab.items, us[k].received, us[k].expected)
    BY <2>3, <2>5, <2>8, Zenon DEF RoundPassed
  <2> QED
    BY <2>1, <2>6, <2>7, <2>9, <2>10, CoercedEqual, Zenon
<1>3. ASSUME UnifyStep \/ ReapplyNext PROVE FALSE
  <2>1. ReapplyNext => phase' = "reapply"
    BY Zenon DEF ReapplyNext
  <2>2. UnifyStep => phase' \in {"first", "reapply"}
    BY Zenon DEF UnifyStep, IInv, Quiet
  <2> QED
    BY <1>3, <2>1, <2>2, Zenon
<1>4. ASSUME NewOpen \/ InsertTuple \/ InsertStruct \/ StartBlock \/ Unify \/ EndBlock \/ Reapply
           \/ \E m \in Modules : ClearModule(m)
      PROVE  FALSE
  <2>1. phase' = "first" \/ phase' = "idle" \/ phase' = "reapply"
    BY <1>4, Zenon DEF NewOpen, InsertTuple, InsertStruct, CanInsert, StartBlock, Unify, EndBlock, Reapply, ClearModule
  <2> QED
    BY <2>1, Zenon
<1> QED
  BY <1>1, <1>2, <1>3, <1>4, Zenon DEF Next

LEMMA InitSolvedInv == Init => SolvedInv
<1> SUFFICES ASSUME Init PROVE SolvedInv
  BY Zenon
<1>1. phase # "solved" /\ phase # "reapply"
  BY Zenon DEF Init
<1>2. \A n \in Uints : Plain(NewTsi(Uint(n), NoSource).info)
  BY Zenon DEF Plain, NewTsi, Uint, Info
<1>3. slab.items = BuiltIns
  BY Zenon DEF Init, EmptySlab
<1>4. PlainItems(slab.items)
  BY <1>2, <1>3, Zenon DEF PlainItems, BuiltIns, Uints
<1> QED
  BY <1>1, <1>4, Zenon DEF SolvedInv, RoundInv, Untouched, Solved

LEMMA StepSolvedInv == IInv /\ IInv' /\ SolvedInv /\ [Next]_vars => SolvedInv'
<1> SUFFICES ASSUME IInv, IInv', SolvedInv, [Next]_vars PROVE SolvedInv'
  BY Zenon
<1>1. PlainItems(slab'.items)
  BY PlainStep, Zenon DEF SolvedInv
<1>2. RoundInv' /\ Solved'
  BY RoundStep, SolvedStep, Zenon DEF SolvedInv
<1> QED
  BY <1>1, <1>2, Zenon DEF SolvedInv

(* reapply_unifications: when it stops without an error, the two types of     *)
(* every unification of the block are equal, down to their arguments.         *)
THEOREM UnificationsSolved == Spec => []Solved
<1>1. Spec => []SolvedInv
  BY TypeEngineInvariant, InitSolvedInv, StepSolvedInv, PTL DEF Spec
<1>2. SolvedInv => Solved
  BY Zenon DEF SolvedInv
<1> QED
  BY <1>1, <1>2, PTL
=============================================================================
