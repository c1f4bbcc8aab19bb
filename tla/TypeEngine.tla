----------------------------- MODULE TypeEngine -----------------------------
(* The type engine of the compiler (sway-core/src/type_system/engine.rs) with *)
(* the unifier (type_system/unify), as the check of code blocks (code_block.rs) *)
(* and the garbage collection of the language server use them.  A type id is  *)
(* a slot of a slab.  Types that cannot change any more are shared: inserting *)
(* one that is already there returns its id.  Unification replaces the type   *)
(* in a slot.  Garbage collection empties the slots bound to one module.      *)
(*                                                                            *)
(* Types are integers, `Numeric`, `Unknown`, `UnknownGeneric` (no parent, no  *)
(* constraints, not `Self`), tuples (which stand for every type defined over  *)
(* type arguments only) and structs (which stand for enums).                  *)
EXTENDS ConcurrentSlab, Sequences, FiniteSets

CONSTANTS
    Modules,        \* source ids
    NoSource,       \* no source id
    Structs,        \* struct declarations
    DeclModule,     \* the module of each
    Generics,       \* names of generic parameters
    MaxArity,       \* bound: type arguments of a type
    UnifyKinds,     \* the kinds of unification used, of "Default" and "WithGeneric"
    MaxInserted,    \* bound: types in the slab when another is inserted
    MaxUnifications \* bound: unifications recorded in a block

ASSUME ConstantsAssumption ==
    /\ DeclModule \in [Structs -> Modules]
    /\ NoSource \notin Modules
    /\ MaxArity \in Nat /\ MaxItems >= 2
    /\ UnifyKinds \subseteq {"Default", "WithGeneric"}

VARIABLES
    slab,           \* TypeEngine::slab
    shareable,      \* TypeEngine::shareable_types
    unifications,   \* TypeEngine::unifications
    phase,          \* where the check of the code block is
    current,        \* the module of the code block
    calls,          \* calls of Unifier::unify that have yet to run, innermost first
    mark            \* reapply: the next unification, whether something was replaced, whether one failed

vars == <<slab, shareable, unifications, phase, current, calls, mark>>

Sources == Modules \cup {NoSource}
Uints == {"u8", "u64"}

(* A type argument is a type id and the module of its span, if it has one.    *)
TypeArgs == [id : Slots, span : Sources]
Info(kind, name, args) == [kind |-> kind, name |-> name, args |-> args]
TypeInfos ==
    [kind : {"uint", "numeric", "unknown", "generic", "tuple", "struct"},
     name : Uints \cup Generics \cup Structs \cup {"none"},
     args : Seq(TypeArgs)]
TypeSourceInfos == [info : TypeInfos, src : Sources]

Unknown == Info("unknown", "none", <<>>)
Numeric == Info("numeric", "none", <<>>)
Uint(n) == Info("uint", n, <<>>)

ArgIds(info) == {info.args[k].id : k \in DOMAIN info.args}

(* The ids met by going from these ids to type arguments: the least set that   *)
(* holds them and the arguments of the types it holds.                         *)
ArgsWithin(items, W) == \A i \in W : items[i] # NoItem => ArgIds(items[i].info) \subseteq W
Reach(items, ids) ==
    {i \in Slots : \A W \in SUBSET Slots : ids \subseteq W /\ ArgsWithin(items, W) => i \in W}

(* Every type that `get` would meet from these ids is there. *)
Whole(items, ids) == \A i \in Reach(items, ids) : items[i] # NoItem

(* Equality with engines: spans do not count, ids are looked through.  No     *)
(* type is nested deeper than there are slots.                                *)
IdsEqual(items) ==
    LET eq[n \in 0 .. MaxItems] == [p \in Slots \X Slots |->
          LET a == items[p[1]].info
              b == items[p[2]].info
          IN  \/ p[1] = p[2]
              \/ /\ n > 0
                 /\ a.kind = b.kind
                 /\ a.name = b.name
                 /\ Len(a.args) = Len(b.args)
                 /\ \A k \in DOMAIN a.args : eq[n - 1][<<a.args[k].id, b.args[k].id>>]]
    IN  eq

InfoEqual(items, a, b) ==
    /\ a.kind = b.kind
    /\ a.name = b.name
    /\ Len(a.args) = Len(b.args)
    /\ \A k \in DOMAIN a.args : IdsEqual(items)[MaxItems][<<a.args[k].id, b.args[k].id>>]

TsiEqual(items, a, b) == a.src = b.src /\ InfoEqual(items, a.info, b.info)

ASSUME NoItemAssumption == NoItem \notin TypeSourceInfos

-----------------------------------------------------------------------------
(* What may be shared, and what may be replaced. *)

IsReplaceable(info) == info.kind \in {"unknown", "numeric", "generic"}

ModuleMightOutlive(items, m, ids) ==
    \E i \in Reach(items, ids) : items[i].src # NoSource /\ items[i].src # m

(* Mutation: types that outlive the module of a declaration are not looked for. *)
ChangeableIgnoringModules(items, info) == IsReplaceable(info)

ChangeableAtTop(items, info) ==
    \/ IsReplaceable(info)
    \/ info.kind = "struct" /\ ModuleMightOutlive(items, DeclModule[info.name], ArgIds(info))

IsTypeChangeable(items, info) ==
    \/ ChangeableAtTop(items, info)
    \/ \E i \in Reach(items, ArgIds(info)) : ChangeableAtTop(items, items[i].info)

DistinguishableByAnnotations(info) ==
    info.kind = "tuple" /\ \E k \in DOMAIN info.args : info.args[k].span # NoSource

IsTypeShareable(items, info) ==
    ~IsTypeChangeable(items, info) /\ ~DistinguishableByAnnotations(info)

(* The module of the first argument with a span, else of the first argument   *)
(* whose type is bound to a module.                                           *)
SourceOfArgs(items, args) ==
    LET spanned == {k \in DOMAIN args : /\ args[k].span # NoSource
                                        /\ \A j \in 1 .. k - 1 : args[j].span = NoSource}
        bound   == {k \in DOMAIN args : /\ items[args[k].id].src # NoSource
                                        /\ \A j \in 1 .. k - 1 : items[args[j].id].src = NoSource}
    IN  IF spanned # {} THEN args[CHOOSE k \in spanned : TRUE].span
        ELSE IF bound # {} THEN items[args[CHOOSE k \in bound : TRUE].id].src
        ELSE NoSource

-----------------------------------------------------------------------------
(* insert_or_replace_type_source_info, with and without replace_at_type_id.   *)
(* NoItem stands for "not shared yet".  A shared type whose arguments were    *)
(* collected is not compared: `get` would panic.                              *)

SharedKey(tsi) ==
    LET found == {t \in DOMAIN shareable :
                    Whole(slab.items, ArgIds(t.info)) /\ TsiEqual(slab.items, t, tsi)}
    IN  IF found = {} THEN NoItem ELSE CHOOSE t \in found : TRUE

Share(tsi, i) ==
    [t \in DOMAIN shareable \cup {tsi} |-> IF t = tsi THEN i ELSE shareable[t]]

InsertTsi(tsi, isShareable) ==
    /\ isShareable => SharedKey(tsi) = NoItem   \* else the id found is returned, and nothing changes
    /\ \E i \in InsertSlots(slab) :
         /\ slab' = InsertArc(slab, i, tsi)
         /\ shareable' = IF isShareable THEN Share(tsi, i) ELSE shareable

ReplaceTsi(at, tsi, isShareable) ==
    IF ~isShareable
    THEN slab' = Replace(slab, at, tsi) /\ UNCHANGED shareable
    ELSE IF SharedKey(tsi) # NoItem
    THEN slab' = Replace(slab, at, SharedKey(tsi)) /\ UNCHANGED shareable
    ELSE \E i \in InsertSlots(slab) :
            /\ slab' = Replace(InsertArc(slab, i, tsi), at, tsi)
            /\ shareable' = Share(tsi, i)

(* replace_with_new_source_id: a built-in type is bound to no module. *)
NewTsi(info, src) == [info |-> info, src |-> IF info.kind = "uint" THEN NoSource ELSE src]

ReplaceWith(at, info, src) ==
    ReplaceTsi(at, NewTsi(info, src), IsTypeShareable(slab.items, info))

Touches(at, info, src) == ~TsiEqual(slab.items, slab.items[at], [info |-> info, src |-> src])

-----------------------------------------------------------------------------
(* UnifyCheck::coercion: may `left` be coerced into `right`? *)

EitherIsUnknown(a, b) == a.kind = "unknown" \/ b.kind = "unknown"
UintAndNumeric(a, b) == {a.kind, b.kind} = {"uint", "numeric"}

(* check_multiple's third invariant: where two types on the right are the     *)
(* same, so are the ones on the left.                                         *)
SameOrOpen(items, x, y) ==
    \/ EitherIsUnknown(items[x].info, items[y].info)
    \/ UintAndNumeric(items[x].info, items[y].info)
    \/ InfoEqual(items, items[x].info, items[y].info)
Constrained(items, x, y) ==
    /\ ~EitherIsUnknown(items[x].info, items[y].info)
    /\ ~UintAndNumeric(items[x].info, items[y].info)
    /\ InfoEqual(items, items[x].info, items[y].info)
KeepsConstraints(items, left, right) ==
    \A i, j \in DOMAIN right :
        i < j /\ Constrained(items, right[i].id, right[j].id)
            => SameOrOpen(items, left[i].id, left[j].id)

CoercesAtTop(items, l, r) ==
    IF l.kind = "generic" /\ r.kind = "generic" THEN l.name = r.name
    ELSE \/ r.kind = "generic"
         \/ EitherIsUnknown(l, r)
         \/ UintAndNumeric(l, r)
         \/ InfoEqual(items, l, r)

IdsCoerce(items) ==
    LET check[n \in 0 .. MaxItems] == [p \in Slots \X Slots |->
          LET l == items[p[1]].info
              r == items[p[2]].info
          IN  \/ p[1] = p[2]
              \/ IF l.kind = r.kind /\ l.kind \in {"tuple", "struct"}
                 THEN /\ n > 0
                      /\ l.name = r.name
                      /\ Len(l.args) = Len(r.args)
                      /\ \A k \in DOMAIN l.args : check[n - 1][<<l.args[k].id, r.args[k].id>>]
                      /\ KeepsConstraints(items, l.args, r.args)
                 ELSE CoercesAtTop(items, l, r)]
    IN  check

Coercion(items, left, right) == IdsCoerce(items)[MaxItems][<<left, right>>]

(* OccursCheck: a generic of that name within `other`. *)
Occurs(items, generic, other) ==
    \E i \in Reach(items, {other}) :
        items[i].info.kind = "generic" /\ items[i].info.name = items[generic].info.name

-----------------------------------------------------------------------------
(* Unifier::unify, one call a step.  A call for a type with arguments calls   *)
(* itself for the arguments: those calls go in front of the ones that wait.   *)

Call(received, expected, span, kind) ==
    [received |-> received, expected |-> expected, span |-> span, kind |-> kind]
Calls == [received : Slots, expected : Slots, span : Sources, kind : {"Default", "WithGeneric"}]

\* the arguments of tuples unify with the span of the received argument, others with the call's
CallsForArgs(c, r, e) ==
    [k \in DOMAIN r.args |->
        Call(r.args[k].id, e.args[k].id, IF r.kind = "tuple" THEN r.args[k].span ELSE c.span, c.kind)]

Unifiable(r, e) ==
    /\ r.kind = e.kind /\ r.kind \in {"tuple", "struct"}
    /\ r.name = e.name /\ Len(r.args) = Len(e.args)

Agree(r, e) ==
    \/ r.kind = e.kind /\ r.kind \in {"unknown", "numeric"}
    \/ r.kind = e.kind /\ r.kind \in {"uint", "generic"} /\ r.name = e.name

SolveReceived(c, r, e) ==
    \/ r.kind = "unknown" /\ e.kind # "unknown"
    \/ /\ r.kind = "generic" /\ e.kind # "unknown" /\ ~Agree(r, e)
       /\ ~Occurs(slab.items, c.received, c.expected)
       /\ c.kind = "WithGeneric" \/ e.kind # "generic"
    \/ r.kind = "numeric" /\ e.kind = "uint"

SolveExpected(r, e) ==
    \/ e.kind = "unknown" /\ r.kind # "unknown"
    \/ r.kind = "uint" /\ e.kind = "numeric"

Solve(at, info, src) ==
    /\ ReplaceWith(at, info, src)
    /\ mark' = [mark EXCEPT !.touched = @ \/ (phase = "reapply" /\ Touches(at, info, src))]
    /\ calls' = Tail(calls)

UnifyStep ==
    /\ calls # <<>>
    /\ LET c == Head(calls)
           r == slab.items[c.received].info
           e == slab.items[c.expected].info
       IN  \/ /\ c.received = c.expected \/ Agree(r, e)
              /\ calls' = Tail(calls)
              /\ UNCHANGED <<slab, shareable, mark>>
           \/ /\ c.received # c.expected /\ Unifiable(r, e)
              /\ calls' = CallsForArgs(c, r, e) \o Tail(calls)
              /\ UNCHANGED <<slab, shareable, mark>>
           \/ /\ c.received # c.expected /\ SolveReceived(c, r, e)
              /\ Solve(c.received, e, c.span)
           \/ /\ c.received # c.expected /\ SolveExpected(r, e)
              /\ Solve(c.expected, r, c.span)
           \/ /\ c.received # c.expected
              /\ ~(Agree(r, e) \/ Unifiable(r, e) \/ SolveReceived(c, r, e) \/ SolveExpected(r, e))
              /\ calls' = Tail(calls)
              /\ mark' = [mark EXCEPT !.failed = phase = "reapply"]
              /\ UNCHANGED <<slab, shareable>>
    /\ UNCHANGED <<unifications, phase, current>>

-----------------------------------------------------------------------------
NoMark == [next |-> 1, touched |-> FALSE, failed |-> FALSE]

(* insert_shareable_built_in_types *)
BuiltIns == [i \in Slots |-> IF i = 0 THEN NewTsi(Uint("u8"), NoSource)
                             ELSE IF i = 1 THEN NewTsi(Uint("u64"), NoSource) ELSE NoItem]

Init ==
    /\ slab = [EmptySlab EXCEPT !.items = BuiltIns, !.len = 2]
    /\ shareable = [t \in {BuiltIns[0], BuiltIns[1]} |-> IF t = BuiltIns[0] THEN 0 ELSE 1]
    /\ unifications = <<>>
    /\ phase = "idle"
    /\ current = NoSource
    /\ calls = <<>>
    /\ mark = NoMark

CanInsert ==
    /\ phase = "first" /\ calls = <<>>
    /\ Cardinality(Occupied(slab)) < MaxInserted

(* new_unknown, new_numeric, new_unknown_generic *)
NewOpen ==
    /\ CanInsert
    /\ \E tsi \in {[info |-> Unknown, src |-> NoSource], [info |-> Numeric, src |-> NoSource]}
                  \cup {[info |-> Info("generic", g, <<>>), src |-> current] : g \in Generics} :
         InsertTsi(tsi, FALSE)
    /\ UNCHANGED <<unifications, phase, current, calls, mark>>

(* insert_tuple, insert_tuple_without_annotations and their like *)
InsertTuple ==
    /\ CanInsert
    /\ \E n \in 1 .. MaxArity, span \in {current, NoSource} : \E ids \in [1 .. n -> Occupied(slab)] :
         LET args == [k \in 1 .. n |-> [id |-> ids[k], span |-> span]]
             info == Info("tuple", "none", args)
         IN  /\ Whole(slab.items, ArgIds(info))
             /\ InsertTsi([info |-> info, src |-> SourceOfArgs(slab.items, args)],
                          IsTypeShareable(slab.items, info))
    /\ UNCHANGED <<unifications, phase, current, calls, mark>>

(* insert_struct: the type is bound to the module that declares the struct. *)
InsertStruct ==
    /\ CanInsert
    /\ \E d \in Structs, id \in Occupied(slab) :
         LET info == Info("struct", d, <<[id |-> id, span |-> NoSource]>>)
         IN  /\ Whole(slab.items, {id})
             /\ InsertTsi([info |-> info, src |-> DeclModule[d]],
                          IsTypeShareable(slab.items, info))
    /\ UNCHANGED <<unifications, phase, current, calls, mark>>

(* TyCodeBlock::type_check of the block of a function: the first pass over    *)
(* the nodes, and the unifications applied again until nothing changes.  The  *)
(* second pass inserts and unifies as the first of another block does; what   *)
(* it records is cleared before anything reads it.                            *)
StartBlock ==
    /\ phase = "idle"
    /\ phase' = "first"
    /\ current' \in Modules
    /\ unifications' = <<>>
    /\ mark' = NoMark
    /\ UNCHANGED <<slab, shareable, calls>>

(* unify_helper, where the types are coercible; otherwise it emits an error   *)
(* and changes nothing.  Left out, because they change nothing now or later:  *)
(* unifying two types that cannot change, and what the block already unified. *)
(* An unknown type is never unified with one it occurs in: an expression does *)
(* not contain the type it is about to be given.                              *)
Unify ==
    /\ phase = "first" /\ calls = <<>>
    /\ Len(unifications) < MaxUnifications
    /\ \E x, y \in Occupied(slab), kind \in UnifyKinds :
         LET c == Call(x, y, current, kind)
         IN  /\ x # y
             /\ Whole(slab.items, {x, y})
             /\ x \notin Reach(slab.items, ArgIds(slab.items[y].info))
             /\ y \notin Reach(slab.items, ArgIds(slab.items[x].info))
             /\ IsTypeChangeable(slab.items, slab.items[x].info) \/ IsTypeChangeable(slab.items, slab.items[y].info)
             /\ Coercion(slab.items, x, y)
             /\ \A k \in DOMAIN unifications : unifications[k] # c
             /\ unifications' = Append(unifications, c)
             /\ calls' = <<c>>
    /\ UNCHANGED <<slab, shareable, phase, current, mark>>

(* Mutation: the unifications are not applied again. *)
NoReapply ==
    /\ phase = "first" /\ calls = <<>>
    /\ phase' = "solved"
    /\ UNCHANGED <<slab, shareable, unifications, current, calls, mark>>

Reapply ==
    /\ phase = "first" /\ calls = <<>>
    /\ phase' = "reapply"
    /\ mark' = NoMark
    /\ UNCHANGED <<slab, shareable, unifications, current, calls>>

ReapplyNext ==
    /\ phase = "reapply" /\ calls = <<>> /\ mark.next <= Len(unifications)
    /\ LET c == unifications[mark.next]
       IN  IF Coercion(slab.items, c.received, c.expected)
           THEN calls' = <<c>> /\ mark' = [mark EXCEPT !.next = @ + 1]
           ELSE mark' = [mark EXCEPT !.next = @ + 1, !.failed = TRUE] /\ UNCHANGED calls
    /\ UNCHANGED <<slab, shareable, unifications, phase, current>>

(* Mutation: what was replaced is not forgotten between two rounds. *)
ReapplyEndTouched ==
    /\ phase = "reapply" /\ calls = <<>> /\ mark.next > Len(unifications)
    /\ IF mark.touched
       THEN mark' = [mark EXCEPT !.next = 1] /\ UNCHANGED phase
       ELSE phase' = "solved" /\ UNCHANGED mark
    /\ UNCHANGED <<slab, shareable, unifications, current, calls>>

ReapplyEnd ==
    /\ phase = "reapply" /\ calls = <<>> /\ mark.next > Len(unifications)
    /\ IF mark.touched
       THEN mark' = NoMark /\ UNCHANGED phase
       ELSE phase' = "solved" /\ UNCHANGED mark
    /\ UNCHANGED <<slab, shareable, unifications, current, calls>>

EndBlock ==
    /\ phase = "solved"
    /\ phase' = "idle"
    /\ current' = NoSource
    /\ unifications' = <<>>
    /\ mark' = NoMark
    /\ UNCHANGED <<slab, shareable, calls>>

(* Mutation: the shareable types of the module are kept. *)
ClearModuleKeepsShared(m) ==
    /\ phase = "idle"
    /\ slab' = Retain(slab, {i \in Occupied(slab) : slab.items[i].src # m})
    /\ UNCHANGED <<shareable, unifications, phase, current, calls, mark>>

(* clear_items for clear_module, before a compilation of the language server  *)
ClearModule(m) ==
    /\ phase = "idle"
    /\ slab' = Retain(slab, {i \in Occupied(slab) : slab.items[i].src # m})
    /\ shareable' = [t \in {u \in DOMAIN shareable : u.src # m} |-> shareable[t]]
    /\ UNCHANGED <<unifications, phase, current, calls, mark>>

Next ==
    \/ NewOpen \/ InsertTuple \/ InsertStruct
    \/ StartBlock \/ Unify \/ UnifyStep
    \/ Reapply \/ ReapplyNext \/ ReapplyEnd \/ EndBlock
    \/ \E m \in Modules : ClearModule(m)

Spec == Init /\ [][Next]_vars

(* The block is checked by one thread that goes on. *)
Fairness == WF_vars(UnifyStep) /\ WF_vars(ReapplyNext) /\ WF_vars(ReapplyEnd)
FairSpec == Spec /\ Fairness

-----------------------------------------------------------------------------
TypeOK ==
    /\ SlabOK(slab, TypeSourceInfos)
    /\ DOMAIN shareable \subseteq TypeSourceInfos
    /\ \A t \in DOMAIN shareable : shareable[t] \in Slots
    /\ unifications \in Seq(Calls) /\ calls \in Seq(Calls)
    /\ phase \in {"idle", "first", "reapply", "solved"}
    /\ current \in Sources
    /\ mark \in [next : Nat \ {0}, touched : BOOLEAN, failed : BOOLEAN]

(* ConcurrentSlab under inserts, replacements and garbage collection: the     *)
(* free list is the list of the emptied slots, so an id in use is never given *)
(* to another type.                                                           *)
FreeSlotsExact == FreeListExact(slab)

(* insert_or_replace_type_source_info hands out the id found in              *)
(* shareable_types without a look at the slab: it must hold the very type of  *)
(* the entry, whatever was replaced and collected since it was entered.       *)
SharedInPlace == \A t \in DOMAIN shareable : slab.items[shareable[t]] = t

(* What module_might_outlive_type is for: a shared struct type bound to the   *)
(* module of its declaration is never left pointing to a collected type, and  *)
(* nothing it depends on can be replaced under it.                            *)
SharedStructsOutlive ==
    \A t \in DOMAIN shareable :
        t.info.kind = "struct" /\ t.src = DeclModule[t.info.name]
            => \A i \in Reach(slab.items, ArgIds(t.info)) :
                  slab.items[i] # NoItem /\ ~IsReplaceable(slab.items[i].info)

(* After reapply_unifications, if no unification failed, every recorded pair  *)
(* has become the same type, in whatever order the facts were found.          *)
Solved ==
    phase = "solved" /\ ~mark.failed =>
        \A k \in DOMAIN unifications :
            InfoEqual(slab.items, slab.items[unifications[k].received].info,
                                  slab.items[unifications[k].expected].info)

(* reapply_unifications calls itself as long as something was replaced: it    *)
(* comes to an end.                                                           *)
ReapplyTerminates == phase = "reapply" ~> phase = "solved"
=============================================================================
