------------------------------- MODULE AsmGen -------------------------------
(***************************************************************************)
(* From IR to machine code: the instructions with virtual registers that   *)
(* are emitted for a function, their optimization, the allocation of       *)
(* registers with spilling, and the labels turned into offsets             *)
(* (sway-core/src/asm_generation/fuel).                                    *)
(*                                                                         *)
(* An instruction is [op, d, u, n, lab]: the registers it defines, those   *)
(* it uses, its immediate value (offsets are in words) and its label.  A   *)
(* register is <<"r", v>> (virtual, for value v), <<"p", v>> (virtual, for *)
(* the phi v), <<"a", k>> (allocated) or a special one.                    *)
(***************************************************************************)
EXTENDS Ir

CONSTANTS
    NumRegs,    \* NUM_ALLOCATABLE_REGISTERS
    MaxTries,   \* rounds of spilling before the allocator gives up
    TwelveBits, \* the largest immediate of a load, store, addi or jnz
    EighteenBits, \* the largest immediate of a jump
    MoviWords,  \* the largest offset that movi can put in a register
    ShiftWords, \* 2^12 bytes, the unit of the upper part of a larger offset
    MaxOps      \* instructions a run of the code may execute

Zero == <<"zero">>
One == <<"one">>
Sp == <<"sp">>
Base == <<"locbase">>
Scratch == <<"scratch">>
Arg0 == <<"arg0">>
Reta == <<"reta">>
Retv == <<"retv">>

IsVirtual(r) == r[1] \in {"r", "p"}
Op(op, d, u, n, lab) == [op |-> op, d |-> d, u |-> u, n |-> n, lab |-> lab]
Move(d, s) == Op("move", <<d>>, <<s>>, 0, "")
Label(lab) == Op("label", <<>>, <<>>, 0, lab)
Jump(lab) == Op("jmp", <<>>, <<>>, 0, lab)
Noop == Op("noop", <<>>, <<>>, 0, "")

Defs(op) == Elems(op.d)
UsesOf(op) == Elems(op.u)
Virtual(S) == {r \in S : IsVirtual(r)}

---------------------------------------------------------------------------
(* fuel_asm_builder.rs, functions.rs: a function that is called, with one  *)
(* argument.                                                               *)

\* Where a local is on the stack, in words from the base.
SizeOf(f, l) == IF f.locals[l].agg THEN 2 ELSE 1
Layout(f) == SeqOf(DOMAIN f.locals)

RECURSIVE Words(_, _)
Words(f, ls) == IF ls = <<>> THEN 0 ELSE SizeOf(f, Head(ls)) + Words(f, Tail(ls))
WordOffs(f, l) == Words(f, SubSeq(Layout(f), 1, PositionOf(Layout(f), l) - 1))

\* A constant other than 0 and 1 is put in a new register each time it is used.
Fresh(tag, j) == <<"r", <<"k", tag, j>>>>
ValueToRegister(v, tag, j) ==
    CASE ~IsConst(v) -> [ops |-> <<>>, r |-> <<"r", v>>]
      [] IsConst(v) /\ v[2] = 0 -> [ops |-> <<>>, r |-> Zero]
      [] IsConst(v) /\ v[2] = 1 -> [ops |-> <<>>, r |-> One]
      [] OTHER -> [ops |-> <<Op("movi", <<Fresh(tag, j)>>, <<>>, v[2], "")>>, r |-> Fresh(tag, j)]

\* The address of what an access names: that of the local, then the field's.
ImmediateToReg(base, r, n) ==
    IF n <= TwelveBits THEN <<Op("addi", <<r>>, <<base>>, n, "")>>
    ELSE <<Op("movi", <<r>>, <<>>, n, ""), Op("add", <<r>>, <<base, r>>, 0, "")>>
AddOffs(base, r, n) ==
    IF n = 0 THEN [ops |-> <<>>, r |-> base] ELSE [ops |-> ImmediateToReg(base, r, n), r |-> r]
CompileGetLocal(f, l, tag) == AddOffs(Base, Fresh(tag, 8), WordOffs(f, l))
CompileGetElemPtr(p, k, tag) ==
    LET q == AddOffs(p.r, Fresh(tag, 9), k) IN [ops |-> p.ops \o q.ops, r |-> q.r]
Address(f, l, tag) ==
    IF l \in DOMAIN f.locals THEN CompileGetLocal(f, l, tag)
    ELSE CompileGetElemPtr(CompileGetLocal(f, <<l[1]>>, tag), l[2], tag)

CompileLoad(r, p) == Append(p.ops, Op("lw", <<r>>, <<p.r>>, 0, ""))
CompileStore(p, x) == p.ops \o Append(x.ops, Op("sw", <<>>, <<p.r, x.r>>, 0, ""))
CompileLog(x) == Append(x.ops, Op("log", <<>>, <<x.r>>, 0, ""))
CompileBinaryOp(op, r, x, y) == x.ops \o Append(y.ops, Op(op, <<r>>, <<x.r, y.r>>, 0, ""))
CompileCmp(op, r, x, y) == x.ops \o Append(y.ops, Op(op, <<r>>, <<x.r, y.r>>, 0, ""))

CompileInstruction(f, i) ==
    LET r == <<"r", i.id>>
        x == ValueToRegister(i.a[1], i.id, 1)
        y == ValueToRegister(i.a[2], i.id, 2)
        p == Address(f, i.l, i.id)
    IN  CASE i.op = "load"  -> CompileLoad(r, p)
          [] i.op = "store" -> CompileStore(p, x)
          [] i.op = "log"   -> CompileLog(x)
          [] IsBinary(i.op) -> CompileBinaryOp(i.op, r, x, y)
          [] IsCmp(i.op)    -> CompileCmp(i.op, r, x, y)

CompileBranchToPhiValue(f, b, s) ==
    Concat([i \in DOMAIN s.args |->
        LET x == ValueToRegister(s.args[i], <<"phi", b, s.b>>, i)
        IN  Append(x.ops, Move(<<"p", f.blk[s.b].args[i]>>, x.r))])

CompileBranch(f, b, s) == Append(CompileBranchToPhiValue(f, b, s), Jump(s.b))

\* The parameters of both destinations are moved before the condition is tested.
CompileConditionalBranch(f, b, c, to) ==
    CompileBranchToPhiValue(f, b, to[1]) \o CompileBranchToPhiValue(f, b, to[2])
    \o c.ops \o <<Op("jnz", <<>>, <<c.r>>, 0, to[1].b), Jump(to[2].b)>>

CompileRetFromCall(c) == c.ops \o <<Move(Retv, c.r), Jump("end")>>

CompileTerminator(f, b) ==
    LET t == f.blk[b].term
        c == ValueToRegister(t.a[1], <<"term", b, b>>, 1)
    IN  CASE t.op = "ret" -> CompileRetFromCall(c)
          [] t.op = "br"  -> CompileBranch(f, b, t.to[1])
          [] t.op = "cbr" -> CompileConditionalBranch(f, b, c, t.to)

CompileBlock(f, b) ==
    LET bl == f.blk[b]
        phis == IF b = Entry(f) THEN <<>>
                ELSE [i \in DOMAIN bl.args |-> Move(<<"r", bl.args[i]>>, <<"p", bl.args[i]>>)]
    IN  <<Label(b)>> \o phis
        \o Concat([i \in DOMAIN bl.ins |-> CompileInstruction(f, bl.ins[i])])
        \o CompileTerminator(f, b)

\* A local with an initializer is set to it, an aggregate by a copy of its
\* words.
InitLocal(f, l) ==
    LET dst == Fresh(l, 7)
    IN  <<Op("movi", <<Scratch>>, <<>>, f.locals[l].init[2], "")>>
        \o ImmediateToReg(Base, dst, WordOffs(f, l))
        \o <<IF f.locals[l].agg THEN Op("mcpi", <<>>, <<dst, Scratch>>, 2, "")
                                ELSE Op("sw", <<>>, <<dst, Scratch>>, 0, "")>>

CompileFunction(f) ==
    LET n    == Words(f, Layout(f))
        arg  == f.blk[Entry(f)].args[1]
        rpo  == Rev(ComputePostOrder(f))
        reta == <<"r", <<"reta">>>>
    IN  <<Label("start"), Op("pusha", <<>>, <<>>, 0, ""),
          Move(Base, Sp), Op("cfei", <<Sp>>, <<Sp>>, n, ""),
          Move(<<"r", arg>>, Arg0), Move(reta, Reta), Move(<<"r", <<"retv">>>>, Retv)>>
        \o Concat([i \in DOMAIN Layout(f) |->
                IF f.locals[Layout(f)[i]].init = None THEN <<>> ELSE InitLocal(f, Layout(f)[i])])
        \o Concat([i \in DOMAIN rpo |-> CompileBlock(f, rpo[i])])
        \o <<Label("end"), Op("cfsi", <<Sp>>, <<Sp>>, n, ""), Move(Reta, reta),
             Op("popa", <<>>, <<>>, 0, ""), Op("ret", <<>>, <<Reta>>, 0, "")>>

---------------------------------------------------------------------------
(* analyses.rs                                                             *)

IndexOfLabel(ops, lab) == CHOOSE i \in DOMAIN ops : ops[i].op = "label" /\ ops[i].lab = lab

OpSuccessors(ops, i) ==
    ({i + 1} \cap (DOMAIN ops \ (IF ops[i].op = "jmp" THEN {i + 1} ELSE {})))
    \cup (IF ops[i].op \in {"jmp", "jnz"} THEN {IndexOfLabel(ops, ops[i].lab)} ELSE {})

RECURSIVE LiveFix(_, _, _, _)
LiveFix(ops, succ, ignore_constant_regs, out) ==
    LET Regs(S) == IF ignore_constant_regs THEN Virtual(S) ELSE S
        in   == [i \in DOMAIN ops |->
                    Regs(UsesOf(ops[i])) \cup (out[i] \ Regs(Defs(ops[i])))]
        next == [i \in DOMAIN ops |-> UNION {in[j] : j \in succ[i]}]
    IN  IF next = out THEN out ELSE LiveFix(ops, succ, ignore_constant_regs, next)

\* The registers that are live after each instruction.
LivenessAnalysis(ops, ignore_constant_regs) ==
    LiveFix(ops, [i \in DOMAIN ops |-> OpSuccessors(ops, i)], ignore_constant_regs,
            [i \in DOMAIN ops |-> {}])

---------------------------------------------------------------------------
(* optimizations.rs, abstract_instruction_set.rs                           *)

\* What is known of a register within a block: a constant, or an offset from
\* the definition number ver of a base register.
Constant(n) == [k |-> "const", reg |-> Zero, ver |-> 0, n |-> n]
BaseOffset(reg, ver, n) == [k |-> "base", reg |-> reg, ver |-> ver, n |-> n]

Nothing == [ver |-> <<>>, has |-> <<>>]
GetDefVersion(st, r) == IF r \in DOMAIN st.ver THEN st.ver[r] ELSE 0
RecordNewDef(st, r) == [st EXCEPT !.ver = (r :> GetDefVersion(st, r) + 1) @@ @]
Insert(st, r, c) == [st EXCEPT !.has = (r :> c) @@ @]
Forget(st, S) ==
    [ver |-> [r \in S |-> GetDefVersion(st, r) + 1] @@ st.ver,
     has |-> [r \in DOMAIN st.has \ S |-> st.has[r]]]
Knows(st, r, k) == r \in DOMAIN st.has /\ st.has[r].k = k
UpToDate(st, c) == c.k = "base" /\ GetDefVersion(st, c.reg) = c.ver

ProcessAdd(st, dest, opd1, n) ==
    LET c == IF Knows(st, opd1, "const") THEN Constant(st.has[opd1].n + n)
             ELSE IF opd1 \in DOMAIN st.has /\ UpToDate(st, st.has[opd1])
             THEN [st.has[opd1] EXCEPT !.n = @ + n]
             ELSE BaseOffset(opd1, GetDefVersion(st, opd1), n)
    IN  RecordNewDef(Insert(st, dest, c), dest)

\* A load or store takes the offset of its address into its immediate.
Indexed(st, op) ==
    LET a == op.u[1]
    IN  IF a \in DOMAIN st.has /\ UpToDate(st, st.has[a]) /\ st.has[a].n + op.n < TwelveBits
        THEN [op EXCEPT !.u[1] = st.has[a].reg, !.n = @ + st.has[a].n]
        ELSE op

\* A move back to the register its source is a copy of is dropped.  A move is
\* not recorded as a new definition.
Redundant(st, op) ==
    /\ op.op = "move" /\ Knows(st, op.u[1], "base") /\ st.has[op.u[1]].n = 0
    /\ st.has[op.u[1]].reg = op.d[1]
    /\ st.has[op.u[1]].ver = GetDefVersion(st, op.u[1])

After(st, op) ==
    CASE op.op = "add" ->
            IF Knows(st, op.u[2], "const")
            THEN ProcessAdd(st, op.d[1], op.u[1], st.has[op.u[2]].n)
            ELSE Forget(st, Defs(op))
      [] op.op = "addi" -> ProcessAdd(st, op.d[1], op.u[1], op.n)
      [] op.op = "mul" /\ \A r \in UsesOf(op) : Knows(st, r, "const") ->
            RecordNewDef(Insert(st, op.d[1],
                Constant(st.has[op.u[1]].n * st.has[op.u[2]].n)), op.d[1])
      [] op.op = "movi" -> RecordNewDef(Insert(st, op.d[1], Constant(op.n)), op.d[1])
      [] op.op = "move" ->
            IF Knows(st, op.u[1], "base") /\ st.has[op.u[1]].n = 0 THEN st
            ELSE Insert(st, op.d[1], BaseOffset(op.u[1], GetDefVersion(st, op.u[1]), 0))
      [] op.op \in {"label", "jmp", "jnz", "pusha", "popa"} -> Nothing
      [] OTHER -> Forget(st, Defs(op))

RECURSIVE IndexFrom(_, _, _)
IndexFrom(ops, st, out) ==
    IF ops = <<>> THEN out
    ELSE LET op  == Head(ops)
             new == IF op.op \in {"lw", "sw"} THEN Indexed(st, op) ELSE op
         IN  IndexFrom(Tail(ops), After(st, op),
                       IF Redundant(st, op) THEN out ELSE Append(out, new))

ConstIndexing(ops) == IndexFrom(ops, Nothing, <<>>)

HasSideEffect(op) ==
    \/ op.op \in {"sw", "mcpi", "log", "cfei", "cfsi", "ret", "label", "pusha", "popa"}
    \/ \E r \in Defs(op) : ~IsVirtual(r)

\* From the last instruction to the first; a jump starts afresh with what is
\* live after it.
RECURSIVE DceFrom(_, _, _, _, _)
DceFrom(ops, live, i, cur, kept) ==
    IF i = 0 THEN kept
    ELSE LET op == ops[i] IN
         IF op.op \in {"jmp", "jnz"}
         THEN DceFrom(ops, live, i - 1, live[i] \cup UsesOf(op), <<op>> \o kept)
         ELSE IF Defs(op) \cap cur = {} /\ ~HasSideEffect(op)
         THEN DceFrom(ops, live, i - 1, cur \ Defs(op), kept)
         ELSE DceFrom(ops, live, i - 1, (cur \ Defs(op)) \cup UsesOf(op), <<op>> \o kept)

AsmDce(ops) == DceFrom(ops, LivenessAnalysis(ops, FALSE), Len(ops), {}, <<>>)

Keep(ops, S) ==
    LET at == SelectSeq([i \in DOMAIN ops |-> i], LAMBDA i : i \in S)
    IN  [k \in DOMAIN at |-> ops[at[k]]]

RECURSIVE ReachableOps(_, _)
ReachableOps(ops, seen) ==
    LET next == seen \cup UNION {OpSuccessors(ops, i) : i \in seen}
    IN  IF next = seen THEN seen ELSE ReachableOps(ops, next)
AsmSimplifyCfg(ops) == Keep(ops, ReachableOps(ops, {1}))

RemoveSequentialJumps(ops) ==
    [i \in DOMAIN ops |->
        IF i < Len(ops) /\ ops[i].op = "jmp" /\ ops[i + 1].op = "label" /\ ops[i].lab = ops[i + 1].lab
        THEN Noop ELSE ops[i]]

RECURSIVE RemoveRedundantMoves(_)
RemoveRedundantMoves(ops) ==
    LET used == UNION {UsesOf(ops[i]) : i \in DOMAIN ops}
        Dead(op) == op.op = "move" /\ IsVirtual(op.d[1]) /\ op.d[1] \notin used
    IN  IF \A i \in DOMAIN ops : ~Dead(ops[i]) THEN ops
        ELSE RemoveRedundantMoves([i \in DOMAIN ops |-> IF Dead(ops[i]) THEN Noop ELSE ops[i]])

RemoveRedundantOps(ops) == SelectSeq(ops, LAMBDA op : op.op # "noop")

Optimize(ops) ==
    RemoveRedundantOps(RemoveRedundantMoves(RemoveSequentialJumps(
        AsmSimplifyCfg(AsmDce(ConstIndexing(ops))))))

\* Every virtual register that is used is defined somewhere.
VerifyOps(ops) ==
    UNION {Virtual(UsesOf(ops[i])) : i \in DOMAIN ops}
    \subseteq UNION {Defs(ops[i]) : i \in DOMAIN ops}

---------------------------------------------------------------------------
(* register_allocator.rs.  The interference graph is [nodes, edges]: an     *)
(* edge goes from a register that is defined to one that is live then.     *)

RegistersOf(ops) == UNION {Virtual(Defs(ops[i]) \cup UsesOf(ops[i])) : i \in DOMAIN ops}

\* Mutant: what a move defines interferes with nothing.
InterferenceWithoutMoves(ops, liveOut) ==
    [nodes |-> RegistersOf(ops),
     edges |-> UNION {{<<v, b>> : v \in Virtual(Defs(ops[i])), b \in liveOut[i]}
                      : i \in {j \in DOMAIN ops : ops[j].op # "move"}} \ {<<v, v>> : v \in RegistersOf(ops)}]

CreateInterferenceGraph(ops, liveOut) ==
    [nodes |-> RegistersOf(ops),
     edges |-> UNION {{<<v, b>> : v \in Virtual(Defs(ops[i])),
                                  b \in liveOut[i] \ (IF ops[i].op = "move" THEN UsesOf(ops[i]) ELSE {})}
                      : i \in DOMAIN ops} \ {<<v, v>> : v \in RegistersOf(ops)}]

Incident(edges, v) == {e \in edges : v \in {e[1], e[2]}}
Neighbours(edges, v) == UNION {{e[1], e[2]} : e \in Incident(edges, v)} \ {v}
Degree(edges, v) == Cardinality(Incident(edges, v))

\* Coalescing keeps a colourable graph colourable (Briggs, George).
BriggsSafety(g, r1, r2) ==
    Cardinality({n \in Neighbours(g.edges, r1) \cup Neighbours(g.edges, r2) :
                    Degree(g.edges, n) >= NumRegs}) < NumRegs
GeorgeSafety(g, r1, r2) ==
    \A n \in Neighbours(g.edges, r2) :
        n \in Neighbours(g.edges, r1) \/ Degree(g.edges, n) < NumRegs

\* r1 becomes r2, which takes over its edges as incoming ones.
MergeNodes(g, r1, r2) ==
    [nodes |-> g.nodes \ {r1},
     edges |-> {e \in g.edges : r1 \notin {e[1], e[2]}}
               \cup {<<n, r2>> : n \in {m \in Neighbours(g.edges, r1) : <<r2, m>> \notin g.edges}}]

RenameOps(ops, r1, r2) ==
    LET To(r) == IF r = r1 THEN r2 ELSE r
    IN  [i \in DOMAIN ops |->
            [ops[i] EXCEPT !.d = [k \in DOMAIN @ |-> To(@[k])], !.u = [k \in DOMAIN @ |-> To(@[k])]]]
RenameLive(live, r1, r2) ==
    [i \in DOMAIN live |-> IF r1 \in live[i] THEN (live[i] \ {r1}) \cup {r2} ELSE live[i]]

DropAt(s, i) == SubSeq(s, 1, i - 1) \o SubSeq(s, i + 1, Len(s))

\* From the first instruction to the last.  A move between registers that do
\* not interfere is removed and the registers become one.
RECURSIVE CoalesceFrom(_, _, _, _)
CoalesceFrom(ops, live, g, i) ==
    IF i > Len(ops) THEN [ops |-> ops, live |-> live, g |-> g]
    ELSE LET op == ops[i]
             r1 == op.d[1]
             r2 == op.u[1]
         IN  IF op.op # "move" \/ ~IsVirtual(r1) \/ ~IsVirtual(r2)
             THEN CoalesceFrom(ops, live, g, i + 1)
             ELSE IF r1 = r2 THEN CoalesceFrom(DropAt(ops, i), DropAt(live, i), g, i)
             ELSE IF {<<r1, r2>>, <<r2, r1>>} \cap g.edges # {}
                     \/ ~(BriggsSafety(g, r1, r2) \/ GeorgeSafety(g, r1, r2))
             THEN CoalesceFrom(ops, live, g, i + 1)
             ELSE CoalesceFrom(RenameOps(DropAt(ops, i), r1, r2),
                               RenameLive(DropAt(live, i), r1, r2), MergeNodes(g, r1, r2), i)

CoalesceRegisters(ops, liveOut, g) == CoalesceFrom(ops, liveOut, g, 1)

\* A spilled register lives only from a definition to the store after it and
\* from a load to the use after it: it interferes with what is live there.
Retained(ops, live, v) ==
    UNION {live[i] : i \in {j \in DOMAIN ops : v \in Defs(ops[j])}}
    \cup UNION {live[i - 1] : i \in {j \in DOMAIN ops \ {1} : v \in UsesOf(ops[j])}}

\* c is [work, pending, alive, stack, spills]: nodes of low degree to be
\* stacked, the other nodes, the edges not deleted.
StackNode(g, c) ==
    LET n     == c.work[Len(c.work)]
        rest  == SubSeq(c.work, 1, Len(c.work) - 1)
        alive == IF n \in c.spills THEN c.alive ELSE c.alive \ Incident(g.edges, n)
        low   == {m \in c.pending \cap Neighbours(g.edges, n) : Degree(alive, m) < NumRegs}
    IN  IF n \in Elems(c.stack) THEN [c EXCEPT !.work = rest]
        ELSE [c EXCEPT !.work = rest \o SeqOf(low), !.pending = @ \ low,
                       !.alive = alive, !.stack = Append(@, n)]

\* The register with the most incoming edges is spilled.
SpillNode(g, ops, live, c) ==
    LET In(n)  == Cardinality({e \in c.alive : e[2] = n})
        n      == CHOOSE m \in c.pending : \A k \in c.pending : In(k) <= In(m)
        spills == c.spills \cup {n}
        retain == Retained(ops, live, n) \ spills
    IN  [c EXCEPT !.work = <<n>>, !.pending = @ \ {n}, !.spills = spills,
                  !.alive = @ \ {e \in Incident(g.edges, n) : {e[1], e[2]} \cap retain = {}}]

RECURSIVE ColorFrom(_, _, _, _)
ColorFrom(g, ops, live, c) ==
    CASE c.work # <<>> -> ColorFrom(g, ops, live, StackNode(g, c))
      [] c.work = <<>> /\ c.pending # {} -> ColorFrom(g, ops, live, SpillNode(g, ops, live, c))
      [] OTHER -> c

ColorInterferenceGraph(g, ops, live) ==
    LET low == {n \in g.nodes : Degree(g.edges, n) < NumRegs}
    IN  ColorFrom(g, ops, live,
            [work |-> SeqOf(low), pending |-> g.nodes \ low, alive |-> g.edges,
             stack |-> <<>>, spills |-> {}])

\* Liveness, interference, coalescing, colouring.
TryColor(ops) ==
    LET live == LivenessAnalysis(ops, TRUE)
        co   == CoalesceRegisters(ops, live, CreateInterferenceGraph(ops, live))
        col  == ColorInterferenceGraph(co.g, co.ops, co.live)
    IN  [ops |-> co.ops, g |-> co.g, stack |-> col.stack, spills |-> col.spills]

\* The slots of spilled registers follow the locals; a slot that is too far
\* for an immediate is addressed through the scratch register, and one that is
\* too far for movi in two parts.
SlotAddress(n) ==
    LET addBase == Op("add", <<Scratch>>, <<Scratch, Base>>, 0, "")
    IN  CASE n <= TwelveBits -> [ops |-> <<>>, r |-> Base, n |-> n]
          [] n > TwelveBits /\ n <= MoviWords ->
                [ops |-> <<Op("movi", <<Scratch>>, <<>>, n, ""), addBase>>, r |-> Scratch, n |-> 0]
          [] n > TwelveBits /\ n > MoviWords ->
                [ops |-> <<Op("movi", <<Scratch>>, <<>>, n \div ShiftWords, ""),
                           Op("slli", <<Scratch>>, <<Scratch>>, ShiftWords, ""), addBase>>,
                 r |-> Scratch, n |-> n % ShiftWords]
Refill(v, n) ==
    LET a == SlotAddress(n) IN Append(a.ops, Op("lw", <<v>>, <<a.r>>, a.n, ""))
StoreSlot(v, n) ==
    LET a == SlotAddress(n) IN Append(a.ops, Op("sw", <<>>, <<a.r, v>>, a.n, ""))

SpillWith(ops, spills, freed) ==
    LET order  == SeqOf(spills)
        size   == (CHOOSE op \in Elems(ops) : op.op = "cfei").n
        Slot(v) == size + PositionOf(order, v) - 1
        Loads(op)  == Concat([k \in DOMAIN order |->
            IF order[k] \in UsesOf(op) THEN Refill(order[k], Slot(order[k])) ELSE <<>>])
        Stores(op) == Concat([k \in DOMAIN order |->
            IF order[k] \in Defs(op) THEN StoreSlot(order[k], Slot(order[k])) ELSE <<>>])
    IN  Concat([i \in DOMAIN ops |->
            IF ops[i].op \in {"cfei"} \cup freed
            THEN <<[ops[i] EXCEPT !.n = size + Cardinality(spills)]>>
            ELSE Loads(ops[i]) \o <<ops[i]>> \o Stores(ops[i])])

\* Mutant: the slots are not freed.
SpillKeepingSlots(ops, spills) == SpillWith(ops, spills, {})

Spill(ops, spills) == SpillWith(ops, spills, {"cfsi"})

\* From the top of the stack, the first register no neighbour uses.  A node
\* for which there is none is left out.
RECURSIVE AssignFrom(_, _, _)
AssignFrom(g, stack, pool) ==
    IF stack = <<>> THEN pool
    ELSE LET v     == stack[Len(stack)]
             taken == {pool[n] : n \in Neighbours(g.edges, v) \cap DOMAIN pool}
             free  == (1..NumRegs) \ taken
         IN  IF free = {} THEN pool
             ELSE AssignFrom(g, SubSeq(stack, 1, Len(stack) - 1),
                             (v :> CHOOSE k \in free : \A j \in free : k <= j) @@ pool)
AssignRegisters(g, stack) == AssignFrom(g, stack, <<>>)
Assigned(ops, pool) == RegistersOf(ops) \subseteq DOMAIN pool

AllocateRegisters(ops, pool) ==
    LET To(r) == IF IsVirtual(r) THEN <<"a", pool[r]>> ELSE r
    IN  [i \in DOMAIN ops |->
            [ops[i] EXCEPT !.d = [k \in DOMAIN @ |-> To(@[k])], !.u = [k \in DOMAIN @ |-> To(@[k])]]]

---------------------------------------------------------------------------
(* allocated_abstract_instruction_set.rs                                   *)

\* The registers a function changes are pushed when it starts and popped
\* before it returns, and so is the base of its locals.
EmitPushaPopa(ops) ==
    LET First(o) == CHOOSE i \in DOMAIN ops : ops[i].op = o
        changed == UNION {Defs(ops[i]) : i \in First("pusha")..First("popa")}
        low     == SelectSeq([k \in 1..NumRegs |-> <<"a", k>>], LAMBDA r : r \in changed)
        Mask(o, d, u) == IF low = <<>> THEN <<>> ELSE <<Op(o, d, u, 0, "")>>
    IN  Concat([i \in DOMAIN ops |->
            CASE ops[i].op = "pusha" ->
                    Append(Mask("push", <<>>, low), Op("push", <<>>, <<Base>>, 0, ""))
              [] ops[i].op = "popa" ->
                    <<Op("pop", <<Base>>, <<>>, 0, "")>> \o Mask("pop", low, <<>>)
              [] OTHER -> <<ops[i]>>])

RemoveEmptyFrames(ops) == SelectSeq(ops, LAMBDA op : ~(op.op \in {"cfei", "cfsi"} /\ op.n = 0))

\* Offsets count instructions; a label is none.
Offset(ops, i) == Cardinality({j \in 1..(i - 1) : ops[j].op # "label"})
LabelOffset(ops, lab) == Offset(ops, IndexOfLabel(ops, lab))
AbsDiff(m, n) == IF m < n THEN n - m ELSE m - n
RelOffset(ops, i) == AbsDiff(LabelOffset(ops, ops[i].lab), Offset(ops, i))
IsJump(op) == op.op \in {"jmp", "jnz"}
JumpLimit(op) == IF op.op = "jmp" THEN EighteenBits ELSE TwelveBits
Backward(ops, i) == Offset(ops, i) > LabelOffset(ops, ops[i].lab)
RelativeJump(op, back, off, n) ==
    Op(IF op.op = "jmp" THEN IF back THEN "jmpb" ELSE "jmpf"
                        ELSE IF back THEN "jnzb" ELSE "jnzf", <<>>, Append(op.u, off), n, "")

NeedsRemap(ops) ==
    \E i \in DOMAIN ops :
        IsJump(ops[i]) /\ (RelOffset(ops, i) = 0 \/ RelOffset(ops, i) > JumpLimit(ops[i]))

\* A jump to itself gets an instruction to jump to; one that is too far takes
\* its offset from a register.
RewriteFarJumps(ops) ==
    Concat([i \in DOMAIN ops |->
        IF ~IsJump(ops[i]) THEN <<ops[i]>>
        ELSE IF RelOffset(ops, i) = 0 THEN <<Noop, ops[i]>>
        ELSE IF RelOffset(ops, i) - 1 <= JumpLimit(ops[i]) THEN <<ops[i]>>
        ELSE <<Op("loadlabel", <<Scratch>>, <<>>, 0, ops[i].lab),
               RelativeJump(ops[i], Backward(ops, i), Scratch, 0)>>])

\* Rewriting moves the labels, so it is repeated; the empty sequence stands
\* for the error after eleven rounds.
RECURSIVE ResolveLabels(_, _)
ResolveLabels(ops, iterCount) ==
    LET new == RewriteFarJumps(ops)
    IN  IF iterCount > 10 THEN <<>>
        ELSE IF ~NeedsRemap(ops) \/ new = ops THEN ops
        ELSE ResolveLabels(new, iterCount + 1)

\* A relative jump adds one to its offset.
RealizeOp(ops, i) ==
    CASE ops[i].op = "label" -> <<>>
      [] IsJump(ops[i]) -> <<RelativeJump(ops[i], Backward(ops, i), Zero, RelOffset(ops, i) - 1)>>
      [] ops[i].op = "loadlabel" ->
            <<Op("movi", <<Scratch>>, <<>>,
                 AbsDiff(LabelOffset(ops, ops[i].lab), Offset(ops, i) + 1) - 1, "")>>
      [] OTHER -> <<ops[i]>>

RealizeLabels(ops) ==
    LET r == ResolveLabels(ops, 0) IN Concat([i \in DOMAIN r |-> RealizeOp(r, i)])

---------------------------------------------------------------------------
(* The virtual machine, as far as the code above uses it.  Addresses start *)
(* where data words end, so only the sum of two data words can overflow.   *)

StackStart == Word
Junk == 1000    \* what the stack holds before it is written
CallerWords == StackStart..(StackStart + 1)
CalleeSaved == {<<"a", k>> : k \in 1..NumRegs} \cup {Base, Sp}

MachineInit(input) ==
    [pc  |-> 1, out |-> <<>>, end |-> "no",
     reg |-> [r \in {<<"a", k>> : k \in 1..NumRegs} |-> Word + r[2]]
             @@ (Zero :> 0) @@ (One :> 1) @@ (Base :> StackStart) @@ (Sp :> StackStart + 2)
             @@ (Scratch :> Junk) @@ (Arg0 :> input) @@ (Reta :> Junk) @@ (Retv :> 0),
     mem |-> [a \in CallerWords |-> Junk + a]]

\* Memory stays readable when the stack shrinks, and is written below its
\* pointer only.
Extend(m, k) ==
    [m EXCEPT !.reg[Sp] = @ + k,
              !.mem = @ @@ [a \in m.reg[Sp]..(m.reg[Sp] + k - 1) |-> Junk]]

WriteWords(m, as, v) ==
    IF as \subseteq StackStart..(m.reg[Sp] - 1) THEN [m EXCEPT !.mem = [a \in as |-> v] @@ @]
    ELSE [m EXCEPT !.end = "fault"]

\* One instruction other than a jump or the return.
ExecOp(m, op) ==
    LET R(k) == m.reg[op.u[k]]
        Set(v) == [m EXCEPT !.reg[op.d[1]] = v]
    IN  CASE op.op = "move" -> Set(R(1))
          [] op.op = "movi" -> Set(op.n)
          [] op.op = "addi" -> Set(R(1) + op.n)
          [] op.op = "slli" -> Set(R(1) * op.n)
          [] op.op = "lw" ->
                IF R(1) + op.n \in DOMAIN m.mem THEN Set(m.mem[R(1) + op.n])
                ELSE [m EXCEPT !.end = "fault"]
          [] op.op = "sw" -> WriteWords(m, {R(1) + op.n}, R(2))
          [] op.op = "mcpi" -> WriteWords(m, R(1)..(R(1) + op.n - 1), R(2))
          [] op.op = "log" -> [m EXCEPT !.out = Append(@, R(1))]
          [] op.op = "cfei" -> Extend(m, op.n)
          [] op.op = "cfsi" -> [m EXCEPT !.reg[Sp] = @ - op.n]
          [] op.op = "push" ->
                LET e == Extend(m, Len(op.u))
                IN  [e EXCEPT !.mem = [a \in DOMAIN @ |->
                        IF a \in m.reg[Sp]..(e.reg[Sp] - 1) THEN R(a - m.reg[Sp] + 1) ELSE @[a]]]
          [] op.op = "pop" ->
                LET sp == m.reg[Sp] - Len(op.d)
                IN  [m EXCEPT !.reg = (Sp :> sp) @@ [r \in Defs(op) |->
                        m.mem[sp + PositionOf(op.d, r) - 1]] @@ @]
          [] op.op = "noop" -> m
          [] OTHER ->
                IF R(1) < Word /\ R(2) < Word /\ Arith(op.op, R(1), R(2)) >= Word
                THEN [m EXCEPT !.end = "panic"]
                ELSE Set(Arith(op.op, R(1), R(2)))

Jumped(m, op) ==
    LET n == op.n + m.reg[op.u[Len(op.u)]] + 1
    IN  CASE op.op \in {"jnzf", "jnzb"} /\ m.reg[op.u[1]] = 0 -> m.pc + 1
          [] op.op = "jmpf" \/ (op.op = "jnzf" /\ m.reg[op.u[1]] # 0) -> m.pc + n
          [] OTHER -> m.pc - n

RECURSIVE Exec(_, _, _)
Exec(code, m, fuel) ==
    IF m.end # "no" THEN m
    ELSE IF m.pc \notin DOMAIN code THEN [m EXCEPT !.end = "fault"]
    ELSE IF fuel = 0 THEN [m EXCEPT !.end = "long"]
    ELSE LET op == code[m.pc]
         IN  CASE op.op = "ret" -> [m EXCEPT !.out = Append(@, m.reg[Retv]), !.end = "ret"]
               [] op.op \in {"jmpf", "jmpb", "jnzf", "jnzb"} ->
                    Exec(code, [m EXCEPT !.pc = Jumped(m, op)], fuel - 1)
               [] OTHER -> Exec(code, ExecOp([m EXCEPT !.pc = @ + 1], op), fuel - 1)

Execute(code, input) == Exec(code, MachineInit(input), MaxOps)

=============================================================================
