------------------------------ MODULE IrPasses ------------------------------
(***************************************************************************)
(* The optimization passes of sway-ir over a function (optimize/).  Every  *)
(* pass returns the function it makes and whether it says it changed it.   *)
(***************************************************************************)
EXTENDS Ir

Result(f, modified) == [f |-> f, modified |-> modified]

---------------------------------------------------------------------------
(* simplify_cfg.rs                                                         *)

RECURSIVE ReachFrom(_, _)
ReachFrom(f, seen) ==
    LET next == seen \cup UNION {SuccBlocks(f, b) : b \in seen}
    IN  IF next = seen THEN seen ELSE ReachFrom(f, next)

\* The blocks no path reaches go, and stop being predecessors.
RemoveDeadBlocks(f) ==
    LET live == ReachFrom(f, {Entry(f)})
        kept == SelectSeq(f.order, LAMBDA b : b \in live)
    IN  Result([f EXCEPT !.order = kept,
                         !.blk = [b \in live |-> [f.blk[b] EXCEPT !.preds = @ \cap live]]],
               live # Blocks(f))

\* The block that b may be merged with: the only destination of its branch,
\* when b is the only predecessor there.
CheckCandidate(f, b) ==
    /\ f.blk[b].term.op = "br"
    /\ Cardinality(f.blk[Successors(f, b)[1].b].preds) = 1

RECURSIVE BlockChain(_, _)
BlockChain(f, b) ==
    IF CheckCandidate(f, b) THEN <<b>> \o BlockChain(f, Successors(f, b)[1].b) ELSE <<b>>

\* The blocks of a chain are appended to its first block one by one; the
\* arguments of each are to be replaced by what the branch passed.
RECURSIVE MergeChain(_, _, _, _)
MergeChain(f, b, chain, m) ==
    IF chain = <<>> THEN [f |-> f, m |-> m]
    ELSE LET c    == Head(chain)
             args == f.blk[c].args
             pars == GetSuccParams(f, b, c)
             more == [v \in Elems(args) |-> pars[PositionOf(args, v)]]
             g    == [f EXCEPT !.blk[b].ins = @ \o f.blk[c].ins,
                               !.blk[b].term = f.blk[c].term]
         IN  MergeChain(RemoveBlock(g, c), b, Tail(chain), more @@ m)

RECURSIVE ReplacePreds(_, _, _, _)
ReplacePreds(f, succs, old, new) ==
    IF succs = {} THEN f
    ELSE LET s == CHOOSE b \in succs : TRUE
         IN  ReplacePreds(AddPred(RemovePred(f, s, old), s, new), succs \ {s}, old, new)

RECURSIVE MergeAll(_, _, _, _)
MergeAll(f, todo, m, modified) ==
    IF todo = <<>> THEN Result(IF modified THEN ReplaceValues(f, m) ELSE f, modified)
    ELSE LET b == Head(todo) IN
         IF b \notin Blocks(f) \/ ~CheckCandidate(f, b)
         THEN MergeAll(f, Tail(todo), m, modified)
         ELSE LET chain  == BlockChain(f, b)
                  last   == chain[Len(chain)]
                  merged == MergeChain(f, b, Tail(chain), m)
              IN  MergeAll(ReplacePreds(merged.f, SuccBlocks(f, last), last, b),
                           Tail(todo), merged.m, TRUE)

MergeBlocks(f) == MergeAll(f, f.order, <<>>, FALSE)

\* A block without arguments that only branches on is a candidate to be
\* stepped over.  The candidates, and where they branch, are read first.
Unlinkable(f) ==
    SelectSeq(Tail(f.order), LAMBDA b :
        f.blk[b].term.op = "br" /\ f.blk[b].ins = <<>> /\ f.blk[b].args = <<>>)

RECURSIVE UnlinkPreds(_, _, _, _)
UnlinkPreds(f, preds, b, to) ==
    IF preds = {} THEN f
    ELSE LET p == CHOOSE q \in preds : TRUE
         IN  UnlinkPreds(ReplaceSuccessor(f, p, b, to.b, to.args), preds \ {p}, b, to)

RECURSIVE UnlinkAll(_, _, _)
UnlinkAll(f, todo, modified) ==
    IF todo = <<>> THEN Result(f, modified)
    ELSE LET b     == Head(todo).b
             to    == Head(todo).to
             preds == f.blk[b].preds
         IN  IF f.blk[to.b].args # <<>> /\ f.blk[to.b].preds \cap preds # {}
             THEN UnlinkAll(f, Tail(todo), modified)
             ELSE UnlinkAll(UnlinkPreds(f, preds, b, to), Tail(todo),
                            modified \/ preds # {})

UnlinkEmptyBlocks(f) ==
    LET empty == Unlinkable(f)
    IN  UnlinkAll(f, [i \in DOMAIN empty |->
                        [b |-> empty[i], to |-> Successors(f, empty[i])[1]]], FALSE)

SimplifyCfg(f) ==
    LET r1 == RemoveDeadBlocks(f)
        r2 == MergeBlocks(r1.f)
        r3 == UnlinkEmptyBlocks(r2.f)
        r4 == RemoveDeadBlocks(r3.f)
    IN  Result(r4.f, r1.modified \/ r2.modified \/ r3.modified \/ r4.modified)

---------------------------------------------------------------------------
(* constants.rs: the first instruction that can be folded is, until none   *)
(* is left.                                                                *)

BothConst(i) == IsConst(i.a[1]) /\ IsConst(i.a[2])

\* Two constants are compared; arithmetic on them is done only when its
\* result fits the width.
Comparable(i) == IsCmp(i.op) /\ BothConst(i)
Computable(i) == IsBinary(i.op) /\ BothConst(i) /\ Arith(i.op, i.a[1][2], i.a[2][2]) < Word

Useless(i) ==
    \/ i.op = "add" /\ (i.a[1] = Const(0) \/ i.a[2] = Const(0))
    \/ i.op = "mul" /\ (i.a[1] = Const(1) \/ i.a[2] = Const(1))
    \/ i.op = "sub" /\ i.a[2] = Const(0)

\* The operand a useless operation stands for.
Kept(i) ==
    LET unit == IF i.op = "mul" THEN Const(1) ELSE Const(0)
    IN  IF i.op # "sub" /\ i.a[1] = unit THEN i.a[2] ELSE i.a[1]

ReplaceBy(f, e, v) == RemoveInstruction(ReplaceValues(f, (e.i.id :> v)), e.b, e.i.id)

ConstBranches(f) ==
    SelectSeq(f.order, LAMBDA b : f.blk[b].term.op = "cbr" /\ IsConst(f.blk[b].term.a[1]))

\* Mutant: the destination not taken keeps its predecessor.
CombineCbrKeepingPred(f, b) ==
    LET dest == Successors(f, b)[IF f.blk[b].term.a[1] = Bool(TRUE) THEN 1 ELSE 2]
    IN  [f EXCEPT !.blk[b].term = [op |-> "br", a |-> <<>>, to |-> <<dest>>]]

CombineCbr(f, b) ==
    LET to   == Successors(f, b)
        dest == IF f.blk[b].term.a[1] = Bool(TRUE) THEN to[1] ELSE to[2]
        gone == IF f.blk[b].term.a[1] = Bool(TRUE) THEN to[2] ELSE to[1]
    IN  AddPred(RemovePred([f EXCEPT !.blk[b].term = [op |-> "br", a |-> <<>>, to |-> <<dest>>]],
                           gone.b, b), dest.b, b)

ValueOf(i) == Arith(i.op, i.a[1][2], i.a[2][2])

RECURSIVE FoldFrom(_, _)
FoldFrom(f, modified) ==
    LET cmp     == SelectSeq(InstrIter(f), LAMBDA e : Comparable(e.i))
        cbr     == ConstBranches(f)
        bin     == SelectSeq(InstrIter(f), LAMBDA e : Computable(e.i))
        useless == SelectSeq(InstrIter(f), LAMBDA e : Useless(e.i))
    IN  CASE cmp # <<>> ->
                FoldFrom(ReplaceBy(f, cmp[1], Bool(ValueOf(cmp[1].i) = 1)), TRUE)
          [] cmp = <<>> /\ cbr # <<>> ->
                FoldFrom(CombineCbr(f, cbr[1]), TRUE)
          [] cmp = <<>> /\ cbr = <<>> /\ bin # <<>> ->
                FoldFrom(ReplaceBy(f, bin[1], Const(ValueOf(bin[1].i))), TRUE)
          [] cmp = <<>> /\ cbr = <<>> /\ bin = <<>> /\ useless # <<>> ->
                FoldFrom(ReplaceBy(f, useless[1], Kept(useless[1].i)), TRUE)
          [] OTHER -> Result(f, modified)

FoldConstants(f) == FoldFrom(f, FALSE)

---------------------------------------------------------------------------
(* conditional_constprop.rs                                                *)

\* Block b branches on instruction i, the comparison of a value with a
\* constant, to a block that is entered only when they are equal.
GuardedBy(f, b, i) ==
    /\ f.blk[b].term.op = "cbr" /\ f.blk[b].term.a[1] = i.id
    /\ i.op = "eq" /\ IsConst(i.a[1]) # IsConst(i.a[2])
    /\ Successors(f, b)[1].b # Successors(f, b)[2].b
    /\ Cardinality(f.blk[Successors(f, b)[1].b].preds) = 1

\* In the blocks that b dominates the value v may be replaced by c.
DomRegions(f) ==
    LET at == Blocks(f) \X {e.i : e \in Elems(InstrIter(f))}
    IN  {[b |-> Successors(f, p[1])[1].b,
          v |-> p[2].a[IF IsConst(p[2].a[1]) THEN 2 ELSE 1],
          c |-> p[2].a[IF IsConst(p[2].a[1]) THEN 1 ELSE 2]] :
            p \in {q \in at : GuardedBy(f, q[1], q[2])}}

\* The walk of the dominator tree.  What a region replaces is added on the
\* way down and dropped on the way up.
RECURSIVE CcpWalk(_, _, _, _, _, _), CcpChildren(_, _, _, _, _, _)
CcpWalk(f, po, dom, regions, b, m) ==
    LET here == {r \in regions : r.b = b}
        down == IF here = {} THEN m
                ELSE LET r == CHOOSE x \in here : TRUE IN (r.v :> r.c) @@ m
        g    == [f EXCEPT !.blk[b] = ReplaceValuesIn(@, down)]
        back == CcpChildren(g, po, dom, regions, Children(po, dom, b), down)
    IN  [f |-> back.f,
         m |-> [v \in DOMAIN back.m \ {r.v : r \in here} |-> back.m[v]]]
CcpChildren(f, po, dom, regions, todo, m) ==
    IF todo = <<>> THEN [f |-> f, m |-> m]
    ELSE LET done == CcpWalk(f, po, dom, regions, Head(todo), m)
         IN  CcpChildren(done.f, po, dom, regions, Tail(todo), done.m)

Ccp(f, po, dom) ==
    LET regions == DomRegions(f)
    IN  IF regions = {} THEN Result(f, FALSE)
        ELSE Result(CcpWalk(f, po, dom, regions, Entry(f), <<>>).f, TRUE)

---------------------------------------------------------------------------
(* cse.rs: value numbers, and a value replaced by one of the same number   *)
(* that dominates it.                                                      *)

Top == <<"top">>

\* What an instruction is hashed as; loads, stores and logs are only equal
\* to themselves.
HasExpr(i) == IsBinary(i.op) \/ IsCmp(i.op)
Number(vn, v) == IF IsConst(v) THEN v ELSE vn[v]
ExprOf(vn, i) == <<i.op, Number(vn, i.a[1]), Number(vn, i.a[2])>>

\* The meet of the numbers that reach a phi: the one number there is besides
\* Top, or the phi's own.
PhiNumber(f, vn, b, k) ==
    LET got  == {Number(vn, GetSuccParams(f, p, b)[k]) : p \in f.blk[b].preds}
        nums == got \ {Top}
    IN  CASE nums = {} -> Top
          [] Cardinality(nums) = 1 -> CHOOSE n \in nums : TRUE
          [] OTHER -> f.blk[b].args[k]

\* The numbers of a block: its phis read the table as it was, then each
\* instruction takes the number of the first equal expression of the round.
\* The expressions of a block are read before any of its numbers is set.
RECURSIVE NumberIns(_, _, _)
NumberIns(old, t, ins) ==
    IF ins = <<>> THEN t
    ELSE LET i == Head(ins)
             e == ExprOf(old, i)
             n == IF ~HasExpr(i) THEN i.id
                  ELSE IF e \in DOMAIN t.expr THEN t.expr[e] ELSE i.id
         IN  NumberIns(old, [vn   |-> [t.vn EXCEPT ![i.id] = n],
                             expr |-> IF HasExpr(i) THEN t.expr @@ (e :> n) ELSE t.expr],
                       Tail(ins))

NumberBlock(f, t, b) ==
    LET args == f.blk[b].args
        phis == IF b = Entry(f) THEN t.vn
                ELSE [v \in Elems(args) |-> PhiNumber(f, t.vn, b, PositionOf(args, v))] @@ t.vn
    IN  NumberIns(phis, [t EXCEPT !.vn = phis], f.blk[b].ins)

RECURSIVE NumberRound(_, _, _)
NumberRound(f, t, rpo) ==
    IF rpo = <<>> THEN t ELSE NumberRound(f, NumberBlock(f, t, Head(rpo)), Tail(rpo))

RECURSIVE NumberFix(_, _, _)
NumberFix(f, vn, po) ==
    LET next == NumberRound(f, [vn |-> vn, expr |-> <<>>], Rev(po)).vn
    IN  IF next = vn THEN vn ELSE NumberFix(f, next, po)

ValueBlocks(f) ==
    [v \in UNION {Elems(f.blk[b].args) \cup {i.id : i \in Elems(f.blk[b].ins)} : b \in Blocks(f)} |->
        CHOOSE b \in Blocks(f) :
            v \in Elems(f.blk[b].args) \cup {i.id : i \in Elems(f.blk[b].ins)}]

\* The position of a value in its block, an argument's being the first
\* instruction's.
Index(f, b, v) ==
    IF \E k \in DOMAIN f.blk[b].ins : f.blk[b].ins[k].id = v
    THEN CHOOSE k \in DOMAIN f.blk[b].ins : f.blk[b].ins[k].id = v
    ELSE 1

ValueDominates(f, dom, at, v1, v2) ==
    IF at[v1] = at[v2] THEN Index(f, at[v1], v1) < Index(f, at[v2], v2)
                       ELSE Dominates(dom, at[v1], at[v2])

\* Every pair of a class is tried in hash order; a chain of replacements ends
\* at the value of the class that dominates the others of the chain.
Cse(f, po, dom) ==
    LET at      == ValueBlocks(f)
        first   == [v \in DOMAIN at |-> IF v \in Elems(f.blk[Entry(f)].args) THEN v ELSE Top]
        vn      == NumberFix(f, first, po)
        Class(v) == {u \in DOMAIN vn : vn[u] = vn[v]}
        Over(v) == {u \in Class(v) \ {v} : ValueDominates(f, dom, at, u, v)}
        gone    == {v \in DOMAIN vn : vn[v] # Top /\ ~IsConst(vn[v]) /\ Over(v) # {}}
    IN  Result(ReplaceValues(f, [v \in gone |-> CHOOSE u \in Over(v) : Over(u) = {}]),
               gone # {})

---------------------------------------------------------------------------
(* dce.rs                                                                  *)

Loads(f) == {e.i : e \in {x \in Elems(InstrIter(f)) : x.i.op = "load"}}

\* The local an access names; a field's local is its aggregate until that is
\* split.
LocalOf(f, l) == IF l \in DOMAIN f.locals THEN l ELSE <<l[1]>>

\* Mutant: a store to a field goes though its aggregate is loaded.
CanEliminateFields(f, dead, i) == i.op # "log" /\ (i.op = "store" => i.l \notin DOMAIN f.locals)

\* May the value go once nothing uses it?  A store may when no load of the
\* local it writes to is left.
CanEliminate(f, dead, i) ==
    \/ i.op \notin {"store", "log"}
    \/ i.op = "store" /\ \A ld \in Loads(f) :
                            LocalOf(f, ld.l) = LocalOf(f, i.l) => ld.id \in dead

\* The uses that count: operands of instructions and of terminators that are
\* left, and parameters.  A dead argument gives up the parameter of the first
\* branch of each predecessor.
UsedBy(f, dead, b) ==
    UNION {Elems(i.a) : i \in {x \in Elems(f.blk[b].ins) : x.id \notin dead}}
    \cup Elems(f.blk[b].term.a)
    \cup UNION {LET s == Successors(f, b)[n]
                IN  {s.args[k] : k \in {j \in DOMAIN s.args :
                        ~(f.blk[s.b].args[j] \in dead /\ n = FirstBranchTo(f, b, s.b))}} :
                n \in DOMAIN Successors(f, b)}

Uses(f, dead) == UNION {UsedBy(f, dead, b) : b \in Blocks(f)}

RECURSIVE Cemetery(_, _)
Cemetery(f, dead) ==
    LET used == Uses(f, dead)
        next == UNION {{i.id : i \in {x \in Elems(f.blk[b].ins) :
                            x.id \notin used /\ CanEliminate(f, dead, x)}}
                       \cup (Elems(f.blk[b].args) \ used) : b \in Blocks(f)}
    IN  IF next \subseteq dead THEN dead ELSE Cemetery(f, dead \cup next)

\* The parameters of dead arguments and the arguments themselves go, except
\* those of the function; so do the dead instructions.
Without(s, drop) ==
    LET kept == SelectSeq([i \in DOMAIN s |-> i], LAMBDA i : i \notin drop)
    IN  [i \in DOMAIN kept |-> s[kept[i]]]

DeadArgs(f, dead, b) ==
    IF b = Entry(f) THEN {} ELSE {k \in DOMAIN f.blk[b].args : f.blk[b].args[k] \in dead}

Bury(f, dead) ==
    [f EXCEPT !.blk = [b \in DOMAIN @ |->
        [@[b] EXCEPT
            !.args = Without(@, DeadArgs(f, dead, b)),
            !.ins = SelectSeq(@, LAMBDA i : i.id \notin dead),
            !.term.to = [k \in DOMAIN @ |->
                IF k = FirstBranchTo(f, b, @[k].b)
                THEN [@[k] EXCEPT !.args = Without(@, DeadArgs(f, dead, f.blk[b].term.to[k].b))]
                ELSE @[k]]]]]

LocalsUsed(f) ==
    {LocalOf(f, e.i.l) : e \in {x \in Elems(InstrIter(f)) : x.i.op \in {"load", "store"}}}

\* Parameters are dropped by the index of their argument: more parameters
\* than arguments make the pass panic.
DcePanics(f) ==
    \E b \in Blocks(f) \ {Entry(f)} : \E p \in f.blk[b].preds :
        Len(GetSuccParams(f, p, b)) > Len(f.blk[b].args)

Dce(f) ==
    LET dead == Cemetery(f, {})
        g    == Bury(f, dead)
        left == LocalsUsed(g) \cap DOMAIN g.locals
    IN  Result([g EXCEPT !.locals = [l \in left |-> g.locals[l]]],
               dead # {} \/ left # DOMAIN f.locals)

---------------------------------------------------------------------------
(* sroa.rs: an aggregate accessed field by field becomes one local for     *)
(* each field.                                                             *)

Candidates(f) == {l \in DOMAIN f.locals : f.locals[l].agg}

Sroa(f) ==
    LET split == Candidates(f)
        new   == {<<l[1], 0>> : l \in split} \cup {<<l[1], 1>> : l \in split}
    IN  Result([f EXCEPT !.locals =
                  [c \in new |-> [agg |-> FALSE, init |-> f.locals[<<c[1]>>].init]]
                  @@ f.locals],
               split # {})

---------------------------------------------------------------------------
(* mem2reg.rs                                                              *)

\* Every access of a local that is not an aggregate is a load or a store.
UsableLocals(f) == {l \in DOMAIN f.locals : ~f.locals[l].agg}

RECURSIVE LiveBack(_, _)
LiveBack(ins, live) ==
    IF ins = <<>> THEN live
    ELSE LET i == ins[Len(ins)]
             up == CASE i.op = "load"  -> live \cup {i.l}
                     [] i.op = "store" -> live \ {i.l}
                     [] OTHER -> live
         IN  LiveBack(SubSeq(ins, 1, Len(ins) - 1), up)

RECURSIVE LiveIn(_, _, _)
LiveIn(f, po, live) ==
    LET next == [b \in Elems(po) |->
                    live[b] \cup LiveBack(f.blk[b].ins,
                                UNION {live[s] : s \in SuccBlocks(f, b)})]
    IN  IF next = live THEN live ELSE LiveIn(f, po, next)

\* The blocks that get a phi for local l: the dominance frontiers of its
\* stores, and theirs, where it is live.
RECURSIVE PhiBlocks(_, _, _, _, _)
PhiBlocks(f, fronts, live, l, defs) ==
    LET next == defs \cup {d \in UNION {fronts[b] : b \in defs} : l \in live[d]}
    IN  IF next = defs THEN {d \in UNION {fronts[b] : b \in defs} : l \in live[d]}
        ELSE PhiBlocks(f, fronts, live, l, next)

Phi(l, b) == <<"phi", l, b>>

\* What a local holds when block b begins and when it ends, as the stack of
\* names says: the last store on the way down the dominator tree, or the
\* initializer.
RECURSIVE HeldAfter(_, _, _), HeldBefore(_, _, _, _, _), HeldAtEnd(_, _, _, _, _)
HeldAfter(ins, l, v) ==
    IF ins = <<>> THEN v
    ELSE HeldAfter(Tail(ins), l,
            IF Head(ins).op = "store" /\ Head(ins).l = l THEN Head(ins).a[1] ELSE v)
HeldBefore(f, dom, phis, l, b) ==
    CASE b \in phis[l] -> Phi(l, b)
      [] b \notin phis[l] /\ dom[b] = NoBlock -> f.locals[l].init
      [] OTHER -> HeldAtEnd(f, dom, phis, l, dom[b])
HeldAtEnd(f, dom, phis, l, b) ==
    HeldAfter(f.blk[b].ins, l, HeldBefore(f, dom, phis, l, b))

\* What each load of a usable local is replaced by.
Rewrites(f, dom, phis, b) ==
    LET ins == f.blk[b].ins
        at  == {k \in DOMAIN ins : ins[k].op = "load" /\ ins[k].l \in DOMAIN phis}
    IN  [id \in {ins[k].id : k \in at} |->
            LET k == CHOOSE j \in at : ins[j].id = id
            IN  HeldAfter(SubSeq(ins, 1, k - 1), ins[k].l,
                          HeldBefore(f, dom, phis, ins[k].l, b))]

RECURSIVE MergeMaps(_)
MergeMaps(S) == IF S = {} THEN <<>> ELSE LET m == CHOOSE x \in S : TRUE IN m @@ MergeMaps(S \ {m})

\* For each branch in turn, the value of every phi of its destination is
\* pushed on the parameters of the first branch that goes there.
RECURSIVE PushParams(_, _, _, _, _, _)
PushParams(f, dom, phis, new, b, k) ==
    IF k > Len(Successors(f, b)) THEN f
    ELSE LET s == Successors(f, b)[k].b
             more == [i \in DOMAIN new[s] |-> HeldAtEnd(f, dom, phis, new[s][i], b)]
         IN  PushParams(SetSuccParams(f, b, s, GetSuccParams(f, b, s) \o more),
                        dom, phis, new, b, k + 1)

RECURSIVE PushAll(_, _, _, _, _)
PushAll(f, dom, phis, new, todo) ==
    IF todo = <<>> THEN f
    ELSE PushAll(PushParams(f, dom, phis, new, Head(todo), 1), dom, phis, new, Tail(todo))

Mem2Reg(f, po, dom, fronts) ==
    LET usable == UsableLocals(f)
        live   == LiveIn(f, po, [b \in Elems(po) |-> {}])
        Stores(l) == {b \in Elems(po) : \E i \in Elems(f.blk[b].ins) : i.op = "store" /\ i.l = l}
        phis   == [l \in usable |-> PhiBlocks(f, fronts, live, l, Stores(l))]
        new    == [b \in Blocks(f) |-> SeqOf({l \in usable : b \in phis[l]})]
        pushed == PushAll(f, dom, phis, new, po)
        m      == MergeMaps({Rewrites(f, dom, phis, b) : b \in Elems(po)})
        g      == [pushed EXCEPT !.blk = [b \in DOMAIN @ |->
                    [@[b] EXCEPT !.args = @ \o [i \in DOMAIN new[b] |-> Phi(new[b][i], b)]]]]
        h      == ReplaceValues(g, m)
        Promoted(i) == i.op \in {"load", "store"} /\ i.l \in usable
    IN  IF usable = {} THEN Result(f, FALSE)
        ELSE Result([h EXCEPT !.blk = [b \in DOMAIN @ |->
                        IF b \in Elems(po)
                        THEN [@[b] EXCEPT !.ins = SelectSeq(@, LAMBDA i : ~Promoted(i))]
                        ELSE @[b]]], TRUE)

=============================================================================
