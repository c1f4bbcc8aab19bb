-------------------------------- MODULE Ir --------------------------------
(***************************************************************************)
(* The intermediate representation of sway-ir: a function in static single *)
(* assignment form, its control flow graph, the analyses kept about it     *)
(* and what running it does.                                               *)
(*                                                                         *)
(* A function is a record                                                  *)
(*   order   the blocks in layout order, the entry first;                  *)
(*   blk     for each block its arguments (the phis), its instructions,    *)
(*           its terminator and the set of predecessors the code keeps;    *)
(*   locals  for each local whether it is an aggregate and its initializer.*)
(* An operand is a constant <<"c", n>> (an integer) or <<"b", n>> (a       *)
(* boolean), or the name of an argument or of an instruction.  get_local   *)
(* and get_elem_ptr are folded into the load or store that uses them: an   *)
(* access names its local and, for an aggregate, the field.                *)
(***************************************************************************)
EXTENDS Naturals, Sequences, FiniteSets, TLC

CONSTANTS
    Word,       \* integers are 0 .. Word-1; the code's width is 64 bits
    Fuel        \* blocks a run of a function may enter

Const(n) == <<"c", n>>
Bool(p) == <<"b", IF p THEN 1 ELSE 0>>
IsConst(v) == v[1] \in {"c", "b"}
None == <<"none">>      \* no initializer
NoBlock == "none"

Elems(s) == {s[i] : i \in DOMAIN s}

RECURSIVE Concat(_)
Concat(ss) == IF ss = <<>> THEN <<>> ELSE Head(ss) \o Concat(Tail(ss))

\* The members of a set in some order, for what the code iterates in the order
\* of a hash or of names.
RECURSIVE SeqOf(_)
SeqOf(S) == IF S = {} THEN <<>> ELSE LET x == CHOOSE y \in S : TRUE IN <<x>> \o SeqOf(S \ {x})

Rev(s) == [i \in DOMAIN s |-> s[Len(s) + 1 - i]]
PositionOf(s, x) == CHOOSE i \in DOMAIN s : s[i] = x

---------------------------------------------------------------------------
(* Blocks and branches (block.rs).                                         *)

Entry(f) == f.order[1]
Blocks(f) == Elems(f.order)

\* A terminator is [op, a, to]: `ret` has one operand and goes nowhere, `br`
\* has one destination, `cbr` a condition and two.
Successors(f, b) == f.blk[b].term.to
SuccBlocks(f, b) == {s.b : s \in Elems(Successors(f, b))}

\* The branch that get_succ_params, its mutable form and get_val_coming_from
\* take: the first one that goes to succ.
FirstBranchTo(f, b, succ) ==
    CHOOSE i \in DOMAIN Successors(f, b) :
        /\ Successors(f, b)[i].b = succ
        /\ \A j \in 1..(i - 1) : Successors(f, b)[j].b # succ

GetSuccParams(f, b, succ) ==
    IF succ \in SuccBlocks(f, b)
    THEN Successors(f, b)[FirstBranchTo(f, b, succ)].args
    ELSE <<>>

SetSuccParams(f, b, succ, args) ==
    [f EXCEPT !.blk[b].term.to[FirstBranchTo(f, b, succ)].args = args]

AddPred(f, b, p) == [f EXCEPT !.blk[b].preds = @ \cup {p}]
RemovePred(f, b, p) == [f EXCEPT !.blk[b].preds = @ \ {p}]

ReplaceSuccessor(f, b, old, new, args) ==
    LET to == [i \in DOMAIN Successors(f, b) |->
                  IF Successors(f, b)[i].b = old THEN [b |-> new, args |-> args]
                                                 ELSE Successors(f, b)[i]]
    IN  AddPred(RemovePred([f EXCEPT !.blk[b].term.to = to], old, b), new, b)

\* A block that is no longer in the layout is no longer in the function.
RemoveBlock(f, b) ==
    LET left == SelectSeq(f.order, LAMBDA c : c # b)
    IN  [f EXCEPT !.order = left, !.blk = [c \in Elems(left) |-> f.blk[c]]]

\* A replacement is followed until it reaches a value that is not replaced.
RECURSIVE Chase(_, _)
Chase(m, v) == IF v \in DOMAIN m THEN Chase(m, m[v]) ELSE v

ReplaceValuesIn(block, m) ==
    LET R(s) == [i \in DOMAIN s |-> Chase(m, s[i])]
    IN  [block EXCEPT
            !.ins = [i \in DOMAIN @ |-> [@[i] EXCEPT !.a = R(@)]],
            !.term = [op |-> @.op, a |-> R(@.a),
                      to |-> [i \in DOMAIN @.to |-> [b |-> @.to[i].b, args |-> R(@.to[i].args)]]]]

ReplaceValues(f, m) ==
    [f EXCEPT !.blk = [b \in DOMAIN @ |-> ReplaceValuesIn(@[b], m)]]

\* Instructions of the function in layout order, each with its block.
InstrIter(f) ==
    Concat([i \in DOMAIN f.order |->
        [j \in DOMAIN f.blk[f.order[i]].ins |->
            [b |-> f.order[i], i |-> f.blk[f.order[i]].ins[j]]]])

RemoveInstruction(f, b, id) ==
    [f EXCEPT !.blk[b].ins = SelectSeq(@, LAMBDA i : i.id # id)]

---------------------------------------------------------------------------
(* What the verifier asks of a function (verify.rs).                       *)

VerifyDestArgs(f, b) ==
    \A s \in Elems(Successors(f, b)) :
        /\ s.b \in Blocks(f)
        /\ Len(s.args) = Len(f.blk[s.b].args)

VerifyBlock(f, b) ==
    \/ f.blk[b].ins = <<>> /\ f.blk[b].preds = {}
    \/ VerifyDestArgs(f, b)

VerifyFunction(f) ==
    /\ f.blk[Entry(f)].preds = {}
    /\ \A b \in Blocks(f) : VerifyBlock(f, b)

---------------------------------------------------------------------------
(* Post order, dominators and dominance frontiers (analysis/dominator.rs). *)

RECURSIVE PostOrderFrom(_, _, _), PostOrderAll(_, _, _)
PostOrderFrom(f, b, res) ==
    IF b \in res.seen THEN res
    ELSE LET below == PostOrderAll(f, Successors(f, b), [res EXCEPT !.seen = @ \cup {b}])
         IN  [below EXCEPT !.po = Append(@, b)]
PostOrderAll(f, to, res) ==
    IF to = <<>> THEN res
    ELSE PostOrderAll(f, Tail(to), PostOrderFrom(f, Head(to).b, res))

ComputePostOrder(f) == PostOrderFrom(f, Entry(f), [seen |-> {}, po |-> <<>>]).po

Po(po, b) == PositionOf(po, b)

RECURSIVE Intersect(_, _, _, _)
Intersect(po, idom, f1, f2) ==
    CASE f1 = f2 -> f1
      [] Po(po, f1) < Po(po, f2) -> Intersect(po, idom, idom[f1], f2)
      [] OTHER -> Intersect(po, idom, f1, idom[f2])

RECURSIVE IntersectAll(_, _, _, _)
IntersectAll(po, idom, others, new) ==
    IF others = {} THEN new
    ELSE LET p == CHOOSE q \in others : TRUE
         IN  IntersectAll(po, idom, others \ {p}, Intersect(po, idom, p, new))

\* One visit of a block: the first predecessor later in post order, met with
\* every other reachable predecessor that has a dominator already.
NewIdom(f, po, idom, b) ==
    LET preds  == f.blk[b].preds \cap Elems(po)
        picked == CHOOSE p \in preds : Po(po, p) > Po(po, b)
    IN  IntersectAll(po, idom, {p \in preds \ {picked} : idom[p] # NoBlock}, picked)

RECURSIVE DomRound(_, _, _, _)
DomRound(f, po, idom, rpo) ==
    IF rpo = <<>> THEN idom
    ELSE DomRound(f, po, [idom EXCEPT ![Head(rpo)] = NewIdom(f, po, idom, Head(rpo))], Tail(rpo))

RECURSIVE DomFix(_, _, _)
DomFix(f, po, idom) ==
    LET next == DomRound(f, po, idom, Tail(Rev(po)))
    IN  IF next = idom THEN idom ELSE DomFix(f, po, next)

\* The dominator tree as the parent of each reachable block.
ComputeDomTree(f, po) ==
    LET first == [b \in Elems(po) |-> IF b = Entry(f) THEN b ELSE NoBlock]
    IN  [DomFix(f, po, first) EXCEPT ![Entry(f)] = NoBlock]

RECURSIVE Dominates(_, _, _)
Dominates(dom, d, b) ==
    \/ d = b
    \/ dom[b] # NoBlock /\ Dominates(dom, d, dom[b])

\* The children of a node in the order the tree lists them.
Children(po, dom, b) == SelectSeq(po, LAMBDA c : dom[c] = b)

RECURSIVE UpTo(_, _, _)
UpTo(dom, runner, stop) ==
    IF runner = stop THEN {} ELSE {runner} \cup UpTo(dom, dom[runner], stop)

\* Mutant: the walk up the tree from a predecessor is not made.
FrontsOfPreds(f, dom) ==
    [r \in DOMAIN dom |->
        {b \in DOMAIN dom : Cardinality(f.blk[b].preds) > 1 /\ r \in f.blk[b].preds}]

ComputeDomFronts(f, dom) ==
    [r \in DOMAIN dom |->
        {b \in DOMAIN dom :
            /\ Cardinality(f.blk[b].preds) > 1
            /\ \E p \in f.blk[b].preds \cap DOMAIN dom : r \in UpTo(dom, p, dom[b])}]

---------------------------------------------------------------------------
(* What a function does: the reference the passes are compared with.  The  *)
(* observable outcome is what it logs and what it returns.  Arithmetic     *)
(* that leaves the width makes the virtual machine panic ("panic"); a use  *)
(* of a value that was never computed is "stuck".                          *)

Arith(op, x, y) ==
    CASE op = "add" -> x + y
      [] op = "sub" -> IF x < y THEN Word ELSE x - y
      [] op = "mul" -> x * y
      [] op = "eq"  -> IF x = y THEN 1 ELSE 0
      [] op = "lt"  -> IF x < y THEN 1 ELSE 0

IsBinary(op) == op \in {"add", "sub", "mul"}
IsCmp(op) == op \in {"eq", "lt"}

Eval(s, v) == IF IsConst(v) THEN v[2] ELSE s.env[v]
Known(s, vs) == \A v \in Elems(vs) : IsConst(v) \/ v \in DOMAIN s.env

\* One instruction.  s is [env, mem, out, end]: the values computed, the
\* memory of the locals, what was logged, and how the run ended.
Step(s, i) ==
    IF s.end # "no" THEN s
    ELSE IF ~Known(s, i.a) THEN [s EXCEPT !.end = "stuck"]
    ELSE CASE i.op = "load" ->
                IF i.l \in DOMAIN s.mem
                THEN [s EXCEPT !.env = (i.id :> s.mem[i.l]) @@ @]
                ELSE [s EXCEPT !.end = "stuck"]
           [] i.op = "store" ->
                [s EXCEPT !.mem = (i.l :> Eval(s, i.a[1])) @@ @]
           [] i.op = "log" ->
                [s EXCEPT !.out = Append(@, Eval(s, i.a[1]))]
           [] OTHER ->
                LET r == Arith(i.op, Eval(s, i.a[1]), Eval(s, i.a[2]))
                IN  IF r < Word THEN [s EXCEPT !.env = (i.id :> r) @@ @]
                                ELSE [s EXCEPT !.end = "panic"]

RECURSIVE Steps(_, _)
Steps(s, ins) == IF ins = <<>> THEN s ELSE Steps(Step(s, Head(ins)), Tail(ins))

\* Entering a block gives its arguments the parameters of the branch, all at
\* once.
Enter(f, s, br) ==
    LET args == f.blk[br.b].args
    IN  IF Len(args) # Len(br.args) \/ ~Known(s, br.args)
        THEN [s EXCEPT !.end = "stuck"]
        ELSE [s EXCEPT !.env =
                [v \in Elems(args) |-> Eval(s, br.args[PositionOf(args, v)])] @@ @]

RECURSIVE RunFrom(_, _, _, _)
RunFrom(f, b, s, fuel) ==
    LET t == Steps(s, f.blk[b].ins)
        term == f.blk[b].term
    IN  CASE t.end # "no" -> t
          [] t.end = "no" /\ ~Known(t, term.a) -> [t EXCEPT !.end = "stuck"]
          [] t.end = "no" /\ Known(t, term.a) /\ term.op = "ret" ->
                [t EXCEPT !.out = Append(@, Eval(t, term.a[1])), !.end = "ret"]
          [] t.end = "no" /\ Known(t, term.a) /\ term.op # "ret" /\ fuel = 0 ->
                [t EXCEPT !.end = "long"]
          [] OTHER ->
                LET br == term.to[IF term.op = "cbr" /\ Eval(t, term.a[1]) = 0 THEN 2 ELSE 1]
                IN  RunFrom(f, br.b, Enter(f, t, br), fuel - 1)

\* A local that has an initializer starts with it, an aggregate in every
\* field.
Cells(f) ==
    UNION {IF f.locals[l].agg THEN {<<l[1], 0>>, <<l[1], 1>>} ELSE {l} :
              l \in {k \in DOMAIN f.locals : f.locals[k].init # None}}
InitOf(f, c) == f.locals[IF c \in DOMAIN f.locals THEN c ELSE <<c[1]>>].init

Run(f, input) ==
    LET start == [env |-> [v \in Elems(f.blk[Entry(f)].args) |-> input],
                  mem |-> [c \in Cells(f) |-> InitOf(f, c)[2]],
                  out |-> <<>>, end |-> "no"]
        done  == RunFrom(f, Entry(f), start, Fuel)
    IN  [out |-> done.out, end |-> done.end]

=============================================================================
