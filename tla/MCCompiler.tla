------------------------------ MODULE MCCompiler ------------------------------
(***************************************************************************)
(* Small functions of the shapes that IR generation produces for `if`,     *)
(* nested `if` and `while`, for TLC.                                       *)
(***************************************************************************)
EXTENDS Compiler

V(n) == <<"v", n>>
Ins(n, op, a, l) == [id |-> V(n), op |-> op, a |-> a, l |-> l]
Br(b, args) == [op |-> "br", a |-> <<>>, to |-> <<[b |-> b, args |-> args]>>]
Cbr(c, b1, b2) ==
    [op |-> "cbr", a |-> <<c>>, to |-> <<[b |-> b1, args |-> <<>>], [b |-> b2, args |-> <<>>]>>]
Ret(v) == [op |-> "ret", a |-> <<v>>, to |-> <<>>]

X == <<"x">>
S(k) == <<"s", k>>
NoLocal == <<>>

\* A function from its blocks in layout order, with the predecessors that
\* appending the branches records.
Function(order, body, init) ==
    [order  |-> order,
     blk    |-> [b \in Elems(order) |->
                    [args |-> body[b].args, ins |-> body[b].ins, term |-> body[b].term,
                     preds |-> {p \in Elems(order) :
                                  \E s \in Elems(body[p].term.to) : s.b = b}]],
     locals |-> [l \in {X, <<"s">>} |-> [agg |-> l = <<"s">>, init |-> init]]]

B(args, ins, term) == [args |-> args, ins |-> ins, term |-> term]

\* What a block may do besides: n makes the names of its instructions fresh.
Work(n) ==
    { <<>>,
      <<Ins(n, "add", <<V(0), Const(1)>>, NoLocal), Ins(n + 1, "log", <<V(n)>>, NoLocal)>>,
      <<Ins(n, "store", <<V(0)>>, X)>>,
      <<Ins(n, "store", <<V(1)>>, S(0))>>,
      <<Ins(n, "load", <<>>, S(0)), Ins(n + 1, "sub", <<V(n), Const(1)>>, NoLocal),
        Ins(n + 2, "store", <<V(n + 1)>>, X)>> }

Conds == {<<Ins(2, "eq", <<V(0), Const(1)>>, NoLocal)>>, <<Ins(2, "lt", <<Const(0), Const(1)>>, NoLocal)>>}

\* let q = if c { if d {} else {..}; .. } else { .. }; log(x + s.0); q
NestedIf ==
    {Function(<<"e", "a", "c", "d", "n", "b", "m">>,
        [b \in {"e", "a", "c", "d", "n", "b", "m"} |->
           CASE b = "e" -> B(<<V(0)>>, <<Ins(1, "add", <<V(0), Const(1)>>, NoLocal)>> \o cond, Cbr(V(2), "a", "b"))
             [] b = "a" -> B(<<>>, wa \o <<Ins(30, "lt", <<on, Const(2)>>, NoLocal)>>, Cbr(V(30), "c", "d"))
             [] b = "c" -> B(<<>>, <<>>, Br("n", <<Const(0)>>))
             [] b = "d" -> B(<<>>, wd, Br("n", <<Const(0)>>))
             [] b = "n" -> B(<<V(40)>>, <<>>, Br("m", <<V(40)>>))
             [] b = "b" -> B(<<>>, wb, Br("m", <<V(0)>>))
             [] b = "m" -> B(<<V(50)>>, <<Ins(51, "load", <<>>, X), Ins(52, "load", <<>>, S(0)),
                                          Ins(53, "add", <<V(51), V(52)>>, NoLocal),
                                          Ins(54, "log", <<V(53)>>, NoLocal)>>, Ret(IF used THEN V(50) ELSE V(1)))],
        Const(0)) :
      cond \in Conds, wa \in Work(10), wd \in Work(20), wb \in {w \in Work(60) : Len(w) # 2 /\ (Len(w) = 1 => w[1].l = X)}, on \in {V(0), V(1)}, used \in BOOLEAN}

\* while x < a { .. ; x = x + 1 }; x
While ==
    {Function(<<"e", "h", "l", "y", "z", "q", "m">>,
        [b \in {"e", "h", "l", "y", "z", "q", "m"} |->
           CASE b = "e" -> B(<<V(0)>>, <<Ins(1, "add", <<V(0), Const(1)>>, NoLocal),
                                         Ins(2, "store", <<Const(0)>>, X)>>, Br("h", <<>>))
             [] b = "h" -> B(<<>>, <<Ins(3, "load", <<>>, X), Ins(4, "lt", <<V(3), V(0)>>, NoLocal)>>, Cbr(V(4), "l", "m"))
             [] b = "l" -> B(<<>>, wl \o <<Ins(30, "eq", <<V(3), Const(0)>>, NoLocal)>>, Cbr(V(30), "y", "z"))
             [] b = "y" -> B(<<>>, <<>>, Br("q", <<V(3)>>))
             [] b = "z" -> B(<<>>, wz, Br("q", <<Const(1)>>))
             [] b = "q" -> B(<<V(40)>>, <<Ins(41, "load", <<>>, X), Ins(42, "add", <<V(41), Const(1)>>, NoLocal),
                                          Ins(43, "store", <<V(42)>>, X), Ins(44, "log", <<V(40)>>, NoLocal)>>, Br("h", <<>>))
             [] b = "m" -> B(<<>>, <<Ins(51, "load", <<>>, X), Ins(52, "load", <<>>, S(0)),
                                     Ins(53, "log", <<V(52)>>, NoLocal)>>, Ret(V(51)))],
        Const(0)) :
      wl \in Work(10), wz \in Work(20)}

MCPrograms == NestedIf \cup While
MCInputs == 0..2
=============================================================================
