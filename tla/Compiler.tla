------------------------------ MODULE Compiler ------------------------------
(***************************************************************************)
(* A build of one function: the pass manager runs the passes of the        *)
(* optimization level, with the results of the analyses it keeps from one  *)
(* pass to the next (sway-ir/src/pass_manager.rs, sway-core/src/lib.rs),   *)
(* and the code generator makes machine code of what they leave.           *)
(***************************************************************************)
EXTENDS IrPasses, AsmGen

---------------------------------------------------------------------------
(* pass_manager.rs, and the passes a build runs (sway-core/src/lib.rs).    *)

CONSTANTS
    Programs,   \* the functions a build starts from
    Inputs      \* the arguments they are run with

VARIABLES
    ir,         \* the function as the passes have left it
    analyses,   \* the analysis results kept: {} or a singleton for each
    todo,       \* the passes of the group that are still to run
    panicked,   \* a pass panicked
    code,       \* [stage, ops, tries]: the instructions generated so far
    meaning     \* what the function did before the passes, for each input

vars == <<ir, analyses, todo, panicked, code, meaning>>

NoAnalyses == [po |-> {}, dom |-> {}, fronts |-> {}]
The(S) == CHOOSE x \in S : TRUE

\* The passes of each optimization level that work on one function, in the
\* order of the groups.
Opt1 == <<"mem2reg", "simplify-cfg", "dce", "ccp", "const-folding", "simplify-cfg",
          "cse", "const-folding", "simplify-cfg", "dce",
          "dce", "simplify-cfg", "sroa", "mem2reg", "dce">>
Opt0 == <<"dce", "dce", "simplify-cfg">>

Deps(pass) ==
    CASE pass = "mem2reg" -> {"po", "dom", "fronts"}
      [] pass = "cse"     -> {"po", "dom"}
      [] pass = "ccp"     -> {"po", "dom"}
      [] OTHER -> {}

\* An analysis runs only when there is no result of it; it reads the results
\* of those it depends on.
WithPo(f, a) == IF a.po = {} THEN [a EXCEPT !.po = {ComputePostOrder(f)}] ELSE a
WithDom(f, a) ==
    LET p == WithPo(f, a)
    IN  IF p.dom = {} THEN [p EXCEPT !.dom = {ComputeDomTree(f, The(p.po))}] ELSE p
WithFronts(f, a) ==
    LET d == WithDom(f, a)
    IN  IF d.fronts = {} THEN [d EXCEPT !.fronts = {ComputeDomFronts(f, The(d.dom))}] ELSE d

RunDeps(f, a, pass) ==
    CASE "fronts" \in Deps(pass) -> WithFronts(f, a)
      [] "fronts" \notin Deps(pass) /\ "dom" \in Deps(pass) -> WithDom(f, a)
      [] OTHER -> a

Transform(f, a, pass) ==
    CASE pass = "simplify-cfg"  -> SimplifyCfg(f)
      [] pass = "const-folding" -> FoldConstants(f)
      [] pass = "ccp"           -> Ccp(f, The(a.po), The(a.dom))
      [] pass = "cse"           -> Cse(f, The(a.po), The(a.dom))
      [] pass = "dce"           -> Dce(f)
      [] pass = "sroa"          -> Sroa(f)
      [] pass = "mem2reg"       -> Mem2Reg(f, The(a.po), The(a.dom), The(a.fronts))

\* Mutant: the results outlive what the pass did.
RunKeepingAnalyses(f, a, pass) ==
    LET with == RunDeps(f, a, pass) IN [f |-> Transform(f, with, pass).f, a |-> with]

\* A pass that says it changed the function makes every result about it void.
ActuallyRun(f, a, pass) ==
    LET with == RunDeps(f, a, pass)
        r    == Transform(f, with, pass)
    IN  [f |-> r.f, a |-> IF r.modified THEN NoAnalyses ELSE with]

Init ==
    /\ ir \in Programs
    /\ analyses = NoAnalyses
    /\ todo \in {Opt1, Opt0}
    /\ panicked = FALSE
    /\ code = [stage |-> "none", ops |-> <<>>, tries |-> 0]
    /\ meaning = [n \in Inputs |-> Run(ir, n)]

RunPass ==
    /\ todo # <<>> /\ ~panicked
    /\ ~(Head(todo) = "dce" /\ DcePanics(ir))
    /\ LET r == ActuallyRun(ir, analyses, Head(todo))
       IN  ir' = r.f /\ analyses' = r.a
    /\ todo' = Tail(todo)
    /\ UNCHANGED <<panicked, code, meaning>>

Panic ==
    /\ todo # <<>> /\ ~panicked
    /\ Head(todo) = "dce" /\ DcePanics(ir)
    /\ panicked' = TRUE
    /\ UNCHANGED <<ir, analyses, todo, code, meaning>>

---------------------------------------------------------------------------
(* The code generator: into_allocated_program, allocate_registers,         *)
(* into_final_program.                                                     *)

\* The code generator refuses a conditional branch whose two destinations are
\* one block with arguments.
Refused(f) ==
    \E b \in Blocks(f) :
        /\ f.blk[b].term.op = "cbr"
        /\ Successors(f, b)[1].b = Successors(f, b)[2].b
        /\ f.blk[Successors(f, b)[1].b].args # <<>>

\* A conditional branch it refuses, and instructions that do not verify, are
\* errors of the compilation.
Lower ==
    /\ todo = <<>> /\ ~panicked /\ code.stage = "none"
    /\ \/ /\ Refused(ir)
          /\ code' = [code EXCEPT !.stage = "refused"]
       \/ /\ ~Refused(ir)
          /\ LET ops == Optimize(CompileFunction(ir))
             IN  code' = [code EXCEPT !.stage = IF VerifyOps(ops) THEN "virtual" ELSE "error",
                                      !.ops = ops]
    /\ UNCHANGED <<ir, analyses, todo, panicked, meaning>>

\* After a round of colouring, registers are spilled and another round
\* follows, up to a number of times, or all get their register.
AfterRound(c, try) ==
    LET pool == AssignRegisters(try.g, try.stack)
    IN  CASE try.spills # {} /\ c.tries < MaxTries ->
                [c EXCEPT !.ops = Spill(try.ops, try.spills), !.tries = @ + 1]
          [] try.spills # {} /\ c.tries >= MaxTries -> [c EXCEPT !.stage = "gave up"]
          [] try.spills = {} /\ Assigned(try.ops, pool) ->
                [c EXCEPT !.stage = "allocated", !.ops = AllocateRegisters(try.ops, pool)]
          [] OTHER -> [c EXCEPT !.stage = "error"]

Allocate ==
    /\ code.stage = "virtual"
    /\ code' = AfterRound(code, TryColor(code.ops))
    /\ UNCHANGED <<ir, analyses, todo, panicked, meaning>>

Realize ==
    /\ code.stage = "allocated"
    /\ LET ops == RealizeLabels(RemoveEmptyFrames(EmitPushaPopa(code.ops)))
       IN  code' = [code EXCEPT !.stage = IF ops = <<>> THEN "error" ELSE "final", !.ops = ops]
    /\ UNCHANGED <<ir, analyses, todo, panicked, meaning>>

Next == RunPass \/ Panic \/ Lower \/ Allocate \/ Realize

Spec == Init /\ [][Next]_vars

---------------------------------------------------------------------------
(* Properties.                                                             *)

\* Between two passes a function is one the verifier accepts, the predecessor
\* sets that the passes read are those of the branches, and no pass has
\* panicked, unless both branches of a block lead to one block with arguments
\* (verify_function, add_pred, replace_successor, merge_blocks, dce).
Verified ==
    Refused(ir) \/
    /\ ~panicked
    /\ VerifyFunction(ir)
    /\ \A b \in Blocks(ir) : ir.blk[b].preds = {p \in Blocks(ir) : b \in SuccBlocks(ir, p)}

\* Whatever passes have run, the function logs and returns what it did
\* before, for every input on which it did not panic; no pass makes it use a
\* value that was never computed (optimize/).
MeaningKept ==
    Refused(ir) \/
    \A n \in Inputs : meaning[n].end = "ret" => Run(ir, n) = meaning[n]

\* An analysis result that is kept is the one the analysis would give now: a
\* pass that changes the graph says so (actually_run,
\* invalidate_all_results_at_scope).
AnalysesFresh ==
    LET po == ComputePostOrder(ir)
        dom == ComputeDomTree(ir, po)
    IN  /\ analyses.po \subseteq {po}
        /\ analyses.dom \subseteq {dom}
        /\ analyses.fronts \subseteq {ComputeDomFronts(ir, dom)}

\* The dominator tree says exactly which blocks every path to a block goes
\* through, and a frontier holds exactly the blocks where the dominance of a
\* block ends (compute_dom_tree, compute_dom_fronts).
DominatorsExact ==
    LET po  == ComputePostOrder(ir)
        dom == ComputeDomTree(ir, po)
        fronts == ComputeDomFronts(ir, dom)
        Avoiding(d) == [ir EXCEPT !.blk[d].term.to = <<>>]
        Through(d, b) == d = b \/ b \notin ReachFrom(Avoiding(d), {Entry(ir)})
    IN  \A d, b \in Elems(po) :
            /\ Dominates(dom, d, b) <=> Through(d, b)
            /\ b \in fronts[d] <=>
                  /\ \E p \in Elems(po) : b \in SuccBlocks(ir, p) /\ Through(d, p)
                  /\ d = b \/ ~Through(d, b)

\* The machine code logs and returns what the function did before the first
\* pass, on every input on which that did not panic, and once every register
\* is coloured nothing later fails: each gets a register of its own, each
\* label an offset (allocate_registers, spill, realize_labels).
CodeKept ==
    /\ code.stage # "error"
    /\ code.stage = "final" =>
          \A n \in Inputs : meaning[n].end = "ret" =>
              LET m == Execute(code.ops, n) IN [out |-> m.out, end |-> m.end] = meaning[n]

\* A function gives its caller back the stack pointer, the base of the locals,
\* every allocatable register and the words of the stack that it had
\* (emit_pusha_popa, alloc_locals, drop_locals, spill).
FrameKept ==
    code.stage = "final" =>
        \A n \in Inputs :
            LET m == Execute(code.ops, n)
                start == MachineInit(n)
            IN  m.end = "ret" =>
                    /\ \A r \in CalleeSaved : m.reg[r] = start.reg[r]
                    /\ \A a \in CallerWords : m.mem[a] = start.mem[a]
=============================================================================
