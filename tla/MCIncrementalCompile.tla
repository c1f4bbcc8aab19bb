------------------------- MODULE MCIncrementalCompile ------------------------
(* IncrementalCompile for TLC: a root with two submodules.                 *)
EXTENDS IncrementalCompile, TLC

CONSTANTS a, b

NoUses == [f \in Subs |-> {}]

\* Submodule b imports from submodule a.
BUsesA == [f \in Subs |-> IF f = b THEN {a} ELSE {}]

\* Two edits to a, one to the root.
EditsOfRootAndA == [f \in Files |-> IF f = a THEN 2 ELSE IF f = b THEN 0 ELSE 1]

\* Two edits to a, none to the root.
TwoEditsOfA == [f \in Files |-> IF f = a THEN 2 ELSE 0]
=============================================================================
