-------------------------- MODULE MCLspCompilation ---------------------------
(* LspCompilation for TLC.  The handlers are interchangeable.              *)
EXTENDS LspCompilation, TLC

Symmetry == Permutations(Handlers)
=============================================================================
