------------------------- MODULE MCLruSessionCache -------------------------
(* LruSessionCache on small instances for TLC: paths, handlers and sessions *)
(* are interchangeable.                                                     *)
EXTENDS LruSessionCache

Symmetry ==
  Permutations(Paths) \cup Permutations(Handlers) \cup Permutations(Sessions)
=============================================================================
