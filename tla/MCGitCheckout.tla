---------------------------- MODULE MCGitCheckout -----------------------------
(* GitCheckout for TLC: two packages, the name of one starts with the      *)
(* other's.                                                                *)
EXTENDS GitCheckout

CONSTANTS foo, foo_utils

\* "foo" is the beginning of "foo_utils".
Prefix == [s \in Sources |-> IF s = foo THEN {foo, foo_utils} \cap Sources ELSE {s}]
=============================================================================
