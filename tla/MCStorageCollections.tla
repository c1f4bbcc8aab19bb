------------------------ MODULE MCStorageCollections -------------------------
(* StorageCollections for TLC.                                             *)
EXTENDS StorageCollections, TLC

CONSTANTS k1

\* Every word of a value is different, so that a word out of place shows.
MCValues(t) == {[w \in 0 .. (Words(t) - 1) |-> 10 * x + w] : x \in {1, 2}}

\* u8 (packed four to a slot), a struct of three words (straddles slots), b256
\* (a slot each), and an element without size.
MCTypes == {[size |-> 1, ref |-> FALSE], [size |-> 24, ref |-> TRUE],
            [size |-> 32, ref |-> TRUE], [size |-> 0, ref |-> TRUE]}

\* An empty slice, one of part of a slot, one of two slots.
MCSlices == {[len |-> n, words |-> [w \in 0 .. ((n + 7) \div 8 - 1) |-> n + w]] : n \in {0, 5, 40}}
=============================================================================
