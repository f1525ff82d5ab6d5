---------------------------- MODULE MCHashTable ----------------------------
(***************************************************************************)
(* Instances of HashTable: three keys that share a bucket and one that has *)
(* a bucket of its own.                                                    *)
(***************************************************************************)
EXTENDS HashTable, TLC

CONSTANTS k1, k2, k3, k4, v1, v2, v3, v4

MCKey   == {k1, k2, k3, k4}
MCValue == {v1, v2, v3, v4}
MCHash  == [k \in MCKey |-> IF k = k4 THEN 1 ELSE 0]

Interchangeable == Permutations({k1, k2, k3}) \cup Permutations(MCValue)
=============================================================================
