------------------------------ MODULE MCSList ------------------------------
(***************************************************************************)
(* SList for model checking: nodes and data are interchangeable.           *)
(***************************************************************************)
EXTENDS SList, TLC

Interchangeable == Permutations(Node) \cup Permutations(Data)

=============================================================================
