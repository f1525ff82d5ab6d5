--------------------------- MODULE MCRecordBytes ---------------------------
(***************************************************************************)
(* Instances of RecordBytes: fields of two, two and three bytes; strings   *)
(* that are empty, that fit, that fill their field and that are longer;    *)
(* up to three dependencies, one more than their number can say.           *)
(***************************************************************************)
EXTENDS RecordBytes

a == 97
Repeat(n) == [i \in 1..n |-> a]

MCArguments ==
    [name : {Repeat(n) : n \in 1..3}, desc : {Repeat(n) : n \in {0, 1, 2}},
     url  : {Repeat(n) : n \in {0, 1, 3}},
     deps : {<< >>, <<Repeat(1)>>, <<Repeat(2)>>, <<Repeat(1), <<a + 1>>>>, [i \in 1..3 |-> <<a>>]}]
MCBehind  == {<< >>, <<a>>}
MCGarbage == {0, 1}
=============================================================================
