------------------------------- MODULE MCEzi -------------------------------
(***************************************************************************)
(* Instances of Ezi: two names and a third that occurs only as a           *)
(* dependency.  Users add `a' with one and with two dependencies, which a  *)
(* second load reverses, and `b' without any, which is the record a cut of *)
(* the number of dependencies cannot be told from.                         *)
(***************************************************************************)
EXTENDS Ezi

CONSTANTS a, b, c, t1, t2, p1, p2

MCName      == {a, b, c}
MCText      == {t1, t2}
MCGarbage   == {0, 1}
MCAdditions == {[name |-> a, sw |-> [text |-> t1, deps |-> <<b, c>>]],
                [name |-> a, sw |-> [text |-> t2, deps |-> <<c>>]],
                [name |-> b, sw |-> [text |-> t1, deps |-> << >>]]}
TwoAdditions == {[name |-> a, sw |-> [text |-> t1, deps |-> <<b, c>>]],
                 [name |-> b, sw |-> [text |-> t1, deps |-> << >>]]}
OneProc     == {p1}
TwoProcs    == {p1, p2}

(* The runs that start when the first one has ended: both files exist and  *)
(* hold no software, so no run creates one.                                *)
InitWithFiles ==
    /\ file  = [t \in Table |-> Whole(Contents(Empty, << >>))]
    /\ pc    = [p \in Proc |-> Off]
    /\ mem   = [p \in Proc |-> NoTables]
    /\ cmd   = [p \in Proc |-> Look]
    /\ runs  = 0
    /\ saved = [t \in Table |-> Empty]
    /\ acked = Empty
    /\ clean = TRUE

SpecWithFiles == InitWithFiles /\ [][Next]_vars
=============================================================================
