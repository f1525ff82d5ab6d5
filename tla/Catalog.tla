------------------------------ MODULE Catalog ------------------------------
(***************************************************************************)
(* What the table of available software promises to the runs of ezi that   *)
(* share it: a run works on the whole table some run wrote, as it was at   *)
(* one moment, and replaces the whole table by that one with one software  *)
(* added.  A run that found no table may begin an empty one, at any later  *)
(* time.  Nothing orders the replacements of two runs.                     *)
(***************************************************************************)
EXTENDS Naturals

CONSTANTS
    Proc,      \* the processes that may run the program
    Entries,   \* what may be added: records of a name and a value
    None       \* no table

VARIABLES
    table,     \* the table in the file
    fresh,     \* the runs that found no table
    seen       \* the table a run works on

vars == <<table, fresh, seen>>

Nothing == [n \in {} |-> None]

Init ==
    /\ table = None
    /\ fresh = {}
    /\ seen = [p \in Proc |-> None]

FindNone(p) ==
    /\ table = None
    /\ fresh' = fresh \cup {p}
    /\ UNCHANGED <<table, seen>>

Begin(p) ==
    /\ p \in fresh
    /\ fresh' = fresh \ {p}
    /\ table' = Nothing
    /\ UNCHANGED seen

Take(p) ==
    /\ table # None /\ seen[p] = None
    /\ seen' = [seen EXCEPT ![p] = table]
    /\ UNCHANGED <<table, fresh>>

(* The run decides on the software it adds before it replaces the table.   *)
Insert(p) ==
    /\ seen[p] # None
    /\ \E e \in Entries :
          seen' = [seen EXCEPT ![p] =
                      [n \in DOMAIN seen[p] \cup {e.name} |->
                          IF n = e.name THEN e.value ELSE seen[p][n]]]
    /\ UNCHANGED <<table, fresh>>

Replace(p) ==
    /\ seen[p] # None
    /\ table' = seen[p]
    /\ seen' = [seen EXCEPT ![p] = None]
    /\ UNCHANGED fresh

Leave(p) ==
    /\ seen' = [seen EXCEPT ![p] = None]
    /\ UNCHANGED <<table, fresh>>

Next == \E p \in Proc :
    FindNone(p) \/ Begin(p) \/ Take(p) \/ Insert(p) \/ Replace(p) \/ Leave(p)

Spec == Init /\ [][Next]_vars
=============================================================================
