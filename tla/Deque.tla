------------------------------- MODULE Deque -------------------------------
(***************************************************************************)
(* What include/ds/slist.h promises of a list, without nodes, pointers or  *)
(* a count: a sequence of items that grows and shrinks at both ends.  The  *)
(* variable call records the last call and its result, as in SList; NULL   *)
(* is the result of a call that returns no item, and an insertion that     *)
(* returns NULL has failed to allocate.                                    *)
(***************************************************************************)
EXTENDS Naturals, Sequences

CONSTANTS Data, NULL

VARIABLES items, call

Answer(op, arg, ret) == call' = [op |-> op, arg |-> arg, ret |-> ret]

Init ==
    /\ items = << >>
    /\ call = [op |-> "init", arg |-> NULL, ret |-> NULL]

(* An insertion at either end, or its failure.                             *)
Insert(op, d, grown) ==
    \/ items' = grown /\ Answer(op, d, d)
    \/ UNCHANGED items /\ Answer(op, d, NULL)

(* An item is taken from an end; NULL if, and only if, there is none.      *)
Take(op, a, i, shrunk) ==
    \/ items = << >> /\ UNCHANGED items /\ Answer(op, a, NULL)
    \/ items # << >> /\ items' = shrunk /\ Answer(op, a, items[i])

Push(d)  == Insert("push", d, Append(items, d))
Shift(d) == Insert("shift", d, <<d>> \o items)
Pop      == Take("pop", NULL, Len(items), SubSeq(items, 1, Len(items) - 1))
Unshift  == Take("unshift", NULL, 1, Tail(items))

(* The item that is removed equals d; NULL if no item does.                *)
Remove(d) ==
    \/ /\ \A i \in 1..Len(items) : items[i] # d
       /\ UNCHANGED items
       /\ Answer("remove", d, NULL)
    \/ \E i \in 1..Len(items) :
          /\ items[i] = d
          /\ items' = SubSeq(items, 1, i - 1) \o SubSeq(items, i + 1, Len(items))
          /\ Answer("remove", d, d)

Clear == items' = << >> /\ Answer("clear", NULL, NULL)

Next ==
    \/ \E d \in Data : Push(d) \/ Shift(d) \/ Remove(d)
    \/ Pop \/ Unshift \/ Clear

Spec == Init /\ [][Next]_<<items, call>>

=============================================================================
