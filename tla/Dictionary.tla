----------------------------- MODULE Dictionary -----------------------------
(***************************************************************************)
(* What a hash table promises: while it is open, a map from keys to        *)
(* values.  The last call, its key and its result are part of the promise. *)
(***************************************************************************)
CONSTANTS Key, Value, NULL

VARIABLES dict, open, call

vars == <<dict, open, call>>

Nothing == [k \in {} |-> NULL]

Init ==
    /\ dict = Nothing /\ open = TRUE
    /\ call = [op |-> "init", key |-> NULL, ret |-> NULL]

Called(op, k, ret) == call' = [op |-> op, key |-> k, ret |-> ret]

(* Every operation on a closed dictionary fails; a set may for want of     *)
(* memory.                                                                 *)
Fail(op, k) ==
    /\ ~open \/ op = "set"
    /\ Called(op, k, "failed")
    /\ UNCHANGED <<dict, open>>

Set(k, v) ==
    /\ open
    /\ dict' = [j \in DOMAIN dict \cup {k} |-> IF j = k THEN v ELSE dict[j]]
    /\ Called("set", k, "done")
    /\ UNCHANGED open

Get(k) ==
    /\ open
    /\ Called("get", k, IF k \in DOMAIN dict THEN dict[k] ELSE "failed")
    /\ UNCHANGED <<dict, open>>

HasKey(k) ==
    /\ open
    /\ Called("has_key", k, IF k \in DOMAIN dict THEN "yes" ELSE "no")
    /\ UNCHANGED <<dict, open>>

Remove(k) ==
    /\ open
    /\ dict' = [j \in DOMAIN dict \ {k} |-> dict[j]]
    /\ Called("remove", k, IF k \in DOMAIN dict THEN "done" ELSE "failed")
    /\ UNCHANGED open

Clear == Called("clear", NULL, "done") /\ dict' = Nothing /\ UNCHANGED open
Free  == Called("free", NULL, "done") /\ dict' = Nothing /\ open' = FALSE
Reopen ==
    /\ ~open /\ open' = TRUE
    /\ Called("init", NULL, "done")
    /\ UNCHANGED dict

Next ==
    \/ \E k \in Key : \/ \E v \in Value : Set(k, v)
                      \/ Get(k) \/ HasKey(k) \/ Remove(k)
                      \/ \E op \in {"set", "get", "has_key", "remove"} : Fail(op, k)
    \/ Clear \/ Free \/ Reopen

Spec == Init /\ [][Next]_vars
=============================================================================
