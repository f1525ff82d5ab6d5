----------------------------- MODULE HashTable -----------------------------
(***************************************************************************)
(* The hash table of src/ds_hash_table.c.                                  *)
(*                                                                         *)
(* A bucket is a list of src/ds_slist.c, here as the sequence of entries a *)
(* walk sees (module SList proves of the heap that every walk ends after   *)
(* allocated nodes), its count field, and whether its tail still points to *)
(* a node.  The last two only go wrong through ezi_slist_remove().         *)
(*                                                                         *)
(* A value stands for a struct ezi_software: the table gets a copy of it   *)
(* and with it the list of dependencies it points to, which free_func      *)
(* releases.  The copies of key and value are the body of an entry.        *)
(***************************************************************************)
EXTENDS Naturals, Sequences, FiniteSets

CONSTANTS
    Key, Value,
    Bucket,     \* the indices of the buckets
    Hash,       \* hash_func(key) % buckets_count
    NULL,       \* no key
    MaxBodies   \* bound on the bodies that are allocated

ASSUME HashAssumption   == Hash \in [Key -> Bucket]
ASSUME BucketAssumption == IsFiniteSet(Bucket)
ASSUME KeyAssumption    == IsFiniteSet(Key) /\ NULL \notin Key
ASSUME BodiesAssumption == MaxBodies \in Nat

VARIABLES
    open,     \* buckets is not NULL
    entries,  \* the entries of each bucket, from head
    size,     \* the count field of each bucket
    hangs,    \* the buckets whose tail points to a freed node
    count,    \* the count field of the table
    lists,    \* the values whose dependencies are allocated
    bodies,   \* the number of bodies that are allocated
    lost,     \* history: how many of them a failed call of set left behind
    defined,  \* FALSE after undefined behaviour
    call,     \* the last call, its key and its result
    conduct   \* history: how well the calls that were made behaved

vars == <<open, entries, size, hangs, count, lists, bodies, lost, defined,
          call, conduct>>

(* Only calls that the program makes were made; or, none but calls that    *)
(* keep the table a dictionary; or, any calls.                             *)
Conduct == {"program", "safe", "any"}

NoEntries == [b \in Bucket |-> << >>]

Positions(ents) == UNION {{b} \X DOMAIN ents[b] : b \in Bucket}
Held(ents)      == {ents[at[1]][at[2]].value : at \in Positions(ents)}

(* The position of key k in its bucket, which the loops of get, has_key    *)
(* and set look for.                                                       *)
At(k, i) == i \in DOMAIN entries[Hash[k]] /\ entries[Hash[k]][i].key = k
Found(k) == \E i \in DOMAIN entries[Hash[k]] : At(k, i)
Position(k) == CHOOSE i \in DOMAIN entries[Hash[k]] :
                   At(k, i) /\ \A j \in 1..(i - 1) : ~At(k, j)

-----------------------------------------------------------------------------
(* init_ezi_hash_table_free(): every bucket an empty list.                 *)
Init ==
    /\ open = TRUE
    /\ entries = NoEntries
    /\ size = [b \in Bucket |-> 0]
    /\ hangs = {}
    /\ count = 0
    /\ lists = {}
    /\ bodies = 0
    /\ lost = 0
    /\ defined = TRUE
    /\ call = [op |-> "init", key |-> NULL, ret |-> NULL]
    /\ conduct = "program"

Returns(op, k, ret) ==
    /\ defined /\ UNCHANGED defined
    /\ call' = [op |-> op, key |-> k, ret |-> ret]

Unchanged == UNCHANGED <<open, entries, size, hangs, count, lists, bodies, lost, conduct>>

Fails(op, k) == Returns(op, k, "failed") /\ Unchanged

-----------------------------------------------------------------------------
(* ezi_hash_table_get().                                                    *)
Get(k) ==
    \/ (~open \/ count = 0 \/ ~Found(k)) /\ Fails("get", k)
    \/ /\ open /\ count > 0 /\ Found(k)
       /\ Returns("get", k, entries[Hash[k]][Position(k)].value)
       /\ Unchanged

(* ezi_hash_table_has_key().                                               *)
HasKey(k) ==
    \/ ~open /\ Fails("has_key", k)
    \/ open /\ Returns("has_key", k, IF Found(k) THEN "yes" ELSE "no") /\ Unchanged

(* Fault: the value that is overwritten keeps its dependencies.            *)
OverwriteKeepsList(k, v) ==
    /\ Found(k)
    /\ entries' = [entries EXCEPT ![Hash[k]][Position(k)].value = v]
    /\ lists' = lists \cup {v}
    /\ UNCHANGED <<size, count, bodies>>

(* ezi_hash_table_set() of a key that is there: its value is freed and     *)
(* overwritten.                                                            *)
Overwrite(k, v) ==
    /\ Found(k)
    /\ entries' = [entries EXCEPT ![Hash[k]][Position(k)].value = v]
    /\ lists' = (lists \ {entries[Hash[k]][Position(k)].value}) \cup {v}
    /\ UNCHANGED <<size, count, bodies>>

(* Fault: a key that is there gets a second entry.                         *)
InsertAnyway(k, v) ==
    /\ bodies < MaxBodies
    /\ entries' = [entries EXCEPT
                     ![Hash[k]] = <<[key |-> k, value |-> v]>> \o @]
    /\ size' = [size EXCEPT ![Hash[k]] = @ + 1]
    /\ count' = count + 1
    /\ lists' = lists \cup {v}
    /\ bodies' = bodies + 1

(* ezi_hash_table_set() of a new key: its entry goes to the head of the    *)
(* bucket.                                                                 *)
Insert(k, v) ==
    /\ ~Found(k)
    /\ bodies < MaxBodies
    /\ entries' = [entries EXCEPT
                     ![Hash[k]] = <<[key |-> k, value |-> v]>> \o @]
    /\ size' = [size EXCEPT ![Hash[k]] = @ + 1]
    /\ count' = count + 1
    /\ lists' = lists \cup {v}
    /\ bodies' = bodies + 1

(* The body of the new entry is made, but there is no memory for the node  *)
(* that links it into its bucket: nothing frees the body.                  *)
LosesBody ==
    /\ bodies < MaxBodies
    /\ bodies' = bodies + 1
    /\ lost' = lost + 1
    /\ UNCHANGED <<open, entries, size, hangs, count, lists, conduct>>

(* ezi_hash_table_set(): v is a value the table does not hold.  A new key  *)
(* may fail for want of memory, for its body or for its node.              *)
Set(k, v) ==
    \/ /\ open /\ v \notin lists
       /\ Overwrite(k, v) \/ Insert(k, v)
       /\ Returns("set", k, "done")
       /\ UNCHANGED <<open, hangs, lost, conduct>>
    \/ ~open /\ Fails("set", k)
    \/ open /\ ~Found(k) /\ Fails("set", k)
    \/ open /\ ~Found(k) /\ Returns("set", k, "failed") /\ LosesBody

-----------------------------------------------------------------------------
(* What ezi_slist_remove() does to bucket b for key k.  It takes the head  *)
(* if that has the key, else the tail, whose removal is not counted, else  *)
(* the entry BEHIND the one with the key.                                  *)
TakeHead(b) ==
    /\ entries' = [entries EXCEPT ![b] = Tail(@)]
    /\ size' = [size EXCEPT ![b] = @ - 1]
    /\ hangs' = IF size[b] = 1 THEN hangs \ {b}
                ELSE IF Len(entries[b]) = 1 THEN hangs \cup {b} ELSE hangs

TakeTail(b) ==
    /\ entries' = [entries EXCEPT ![b] = SubSeq(@, 1, Len(@) - 1)]
    /\ UNCHANGED <<size, hangs>>

TakeBehind(b, i) ==
    /\ entries' = [entries EXCEPT ![b] =
                     SubSeq(@, 1, i) \o SubSeq(@, i + 2, Len(@))]
    /\ size' = [size EXCEPT ![b] = @ - 1]
    /\ hangs' = IF i + 1 = Len(entries[b]) THEN hangs \cup {b} ELSE hangs

Take(k) ==
    LET b == Hash[k]
    IN  \/ At(k, 1) /\ TakeHead(b)
        \/ /\ ~At(k, 1) /\ b \notin hangs
           /\ IF At(k, Len(entries[b])) THEN TakeTail(b)
                                        ELSE TakeBehind(b, Position(k))

(* Fault: remove does not count.                                           *)
RemoveUncounted(k) ==
    \/ ~open /\ Fails("remove", k)
    \/ /\ open /\ count > 0 /\ size[Hash[k]] > 0 /\ Found(k)
       /\ Take(k)
       /\ bodies' = bodies - 1
       /\ Returns("remove", k, "done")
       /\ UNCHANGED <<open, lists, lost, count, conduct>>

(* Fault: remove frees an entry it did not find.                           *)
RemoveUnfound(k) ==
    /\ open /\ Hash[k] \notin hangs /\ ~Found(k)
    /\ bodies' = bodies - 1
    /\ Returns("remove", k, "failed")
    /\ UNCHANGED <<open, entries, size, hangs, count, lists, lost, conduct>>

(* ezi_hash_table_remove(): the body of the entry is freed, the            *)
(* dependencies of its value are not.  No command calls it.                *)
Remove(k) ==
    \/ ~open /\ Fails("remove", k)
    \/ /\ open
       /\ \/ count = 0 \/ size[Hash[k]] = 0
          \/ entries[Hash[k]] # << >> /\ Hash[k] \notin hangs /\ ~Found(k)
       /\ Fails("remove", k)
    \/ /\ open /\ count > 0 /\ size[Hash[k]] > 0 /\ Found(k)
       /\ Take(k)
       /\ count' = count - 1
       /\ bodies' = bodies - 1
       /\ Returns("remove", k, "done")
       /\ conduct' = IF At(k, 1) /\ conduct # "any" THEN "safe" ELSE "any"
       /\ UNCHANGED <<open, lists, lost>>

(* ezi_slist_remove() reads the key at head, which may be NULL in a bucket *)
(* that counts entries, and unless it is the one the key at tail, which    *)
(* may be freed.                                                           *)
RemoveIsWild(k) ==
    /\ open /\ count > 0 /\ size[Hash[k]] > 0
    /\ \/ entries[Hash[k]] = << >>
       \/ ~At(k, 1) /\ Hash[k] \in hangs

Undefined ==
    /\ defined /\ \E k \in Key : RemoveIsWild(k)
    /\ defined' = FALSE
    /\ UNCHANGED call /\ Unchanged

-----------------------------------------------------------------------------
Emptied ==
    /\ entries' = NoEntries
    /\ size' = [b \in Bucket |-> 0]
    /\ hangs' = {}
    /\ count' = 0
    /\ lists' = lists \ Held(entries)
    /\ UNCHANGED lost

(* ezi_hash_table_clear(): frees the dependencies and the nodes, but not   *)
(* the bodies.  The program only clears a table before a load inserts into *)
(* it (data_software_source.c:84).                                         *)
Clear ==
    /\ Emptied
    /\ Returns("clear", NULL, "done")
    /\ conduct' = IF conduct = "program" /\ count > 0 THEN "safe" ELSE conduct
    /\ UNCHANGED <<open, bodies>>

(* Fault: free leaves the fields of the table as they were.                *)
FreeKeepsFields ==
    /\ Emptied
    /\ bodies' = bodies - Cardinality(Positions(entries))
    /\ UNCHANGED <<open, conduct>>
    /\ Returns("free", NULL, "done")

(* free_ezi_hash_table(), which may be called again.                       *)
Free ==
    /\ Emptied
    /\ bodies' = bodies - Cardinality(Positions(entries))
    /\ open' = FALSE
    /\ Returns("free", NULL, "done")
    /\ UNCHANGED conduct

(* init_ezi_hash_table_free() of a table that was freed.                   *)
Reinit ==
    /\ ~open /\ open' = TRUE
    /\ Returns("init", NULL, "done")
    /\ UNCHANGED <<entries, size, hangs, count, lists, bodies, lost, conduct>>

-----------------------------------------------------------------------------
Next ==
    \/ \E k \in Key : \/ \E v \in Value : Set(k, v)
                      \/ Get(k) \/ HasKey(k) \/ Remove(k)
    \/ Clear \/ Free \/ Reinit
    \/ Undefined

Spec == Init /\ [][Next]_vars

-----------------------------------------------------------------------------
(* Types of the fields, the memory and the recorded call.                  *)
TypeOK ==
    /\ open \in BOOLEAN /\ defined \in BOOLEAN
    /\ entries \in [Bucket -> Seq([key : Key, value : Value])]
    /\ size \in [Bucket -> Nat]
    /\ hangs \in SUBSET Bucket
    /\ count \in Nat
    /\ lists \in SUBSET Value
    /\ bodies \in 0..MaxBodies /\ lost \in Nat
    /\ call.key \in Key \cup {NULL}
    /\ conduct \in Conduct

(* Whatever calls were made, removals that took the wrong entry included,  *)
(* a key has at most one entry, in its own bucket: get never finds a value *)
(* that a later set replaced.                                              *)
OneEntryPerKey ==
    /\ \A at \in Positions(entries) :
          Hash[entries[at[1]][at[2]].key] = at[1]
    /\ \A at, bt \in Positions(entries) :
          entries[at[1]][at[2]].key = entries[bt[1]][bt[2]].key => at = bt

(* Whatever calls were made, count, which a save writes into the header of *)
(* its file and which get trusts before it looks, is the number of         *)
(* entries; and a bucket that counts nothing, which set and remove trust,  *)
(* has none.                                                               *)
CountsAgree ==
    /\ count = Cardinality(Positions(entries))
    /\ \A b \in Bucket : Len(entries[b]) <= size[b]

(* The table as a map.                                                     *)
Dict == [k \in {j \in Key : Found(j)} |-> entries[Hash[k]][Position(k)].value]

(* As long as keys are only removed from the head of their bucket, or when *)
(* they are not there, every call returns what it would on a dictionary.   *)
D == INSTANCE Dictionary WITH dict <- Dict
RefinesDictionary == D!Init /\ [][conduct' # "any" => D!Next]_(D!vars)

(* The calls of the program free nothing twice and leave one thing behind: *)
(* the dependencies that are allocated are those of the values in the      *)
(* table, each held once, and the bodies those of its entries and those    *)
(* that a set lost for want of a node (ds_hash_table.c:166-171).  What is  *)
(* allocated after free are these.                                         *)
OnlySetLeaks ==
    conduct = "program" =>
        /\ lists = Held(entries)
        /\ Cardinality(lists) = Cardinality(Positions(entries))
        /\ bodies = Cardinality(Positions(entries)) + lost
        /\ ~open => lists = {} /\ bodies = lost
=============================================================================
