------------------------------- MODULE SList -------------------------------
(***************************************************************************)
(* The singly linked list of src/ds_slist.c at the level of the heap.      *)
(*                                                                         *)
(* A list is the three fields head, tail and count.  Its nodes live in     *)
(* the heap: next and data are the two fields of every allocated node, so  *)
(* DOMAIN next is the set of allocated nodes.  calloc() may return any     *)
(* node that is not allocated now, one that was freed a moment ago         *)
(* included, or fail.                                                      *)
(*                                                                         *)
(* A call that follows NULL or a pointer to a freed node makes `defined'   *)
(* FALSE and ends the behaviour: nothing is claimed of the program after   *)
(* undefined behaviour.  A dangling pointer that is only copied or         *)
(* compared is harmless, and one whose node was handed out again reaches   *)
(* the new node, as it does in the compiled program.                       *)
(*                                                                         *)
(* The comparison callback is equality of the data.  NULL arguments, which *)
(* every function rejects before it touches the list, are left out.        *)
(***************************************************************************)
EXTENDS Naturals, FiniteSets, Sequences

CONSTANTS
    Node,      \* the nodes the heap can hold
    Data,      \* what an item may contain
    NULL,      \* the null pointer, and the result of a call without an item
    MaxCount   \* bound on the count field (SIZE_MAX in the code)

ASSUME NodeAssumption  == IsFiniteSet(Node) /\ NULL \notin Node
ASSUME DataAssumption  == NULL \notin Data
ASSUME CountAssumption == MaxCount \in Nat

VARIABLES
    head, tail, count,  \* struct ezi_slist
    next, data,         \* the fields of the allocated nodes
    defined,            \* FALSE after undefined behaviour
    call,               \* the last call: operation, argument and result
    orderly             \* history: every call was a safe one

vars == <<head, tail, count, next, data, defined, call, orderly>>

Live == DOMAIN next

-----------------------------------------------------------------------------
(* SLIST_ITERATE: the nodes w[1], ..., w[k] that a walk along next visits  *)
(* from head until it meets NULL.                                          *)
IsWalk(w, k) ==
    /\ head = IF k = 0 THEN NULL ELSE w[1]
    /\ \A i \in 1..k : next[w[i]] = IF i = k THEN NULL ELSE w[i + 1]
    /\ \A i, j \in 1..k : w[i] = w[j] => i = j

HasWalk(k) == \E w \in [1..k -> Live] : IsWalk(w, k)

(* The walk from head ends, after allocated nodes only.                    *)
WalkSafe == \E k \in 0..Cardinality(Live) : HasWalk(k)

Length == CHOOSE k \in 0..Cardinality(Live) : HasWalk(k)
Walk   == CHOOSE w \in [1..Length -> Live] : IsWalk(w, Length)

(* SLIST_VALID: head and tail are both set or both NULL, and count is zero *)
(* when they are NULL.                                                     *)
SLIST_VALID ==
    /\ (head = NULL) <=> (tail = NULL)
    /\ ~(head = NULL /\ tail = NULL /\ count > 0)

-----------------------------------------------------------------------------
(* init_ezi_slist_free(): an empty list.  No node is allocated yet.        *)
Init ==
    /\ head = NULL /\ tail = NULL /\ count = 0
    /\ next = << >> /\ data = << >>
    /\ defined = TRUE
    /\ call = [op |-> "init", arg |-> NULL, ret |-> NULL]
    /\ orderly = TRUE

Returns(op, arg, ret) ==
    /\ defined /\ UNCHANGED defined
    /\ call' = [op |-> op, arg |-> arg, ret |-> ret]

(* The call gives up and leaves the list as it was.                        *)
Fails(op, arg) ==
    /\ Returns(op, arg, NULL)
    /\ UNCHANGED <<head, tail, count, next, data>>

(* calloc() of node n, linked by the caller.                               *)
Allocate(n, d, link) ==
    /\ next' = [m \in Live \cup {n} |-> IF m = n THEN link ELSE next[m]]
    /\ data' = [m \in Live \cup {n} |-> IF m = n THEN d ELSE data[m]]

(* Fault: the node before the one that is freed keeps pointing to it.      *)
ReleaseStillLinked(n, p, link) ==
    /\ next' = [m \in Live \ {n} |-> next[m]]
    /\ data' = [m \in Live \ {n} |-> data[m]]

(* free() of node n, after p, if it is a node, was linked to link.         *)
Release(n, p, link) ==
    /\ next' = [m \in Live \ {n} |-> IF m = p THEN link ELSE next[m]]
    /\ data' = [m \in Live \ {n} |-> data[m]]

IsEmpty == head = NULL /\ tail = NULL

-----------------------------------------------------------------------------
(* ezi_slist_push() and ezi_slist_push_no_alloc(): link a zeroed node      *)
(* behind tail.  A tail that dangles may have been handed out as n itself. *)
PushNode(n, d) ==
    /\ IF IsEmpty
         THEN head' = n /\ count' = 1 /\ Allocate(n, d, NULL)
         ELSE /\ tail \in Live \cup {n}
              /\ count' = count + 1
              /\ next' = [m \in Live \cup {n} |->
                             IF m = tail THEN n
                             ELSE IF m = n THEN NULL ELSE next[m]]
              /\ data' = [m \in Live \cup {n} |-> IF m = n THEN d ELSE data[m]]
              /\ UNCHANGED head
    /\ tail' = n
    /\ Returns("push", d, d)

Push(d) ==
    \/ Fails("push", d)
    \/ count < MaxCount /\ \E n \in Node \ Live : PushNode(n, d)

(* Fault: shift forgets to count the node.                                 *)
ShiftNodeUncounted(n, d) ==
    /\ head' = n
    /\ IF IsEmpty THEN tail' = n /\ count' = 1 ELSE UNCHANGED <<tail, count>>
    /\ Allocate(n, d, head)
    /\ Returns("shift", d, d)

(* ezi_slist_shift() and ezi_slist_shift_no_alloc(): link a node before    *)
(* head.                                                                   *)
ShiftNode(n, d) ==
    /\ head' = n
    /\ IF IsEmpty THEN tail' = n /\ count' = 1
                  ELSE tail' = tail /\ count' = count + 1
    /\ Allocate(n, d, head)
    /\ Returns("shift", d, d)

Shift(d) ==
    \/ Fails("shift", d)
    \/ count < MaxCount /\ \E n \in Node \ Live : ShiftNode(n, d)

-----------------------------------------------------------------------------
(* ezi_slist_pop(), reporting as operation op with argument a.  The branch *)
(* for several items looks for the node before tail, unlinks tail and      *)
(* leaves count alone.                                                     *)
BeforeTail(n) == n \in Live /\ next[n] = tail

PopAs(op, a) ==
    \/ /\ \/ count = 0 \/ tail = NULL
          \/ count > 1 /\ \A i \in 1..Length : ~BeforeTail(Walk[i])
       /\ Fails(op, a)
    \/ /\ count > 1 /\ tail \in Live
       /\ \E i \in 1..Length :
            /\ BeforeTail(Walk[i])
            /\ tail' = Walk[i]
            /\ Release(tail, Walk[i], NULL)
       /\ Returns(op, a, data[tail])
       /\ UNCHANGED <<head, count>>
    \/ /\ count = 1 /\ tail \in Live
       /\ head' = NULL /\ tail' = NULL /\ count' = 0
       /\ Release(tail, NULL, NULL)
       /\ Returns(op, a, data[tail])

Pop == PopAs("pop", NULL)

(* Fault: unshift leaves tail behind when it takes the last item.          *)
UnshiftKeepsTail(op, a) ==
    \/ (count = 0 \/ head = NULL) /\ Fails(op, a)
    \/ /\ count > 0 /\ head \in Live
       /\ head' = next[head] /\ count' = count - 1 /\ UNCHANGED tail
       /\ Release(head, NULL, NULL)
       /\ Returns(op, a, data[head])

(* Fault: unshift counts down before it finds that there is no head.       *)
UnshiftCountsFirst(op, a) ==
    /\ count' = count - 1
    /\ \/ /\ head = NULL
          /\ Returns(op, a, NULL)
          /\ UNCHANGED <<head, tail, next, data>>
       \/ /\ head \in Live
          /\ head' = next[head] /\ UNCHANGED tail
          /\ Release(head, NULL, NULL)
          /\ Returns(op, a, data[head])

(* ezi_slist_unshift(), reporting as operation op with argument a.         *)
UnshiftAs(op, a) ==
    \/ /\ count = 0 \/ head = NULL
       /\ Fails(op, a)
    \/ /\ count > 0 /\ head \in Live
       /\ count' = count - 1
       /\ head' = IF count = 1 THEN NULL ELSE next[head]
       /\ tail' = IF count = 1 THEN NULL ELSE tail
       /\ Release(head, NULL, NULL)
       /\ Returns(op, a, data[head])

Unshift == UnshiftAs("unshift", NULL)

-----------------------------------------------------------------------------
(* The first match of the walk is its i-th node.                           *)
FirstMatch(i, d) ==
    /\ i \in 1..Length
    /\ data[Walk[i]] = d
    /\ \A j \in 1..(i - 1) : data[Walk[j]] # d

(* The loop of ezi_slist_remove(): it unlinks the node AFTER the match.    *)
RemoveInside(d) ==
    \/ /\ \A i \in 1..Length : data[Walk[i]] # d
       /\ Fails("remove", d)
    \/ /\ \E i \in 1..Length :
            /\ FirstMatch(i, d)
            /\ i < Length
            /\ Release(Walk[i + 1], Walk[i], next[Walk[i + 1]])
            /\ Returns("remove", d, data[Walk[i + 1]])
       /\ count' = count - 1
       /\ UNCHANGED <<head, tail>>

(* Fault: remove compares the tail before the head.                        *)
RemoveTailFirst(d) ==
    \/ count = 0 /\ Fails("remove", d)
    \/ /\ count > 0 /\ tail \in Live /\ head \in Live
       /\ IF data[tail] = d THEN PopAs("remove", d)
          ELSE IF data[head] = d THEN UnshiftAs("remove", d) ELSE RemoveInside(d)

(* ezi_slist_remove(): head first, then tail, then the loop.               *)
Remove(d) ==
    \/ count = 0 /\ Fails("remove", d)
    \/ /\ count > 0 /\ head \in Live /\ data[head] = d
       /\ UnshiftAs("remove", d)
    \/ /\ count > 0 /\ head \in Live /\ data[head] # d /\ tail \in Live
       /\ IF data[tail] = d THEN PopAs("remove", d) ELSE RemoveInside(d)

-----------------------------------------------------------------------------
(* ezi_slist_clear(), and free_ezi_slist() followed by a new init: free    *)
(* every node of the walk.                                                 *)
Clear ==
    /\ head' = NULL /\ tail' = NULL /\ count' = 0
    /\ LET rest == Live \ {Walk[i] : i \in 1..Length}
       IN  /\ next' = [m \in rest |-> next[m]]
           /\ data' = [m \in rest |-> data[m]]
    /\ Returns("clear", NULL, NULL)

-----------------------------------------------------------------------------
(* The calls that follow a pointer to no allocated node: push writes       *)
(* tail->next, pop writes tail->next of the only item, unshift and remove  *)
(* read head, remove reads tail, and then the successor of the match; pop, *)
(* remove and clear walk the list.                                         *)
PushIsWild == ~IsEmpty /\ \E n \in Node \ Live : tail \notin Live \cup {n}
PopIsWild == count = 1 /\ tail \notin Live \cup {NULL}
RemoveIsWild(d) ==
    /\ count > 0
    /\ \/ head \notin Live
       \/ head \in Live /\ data[head] # d /\ tail \notin Live
       \/ /\ head \in Live /\ data[head] # d
          /\ tail \in Live /\ data[tail] # d
          /\ FirstMatch(Length, d)

SomeCallIsWild ==
    PushIsWild \/ PopIsWild \/ (\E d \in Data : RemoveIsWild(d)) \/ ~WalkSafe

Undefined ==
    /\ defined /\ SomeCallIsWild
    /\ defined' = FALSE
    /\ UNCHANGED <<head, tail, count, next, data, call>>

(* The calls that keep a list in shape: pop and remove only where they do  *)
(* not take an item from behind another one.  The lists of the commands    *)
(* see push, shift, clear and free alone; ezi_hash_table_remove(), which   *)
(* no command calls, may remove behind another item.                       *)
PopIsSafe == count <= 1

RemoveIsSafe(d) ==
    \/ head \in Live /\ data[head] = d
    \/ \A i \in 1..Length : data[Walk[i]] # d

Next ==
    \/ /\ \/ \E d \in Data : Push(d) \/ Shift(d)
          \/ Unshift \/ Clear \/ Undefined
       /\ UNCHANGED orderly
    \/ Pop /\ orderly' = (orderly /\ PopIsSafe)
    \/ \E d \in Data : Remove(d) /\ orderly' = (orderly /\ RemoveIsSafe(d))

Spec == Init /\ [][Next]_vars

-----------------------------------------------------------------------------
(* Types of the fields, the heap and the recorded call.                    *)
HeapOK ==
    /\ head \in Node \cup {NULL}
    /\ tail \in Node \cup {NULL}
    /\ count \in 0..MaxCount
    /\ Live \in SUBSET Node
    /\ next \in [Live -> Node \cup {NULL}]
    /\ data \in [Live -> Data]
    /\ defined \in BOOLEAN
    /\ call \in [op : {"init", "push", "pop", "shift", "unshift", "remove", "clear"},
                 arg : Data \cup {NULL}, ret : Data \cup {NULL}]

(* Types of the fields, the heap, the recorded call and the history.       *)
TypeOK == HeapOK /\ orderly \in BOOLEAN

(* Whatever calls were made, wrong tails and wrong counts included, a walk *)
(* from head (SLIST_ITERATE, the loops of pop, remove, clear and free)     *)
(* meets no freed node and no cycle, and ends after at most count nodes.   *)
BoundedWalk == \E k \in 0..count : HasWalk(k)

(* The ways in which the code asks whether a list is empty agree: count is *)
(* 0 (pop, unshift, remove) exactly when tail is NULL (push and shift look *)
(* at head and tail), and then head is NULL too, so that no walk finds an  *)
(* item that count denies. The converse fails: a list whose count is one   *)
(* too high still counts an item when its last is gone, and its tail       *)
(* dangles.                                                                *)
EmptinessAgrees ==
    /\ (count = 0) <=> (tail = NULL)
    /\ (count = 0) => (head = NULL)

(* count is the number of nodes, tail is the last of them, SLIST_VALID     *)
(* holds, and no allocated node is out of reach.                           *)
WellFormed ==
    /\ \E w \in [1..count -> Live] :
          /\ IsWalk(w, count)
          /\ tail = IF count = 0 THEN NULL ELSE w[count]
          /\ Live = {w[i] : i \in 1..count}
    /\ SLIST_VALID

(* After any sequence of safe calls the list is in shape.                  *)
InShape == orderly => WellFormed

(* After any sequence of safe calls no call at all, a pop or remove of any *)
(* item included, would follow a pointer to no allocated node.             *)
NoCallIsWild == orderly => ~SomeCallIsWild

(* The items of the list as the sequence a walk sees.                      *)
Items == [i \in 1..Length |-> data[Walk[i]]]

(* As long as they are safe, calls behave as those of a double ended       *)
(* queue.                                                                  *)
D == INSTANCE Deque WITH items <- Items
RefinesDeque == D!Init /\ [][orderly' => D!Next]_<<Items, call>>

(* tests/ds_slist_tests.c on ezi_slist_remove(): the item it returns is    *)
(* the one that was asked for.                                             *)
RemoveReturnsMatch == call.op = "remove" => call.ret \in {call.arg, NULL}

=============================================================================
