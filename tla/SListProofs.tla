---------------------------- MODULE SListProofs ----------------------------
(***************************************************************************)
(* Proofs about SList: type correctness, the bound on every walk, the      *)
(* shape that the safe calls keep, and that they are those of a Deque.     *)
(***************************************************************************)
EXTENDS SList, SequenceFacts

-----------------------------------------------------------------------------
(* A walk is unique: two walks agree as far as the first one goes.         *)
LEMMA WalksAgree ==
    ASSUME NULL \notin Live,
           NEW k \in Nat, NEW w \in [1..k -> Live], IsWalk(w, k),
           NEW l \in Nat, NEW v \in [1..l -> Live], IsWalk(v, l)
    PROVE  k <= l /\ \A i \in 1..k : w[i] = v[i]
<1> DEFINE T == {i \in 1..k : i > l \/ w[i] # v[i]}
<1>1. T = {}
  <2> SUFFICES ASSUME T # {} PROVE FALSE
    OBVIOUS
  <2>1. PICK i \in T : \A j \in T : i <= j
    <3>1. T \in SUBSET Nat
      OBVIOUS
    <3> HIDE DEF T
    <3> QED
      BY <3>1, LeastNatural
  <2>2. CASE i = 1
    BY <2>2 DEF IsWalk
  <2>3. CASE i # 1
    <3>1. i - 1 \in 1..k /\ i - 1 \notin T
      BY <2>1, <2>3
    <3>2. i - 1 <= l /\ w[i - 1] = v[i - 1] /\ i - 1 # k
      BY <3>1, <2>1
    <3>3. next[w[i - 1]] = w[i] /\ w[i] \in Live
      BY <3>1, <3>2, <2>1 DEF IsWalk
    <3>4. i - 1 # l /\ next[v[i - 1]] = v[i]
      BY <3>1, <3>2, <3>3 DEF IsWalk
    <3> QED
      BY <3>2, <3>3, <3>4, <2>1
  <2> QED
    BY <2>2, <2>3
<1>2. k <= l
  <2> SUFFICES ASSUME k > l PROVE FALSE
    OBVIOUS
  <2>1. k \in T
    OBVIOUS
  <2> QED
    BY <2>1, <1>1
<1> QED
  BY <1>1, <1>2

(* The walk that Length and Walk choose is the one at hand.                *)
LEMMA WalkIsWalk ==
    ASSUME NULL \notin Live, IsFiniteSet(Live),
           NEW k \in Nat, NEW w \in [1..k -> Live], IsWalk(w, k)
    PROVE  WalkSafe /\ Length = k /\ Walk = w
<1>1. k <= Cardinality(Live)
  <2>1. w \in Injection(1..k, Live)
    BY DEF IsWalk, Injection, IsInjective
  <2>2. Cardinality(1..k) = k
    BY FS_Interval
  <2> QED
    BY <2>1, <2>2, FS_Injection
<1>2. Cardinality(Live) \in Nat
  BY FS_CardinalityType
<1>3. k \in 0..Cardinality(Live) /\ HasWalk(k)
  BY <1>1, <1>2 DEF HasWalk
<1>4. Length \in 0..Cardinality(Live) /\ HasWalk(Length)
  BY <1>3 DEF Length
<1>5. PICK v \in [1..Length -> Live] : IsWalk(v, Length)
  BY <1>4 DEF HasWalk
<1>6. Length = k
  BY <1>4, <1>5, WalksAgree
<1>7. Walk \in [1..k -> Live] /\ IsWalk(Walk, k)
  BY <1>5, <1>6 DEF Walk
<1>8. Walk = w
  BY <1>7, WalksAgree
<1> QED
  BY <1>3, <1>6, <1>8 DEF WalkSafe

-----------------------------------------------------------------------------
(* What each operation makes of the walk.                                  *)

(* The step makes n the first node.                                        *)
LinksBefore(n) ==
    /\ head' = n
    /\ \A m \in Live' : next'[m] = IF m = n THEN head ELSE next[m]

(* After the step, v is a walk over n and then the k nodes of w.           *)
WalksFrom(v, w, k, n) ==
    /\ IsWalk(v, k + 1)'
    /\ v[1] = n /\ \A i \in 2..(k + 1) : v[i] = w[i - 1]

(* A node linked before the first one.                                     *)
LEMMA WalkFromNewHead ==
    ASSUME NULL \notin Live, NEW n, n \notin Live, n # NULL,
           NEW k \in Nat, NEW w \in [1..k -> Live], IsWalk(w, k),
           Live' = Live \cup {n}, LinksBefore(n)
    PROVE  \E v \in [1..(k + 1) -> Live'] : WalksFrom(v, w, k, n)
<1> USE DEF LinksBefore
<1> DEFINE l == k + 1
           v == [i \in 1..l |-> IF i = 1 THEN n ELSE w[i - 1]]
<1>1. v \in [1..l -> Live'] /\ v[1] = n /\ \A i \in 2..l : v[i] = w[i - 1]
  OBVIOUS
<1>2. next'[v[1]] = IF l = 1 THEN NULL ELSE v[2]
  BY <1>1 DEF IsWalk
<1>3. ASSUME NEW i \in 2..l
      PROVE  next'[v[i]] = IF i = l THEN NULL ELSE v[i + 1]
  <2>1. i - 1 \in 1..k /\ v[i] = w[i - 1] /\ w[i - 1] \in Live
    BY <1>1
  <2>2. next[w[i - 1]] = IF i - 1 = k THEN NULL ELSE w[i]
    BY <2>1 DEF IsWalk
  <2> QED
    BY <2>1, <2>2, <1>1
<1>4. \A i, j \in 1..l : v[i] = v[j] => i = j
  BY <1>1 DEF IsWalk
<1>5. ASSUME NEW i \in 1..l
      PROVE  next'[v[i]] = IF i = l THEN NULL ELSE v[i + 1]
  <2>1. CASE i = 1
    BY <2>1, <1>2
  <2>2. CASE i # 1
    <3>1. i \in 2..l
      BY <2>2
    <3> QED
      BY <3>1, <1>3
  <2> QED
    BY <2>1, <2>2
<1>6. IsWalk(v, l)'
  <2>1. head' = IF l = 0 THEN NULL ELSE v[1]
    BY <1>1
  <2> HIDE DEF l, v
  <2> QED
    BY <1>4, <1>5, <2>1 DEF IsWalk
<1> QED
  BY <1>1, <1>6 DEF WalksFrom

(* The step makes n the last node, behind t.                               *)
LinksBehind(n, t) ==
    \A m \in Live' : next'[m] = IF m = t THEN n
                                ELSE IF m = n THEN NULL ELSE next[m]

(* After the step, v is a walk over the first i nodes of w and then n.     *)
WalksOn(v, w, i, n) ==
    /\ IsWalk(v, i + 1)'
    /\ v[i + 1] = n /\ \A j \in 1..i : v[j] = w[j]

(* A node linked behind the i-th one, which ends the walk.                 *)
LEMMA WalkToNewTail ==
    ASSUME NULL \notin Live, NEW n, n \notin Live, n # NULL,
           NEW k \in Nat, NEW w \in [1..k -> Live], IsWalk(w, k),
           NEW i \in 1..k,
           Live' = Live \cup {n}, head' = head,
           LinksBehind(n, w[i])
    PROVE  \E v \in [1..(i + 1) -> Live'] : WalksOn(v, w, i, n)
<1> USE DEF LinksBehind
<1> DEFINE l == i + 1
           v == [j \in 1..l |-> IF j = l THEN n ELSE w[j]]
<1>1. v \in [1..l -> Live'] /\ v[l] = n /\ \A j \in 1..i : v[j] = w[j]
  OBVIOUS
<1>2. ASSUME NEW j \in 1..l
      PROVE  next'[v[j]] = IF j = l THEN NULL ELSE v[j + 1]
  <2>1. CASE j = l
    BY <2>1, <1>1
  <2>2. CASE j = i
    BY <2>2, <1>1
  <2>3. CASE j < i
    <3>1. v[j] = w[j] /\ w[j] # w[i] /\ j \in 1..k /\ w[j] \in Live
      BY <2>3, <1>1 DEF IsWalk
    <3>2. next[w[j]] = w[j + 1]
      BY <2>3, <3>1 DEF IsWalk
    <3> QED
      BY <2>3, <3>1, <3>2, <1>1
  <2> QED
    BY <2>1, <2>2, <2>3
<1>3. \A j, m \in 1..l : v[j] = v[m] => j = m
  BY <1>1 DEF IsWalk
<1>4. head' = v[1]
  BY <1>1 DEF IsWalk
<1>6. IsWalk(v, l)'
  BY <1>1, <1>2, <1>3, <1>4 DEF IsWalk
<1> QED
  BY <1>1, <1>6 DEF WalksOn

(* The i-th node made the last one; the next one, if any, may be freed.    *)
LEMMA WalkCutShort ==
    ASSUME NULL \notin Live,
           NEW k \in Nat, NEW w \in [1..k -> Live], IsWalk(w, k),
           NEW i \in 1..k, head' = head,
           \A j \in 1..i : w[j] \in Live',
           \A m \in Live' : next'[m] = IF m = w[i] THEN NULL ELSE next[m]
    PROVE  \E v \in [1..i -> Live'] :
              /\ IsWalk(v, i)'
              /\ \A j \in 1..i : v[j] = w[j]
<1> DEFINE v == [j \in 1..i |-> w[j]]
<1>1. v \in [1..i -> Live'] /\ \A j \in 1..i : v[j] = w[j]
  OBVIOUS
<1>2. ASSUME NEW j \in 1..i
      PROVE  next'[v[j]] = IF j = i THEN NULL ELSE v[j + 1]
  <2>1. CASE j = i
    BY <2>1, <1>1
  <2>2. CASE j < i
    <3>1. v[j] = w[j] /\ w[j] # w[i] /\ j \in 1..k
      BY <2>2, <1>1 DEF IsWalk
    <3>2. next[w[j]] = w[j + 1]
      BY <2>2, <3>1 DEF IsWalk
    <3> QED
      BY <2>2, <3>1, <3>2, <1>1
  <2> QED
    BY <2>1, <2>2
<1>3. \A j, m \in 1..i : v[j] = v[m] => j = m
  BY <1>1 DEF IsWalk
<1>4. head' = v[1]
  BY <1>1 DEF IsWalk
<1>6. IsWalk(v, i)'
  BY <1>1, <1>2, <1>3, <1>4 DEF IsWalk
<1> QED
  BY <1>1, <1>6

(* The first node taken away.                                              *)
LEMMA WalkWithoutHead ==
    ASSUME NULL \notin Live,
           NEW k \in Nat, NEW w \in [1..k -> Live], IsWalk(w, k), k # 0,
           Live' = Live \ {head}, head' = next[head],
           \A m \in Live' : next'[m] = next[m]
    PROVE  \E v \in [1..(k - 1) -> Live'] :
              /\ IsWalk(v, k - 1)'
              /\ \A i \in 1..(k - 1) : v[i] = w[i + 1]
<1> DEFINE l == k - 1
           v == [i \in 1..l |-> w[i + 1]]
<1>1. w[1] = head /\ next[w[1]] = IF 1 = k THEN NULL ELSE w[2]
  BY DEF IsWalk
<1>2. \A i \in 1..l : v[i] = w[i + 1] /\ i + 1 \in 1..k /\ w[i + 1] \in Live'
  BY <1>1 DEF IsWalk
<1>3. v \in [1..l -> Live']
  BY <1>2
<1>4. \A i \in 1..l : next'[v[i]] = IF i = l THEN NULL ELSE v[i + 1]
  BY <1>2 DEF IsWalk
<1>5. \A i, j \in 1..l : v[i] = v[j] => i = j
  BY <1>2 DEF IsWalk
<1>6. head' = IF l = 0 THEN NULL ELSE v[1]
  BY <1>1
<1>7. IsWalk(v, l)'
  BY <1>3, <1>4, <1>5, <1>6 DEF IsWalk
<1> QED
  BY <1>2, <1>3, <1>7

(* The step frees n, which followed t.                                     *)
Unlinks(n, t) ==
    /\ Live' = Live \ {n} /\ head' = head
    /\ \A m \in Live' : next'[m] = IF m = t THEN next[n] ELSE next[m]

(* The successor of the i-th node taken out.                               *)
LEMMA WalkWithoutNext ==
    ASSUME NULL \notin Live,
           NEW k \in Nat, NEW w \in [1..k -> Live], IsWalk(w, k),
           NEW i \in 1..k, i < k, Unlinks(w[i + 1], w[i])
    PROVE  \E v \in [1..(k - 1) -> Live'] : IsWalk(v, k - 1)'
<1> USE DEF Unlinks
<1> DEFINE l == k - 1
           v == [j \in 1..l |-> IF j <= i THEN w[j] ELSE w[j + 1]]
<1>1. \A j \in 1..l : /\ j <= i => v[j] = w[j]
                      /\ j > i => v[j] = w[j + 1]
  OBVIOUS
<1>2. \A j \in 1..l : v[j] \in Live'
  BY <1>1 DEF IsWalk
<1>3. v \in [1..l -> Live']
  BY <1>2
<1>4. ASSUME NEW j \in 1..l
      PROVE  next'[v[j]] = IF j = l THEN NULL ELSE v[j + 1]
  <2>1. CASE j < i
    <3>1. v[j] = w[j] /\ w[j] # w[i] /\ j \in 1..k
      BY <2>1, <1>1 DEF IsWalk
    <3>2. next[w[j]] = w[j + 1] /\ v[j + 1] = w[j + 1] /\ j # l
      BY <2>1, <1>1 DEF IsWalk
    <3> QED
      BY <3>1, <3>2, <1>2
  <2>2. CASE j = i
    <3>1. next'[v[j]] = next[w[i + 1]]
      BY <2>2, <1>1, <1>2
    <3>2. next[w[i + 1]] = IF i + 1 = k THEN NULL ELSE w[i + 2]
      BY DEF IsWalk
    <3> QED
      BY <2>2, <3>1, <3>2, <1>1
  <2>3. CASE j > i
    <3>1. v[j] = w[j + 1] /\ w[j + 1] # w[i] /\ j + 1 \in 1..k
      BY <2>3, <1>1 DEF IsWalk
    <3>2. next[w[j + 1]] = IF j + 1 = k THEN NULL ELSE w[j + 2]
      BY <2>3, <3>1 DEF IsWalk
    <3>3. next'[v[j]] = next[w[j + 1]]
      BY <3>1, <1>2
    <3>4. j # l => v[j + 1] = w[j + 2]
      BY <2>3, <1>1
    <3> QED
      BY <3>2, <3>3, <3>4
  <2> QED
    BY <2>1, <2>2, <2>3
<1>5. \A j, m \in 1..l : v[j] = v[m] => j = m
  <2> SUFFICES ASSUME NEW j \in 1..l, NEW m \in 1..l, v[j] = v[m] PROVE j = m
    OBVIOUS
  <2> QED
    BY <1>1 DEF IsWalk
<1>6. head' = v[1] /\ l # 0
  BY <1>1 DEF IsWalk
<1>7. IsWalk(v, l)'
  BY <1>3, <1>4, <1>5, <1>6 DEF IsWalk
<1> QED
  BY <1>1, <1>3, <1>7

-----------------------------------------------------------------------------
(* The inductive invariant of Spec.  Types alone are not inductive: the    *)
(* node that remove unlinks is found by a walk.                            *)
ListInv == HeapOK /\ BoundedWalk /\ EmptinessAgrees

(* NULL is no node, and there are finitely many nodes.                     *)
LEMMA Heap == ASSUME HeapOK PROVE NULL \notin Live /\ IsFiniteSet(Live)
  BY NodeAssumption, FS_Subset DEF HeapOK

(* A call that leaves the fields and the heap alone keeps the invariant.   *)
LEMMA SameList ==
    ASSUME ListInv, UNCHANGED <<head, tail, count, next, data>>
    PROVE  BoundedWalk' /\ EmptinessAgrees'
  BY DEF ListInv, BoundedWalk, EmptinessAgrees, HasWalk, IsWalk, Live

(* A call that gives up keeps the invariant.                               *)
LEMMA FailsStep ==
    ASSUME ListInv, NEW a \in Data \cup {NULL},
           NEW op \in {"push", "shift", "pop", "unshift", "remove"}, Fails(op, a)
    PROVE  ListInv'
<1>1. HeapOK'
  BY DEF ListInv, HeapOK, Fails, Returns, Live
<1>2. BoundedWalk' /\ EmptinessAgrees'
  BY SameList DEF Fails
<1> QED
  BY <1>1, <1>2 DEF ListInv

(* A walk of the new list that is short enough.                            *)
LEMMA Bounded ==
    ASSUME NEW k \in 0..count', NEW w \in [1..k -> Live'], IsWalk(w, k)'
    PROVE  BoundedWalk'
  BY DEF BoundedWalk, HasWalk

(* A list without a head has the empty walk.                               *)
LEMMA NewEmptyWalk ==
    ASSUME head' = NULL, count' \in Nat
    PROVE  BoundedWalk'
<1> DEFINE w == [i \in 1..0 |-> NULL]
<1>1. w \in [1..0 -> Live'] /\ IsWalk(w, 0)'
  BY DEF IsWalk
<1>2. 0 \in 0..count'
  OBVIOUS
<1> HIDE DEF w
<1> QED
  BY <1>1, <1>2, Bounded

(* ezi_slist_push() keeps the invariant.                                   *)
LEMMA PushStep ==
    ASSUME ListInv, NEW d \in Data, Push(d)
    PROVE  ListInv'
<1>1. CASE Fails("push", d)
  BY <1>1, FailsStep
<1>2. ASSUME count < MaxCount, NEW n \in Node \ Live, PushNode(n, d)
      PROVE  ListInv'
  <2> USE <1>2
  <2>1. HeapOK'
    <3>1. CASE IsEmpty
      BY <3>1, CountAssumption
      DEF ListInv, HeapOK, PushNode, Allocate, Returns, Live
    <3>2. CASE ~IsEmpty
      BY <3>2, CountAssumption DEF ListInv, HeapOK, PushNode, Returns, Live
    <3> QED
      BY <3>1, <3>2
  <2>2. PICK k \in 0..count : HasWalk(k)
    BY DEF ListInv, BoundedWalk
  <2>3. PICK w \in [1..k -> Live] : IsWalk(w, k)
    BY <2>2 DEF HasWalk
  <2>4. /\ count \in Nat /\ k \in Nat /\ n # NULL /\ NULL \notin Live
        /\ Live' = Live \cup {n}
    BY NodeAssumption, Heap DEF ListInv, HeapOK, PushNode, Allocate, Live
  <2>5. EmptinessAgrees'
    BY <2>4 DEF PushNode, ListInv, EmptinessAgrees
  <2>6. BoundedWalk'
    <3>1. CASE IsEmpty
      <4>1. k = 0 /\ head = NULL
        BY <3>1, <2>3, <2>4 DEF IsEmpty, IsWalk
      <4>2. \A m \in Live' : next'[m] = IF m = n THEN head ELSE next[m]
        BY <3>1, <2>4, <4>1 DEF PushNode, Allocate
      <4>3. head' = n /\ count' = 1
        BY <3>1 DEF PushNode
      <4>4. \E v \in [1..(k + 1) -> Live'] : IsWalk(v, k + 1)'
        <5>1. LinksBefore(n)
          BY <4>2, <4>3 DEF LinksBefore
        <5>2. \E v \in [1..(k + 1) -> Live'] : WalksFrom(v, w, k, n)
          BY <2>3, <2>4, <5>1, WalkFromNewHead
        <5> QED
          BY <5>2 DEF WalksFrom
      <4> QED
        BY <4>1, <4>3, <4>4, Bounded
    <3>2. CASE ~IsEmpty /\ \E i \in 1..k : tail = w[i]
      <4>1. PICK i \in 1..k : tail = w[i]
        BY <3>2
      <4>2. /\ \A m \in Live' : next'[m] = IF m = w[i] THEN n
                                           ELSE IF m = n THEN NULL ELSE next[m]
            /\ head' = head /\ count' = count + 1
        BY <3>2, <2>4, <4>1 DEF PushNode
      <4>3. PICK v \in [1..(i + 1) -> Live'] : IsWalk(v, i + 1)'
        <5>1. LinksBehind(n, w[i])
          BY <4>2 DEF LinksBehind
        <5>2. \E v \in [1..(i + 1) -> Live'] : WalksOn(v, w, i, n)
          BY <2>3, <2>4, <4>2, <5>1, WalkToNewTail
        <5> QED
          BY <5>2 DEF WalksOn
      <4>4. i + 1 \in 0..count'
        BY <2>4, <4>2
      <4> QED
        BY <4>3, <4>4, Bounded
    <3>3. CASE ~IsEmpty /\ \A i \in 1..k : tail # w[i]
      <4>1. \A m \in Live : m # tail => next'[m] = next[m]
        BY <3>3, <2>4 DEF PushNode
      <4>2. head' = head /\ count' = count + 1
        BY <3>3 DEF PushNode
      <4>3. IsWalk(w, k)' /\ w \in [1..k -> Live']
        BY <2>3, <2>4, <3>3, <4>1, <4>2 DEF IsWalk
      <4> QED
        BY <2>4, <4>2, <4>3, Bounded
    <3> QED
      BY <3>1, <3>2, <3>3
  <2> QED
    BY <2>1, <2>5, <2>6 DEF ListInv
<1> QED
  BY <1>1, <1>2 DEF Push

(* ezi_slist_shift() keeps the invariant.                                  *)
LEMMA ShiftStep ==
    ASSUME ListInv, NEW d \in Data, Shift(d)
    PROVE  ListInv'
<1>1. CASE Fails("shift", d)
  BY <1>1, FailsStep
<1>2. ASSUME count < MaxCount, NEW n \in Node \ Live, ShiftNode(n, d)
      PROVE  ListInv'
  <2> USE <1>2
  <2>1. HeapOK'
    BY CountAssumption DEF ListInv, HeapOK, ShiftNode, Allocate, Returns, Live
  <2>2. PICK k \in 0..count : HasWalk(k)
    BY DEF ListInv, BoundedWalk
  <2>3. PICK w \in [1..k -> Live] : IsWalk(w, k)
    BY <2>2 DEF HasWalk
  <2>4. /\ count \in Nat /\ k \in Nat /\ n # NULL /\ NULL \notin Live
        /\ Live' = Live \cup {n}
    BY NodeAssumption, Heap DEF ListInv, HeapOK, ShiftNode, Allocate, Live
  <2>5. \E v \in [1..(k + 1) -> Live'] : IsWalk(v, k + 1)'
    <3>1. LinksBefore(n)
      BY <2>4 DEF ShiftNode, Allocate, LinksBefore
    <3>2. \E v \in [1..(k + 1) -> Live'] : WalksFrom(v, w, k, n)
      BY <2>3, <2>4, <3>1, WalkFromNewHead
    <3> QED
      BY <3>2 DEF WalksFrom
  <2>6. EmptinessAgrees'
    BY <2>4 DEF ShiftNode, ListInv, EmptinessAgrees, IsEmpty
  <2>7. k + 1 \in 0..count'
    BY <2>4 DEF ShiftNode, ListInv, EmptinessAgrees, IsEmpty
  <2>8. BoundedWalk'
    BY <2>5, <2>7, Bounded
  <2> QED
    BY <2>1, <2>6, <2>8 DEF ListInv
<1> QED
  BY <1>1, <1>2 DEF Shift

(* ezi_slist_unshift() keeps the invariant, also inside remove.            *)
LEMMA UnshiftStep ==
    ASSUME ListInv, NEW op \in {"unshift", "remove"}, NEW a \in Data \cup {NULL},
           UnshiftAs(op, a)
    PROVE  ListInv'
<1>1. CASE Fails(op, a)
  BY <1>1, FailsStep
<1>2. CASE /\ count > 0 /\ head \in Live
           /\ count' = count - 1
           /\ head' = IF count = 1 THEN NULL ELSE next[head]
           /\ tail' = IF count = 1 THEN NULL ELSE tail
           /\ Release(head, NULL, NULL)
           /\ Returns(op, a, data[head])
  <2> USE <1>2
  <2>1. PICK k \in 0..count : HasWalk(k)
    BY DEF ListInv, BoundedWalk
  <2>2. PICK w \in [1..k -> Live] : IsWalk(w, k)
    BY <2>1 DEF HasWalk
  <2>3. /\ count \in Nat /\ k \in Nat /\ NULL \notin Live /\ head # NULL
        /\ Live' = Live \ {head}
    BY Heap DEF ListInv, HeapOK, Release, Live
  <2>4. \A m \in Live' : next'[m] = next[m]
    BY <2>3 DEF Release, Live
  <2>5. HeapOK'
    <3>1. head' \in Node \cup {NULL} /\ tail' \in Node \cup {NULL}
      BY DEF ListInv, HeapOK, Live
    <3>2. count' \in 0..MaxCount
      BY CountAssumption DEF ListInv, HeapOK
    <3>3. /\ Live' \in SUBSET Node
          /\ next' \in [Live' -> Node \cup {NULL}]
          /\ data' \in [Live' -> Data]
      BY <2>3 DEF ListInv, HeapOK, Release, Live
    <3>4. defined' \in BOOLEAN /\ data[head] \in Data
      BY DEF ListInv, HeapOK, Returns, Live
    <3> QED
      BY <3>1, <3>2, <3>3, <3>4 DEF HeapOK, Returns
  <2>6. EmptinessAgrees'
    BY <2>3 DEF ListInv, EmptinessAgrees
  <2>7. BoundedWalk'
    <3>1. CASE count = 1
      <4>1. head' = NULL
        BY <3>1
      <4> QED
        BY <2>3, <4>1, NewEmptyWalk
    <3>2. CASE count # 1
      <4>1. k # 0 /\ head' = next[head]
        BY <2>2, <2>3, <3>2 DEF IsWalk
      <4>2. \E v \in [1..(k - 1) -> Live'] : IsWalk(v, k - 1)'
        BY <2>2, <2>3, <2>4, <4>1, WalkWithoutHead
      <4>3. k - 1 \in 0..count'
        BY <2>3, <4>1
      <4> QED
        BY <4>2, <4>3, Bounded
    <3> QED
      BY <3>1, <3>2
  <2> QED
    BY <2>5, <2>6, <2>7 DEF ListInv
<1> QED
  BY <1>1, <1>2 DEF UnshiftAs

(* ezi_slist_pop() keeps the invariant, also inside remove.                *)
LEMMA PopStep ==
    ASSUME ListInv, NEW op \in {"pop", "remove"}, NEW a \in Data \cup {NULL},
           PopAs(op, a)
    PROVE  ListInv'
<1>1. CASE Fails(op, a)
  BY <1>1, FailsStep
<1>2. ASSUME count > 1, tail \in Live,
             NEW i \in 1..Length, BeforeTail(Walk[i]), tail' = Walk[i],
             Release(tail, Walk[i], NULL),
             Returns(op, a, data[tail]), UNCHANGED <<head, count>>
      PROVE  ListInv'
  <2> USE <1>2
  <2>1. PICK k \in 0..count : HasWalk(k)
    BY DEF ListInv, BoundedWalk
  <2>2. PICK w \in [1..k -> Live] : IsWalk(w, k)
    BY <2>1 DEF HasWalk
  <2>3. /\ count \in Nat /\ k \in Nat /\ NULL \notin Live
        /\ Live' = Live \ {tail}
    BY Heap DEF ListInv, HeapOK, Release, Live
  <2>4. i \in 1..k /\ Walk = w /\ w[i] \in Live
    BY <2>2, <2>3, Heap, WalkIsWalk DEF ListInv
  <2>5. next[w[i]] = tail /\ i # k /\ w[i + 1] = tail
    BY <2>2, <2>3, <2>4 DEF BeforeTail, IsWalk
  <2>6. \A m \in Live' : next'[m] = IF m = w[i] THEN NULL ELSE next[m]
    BY <2>3, <2>4 DEF Release, Live
  <2>7. \A j \in 1..i : w[j] \in Live'
    BY <2>2, <2>3, <2>4, <2>5 DEF IsWalk
  <2>8. HeapOK'
    BY <2>3, <2>4, <2>6 DEF ListInv, HeapOK, Release, Returns, Live
  <2>9. EmptinessAgrees'
    BY <2>3, <2>4 DEF ListInv, EmptinessAgrees
  <2>10. BoundedWalk'
    <3>1. \E v \in [1..i -> Live'] : IsWalk(v, i)'
      BY <2>2, <2>3, <2>4, <2>6, <2>7, WalkCutShort
    <3>2. i \in 0..count'
      BY <2>3, <2>4
    <3> QED
      BY <3>1, <3>2, Bounded
  <2> QED
    BY <2>8, <2>9, <2>10 DEF ListInv
<1>3. CASE /\ count = 1 /\ tail \in Live
           /\ head' = NULL /\ tail' = NULL /\ count' = 0
           /\ Release(tail, NULL, NULL)
           /\ Returns(op, a, data[tail])
  <2> USE <1>3
  <2>1. Live' = Live \ {tail} /\ NULL \notin Live
    BY Heap DEF ListInv, Release, Live
  <2>2. HeapOK'
    BY <2>1, CountAssumption DEF ListInv, HeapOK, Release, Returns, Live
  <2>3. BoundedWalk' /\ EmptinessAgrees'
    BY NewEmptyWalk DEF EmptinessAgrees
  <2> QED
    BY <2>2, <2>3 DEF ListInv
<1> QED
  BY <1>1, <1>2, <1>3 DEF PopAs

(* ezi_slist_remove() keeps the invariant, also where it takes the         *)
(* successor of the item it looks for.                                     *)
LEMMA RemoveStep ==
    ASSUME ListInv, NEW d \in Data, Remove(d)
    PROVE  ListInv'
<1>1. CASE Fails("remove", d)
  BY <1>1, FailsStep
<1>2. CASE UnshiftAs("remove", d)
  BY <1>2, UnshiftStep
<1>3. CASE PopAs("remove", d)
  BY <1>3, PopStep
<1>4. ASSUME NEW i \in 1..Length, i < Length, tail \in Live,
             Release(Walk[i + 1], Walk[i], next[Walk[i + 1]]),
             Returns("remove", d, data[Walk[i + 1]]),
             count' = count - 1, UNCHANGED <<head, tail>>
      PROVE  ListInv'
  <2> USE <1>4
  <2>1. PICK k \in 0..count : HasWalk(k)
    BY DEF ListInv, BoundedWalk
  <2>2. PICK w \in [1..k -> Live] : IsWalk(w, k)
    BY <2>1 DEF HasWalk
  <2>3. count \in Nat /\ k \in Nat /\ NULL \notin Live
    BY Heap DEF ListInv, HeapOK
  <2>4. Length = k /\ Walk = w
    BY <2>2, <2>3, Heap, WalkIsWalk DEF ListInv
  <2>5. i \in 1..k /\ i < k /\ w[i] \in Live /\ w[i + 1] \in Live
    BY <2>2, <2>3, <2>4
  <2>6. /\ Live' = Live \ {w[i + 1]}
        /\ \A m \in Live' :
              next'[m] = IF m = w[i] THEN next[w[i + 1]] ELSE next[m]
    BY <2>4 DEF Release, Live
  <2>7. HeapOK'
    <3>1. count' \in 0..MaxCount
      BY <2>3, <2>5, CountAssumption DEF ListInv, HeapOK
    <3>2. /\ Live' \in SUBSET Node
          /\ next' \in [Live' -> Node \cup {NULL}]
          /\ data' \in [Live' -> Data]
      BY <2>4, <2>5, <2>6 DEF ListInv, HeapOK, Release, Live
    <3>3. defined' \in BOOLEAN /\ data[Walk[i + 1]] \in Data
      BY <2>4, <2>5 DEF ListInv, HeapOK, Returns, Live
    <3>4. call' \in [op : {"init", "push", "pop", "shift", "unshift", "remove", "clear"},
                     arg : Data \cup {NULL}, ret : Data \cup {NULL}]
      BY <3>3 DEF Returns
    <3>5. head' \in Node \cup {NULL} /\ tail' \in Node \cup {NULL}
      BY DEF ListInv, HeapOK
    <3> QED
      BY <3>1, <3>2, <3>3, <3>4, <3>5 DEF HeapOK
  <2>8. EmptinessAgrees'
    BY <2>3, <2>5 DEF ListInv, EmptinessAgrees
  <2>9. BoundedWalk'
    <3>1. \E v \in [1..(k - 1) -> Live'] : IsWalk(v, k - 1)'
      <4>1. Unlinks(w[i + 1], w[i])
        BY <2>6 DEF Unlinks
      <4> QED
        BY <2>2, <2>3, <2>5, <4>1, WalkWithoutNext
    <3>2. k - 1 \in 0..count'
      BY <2>3, <2>5
    <3> QED
      BY <3>1, <3>2, Bounded
  <2> QED
    BY <2>7, <2>8, <2>9 DEF ListInv
<1> QED
  BY <1>1, <1>2, <1>3, <1>4 DEF Remove, RemoveInside

(* ezi_slist_clear() keeps the invariant.                                  *)
LEMMA ClearStep ==
    ASSUME ListInv, Clear
    PROVE  ListInv'
<1>1. Live' = Live \ {Walk[i] : i \in 1..Length}
  BY DEF Clear, Live
<1>2. /\ next' = [m \in Live' |-> next[m]]
      /\ data' = [m \in Live' |-> data[m]]
  BY <1>1 DEF Clear
<1>3. HeapOK'
  BY <1>1, <1>2, CountAssumption DEF ListInv, HeapOK, Clear, Returns, Live
<1>4. BoundedWalk' /\ EmptinessAgrees'
  BY NewEmptyWalk DEF Clear, EmptinessAgrees
<1> QED
  BY <1>3, <1>4 DEF ListInv

(* The end of a behaviour by undefined behaviour keeps the invariant.      *)
LEMMA UndefinedStep ==
    ASSUME ListInv, Undefined
    PROVE  ListInv'
<1>1. HeapOK'
  BY DEF ListInv, HeapOK, Undefined, Live
<1>2. BoundedWalk' /\ EmptinessAgrees'
  BY SameList DEF Undefined
<1> QED
  BY <1>1, <1>2 DEF ListInv

(* An empty list satisfies the invariant.                                  *)
LEMMA InitStep == Init => ListInv
<1> SUFFICES ASSUME Init PROVE ListInv
  OBVIOUS
<1>1. Live = {}
  BY DEF Init, Live
<1>2. HeapOK
  BY <1>1, CountAssumption DEF Init, HeapOK
<1>3. EmptinessAgrees
  BY DEF Init, EmptinessAgrees
<1>4. BoundedWalk
  <2> DEFINE w == [i \in 1..0 |-> NULL]
  <2>1. w \in [1..0 -> Live] /\ IsWalk(w, 0) /\ 0 \in 0..count
    BY DEF IsWalk, Init
  <2> HIDE DEF w
  <2> QED
    BY <2>1 DEF BoundedWalk, HasWalk
<1> QED
  BY <1>2, <1>3, <1>4 DEF ListInv

(* Every call keeps the invariant.                                         *)
LEMMA NextStep == ListInv /\ [Next]_vars => ListInv'
<1> SUFFICES ASSUME ListInv, [Next]_vars PROVE ListInv'
  OBVIOUS
<1>1. ASSUME NEW d \in Data, Push(d) PROVE ListInv'
  BY <1>1, PushStep
<1>2. ASSUME NEW d \in Data, Shift(d) PROVE ListInv'
  BY <1>2, ShiftStep
<1>3. ASSUME NEW d \in Data, Remove(d) PROVE ListInv'
  BY <1>3, RemoveStep
<1>4. CASE Pop
  BY <1>4, PopStep DEF Pop
<1>5. CASE Unshift
  BY <1>5, UnshiftStep DEF Unshift
<1>6. CASE Clear
  BY <1>6, ClearStep
<1>7. CASE Undefined
  BY <1>7, UndefinedStep
<1>8. CASE UNCHANGED vars
  <2>1. HeapOK'
    BY <1>8 DEF ListInv, HeapOK, vars, Live
  <2>2. BoundedWalk' /\ EmptinessAgrees'
    BY <1>8, SameList DEF vars
  <2> QED
    BY <2>1, <2>2 DEF ListInv
<1> QED
  BY <1>1, <1>2, <1>3, <1>4, <1>5, <1>6, <1>7, <1>8 DEF Next

(* The inductive invariant of a list under any calls.                      *)
THEOREM ListInvariant == Spec => []ListInv
  BY InitStep, NextStep, PTL DEF Spec

(* The fields, the heap and the recorded call keep their types.            *)
THEOREM TypeCorrect == Spec => []TypeOK
<1> DEFINE Noted == orderly \in BOOLEAN
<1>1. Init => Noted
  BY DEF Init
<1>2. Noted /\ [Next]_vars => Noted'
  BY DEF Next, vars
<1>3. ListInv /\ Noted => TypeOK
  BY DEF ListInv, TypeOK
<1> HIDE DEF Noted
<1> QED
  BY ListInvariant, <1>1, <1>2, <1>3, PTL DEF Spec

(* Whatever is called, a walk of a list of ds_slist.c meets allocated      *)
(* nodes only and ends after at most count of them.                        *)
THEOREM WalksAreBounded == Spec => []BoundedWalk
  BY ListInvariant, PTL DEF ListInv

(* The code's three tests for an empty list agree after any calls.         *)
THEOREM EmptinessIsAgreed == Spec => []EmptinessAgrees
  BY ListInvariant, PTL DEF ListInv

-----------------------------------------------------------------------------
(* The safe calls.  What they keep besides ListInv is that the walk has    *)
(* count nodes, reaches every allocated node and ends at tail.             *)
SafePop       == PopIsSafe /\ Pop
SafeRemove(d) == RemoveIsSafe(d) /\ Remove(d)

(* The shape without SLIST_VALID, which follows from it.                   *)
Shape(w) ==
    /\ w \in [1..count -> Live]
    /\ IsWalk(w, count)
    /\ tail = IF count = 0 THEN NULL ELSE w[count]
    /\ Live = {w[i] : i \in 1..count}

(* A walk that has the shape puts the list in shape.                       *)
LEMMA ShapeSuffices ==
    ASSUME HeapOK, NEW w, Shape(w)
    PROVE  WellFormed
<1>1. NULL \notin Live /\ count \in Nat
  BY Heap DEF HeapOK
<1>2. count # 0 => head # NULL /\ tail # NULL
  BY <1>1 DEF Shape, IsWalk
<1>3. count = 0 => head = NULL /\ tail = NULL
  BY DEF Shape, IsWalk
<1>4. SLIST_VALID
  BY <1>1, <1>2, <1>3 DEF SLIST_VALID
<1> QED
  BY <1>4 DEF WellFormed, Shape

(* The same after a step.                                                  *)
LEMMA ShapeSufficesNext ==
    ASSUME HeapOK', NEW w, Shape(w)'
    PROVE  WellFormed'
<1>1. NULL \notin Live' /\ count' \in Nat
  BY NodeAssumption DEF HeapOK
<1>2. count' # 0 => head' # NULL /\ tail' # NULL
  BY <1>1 DEF Shape, IsWalk
<1>3. count' = 0 => head' = NULL /\ tail' = NULL
  BY DEF Shape, IsWalk
<1>4. SLIST_VALID'
  BY <1>1, <1>2, <1>3 DEF SLIST_VALID
<1> QED
  BY <1>4 DEF WellFormed, Shape

(* A list that is emptied is in shape.                                     *)
LEMMA NewEmptyShape ==
    ASSUME HeapOK', head' = NULL, tail' = NULL, count' = 0, Live' = {}
    PROVE  WellFormed'
<1> DEFINE w == [i \in 1..0 |-> NULL]
<1>1. Shape(w)'
  BY DEF Shape, IsWalk
<1> HIDE DEF w
<1> QED
  BY <1>1, ShapeSufficesNext

(* A call that leaves the fields and the heap alone keeps the shape.       *)
LEMMA SameShape ==
    ASSUME ListInv', WellFormed, UNCHANGED <<head, tail, count, next, data>>
    PROVE  WellFormed'
<1>1. PICK w : Shape(w)
  BY DEF WellFormed, Shape
<1>2. Live' = Live
  BY DEF Live
<1>3. Shape(w)'
  BY <1>1, <1>2 DEF Shape, IsWalk
<1> QED
  BY <1>3, ShapeSufficesNext DEF ListInv

(* A list in shape has only the walk that shows it.                        *)
LEMMA ShapeIsWalk ==
    ASSUME HeapOK, NEW w, Shape(w)
    PROVE  /\ WalkSafe /\ Length = count /\ Walk = w
           /\ count \in Nat /\ NULL \notin Live
<1>1. count \in Nat /\ IsFiniteSet(Live) /\ NULL \notin Live
  BY Heap DEF HeapOK
<1>2. w \in [1..count -> Live] /\ IsWalk(w, count)
  BY DEF Shape
<1> QED
  BY <1>1, <1>2, WalkIsWalk

(* How the walk v of the new list follows from the walk w of the old one:  *)
(* node n is the new last one, or the new first one, or the first one is   *)
(* gone.                                                                   *)
Pushed(w, v, n) ==
    /\ Shape(w) /\ Shape(v)' /\ count' = count + 1
    /\ v[count + 1] = n /\ \A j \in 1..count : v[j] = w[j]

Shifted(w, v, n) ==
    /\ Shape(w) /\ Shape(v)' /\ count' = count + 1
    /\ v[1] = n /\ \A j \in 1..count : v[j + 1] = w[j]

Unshifted(w, v) ==
    /\ Shape(w) /\ Shape(v)' /\ count # 0 /\ count' = count - 1
    /\ \A j \in 1..(count - 1) : v[j] = w[j + 1]

(* A node that ezi_slist_push() links is the new last one.                 *)
LEMMA PushedWalk ==
    ASSUME ListInv, ListInv', WellFormed, NEW d \in Data,
           NEW n \in Node \ Live, PushNode(n, d)
    PROVE  \E w, v : Pushed(w, v, n)
<1>0. PICK k \in Nat : k = count
  BY DEF ListInv, HeapOK
<1>1. PICK w : Shape(w)
  BY DEF WellFormed, Shape
<1>2. /\ n # NULL /\ NULL \notin Live /\ HeapOK'
      /\ Live' = Live \cup {n}
  BY NodeAssumption, Heap DEF ListInv, PushNode, Allocate, Live
<1>3. w \in [1..k -> Live] /\ IsWalk(w, k)
  BY <1>0, <1>1 DEF Shape
<1>4. CASE IsEmpty
  <2>1. k = 0 /\ Live = {} /\ head = NULL
    BY <1>0, <1>1, <1>2, <1>4 DEF IsEmpty, Shape
  <2>2. /\ \A m \in Live' : next'[m] = IF m = n THEN head ELSE next[m]
        /\ head' = n /\ tail' = n /\ count' = 1
    BY <1>2, <1>4, <2>1 DEF PushNode, Allocate
  <2>3. PICK v \in [1..(k + 1) -> Live'] : IsWalk(v, k + 1)' /\ v[1] = n
    <3>1. LinksBefore(n)
      BY <2>2 DEF LinksBefore
    <3>2. \E v \in [1..(k + 1) -> Live'] : WalksFrom(v, w, k, n)
      BY <1>2, <1>3, <3>1, WalkFromNewHead
    <3> QED
      BY <3>2 DEF WalksFrom
  <2>4. Shape(v)'
    BY <1>2, <2>1, <2>2, <2>3 DEF Shape, IsWalk
  <2>5. count' = count + 1 /\ v[count + 1] = n /\ \A j \in 1..count : v[j] = w[j]
    BY <1>0, <2>1, <2>2, <2>3
  <2> QED
    BY <1>1, <2>4, <2>5 DEF Pushed
<1>5. CASE ~IsEmpty
  <2>0. PICK i \in 1..k : i = k
    BY <1>0, <1>1, <1>2, <1>5 DEF IsEmpty, Shape, IsWalk
  <2>1. tail = w[i]
    BY <2>0, <1>0, <1>1 DEF Shape
  <2>2. /\ \A m \in Live' : next'[m] = IF m = w[i] THEN n
                                       ELSE IF m = n THEN NULL ELSE next[m]
        /\ head' = head
    BY <1>2, <1>5, <2>1 DEF PushNode
  <2>3. PICK v \in [1..(i + 1) -> Live'] :
           /\ IsWalk(v, i + 1)'
           /\ v[i + 1] = n /\ \A j \in 1..i : v[j] = w[j]
    <3>1. NULL \notin Live /\ n \notin Live /\ n # NULL
      BY <1>2
    <3>2. Live' = Live \cup {n}
      BY <1>2
    <3>3. LinksBehind(n, w[i])
      BY <2>2 DEF LinksBehind
    <3>4. \E u \in [1..(i + 1) -> Live'] : WalksOn(u, w, i, n)
      BY <1>3, <2>2, <3>1, <3>2, <3>3, WalkToNewTail
    <3> QED
      BY <3>4 DEF WalksOn
  <2>4. Live' = {v[j] : j \in 1..(i + 1)}
    <3>1. \A j \in 1..i : j \in 1..(i + 1) /\ v[j] = w[j]
      BY <2>3
    <3>2. Live = {w[j] : j \in 1..i}
      BY <1>0, <1>1, <2>0 DEF Shape
    <3>3. \A m \in Live' : \E j \in 1..(i + 1) : v[j] = m
      BY <1>2, <2>3, <3>1, <3>2
    <3> QED
      BY <2>3, <3>3
  <2>5. tail' = n /\ count' = k + 1
    BY <1>0, <1>5 DEF PushNode
  <2>6. Shape(v)'
    BY <2>0, <2>3, <2>4, <2>5 DEF Shape
  <2>7. count' = count + 1 /\ v[count + 1] = n /\ \A j \in 1..count : v[j] = w[j]
    BY <1>0, <2>0, <2>3, <2>5
  <2> QED
    BY <1>1, <2>6, <2>7 DEF Pushed
<1> QED
  BY <1>4, <1>5

(* ezi_slist_push() keeps a list in shape.                                 *)
LEMMA SafePushStep ==
    ASSUME ListInv, ListInv', WellFormed, NEW d \in Data, Push(d)
    PROVE  WellFormed'
<1>1. CASE Fails("push", d)
  BY <1>1, SameShape DEF Fails
<1>2. ASSUME NEW n \in Node \ Live, PushNode(n, d)
      PROVE  WellFormed'
  BY <1>2, PushedWalk, ShapeSufficesNext DEF Pushed, ListInv
<1> QED
  BY <1>1, <1>2 DEF Push

(* A node that ezi_slist_shift() links is the new first one.               *)
LEMMA ShiftedWalk ==
    ASSUME ListInv, ListInv', WellFormed, NEW d \in Data,
           NEW n \in Node \ Live, ShiftNode(n, d)
    PROVE  \E w, v : Shifted(w, v, n)
<1>0. PICK k \in Nat : k = count
  BY DEF ListInv, HeapOK
<1>1. PICK w : Shape(w)
  BY DEF WellFormed, Shape
<1>2. /\ n # NULL /\ NULL \notin Live /\ HeapOK'
      /\ Live' = Live \cup {n}
  BY NodeAssumption, Heap DEF ListInv, ShiftNode, Allocate, Live
<1>3. w \in [1..k -> Live] /\ IsWalk(w, k)
  BY <1>0, <1>1 DEF Shape
<1>4. IsEmpty <=> k = 0
  BY <1>0, <1>1, <1>2, <1>3 DEF IsEmpty, Shape, IsWalk
<1>5. /\ \A m \in Live' : next'[m] = IF m = n THEN head ELSE next[m]
      /\ head' = n /\ count' = k + 1
      /\ tail' = IF k = 0 THEN n ELSE w[k]
  BY <1>0, <1>1, <1>2, <1>4 DEF ShiftNode, Allocate, Shape
<1>6. PICK v \in [1..(k + 1) -> Live'] :
         /\ IsWalk(v, k + 1)'
         /\ v[1] = n /\ \A i \in 2..(k + 1) : v[i] = w[i - 1]
  <2>1. LinksBefore(n)
    BY <1>5 DEF LinksBefore
  <2>2. \E v \in [1..(k + 1) -> Live'] : WalksFrom(v, w, k, n)
    BY <1>2, <1>3, <2>1, WalkFromNewHead
  <2> QED
    BY <2>2 DEF WalksFrom
<1>7. Live' = {v[i] : i \in 1..(k + 1)}
  <2>1. \A m \in Live' : \E i \in 1..(k + 1) : v[i] = m
    <3> SUFFICES ASSUME NEW m \in Live' PROVE \E i \in 1..(k + 1) : v[i] = m
      OBVIOUS
    <3>1. CASE m = n
      BY <3>1, <1>6
    <3>2. CASE m \in Live
      <4>1. PICK j \in 1..k : w[j] = m
        BY <3>2, <1>0, <1>1 DEF Shape
      <4>2. j + 1 \in 2..(k + 1) /\ v[j + 1] = w[j]
        BY <1>6
      <4> QED
        BY <4>1, <4>2
    <3> QED
      BY <3>1, <3>2, <1>2
  <2> QED
    BY <1>6, <2>1
<1>8. tail' = v[k + 1]
  <2>1. k # 0 => k + 1 \in 2..(k + 1) /\ v[k + 1] = w[k]
    BY <1>6
  <2> QED
    BY <1>5, <1>6, <2>1
<1>9. Shape(v)'
  BY <1>5, <1>6, <1>7, <1>8 DEF Shape
<1>10. \A j \in 1..k : v[j + 1] = w[j]
  <2>1. \A j \in 1..k : j + 1 \in 2..(k + 1) /\ (j + 1) - 1 = j
    OBVIOUS
  <2> QED
    BY <1>6, <2>1
<1> QED
  BY <1>0, <1>1, <1>5, <1>6, <1>9, <1>10 DEF Shifted

(* ezi_slist_shift() keeps a list in shape.                                *)
LEMMA SafeShiftStep ==
    ASSUME ListInv, ListInv', WellFormed, NEW d \in Data, Shift(d)
    PROVE  WellFormed'
<1>1. CASE Fails("shift", d)
  BY <1>1, SameShape DEF Fails
<1>2. ASSUME NEW n \in Node \ Live, ShiftNode(n, d)
      PROVE  WellFormed'
  BY <1>2, ShiftedWalk, ShapeSufficesNext DEF Shifted, ListInv
<1> QED
  BY <1>1, <1>2 DEF Shift

(* The step of ezi_slist_unshift() that takes an item.                     *)
TakesFirst ==
    /\ count > 0 /\ head \in Live
    /\ count' = count - 1
    /\ head' = IF count = 1 THEN NULL ELSE next[head]
    /\ tail' = IF count = 1 THEN NULL ELSE tail
    /\ Release(head, NULL, NULL)

(* A node that ezi_slist_unshift() takes is the first one.                 *)
LEMMA UnshiftedWalk ==
    ASSUME ListInv, ListInv', WellFormed, TakesFirst
    PROVE  \E w, v : Unshifted(w, v)
<1> USE DEF TakesFirst
<1>0. PICK k \in Nat : k = count
  BY DEF ListInv, HeapOK
<1>1. PICK w : Shape(w)
  BY DEF WellFormed, Shape
<1>2. /\ NULL \notin Live /\ HeapOK' /\ k # 0
      /\ Live' = Live \ {head}
      /\ \A m \in Live' : next'[m] = next[m]
  BY <1>0, Heap DEF ListInv, Release, Live
<1>3. /\ w \in [1..k -> Live] /\ IsWalk(w, k) /\ head = w[1]
      /\ next[w[1]] = IF k = 1 THEN NULL ELSE w[2]
  BY <1>0, <1>1, <1>2 DEF Shape, IsWalk
<1>4. CASE k = 1
  <2>1. Live' = {}
    BY <1>0, <1>1, <1>2, <1>3, <1>4 DEF Shape
  <2>2. WellFormed'
    BY <1>0, <1>2, <1>4, <2>1, NewEmptyShape
  <2>3. PICK v : Shape(v)'
    BY <2>2 DEF WellFormed, Shape
  <2>4. count # 0 /\ count' = count - 1 /\ \A j \in 1..(count - 1) : v[j] = w[j + 1]
    BY <1>0, <1>4
  <2> QED
    BY <1>1, <2>3, <2>4 DEF Unshifted
<1>5. CASE k # 1
  <2>1. head' = next[head] /\ tail' = w[k] /\ count' = k - 1
    BY <1>0, <1>1, <1>2, <1>5 DEF Shape
  <2>2. PICK v \in [1..(k - 1) -> Live'] :
           IsWalk(v, k - 1)' /\ \A i \in 1..(k - 1) : v[i] = w[i + 1]
    BY <1>2, <1>3, <2>1, WalkWithoutHead
  <2>3. Live' = {v[i] : i \in 1..(k - 1)}
    <3>1. \A m \in Live' : \E i \in 1..(k - 1) : v[i] = m
      <4> SUFFICES ASSUME NEW m \in Live' PROVE \E i \in 1..(k - 1) : v[i] = m
        OBVIOUS
      <4>1. PICK j \in 1..k : w[j] = m
        BY <1>0, <1>1, <1>2 DEF Shape
      <4>2. j - 1 \in 1..(k - 1)
        BY <1>2, <1>3, <4>1
      <4>3. v[j - 1] = w[j]
        BY <2>2, <4>2
      <4> QED
        BY <4>1, <4>2, <4>3
    <3> QED
      BY <2>2, <3>1
  <2>4. Shape(v)'
    BY <1>2, <1>5, <2>1, <2>2, <2>3 DEF Shape
  <2>5. count # 0 /\ count' = count - 1 /\ \A j \in 1..(count - 1) : v[j] = w[j + 1]
    BY <1>0, <1>2, <2>1, <2>2
  <2> QED
    BY <1>1, <2>4, <2>5 DEF Unshifted
<1> QED
  BY <1>4, <1>5

(* ezi_slist_unshift() keeps a list in shape.                              *)
LEMMA SafeUnshiftStep ==
    ASSUME ListInv, ListInv', WellFormed, NEW op, NEW a, UnshiftAs(op, a)
    PROVE  WellFormed'
<1>1. CASE Fails(op, a)
  BY <1>1, SameShape DEF Fails
<1>2. CASE TakesFirst
  BY <1>2, UnshiftedWalk, ShapeSufficesNext DEF Unshifted, ListInv
<1> QED
  BY <1>1, <1>2 DEF UnshiftAs, TakesFirst

(* ezi_slist_pop() of the only item keeps a list in shape.                 *)
LEMMA SafePopStep ==
    ASSUME ListInv, ListInv', WellFormed, SafePop
    PROVE  WellFormed'
<1>1. CASE Fails("pop", NULL)
  BY <1>1, SameShape DEF Fails
<1>2. CASE /\ count = 1 /\ tail \in Live
           /\ head' = NULL /\ tail' = NULL /\ count' = 0
           /\ Release(tail, NULL, NULL)
  <2> USE <1>2
  <2>1. PICK w : Shape(w)
    BY DEF WellFormed, Shape
  <2>2. Live = {w[1]} /\ tail = w[1]
    BY <2>1 DEF Shape
  <2>3. Live' = {}
    BY <2>2 DEF Release, Live
  <2> QED
    BY <2>3, NewEmptyShape DEF ListInv
<1>3. count \in Nat
  BY DEF ListInv, HeapOK
<1> QED
  BY <1>1, <1>2, <1>3 DEF SafePop, PopIsSafe, Pop, PopAs

(* Taken at the head, or not at all.                                       *)
LEMMA SafeRemoveStep ==
    ASSUME ListInv, ListInv', WellFormed, NEW d \in Data, SafeRemove(d)
    PROVE  WellFormed'
<1>1. PICK w : Shape(w)
  BY DEF WellFormed, Shape
<1>2. Length = count /\ Walk = w /\ count \in Nat
  BY <1>1, ShapeIsWalk DEF ListInv
<1>3. CASE head \in Live /\ data[head] = d
  <2>1. UnshiftAs("remove", d) \/ Fails("remove", d)
    BY <1>3 DEF SafeRemove, Remove
  <2>2. CASE UnshiftAs("remove", d)
    BY <2>2, SafeUnshiftStep
  <2>3. CASE Fails("remove", d)
    BY <2>3, SameShape DEF Fails
  <2> QED
    BY <2>1, <2>2, <2>3
<1>4. CASE \A i \in 1..count : data[w[i]] # d
  <2>1. count > 0 => /\ head = w[1] /\ tail = w[count]
                     /\ 1 \in 1..count /\ count \in 1..count
    BY <1>1, <1>2 DEF Shape, IsWalk
  <2>2. count > 0 => data[head] # d /\ data[tail] # d
    BY <1>4, <2>1
  <2>3. Fails("remove", d)
    BY <1>2, <1>4, <2>2 DEF SafeRemove, Remove, RemoveInside, FirstMatch
  <2> QED
    BY <2>3, SameShape DEF Fails
<1> QED
  BY <1>2, <1>3, <1>4 DEF SafeRemove, RemoveIsSafe

(* ezi_slist_clear() leaves a list in shape.                               *)
LEMMA SafeClearStep ==
    ASSUME ListInv, ListInv', WellFormed, Clear
    PROVE  WellFormed'
<1>1. PICK w : Shape(w)
  BY DEF WellFormed, Shape
<1>2. Length = count /\ Walk = w
  BY <1>1, ShapeIsWalk DEF ListInv
<1>3. Live' = {}
  BY <1>1, <1>2 DEF Clear, Live, Shape
<1> QED
  BY <1>3, NewEmptyShape DEF Clear, ListInv

(* Every safe call keeps a list in shape.                                  *)
LEMMA SafeNextStep == ListInv /\ ListInv' /\ InShape /\ [Next]_vars => InShape'
<1> SUFFICES ASSUME ListInv, ListInv', orderly => WellFormed, [Next]_vars, orderly'
             PROVE  WellFormed'
  BY DEF InShape
<1>1. ASSUME NEW d \in Data, Push(d), UNCHANGED orderly PROVE WellFormed'
  BY <1>1, SafePushStep
<1>2. ASSUME NEW d \in Data, Shift(d), UNCHANGED orderly PROVE WellFormed'
  BY <1>2, SafeShiftStep
<1>3. ASSUME NEW d \in Data, Remove(d), orderly' = (orderly /\ RemoveIsSafe(d))
      PROVE  WellFormed'
  BY <1>3, SafeRemoveStep DEF SafeRemove
<1>4. CASE Pop /\ orderly' = (orderly /\ PopIsSafe)
  BY <1>4, SafePopStep DEF SafePop
<1>5. CASE Unshift /\ UNCHANGED orderly
  BY <1>5, SafeUnshiftStep DEF Unshift
<1>6. CASE Clear /\ UNCHANGED orderly
  BY <1>6, SafeClearStep
<1>7. CASE Undefined /\ UNCHANGED orderly
  BY <1>7, SameShape DEF Undefined
<1>8. CASE UNCHANGED vars
  BY <1>8, SameShape DEF vars
<1> QED
  BY <1>1, <1>2, <1>3, <1>4, <1>5, <1>6, <1>7, <1>8 DEF Next

(* An empty list is in shape.                                              *)
LEMMA SafeInit == Init => InShape
<1> SUFFICES ASSUME Init PROVE WellFormed
  BY DEF InShape
<1> DEFINE w == [i \in 1..0 |-> NULL]
<1>1. Shape(w)
  BY DEF Shape, IsWalk, Init, Live
<1>2. HeapOK
  BY InitStep DEF ListInv
<1> HIDE DEF w
<1> QED
  BY <1>1, <1>2, ShapeSuffices

(* As long as only the safe calls are made, count is the length of the     *)
(* list, tail its last node, and no node is lost.                          *)
THEOREM SafeCallsKeepShape == Spec => []InShape
  BY ListInvariant, SafeInit, SafeNextStep, PTL DEF Spec

(* As long as only the safe calls are made, no call meets undefined        *)
(* behaviour.                                                              *)
THEOREM SafeCallsAreDefined == Spec => []NoCallIsWild
<1>1. ASSUME ListInv, WellFormed PROVE ~SomeCallIsWild
  <2> USE <1>1
  <2>1. PICK w : Shape(w)
    BY DEF WellFormed, Shape
  <2>2. /\ WalkSafe /\ Length = count /\ Walk = w
        /\ count \in Nat /\ NULL \notin Live
    BY <2>1, ShapeIsWalk DEF ListInv
  <2>3. count = 0 => IsEmpty
    BY <2>1 DEF Shape, IsWalk, IsEmpty
  <2>4. count > 0 => /\ head \in Live /\ tail \in Live
                     /\ tail = w[count] /\ count \in 1..count
    BY <2>1, <2>2 DEF Shape, IsWalk
  <2>5. ~PushIsWild
    BY <2>2, <2>3, <2>4 DEF PushIsWild
  <2>6. ~PopIsWild
    BY <2>4 DEF PopIsWild
  <2>7. ASSUME NEW d \in Data PROVE ~RemoveIsWild(d)
    BY <2>2, <2>4 DEF RemoveIsWild, FirstMatch
  <2> QED
    BY <2>2, <2>5, <2>6, <2>7 DEF SomeCallIsWild
<1>2. ListInv /\ InShape => NoCallIsWild
  BY <1>1 DEF InShape, NoCallIsWild
<1> QED
  BY <1>2, ListInvariant, SafeCallsKeepShape, PTL

-----------------------------------------------------------------------------
(* The refinement of Deque.  Items, the sequence that a walk sees, is      *)
(* compared before and after each safe call.                               *)

(* The list s is what the walk w meets.                                    *)
Holds(w, s) ==
    /\ s \in Seq(Data) /\ Len(s) = count /\ count \in Nat
    /\ \A i \in 1..count : s[i] = data[w[i]]

(* Of a list in shape, Items is what its walk meets.                       *)
LEMMA ItemsHold == \A w : HeapOK /\ Shape(w) => Holds(w, Items)
<1> SUFFICES ASSUME NEW w, HeapOK, Shape(w) PROVE Holds(w, Items)
  OBVIOUS
<1>1. Length = count /\ Walk = w /\ count \in Nat
  BY ShapeIsWalk
<1>2. Items = [i \in 1..count |-> data[w[i]]]
  BY <1>1 DEF Items
<1>3. \A i \in 1..count : data[w[i]] \in Data
  BY DEF Shape, HeapOK
<1>4. Items \in [1..count -> Data]
  BY <1>2, <1>3
<1>5. Items \in Seq(Data) /\ Len(Items) = count
  BY <1>1, <1>4
<1> QED
  BY <1>1, <1>2, <1>5 DEF Holds

(* The same after a step.                                                  *)
LEMMA ItemsHoldNext == \A w : HeapOK' /\ Shape(w)' => Holds(w, Items)'
<1> SUFFICES ASSUME NEW w PROVE HeapOK' /\ Shape(w)' => Holds(w, Items)'
  OBVIOUS
<1>1. HeapOK /\ Shape(w) => Holds(w, Items)
  BY ItemsHold
<1>2. (HeapOK /\ Shape(w))' => Holds(w, Items)'
  BY <1>1, PTL
<1> QED
  BY <1>2

(* A list in shape has count items, and it has a head and a tail unless it *)
(* has none.                                                               *)
LEMMA NoItems ==
    ASSUME HeapOK, WellFormed
    PROVE  /\ count = Len(Items) /\ Items \in Seq(Data) /\ count \in Nat
           /\ (count = 0) <=> (Items = << >>)
           /\ count = 0 \/ (head \in Live /\ tail \in Live)
           /\ NULL \notin Live
<1>1. PICK w : Shape(w)
  BY DEF WellFormed, Shape
<1>2. Holds(w, Items) /\ NULL \notin Live
  BY <1>1, ItemsHold, Heap
<1>3. count = 0 \/ (head \in Live /\ tail \in Live)
  <2>1. count # 0 => 1 \in 1..count /\ count \in 1..count
    BY <1>2 DEF Holds
  <2> QED
    BY <1>1, <2>1 DEF Shape, IsWalk
<1> QED
  BY <1>2, <1>3, EmptySeq DEF Holds

(* ezi_slist_push() appends the item.                                      *)
LEMMA PushItems ==
    ASSUME ListInv, ListInv', WellFormed, NEW d \in Data,
           NEW n \in Node \ Live, PushNode(n, d)
    PROVE  Items' = Append(Items, d)
<1>1. PICK w, v : Pushed(w, v, n)
  BY PushedWalk
<1>2. Holds(w, Items) /\ Holds(v, Items)'
  BY <1>1, ItemsHold, ItemsHoldNext DEF Pushed, ListInv
<1>3. \A m \in Live \cup {n} : data'[m] = IF m = n THEN d ELSE data[m]
  BY DEF PushNode, Allocate
<1>4. \A i \in 1..count : w[i] \in Live
  BY <1>1 DEF Pushed, Shape
<1>5. \A i \in 1..count : Items'[i] = Items[i]
  BY <1>1, <1>2, <1>3, <1>4 DEF Pushed, Holds
<1>6. Items'[count + 1] = d
  BY <1>1, <1>2, <1>3 DEF Pushed, Holds
<1>7. /\ Append(Items, d) \in Seq(Data) /\ Len(Append(Items, d)) = count + 1
      /\ \A i \in 1..count : Append(Items, d)[i] = Items[i]
      /\ Append(Items, d)[count + 1] = d
  BY <1>2, AppendProperties DEF Holds
<1>8. Items' \in Seq(Data) /\ Len(Items') = count + 1 /\ count \in Nat
  BY <1>1, <1>2 DEF Pushed, Holds
<1>9. \A i \in 1..(count + 1) : Items'[i] = Append(Items, d)[i]
  BY <1>5, <1>6, <1>7, <1>8
<1> QED
  BY <1>7, <1>8, <1>9, SeqEqual

(* ezi_slist_shift() puts the item in front.                               *)
LEMMA ShiftItems ==
    ASSUME ListInv, ListInv', WellFormed, NEW d \in Data,
           NEW n \in Node \ Live, ShiftNode(n, d)
    PROVE  Items' = <<d>> \o Items
<1>1. PICK w, v : Shifted(w, v, n)
  BY ShiftedWalk
<1>2. Holds(w, Items) /\ Holds(v, Items)'
  BY <1>1, ItemsHold, ItemsHoldNext DEF Shifted, ListInv
<1>3. \A m \in Live \cup {n} : data'[m] = IF m = n THEN d ELSE data[m]
  BY DEF ShiftNode, Allocate
<1>4. \A i \in 1..count : w[i] \in Live
  BY <1>1 DEF Shifted, Shape
<1>5. \A i \in 1..count : Items'[i + 1] = Items[i]
  BY <1>1, <1>2, <1>3, <1>4 DEF Shifted, Holds
<1>6. Items'[1] = d
  BY <1>1, <1>2, <1>3 DEF Shifted, Holds
<1>7. Items' \in Seq(Data) /\ Len(Items') = count + 1 /\ count \in Nat
      /\ Items \in Seq(Data) /\ Len(Items) = count
  BY <1>1, <1>2 DEF Shifted, Holds
<1>8. <<d>> \in Seq(Data) /\ Len(<<d>>) = 1 /\ <<d>>[1] = d
  OBVIOUS
<1>9. /\ <<d>> \o Items \in Seq(Data) /\ Len(<<d>> \o Items) = count + 1
      /\ \A i \in 1..(count + 1) :
            (<<d>> \o Items)[i] = IF i <= 1 THEN <<d>>[i] ELSE Items[i - 1]
  BY <1>7, <1>8, ConcatProperties
<1>10. \A i \in 1..(count + 1) : Items'[i] = (<<d>> \o Items)[i]
  <2> SUFFICES ASSUME NEW i \in 1..(count + 1)
               PROVE  Items'[i] = (<<d>> \o Items)[i]
    OBVIOUS
  <2>1. CASE i = 1
    BY <2>1, <1>6, <1>7, <1>8, <1>9
  <2>2. CASE i # 1
    <3>1. i - 1 \in 1..count /\ (i - 1) + 1 = i /\ ~(i <= 1)
      BY <2>2, <1>7
    <3>2. Items'[i] = Items[i - 1]
      BY <3>1, <1>5
    <3> QED
      BY <3>1, <3>2, <1>9
  <2> QED
    BY <2>1, <2>2
<1> QED
  BY <1>7, <1>9, <1>10, SeqEqual

(* ezi_slist_unshift() takes the first item and returns it.                *)
LEMMA UnshiftItems ==
    ASSUME ListInv, ListInv', WellFormed, TakesFirst
    PROVE  /\ Items # << >> /\ Items' = Tail(Items)
           /\ Items[1] = data[head] /\ 1 \in 1..Len(Items)
<1>1. PICK w, v : Unshifted(w, v)
  BY UnshiftedWalk
<1>2. Holds(w, Items) /\ Holds(v, Items)'
  BY <1>1, ItemsHold, ItemsHoldNext DEF Unshifted, ListInv
<1>3. \A m \in Live' : data'[m] = data[m]
  BY DEF TakesFirst, Release, Live
<1>4. \A i \in 1..count' : v[i] \in Live'
  BY <1>1 DEF Unshifted, Shape
<1>5. Items' \in Seq(Data) /\ Len(Items') = count - 1 /\ count \in Nat /\ count # 0
      /\ Items \in Seq(Data) /\ Len(Items) = count /\ count' = count - 1
  BY <1>1, <1>2 DEF Unshifted, Holds
<1>6. \A i \in 1..(count - 1) : Items'[i] = Items[i + 1]
  <2> SUFFICES ASSUME NEW i \in 1..(count - 1) PROVE Items'[i] = Items[i + 1]
    OBVIOUS
  <2>1. v[i] = w[i + 1] /\ i \in 1..count' /\ i + 1 \in 1..count
    BY <1>1, <1>5 DEF Unshifted
  <2>2. Items'[i] = data'[v[i]] /\ Items[i + 1] = data[w[i + 1]]
    BY <2>1, <1>2 DEF Holds
  <2> QED
    BY <2>1, <2>2, <1>3, <1>4
<1>7. Items # << >> /\ 1 \in 1..count
  BY <1>5, EmptySeq
<1>8. /\ Tail(Items) \in Seq(Data) /\ Len(Tail(Items)) = count - 1
      /\ \A i \in 1..(count - 1) : Tail(Items)[i] = Items[i + 1]
  BY <1>5, <1>7, HeadTailProperties
<1>9. Items' = Tail(Items)
  BY <1>5, <1>6, <1>8, SeqEqual
<1>10. Items[1] = data[head]
  <2>1. head = w[1]
    BY <1>1, <1>5 DEF Unshifted, Shape, IsWalk
  <2> QED
    BY <2>1, <1>2, <1>7 DEF Holds
<1> QED
  BY <1>5, <1>7, <1>9, <1>10

(* A call that leaves the list alone leaves its items alone.               *)
LEMMA SameItems ==
    ASSUME ListInv, ListInv', WellFormed, UNCHANGED <<head, tail, count, next, data>>
    PROVE  Items' = Items
<1>1. PICK w : Shape(w)
  BY DEF WellFormed, Shape
<1>2. Live' = Live
  BY DEF Live
<1>3. Shape(w)'
  BY <1>1, <1>2 DEF Shape, IsWalk
<1>4. Holds(w, Items) /\ Holds(w, Items)'
  BY <1>1, <1>3, ItemsHold, ItemsHoldNext DEF ListInv
<1> QED
  BY <1>4, SeqEqual DEF Holds

(* A list that is emptied has no items.                                    *)
LEMMA EmptiedItems ==
    ASSUME ListInv', WellFormed', count' = 0
    PROVE  Items' = << >>
<1>1. PICK w : Shape(w)'
  BY DEF WellFormed, Shape
<1>2. Holds(w, Items)'
  BY <1>1, ItemsHoldNext DEF ListInv
<1> QED
  BY <1>2, EmptySeq DEF Holds

(* What the calls of Deque are.                                            *)
USE DEF D!Push, D!Shift, D!Pop, D!Unshift, D!Remove, D!Clear,
        D!Insert, D!Take, D!Answer

(* A push is one of Deque.                                                 *)
LEMMA PushRefines ==
    ASSUME ListInv, ListInv', WellFormed, NEW d \in Data, Push(d)
    PROVE  D!Push(d)
<1>1. CASE Fails("push", d)
  <2>1. Items' = Items
    BY <1>1, SameItems DEF Fails
  <2> QED
    BY <1>1, <2>1 DEF Fails, Returns
<1>2. ASSUME NEW n \in Node \ Live, PushNode(n, d)
      PROVE  D!Push(d)
  <2>1. Items' = Append(Items, d)
    BY <1>2, PushItems
  <2>2. call' = [op |-> "push", arg |-> d, ret |-> d]
    BY <1>2 DEF PushNode, Returns
  <2> QED
    BY <2>1, <2>2
<1> QED
  BY <1>1, <1>2 DEF Push

(* A shift is one of Deque.                                                *)
LEMMA ShiftRefines ==
    ASSUME ListInv, ListInv', WellFormed, NEW d \in Data, Shift(d)
    PROVE  D!Shift(d)
<1>1. CASE Fails("shift", d)
  <2>1. Items' = Items
    BY <1>1, SameItems DEF Fails
  <2> QED
    BY <1>1, <2>1 DEF Fails, Returns
<1>2. ASSUME NEW n \in Node \ Live, ShiftNode(n, d)
      PROVE  D!Shift(d)
  <2>1. Items' = <<d>> \o Items
    BY <1>2, ShiftItems
  <2>2. call' = [op |-> "shift", arg |-> d, ret |-> d]
    BY <1>2 DEF ShiftNode, Returns
  <2> QED
    BY <2>1, <2>2
<1> QED
  BY <1>1, <1>2 DEF Shift

(* An unshift is one of Deque.                                             *)
LEMMA UnshiftRefines ==
    ASSUME ListInv, ListInv', WellFormed, Unshift
    PROVE  D!Unshift
<1>1. CASE (count = 0 \/ head = NULL) /\ Fails("unshift", NULL)
  <2>1. Items' = Items
    BY <1>1, SameItems DEF Fails
  <2>2. Items = << >>
    BY <1>1, NoItems DEF ListInv
  <2> QED
    BY <1>1, <2>1, <2>2 DEF Fails, Returns
<1>2. CASE TakesFirst /\ Returns("unshift", NULL, data[head])
  <2>1. Items # << >> /\ Items' = Tail(Items) /\ Items[1] = data[head]
    BY <1>2, UnshiftItems
  <2> QED
    BY <1>2, <2>1 DEF Returns
<1> QED
  BY <1>1, <1>2 DEF Unshift, UnshiftAs, TakesFirst

(* A pop of the only item is one of Deque.                                 *)
LEMMA PopRefines ==
    ASSUME ListInv, ListInv', WellFormed, WellFormed', SafePop
    PROVE  D!Pop
<1>0. /\ count = Len(Items) /\ Items \in Seq(Data) /\ count \in Nat
      /\ (count = 0) <=> (Items = << >>)
      /\ count = 0 \/ (head \in Live /\ tail \in Live)
      /\ NULL \notin Live
  BY NoItems DEF ListInv
<1>1. CASE (count = 0 \/ tail = NULL) /\ Fails("pop", NULL)
  <2>1. Items' = Items
    BY <1>1, SameItems DEF Fails
  <2>2. Items = << >>
    BY <1>0, <1>1
  <2> QED
    BY <1>1, <2>1, <2>2 DEF Fails, Returns
<1>2. CASE count = 1 /\ count' = 0 /\ Returns("pop", NULL, data[tail])
  <2>1. Items' = << >>
    BY <1>2, EmptiedItems
  <2>2. PICK w : Shape(w)
    BY DEF WellFormed, Shape
  <2>3. Items[1] = data[tail]
    BY <1>2, <2>2, ItemsHold DEF ListInv, Shape, Holds
  <2>4. SubSeq(Items, 1, 0) = << >>
    BY SubSeqEmpty
  <2>5. Items' = SubSeq(Items, 1, Len(Items) - 1) /\ Items # << >>
    BY <1>0, <1>2, <2>1, <2>4
  <2> QED
    BY <1>0, <1>2, <2>3, <2>5 DEF Returns
<1> QED
  BY <1>0, <1>1, <1>2 DEF SafePop, PopIsSafe, Pop, PopAs

(* A removal at the head, or of an item that is not there, is one of       *)
(* Deque.                                                                  *)
LEMMA RemoveRefines ==
    ASSUME ListInv, ListInv', WellFormed, NEW d \in Data, SafeRemove(d)
    PROVE  D!Remove(d)
<1>0. /\ count = Len(Items) /\ Items \in Seq(Data) /\ count \in Nat
      /\ (count = 0) <=> (Items = << >>)
      /\ count = 0 \/ (head \in Live /\ tail \in Live)
      /\ NULL \notin Live
  BY NoItems DEF ListInv
<1>1. PICK w : Shape(w)
  BY DEF WellFormed, Shape
<1>2. Length = count /\ Walk = w
  BY <1>1, ShapeIsWalk DEF ListInv
<1>3. \A i \in 1..count : Items[i] = data[w[i]]
  BY <1>1, ItemsHold DEF ListInv, Holds
<1>4. ASSUME Fails("remove", d), \A i \in 1..count : data[w[i]] # d
      PROVE  D!Remove(d)
  <2>1. Items' = Items
    BY <1>4, SameItems DEF Fails
  <2>2. \A i \in 1..Len(Items) : Items[i] # d
    BY <1>0, <1>3, <1>4
  <2> QED
    BY <1>4, <2>1, <2>2 DEF Fails, Returns
<1>5. CASE count = 0
  <2>1. Fails("remove", d)
    BY <1>5 DEF SafeRemove, Remove
  <2>2. \A i \in 1..count : data[w[i]] # d
    BY <1>5
  <2> QED
    BY <1>4, <2>1, <2>2
<1>6. CASE count # 0 /\ head \in Live /\ data[head] = d
  <2>1. TakesFirst /\ Returns("remove", d, d)
    BY <1>0, <1>6 DEF SafeRemove, Remove, UnshiftAs, TakesFirst
  <2>2. Items # << >> /\ Items' = Tail(Items) /\ Items[1] = d /\ 1 \in 1..Len(Items)
    BY <1>6, <2>1, UnshiftItems
  <2>3. Tail(Items) = SubSeq(Items, 2, Len(Items)) /\ Tail(Items) \in Seq(Data)
    BY <1>0, <2>2, TailIsSubSeq, HeadTailProperties
  <2>4. SubSeq(Items, 1, 0) = << >>
    BY SubSeqEmpty
  <2>5. Items' = SubSeq(Items, 1, 1 - 1) \o SubSeq(Items, 1 + 1, Len(Items))
    BY <2>2, <2>3, <2>4, ConcatEmptySeq
  <2> QED
    BY <2>1, <2>2, <2>5 DEF Returns
<1>7. CASE count # 0 /\ \A i \in 1..count : data[w[i]] # d
  <2>1. head = w[1] /\ tail = w[count] /\ 1 \in 1..count /\ count \in 1..count
    BY <1>0, <1>1, <1>7 DEF Shape, IsWalk
  <2>2. data[head] # d /\ data[tail] # d
    BY <1>7, <2>1
  <2>3. Fails("remove", d)
    BY <1>2, <1>7, <2>2 DEF SafeRemove, Remove, RemoveInside, FirstMatch
  <2> QED
    BY <1>4, <1>7, <2>3
<1> QED
  BY <1>0, <1>2, <1>5, <1>6, <1>7 DEF SafeRemove, RemoveIsSafe

(* A clear is one of Deque.                                                *)
LEMMA ClearRefines ==
    ASSUME ListInv', WellFormed', Clear
    PROVE  D!Clear
<1>1. Items' = << >>
  BY EmptiedItems DEF Clear
<1> QED
  BY <1>1 DEF Clear, Returns

(* Every step that leaves the calls orderly is one of Deque, or changes    *)
(* neither the items nor the recorded call.                                *)
LEMMA NextRefines ==
    ListInv /\ ListInv' /\ InShape /\ InShape' /\ [Next]_vars
        => [orderly' => D!Next]_<<Items, call>>
<1> SUFFICES ASSUME ListInv, ListInv', InShape, InShape', [Next]_vars, orderly'
             PROVE  D!Next \/ UNCHANGED <<Items, call>>
  OBVIOUS
<1>0. orderly /\ WellFormed /\ WellFormed'
  BY DEF InShape, Next, vars
<1>1. ASSUME NEW d \in Data, Push(d) PROVE D!Next
  BY <1>0, <1>1, PushRefines DEF D!Next
<1>2. ASSUME NEW d \in Data, Shift(d) PROVE D!Next
  BY <1>0, <1>2, ShiftRefines DEF D!Next
<1>3. ASSUME NEW d \in Data, Remove(d), orderly' = (orderly /\ RemoveIsSafe(d))
      PROVE  D!Next
  BY <1>0, <1>3, RemoveRefines DEF D!Next, SafeRemove
<1>4. CASE Pop /\ orderly' = (orderly /\ PopIsSafe)
  BY <1>0, <1>4, PopRefines DEF D!Next, SafePop
<1>5. CASE Unshift
  BY <1>0, <1>5, UnshiftRefines DEF D!Next
<1>6. CASE Clear
  BY <1>0, <1>6, ClearRefines DEF D!Next
<1>7. CASE Undefined
  BY <1>0, <1>7, SameItems DEF Undefined
<1>8. CASE UNCHANGED vars
  BY <1>0, <1>8, SameItems DEF vars
<1> QED
  BY <1>1, <1>2, <1>3, <1>4, <1>5, <1>6, <1>7, <1>8 DEF Next

(* The list without items is where Deque starts.                           *)
LEMMA InitRefines == Init => D!Init
<1> SUFFICES ASSUME Init PROVE D!Init
  OBVIOUS
<1>1. ListInv /\ InShape /\ orderly /\ count = 0
  BY InitStep, SafeInit DEF Init
<1>2. Items = << >>
  BY <1>1, NoItems DEF ListInv, InShape
<1> QED
  BY <1>2 DEF D!Init, Init

(* As long as only the safe calls are made, every call is one of the       *)
(* double ended queue that include/ds/slist.h promises: what is pushed,    *)
(* shifted, popped, unshifted, removed and returned is what the queue      *)
(* says.                                                                   *)
THEOREM ListIsDeque == Spec => RefinesDeque
<1>1. Spec => []ListInv /\ []InShape
  BY ListInvariant, SafeCallsKeepShape, PTL
<1>2. Init => D!Init
  BY InitRefines
<1>3. ListInv /\ ListInv' /\ InShape /\ InShape' /\ [Next]_vars
        => [orderly' => D!Next]_<<Items, call>>
  BY NextRefines
<1> QED
  BY <1>1, <1>2, <1>3, PTL DEF Spec, RefinesDeque

=============================================================================
