-------------------------- MODULE HashTableProofs --------------------------
(***************************************************************************)
(* Proofs about the hash table, for any keys, values, buckets and hash     *)
(* function: whatever calls are made, a key has at most one entry and      *)
(* count is the number of entries.                                         *)
(***************************************************************************)
EXTENDS HashTable, FiniteSetTheorems, SequenceTheorems, TLAPS

Entry == [key : Key, value : Value]
Table == [Bucket -> Seq(Entry)]

(* The keys of the entries s of bucket b hash to b, and each occurs once.  *)
OwnKeys(s, b) ==
    \A i \in 1..Len(s) :
        /\ Hash[s[i].key] = b
        /\ \A j \in 1..Len(s) : s[i].key = s[j].key => i = j

(* A key has at most one entry, in its own bucket.                         *)
Single(ents) == \A b \in Bucket : OwnKeys(ents[b], b)

(* t is s without one entry, the one behind the first i.                   *)
Thinned(s, t, i) ==
    /\ i \in 0..(Len(s) - 1)
    /\ Len(t) = Len(s) - 1
    /\ \A j \in 1..Len(t) : t[j] = IF j <= i THEN s[j] ELSE s[j + 1]

(* f differs from e in bucket b only.                                      *)
DiffersIn(b, e, f) == \A c \in Bucket : c # b => f[c] = e[c]

-----------------------------------------------------------------------------
(* Every bucket of a table is a sequence of entries.                       *)
LEMMA Buckets ==
    ASSUME NEW e \in Table, NEW b \in Bucket
    PROVE  /\ e[b] \in Seq(Entry) /\ Len(e[b]) \in Nat
           /\ DOMAIN e[b] = 1..Len(e[b])
           /\ \A i \in 1..Len(e[b]) : e[b][i] \in Entry
<1>1. e[b] \in Seq(Entry)
  BY DEF Table
<1> QED
  BY <1>1, LenProperties, ElementOfSeq

(* A position is a bucket and an index into it.                            *)
LEMMA PositionIs ==
    ASSUME NEW e \in Table, NEW at
    PROVE  at \in Positions(e) <=>
              \E b \in Bucket : \E i \in 1..Len(e[b]) : at = <<b, i>>
<1>1. \A b \in Bucket : DOMAIN e[b] = 1..Len(e[b])
  BY Buckets
<1>2. at \in Positions(e) <=>
         \E b \in Bucket : at \in {b} \X DOMAIN e[b]
  BY DEF Positions
<1> QED
  BY <1>1, <1>2

(* A bucket that grows by one gives the table one more position.           *)
LEMMA Grown ==
    ASSUME NEW e \in Table, NEW f \in Table, NEW b \in Bucket,
           DiffersIn(b, e, f), Len(f[b]) = Len(e[b]) + 1
    PROVE  \E at : at \notin Positions(e) /\ Positions(f) = Positions(e) \cup {at}
<1> DEFINE n == <<b, Len(f[b])>>
<1>1. Len(e[b]) \in Nat /\ Len(f[b]) \in Nat
  BY Buckets
<1>2. n \notin Positions(e)
  <2>1. \A c \in Bucket : \A i \in 1..Len(e[c]) : n # <<c, i>>
    BY <1>1
  <2> QED
    BY <2>1, PositionIs
<1>3. ASSUME NEW at PROVE at \in Positions(f) <=> at \in Positions(e) \cup {n}
  <2>1. (\E c \in Bucket : \E i \in 1..Len(f[c]) : at = <<c, i>>) <=>
           \/ \E c \in Bucket : \E i \in 1..Len(e[c]) : at = <<c, i>>
           \/ at = n
    <3>1. ASSUME NEW c \in Bucket, NEW i \in 1..Len(f[c]), at = <<c, i>>
          PROVE  \/ \E g \in Bucket : \E j \in 1..Len(e[g]) : at = <<g, j>>
                 \/ at = n
      <4>1. CASE c # b
        <5>1. i \in 1..Len(e[c])
          BY <4>1 DEF DiffersIn
        <5> QED
          BY <3>1, <5>1
      <4>2. CASE c = b /\ i # Len(f[b])
        <5>1. i \in 1..Len(e[c])
          BY <4>2, <1>1
        <5> QED
          BY <3>1, <5>1
      <4>3. CASE c = b /\ i = Len(f[b])
        BY <4>3, <3>1
      <4> QED
        BY <4>1, <4>2, <4>3
    <3>2. ASSUME NEW c \in Bucket, NEW i \in 1..Len(e[c]), at = <<c, i>>
          PROVE  \E g \in Bucket : \E j \in 1..Len(f[g]) : at = <<g, j>>
      <4>1. i \in 1..Len(f[c])
        BY <1>1, Buckets DEF DiffersIn
      <4> QED
        BY <3>2, <4>1
    <3>3. Len(f[b]) \in 1..Len(f[b])
      BY <1>1
    <3> QED
      BY <3>1, <3>2, <3>3
  <2> QED
    BY <2>1, PositionIs
<1>4. Positions(f) = Positions(e) \cup {n}
  BY <1>3
<1> QED
  BY <1>2, <1>4

(* A table whose buckets are as long as before has the same positions.     *)
LEMMA SameLengths ==
    ASSUME NEW e \in Table, NEW f \in Table,
           \A b \in Bucket : Len(f[b]) = Len(e[b])
    PROVE  Positions(f) = Positions(e)
<1>1. ASSUME NEW at PROVE at \in Positions(f) <=> at \in Positions(e)
  BY PositionIs
<1> QED
  BY <1>1

(* A table of empty buckets has no position.                               *)
LEMMA NoEntriesIsEmpty ==
    /\ NoEntries \in Table /\ Positions(NoEntries) = {} /\ Single(NoEntries)
    /\ \A b \in Bucket : Len(NoEntries[b]) = 0
<1>1. NoEntries \in Table
  BY EmptySeq DEF NoEntries, Table
<1>2. \A b \in Bucket : NoEntries[b] = << >> /\ Len(NoEntries[b]) = 0
  BY EmptySeq DEF NoEntries
<1>3. \A at : at \notin Positions(NoEntries)
  BY <1>1, <1>2, PositionIs
<1> QED
  BY <1>1, <1>2, <1>3 DEF Single, OwnKeys

(* Entries that are taken out leave the others single.                     *)
LEMMA ThinnedIsSingle ==
    ASSUME NEW e \in Table, NEW f \in Table, NEW b \in Bucket, NEW k,
           DiffersIn(b, e, f), Thinned(e[b], f[b], k), Single(e)
    PROVE  Single(f)
<1>1. Len(e[b]) \in Nat /\ Len(f[b]) \in Nat /\ k \in Nat
  BY Buckets DEF Thinned
<1>2. ASSUME NEW i \in 1..Len(f[b])
      PROVE  /\ Hash[f[b][i].key] = b
             /\ \A j \in 1..Len(f[b]) : f[b][i].key = f[b][j].key => i = j
  <2> DEFINE from(j) == IF j <= k THEN j ELSE j + 1
  <2>1. \A j \in 1..Len(f[b]) : /\ from(j) \in 1..Len(e[b])
                                /\ f[b][j] = e[b][from(j)]
    BY <1>1 DEF Thinned
  <2>2. \A j \in 1..Len(f[b]) : from(i) = from(j) => i = j
    BY <1>1
  <2>3. \A m, n \in 1..Len(e[b]) :
            /\ Hash[e[b][m].key] = b
            /\ e[b][m].key = e[b][n].key => m = n
    BY DEF Single, OwnKeys
  <2> HIDE DEF from
  <2>4. Hash[f[b][i].key] = b
    BY <2>1, <2>3
  <2>5. ASSUME NEW j \in 1..Len(f[b]), f[b][i].key = f[b][j].key PROVE i = j
    <3>1. /\ from(i) \in 1..Len(e[b]) /\ from(j) \in 1..Len(e[b])
          /\ e[b][from(i)].key = e[b][from(j)].key
      BY <2>1, <2>5
    <3>2. from(i) = from(j)
      BY <2>3, <3>1
    <3> QED
      BY <2>2, <3>2
  <2> QED
    BY <2>4, <2>5
<1>3. OwnKeys(f[b], b)
  BY <1>2 DEF OwnKeys
<1> QED
  BY <1>3 DEF Single, DiffersIn

(* A new key at the head of its bucket is single.                          *)
LEMMA PushedIsSingle ==
    ASSUME NEW e \in Table, NEW f \in Table, NEW b \in Bucket, NEW x \in Entry,
           DiffersIn(b, e, f), Single(e),
           Hash[x.key] = b, \A i \in 1..Len(e[b]) : e[b][i].key # x.key,
           Len(f[b]) = Len(e[b]) + 1, f[b][1] = x,
           \A i \in 2..Len(f[b]) : f[b][i] = e[b][i - 1]
    PROVE  Single(f)
<1>1. Len(e[b]) \in Nat
  BY Buckets
<1>2. ASSUME NEW i \in 1..Len(f[b])
      PROVE  /\ Hash[f[b][i].key] = b
             /\ \A j \in 1..Len(f[b]) : f[b][i].key = f[b][j].key => i = j
  <2>1. \A j \in 2..Len(f[b]) : /\ j - 1 \in 1..Len(e[b])
                                /\ f[b][j] = e[b][j - 1]
    BY <1>1
  <2>2. \A m, n \in 1..Len(e[b]) :
            /\ Hash[e[b][m].key] = b
            /\ e[b][m].key = e[b][n].key => m = n
    BY DEF Single, OwnKeys
  <2>3. \A j \in 1..Len(f[b]) : j = 1 \/ j \in 2..Len(f[b])
    BY <1>1
  <2>4. CASE i = 1
    <3>1. \A j \in 2..Len(f[b]) : f[b][j].key # x.key
      BY <2>1
    <3>2. f[b][i] = x
      BY <2>4
    <3> QED
      BY <2>3, <2>4, <3>1, <3>2
  <2>5. CASE i \in 2..Len(f[b])
    <3>1. Hash[f[b][i].key] = b
      BY <2>1, <2>2, <2>5
    <3>2. ASSUME NEW j \in 2..Len(f[b]), f[b][i].key = f[b][j].key PROVE i = j
      <4>1. i - 1 \in 1..Len(e[b]) /\ j - 1 \in 1..Len(e[b])
        BY <2>1, <2>5
      <4>2. e[b][i - 1].key = e[b][j - 1].key
        BY <2>1, <2>5, <3>2
      <4>3. i - 1 = j - 1
        BY <2>2, <4>1, <4>2
      <4> QED
        BY <4>3, <2>5
    <3>3. f[b][i].key # f[b][1].key
      BY <2>1, <2>5
    <3> QED
      BY <2>3, <3>1, <3>2, <3>3
  <2> QED
    BY <2>3, <2>4, <2>5
<1>3. OwnKeys(f[b], b)
  BY <1>2 DEF OwnKeys
<1> QED
  BY <1>3 DEF Single, DiffersIn

(* Values do not matter to it.                                             *)
LEMMA SameKeysAreSingle ==
    ASSUME NEW e \in Table, NEW f \in Table, Single(e),
           \A b \in Bucket :
              /\ Len(f[b]) = Len(e[b])
              /\ \A i \in 1..Len(e[b]) : f[b][i].key = e[b][i].key
    PROVE  Single(f)
<1> SUFFICES ASSUME NEW b \in Bucket, NEW i \in 1..Len(f[b])
             PROVE  /\ Hash[f[b][i].key] = b
                    /\ \A j \in 1..Len(f[b]) : f[b][i].key = f[b][j].key => i = j
  BY DEF Single, OwnKeys
<1>1. \A j \in 1..Len(f[b]) : j \in 1..Len(e[b]) /\ f[b][j].key = e[b][j].key
  OBVIOUS
<1>2. /\ Hash[e[b][i].key] = b
      /\ \A j \in 1..Len(e[b]) : e[b][i].key = e[b][j].key => i = j
  BY <1>1 DEF Single, OwnKeys
<1> QED
  BY <1>1, <1>2

-----------------------------------------------------------------------------
(* The inductive invariant.  The counts need what set and remove do to one *)
(* bucket; the bound on count keeps the number of bodies a natural number. *)
Counted(ents, n) == IsFiniteSet(Positions(ents)) /\ n = Cardinality(Positions(ents))

TableInv ==
    /\ TypeOK
    /\ Single(entries)
    /\ Counted(entries, count)
    /\ \A b \in Bucket : Len(entries[b]) <= size[b]
    /\ count <= bodies

(* The types as the lemmas want them.                                      *)
LEMMA TypesHold ==
    ASSUME TypeOK
    PROVE  /\ entries \in Table /\ size \in [Bucket -> Nat] /\ count \in Nat
           /\ bodies \in Nat /\ Hash \in [Key -> Bucket]
<1>1. entries \in Table
  BY DEF TypeOK, Table, Entry
<1>2. size \in [Bucket -> Nat] /\ count \in Nat
  BY DEF TypeOK
<1>3. bodies \in Nat
  BY BodiesAssumption DEF TypeOK
<1> QED
  BY <1>1, <1>2, <1>3, HashAssumption

(* The invariant gives the properties of the table.                        *)
LEMMA InvMeans == ASSUME TableInv PROVE OneEntryPerKey /\ CountsAgree
<1>1. entries \in Table
  BY TypesHold DEF TableInv
<1>2. ASSUME NEW at \in Positions(entries)
      PROVE  Hash[entries[at[1]][at[2]].key] = at[1]
  <2>1. PICK b \in Bucket : \E i \in 1..Len(entries[b]) : at = <<b, i>>
    BY <1>1, PositionIs
  <2> QED
    BY <2>1 DEF TableInv, Single, OwnKeys
<1>3. ASSUME NEW at \in Positions(entries), NEW bt \in Positions(entries),
             entries[at[1]][at[2]].key = entries[bt[1]][bt[2]].key
      PROVE  at = bt
  <2>1. PICK b \in Bucket : \E i \in 1..Len(entries[b]) : at = <<b, i>>
    BY <1>1, PositionIs
  <2>2. PICK c \in Bucket : \E j \in 1..Len(entries[c]) : bt = <<c, j>>
    BY <1>1, PositionIs
  <2>3. b = c
    BY <1>2, <1>3, <2>1, <2>2
  <2> QED
    BY <1>3, <2>1, <2>2, <2>3 DEF TableInv, Single, OwnKeys
<1> QED
  BY <1>2, <1>3 DEF OneEntryPerKey, CountsAgree, TableInv, Counted

(* Position(k) is the position of k.                                       *)
LEMMA PositionFinds ==
    ASSUME TableInv, NEW k \in Key, Found(k)
    PROVE  /\ Position(k) \in 1..Len(entries[Hash[k]])
           /\ At(k, Position(k))
<1>1. Hash[k] \in Bucket /\ entries \in Table
  BY TypesHold DEF TableInv
<1>2. DOMAIN entries[Hash[k]] = 1..Len(entries[Hash[k]])
  BY <1>1, Buckets
<1>3. PICK i \in 1..Len(entries[Hash[k]]) : At(k, i)
  BY <1>2 DEF Found
<1>4. \A j \in 1..(i - 1) : ~At(k, j)
  <2> SUFFICES ASSUME NEW j \in 1..(i - 1), At(k, j) PROVE FALSE
    OBVIOUS
  <2>1. j \in 1..Len(entries[Hash[k]]) /\ j # i
    BY <1>2 DEF At
  <2>2. entries[Hash[k]][j].key = entries[Hash[k]][i].key
    BY <1>3 DEF At
  <2> QED
    BY <1>1, <2>1, <2>2 DEF TableInv, Single, OwnKeys
<1> QED
  BY <1>2, <1>3, <1>4 DEF Position

(* A call that leaves entries and counts alone keeps the invariant.        *)
LEMMA SameTable ==
    ASSUME TableInv, UNCHANGED <<entries, size, hangs, count, lists, bodies, lost>>,
           open' \in BOOLEAN, defined' \in BOOLEAN, conduct' \in Conduct,
           call'.key \in Key \cup {NULL}
    PROVE  TableInv'
<1>1. TypeOK'
  BY DEF TableInv, TypeOK
<1> QED
  BY <1>1 DEF TableInv, Counted

(* As one that gives up does.                                              *)
LEMMA FailedCall ==
    ASSUME TableInv, NEW op, NEW k \in Key, NEW ret, Returns(op, k, ret), Unchanged
    PROVE  TableInv'
<1>1. call'.key = k
  BY DEF Returns
<1>2. open' \in BOOLEAN /\ defined' \in BOOLEAN /\ conduct' \in Conduct
  BY DEF Returns, Unchanged, TableInv, TypeOK
<1> QED
  BY <1>1, <1>2, SameTable DEF Unchanged

(* ezi_hash_table_set() of a key that is there.                            *)
LEMMA OverwriteStep ==
    ASSUME TableInv, NEW k \in Key, NEW v \in Value, Overwrite(k, v),
           Returns("set", k, "done"), UNCHANGED <<open, hangs, lost, conduct>>
    PROVE  TableInv'
<1> DEFINE b == Hash[k]
           p == Position(k)
           x == [entries[b][p] EXCEPT !.value = v]
<1>1. b \in Bucket /\ entries \in Table /\ entries[b] \in Seq(Entry)
  BY TypesHold, Buckets DEF TableInv
<1>2. p \in 1..Len(entries[b]) /\ entries[b][p] \in Entry
  BY <1>1, Buckets, PositionFinds DEF Overwrite
<1>3. x \in Entry /\ x.key = entries[b][p].key
  BY <1>2 DEF Entry
<1>4. entries' = [entries EXCEPT ![b] = [entries[b] EXCEPT ![p] = x]]
  BY <1>1 DEF Overwrite, Table
<1> HIDE DEF b, p, x
<1>5. /\ [entries[b] EXCEPT ![p] = x] \in Seq(Entry)
      /\ Len([entries[b] EXCEPT ![p] = x]) = Len(entries[b])
      /\ \A j \in 1..Len(entries[b]) :
            [entries[b] EXCEPT ![p] = x][j] = IF j = p THEN x ELSE entries[b][j]
  BY <1>1, <1>2, <1>3, ExceptSeq
<1>6. entries' \in Table
  BY <1>1, <1>4, <1>5 DEF Table
<1>7. \A c \in Bucket :
         /\ Len(entries'[c]) = Len(entries[c])
         /\ \A j \in 1..Len(entries[c]) : entries'[c][j].key = entries[c][j].key
  BY <1>1, <1>3, <1>4, <1>5 DEF Table
<1>8. Single(entries')
  BY <1>1, <1>6, <1>7, SameKeysAreSingle DEF TableInv
<1>9. Positions(entries') = Positions(entries)
  BY <1>1, <1>6, <1>7, SameLengths
<1>10. TypeOK'
  <2>1. lists' \in SUBSET Value
    BY DEF Overwrite, TableInv, TypeOK
  <2>2. call'.key = k
    BY DEF Returns
  <2> QED
    BY <1>6, <2>1, <2>2 DEF Overwrite, Returns, TableInv, TypeOK, Table, Entry
<1> QED
  BY <1>7, <1>8, <1>9, <1>10 DEF Overwrite, TableInv, Counted

(* ezi_hash_table_set() of a new key.                                      *)
LEMMA InsertStep ==
    ASSUME TableInv, NEW k \in Key, NEW v \in Value, Insert(k, v),
           Returns("set", k, "done"), UNCHANGED <<open, hangs, lost, conduct>>
    PROVE  TableInv'
<1> DEFINE b == Hash[k]
           x == [key |-> k, value |-> v]
<1>1. /\ b \in Bucket /\ entries \in Table /\ entries[b] \in Seq(Entry)
      /\ Len(entries[b]) \in Nat /\ size \in [Bucket -> Nat]
  BY TypesHold, Buckets DEF TableInv
<1>2. x \in Entry /\ <<x>> \in Seq(Entry) /\ Len(<<x>>) = 1 /\ <<x>>[1] = x
  BY DEF Entry
<1>3. entries' = [entries EXCEPT ![b] = <<x>> \o entries[b]]
  BY <1>1 DEF Insert, Table
<1>4. \A i \in 1..Len(entries[b]) : entries[b][i].key # k
  BY <1>1, Buckets DEF Insert, Found, At
<1>5. x.key = k /\ Hash[x.key] = b
  OBVIOUS
<1> HIDE DEF b, x
<1>6. /\ <<x>> \o entries[b] \in Seq(Entry)
      /\ Len(<<x>> \o entries[b]) = 1 + Len(entries[b])
      /\ \A j \in 1..(1 + Len(entries[b])) :
            (<<x>> \o entries[b])[j] = IF j <= 1 THEN <<x>>[j] ELSE entries[b][j - 1]
  BY <1>1, <1>2, ConcatProperties
<1>7. entries' \in Table
  BY <1>1, <1>3, <1>6 DEF Table
<1>8. /\ DiffersIn(b, entries, entries')
      /\ entries'[b] = <<x>> \o entries[b]
  BY <1>1, <1>3 DEF DiffersIn, Table
<1>9. /\ Len(entries'[b]) = Len(entries[b]) + 1
      /\ entries'[b][1] = x
      /\ \A j \in 2..Len(entries'[b]) : entries'[b][j] = entries[b][j - 1]
  BY <1>1, <1>2, <1>6, <1>8
<1>10. Single(entries')
  BY <1>1, <1>2, <1>4, <1>5, <1>7, <1>8, <1>9, PushedIsSingle DEF TableInv
<1>11. PICK at : /\ at \notin Positions(entries)
                 /\ Positions(entries') = Positions(entries) \cup {at}
  BY <1>1, <1>7, <1>8, <1>9, Grown
<1>12. Counted(entries', count')
  BY <1>11, FS_AddElement DEF TableInv, Counted, Insert
<1>13. /\ size' = [size EXCEPT ![b] = size[b] + 1] /\ count' = count + 1
       /\ bodies' = bodies + 1 /\ bodies < MaxBodies /\ lists' = lists \cup {v}
  BY <1>1 DEF Insert, b
<1>14. \A c \in Bucket : Len(entries'[c]) <= size'[c]
  BY <1>1, <1>8, <1>9, <1>13 DEF TableInv, DiffersIn
<1>15. TypeOK'
  <2>1. call'.key = k
    BY DEF Returns
  <2>2. size' \in [Bucket -> Nat]
    BY <1>1, <1>13
  <2>3. bodies' \in 0..MaxBodies /\ count' \in Nat
    BY <1>13, BodiesAssumption DEF TableInv, TypeOK
  <2>4. lists' \in SUBSET Value /\ entries' \in [Bucket -> Seq([key : Key, value : Value])]
    BY <1>7, <1>13 DEF TableInv, TypeOK, Table, Entry
  <2> QED
    BY <2>1, <2>2, <2>3, <2>4 DEF Returns, TableInv, TypeOK
<1>16. count' <= bodies'
  BY <1>13, TypesHold DEF TableInv
<1> QED
  BY <1>10, <1>12, <1>14, <1>15, <1>16 DEF TableInv

(* ezi_hash_table_set() of a new key for whose node there is no memory.    *)
LEMMA LosesBodyStep ==
    ASSUME TableInv, NEW k \in Key, Returns("set", k, "failed"), LosesBody
    PROVE  TableInv'
<1>1. bodies' = bodies + 1 /\ lost' = lost + 1 /\ bodies < MaxBodies
  BY DEF LosesBody
<1>2. bodies' \in 0..MaxBodies /\ lost' \in Nat /\ count <= bodies'
  BY <1>1, TypesHold, BodiesAssumption DEF TableInv, TypeOK
<1>3. TypeOK'
  <2>1. call'.key = k
    BY DEF Returns
  <2> QED
    BY <1>2, <2>1 DEF LosesBody, Returns, TableInv, TypeOK
<1> QED
  BY <1>2, <1>3 DEF LosesBody, TableInv, Counted

-----------------------------------------------------------------------------
(* Whatever ezi_slist_remove() takes, the bucket loses one entry, and its  *)
(* count field stays no less than their number.                            *)
LEMMA TakeThins ==
    ASSUME TableInv, NEW k \in Key, Found(k), size[Hash[k]] > 0, Take(k)
    PROVE  /\ entries' \in Table /\ size' \in [Bucket -> Nat]
           /\ hangs' \in SUBSET Bucket
           /\ DiffersIn(Hash[k], entries, entries')
           /\ \E i : Thinned(entries[Hash[k]], entries'[Hash[k]], i)
           /\ \A c \in Bucket : Len(entries'[c]) <= size'[c]
<1> DEFINE b == Hash[k]
           s == entries[b]
           n == Len(s)
<1>1. /\ b \in Bucket /\ entries \in Table /\ s \in Seq(Entry) /\ n \in Nat
      /\ size \in [Bucket -> Nat] /\ hangs \in SUBSET Bucket
      /\ \A i \in 1..n : s[i] \in Entry
  BY TypesHold, Buckets DEF TableInv, TypeOK
<1>2. /\ Position(k) \in 1..n /\ At(k, Position(k)) /\ n <= size[b]
  BY <1>1, PositionFinds DEF TableInv
<1>3. ASSUME NEW t \in Seq(Entry), NEW i, Thinned(s, t, i),
             entries' = [entries EXCEPT ![b] = t]
      PROVE  /\ entries' \in Table /\ DiffersIn(b, entries, entries')
             /\ Thinned(s, entries'[b], i) /\ Len(entries'[b]) = n - 1
             /\ \A c \in Bucket : c # b => Len(entries'[c]) <= size[c]
  <2>1. entries' \in Table /\ DiffersIn(b, entries, entries') /\ entries'[b] = t
    BY <1>1, <1>3 DEF Table, DiffersIn
  <2> QED
    BY <1>3, <2>1 DEF TableInv, DiffersIn, Thinned
<1>4. CASE At(k, 1) /\ TakeHead(b)
  <2>1. s # << >>
    BY <1>1, <1>2, EmptySeq
  <2>2. /\ Tail(s) \in Seq(Entry) /\ Len(Tail(s)) = n - 1
        /\ \A i \in 1..Len(Tail(s)) : Tail(s)[i] = s[i + 1]
    BY <1>1, <2>1, HeadTailProperties
  <2>3. Thinned(s, Tail(s), 0)
    BY <1>1, <1>2, <2>2 DEF Thinned
  <2>4. entries' = [entries EXCEPT ![b] = Tail(s)]
    BY <1>1, <1>4 DEF TakeHead, Table
  <2>5. size' = [size EXCEPT ![b] = size[b] - 1] /\ hangs' \in SUBSET Bucket
    BY <1>1, <1>4 DEF TakeHead
  <2> HIDE DEF b, s, n
  <2>6. size' \in [Bucket -> Nat]
    BY <1>1, <1>2, <2>5
  <2>7. /\ entries' \in Table /\ DiffersIn(b, entries, entries')
        /\ Thinned(s, entries'[b], 0) /\ Len(entries'[b]) = n - 1
        /\ \A c \in Bucket : c # b => Len(entries'[c]) <= size[c]
    BY <1>3, <2>2, <2>3, <2>4
  <2>8. \A c \in Bucket : Len(entries'[c]) <= size'[c]
    BY <1>1, <1>2, <2>5, <2>7
  <2> QED
    BY <2>5, <2>6, <2>7, <2>8 DEF b, s
<1>5. CASE At(k, n) /\ TakeTail(b)
  <2>1. /\ SubSeq(s, 1, n - 1) \in Seq(Entry) /\ Len(SubSeq(s, 1, n - 1)) = n - 1
        /\ \A i \in 1..(n - 1) : SubSeq(s, 1, n - 1)[i] = s[i]
    BY <1>1, <1>2, SubSeqProperties
  <2>2. Thinned(s, SubSeq(s, 1, n - 1), n - 1)
    BY <1>1, <1>2, <2>1 DEF Thinned
  <2>3. entries' = [entries EXCEPT ![b] = SubSeq(s, 1, n - 1)]
    BY <1>1, <1>5 DEF TakeTail, Table
  <2>4. size' = size /\ hangs' = hangs
    BY <1>5 DEF TakeTail
  <2> HIDE DEF b, s, n
  <2>5. /\ entries' \in Table /\ DiffersIn(b, entries, entries')
        /\ Thinned(s, entries'[b], n - 1) /\ Len(entries'[b]) = n - 1
        /\ \A c \in Bucket : c # b => Len(entries'[c]) <= size[c]
    BY <1>3, <2>1, <2>2, <2>3
  <2>6. \A c \in Bucket : Len(entries'[c]) <= size'[c]
    BY <1>1, <1>2, <2>4, <2>5
  <2> QED
    BY <1>1, <2>4, <2>5, <2>6 DEF b, s
<1>6. CASE ~At(k, n) /\ TakeBehind(b, Position(k))
  <2>1. PICK i \in 1..n : i = Position(k)
    BY <1>2
  <2>2. i < n
    BY <1>1, <1>2, <1>6, <2>1
  <2> DEFINE front == SubSeq(s, 1, i)
             rest  == SubSeq(s, i + 2, n)
  <2>3. /\ front \in Seq(Entry) /\ Len(front) = i
        /\ \A j \in 1..i : front[j] = s[j]
    BY <1>1, <2>2, SubSeqProperties
  <2>4. /\ rest \in Seq(Entry) /\ Len(rest) = n - i - 1
        /\ \A j \in 1..(n - i - 1) : rest[j] = s[j + i + 1]
    <3>1. /\ i + 2 \in Int /\ n \in Int /\ \A j \in (i + 2)..n : s[j] \in Entry
      BY <1>1
    <3>2. /\ rest \in Seq(Entry)
          /\ Len(rest) = IF i + 2 <= n THEN n - (i + 2) + 1 ELSE 0
          /\ \A j \in 1..(n - (i + 2) + 1) : rest[j] = s[i + 2 + j - 1]
      BY <3>1, SubSeqProperties
    <3> HIDE DEF rest, s, n
    <3> QED
      BY <1>1, <2>2, <3>2
  <2>5. entries' = [entries EXCEPT ![b] = front \o rest]
    BY <1>1, <1>6, <2>1 DEF TakeBehind, Table
  <2>6. size' = [size EXCEPT ![b] = size[b] - 1] /\ hangs' \in SUBSET Bucket
    BY <1>1, <1>6 DEF TakeBehind
  <2> HIDE DEF b, s, n, front, rest
  <2>7. /\ front \o rest \in Seq(Entry)
        /\ Len(front \o rest) = Len(front) + Len(rest)
        /\ \A j \in 1..(Len(front) + Len(rest)) : (front \o rest)[j] =
              IF j <= Len(front) THEN front[j] ELSE rest[j - Len(front)]
    <3>1. front \in Seq(Entry) /\ rest \in Seq(Entry)
      BY <2>3, <2>4
    <3> QED
      BY <3>1, ConcatProperties
  <2>8. Thinned(s, front \o rest, i)
    <3>1. Len(front \o rest) = n - 1 /\ Len(s) = n /\ i \in 0..(n - 1)
      BY <1>1, <2>2, <2>3, <2>4, <2>7 DEF n
    <3>2. ASSUME NEW j \in 1..(n - 1)
          PROVE  (front \o rest)[j] = IF j <= i THEN s[j] ELSE s[j + 1]
      <4>1. CASE j <= i
        BY <1>1, <2>3, <2>4, <2>7, <4>1
      <4>2. CASE ~(j <= i)
        <5>1. j - i \in 1..(n - i - 1) /\ (j - i) + i + 1 = j + 1
          BY <1>1, <4>2
        <5>2. (front \o rest)[j] = rest[j - i]
          BY <1>1, <2>3, <2>4, <2>7, <4>2
        <5>3. rest[j - i] = s[(j - i) + i + 1]
          BY <2>4, <5>1
        <5> QED
          BY <1>1, <4>2, <5>1, <5>2, <5>3
      <4> QED
        BY <1>1, <2>2, <4>1, <4>2
    <3> QED
      BY <3>1, <3>2 DEF Thinned
  <2>9. /\ entries' \in Table /\ DiffersIn(b, entries, entries')
        /\ Thinned(s, entries'[b], i) /\ Len(entries'[b]) = n - 1
        /\ \A c \in Bucket : c # b => Len(entries'[c]) <= size[c]
    BY <1>3, <2>5, <2>7, <2>8
  <2>10. size' \in [Bucket -> Nat]
    BY <1>1, <1>2, <2>6
  <2>11. \A c \in Bucket : Len(entries'[c]) <= size'[c]
    BY <1>1, <1>2, <2>6, <2>9
  <2> QED
    BY <2>6, <2>9, <2>10, <2>11 DEF b, s
<1> QED
  BY <1>4, <1>5, <1>6 DEF Take

(* ezi_hash_table_remove() of a key that is there.                         *)
LEMMA RemovedStep ==
    ASSUME TableInv, NEW k \in Key, Found(k), size[Hash[k]] > 0, Take(k),
           count' = count - 1, bodies' = bodies - 1,
           Returns("remove", k, "done"), conduct' \in Conduct,
           UNCHANGED <<open, lists, lost>>
    PROVE  TableInv'
<1> DEFINE b == Hash[k]
<1>1. /\ b \in Bucket /\ entries \in Table /\ entries' \in Table
      /\ Len(entries[b]) \in Nat /\ Len(entries'[b]) \in Nat
      /\ count \in Nat /\ bodies \in Nat
  BY TypesHold, TakeThins, Buckets DEF TableInv
<1>2. /\ size' \in [Bucket -> Nat] /\ hangs' \in SUBSET Bucket
      /\ DiffersIn(b, entries, entries')
      /\ \A c \in Bucket : Len(entries'[c]) <= size'[c]
  BY TakeThins
<1>3. PICK i : Thinned(entries[b], entries'[b], i)
  BY TakeThins
<1> HIDE DEF b
<1>4. Single(entries')
  BY <1>1, <1>2, <1>3, ThinnedIsSingle DEF TableInv
<1>5. DiffersIn(b, entries', entries) /\ Len(entries[b]) = Len(entries'[b]) + 1
  BY <1>1, <1>2, <1>3 DEF DiffersIn, Thinned
<1>6. PICK at : /\ at \notin Positions(entries')
                /\ Positions(entries) = Positions(entries') \cup {at}
  BY <1>1, <1>5, Grown
<1>7. Positions(entries') = Positions(entries) \ {at} /\ at \in Positions(entries)
  BY <1>6
<1>8. Counted(entries', count')
  BY <1>7, FS_RemoveElement DEF TableInv, Counted
<1>9. count > 0
  BY <1>1, <1>7, FS_EmptySet DEF TableInv, Counted
<1>10. count' \in Nat /\ bodies' \in 0..MaxBodies /\ count' <= bodies'
  BY <1>1, <1>9, BodiesAssumption DEF TableInv, TypeOK
<1>11. TypeOK'
  <2>1. call'.key = k
    BY DEF Returns
  <2>2. entries' \in [Bucket -> Seq([key : Key, value : Value])]
    BY <1>1 DEF Table, Entry
  <2> QED
    BY <1>2, <1>10, <2>1, <2>2 DEF Returns, TableInv, TypeOK
<1> QED
  BY <1>2, <1>4, <1>8, <1>10, <1>11 DEF TableInv

(* ezi_hash_table_remove() as a whole.                                     *)
LEMMA RemoveStep ==
    ASSUME TableInv, NEW k \in Key, Remove(k)
    PROVE  TableInv'
<1>1. CASE Fails("remove", k)
  BY <1>1, FailedCall DEF Fails
<1>2. CASE ~Fails("remove", k)
  <2>1. /\ Found(k) /\ size[Hash[k]] > 0 /\ Take(k)
        /\ count' = count - 1 /\ bodies' = bodies - 1
        /\ Returns("remove", k, "done") /\ UNCHANGED <<open, lists, lost>>
    BY <1>2 DEF Remove
  <2>2. conduct' \in Conduct
    BY <1>2 DEF Remove, Conduct
  <2> QED
    BY <2>1, <2>2, RemovedStep
<1> QED
  BY <1>1, <1>2

(* What clear and free do to the buckets.                                  *)
LEMMA EmptiedStep ==
    ASSUME TableInv, Emptied, bodies' \in 0..bodies,
           open' \in BOOLEAN, defined' \in BOOLEAN, conduct' \in Conduct,
           call'.key \in Key \cup {NULL}
    PROVE  TableInv'
<1>1. /\ entries' = NoEntries /\ size' = [b \in Bucket |-> 0]
      /\ hangs' = {} /\ count' = 0 /\ lists' \subseteq lists /\ lost' = lost
  BY DEF Emptied
<1>2. Single(entries') /\ \A b \in Bucket : Len(entries'[b]) <= size'[b]
  BY <1>1, NoEntriesIsEmpty
<1>3. Counted(entries', count')
  BY <1>1, NoEntriesIsEmpty, FS_EmptySet DEF Counted
<1>4. bodies' \in 0..MaxBodies /\ count' <= bodies'
  BY <1>1, TypesHold, BodiesAssumption DEF TableInv, TypeOK
<1>5. entries' \in [Bucket -> Seq([key : Key, value : Value])]
  BY <1>1, NoEntriesIsEmpty DEF Table, Entry
<1>6. TypeOK'
  BY <1>1, <1>4, <1>5 DEF TableInv, TypeOK
<1> QED
  BY <1>2, <1>3, <1>4, <1>6 DEF TableInv

-----------------------------------------------------------------------------
(* The invariant holds at first.                                           *)
LEMMA InvAtFirst == ASSUME Init PROVE TableInv
<1>1. entries \in Table /\ Single(entries)
  BY NoEntriesIsEmpty DEF Init
<1>2. Counted(entries, count) /\ count <= bodies
  BY NoEntriesIsEmpty, FS_EmptySet DEF Init, Counted
<1>3. \A b \in Bucket : Len(entries[b]) <= size[b]
  BY NoEntriesIsEmpty DEF Init
<1>4. TypeOK
  <2>1. entries \in [Bucket -> Seq([key : Key, value : Value])]
    BY <1>1 DEF Table, Entry
  <2>2. bodies \in 0..MaxBodies /\ count \in Nat /\ size \in [Bucket -> Nat]
    BY BodiesAssumption DEF Init
  <2>3. call.key = NULL /\ hangs = {} /\ lists = {}
    BY DEF Init
  <2> QED
    BY <2>1, <2>2, <2>3 DEF Init, TypeOK, Conduct
<1> QED
  BY <1>1, <1>2, <1>3, <1>4 DEF TableInv

(* Every call keeps it.                                                    *)
LEMMA InvStep == ASSUME TableInv, [Next]_vars PROVE TableInv'
<1>1. ASSUME NEW k \in Key, NEW v \in Value, Set(k, v) PROVE TableInv'
  <2>1. CASE Fails("set", k)
    BY <2>1, FailedCall DEF Fails
  <2>2. CASE /\ Overwrite(k, v) \/ Insert(k, v)
             /\ Returns("set", k, "done") /\ UNCHANGED <<open, hangs, lost, conduct>>
    BY <2>2, OverwriteStep, InsertStep
  <2>3. CASE Returns("set", k, "failed") /\ LosesBody
    BY <2>3, LosesBodyStep
  <2> QED
    BY <1>1, <2>1, <2>2, <2>3 DEF Set
<1>2. ASSUME NEW k \in Key, Get(k) PROVE TableInv'
  BY <1>2, FailedCall DEF Get, Fails
<1>3. ASSUME NEW k \in Key, HasKey(k) PROVE TableInv'
  BY <1>3, FailedCall DEF HasKey, Fails
<1>4. ASSUME NEW k \in Key, Remove(k) PROVE TableInv'
  BY <1>4, RemoveStep
<1>5. CASE Clear
  <2>1. call'.key = NULL /\ defined' \in BOOLEAN /\ conduct' \in Conduct
        /\ open' \in BOOLEAN
    BY <1>5 DEF Clear, Returns, TableInv, TypeOK, Conduct
  <2>2. bodies' \in 0..bodies /\ Emptied
    BY <1>5, TypesHold DEF Clear, TableInv
  <2> QED
    BY <2>1, <2>2, EmptiedStep
<1>6. CASE Free
  <2>1. call'.key = NULL /\ defined' \in BOOLEAN /\ conduct' \in Conduct
        /\ open' \in BOOLEAN
    BY <1>6 DEF Free, Returns, TableInv, TypeOK
  <2>2. bodies' = bodies - count /\ Emptied
    BY <1>6 DEF Free, TableInv, Counted
  <2>3. bodies' \in 0..bodies
    BY <2>2, TypesHold DEF TableInv
  <2> QED
    BY <2>1, <2>2, <2>3, EmptiedStep
<1>7. CASE Reinit
  <2>1. call'.key = NULL /\ defined' \in BOOLEAN /\ conduct' \in Conduct
        /\ open' \in BOOLEAN
        /\ UNCHANGED <<entries, size, hangs, count, lists, bodies, lost>>
    BY <1>7 DEF Reinit, Returns, TableInv, TypeOK
  <2> QED
    BY <2>1, SameTable
<1>8. CASE Undefined
  BY <1>8, SameTable DEF Undefined, Unchanged, TableInv, TypeOK
<1>9. CASE UNCHANGED vars
  BY <1>9, SameTable DEF vars, TableInv, TypeOK
<1> QED
  BY <1>1, <1>2, <1>3, <1>4, <1>5, <1>6, <1>7, <1>8, <1>9 DEF Next

(* The invariant, and with it the types, holds always.                     *)
THEOREM TableTypes == Spec => []TypeOK
<1>1. TableInv => TypeOK
  BY DEF TableInv
<1>2. Init => TableInv
  BY InvAtFirst
<1>3. TableInv /\ [Next]_vars => TableInv'
  BY InvStep
<1> QED
  BY <1>1, <1>2, <1>3, PTL DEF Spec

(* Whatever calls of get, set, remove, clear and free are made, a key has  *)
(* at most one entry, in its own bucket.                                   *)
THEOREM KeysAreUnique == Spec => []OneEntryPerKey
<1>1. TableInv => OneEntryPerKey
  BY InvMeans
<1>2. Init => TableInv
  BY InvAtFirst
<1>3. TableInv /\ [Next]_vars => TableInv'
  BY InvStep
<1> QED
  BY <1>1, <1>2, <1>3, PTL DEF Spec

(* And the count of the table is the number of its entries, although that  *)
(* of a bucket may not be.                                                 *)
THEOREM CountIsExact == Spec => []CountsAgree
<1>1. TableInv => CountsAgree
  BY InvMeans
<1>2. Init => TableInv
  BY InvAtFirst
<1>3. TableInv /\ [Next]_vars => TableInv'
  BY InvStep
<1> QED
  BY <1>1, <1>2, <1>3, PTL DEF Spec

-----------------------------------------------------------------------------
(* The memory of the table, as long as only calls of the program were made.*)

(* Every value is held once.                                               *)
Once(ents) ==
    \A b, c \in Bucket : \A i \in 1..Len(ents[b]), j \in 1..Len(ents[c]) :
        ents[b][i].value = ents[c][j].value => b = c /\ i = j

(* The inductive strengthening of OnlySetLeaks: it counts by `count', and  *)
(* needs that no two entries share the dependencies of a value.            *)
MemoryInv ==
    /\ conduct = "program" =>
          /\ lists = Held(entries)
          /\ Once(entries)
          /\ bodies = count + lost
    /\ ~open => count = 0

(* The values held are those of the entries of the buckets.                *)
LEMMA HeldIs ==
    ASSUME NEW e \in Table, NEW x
    PROVE  x \in Held(e) <=>
              \E b \in Bucket : \E i \in 1..Len(e[b]) : x = e[b][i].value
<1>1. ASSUME x \in Held(e)
      PROVE  \E b \in Bucket : \E i \in 1..Len(e[b]) : x = e[b][i].value
  <2>1. PICK at \in Positions(e) : x = e[at[1]][at[2]].value
    BY <1>1 DEF Held
  <2>2. PICK b \in Bucket : \E i \in 1..Len(e[b]) : at = <<b, i>>
    BY <2>1, PositionIs
  <2> QED
    BY <2>1, <2>2
<1>2. ASSUME NEW b \in Bucket, NEW i \in 1..Len(e[b]), x = e[b][i].value
      PROVE  x \in Held(e)
  <2>1. <<b, i>> \in Positions(e)
    BY PositionIs
  <2>2. e[<<b, i>>[1]][<<b, i>>[2]].value = x
    BY <1>2
  <2> QED
    BY <2>1, <2>2 DEF Held
<1> QED
  BY <1>1, <1>2

(* Values that are held once are as many as the entries.                   *)
LEMMA HeldOnceCount ==
    ASSUME NEW e \in Table, Once(e), IsFiniteSet(Positions(e))
    PROVE  Cardinality(Held(e)) = Cardinality(Positions(e))
<1> DEFINE f == [at \in Positions(e) |-> e[at[1]][at[2]].value]
<1>1. f \in [Positions(e) -> Held(e)]
  BY DEF Held
<1>2. \A x \in Held(e) : \E at \in Positions(e) : f[at] = x
  BY DEF Held
<1>3. ASSUME NEW at \in Positions(e), NEW bt \in Positions(e), f[at] = f[bt]
      PROVE  at = bt
  <2>1. PICK b \in Bucket : \E i \in 1..Len(e[b]) : at = <<b, i>>
    BY PositionIs
  <2>2. PICK i \in 1..Len(e[b]) : at = <<b, i>>
    BY <2>1
  <2>3. PICK c \in Bucket : \E j \in 1..Len(e[c]) : bt = <<c, j>>
    BY PositionIs
  <2>4. PICK j \in 1..Len(e[c]) : bt = <<c, j>>
    BY <2>3
  <2>5. e[b][i].value = e[c][j].value
    BY <1>3, <2>2, <2>4
  <2> QED
    BY <2>2, <2>4, <2>5 DEF Once
<1> HIDE DEF f
<1>4. f \in Bijection(Positions(e), Held(e))
  BY <1>1, <1>2, <1>3 DEF Bijection, Injection, Surjection, IsInjective
<1>5. ExistsBijection(Positions(e), Held(e))
  BY <1>4 DEF ExistsBijection
<1> QED
  BY <1>5, FS_Bijection

(* A table that counts nothing holds nothing.                              *)
LEMMA NoneCounted ==
    ASSUME TableInv, count = 0
    PROVE  Held(entries) = {} /\ \A b \in Bucket : Len(entries[b]) = 0
<1>1. Positions(entries) = {}
  BY FS_EmptySet DEF TableInv, Counted
<1>2. entries \in Table
  BY TypesHold DEF TableInv
<1>3. ASSUME NEW b \in Bucket PROVE Len(entries[b]) = 0
  <2>1. Len(entries[b]) \in Nat
    BY <1>2, Buckets
  <2>2. Len(entries[b]) > 0 => <<b, 1>> \in Positions(entries)
    BY <1>2, <2>1, PositionIs
  <2> QED
    BY <1>1, <2>1, <2>2
<1> QED
  BY <1>1, <1>3 DEF Held

(* The invariant gives the property.                                       *)
LEMMA MemoryMeans == ASSUME TableInv, MemoryInv PROVE OnlySetLeaks
<1>1. entries \in Table /\ lost \in Nat
  BY TypesHold DEF TableInv, TypeOK
<1>2. Counted(entries, count)
  BY DEF TableInv
<1>3. Once(entries) => Cardinality(Held(entries)) = Cardinality(Positions(entries))
  BY <1>1, <1>2, HeldOnceCount DEF Counted
<1>4. count = 0 => Held(entries) = {} /\ 0 + lost = lost
  BY <1>1, NoneCounted
<1> QED
  BY <1>2, <1>3, <1>4 DEF MemoryInv, OnlySetLeaks, Counted

(* A value that is overwritten gives its place to the new one.             *)
LEMMA OverwriteMemory ==
    ASSUME TableInv, TableInv', NEW k \in Key, NEW v \in Value, Overwrite(k, v),
           v \notin Held(entries), Once(entries), lists = Held(entries)
    PROVE  lists' = Held(entries') /\ Once(entries')
<1> DEFINE b == Hash[k]
           p == Position(k)
           old == entries[b][p].value
<1>1. /\ b \in Bucket /\ entries \in Table /\ entries' \in Table
      /\ entries[b] \in Seq(Entry)
  BY TypesHold, Buckets DEF TableInv, TypeOK, Table, Entry
<1>2. p \in 1..Len(entries[b]) /\ entries[b][p] \in Entry
  BY <1>1, Buckets, PositionFinds DEF Overwrite
<1>3. /\ entries' = [entries EXCEPT ![b][p].value = v]
      /\ lists' = (lists \ {old}) \cup {v}
  BY DEF Overwrite
<1> HIDE DEF b, p
<1>4. \A c \in Bucket :
         /\ Len(entries'[c]) = Len(entries[c])
         /\ \A i \in 1..Len(entries[c]) :
               entries'[c][i].value = IF c = b /\ i = p THEN v ELSE entries[c][i].value
  <2>1. \A c \in Bucket : entries[c] \in Seq(Entry) /\ Len(entries[c]) \in Nat
    BY <1>1, Buckets
  <2>2. entries'[b] = [entries[b] EXCEPT ![p] = [entries[b][p] EXCEPT !.value = v]]
    BY <1>1, <1>3 DEF Table
  <2>3. \A c \in Bucket : c # b => entries'[c] = entries[c]
    BY <1>1, <1>3 DEF Table
  <2>4. [entries[b][p] EXCEPT !.value = v] \in Entry
        /\ [entries[b][p] EXCEPT !.value = v].value = v
    BY <1>2 DEF Entry
  <2>5. /\ Len(entries'[b]) = Len(entries[b])
        /\ \A i \in 1..Len(entries[b]) :
              entries'[b][i] = IF i = p THEN [entries[b][p] EXCEPT !.value = v]
                                        ELSE entries[b][i]
    BY <1>1, <1>2, <2>2, <2>4, ExceptSeq
  <2> QED
    BY <2>1, <2>3, <2>4, <2>5
<1>5. \A c \in Bucket : \A i \in 1..Len(entries[c]) :
          /\ entries[c][i].value # v
          /\ entries[c][i].value = old => c = b /\ i = p
  <2>1. \A c \in Bucket : \A i \in 1..Len(entries[c]) : entries[c][i].value # v
    BY <1>1, HeldIs
  <2> QED
    BY <1>1, <1>2, <2>1 DEF Once
<1>6. Once(entries')
  BY <1>4, <1>5 DEF Once
<1>7. ASSUME NEW x PROVE x \in Held(entries') <=> x \in (Held(entries) \ {old}) \cup {v}
  <2>1. ASSUME NEW c \in Bucket, NEW i \in 1..Len(entries'[c]), x = entries'[c][i].value
        PROVE  x \in (Held(entries) \ {old}) \cup {v}
    <3>1. CASE c = b /\ i = p
      BY <1>4, <2>1, <3>1
    <3>2. CASE ~(c = b /\ i = p)
      <4>1. i \in 1..Len(entries[c]) /\ x = entries[c][i].value
        BY <1>4, <2>1, <3>2
      <4> QED
        BY <1>1, <1>5, <3>2, <4>1, HeldIs
    <3> QED
      BY <3>1, <3>2
  <2>2. v \in Held(entries')
    <3>1. p \in 1..Len(entries'[b]) /\ entries'[b][p].value = v
      BY <1>1, <1>2, <1>4
    <3> QED
      BY <1>1, <3>1, HeldIs
  <2>3. ASSUME x \in Held(entries), x # old PROVE x \in Held(entries')
    <3>1. PICK c \in Bucket : \E i \in 1..Len(entries[c]) : x = entries[c][i].value
      BY <1>1, <2>3, HeldIs
    <3>2. PICK i \in 1..Len(entries[c]) : x = entries[c][i].value
      BY <3>1
    <3>3. i \in 1..Len(entries'[c]) /\ x = entries'[c][i].value
      BY <1>4, <2>3, <3>2
    <3> QED
      BY <1>1, <3>3, HeldIs
  <2>4. x \in Held(entries') =>
           \E c \in Bucket : \E i \in 1..Len(entries'[c]) : x = entries'[c][i].value
    BY <1>1, HeldIs
  <2> QED
    BY <2>1, <2>2, <2>3, <2>4
<1> QED
  BY <1>3, <1>6, <1>7

(* A new entry brings a new value.                                         *)
LEMMA InsertMemory ==
    ASSUME TableInv, TableInv', NEW k \in Key, NEW v \in Value, Insert(k, v),
           v \notin Held(entries), Once(entries), lists = Held(entries)
    PROVE  lists' = Held(entries') /\ Once(entries')
<1> DEFINE b == Hash[k]
           x == [key |-> k, value |-> v]
<1>1. /\ b \in Bucket /\ entries \in Table /\ entries' \in Table
      /\ entries[b] \in Seq(Entry) /\ Len(entries[b]) \in Nat
  BY TypesHold, Buckets DEF TableInv, TypeOK, Table, Entry
<1>2. x \in Entry /\ <<x>> \in Seq(Entry) /\ Len(<<x>>) = 1 /\ <<x>>[1] = x /\ x.value = v
  BY DEF Entry
<1>3. entries' = [entries EXCEPT ![b] = <<x>> \o entries[b]] /\ lists' = lists \cup {v}
  BY <1>1 DEF Insert, Table
<1> HIDE DEF b, x
<1>4. /\ Len(entries'[b]) = Len(entries[b]) + 1 /\ entries'[b][1] = x
      /\ \A i \in 1..Len(entries[b]) : entries'[b][i + 1] = entries[b][i]
      /\ \A i \in 2..Len(entries'[b]) : entries'[b][i] = entries[b][i - 1]
  <2>1. /\ Len(<<x>> \o entries[b]) = 1 + Len(entries[b])
        /\ \A j \in 1..(1 + Len(entries[b])) :
              (<<x>> \o entries[b])[j] = IF j <= 1 THEN <<x>>[j] ELSE entries[b][j - 1]
    BY <1>1, <1>2, ConcatProperties
  <2>2. entries'[b] = <<x>> \o entries[b]
    BY <1>1, <1>3 DEF Table
  <2> QED
    BY <1>1, <1>2, <2>1, <2>2
<1>5. \A c \in Bucket : c # b => entries'[c] = entries[c]
  BY <1>1, <1>3 DEF Table
<1>6. \A c \in Bucket : \A i \in 1..Len(entries[c]) : entries[c][i].value # v
  BY <1>1, HeldIs
<1>7. \A c \in Bucket : \A i \in 1..Len(entries'[c]) :
          \/ c = b /\ i = 1 /\ entries'[c][i].value = v
          \/ c = b /\ i - 1 \in 1..Len(entries[c])
                   /\ entries'[c][i].value = entries[c][i - 1].value
          \/ c # b /\ i \in 1..Len(entries[c])
                   /\ entries'[c][i].value = entries[c][i].value
  <2>1. ASSUME NEW i \in 1..Len(entries'[b])
        PROVE  \/ i = 1
               \/ i \in 2..Len(entries'[b]) /\ i - 1 \in 1..Len(entries[b])
    BY <1>1, <1>4
  <2> SUFFICES ASSUME NEW c \in Bucket, NEW i \in 1..Len(entries'[c])
               PROVE  \/ c = b /\ i = 1 /\ entries'[c][i].value = v
                      \/ c = b /\ i - 1 \in 1..Len(entries[c])
                               /\ entries'[c][i].value = entries[c][i - 1].value
                      \/ c # b /\ i \in 1..Len(entries[c])
                               /\ entries'[c][i].value = entries[c][i].value
    OBVIOUS
  <2>2. CASE c # b
    BY <1>5, <2>2
  <2>3. CASE c = b /\ i = 1
    BY <1>2, <1>4, <2>3
  <2>4. CASE c = b /\ i # 1
    BY <1>4, <2>1, <2>4
  <2> QED
    BY <2>2, <2>3, <2>4
<1>8. Once(entries')
  <2> SUFFICES ASSUME NEW c \in Bucket, NEW d \in Bucket,
                      NEW i \in 1..Len(entries'[c]), NEW j \in 1..Len(entries'[d]),
                      entries'[c][i].value = entries'[d][j].value
               PROVE  c = d /\ i = j
    BY DEF Once
  <2>1. i \in Nat /\ j \in Nat
    BY <1>1, Buckets
  <2>5. /\ c = b /\ i = 1 <=> entries'[c][i].value = v
        /\ d = b /\ j = 1 <=> entries'[d][j].value = v
    <3>1. ASSUME NEW g \in Bucket, NEW l \in 1..Len(entries'[g])
          PROVE  g = b /\ l = 1 <=> entries'[g][l].value = v
      <4>1. CASE g = b /\ l = 1
        BY <1>2, <1>4, <4>1
      <4>2. CASE ~(g = b /\ l = 1)
        <5>1. \/ g = b /\ l - 1 \in 1..Len(entries[g])
                 /\ entries'[g][l].value = entries[g][l - 1].value
              \/ l \in 1..Len(entries[g])
                 /\ entries'[g][l].value = entries[g][l].value
          BY <1>7, <4>2
        <5>2. \A n \in 1..Len(entries[g]) : entries[g][n].value # v
          BY <1>6
        <5> QED
          BY <4>2, <5>1, <5>2
      <4> QED
        BY <4>1, <4>2
    <3> QED
      BY <3>1
  <2>2. CASE c = b /\ i = 1
    BY <2>2, <2>5
  <2>3. CASE d = b /\ j = 1
    BY <2>3, <2>5
  <2>4. CASE ~(c = b /\ i = 1) /\ ~(d = b /\ j = 1)
    <3> DEFINE m == IF c = b THEN i - 1 ELSE i
               n == IF d = b THEN j - 1 ELSE j
    <3>1. m \in 1..Len(entries[c]) /\ entries'[c][i].value = entries[c][m].value
      BY <1>7, <2>4
    <3>2. n \in 1..Len(entries[d]) /\ entries'[d][j].value = entries[d][n].value
      BY <1>7, <2>4
    <3> HIDE DEF m, n
    <3>3. entries[c][m].value = entries[d][n].value
      BY <3>1, <3>2
    <3>4. m \in 1..Len(entries[c]) /\ n \in 1..Len(entries[d])
      BY <3>1, <3>2
    <3>5. c = d /\ m = n
      BY <3>3, <3>4 DEF Once
    <3> QED
      BY <2>1, <3>5 DEF m, n
  <2> QED
    BY <2>2, <2>3, <2>4
<1>9. ASSUME NEW y PROVE y \in Held(entries') <=> y \in Held(entries) \cup {v}
  <2>1. ASSUME NEW c \in Bucket, NEW i \in 1..Len(entries'[c]), y = entries'[c][i].value
        PROVE  y \in Held(entries) \cup {v}
    BY <1>1, <1>7, <2>1, HeldIs
  <2>2. ASSUME NEW c \in Bucket, NEW i \in 1..Len(entries[c]), y = entries[c][i].value
        PROVE  y \in Held(entries')
    <3>1. CASE c = b
      <4>1. i + 1 \in 1..Len(entries'[c]) /\ entries'[c][i + 1].value = y
        BY <1>1, <1>4, <2>2, <3>1
      <4> QED
        BY <1>1, <4>1, HeldIs
    <3>2. CASE c # b
      <4>1. i \in 1..Len(entries'[c]) /\ entries'[c][i].value = y
        BY <1>5, <2>2, <3>2
      <4> QED
        BY <1>1, <4>1, HeldIs
    <3> QED
      BY <3>1, <3>2
  <2>3. v \in Held(entries')
    <3>1. 1 \in 1..Len(entries'[b]) /\ entries'[b][1].value = v
      BY <1>1, <1>2, <1>4
    <3> QED
      BY <1>1, <3>1, HeldIs
  <2> QED
    BY <1>1, <2>1, <2>2, <2>3, HeldIs
<1> QED
  BY <1>3, <1>8, <1>9

(* Every call keeps the invariant.                                         *)
LEMMA MemoryStep == ASSUME TableInv, TableInv', MemoryInv, [Next]_vars PROVE MemoryInv'
<1>1. ASSUME UNCHANGED <<entries, lists, bodies, lost, count>>,
             conduct' = "program" => conduct = "program", ~open' => ~open
      PROVE  MemoryInv'
  BY <1>1 DEF MemoryInv
<1>2. ASSUME NEW op, NEW k, Fails(op, k) PROVE MemoryInv'
  BY <1>1, <1>2 DEF Fails, Unchanged
<1>3. ASSUME NEW k \in Key, NEW v \in Value, Set(k, v) PROVE MemoryInv'
  <2>1. CASE Fails("set", k)
    BY <1>2, <2>1
  <2>2. CASE /\ open /\ v \notin lists /\ (Overwrite(k, v) \/ Insert(k, v))
             /\ Returns("set", k, "done") /\ UNCHANGED <<open, hangs, lost, conduct>>
    <3>1. conduct = "program" => lists' = Held(entries') /\ Once(entries')
      BY <2>2, OverwriteMemory, InsertMemory DEF MemoryInv
    <3>2. count \in Nat /\ lost \in Nat
      BY DEF TableInv, TypeOK
    <3>3. bodies = count + lost => bodies' = count' + lost'
      BY <2>2, <3>2 DEF Overwrite, Insert
    <3> QED
      BY <2>2, <3>1, <3>3 DEF MemoryInv
  <2>3. CASE Returns("set", k, "failed") /\ LosesBody
    <3>1. count \in Nat /\ lost \in Nat
      BY DEF TableInv, TypeOK
    <3>2. bodies = count + lost => bodies' = count' + lost'
      BY <2>3, <3>1 DEF LosesBody
    <3> QED
      BY <2>3, <3>2 DEF LosesBody, MemoryInv
  <2> QED
    BY <1>3, <2>1, <2>2, <2>3 DEF Set
<1>4. ASSUME NEW k \in Key, Get(k) \/ HasKey(k) PROVE MemoryInv'
  BY <1>1, <1>2, <1>4 DEF Get, HasKey, Returns, Unchanged
<1>5. ASSUME NEW k \in Key, Remove(k) PROVE MemoryInv'
  <2>1. CASE Fails("remove", k)
    BY <1>2, <2>1
  <2>2. CASE ~Fails("remove", k)
    <3>1. open /\ open' = open /\ conduct' \in {"safe", "any"}
      BY <1>5, <2>2 DEF Remove
    <3> QED
      BY <3>1 DEF MemoryInv
  <2> QED
    BY <2>1, <2>2
<1>6. NoEntries \in Table /\ Held(NoEntries) = {} /\ Once(NoEntries)
  <2>1. \A b \in Bucket : Len(NoEntries[b]) = 0
    BY NoEntriesIsEmpty
  <2>2. Once(NoEntries)
    BY <2>1 DEF Once
  <2> QED
    BY <2>2, NoEntriesIsEmpty DEF Held
<1>7. ASSUME Emptied PROVE lists = Held(entries) => lists' = Held(entries')
  BY <1>6, <1>7 DEF Emptied
<1>8. CASE Clear
  <2>1. /\ Emptied /\ bodies' = bodies /\ count' = 0 /\ entries' = NoEntries
        /\ lost' = lost
        /\ conduct' = IF conduct = "program" /\ count > 0 THEN "safe" ELSE conduct
    BY <1>8 DEF Clear, Emptied
  <2>2. count \in Nat
    BY TypesHold DEF TableInv
  <2> QED
    BY <1>6, <1>7, <2>1, <2>2 DEF MemoryInv
<1>9. CASE Free
  <2>1. /\ Emptied /\ bodies' = bodies - count /\ count' = 0
        /\ entries' = NoEntries /\ conduct' = conduct /\ lost' = lost
    BY <1>9 DEF Free, Emptied, TableInv, Counted
  <2>2. count \in Nat /\ lost \in Nat
    BY DEF TableInv, TypeOK
  <2> QED
    BY <1>6, <1>7, <2>1, <2>2 DEF MemoryInv
<1>10. CASE Reinit
  BY <1>1, <1>10 DEF Reinit
<1>11. CASE Undefined
  BY <1>1, <1>11 DEF Undefined, Unchanged
<1>12. CASE UNCHANGED vars
  BY <1>1, <1>12 DEF vars
<1> QED
  BY <1>3, <1>4, <1>5, <1>8, <1>9, <1>10, <1>11, <1>12 DEF Next

(* The calls the program makes, in any number and order, free nothing      *)
(* twice and leak nothing but the bodies a set lost for want of a node:    *)
(* the dependencies allocated are those of the values in the table, each   *)
(* held by one entry, and the bodies are those of the entries and those.   *)
THEOREM OnlyLostBodiesLeak == Spec => []OnlySetLeaks
<1>1. TableInv /\ MemoryInv => OnlySetLeaks
  BY MemoryMeans
<1>2. Init => TableInv /\ MemoryInv
  <2> SUFFICES ASSUME Init PROVE TableInv /\ MemoryInv
    OBVIOUS
  <2>1. TableInv
    BY InvAtFirst
  <2>2. Held(entries) = {} /\ Once(entries)
    BY NoEntriesIsEmpty DEF Init, Held, Once
  <2> QED
    BY <2>1, <2>2 DEF Init, MemoryInv
<1>3. TableInv /\ MemoryInv /\ [Next]_vars => TableInv' /\ MemoryInv'
  BY InvStep, MemoryStep
<1> QED
  BY <1>1, <1>2, <1>3, PTL DEF Spec

-----------------------------------------------------------------------------
(* The refinement of the Dictionary.                                       *)

(* Entry i of table e is about key k.                                      *)
IsEntry(e, k, i) == i \in 1..Len(e[Hash[k]]) /\ e[Hash[k]][i].key = k

(* What a walk through the table finds.                                    *)
DictOf(e) ==
    [k \in {j \in Key : \E i \in 1..Len(e[Hash[j]]) : IsEntry(e, j, i)} |->
        e[Hash[k]][CHOOSE i \in 1..Len(e[Hash[k]]) : IsEntry(e, k, i)].value]

(* A key is in the dictionary when it has an entry, with the value of any. *)
LEMMA DictOfIs ==
    ASSUME NEW e \in Table, Single(e), NEW k \in Key
    PROVE  /\ k \in DOMAIN DictOf(e) <=> \E i \in 1..Len(e[Hash[k]]) : IsEntry(e, k, i)
           /\ \A i : IsEntry(e, k, i) =>
                     k \in DOMAIN DictOf(e) /\ DictOf(e)[k] = e[Hash[k]][i].value
<1>1. Hash[k] \in Bucket
  BY HashAssumption
<1>2. \A i, j : IsEntry(e, k, i) /\ IsEntry(e, k, j) => i = j
  BY <1>1 DEF IsEntry, Single, OwnKeys
<1>3. k \in DOMAIN DictOf(e) <=> \E i \in 1..Len(e[Hash[k]]) : IsEntry(e, k, i)
  BY DEF DictOf
<1>4. ASSUME NEW i, IsEntry(e, k, i)
      PROVE  k \in DOMAIN DictOf(e) /\ DictOf(e)[k] = e[Hash[k]][i].value
  <2> DEFINE c == CHOOSE j \in 1..Len(e[Hash[k]]) : IsEntry(e, k, j)
  <2>1. i \in 1..Len(e[Hash[k]])
    BY <1>4 DEF IsEntry
  <2>2. IsEntry(e, k, c)
    BY <1>4, <2>1
  <2>3. c = i
    BY <1>2, <1>4, <2>2
  <2>4. DictOf(e)[k] = e[Hash[k]][c].value
    BY <1>3, <1>4, <2>1 DEF DictOf
  <2> HIDE DEF c
  <2> QED
    BY <1>3, <1>4, <2>1, <2>3, <2>4
<1> QED
  BY <1>3, <1>4

(* The dictionary of the table is what its walks find.                     *)
LEMMA DictIs == ASSUME TableInv PROVE Dict = DictOf(entries)
<1>1. entries \in Table /\ Single(entries)
  BY TypesHold DEF TableInv
<1>2. \A k \in Key : DOMAIN entries[Hash[k]] = 1..Len(entries[Hash[k]])
  BY <1>1, Buckets, HashAssumption
<1>3. \A k \in Key : \A i : At(k, i) <=> IsEntry(entries, k, i)
  BY <1>2 DEF At, IsEntry
<1>4. \A k \in Key : Found(k) <=> k \in DOMAIN DictOf(entries)
  BY <1>1, <1>2, <1>3, DictOfIs DEF Found
<1>5. DOMAIN DictOf(entries) \subseteq Key
  BY DEF DictOf
<1>6. {j \in Key : Found(j)} = DOMAIN DictOf(entries)
  BY <1>4, <1>5
<1>7. ASSUME NEW k \in DOMAIN DictOf(entries)
      PROVE  entries[Hash[k]][Position(k)].value = DictOf(entries)[k]
  <2>1. k \in Key /\ Found(k)
    BY <1>4, <1>5
  <2>2. At(k, Position(k))
    BY <2>1, PositionFinds
  <2> QED
    BY <1>1, <1>3, <2>1, <2>2, DictOfIs
<1>8. DictOf(entries) = [k \in DOMAIN DictOf(entries) |-> DictOf(entries)[k]]
  BY DEF DictOf
<1> QED
  BY <1>6, <1>7, <1>8 DEF Dict

(* So it is after a step.                                                  *)
LEMMA DictIsPrimed == TableInv' => Dict' = DictOf(entries')
<1>1. TableInv => Dict = DictOf(entries)
  BY DictIs
<1>2. TableInv' => (Dict = DictOf(entries))'
  BY <1>1, PTL
<1> QED
  BY <1>2

(* Table e has an entry of key k with value v.                             *)
Has(e, k, v) == \E i : IsEntry(e, k, i) /\ e[Hash[k]][i].value = v

(* Tables e and f have the same entries for all keys but k.                *)
KeepsOthers(e, f, k) ==
    \A j \in Key \ {k} :
        /\ \A i : IsEntry(e, j, i) => Has(f, j, e[Hash[j]][i].value)
        /\ \A i : IsEntry(f, j, i) => \E h : IsEntry(e, j, h)

(* What Dictionary!Set and Dictionary!Remove make of a dictionary d.       *)
IsSet(c, d, k, v)  == c = [j \in DOMAIN d \cup {k} |-> IF j = k THEN v ELSE d[j]]
IsWithout(c, d, k) == c = [j \in DOMAIN d \ {k} |-> d[j]]

(* How two tables differ as dictionaries when their buckets differ in the  *)
(* entry of one key only.                                                  *)
LEMMA DictOfSet ==
    ASSUME NEW e \in Table, Single(e), NEW f \in Table, Single(f),
           NEW k \in Key, NEW v,
           Has(f, k, v),
           KeepsOthers(e, f, k)
    PROVE  IsSet(DictOf(f), DictOf(e), k, v)
<1>1. DOMAIN DictOf(f) \subseteq Key /\ DOMAIN DictOf(e) \subseteq Key
  BY DEF DictOf
<1>2. \A g \in {e, f}, j \in Key :
         j \in DOMAIN DictOf(g) <=> \E i : IsEntry(g, j, i)
  <2>1. \A g, j, i : IsEntry(g, j, i) => i \in 1..Len(g[Hash[j]])
    BY DEF IsEntry
  <2> QED
    BY <2>1, DictOfIs
<1>3. k \in DOMAIN DictOf(f) /\ DictOf(f)[k] = v
  BY DictOfIs DEF Has
<1>4. DOMAIN DictOf(f) = DOMAIN DictOf(e) \cup {k}
  BY <1>1, <1>2, <1>3 DEF KeepsOthers, Has
<1>5. ASSUME NEW j \in DOMAIN DictOf(e) \ {k} PROVE DictOf(f)[j] = DictOf(e)[j]
  <2>1. j \in Key \ {k}
    BY <1>1
  <2>2. PICK i : IsEntry(e, j, i)
    BY <1>2, <2>1
  <2>3. PICK h : IsEntry(f, j, h) /\ f[Hash[j]][h].value = e[Hash[j]][i].value
    BY <2>1, <2>2 DEF KeepsOthers, Has
  <2> QED
    BY <2>1, <2>2, <2>3, DictOfIs
<1>6. DictOf(f) = [j \in DOMAIN DictOf(f) |-> DictOf(f)[j]]
  BY DEF DictOf
<1> QED
  BY <1>3, <1>4, <1>5, <1>6 DEF IsSet

(* The same of a key that loses its entry.                                 *)
LEMMA DictOfRemove ==
    ASSUME NEW e \in Table, Single(e), NEW f \in Table, Single(f), NEW k \in Key,
           \A i : ~IsEntry(f, k, i),
           KeepsOthers(e, f, k)
    PROVE  IsWithout(DictOf(f), DictOf(e), k)
<1>1. DOMAIN DictOf(f) \subseteq Key /\ DOMAIN DictOf(e) \subseteq Key
  BY DEF DictOf
<1>2. \A g \in {e, f}, j \in Key :
         j \in DOMAIN DictOf(g) <=> \E i : IsEntry(g, j, i)
  <2>1. \A g, j, i : IsEntry(g, j, i) => i \in 1..Len(g[Hash[j]])
    BY DEF IsEntry
  <2> QED
    BY <2>1, DictOfIs
<1>3. DOMAIN DictOf(f) = DOMAIN DictOf(e) \ {k}
  BY <1>1, <1>2 DEF KeepsOthers, Has
<1>4. ASSUME NEW j \in DOMAIN DictOf(e) \ {k} PROVE DictOf(f)[j] = DictOf(e)[j]
  <2>1. j \in Key \ {k}
    BY <1>1
  <2>2. PICK i : IsEntry(e, j, i)
    BY <1>2, <2>1
  <2>3. PICK h : IsEntry(f, j, h) /\ f[Hash[j]][h].value = e[Hash[j]][i].value
    BY <2>1, <2>2 DEF KeepsOthers, Has
  <2> QED
    BY <2>1, <2>2, <2>3, DictOfIs
<1>5. DictOf(f) = [j \in DOMAIN DictOf(f) |-> DictOf(f)[j]]
  BY DEF DictOf
<1> QED
  BY <1>3, <1>4, <1>5 DEF IsWithout

(* An overwritten value changes the value of its key only.                 *)
LEMMA OverwriteDict ==
    ASSUME TableInv, TableInv', NEW k \in Key, NEW v \in Value, Overwrite(k, v)
    PROVE  IsSet(Dict', Dict, k, v)
<1> DEFINE b == Hash[k]
           p == Position(k)
           x == [entries[b][p] EXCEPT !.value = v]
<1>1. /\ b \in Bucket /\ entries \in Table /\ entries' \in Table
      /\ entries[b] \in Seq(Entry) /\ Single(entries) /\ Single(entries')
  BY TypesHold, Buckets DEF TableInv, TypeOK, Table, Entry
<1>2. p \in 1..Len(entries[b]) /\ entries[b][p] \in Entry /\ entries[b][p].key = k
  BY <1>1, Buckets, PositionFinds DEF Overwrite, At
<1>3. x \in Entry /\ x.key = k /\ x.value = v
  BY <1>2 DEF Entry
<1>4. entries' = [entries EXCEPT ![b] = [entries[b] EXCEPT ![p] = x]]
  BY <1>1 DEF Overwrite, Table
<1> HIDE DEF p, x
<1>5. /\ entries'[b] = [entries[b] EXCEPT ![p] = x]
      /\ \A c \in Bucket : c # b => entries'[c] = entries[c]
  BY <1>1, <1>4 DEF Table
<1>6. /\ Len(entries'[b]) = Len(entries[b])
      /\ \A i \in 1..Len(entries[b]) :
            entries'[b][i] = IF i = p THEN x ELSE entries[b][i]
  BY <1>1, <1>2, <1>3, <1>5, ExceptSeq
<1>7. IsEntry(entries', k, p) /\ entries'[Hash[k]][p].value = v
  BY <1>2, <1>3, <1>6 DEF IsEntry
<1>8. ASSUME NEW j \in Key \ {k}, NEW i
      PROVE  /\ IsEntry(entries', j, i) <=> IsEntry(entries, j, i)
             /\ IsEntry(entries, j, i) =>
                   entries'[Hash[j]][i].value = entries[Hash[j]][i].value
  <2>1. CASE Hash[j] = b
    BY <1>2, <1>3, <1>6, <2>1 DEF IsEntry
  <2>2. CASE Hash[j] # b
    <3>1. Hash[j] \in Bucket
      BY HashAssumption
    <3> QED
      BY <1>5, <2>2, <3>1 DEF IsEntry
  <2> QED
    BY <2>1, <2>2
<1>9. IsSet(DictOf(entries'), DictOf(entries), k, v)
  <2>1. KeepsOthers(entries, entries', k)
    BY <1>8 DEF KeepsOthers, Has
  <2>2. Has(entries', k, v)
    BY <1>7 DEF Has
  <2> QED
    BY <1>1, <2>2, <2>1, DictOfSet
<1> QED
  BY <1>9, DictIs, DictIsPrimed

(* A new entry adds its key only.                                          *)
LEMMA InsertDict ==
    ASSUME TableInv, TableInv', NEW k \in Key, NEW v \in Value, Insert(k, v)
    PROVE  IsSet(Dict', Dict, k, v)
<1> DEFINE b == Hash[k]
           x == [key |-> k, value |-> v]
<1>1. /\ b \in Bucket /\ entries \in Table /\ entries' \in Table
      /\ entries[b] \in Seq(Entry) /\ Len(entries[b]) \in Nat
      /\ Single(entries) /\ Single(entries')
  BY TypesHold, Buckets DEF TableInv, TypeOK, Table, Entry
<1>2. /\ x \in Entry /\ <<x>> \in Seq(Entry) /\ Len(<<x>>) = 1 /\ <<x>>[1] = x
      /\ x.key = k /\ x.value = v
  BY DEF Entry
<1>3. entries' = [entries EXCEPT ![b] = <<x>> \o entries[b]]
  BY <1>1 DEF Insert, Table
<1> HIDE DEF x
<1>4. /\ entries'[b] = <<x>> \o entries[b]
      /\ \A c \in Bucket : c # b => entries'[c] = entries[c]
  BY <1>1, <1>3 DEF Table
<1>5. /\ Len(entries'[b]) = 1 + Len(entries[b])
      /\ \A i \in 1..(1 + Len(entries[b])) :
            entries'[b][i] = IF i <= 1 THEN <<x>>[i] ELSE entries[b][i - 1]
  BY <1>1, <1>2, <1>4, ConcatProperties
<1>6. IsEntry(entries', k, 1) /\ entries'[Hash[k]][1].value = v
  BY <1>1, <1>2, <1>5 DEF IsEntry
<1>7. ASSUME NEW j \in Key \ {k}, Hash[j] = b, NEW i
      PROVE  /\ IsEntry(entries, j, i) => /\ IsEntry(entries', j, i + 1)
                                         /\ entries'[b][i + 1].value = entries[b][i].value
             /\ IsEntry(entries', j, i) => IsEntry(entries, j, i - 1)
  <2>1. ASSUME IsEntry(entries, j, i)
        PROVE  /\ IsEntry(entries', j, i + 1)
               /\ entries'[b][i + 1].value = entries[b][i].value
    <3>1. i \in 1..Len(entries[b]) /\ entries[b][i].key = j
      BY <1>7, <2>1 DEF IsEntry
    <3>2. i + 1 \in 1..(1 + Len(entries[b])) /\ ~(i + 1 <= 1) /\ (i + 1) - 1 = i
      BY <1>1, <3>1
    <3>3. entries'[b][i + 1] = entries[b][i]
      BY <1>5, <3>2
    <3> QED
      BY <1>5, <1>7, <3>1, <3>2, <3>3 DEF IsEntry
  <2>2. ASSUME IsEntry(entries', j, i)
        PROVE  IsEntry(entries, j, i - 1)
    <3>1. i \in 1..(1 + Len(entries[b])) /\ entries'[b][i].key = j
      BY <1>5, <1>7, <2>2 DEF IsEntry
    <3>2. i # 1
      BY <1>2, <1>5, <3>1
    <3>3. i - 1 \in 1..Len(entries[b]) /\ entries'[b][i] = entries[b][i - 1]
      BY <1>1, <1>5, <3>1, <3>2
    <3> QED
      BY <1>7, <3>1, <3>3 DEF IsEntry
  <2> QED
    BY <2>1, <2>2
<1>8. ASSUME NEW j \in Key \ {k}, Hash[j] # b, NEW i
      PROVE  /\ IsEntry(entries', j, i) <=> IsEntry(entries, j, i)
             /\ entries'[Hash[j]][i].value = entries[Hash[j]][i].value
  <2>1. Hash[j] \in Bucket
    BY HashAssumption
  <2> QED
    BY <1>4, <1>8, <2>1 DEF IsEntry
<1>9. IsSet(DictOf(entries'), DictOf(entries), k, v)
  <2>1. KeepsOthers(entries, entries', k)
    BY <1>7, <1>8 DEF KeepsOthers, Has
  <2>2. Has(entries', k, v)
    BY <1>6 DEF Has
  <2> QED
    BY <1>1, <2>2, <2>1, DictOfSet
<1> QED
  BY <1>9, DictIs, DictIsPrimed

(* A removal at the head of the bucket removes its key only.               *)
LEMMA TakeHeadDict ==
    ASSUME TableInv, TableInv', NEW k \in Key, At(k, 1), TakeHead(Hash[k])
    PROVE  IsWithout(Dict', Dict, k)
<1> DEFINE b == Hash[k]
           s == entries[b]
<1>1. /\ b \in Bucket /\ entries \in Table /\ entries' \in Table
      /\ s \in Seq(Entry) /\ Len(s) \in Nat
      /\ Single(entries) /\ Single(entries')
  BY TypesHold, Buckets DEF TableInv, TypeOK, Table, Entry
<1>2. IsEntry(entries, k, 1) /\ s # << >>
  <2>1. DOMAIN s = 1..Len(s)
    BY <1>1, Buckets
  <2>2. IsEntry(entries, k, 1)
    BY <2>1 DEF At, IsEntry
  <2> QED
    BY <1>1, <2>2, EmptySeq DEF IsEntry
<1>3. /\ Tail(s) \in Seq(Entry) /\ Len(Tail(s)) = Len(s) - 1
      /\ \A i \in 1..Len(Tail(s)) : Tail(s)[i] = s[i + 1]
  BY <1>1, <1>2, HeadTailProperties
<1>4. /\ entries'[b] = Tail(s)
      /\ \A c \in Bucket : c # b => entries'[c] = entries[c]
  BY <1>1 DEF TakeHead, Table
<1> HIDE DEF s
<1>5. ASSUME NEW j \in Key, Hash[j] = b, NEW i
      PROVE  /\ IsEntry(entries', j, i) => IsEntry(entries, j, i + 1)
             /\ IsEntry(entries, j, i) /\ j # k =>
                   /\ IsEntry(entries', j, i - 1)
                   /\ entries'[b][i - 1].value = entries[b][i].value
  <2>1. ASSUME IsEntry(entries', j, i) PROVE IsEntry(entries, j, i + 1)
    <3>1. i \in 1..Len(Tail(s)) /\ Tail(s)[i].key = j
      BY <1>4, <1>5, <2>1 DEF IsEntry
    <3>2. i + 1 \in 1..Len(s) /\ s[i + 1].key = j
      BY <1>1, <1>3, <3>1
    <3> QED
      BY <1>5, <3>2 DEF IsEntry, s
  <2>2. ASSUME IsEntry(entries, j, i), j # k
        PROVE  /\ IsEntry(entries', j, i - 1)
               /\ entries'[b][i - 1].value = entries[b][i].value
    <3>1. i \in 1..Len(s) /\ s[i].key = j /\ s[1].key = k
      BY <1>2, <1>5, <2>2 DEF IsEntry, s
    <3>2. i - 1 \in 1..Len(Tail(s)) /\ (i - 1) + 1 = i
      BY <1>1, <1>3, <2>2, <3>1
    <3>3. Tail(s)[i - 1] = s[i]
      BY <1>3, <3>2
    <3> QED
      BY <1>4, <1>5, <3>1, <3>2, <3>3 DEF IsEntry, s
  <2> QED
    BY <2>1, <2>2
<1>6. ASSUME NEW j \in Key, Hash[j] # b, NEW i
      PROVE  /\ IsEntry(entries', j, i) <=> IsEntry(entries, j, i)
             /\ entries'[Hash[j]][i].value = entries[Hash[j]][i].value
  <2>1. Hash[j] \in Bucket
    BY HashAssumption
  <2> QED
    BY <1>4, <1>6, <2>1 DEF IsEntry
<1>7. \A i : ~IsEntry(entries', k, i)
  <2> SUFFICES ASSUME NEW i, IsEntry(entries', k, i) PROVE FALSE
    OBVIOUS
  <2>1. IsEntry(entries, k, i + 1) /\ i \in 1..Len(Tail(s))
    BY <1>4, <1>5 DEF IsEntry
  <2>2. i + 1 = 1
    BY <1>1, <1>2, <2>1 DEF IsEntry, Single, OwnKeys
  <2> QED
    BY <1>1, <1>3, <2>1, <2>2
<1>8. IsWithout(DictOf(entries'), DictOf(entries), k)
  <2>1. KeepsOthers(entries, entries', k)
    BY <1>5, <1>6 DEF KeepsOthers, Has
  <2> QED
    BY <1>1, <1>7, <2>1, DictOfRemove
<1> QED
  BY <1>8, DictIs, DictIsPrimed

(* A table that is cleared or freed is an empty dictionary.                *)
LEMMA NoEntriesDict == DictOf(NoEntries) = D!Nothing
<1>1. \A k \in Key : Len(NoEntries[Hash[k]]) = 0
  BY NoEntriesIsEmpty, HashAssumption
<1>2. DOMAIN DictOf(NoEntries) = {}
  BY <1>1 DEF DictOf
<1>3. DictOf(NoEntries) = [k \in DOMAIN DictOf(NoEntries) |-> DictOf(NoEntries)[k]]
  BY DEF DictOf
<1> QED
  BY <1>2, <1>3 DEF D!Nothing

(* What get and has_key find is what the dictionary holds.                 *)
LEMMA FoundInDict ==
    ASSUME TableInv, NEW k \in Key
    PROVE  /\ Found(k) <=> k \in DOMAIN Dict
           /\ Found(k) => Dict[k] = entries[Hash[k]][Position(k)].value
           /\ count = 0 \/ size[Hash[k]] = 0 => ~Found(k)
<1>1. DOMAIN Dict = {j \in Key : Found(j)}
  BY DEF Dict
<1>2. Found(k) => Dict[k] = entries[Hash[k]][Position(k)].value
  BY DEF Dict
<1>3. ASSUME Found(k) PROVE count # 0 /\ size[Hash[k]] # 0
  <2>1. /\ Hash[k] \in Bucket /\ entries \in Table
        /\ Position(k) \in 1..Len(entries[Hash[k]])
    BY <1>3, TypesHold, PositionFinds DEF TableInv
  <2>2. Len(entries[Hash[k]]) \in Nat /\ Len(entries[Hash[k]]) # 0
    BY <2>1, Buckets
  <2>3. Len(entries[Hash[k]]) <= size[Hash[k]] /\ size[Hash[k]] \in Nat
    BY <2>1 DEF TableInv, TypeOK
  <2> QED
    BY <2>1, <2>2, <2>3, NoneCounted
<1> QED
  BY <1>1, <1>2, <1>3

(* Every call that keeps the table a dictionary is one on the Dictionary.  *)
LEMMA DictionaryStep ==
    ASSUME TableInv, TableInv', [Next]_vars
    PROVE  [conduct' # "any" => D!Next]_(D!vars)
<1>1. UNCHANGED entries => UNCHANGED Dict
  BY DictIs, DictIsPrimed
<1>2. ASSUME NEW op \in {"set", "get", "has_key", "remove"}, NEW k \in Key,
             Fails(op, k), ~open \/ op = "set"
      PROVE  D!Next
  <2>1. D!Fail(op, k)
    BY <1>1, <1>2 DEF Fails, Returns, Unchanged, D!Fail, D!Called
  <2> QED
    BY <2>1 DEF D!Next
<1>3. ASSUME NEW k \in Key, NEW v \in Value, Set(k, v) PROVE D!Next
  <2>1. CASE Fails("set", k)
    BY <1>2, <2>1
  <2>2. CASE Returns("set", k, "failed") /\ LosesBody
    <3>1. D!Fail("set", k)
      BY <1>1, <2>2 DEF LosesBody, Returns, D!Fail, D!Called
    <3> QED
      BY <3>1 DEF D!Next
  <2>3. CASE ~Fails("set", k) /\ ~(Returns("set", k, "failed") /\ LosesBody)
    <3>1. /\ open /\ (Overwrite(k, v) \/ Insert(k, v))
          /\ Returns("set", k, "done") /\ UNCHANGED <<open, hangs, lost, conduct>>
      BY <1>3, <2>3 DEF Set
    <3>2. IsSet(Dict', Dict, k, v)
      BY <3>1, OverwriteDict, InsertDict
    <3>3. D!Set(k, v)
      BY <3>1, <3>2 DEF IsSet, Returns, D!Set, D!Called
    <3> QED
      BY <3>3 DEF D!Next
  <2> QED
    BY <2>1, <2>2, <2>3
<1>4. ASSUME NEW k \in Key, Get(k) PROVE D!Next
  <2>1. CASE ~open
    BY <1>2, <1>4, <2>1 DEF Get
  <2>2. CASE open /\ Found(k)
    <3>1. Returns("get", k, Dict[k]) /\ Unchanged
      <4>1. count > 0 /\ Found(k)
        BY <1>4, <2>2, FoundInDict, TypesHold DEF Get, TableInv
      <4> QED
        BY <1>4, <2>2, <4>1, FoundInDict DEF Get
    <3>2. D!Get(k)
      BY <1>1, <2>2, <3>1, FoundInDict DEF Returns, Unchanged, D!Get, D!Called
    <3> QED
      BY <3>2 DEF D!Next
  <2>3. CASE open /\ ~Found(k)
    <3>1. D!Get(k)
      BY <1>1, <1>4, <2>3, FoundInDict DEF Get, Fails, Returns, Unchanged, D!Get, D!Called
    <3> QED
      BY <3>1 DEF D!Next
  <2> QED
    BY <2>1, <2>2, <2>3
<1>5. ASSUME NEW k \in Key, HasKey(k) PROVE D!Next
  <2>1. CASE ~open
    BY <1>2, <1>5, <2>1 DEF HasKey
  <2>2. CASE open
    <3>1. D!HasKey(k)
      BY <1>1, <1>5, <2>2, FoundInDict DEF HasKey, Fails, Returns, Unchanged, D!HasKey, D!Called
    <3> QED
      BY <3>1 DEF D!Next
  <2> QED
    BY <2>1, <2>2
<1>6. ASSUME NEW k \in Key, Remove(k), conduct' # "any" PROVE D!Next
  <2>1. CASE Fails("remove", k) /\ ~open
    BY <1>2, <2>1
  <2>2. CASE Fails("remove", k) /\ open
    <3>1. ~Found(k)
      BY <1>6, <2>2, FoundInDict DEF Remove, Fails, Returns
    <3>2. k \notin DOMAIN Dict
      BY <3>1, FoundInDict
    <3>3. Dict' = [j \in DOMAIN Dict \ {k} |-> Dict[j]]
      BY <1>1, <2>2, <3>2 DEF Fails, Unchanged, Dict
    <3>4. D!Remove(k)
      BY <2>2, <3>2, <3>3 DEF Fails, Returns, Unchanged, D!Remove, D!Called
    <3> QED
      BY <3>4 DEF D!Next
  <2>3. CASE ~Fails("remove", k)
    <3>1. /\ open /\ Found(k) /\ Take(k) /\ Returns("remove", k, "done")
          /\ At(k, 1) /\ open' = open
      BY <1>6, <2>3 DEF Remove
    <3>2. TakeHead(Hash[k])
      BY <3>1 DEF Take
    <3>3. IsWithout(Dict', Dict, k)
      BY <3>1, <3>2, TakeHeadDict
    <3>4. D!Remove(k)
      BY <3>1, <3>3, FoundInDict DEF IsWithout, Returns, D!Remove, D!Called
    <3> QED
      BY <3>4 DEF D!Next
  <2> QED
    BY <2>1, <2>2, <2>3
<1>7. Emptied => Dict' = D!Nothing
  BY DictIsPrimed, NoEntriesDict DEF Emptied
<1>8. CASE Clear
  <2>1. D!Clear
    BY <1>7, <1>8 DEF Clear, Returns, D!Clear, D!Called
  <2> QED
    BY <2>1 DEF D!Next
<1>9. CASE Free
  <2>1. D!Free
    BY <1>7, <1>9 DEF Free, Returns, D!Free, D!Called
  <2> QED
    BY <2>1 DEF D!Next
<1>10. CASE Reinit
  <2>1. D!Reopen
    BY <1>1, <1>10 DEF Reinit, Returns, D!Reopen, D!Called
  <2> QED
    BY <2>1 DEF D!Next
<1>11. CASE Undefined
  BY <1>1, <1>11 DEF Undefined, Unchanged, D!vars
<1>12. CASE UNCHANGED vars
  BY <1>1, <1>12 DEF vars, D!vars
<1> QED
  BY <1>3, <1>4, <1>5, <1>6, <1>8, <1>9, <1>10, <1>11, <1>12 DEF Next

(* As long as keys are only removed from the head of their bucket, or when *)
(* they are not there, the hash table is a dictionary: every call returns  *)
(* what it would on a map and leaves the map it would leave.               *)
THEOREM TableIsDictionary == Spec => RefinesDictionary
<1>1. Init => TableInv /\ D!Init
  <2> SUFFICES ASSUME Init PROVE TableInv /\ D!Init
    OBVIOUS
  <2>1. TableInv
    BY InvAtFirst
  <2>2. Dict = D!Nothing
    BY <2>1, DictIs, NoEntriesDict DEF Init
  <2> QED
    BY <2>1, <2>2 DEF Init, D!Init
<1>2. TableInv /\ [Next]_vars => TableInv'
  BY InvStep
<1>3. TableInv /\ TableInv' /\ [Next]_vars => [conduct' # "any" => D!Next]_(D!vars)
  BY DictionaryStep
<1> QED
  BY <1>1, <1>2, <1>3, PTL DEF Spec, RefinesDictionary
=============================================================================
