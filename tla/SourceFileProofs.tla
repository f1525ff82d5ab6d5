-------------------------- MODULE SourceFileProofs --------------------------
(***************************************************************************)
(* What loading a data file returns, for every table that was saved to it: *)
(* the table itself when the file is whole, a part of it when the file was *)
(* cut short anywhere.                                                     *)
(***************************************************************************)
EXTENDS SourceFile, SequenceFacts

-----------------------------------------------------------------------------
(* The operators of the community modules that lay out a file.             *)

(* FlattenSeq concatenates all the sequences.                              *)
LEMMA FlattenIsLastPart ==
    ASSUME NEW S, NEW n \in Nat, NEW seqs \in [1..n -> Seq(S)],
           NEW P \in [0..n -> Seq(S)], IsParts(P, seqs, n)
    PROVE  FlattenSeq(seqs) = P[n]
<1>1. Len(seqs) = n
  OBVIOUS
<1>2. CASE n = 0
  <2>1. seqs = << >>
    BY <1>2
  <2> QED
    BY <1>1, <1>2, <2>1 DEF FlattenSeq, IsParts
<1>3. CASE n # 0
  <2> DEFINE f == CHOOSE f : f = [i \in 1..n |-> IF i = 1 THEN seqs[i]
                                                 ELSE f[i - 1] \o seqs[i]]
  <2>1. FlattenSeq(seqs) = f[n]
    BY <1>1, <1>3 DEF FlattenSeq
  <2>2. \E h : Flattens(h, seqs, n)
    BY <1>3, FlatteningIsParts
  <2>3. \A h : Flattens(h, seqs, n) => h[n] = P[n]
    BY <1>3, FlatteningIsParts
  <2>4. \E h : h = [i \in 1..n |-> IF i = 1 THEN seqs[i] ELSE h[i - 1] \o seqs[i]]
    BY <2>2 DEF Flattens
  <2>5. f = [i \in 1..n |-> IF i = 1 THEN seqs[i] ELSE f[i - 1] \o seqs[i]]
    BY <2>4, Zenon
  <2> HIDE DEF f
  <2>6. Flattens(f, seqs, n)
    BY <2>5 DEF Flattens
  <2> QED
    BY <2>1, <2>3, <2>6
<1> QED
  BY <1>2, <1>3

(* An arrangement of a finite set meets all its elements.                  *)
LEMMA ArrangementIsOnto ==
    ASSUME NEW S, IsFiniteSet(S), NEW order \in SetToSeqs(S)
    PROVE  /\ order \in Seq(S) /\ Len(order) = Cardinality(S)
           /\ \A s \in S : \E i \in 1..Len(order) : order[i] = s
           /\ \A i, j \in 1..Len(order) : order[i] = order[j] => i = j
<1> DEFINE n == Cardinality(S)
<1>1. n \in Nat
  BY FS_CardinalityType
<1>2. order \in [1..n -> S] /\ \A i, j \in 1..n : i # j => order[i] # order[j]
  BY DEF SetToSeqs
<1>3. order \in Seq(S) /\ Len(order) = n
  BY <1>1, <1>2
<1>4. IsFiniteSet(1..n) /\ Cardinality(1..n) = n
  BY <1>1, FS_Interval
<1>5. order \in Injection(1..n, S)
  BY <1>2 DEF Injection, IsInjective
<1>6. order \in Surjection(1..n, S)
  BY <1>4, <1>5, FS_Injection, FS_Surjection
<1> QED
  BY <1>2, <1>3, <1>6 DEF Surjection

-----------------------------------------------------------------------------
Strings == Name \cup Text \cup {Stump}

Field == Nat \cup Strings

(* The finite tables, which are those the program can build.               *)
Tables == UNION {[N -> Software] : N \in {M \in SUBSET Name : IsFiniteSet(M)}}

(* The tables that come out of a load of t: the dependencies are reversed. *)
Reversed(t) ==
    [n \in DOMAIN t |-> [text |-> t[n].text, deps |-> Reverse(t[n].deps)]]

(* What a load makes of software sw when a cut may have damaged it: its    *)
(* dependencies are missing, or some of them have lost their characters.   *)
Remains(s, sw) ==
    /\ s.text = sw.text
    /\ \/ s.deps = << >>
       \/ /\ Len(s.deps) = Len(sw.deps)
          /\ \A i \in 1..Len(sw.deps) : s.deps[i] \in {Reverse(sw.deps)[i], Stump}

(* Table r is a part of table t.                                           *)
PartOf(r, t) ==
    /\ r \in Tables /\ DOMAIN r \subseteq DOMAIN t
    /\ \A n \in DOMAIN r : Remains(r[n], t[n])

-----------------------------------------------------------------------------
(* What it means to be a table.                                            *)
LEMMA TablesFacts ==
    ASSUME NEW t \in Tables
    PROVE  /\ DOMAIN t \subseteq Name /\ IsFiniteSet(DOMAIN t)
           /\ t \in [DOMAIN t -> Software]
           /\ IsTable(t)
<1>1. PICK N \in SUBSET Name : IsFiniteSet(N) /\ t \in [N -> Software]
  BY DEF Tables
<1> QED
  BY <1>1 DEF IsTable

(* How a function is shown to be a table.                                  *)
LEMMA TableIntro ==
    ASSUME NEW N \in SUBSET Name, IsFiniteSet(N), NEW t \in [N -> Software]
    PROVE  t \in Tables
BY DEF Tables

(* The empty table is one.                                                 *)
LEMMA EmptyIsTable == Empty \in Tables /\ DOMAIN Empty = {}
<1>1. Empty \in [{} -> Software] /\ IsFiniteSet({})
  BY FS_EmptySet DEF Empty
<1> QED
  BY <1>1, TableIntro

(* Table u is t with software sw under the name.                           *)
IsPut(u, t, name, sw) ==
    /\ DOMAIN u = DOMAIN t \cup {name}
    /\ u[name] = sw
    /\ \A n \in DOMAIN t \ {name} : u[n] = t[n]

(* Putting software into a table makes a table.                            *)
LEMMA PutIsTable ==
    ASSUME NEW t \in Tables, NEW name \in Name, NEW sw \in Software
    PROVE  Put(t, name, sw) \in Tables /\ IsPut(Put(t, name, sw), t, name, sw)
<1>1. DOMAIN t \subseteq Name /\ IsFiniteSet(DOMAIN t) /\ t \in [DOMAIN t -> Software]
  BY TablesFacts
<1> DEFINE N == DOMAIN t \cup {name}
<1>2. N \in SUBSET Name /\ IsFiniteSet(N)
  BY <1>1, FS_AddElement
<1>3. Put(t, name, sw) \in [N -> Software]
  BY <1>1 DEF Put
<1>4. Put(t, name, sw) \in Tables
  BY <1>2, <1>3, TableIntro
<1> QED
  BY <1>4 DEF Put, IsPut

(* The positions of the elements in a reversed sequence.                   *)
LEMMA ReverseFacts ==
    ASSUME NEW S, NEW s \in Seq(S)
    PROVE  /\ Reverse(s) \in Seq(S)
           /\ Len(Reverse(s)) = Len(s)
           /\ \A i \in 1..Len(s) : Reverse(s)[i] = s[(Len(s) - i) + 1]
<1>1. Len(s) \in Nat /\ s \in [1..Len(s) -> S]
  OBVIOUS
<1>2. \A i \in 1..Len(s) : (Len(s) - i) + 1 \in 1..Len(s)
  BY <1>1
<1>3. Reverse(s) \in [1..Len(s) -> S]
  BY <1>1, <1>2 DEF Reverse
<1>4. Reverse(s) \in Seq(S) /\ Len(Reverse(s)) = Len(s)
  BY <1>1, <1>3
<1> QED
  BY <1>4 DEF Reverse

(* Reversed twice, a sequence is what it was.                              *)
LEMMA ReverseTwice ==
    ASSUME NEW S, NEW s \in Seq(S)
    PROVE  Reverse(Reverse(s)) = s
<1>1. Len(s) \in Nat /\ s \in Seq(S)
  OBVIOUS
<1>2. /\ Reverse(s) \in Seq(S) /\ Len(Reverse(s)) = Len(s)
      /\ \A i \in 1..Len(s) : Reverse(s)[i] = s[(Len(s) - i) + 1]
  BY ReverseFacts
<1>3. /\ Reverse(Reverse(s)) \in Seq(S)
      /\ Len(Reverse(Reverse(s))) = Len(s)
      /\ \A i \in 1..Len(s) : Reverse(Reverse(s))[i] = Reverse(s)[(Len(s) - i) + 1]
  BY <1>2, ReverseFacts
<1>4. ASSUME NEW i \in 1..Len(s) PROVE Reverse(Reverse(s))[i] = s[i]
  <2>1. (Len(s) - i) + 1 \in 1..Len(s) /\ (Len(s) - ((Len(s) - i) + 1)) + 1 = i
    BY <1>1
  <2> QED
    BY <2>1, <1>2, <1>3
<1> QED
  BY <1>1, <1>3, <1>4, SeqEqual

-----------------------------------------------------------------------------
(* Where the fields of the records are in the contents of a file.          *)

Records(t, order) == [i \in DOMAIN order |-> Record(order[i], t[order[i]])]

(* The fields of one record.                                               *)
IsRecord(r, name, sw) ==
    /\ Len(r) = 3 + Len(sw.deps) /\ Len(sw.deps) \in Nat
    /\ r[1] = name /\ r[2] = sw.text /\ r[3] = Len(sw.deps)
    /\ \A i \in 1..Len(sw.deps) : r[3 + i] = sw.deps[i]

(* A record is its name, its text, a number and as many names.             *)
LEMMA RecordFields ==
    ASSUME NEW name \in Name, NEW sw \in Software
    PROVE  /\ sw.text \in Text /\ sw.deps \in Seq(Name \cup {Stump})
           /\ Record(name, sw) \in Seq(Field)
           /\ IsRecord(Record(name, sw), name, sw)
<1> DEFINE h == <<name, sw.text, Len(sw.deps)>>
<1>1. sw.text \in Text /\ sw.deps \in Seq(Name \cup {Stump})
  BY DEF Software
<1>2. sw.deps \in Seq(Field) /\ Len(sw.deps) \in Nat
  BY <1>1 DEF Field, Strings
<1>3. h \in Seq(Field) /\ Len(h) = 3
  BY <1>1, <1>2 DEF Field, Strings
<1>4. h[1] = name /\ h[2] = sw.text /\ h[3] = Len(sw.deps)
  OBVIOUS
<1>5. Record(name, sw) = h \o sw.deps
  BY DEF Record
<1> HIDE DEF h
<1>6. Record(name, sw) \in Seq(Field) /\ Joins(Record(name, sw), h, sw.deps)
  BY <1>2, <1>3, <1>5, Appended
<1>7. 1 \in 1..Len(h) /\ 2 \in 1..Len(h) /\ 3 \in 1..Len(h)
  BY <1>3
<1> QED
  BY <1>1, <1>2, <1>3, <1>4, <1>6, <1>7 DEF Joins, IsRecord

(* c holds the records of t in this order; P[k] are the fields of the      *)
(* first k of them.                                                        *)
Layout(c, t, order, n, P) ==
    /\ n \in Nat /\ Len(order) = n /\ order \in Seq(DOMAIN t)
    /\ P \in [0..n -> Seq(Field)] /\ P[0] = << >>
    /\ c \in Seq(Field) /\ Len(c) = 2 + Len(P[n]) /\ c[1] = 0 /\ c[2] = n
    /\ \A k \in 1..n :
          LET name == order[k]
              deps == t[order[k]].deps
              p    == Len(P[k - 1]) + 3
          IN  /\ Len(P[k]) = Len(P[k - 1]) + 3 + Len(deps)
              /\ Len(P[k]) <= Len(P[n])
              /\ c[p] = name /\ c[p + 1] = t[name].text /\ c[p + 2] = Len(deps)
              /\ \A i \in 1..Len(deps) : c[p + 2 + i] = deps[i]

(* The records are sequences of fields.                                    *)
LEMMA RecordsType ==
    ASSUME NEW t \in Tables, NEW order \in Seq(DOMAIN t)
    PROVE  Records(t, order) \in [1..Len(order) -> Seq(Field)]
<1>1. DOMAIN t \subseteq Name /\ t \in [DOMAIN t -> Software]
  BY TablesFacts
<1>2. DOMAIN order = 1..Len(order) /\ \A i \in 1..Len(order) : order[i] \in DOMAIN t
  OBVIOUS
<1>3. \A i \in 1..Len(order) : Record(order[i], t[order[i]]) \in Seq(Field)
  BY <1>1, <1>2, RecordFields
<1> QED
  BY <1>2, <1>3 DEF Records

(* Every table a save writes has such a layout.                            *)
LEMMA ContentsLayout ==
    ASSUME NEW t \in Tables, NEW order \in Seq(DOMAIN t)
    PROVE  \E P : Layout(Contents(t, order), t, order, Len(order), P)
<1> DEFINE n == Len(order)
           R == Records(t, order)
           c == Contents(t, order)
           h == <<0, n>>
<1>1. DOMAIN t \subseteq Name /\ t \in [DOMAIN t -> Software]
  BY TablesFacts
<1>2. n \in Nat /\ R \in [1..n -> Seq(Field)]
  BY RecordsType
<1>3. PICK P \in [0..n -> Seq(Field)] : IsParts(P, R, n)
  <2> HIDE DEF n, R
  <2> QED
    BY <1>2, PartsExist
<1>4. FlattenSeq(R) = P[n]
  <2> HIDE DEF n, R
  <2> QED
    BY <1>2, <1>3, FlattenIsLastPart
<1>5. h \in Seq(Field) /\ Len(h) = 2 /\ h[1] = 0 /\ h[2] = n
  BY <1>2 DEF Field
<1>6. c = h \o FlattenSeq(R)
  BY Zenon DEF Contents, Records
<1> HIDE DEF h, c, R, n
<1>7. /\ c \in Seq(Field) /\ Len(c) = 2 + Len(P[n])
      /\ \A i \in 1..2 : c[i] = h[i]
      /\ \A i \in 1..Len(P[n]) : c[2 + i] = P[n][i]
  <2>1. c = h \o P[n] /\ P[n] \in Seq(Field)
    BY <1>2, <1>3, <1>4, <1>6
  <2>2. c \in Seq(Field) /\ Joins(c, h, P[n])
    BY <1>5, <2>1, Appended
  <2> QED
    BY <1>5, <2>2 DEF Joins
<1>8. c[1] = 0 /\ c[2] = n
  BY <1>5, <1>7
<1>9. ASSUME NEW k \in 1..n
      PROVE  LET name == order[k]
                 deps == t[order[k]].deps
                 p    == Len(P[k - 1]) + 3
             IN  /\ Len(P[k]) = Len(P[k - 1]) + 3 + Len(deps)
                 /\ Len(P[k]) <= Len(P[n])
                 /\ c[p] = name /\ c[p + 1] = t[name].text /\ c[p + 2] = Len(deps)
                 /\ \A i \in 1..Len(deps) : c[p + 2 + i] = deps[i]
  <2> DEFINE name == order[k]
             deps == t[order[k]].deps
             l == Len(P[k - 1])
  <2>1. name \in DOMAIN t
    BY DEF n
  <2>2. R[k] = Record(name, t[name])
    BY DEF n, R, Records
  <2>3. t[name] \in Software /\ name \in Name
    BY <2>1, <1>1
  <2>4. /\ Len(R[k]) = 3 + Len(deps) /\ Len(deps) \in Nat
        /\ R[k][1] = name /\ R[k][2] = t[name].text /\ R[k][3] = Len(deps)
        /\ \A i \in 1..Len(deps) : R[k][3 + i] = deps[i]
    <3>1. IsRecord(R[k], name, t[name])
      BY <2>2, <2>3, RecordFields
    <3> QED
      BY <3>1 DEF IsRecord
  <2>5. /\ Len(P[k]) = l + Len(R[k]) /\ Len(P[k]) <= Len(P[n])
        /\ \A i \in 1..Len(R[k]) : P[n][l + i] = R[k][i]
    <3>1. IsAt(P, R, n, k)
      BY <1>2, <1>3, PartAt
    <3> QED
      BY <3>1 DEF IsAt
  <2>6. l \in Nat /\ Len(P[n]) \in Nat
    BY <1>2, <1>3
  <2> HIDE DEF name, deps, l
  <2>7. ASSUME NEW i \in 1..Len(R[k])
        PROVE  l + i \in 1..Len(P[n]) /\ c[2 + (l + i)] = R[k][i]
    <3>1. l + i \in 1..Len(P[n])
      BY <2>4, <2>5, <2>6
    <3> QED
      BY <3>1, <2>5, <1>7
  <2>8. 1 \in 1..Len(R[k]) /\ 2 \in 1..Len(R[k]) /\ 3 \in 1..Len(R[k])
    BY <2>4
  <2>9. c[l + 3] = name /\ c[l + 3 + 1] = t[name].text /\ c[l + 3 + 2] = Len(deps)
    <3>1. 2 + (l + 1) = l + 3 /\ 2 + (l + 2) = l + 3 + 1 /\ 2 + (l + 3) = l + 3 + 2
      BY <2>6
    <3> QED
      BY <2>4, <2>7, <2>8, <3>1
  <2>10. ASSUME NEW i \in 1..Len(deps) PROVE c[l + 3 + 2 + i] = deps[i]
    <3>1. 3 + i \in 1..Len(R[k]) /\ 2 + (l + (3 + i)) = l + 3 + 2 + i
      BY <2>4, <2>6
    <3> QED
      BY <2>4, <2>7, <3>1
  <2>11. Len(P[k]) = l + 3 + Len(deps)
    BY <2>4, <2>5, <2>6
  <2> QED
    BY <2>5, <2>9, <2>10, <2>11 DEF name, deps, l
<1>10. P[0] = << >>
  BY <1>3 DEF IsParts
<1>11. Layout(c, t, order, n, P)
  BY <1>2, <1>3, <1>7, <1>8, <1>9, <1>10 DEF Layout, n
<1> QED
  BY <1>11 DEF c, n

-----------------------------------------------------------------------------
(* What one record reads like.                                             *)

(* The fields of f are the first ones of c, the last one perhaps torn.     *)
Begins(f, c) ==
    /\ f.fields \in Seq(Field) /\ f.torn \in BOOLEAN
    /\ Len(f.fields) <= Len(c)
    /\ \A i \in 1..Len(f.fields) : f.fields[i] = c[i]
    /\ f.torn => f.fields[Len(f.fields)] \in Strings

(* A file that was cut short begins like the whole one.                    *)
LEMMA CutBegins ==
    ASSUME NEW c \in Seq(Field), NEW f \in Cuts(c)
    PROVE  Begins(f, c)
<1>1. ASSUME NEW q \in Prefixes(c)
      PROVE  /\ q \in Seq(Field) /\ Len(q) <= Len(c)
             /\ \A i \in 1..Len(q) : q[i] = c[i]
  <2>1. PICK l \in 0..Len(c) : q = SubSeq(c, 1, l)
    BY DEF Prefixes
  <2>2. q \in Seq(Field) /\ Len(q) = l /\ \A i \in 1..l : q[i] = c[i]
    BY <2>1
  <2> QED
    BY <2>2
<1>2. CASE \E q \in Prefixes(c) : f = Whole(q)
  BY <1>1, <1>2 DEF Whole, Begins
<1>3. CASE \E q \in Prefixes(c) : /\ f = [fields |-> q, torn |-> TRUE]
                                  /\ q[Len(q)] \in Strings
  BY <1>1, <1>3 DEF Begins
<1> QED
  BY <1>2, <1>3 DEF Cuts, Strings

(* So does the whole file.                                                 *)
LEMMA WholeBegins ==
    ASSUME NEW c \in Seq(Field)
    PROVE  Begins(Whole(c), c)
BY DEF Begins, Whole

(* What the reader makes of record k of a file that was cut short.         *)
ReadsPart(r, t, order, P, k) ==
    r.ok => /\ r.name = order[k]
            /\ r.sw \in Software /\ Remains(r.sw, t[order[k]])
            /\ ~r.eof => r.next = Len(P[k]) + 3

(* A record read from a cut file is the one that was written there, but    *)
(* for what the cut took.                                                  *)
LEMMA ReadCut ==
    ASSUME NEW t \in Tables, NEW order, NEW n, NEW P, NEW c,
           Layout(c, t, order, n, P),
           NEW f, Begins(f, c), NEW g \in Nat,
           NEW k \in 1..n
    PROVE  ReadsPart(ReadRecord(f, Len(P[k - 1]) + 3, g), t, order, P, k)
<1> DEFINE name == order[k]
           deps == t[name].deps
           p == Len(P[k - 1]) + 3
           nd == Len(deps)
           L == Len(f.fields)
           r == ReadRecord(f, p, g)
<1>1. /\ Len(P[k]) = Len(P[k - 1]) + 3 + nd
      /\ c[p] = name /\ c[p + 1] = t[name].text /\ c[p + 2] = nd
      /\ \A i \in 1..nd : c[p + 2 + i] = deps[i]
  BY DEF Layout
<1>2. name \in DOMAIN t /\ Len(P[k - 1]) \in Nat
  BY DEF Layout
<1>3. name \in Name /\ t[name] \in Software
  BY <1>2, TablesFacts
<1>4. t[name].text \in Text /\ deps \in Seq(Name \cup {Stump}) /\ nd \in Nat
  BY <1>3 DEF Software
<1>5. p \in Nat /\ p >= 3 /\ L \in Nat
  BY <1>2 DEF Begins
<1>6. \A i \in 1..L : f.fields[i] = c[i]
  BY DEF Begins
<1> SUFFICES ASSUME r.ok PROVE ReadsPart(r, t, order, P, k)
  BY DEF ReadsPart
<1>7. CASE Intact(f, p + 2)
  <2> DEFINE ds == [i \in 1..nd |-> Dependency(f, p + 2 + i)]
             last == p + 2 + nd
  <2>1. p + 2 \in 1..L /\ p + 1 \in 1..L /\ p \in 1..L
    BY <1>5, <1>7 DEF Intact
  <2>2. f.fields[p + 2] = nd /\ f.fields[p] = name /\ f.fields[p + 1] = t[name].text
    BY <2>1, <1>1, <1>6
  <2>3. /\ last <= L
        /\ r = [ok |-> TRUE, name |-> name,
                sw |-> [text |-> t[name].text, deps |-> Reverse(ds)],
                next |-> last + 1, eof |-> ~Intact(f, last)]
    <3> HIDE DEF name, deps, p, nd, L
    <3> QED
      BY <1>7, <2>2 DEF ReadRecord, L
  <2>4. ASSUME NEW i \in 1..nd PROVE ds[i] \in {deps[i], Stump}
    <3>1. p + 2 + i \in 1..L
      <4>1. last <= L
        BY <2>3, Zenon
      <4> HIDE DEF p, nd, L, r, deps, name, ds
      <4> QED
        BY <4>1, <1>4, <1>5
    <3>2. f.fields[p + 2 + i] = deps[i]
      BY <3>1, <1>1, <1>6
    <3> QED
      BY <3>2 DEF Dependency
  <2> HIDE DEF ds
  <2>5. ds \in Seq(Name \cup {Stump}) /\ Len(ds) = nd
    <3>1. \A i \in 1..nd : deps[i] \in Name \cup {Stump}
      BY <1>4
    <3>2. ds \in [1..nd -> Name \cup {Stump}]
      BY <2>4, <3>1 DEF ds
    <3> QED
      BY <3>2, <1>4
  <2>6. /\ Reverse(ds) \in Seq(Name \cup {Stump}) /\ Len(Reverse(ds)) = nd
        /\ \A i \in 1..nd : Reverse(ds)[i] = ds[(nd - i) + 1]
    BY <2>5, ReverseFacts
  <2>7. \A i \in 1..nd : Reverse(deps)[i] = deps[(nd - i) + 1]
    BY <1>4, ReverseFacts
  <2>8. \A i \in 1..nd : Reverse(ds)[i] \in {Reverse(deps)[i], Stump}
    <3>1. \A i \in 1..nd : (nd - i) + 1 \in 1..nd
      BY <1>4
    <3> QED
      BY <3>1, <2>4, <2>6, <2>7
  <2> HIDE DEF name, deps, p, nd, L, r
  <2>9. r.sw \in Software
    BY <2>3, <2>6, <1>4 DEF Software
  <2>10. Remains(r.sw, t[name])
    BY <2>3, <2>6, <2>8 DEF Remains, nd, deps
  <2>11. r.next = Len(P[k]) + 3
    BY <2>3, <1>1, <1>2, <1>4 DEF p
  <2> QED
    BY <2>3, <2>9, <2>10, <2>11 DEF ReadsPart, name
<1>8. CASE ~Intact(f, p + 2)
  <2>1. Intact(f, p) /\ Intact(f, p + 1)
    <3> HIDE DEF p
    <3> QED
      BY DEF ReadRecord, r
  <2>2. p + 1 <= L /\ L <= p + 2
    BY <1>5, <1>8, <2>1 DEF Intact
  <2>3. L = p + 1
    <3> SUFFICES ASSUME L = p + 2 PROVE FALSE
      BY <2>2, <1>5
    <3>1. f.torn /\ f.fields[p + 2] = nd
      <4>1. p + 2 \in 1..L
        BY <1>5
      <4> QED
        BY <4>1, <1>1, <1>6, <1>8 DEF Intact
    <3>2. f.fields[p + 2] \in Strings
      BY <3>1 DEF Begins
    <3> QED
      BY <3>1, <3>2, <1>4, FieldsAssumption DEF Strings
  <2>4. f.fields[p] = name /\ f.fields[p + 1] = t[name].text
    <3>1. p \in 1..L /\ p + 1 \in 1..L
      BY <2>3, <1>5
    <3> QED
      BY <3>1, <1>1, <1>6
  <2> DEFINE ds(m) == [i \in 1..m |-> Dependency(f, p + 2 + i)]
  <2>5. g = 0 /\ r = [ok |-> TRUE, name |-> name,
                      sw |-> [text |-> t[name].text, deps |-> Reverse(ds(g))],
                      next |-> p + 2 + g + 1, eof |-> ~Intact(f, p + 2 + g)]
    <3>1. ~(p + 2 + g <= L)
      BY <2>3, <1>5
    <3> HIDE DEF name, deps, p, nd, L
    <3> QED
      BY <3>1, <1>8, <2>4 DEF ReadRecord, L
  <2>6. Reverse(ds(g)) = << >>
    BY <2>5 DEF Reverse
  <2> HIDE DEF name, deps, p, nd, L, r, ds
  <2>7. r.eof
    <3>1. p + 2 + g = p + 2
      BY <2>5, <1>5
    <3> QED
      BY <2>5, <3>1, <1>8
  <2>8. r.sw \in Software
    <3>1. << >> \in Seq(Name \cup {Stump})
      OBVIOUS
    <3>2. r.sw = [text |-> t[name].text, deps |-> << >>]
      BY <2>5, <2>6
    <3> QED
      BY <3>1, <3>2, <1>4 DEF Software
  <2> QED
    BY <2>5, <2>6, <2>7, <2>8 DEF ReadsPart, Remains, name
<1> QED
  BY <1>7, <1>8

(* What the reader makes of record k of a whole file.                      *)
ReadsAll(r, t, order, P, k) ==
    /\ r.ok /\ ~r.eof /\ r.next = Len(P[k]) + 3
    /\ r.name = order[k]
    /\ r.sw = [text |-> t[order[k]].text, deps |-> Reverse(t[order[k]].deps)]

(* A record read from a complete file is the one that was written.         *)
LEMMA ReadWhole ==
    ASSUME NEW t \in Tables, NEW order, NEW n, NEW P, NEW c,
           Layout(c, t, order, n, P), NEW g,
           NEW k \in 1..n
    PROVE  ReadsAll(ReadRecord(Whole(c), Len(P[k - 1]) + 3, g), t, order, P, k)
<1> DEFINE name == order[k]
           deps == t[name].deps
           p == Len(P[k - 1]) + 3
           nd == Len(deps)
           last == p + 2 + nd
           f == Whole(c)
           ds == [i \in 1..nd |-> Dependency(f, p + 2 + i)]
           r == ReadRecord(f, p, g)
<1>1. /\ Len(P[k]) = Len(P[k - 1]) + 3 + nd /\ Len(P[k]) <= Len(P[n])
      /\ c[p] = name /\ c[p + 1] = t[name].text /\ c[p + 2] = nd
      /\ \A i \in 1..nd : c[p + 2 + i] = deps[i]
  BY DEF Layout
<1>2. name \in DOMAIN t /\ Len(P[k - 1]) \in Nat /\ Len(P[n]) \in Nat
  BY DEF Layout
<1>3. t[name] \in Software
  BY <1>2, TablesFacts
<1>4. deps \in Seq(Name \cup {Stump}) /\ nd \in Nat
  BY <1>3 DEF Software
<1>5. Len(c) = 2 + Len(P[n]) /\ f.fields = c /\ f.torn = FALSE
  BY DEF Layout, Whole
<1>6. \A i \in 1..Len(c) : Intact(f, i)
  BY <1>2, <1>5 DEF Intact
<1>7. /\ p \in 1..Len(c) /\ p + 1 \in 1..Len(c) /\ p + 2 \in 1..Len(c)
      /\ last \in 1..Len(c) /\ \A i \in 1..nd : p + 2 + i \in 1..Len(c)
      /\ last + 1 = Len(P[k]) + 3 /\ last <= Len(c)
  <2> DEFINE l == Len(P[k - 1])
  <2>1. Len(P[k]) = l + 3 + nd /\ Len(P[k]) <= Len(P[n])
    BY <1>1
  <2>2. l \in Nat /\ Len(P[n]) \in Nat /\ nd \in Nat /\ Len(c) = 2 + Len(P[n])
    BY <1>2, <1>4, <1>5
  <2> HIDE DEF l, nd
  <2> QED
    BY <2>1, <2>2 DEF l
<1>8. ds = deps
  <2>1. ASSUME NEW i \in 1..nd PROVE ds[i] = deps[i]
    <3>1. p + 2 + i \in 1..Len(c)
      BY <1>7
    <3> QED
      BY <3>1, <1>1, <1>5, <1>6 DEF Dependency
  <2>2. deps = [i \in 1..nd |-> deps[i]]
    BY <1>4
  <2> QED
    BY <2>1, <2>2
<1>9. r = [ok |-> TRUE, name |-> name,
           sw |-> [text |-> t[name].text, deps |-> Reverse(ds)],
           next |-> last + 1, eof |-> FALSE]
  <2>1. Intact(f, p) /\ Intact(f, p + 1) /\ Intact(f, p + 2) /\ Intact(f, last)
    BY <1>6, <1>7
  <2>2. last <= Len(f.fields) /\ f.fields[p + 2] = nd
    BY <1>1, <1>5, <1>7, Zenon
  <2>3. f.fields[p] = name /\ f.fields[p + 1] = t[name].text
    BY <1>1, <1>5
  <2> HIDE DEF name, deps, p, nd, f
  <2> QED
    BY <2>1, <2>2, <2>3 DEF ReadRecord
<1>10. last + 1 = Len(P[k]) + 3
  BY <1>7
<1> HIDE DEF ds, f, p, nd, deps, name, last, r
<1> QED
  BY <1>8, <1>9, <1>10 DEF ReadsAll, r, name, deps, p, f

-----------------------------------------------------------------------------
(* The loop over the records, as a function of the number of turns.        *)

Turns(h, f, g, N) ==
    /\ DOMAIN h = N
    /\ h[0] = ScanStart
    /\ \A i \in N \ {0} : h[i] = ScanRecord(f, g, h[i - 1])

(* Any number of turns can be made, in one way.                            *)
LEMMA SomeTurns ==
    ASSUME NEW f, NEW g, NEW n \in Nat
    PROVE  \E h : Turns(h, f, g, 0..n)
<1> DEFINE T == {k \in Nat : ~\E h : Turns(h, f, g, 0..k)}
<1>1. T = {}
  <2> SUFFICES ASSUME T # {} PROVE FALSE
    OBVIOUS
  <2>1. PICK k \in T : \A j \in T : k <= j
    <3>1. T \in SUBSET Nat
      OBVIOUS
    <3> HIDE DEF T
    <3> QED
      BY <3>1, LeastNatural
  <2>2. k # 0
    <3>1. Turns([i \in 0..0 |-> ScanStart], f, g, 0..0)
      BY DEF Turns
    <3> QED
      BY <2>1, <3>1
  <2>3. k - 1 \in Nat /\ k - 1 \notin T
    BY <2>1, <2>2
  <2>4. PICK h : Turns(h, f, g, 0..(k - 1))
    BY <2>3
  <2> DEFINE e == [i \in 0..k |-> IF i = k THEN ScanRecord(f, g, h[k - 1]) ELSE h[i]]
  <2>5. e[0] = ScanStart
    BY <2>1, <2>2, <2>4 DEF Turns
  <2>6. ASSUME NEW i \in (0..k) \ {0} PROVE e[i] = ScanRecord(f, g, e[i - 1])
    <3>1. i - 1 \in 0..k /\ i - 1 # k /\ e[i - 1] = h[i - 1]
      BY <2>1
    <3>2. CASE i = k
      BY <3>1, <3>2
    <3>3. CASE i # k
      <4>1. i \in (0..(k - 1)) \ {0} /\ e[i] = h[i]
        BY <2>1, <3>3
      <4> QED
        BY <2>4, <3>1, <4>1 DEF Turns
    <3> QED
      BY <3>2, <3>3
  <2>7. Turns(e, f, g, 0..k)
    BY <2>5, <2>6 DEF Turns
  <2> QED
    BY <2>1, <2>7
<1> QED
  BY <1>1

(* The turns up to some number, or all of them.                            *)
FromZero(N) == N \in SUBSET Nat /\ \A i \in N : i # 0 => i - 1 \in N

(* The state after n turns does not depend on how many follow.             *)
LEMMA TurnsAgree ==
    ASSUME NEW f, NEW g, NEW M, FromZero(M), NEW N, FromZero(N),
           NEW h, Turns(h, f, g, M), NEW e, Turns(e, f, g, N),
           NEW n \in M \cap N
    PROVE  h[n] = e[n]
<1> USE DEF FromZero
<1> DEFINE T == {i \in M \cap N : h[i] # e[i]}
<1>1. T = {}
  <2> SUFFICES ASSUME T # {} PROVE FALSE
    OBVIOUS
  <2>1. PICK i \in T : \A j \in T : i <= j
    <3>1. T \in SUBSET Nat
      OBVIOUS
    <3> HIDE DEF T
    <3> QED
      BY <3>1, LeastNatural
  <2>2. i # 0
    BY <2>1 DEF Turns
  <2>3. i - 1 \in M \cap N /\ ~(i <= i - 1)
    BY <2>1, <2>2
  <2>4. h[i - 1] = e[i - 1]
    BY <2>1, <2>3
  <2>5. h[i] = e[i]
    BY <2>1, <2>2, <2>4 DEF Turns
  <2> QED
    BY <2>1, <2>5
<1> QED
  BY <1>1

(* Scan is the state after as many turns as the header promises records.   *)
LEMMA ScanIsTurns ==
    ASSUME NEW f, NEW g
    PROVE  \E scan : Turns(scan, f, g, Nat) /\ Scan(f, g) = scan[f.fields[2]]
<1> DEFINE some(n) == CHOOSE h : Turns(h, f, g, 0..n)
           all == [n \in Nat |-> some(n)[n]]
           scan == CHOOSE scan : scan = [i \in Nat |-> IF i = 0 THEN ScanStart
                                             ELSE ScanRecord(f, g, scan[i - 1])]
<1>1. \A n \in Nat : Turns(some(n), f, g, 0..n)
  BY SomeTurns
<1>2. ASSUME NEW n \in Nat
      PROVE  all[n] = IF n = 0 THEN ScanStart ELSE ScanRecord(f, g, all[n - 1])
  <2>1. all[n] = some(n)[n]
    OBVIOUS
  <2>2. CASE n = 0
    BY <1>1, <2>1, <2>2 DEF Turns
  <2>3. CASE n # 0
    <3>1. n - 1 \in Nat /\ n \in (0..n) \ {0} /\ n - 1 \in (0..n) \cap (0..(n - 1))
      BY <2>3
    <3>2. all[n - 1] = some(n - 1)[n - 1]
      BY <3>1
    <3> HIDE DEF some, all
    <3>3. some(n)[n] = ScanRecord(f, g, some(n)[n - 1])
      BY <1>1, <3>1 DEF Turns
    <3>4. some(n)[n - 1] = some(n - 1)[n - 1]
      <4>1. Turns(some(n), f, g, 0..n) /\ Turns(some(n - 1), f, g, 0..(n - 1))
        BY <1>1, <3>1
      <4>2. FromZero(0..n) /\ FromZero(0..(n - 1))
        BY <3>1 DEF FromZero
      <4> DEFINE M == 0..n
                 N == 0..(n - 1)
                 m == n - 1
                 h == some(n)
                 e == some(m)
      <4>3. /\ Turns(h, f, g, M) /\ Turns(e, f, g, N)
            /\ FromZero(M) /\ FromZero(N) /\ m \in M \cap N
        BY <3>1, <4>1, <4>2
      <4> HIDE DEF M, N, m, h, e
      <4>4. h[m] = e[m]
        BY <4>3, TurnsAgree
      <4> QED
        BY <4>4 DEF m, h, e
    <3> QED
      BY <2>1, <2>3, <3>2, <3>3, <3>4
  <2> QED
    BY <2>2, <2>3
<1> HIDE DEF some
<1>3. all = [i \in Nat |-> IF i = 0 THEN ScanStart ELSE ScanRecord(f, g, all[i - 1])]
  <2>1. all = [i \in Nat |-> all[i]]
    OBVIOUS
  <2> HIDE DEF all
  <2> QED
    BY <1>2, <2>1
<1> HIDE DEF all
<1>4. scan = [i \in Nat |-> IF i = 0 THEN ScanStart ELSE ScanRecord(f, g, scan[i - 1])]
  <2> HIDE DEF scan
  <2> QED
    BY <1>3 DEF scan
<1>5. Scan(f, g) = scan[f.fields[2]]
  BY DEF Scan
<1> HIDE DEF scan
<1>6. Turns(scan, f, g, Nat)
  <2>1. DOMAIN scan = Nat
    BY <1>4, Zenon
  <2>2. \A i \in Nat : scan[i] = IF i = 0 THEN ScanStart ELSE ScanRecord(f, g, scan[i - 1])
    BY <1>4, Zenon
  <2> QED
    BY <2>1, <2>2 DEF Turns
<1> QED
  BY <1>5, <1>6

-----------------------------------------------------------------------------
(* What the loop has after k turns over a file that was cut short.         *)
ScannedPart(s, t, P, k) ==
    s.ok => PartOf(s.table, t) /\ (~s.eof => s.next = Len(P[k]) + 3)

(* The loop over a cut file collects a part of the table.                  *)
LEMMA ScanCut ==
    ASSUME NEW t \in Tables, NEW order, NEW n, NEW P, NEW c,
           Layout(c, t, order, n, P),
           NEW f, Begins(f, c), NEW g \in Nat,
           NEW scan, Turns(scan, f, g, Nat)
    PROVE  ScannedPart(scan[n], t, P, n)
<1> DEFINE T == {k \in 0..n : ~ScannedPart(scan[k], t, P, k)}
<1>1. T = {}
  <2> SUFFICES ASSUME T # {} PROVE FALSE
    OBVIOUS
  <2>1. PICK k \in T : \A j \in T : k <= j
    <3>1. T \in SUBSET Nat
      OBVIOUS
    <3> HIDE DEF T
    <3> QED
      BY <3>1, LeastNatural
  <2>2. CASE k = 0
    <3>1. scan[0] = ScanStart /\ P[0] = << >>
      BY DEF Turns, Layout
    <3>2. PartOf(Empty, t)
      BY EmptyIsTable DEF PartOf
    <3>3. ScannedPart(scan[0], t, P, 0)
      BY <3>1, <3>2 DEF ScannedPart, ScanStart
    <3> QED
      BY <2>1, <2>2, <3>3
  <2>3. CASE k # 0
    <3> DEFINE s == scan[k - 1]
               r == ReadRecord(f, s.next, g)
    <3>1. n \in Nat /\ k \in 1..n /\ k - 1 \in 0..n /\ k - 1 \notin T
      <4>1. n \in Nat
        BY DEF Layout
      <4> QED
        BY <2>1, <2>3, <4>1
    <3>2. ScannedPart(s, t, P, k - 1)
      BY <3>1
    <3>3. scan[k] = ScanRecord(f, g, s)
      BY <3>1 DEF Turns
    <3> HIDE DEF T, s, r
    <3>4. CASE ~s.ok \/ s.eof
      <4>1. scan[k] = s
        BY <3>3, <3>4 DEF ScanRecord
      <4> QED
        BY <4>1, <3>2, <3>4, <2>1 DEF ScannedPart, T
    <3>5. CASE s.ok /\ ~s.eof
      <4>1. s.next = Len(P[k - 1]) + 3 /\ PartOf(s.table, t)
        BY <3>2, <3>5 DEF ScannedPart
      <4>2. ReadsPart(r, t, order, P, k)
        BY <4>1, <3>1, ReadCut DEF r
      <4>3. CASE ~r.ok
        <5>1. scan[k] = Failed
          BY <3>3, <3>5, <4>3 DEF ScanRecord, r
        <5> QED
          BY <5>1, <2>1 DEF ScannedPart, Failed, T
      <4>4. CASE r.ok
        <5>1. scan[k] = [ok |-> TRUE, eof |-> r.eof, next |-> r.next,
                         table |-> Put(s.table, r.name, r.sw)]
          BY <3>3, <3>5, <4>4 DEF ScanRecord, r
        <5>2. /\ r.name = order[k] /\ r.sw \in Software
              /\ Remains(r.sw, t[order[k]]) /\ (~r.eof => r.next = Len(P[k]) + 3)
          BY <4>2, <4>4 DEF ReadsPart
        <5>3. order[k] \in DOMAIN t /\ order[k] \in Name
          <6>1. order[k] \in DOMAIN t
            BY <3>1 DEF Layout
          <6> QED
            BY <6>1, TablesFacts
        <5>4. PartOf(Put(s.table, r.name, r.sw), t)
          <6>1. /\ s.table \in Tables /\ DOMAIN s.table \subseteq DOMAIN t
                /\ \A m \in DOMAIN s.table : Remains(s.table[m], t[m])
            BY <4>1 DEF PartOf
          <6> DEFINE u == Put(s.table, r.name, r.sw)
          <6>2. u \in Tables /\ IsPut(u, s.table, r.name, r.sw)
            BY <5>2, <5>3, <6>1, PutIsTable
          <6> HIDE DEF u
          <6> QED
            BY <5>2, <5>3, <6>1, <6>2 DEF PartOf, IsPut, u
        <5>5. ScannedPart(scan[k], t, P, k)
          BY <5>1, <5>2, <5>4 DEF ScannedPart
        <5> QED
          BY <5>5, <2>1 DEF T
      <4> QED
        BY <4>3, <4>4
    <3> QED
      BY <3>4, <3>5
  <2> QED
    BY <2>2, <2>3
<1>2. n \in Nat
  BY DEF Layout
<1> QED
  BY <1>1, <1>2

(* What the loop has after k turns over a whole file.                      *)
ScannedAll(s, t, order, P, k) ==
    /\ s.ok /\ ~s.eof /\ s.next = Len(P[k]) + 3
    /\ s.table = [m \in {order[i] : i \in 1..k} |->
                     [text |-> t[m].text, deps |-> Reverse(t[m].deps)]]

(* The loop over a complete file collects the table.                       *)
LEMMA ScanWhole ==
    ASSUME NEW t \in Tables, NEW order, NEW n, NEW P, NEW c,
           Layout(c, t, order, n, P), NEW g,
           NEW scan, Turns(scan, Whole(c), g, Nat)
    PROVE  ScannedAll(scan[n], t, order, P, n)
<1> DEFINE f == Whole(c)
           T == {k \in 0..n : ~ScannedAll(scan[k], t, order, P, k)}
           read(m) == [text |-> t[m].text, deps |-> Reverse(t[m].deps)]
<1>1. T = {}
  <2> SUFFICES ASSUME T # {} PROVE FALSE
    OBVIOUS
  <2>1. PICK k \in T : \A j \in T : k <= j
    <3>1. T \in SUBSET Nat
      OBVIOUS
    <3> HIDE DEF T
    <3> QED
      BY <3>1, LeastNatural
  <2>2. CASE k = 0
    <3>1. scan[0] = ScanStart /\ P[0] = << >>
      BY DEF Turns, Layout
    <3>2. {order[i] : i \in 1..0} = {}
      OBVIOUS
    <3>3. [m \in {order[i] : i \in 1..0} |-> read(m)] = Empty
      BY <3>2 DEF Empty
    <3>4. ScannedAll(scan[0], t, order, P, 0)
      BY <3>1, <3>3 DEF ScannedAll, ScanStart
    <3> QED
      BY <2>1, <2>2, <3>4
  <2>3. CASE k # 0
    <3> DEFINE s == scan[k - 1]
               r == ReadRecord(f, s.next, g)
    <3>1. n \in Nat /\ k \in 1..n /\ k - 1 \in 0..n /\ k - 1 \notin T
      <4>1. n \in Nat
        BY DEF Layout
      <4> QED
        BY <2>1, <2>3, <4>1
    <3>2. ScannedAll(s, t, order, P, k - 1)
      BY <3>1
    <3>3. scan[k] = ScanRecord(f, g, s)
      BY <3>1 DEF Turns
    <3> HIDE DEF T, s, r, f, read
    <3>4. s.ok /\ ~s.eof /\ s.next = Len(P[k - 1]) + 3
      BY <3>2 DEF ScannedAll
    <3>5. ReadsAll(r, t, order, P, k)
      BY <3>1, <3>4, ReadWhole DEF r, f
    <3>6. scan[k] = [ok |-> TRUE, eof |-> r.eof, next |-> r.next,
                     table |-> Put(s.table, r.name, r.sw)]
      BY <3>3, <3>4, <3>5 DEF ScanRecord, ReadsAll, r
    <3>7. /\ ~r.eof /\ r.next = Len(P[k]) + 3
          /\ r.name = order[k] /\ r.sw = read(order[k])
      BY <3>5 DEF ReadsAll, read
    <3>8. Put(s.table, r.name, r.sw) = [m \in {order[i] : i \in 1..k} |-> read(m)]
      <4>1. s.table = [m \in {order[i] : i \in 1..(k - 1)} |-> read(m)]
        BY <3>2 DEF ScannedAll, read
      <4>2. {order[i] : i \in 1..k} = {order[i] : i \in 1..(k - 1)} \cup {order[k]}
        <5>1. 1..k = (1..(k - 1)) \cup {k}
          BY <3>1
        <5> QED
          BY <5>1
      <4> HIDE DEF read
      <4> QED
        BY <4>1, <4>2, <3>7 DEF Put
    <3>9. ScannedAll(scan[k], t, order, P, k)
      BY <3>6, <3>7, <3>8 DEF ScannedAll, read
    <3> QED
      BY <3>9, <2>1 DEF T
  <2> QED
    BY <2>2, <2>3
<1>2. n \in Nat
  BY DEF Layout
<1> QED
  BY <1>1, <1>2

-----------------------------------------------------------------------------
(* ezi_software_source_load() of a file that a save wrote completely       *)
(* returns every software that was saved, with all it consists of; only    *)
(* the order of the dependencies is reversed.                              *)
THEOREM LoadOfWhole ==
    ASSUME NEW t \in Tables, NEW order \in SetToSeqs(DOMAIN t), NEW g
    PROVE  Load(Whole(Contents(t, order)), g) = [ok |-> TRUE, table |-> Reversed(t)]
<1> DEFINE n == Len(order)
           c == Contents(t, order)
<1>1. /\ order \in Seq(DOMAIN t)
      /\ \A m \in DOMAIN t : \E i \in 1..n : order[i] = m
  BY TablesFacts, ArrangementIsOnto
<1>2. PICK P : Layout(c, t, order, n, P)
  BY <1>1, ContentsLayout
<1>3. PICK scan : /\ Turns(scan, Whole(c), g, Nat)
                  /\ Scan(Whole(c), g) = scan[Whole(c).fields[2]]
  BY ScanIsTurns
<1> HIDE DEF n, c
<1>4. Whole(c).fields = c /\ c[2] = n /\ Len(c) # 0 /\ Len(c) # 1
  <2>1. P[n] \in Seq(Field) /\ Len(c) = 2 + Len(P[n]) /\ c[2] = n
    BY <1>2 DEF Layout
  <2>2. Len(P[n]) \in Nat
    BY <2>1
  <2> QED
    BY <2>1, <2>2 DEF Whole
<1>5. ScannedAll(scan[n], t, order, P, n)
  BY <1>2, <1>3, ScanWhole
<1>6. {order[i] : i \in 1..n} = DOMAIN t
  <2>1. \A i \in 1..n : order[i] \in DOMAIN t
    BY <1>1 DEF n
  <2> QED
    BY <1>1, <2>1
<1>7. scan[n].ok /\ scan[n].table = Reversed(t)
  BY <1>5, <1>6 DEF ScannedAll, Reversed
<1>8. Scan(Whole(c), g) = scan[n]
  BY <1>3, <1>4
<1> QED
  BY <1>4, <1>7, <1>8 DEF Load, c

(* Wherever a save was cut short, a load that succeeds returns a part of   *)
(* the table that was to be saved: no software, no text and no dependency  *)
(* that was not in it, but for dependencies that lost their characters.    *)
THEOREM LoadOfCut ==
    ASSUME NEW t \in Tables, NEW order \in SetToSeqs(DOMAIN t),
           NEW f \in Cuts(Contents(t, order)), NEW g \in Nat,
           Load(f, g).ok
    PROVE  PartOf(Load(f, g).table, t)
<1> DEFINE n == Len(order)
           c == Contents(t, order)
<1>1. order \in Seq(DOMAIN t)
  BY TablesFacts, ArrangementIsOnto
<1>2. PICK P : Layout(c, t, order, n, P)
  BY <1>1, ContentsLayout
<1>3. PICK scan : Turns(scan, f, g, Nat) /\ Scan(f, g) = scan[f.fields[2]]
  BY ScanIsTurns
<1> HIDE DEF n
<1>4. c \in Seq(Field) /\ c[2] = n
  BY <1>2 DEF Layout
<1>5. Begins(f, c)
  BY <1>4, CutBegins
<1> HIDE DEF c
<1>6. CASE Len(f.fields) = 0
  BY <1>6 DEF Load, Failed
<1>7. CASE Len(f.fields) = 1
  <2>1. Load(f, g) = [ok |-> TRUE, table |-> Empty]
    BY <1>7 DEF Load
  <2> QED
    BY <2>1, EmptyIsTable DEF PartOf
<1>8. CASE Len(f.fields) # 0 /\ Len(f.fields) # 1
  <2>1. f.fields[2] = n
    <3>1. Len(f.fields) \in Nat
      BY <1>5 DEF Begins
    <3>2. \A m \in Nat : m # 0 /\ m # 1 => 2 \in 1..m
      OBVIOUS
    <3>3. 2 \in 1..Len(f.fields)
      BY <1>8, <3>1, <3>2, Zenon
    <3> QED
      BY <3>3, <1>4, <1>5 DEF Begins
  <2>2. Scan(f, g) = scan[n]
    BY <1>3, <2>1
  <2>3. scan[n].ok /\ Load(f, g) = [ok |-> TRUE, table |-> scan[n].table]
    BY <1>8, <2>2 DEF Load, Failed
  <2>4. ScannedPart(scan[n], t, P, n)
    BY <1>2, <1>3, <1>5, ScanCut
  <2> QED
    BY <2>3, <2>4 DEF ScannedPart
<1> QED
  BY <1>6, <1>7, <1>8

(* A file without any field cannot be loaded.                              *)
LEMMA LoadOfTruncated ==
    ASSUME NEW g
    PROVE  ~Load(Truncated, g).ok
BY DEF Load, Truncated, Whole, Failed
=============================================================================
