--------------------------- MODULE SequenceFacts ---------------------------
(***************************************************************************)
(* Facts about numbers and sequences that the proofs of several modules    *)
(* need.                                                                   *)
(***************************************************************************)
EXTENDS Naturals, Sequences, SequenceTheorems, FiniteSetTheorems,
        WellFoundedInduction, TLAPS

(* A set of natural numbers that is not empty has a least element.         *)
LEMMA LeastNatural ==
    ASSUME NEW T \in SUBSET Nat, T # {}
    PROVE  \E i \in T : \A j \in T : i <= j
<1> DEFINE R == OpToRel(<, Nat)
<1>1. \E i \in T : \A j \in T : ~(<<j, i>> \in R)
  <2> HIDE DEF R
  <2>1. IsWellFoundedOn(R, Nat)
    BY NatLessThanWellFounded DEF R
  <2> QED
    BY <2>1, WFMin
<1>2. \A i, j \in Nat : <<j, i>> \in R <=> j < i
  BY DEF OpToRel
<1> HIDE DEF R
<1>3. PICK i \in T : \A j \in T : ~(<<j, i>> \in R)
  BY <1>1
<1>4. \A j \in T : ~(j < i)
  BY <1>2, <1>3
<1> QED
  BY <1>4

(* A set of numbers with a bound has a greatest element.                   *)
LEMMA GreatestNatural ==
    ASSUME NEW n \in Nat, NEW T \in SUBSET (0..n), T # {}
    PROVE  \E i \in T : \A j \in T : j <= i
<1> DEFINE U == {n - i : i \in T}
<1>1. U \in SUBSET Nat /\ U # {}
  <2>1. \A i \in 0..n : n - i \in Nat
    OBVIOUS
  <2>2. \A i \in T : n - i \in Nat
    BY <2>1
  <2> QED
    BY <2>2
<1>2. PICK u \in U : \A v \in U : u <= v
  <2> HIDE DEF U
  <2> QED
    BY <1>1, LeastNatural
<1>3. PICK i \in T : u = n - i
  OBVIOUS
<1>4. \A j \in T : j <= i
  <2> SUFFICES ASSUME NEW j \in T PROVE j <= i
    OBVIOUS
  <2>1. n - i <= n - j
    BY <1>2, <1>3
  <2>2. i \in 0..n /\ j \in 0..n
    OBVIOUS
  <2> QED
    BY <2>1, <2>2
<1> QED
  BY <1>4

-----------------------------------------------------------------------------
(* Where the elements of two sequences are in their concatenation u.       *)
Joins(u, s, t) ==
    /\ Len(u) = Len(s) + Len(t)
    /\ \A i \in 1..Len(s) : u[i] = s[i]
    /\ \A i \in 1..Len(t) : u[Len(s) + i] = t[i]

(* A concatenation is the join of its parts.                               *)
LEMMA Appended ==
    ASSUME NEW S, NEW s \in Seq(S), NEW t \in Seq(S), NEW u, u = s \o t
    PROVE  u \in Seq(S) /\ Joins(u, s, t)
<1>1. Len(s) \in Nat /\ Len(t) \in Nat
  OBVIOUS
<1>2. /\ u \in Seq(S) /\ Len(u) = Len(s) + Len(t)
      /\ \A i \in 1..Len(s) + Len(t) :
             u[i] = IF i <= Len(s) THEN s[i] ELSE t[i - Len(s)]
  BY ConcatProperties
<1>3. ASSUME NEW i \in 1..Len(t) PROVE u[Len(s) + i] = t[i]
  <2>1. Len(s) + i \in 1..Len(s) + Len(t) /\ ~(Len(s) + i <= Len(s))
    BY <1>1
  <2>2. (Len(s) + i) - Len(s) = i
    BY <1>1
  <2> QED
    BY <1>2, <2>1, <2>2
<1> QED
  BY <1>1, <1>2, <1>3 DEF Joins

(* P[k] is the concatenation of the first k of the n sequences.            *)
IsParts(P, seqs, n) ==
    /\ DOMAIN P = 0..n
    /\ P[0] = << >>
    /\ \A i \in 1..n : P[i] = P[i - 1] \o seqs[i]

(* The beginnings of a concatenation exist and are sequences.              *)
LEMMA PartsExist ==
    ASSUME NEW S, NEW n \in Nat, NEW seqs \in [1..n -> Seq(S)]
    PROVE  \E P \in [0..n -> Seq(S)] : IsParts(P, seqs, n)
<1> DEFINE Has(k) == \E P \in [0..k -> Seq(S)] : IsParts(P, seqs, k)
           T == {k \in 0..n : ~Has(k)}
<1>1. T = {}
  <2> SUFFICES ASSUME T # {} PROVE FALSE
    OBVIOUS
  <2>1. PICK k \in T : \A j \in T : k <= j
    <3>1. T \in SUBSET Nat
      OBVIOUS
    <3> HIDE DEF T
    <3> QED
      BY <3>1, LeastNatural
  <2>2. CASE k = 0
    <3>1. [i \in 0..0 |-> << >>] \in [0..0 -> Seq(S)]
      OBVIOUS
    <3>2. IsParts([i \in 0..0 |-> << >>], seqs, 0)
      BY DEF IsParts
    <3> QED
      BY <3>1, <3>2, <2>2, <2>1
  <2>3. CASE k # 0
    <3>1. k - 1 \in 0..n /\ k - 1 \notin T /\ k \in 1..n
      BY <2>1, <2>3
    <3>2. PICK P \in [0..(k - 1) -> Seq(S)] : IsParts(P, seqs, k - 1)
      BY <3>1
    <3> DEFINE Q == [i \in 0..k |-> IF i = k THEN P[k - 1] \o seqs[k] ELSE P[i]]
    <3>3. P[k - 1] \o seqs[k] \in Seq(S)
      BY <3>1, <3>2
    <3>4. Q \in [0..k -> Seq(S)]
      BY <3>1, <3>3
    <3>5. IsParts(Q, seqs, k)
      <4>1. Q[0] = << >>
        BY <3>1, <3>2 DEF IsParts
      <4>2. ASSUME NEW i \in 1..k PROVE Q[i] = Q[i - 1] \o seqs[i]
        <5>1. i - 1 \in 0..k /\ i - 1 # k /\ Q[i - 1] = P[i - 1]
          OBVIOUS
        <5>2. CASE i = k
          BY <5>1, <5>2
        <5>3. CASE i # k
          <6>1. i \in 1..(k - 1) /\ Q[i] = P[i]
            BY <5>3
          <6>2. P[i] = P[i - 1] \o seqs[i]
            BY <3>2, <6>1 DEF IsParts
          <6> QED
            BY <5>1, <6>1, <6>2
        <5> QED
          BY <5>2, <5>3
      <4> QED
        BY <4>1, <4>2 DEF IsParts
    <3> QED
      BY <3>4, <3>5, <2>1
  <2> QED
    BY <2>2, <2>3
<1>2. n \notin T
  BY <1>1
<1> QED
  BY <1>2

(* One part and the next.                                                  *)
Follows(P, seqs, k) ==
    /\ Len(P[k - 1]) \in Nat /\ Len(seqs[k]) \in Nat
    /\ Len(P[k]) = Len(P[k - 1]) + Len(seqs[k])
    /\ \A i \in 1..Len(P[k - 1]) : P[k][i] = P[k - 1][i]
    /\ \A i \in 1..Len(seqs[k]) : P[k][Len(P[k - 1]) + i] = seqs[k][i]

(* Each part of a concatenation follows the one before it.                 *)
LEMMA PartStep ==
    ASSUME NEW S, NEW n \in Nat, NEW seqs \in [1..n -> Seq(S)],
           NEW P \in [0..n -> Seq(S)], IsParts(P, seqs, n),
           NEW k \in 1..n
    PROVE  Follows(P, seqs, k)
<1>1. k - 1 \in 0..n
  OBVIOUS
<1>2. P[k] = P[k - 1] \o seqs[k] /\ P[k - 1] \in Seq(S) /\ seqs[k] \in Seq(S)
  BY <1>1 DEF IsParts
<1> QED
  BY <1>2, Appended DEF Follows, Joins

(* Each part begins the next ones.                                         *)
LEMMA PartsGrow ==
    ASSUME NEW S, NEW n \in Nat, NEW seqs \in [1..n -> Seq(S)],
           NEW P \in [0..n -> Seq(S)], IsParts(P, seqs, n),
           NEW j \in 0..n, NEW k \in j..n
    PROVE  /\ Len(P[j]) <= Len(P[k])
           /\ \A i \in 1..Len(P[j]) : P[k][i] = P[j][i]
<1> DEFINE Grows(m) == /\ Len(P[j]) <= Len(P[m])
                       /\ \A i \in 1..Len(P[j]) : P[m][i] = P[j][i]
           T == {m \in j..n : ~Grows(m)}
<1>1. T = {}
  <2> SUFFICES ASSUME T # {} PROVE FALSE
    OBVIOUS
  <2>1. PICK m \in T : \A l \in T : m <= l
    <3>1. T \in SUBSET Nat
      OBVIOUS
    <3> HIDE DEF T
    <3> QED
      BY <3>1, LeastNatural
  <2>2. m # j
    BY <2>1
  <2>3. m - 1 \in j..n /\ Grows(m - 1)
    BY <2>1, <2>2
  <2>4. m \in 1..n /\ P[j] \in Seq(S)
    BY <2>1, <2>3
  <2>5. Follows(P, seqs, m)
    BY <2>4, PartStep
  <2>6. Grows(m)
    <3>1. Len(P[j]) \in Nat
      BY <2>4
    <3> QED
      BY <2>3, <2>5, <3>1 DEF Follows
  <2> QED
    BY <2>1, <2>6
<1> QED
  BY <1>1

(* Where the elements of sequence k are in the concatenation.              *)
IsAt(P, seqs, n, k) ==
    /\ Len(P[k]) = Len(P[k - 1]) + Len(seqs[k])
    /\ Len(P[k]) <= Len(P[n])
    /\ \A i \in 1..Len(seqs[k]) : P[n][Len(P[k - 1]) + i] = seqs[k][i]

(* Each sequence lies at its place in the whole concatenation.             *)
LEMMA PartAt ==
    ASSUME NEW S, NEW n \in Nat, NEW seqs \in [1..n -> Seq(S)],
           NEW P \in [0..n -> Seq(S)], IsParts(P, seqs, n),
           NEW k \in 1..n
    PROVE  IsAt(P, seqs, n, k)
<1>1. k - 1 \in 0..n /\ k \in 0..n /\ n \in k..n
  OBVIOUS
<1>2. Follows(P, seqs, k)
  BY PartStep
<1>3. /\ Len(P[k]) = Len(P[k - 1]) + Len(seqs[k])
      /\ \A i \in 1..Len(seqs[k]) : P[k][Len(P[k - 1]) + i] = seqs[k][i]
  BY <1>2 DEF Follows
<1>4. /\ Len(P[k]) <= Len(P[n])
      /\ \A i \in 1..Len(P[k]) : P[n][i] = P[k][i]
  BY <1>1, PartsGrow
<1>5. Len(P[k - 1]) \in Nat /\ Len(seqs[k]) \in Nat
  BY <1>2 DEF Follows
<1>6. ASSUME NEW i \in 1..Len(seqs[k])
      PROVE  P[n][Len(P[k - 1]) + i] = seqs[k][i]
  <2>1. Len(P[k - 1]) + i \in 1..Len(P[k])
    BY <1>3, <1>5
  <2> QED
    BY <1>3, <1>4, <2>1
<1> QED
  BY <1>3, <1>4, <1>6 DEF IsAt

-----------------------------------------------------------------------------
(* The function by which FlattenSeq concatenates n sequences exists, and   *)
(* what it ends with is the last part.                                     *)
Flattens(f, seqs, n) ==
    f = [i \in 1..n |-> IF i = 1 THEN seqs[i] ELSE f[i - 1] \o seqs[i]]

(* The recursive function that flattens computes that concatenation.       *)
LEMMA FlatteningIsParts ==
    ASSUME NEW S, NEW n \in Nat, NEW seqs \in [1..n -> Seq(S)], n # 0,
           NEW P \in [0..n -> Seq(S)], IsParts(P, seqs, n)
    PROVE  /\ \E h : Flattens(h, seqs, n)
           /\ \A f : Flattens(f, seqs, n) => f[n] = P[n]
<1> DEFINE h == [i \in 1..n |-> P[i]]
<1>1. P[1] = seqs[1]
  <2>1. 1 \in 1..n /\ seqs[1] \in Seq(S)
    OBVIOUS
  <2>2. P[1] = P[1 - 1] \o seqs[1] /\ P[0] = << >>
    BY <2>1 DEF IsParts
  <2>3. 1 - 1 = 0
    OBVIOUS
  <2>4. P[1] = << >> \o seqs[1]
    BY <2>2, <2>3, Zenon
  <2> QED
    BY <2>1, <2>4, ConcatEmptySeq
<1>2. Flattens(h, seqs, n)
  <2>1. ASSUME NEW i \in 1..n
        PROVE  h[i] = IF i = 1 THEN seqs[i] ELSE h[i - 1] \o seqs[i]
    <3>1. CASE i = 1
      BY <1>1, <3>1
    <3>2. CASE i # 1
      <4>1. i - 1 \in 1..n /\ h[i - 1] = P[i - 1] /\ h[i] = P[i]
        BY <3>2
      <4>2. P[i] = P[i - 1] \o seqs[i]
        BY DEF IsParts
      <4> QED
        BY <3>2, <4>1, <4>2
    <3> QED
      BY <3>1, <3>2
  <2> QED
    BY <2>1 DEF Flattens
<1>3. ASSUME NEW f, Flattens(f, seqs, n) PROVE f[n] = P[n]
  <2> DEFINE T == {i \in 1..n : f[i] # P[i]}
  <2>1. T = {}
    <3> SUFFICES ASSUME T # {} PROVE FALSE
      OBVIOUS
    <3>1. PICK i \in T : \A j \in T : i <= j
      <4>1. T \in SUBSET Nat
        OBVIOUS
      <4> HIDE DEF T
      <4> QED
        BY <4>1, LeastNatural
    <3>2. i # 1
      BY <1>1, <1>3, <3>1 DEF Flattens
    <3>3. i - 1 \in 1..n /\ f[i - 1] = P[i - 1]
      BY <3>1, <3>2
    <3>4. f[i] = P[i - 1] \o seqs[i]
      BY <1>3, <3>1, <3>2, <3>3 DEF Flattens
    <3> QED
      BY <3>1, <3>4 DEF IsParts
  <2>2. n \in 1..n
    OBVIOUS
  <2>3. n \notin T
    BY <2>1
  <2> QED
    BY <2>2, <2>3
<1> QED
  BY <1>2, <1>3
=============================================================================
