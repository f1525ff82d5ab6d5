-------------------------- MODULE RecordBytesProofs --------------------------
(***************************************************************************)
(* What comes back of the records of a data file, byte for byte, for any   *)
(* sizes of the fields and any strings, on machines of either byte order,  *)
(* and wherever the file is cut.                                           *)
(***************************************************************************)
EXTENDS RecordBytes, SequenceFacts

Byte == 0..255

-----------------------------------------------------------------------------
(* Numbers.  The fold by which a reader makes a number of bytes.           *)
Folds(H, m, k) ==
    H = [s \in SUBSET (1..k) |->
            IF s = {} THEN 0 ELSE 256 * H[s \ {Max(s)}] + m[Max(s)]]

(* The greatest element of a set of positions.                             *)
LEMMA MaxOf ==
    ASSUME NEW k \in Nat, NEW s \in SUBSET (1..k), NEW i \in s,
           \A j \in s : j <= i
    PROVE  Max(s) = i
<1>1. \A x \in s : (\A y \in s : x >= y) => x = i
  OBVIOUS
<1>2. \A y \in s : i >= y
  OBVIOUS
<1> QED
  BY <1>1, <1>2 DEF Max

(* A sequence that can be folded up to k - 1 can be folded up to k.        *)
LEMMA FoldStep ==
    ASSUME NEW m, NEW k \in Nat \ {0}, NEW H, Folds(H, m, k - 1)
    PROVE  \E G : Folds(G, m, k)
<1> DEFINE G == [s \in SUBSET (1..k) |-> IF k \in s THEN 256 * H[s \ {k}] + m[k]
                                         ELSE H[s]]
<1>1. ASSUME NEW s \in SUBSET (1..k)
      PROVE  G[s] = IF s = {} THEN 0 ELSE 256 * G[s \ {Max(s)}] + m[Max(s)]
  <2>1. CASE k \in s
    <3>1. Max(s) = k
      <4>1. k \in Nat /\ \A j \in s : j <= k
        OBVIOUS
      <4> QED
        BY <2>1, <4>1, MaxOf
    <3>2. s \ {k} \in SUBSET (1..k) /\ k \notin s \ {k}
      OBVIOUS
    <3> QED
      BY <2>1, <3>1, <3>2
  <2>2. CASE k \notin s
    <3>1. s \in SUBSET (1..(k - 1))
      BY <2>2
    <3>2. H[s] = IF s = {} THEN 0 ELSE 256 * H[s \ {Max(s)}] + m[Max(s)]
      BY <3>1 DEF Folds
    <3>3. s \ {Max(s)} \in SUBSET (1..k) /\ k \notin s \ {Max(s)}
      BY <2>2
    <3> QED
      BY <2>2, <3>2, <3>3
  <2> QED
    BY <2>1, <2>2
<1>2. G = [s \in SUBSET (1..k) |-> G[s]]
  OBVIOUS
<1> HIDE DEF G
<1>3. Folds(G, m, k)
  BY <1>1, <1>2 DEF Folds
<1> QED
  BY <1>3

(* Two and four bytes can be folded.                                       *)
LEMMA FoldsExist ==
    ASSUME NEW m
    PROVE  (\E H : Folds(H, m, 2)) /\ (\E H : Folds(H, m, 4))
<1>1. Folds([s \in SUBSET (1..0) |-> 0], m, 0)
  BY DEF Folds
<1>2. \E H : Folds(H, m, 1)
  BY <1>1, FoldStep
<1>3. \E H : Folds(H, m, 2)
  BY <1>2, FoldStep
<1>4. \E H : Folds(H, m, 3)
  BY <1>3, FoldStep
<1>5. \E H : Folds(H, m, 4)
  BY <1>4, FoldStep
<1> QED
  BY <1>3, <1>5

(* Each byte is added to 256 times what those before it make.              *)
LEMMA FoldValue ==
    ASSUME NEW m, NEW k \in Nat, NEW H, Folds(H, m, k), NEW j \in 1..k
    PROVE  H[1..j] = 256 * H[1..(j - 1)] + m[j]
<1>1. Max(1..j) = j
  <2>1. 1..j \in SUBSET (1..k) /\ j \in 1..j /\ \A i \in 1..j : i <= j
    OBVIOUS
  <2> QED
    BY <2>1, MaxOf
<1>2. (1..j) \ {j} = 1..(j - 1)
  OBVIOUS
<1>3. 1..j \in SUBSET (1..k) /\ 1..j # {}
  OBVIOUS
<1> QED
  BY <1>1, <1>2, <1>3 DEF Folds

(* The fold of nothing is zero.                                            *)
LEMMA FoldZero ==
    ASSUME NEW m, NEW k, NEW H, Folds(H, m, k)
    PROVE  H[{}] = 0
  BY DEF Folds

(* The number of two and of four bytes, the highest first.                 *)
Value(m) == FoldLeft(LAMBDA n, b : 256 * n + b, 0, m)

(* The value of two or four bytes is such a fold.                          *)
LEMMA ValueIsFold ==
    ASSUME NEW m \in Seq(Byte), NEW k \in {2, 4}, Len(m) = k
    PROVE  \E H : Folds(H, m, k) /\ Value(m) = H[1..k]
<1> DEFINE H == CHOOSE H : H = [s \in SUBSET DOMAIN m |->
                     IF s = {} THEN 0 ELSE 256 * H[s \ {Max(s)}] + m[Max(s)]]
<1>1. DOMAIN m = 1..k
  OBVIOUS
<1>2. Value(m) = H[DOMAIN m]
  BY DEF Value, FoldLeft, MapThenFoldSet
<1>3. \E G : G = [s \in SUBSET DOMAIN m |->
                     IF s = {} THEN 0 ELSE 256 * G[s \ {Max(s)}] + m[Max(s)]]
  <2>1. \E G : Folds(G, m, k)
    BY FoldsExist, k = 2 \/ k = 4
  <2> QED
    BY <1>1, <2>1, Zenon DEF Folds
<1>4. H = [s \in SUBSET DOMAIN m |->
                     IF s = {} THEN 0 ELSE 256 * H[s \ {Max(s)}] + m[Max(s)]]
  BY <1>3, Zenon
<1> HIDE DEF H
<1> QED
  BY <1>1, <1>2, <1>4 DEF Folds

(* The value of two bytes.                                                 *)
LEMMA ValueOfTwo ==
    ASSUME NEW m \in Seq(Byte), Len(m) = 2
    PROVE  Value(m) = 256 * m[1] + m[2]
<1>1. PICK H : Folds(H, m, 2) /\ Value(m) = H[1..2]
  BY ValueIsFold
<1>2. \A j \in 1..2 : H[1..j] = 256 * H[1..(j - 1)] + m[j]
  BY <1>1, FoldValue
<1>3. H[1..0] = 0
  <2>1. 1..0 = {}
    OBVIOUS
  <2> QED
    BY <1>1, <2>1, FoldZero
<1>4. m[1] \in Byte
  BY ElementOfSeq, 1 \in 1..2
<1>5. H[1..1] = m[1]
  <2>1. H[1..1] = 256 * H[1..(1 - 1)] + m[1] /\ 1 - 1 = 0
    BY <1>2
  <2>2. \A b \in Byte : 256 * 0 + b = b
    BY DEF Byte
  <2> QED
    BY <1>3, <1>4, <2>1, <2>2
<1>6. H[1..2] = 256 * H[1..(2 - 1)] + m[2] /\ 2 - 1 = 1
  BY <1>2
<1> QED
  BY <1>1, <1>5, <1>6

(* The value of four bytes.                                                *)
LEMMA ValueOfFour ==
    ASSUME NEW m \in Seq(Byte), Len(m) = 4
    PROVE  Value(m) = 256 * (256 * (256 * m[1] + m[2]) + m[3]) + m[4]
<1>1. PICK H : Folds(H, m, 4) /\ Value(m) = H[1..4]
  BY ValueIsFold
<1>2. \A j \in 1..4 : H[1..j] = 256 * H[1..(j - 1)] + m[j]
  BY <1>1, FoldValue
<1>3. H[1..0] = 0
  <2>1. 1..0 = {}
    OBVIOUS
  <2> QED
    BY <1>1, <2>1, FoldZero
<1>4. m[1] \in Byte
  BY ElementOfSeq, 1 \in 1..4
<1>5. H[1..1] = m[1]
  <2>1. H[1..1] = 256 * H[1..(1 - 1)] + m[1] /\ 1 - 1 = 0
    BY <1>2
  <2>2. \A b \in Byte : 256 * 0 + b = b
    BY DEF Byte
  <2> QED
    BY <1>3, <1>4, <2>1, <2>2
<1>6. H[1..2] = 256 * H[1..(2 - 1)] + m[2] /\ 2 - 1 = 1
  BY <1>2
<1>7. H[1..3] = 256 * H[1..(3 - 1)] + m[3] /\ 3 - 1 = 2
  BY <1>2
<1>8. H[1..4] = 256 * H[1..(4 - 1)] + m[4] /\ 4 - 1 = 3
  BY <1>2
<1> QED
  BY <1>1, <1>5, <1>6, <1>7, <1>8

(* Reversing a sequence twice leaves it as it was.                         *)
LEMMA ReverseTwice ==
    ASSUME NEW S, NEW m \in Seq(S)
    PROVE  Reverse(m) \in Seq(S) /\ Len(Reverse(m)) = Len(m) /\ Reverse(Reverse(m)) = m
<1>1. PICK n \in Nat : n = Len(m)
  OBVIOUS
<1>2. PICK r : r = Reverse(m)
  OBVIOUS
<1>3. r = [i \in 1..n |-> m[(n - i) + 1]]
  BY <1>1, <1>2 DEF Reverse
<1>4. \A i \in 1..n : (n - i) + 1 \in 1..n /\ (n - ((n - i) + 1)) + 1 = i
  BY <1>1
<1>5. m \in [1..n -> S]
  BY <1>1
<1>6. r \in [1..n -> S]
  BY <1>3, <1>4, <1>5
<1>7. r \in Seq(S) /\ Len(r) = n
  BY <1>1, <1>6
<1>8. Reverse(r) = [i \in 1..n |-> r[(n - i) + 1]]
  BY <1>7 DEF Reverse
<1>9. \A i \in 1..n : r[(n - i) + 1] = m[i]
  BY <1>3, <1>4
<1>10. m = [i \in 1..n |-> m[i]]
  BY <1>5
<1>11. Reverse(r) = m
  BY <1>8, <1>9, <1>10
<1> QED
  BY <1>1, <1>2, <1>7, <1>11

(* What a reader makes of the bytes of a number does not depend on its     *)
(* byte order.                                                             *)
LEMMA ReadersAgree ==
    ASSUME NEW m \in Seq(Byte), NEW big \in BOOLEAN
    PROVE  HostNumber(Swapped(m, big), big) = Value(m)
<1>1. CASE big
  <2>1. HostNumber(Swapped(m, big), big) = FoldLeft(LAMBDA n, b : 256 * n + b, 0, m)
    BY <1>1, Zenon DEF HostNumber, Swapped
  <2> QED
    BY <2>1, Zenon DEF Value
<1>2. CASE ~big
  <2>1. Reverse(Reverse(m)) = m
    BY ReverseTwice
  <2>2. HostNumber(Swapped(m, big), big)
           = FoldLeft(LAMBDA n, b : 256 * n + b, 0, Reverse(Reverse(m)))
    BY <1>2, Zenon DEF HostNumber, Swapped
  <2> QED
    BY <2>1, <2>2, Zenon DEF Value
<1> QED
  BY <1>1, <1>2

(* Values are numbers.                                                     *)
LEMMA ValueType ==
    ASSUME NEW m \in Seq(Byte), Len(m) \in {2, 4}
    PROVE  Value(m) \in Nat
<1>1. \A i \in 1..Len(m) : m[i] \in Nat
  <2>1. \A i \in 1..Len(m) : m[i] \in Byte
    BY ElementOfSeq
  <2>2. \A b \in Byte : b \in Nat
    BY DEF Byte
  <2> QED
    BY <2>1, <2>2, Zenon
<1>2. CASE Len(m) = 2
  BY <1>1, <1>2, ValueOfTwo
<1>3. CASE Len(m) = 4
  BY <1>1, <1>3, ValueOfFour
<1> QED
  BY <1>2, <1>3

(* The bytes of a number, the lowest first.                                *)
Digit(n, i) == (n \div 256^(i - 1)) % 256
Low(n, w) == [i \in 1..w |-> Digit(n, i)]

(* The weights of the four bytes of a number.                              *)
LEMMA Powers ==
    /\ 256^(1 - 1) = 1 /\ 256^(2 - 1) = 256
    /\ 256^(3 - 1) = 65536 /\ 256^(4 - 1) = 16777216
<1>1. 256^0 = 1 /\ 256^1 = 256 /\ 256^2 = 65536 /\ 256^3 = 16777216
  BY SMT
<1>2. 1 - 1 = 0 /\ 2 - 1 = 1 /\ 3 - 1 = 2 /\ 4 - 1 = 3
  BY SMT
<1> QED
  BY <1>1, <1>2, SMT

(* The bytes of a number, from the lowest one.                             *)
LEMMA Digits ==
    ASSUME NEW n \in Nat
    PROVE  /\ Digit(n, 1) = n % 256
           /\ Digit(n, 2) = (n \div 256) % 256
           /\ Digit(n, 3) = (n \div 65536) % 256
           /\ Digit(n, 4) = (n \div 16777216) % 256
  BY Powers, SMT DEF Digit

(* Each fits in a byte.                                                    *)
LEMMA DigitsAreBytes ==
    ASSUME NEW n \in Nat
    PROVE  /\ Digit(n, 1) \in Byte /\ Digit(n, 2) \in Byte
           /\ Digit(n, 3) \in Byte /\ Digit(n, 4) \in Byte
  BY Powers, SMT DEF Digit, Byte

IsLow(m, n, w) ==
    m \in Seq(Byte) /\ Len(m) = w /\ \A i \in 1..w : m[i] = Digit(n, i)

(* The bytes of a number as a sequence.                                    *)
LEMMA LowBytes ==
    ASSUME NEW n \in Nat, NEW w \in {2, 3, 4}
    PROVE  IsLow(Low(n, w), n, w)
<1>1. \A i \in 1..w : i = 1 \/ i = 2 \/ i = 3 \/ i = 4
  BY SMT
<1>2. Low(n, w) \in [1..w -> Byte]
  BY <1>1, DigitsAreBytes DEF Low
<1>3. Low(n, w) \in Seq(Byte) /\ Len(Low(n, w)) = w
  BY <1>2, w \in Nat
<1> QED
  BY <1>3 DEF IsLow, Low

(* A number is written with its highest byte first, whatever the machine.  *)
LEMMA WritersAgree ==
    ASSUME NEW n \in Nat, NEW w \in {2, 3, 4}, NEW big \in BOOLEAN
    PROVE  /\ HostBytes(n, w, big) = IF big THEN Reverse(Low(n, w)) ELSE Low(n, w)
           /\ NumberBytes(n, w, big) = Reverse(Low(n, w))
<1>1. HostBytes(n, w, big) = IF big THEN Reverse(Low(n, w)) ELSE Low(n, w)
  BY Zenon DEF HostBytes, Low, Digit
<1>2. NumberBytes(n, w, big) = IF big THEN HostBytes(n, w, big)
                               ELSE Reverse(HostBytes(n, w, big))
  BY Zenon DEF NumberBytes, Swapped
<1> QED
  BY <1>1, <1>2, Zenon

(* What is written as the bytes of a number is read as that number, on a   *)
(* machine of either byte order.                                           *)
IsNumber(m, n, w) ==
    /\ m \in Seq(Byte) /\ Len(m) = w
    /\ \A big \in BOOLEAN : HostNumber(Swapped(m, big), big) = n

InWidth(n, w) == n < (IF w = 2 THEN 65536 ELSE 4294967296)

(* A number that fits its width is read back as it was written, on         *)
(* machines of any two byte orders.                                        *)
LEMMA NumberReturns ==
    ASSUME NEW n \in Nat, NEW w \in {2, 4}, InWidth(n, w), NEW big \in BOOLEAN
    PROVE  IsNumber(NumberBytes(n, w, big), n, w)
<1>1. PICK low : low = Low(n, w)
  OBVIOUS
<1>2. PICK m : m = Reverse(low)
  OBVIOUS
<1>3. NumberBytes(n, w, big) = m
  BY <1>1, <1>2, WritersAgree
<1>4. IsLow(low, n, w)
  <2>1. w \in {2, 3, 4}
    OBVIOUS
  <2> QED
    BY <1>1, <2>1, LowBytes
<1>5. m \in Seq(Byte) /\ Len(m) = w /\ m = [i \in 1..w |-> low[(w - i) + 1]]
  BY <1>2, <1>4, ReverseTwice DEF Reverse, IsLow
<1>6. Value(m) = n
  <2>1. CASE w = 2
    <3>1. m[1] = low[2] /\ m[2] = low[1]
      BY <1>5, <2>1, (2 - 1) + 1 = 2, (2 - 2) + 1 = 1, 1 \in 1..2, 2 \in 1..2
    <3>2. low[1] = n % 256 /\ low[2] = (n \div 256) % 256
      <4>1. low[1] = Digit(n, 1) /\ low[2] = Digit(n, 2)
        BY <1>4, <2>1, 1 \in 1..2, 2 \in 1..2 DEF IsLow
      <4> QED
        BY <4>1, Digits, SMT
    <3>3. 256 * ((n \div 256) % 256) + (n % 256) = n
      BY <2>1, SMT DEF InWidth
    <3>4. Value(m) = 256 * m[1] + m[2]
      <4>1. m \in Seq(Byte) /\ Len(m) = 2
        BY <1>5, <2>1
      <4> QED
        BY <4>1, ValueOfTwo
    <3> QED
      BY <3>1, <3>2, <3>3, <3>4
  <2>2. CASE w = 4
    <3>1. m[1] = low[4] /\ m[2] = low[3] /\ m[3] = low[2] /\ m[4] = low[1]
      <4>1. /\ (4 - 1) + 1 = 4 /\ (4 - 2) + 1 = 3
            /\ (4 - 3) + 1 = 2 /\ (4 - 4) + 1 = 1
            /\ 1 \in 1..4 /\ 2 \in 1..4 /\ 3 \in 1..4 /\ 4 \in 1..4
        BY SMT
      <4> QED
        BY <1>5, <2>2, <4>1
    <3>2. /\ low[1] = n % 256 /\ low[2] = (n \div 256) % 256
          /\ low[3] = (n \div 65536) % 256
          /\ low[4] = (n \div 16777216) % 256
      <4>1. /\ low[1] = Digit(n, 1) /\ low[2] = Digit(n, 2)
            /\ low[3] = Digit(n, 3) /\ low[4] = Digit(n, 4)
        <5>1. 1 \in 1..4 /\ 2 \in 1..4 /\ 3 \in 1..4 /\ 4 \in 1..4
          BY SMT
        <5> QED
          BY <1>4, <2>2, <5>1 DEF IsLow
      <4> QED
        BY <4>1, Digits, SMT
    <3>3. 256 * (256 * (256 * ((n \div 16777216) % 256) + ((n \div 65536) % 256))
                 + ((n \div 256) % 256)) + (n % 256) = n
      <4>1. PICK a \in Nat : a = n \div 256
        BY SMT
      <4>2. PICK b \in Nat : b = a \div 256
        BY SMT
      <4>3. PICK c \in Nat : c = b \div 256
        BY SMT
      <4>4. n \div 65536 = b
        BY <4>1, <4>2, SMT
      <4>5. n \div 16777216 = c
        BY <4>3, <4>4, SMT
      <4>6. c < 256
        BY <2>2, <4>5, SMT DEF InWidth
      <4>7. n = 256 * a + (n % 256) /\ a = 256 * b + (a % 256) /\ b = 256 * c + (b % 256)
        BY <4>1, <4>2, <4>3, SMT
      <4>8. c % 256 = c
        BY <4>6, SMT
      <4> QED
        BY <4>1, <4>4, <4>5, <4>7, <4>8, SMT
    <3>4. Value(m) = 256 * (256 * (256 * m[1] + m[2]) + m[3]) + m[4]
      <4>1. m \in Seq(Byte) /\ Len(m) = 4
        BY <1>5, <2>2
      <4> QED
        BY <4>1, ValueOfFour
    <3> QED
      BY <3>1, <3>2, <3>3, <3>4
  <2> QED
    BY <2>1, <2>2
<1> QED
  BY <1>3, <1>5, <1>6, ReadersAgree DEF IsNumber

-----------------------------------------------------------------------------
(* Strings.  c is the string that begins where m does.                     *)
IsText(c, m) ==
    /\ c \in Seq(Byte) /\ Len(c) <= Len(m)
    /\ \A i \in 1..Len(c) : c[i] = m[i] /\ m[i] # 0
    /\ Len(c) < Len(m) => m[Len(c) + 1] = 0

(* strlen(): Chars is the string up to the first zero.                     *)
LEMMA CharsText ==
    ASSUME NEW m \in Seq(Byte)
    PROVE  IsText(Chars(m), m)
<1> DEFINE I == {i \in 1..Len(m) : m[i] = 0}
<1>1. CString(m) = IF I # {} THEN Min(I) ELSE 0
  BY DEF CString, SelectInSeq
<1>2. Len(m) \in Nat
  OBVIOUS
<1>3. CASE I = {}
  <2>1. Chars(m) = m
    BY <1>1, <1>3 DEF Chars
  <2>2. \A i \in 1..Len(m) : m[i] # 0
    BY <1>3
  <2> QED
    BY <1>2, <2>1, <2>2 DEF IsText
<1>4. CASE I # {}
  <2>1. PICK z \in I : \A j \in I : z <= j
    <3>1. I \in SUBSET Nat
      BY <1>2
    <3> HIDE DEF I
    <3> QED
      BY <1>4, <3>1, LeastNatural
  <2>2. z \in 1..Len(m) /\ m[z] = 0
    OBVIOUS
  <2>3. Min(I) = z
    <3>1. I \subseteq Nat
      BY <1>2
    <3> HIDE DEF I
    <3>2. \A x \in I : (\A y \in I : x =< y) => x = z
      BY <2>1, <3>1
    <3> QED
      BY <2>1, <3>2 DEF Min
  <2>4. Chars(m) = SubSeq(m, 1, z - 1)
    <3>1. CString(m) = z /\ z # 0
      <4> HIDE DEF I
      <4> QED
        BY <1>1, <1>4, <2>2, <2>3
    <3> QED
      BY <3>1 DEF Chars
  <2>5. \A i \in 1..(z - 1) : m[i] # 0
    <3> SUFFICES ASSUME NEW i \in 1..(z - 1), m[i] = 0 PROVE FALSE
      OBVIOUS
    <3>1. i \in I
      BY <1>2, <2>2
    <3>2. z <= i
      BY <2>1, <3>1
    <3>3. z \in Nat /\ i \in Nat /\ i <= z - 1
      BY <1>2, <2>2
    <3> HIDE DEF I
    <3> QED
      BY <3>2, <3>3
  <2>6. PICK c : c = SubSeq(m, 1, z - 1)
    OBVIOUS
  <2>7. c \in Seq(Byte) /\ Len(c) = z - 1 /\ \A i \in 1..(z - 1) : c[i] = m[i]
    BY <1>2, <2>2, <2>6
  <2>8. IsText(c, m)
    BY <1>2, <2>2, <2>5, <2>7 DEF IsText
  <2> QED
    BY <2>4, <2>6, <2>8
<1> QED
  BY <1>3, <1>4

(* There is one such string.                                               *)
LEMMA OneText ==
    ASSUME NEW m \in Seq(Byte), NEW c, IsText(c, m)
    PROVE  Chars(m) = c
<1>1. PICK d : d = Chars(m)
  OBVIOUS
<1>2. IsText(d, m)
  BY <1>1, CharsText
<1>3. c \in Seq(Byte) /\ d \in Seq(Byte)
  BY <1>2 DEF IsText
<1>4. Len(c) \in Nat /\ Len(d) \in Nat /\ Len(m) \in Nat
  BY <1>3
<1>5. ~(Len(c) < Len(d))
  <2> SUFFICES ASSUME Len(c) < Len(d) PROVE FALSE
    OBVIOUS
  <2>1. Len(c) + 1 \in 1..Len(d) /\ Len(c) < Len(m)
    BY <1>2, <1>4 DEF IsText
  <2> QED
    BY <1>2, <2>1 DEF IsText
<1>6. ~(Len(d) < Len(c))
  <2> SUFFICES ASSUME Len(d) < Len(c) PROVE FALSE
    OBVIOUS
  <2>1. Len(d) + 1 \in 1..Len(c) /\ Len(d) < Len(m)
    BY <1>4 DEF IsText
  <2> QED
    BY <1>2, <2>1 DEF IsText
<1>7. Len(c) = Len(d)
  BY <1>4, <1>5, <1>6
<1>8. \A i \in 1..Len(c) : c[i] = d[i]
  BY <1>2, <1>7 DEF IsText
<1> QED
  BY <1>1, <1>3, <1>7, <1>8, SeqEqual

(* The copy of a string into a field.                                      *)
LEMMA CopyType ==
    ASSUME NEW s \in Seq(Byte), NEW n \in Nat
    PROVE  /\ Copy(s, n) \in [1..n -> Byte]
           /\ Copy(s, n) \in Seq(Byte) /\ Len(Copy(s, n)) = n
<1>1. \A i \in 1..n : i <= Len(s) => s[i] \in Byte
  BY ElementOfSeq
<1>2. 0 \in Byte
  BY DEF Byte
<1>3. Copy(s, n) \in [1..n -> Byte]
  BY <1>1, <1>2 DEF Copy
<1> QED
  BY <1>3

(* A string of a command line has no zero byte.                            *)
LEMMA CharacterSeq ==
    ASSUME NEW s \in Seq(1..255)
    PROVE  s \in Seq(Byte) /\ \A i \in 1..Len(s) : s[i] # 0
<1>1. \A i \in 1..Len(s) : s[i] \in 1..255
  BY ElementOfSeq
<1>2. \A b \in 1..255 : b \in Byte /\ b # 0
  BY DEF Byte
<1>3. \A i \in 1..Len(s) : s[i] \in Byte /\ s[i] # 0
  BY <1>1, <1>2
<1>4. s \in [1..Len(s) -> Byte] /\ Len(s) \in Nat
  BY <1>3
<1> QED
  BY <1>3, <1>4

(* A field that was filled from a string, and what it holds as a string.   *)
Filled(f, n) == \E s \in Seq(1..255) : f = Copy(s, n)

(* A field is its string, filled up with zeros.                            *)
LEMMA FilledText ==
    ASSUME NEW n \in Nat, NEW f, Filled(f, n)
    PROVE  /\ f \in Seq(Byte) /\ Len(f) = n /\ f \in [1..n -> Byte]
           /\ Chars(f) \in Seq(Byte) /\ Len(Chars(f)) <= n
           /\ Copy(Chars(f), n) = f
<1>1. PICK s \in Seq(1..255) : f = Copy(s, n)
  BY DEF Filled
<1>2. s \in Seq(Byte) /\ \A i \in 1..Len(s) : s[i] # 0
  BY CharacterSeq
<1>3. f \in [1..n -> Byte] /\ f \in Seq(Byte) /\ Len(f) = n
  BY <1>1, <1>2, CopyType
<1>4. PICK c : c = Chars(f)
  OBVIOUS
<1>5. IsText(c, f)
  BY <1>3, <1>4, CharsText
<1>6. c \in Seq(Byte) /\ Len(c) \in Nat /\ Len(c) <= n
  BY <1>3, <1>5 DEF IsText
<1>7. \A i \in 1..n : f[i] = IF i <= Len(s) THEN s[i] ELSE 0
  BY <1>1 DEF Copy
<1>8. ASSUME NEW i \in 1..n PROVE f[i] = IF i <= Len(c) THEN c[i] ELSE 0
  <2>1. CASE i <= Len(c)
    BY <1>5, <1>6, <2>1 DEF IsText
  <2>2. CASE i > Len(c)
    <3>1. Len(c) + 1 \in 1..n /\ Len(c) < n /\ Len(c) + 1 <= i
      BY <1>6, <2>2
    <3>2. f[Len(c) + 1] = 0
      BY <1>3, <1>5, <3>1 DEF IsText
    <3>3. ~(Len(c) + 1 <= Len(s))
      <4> SUFFICES ASSUME Len(c) + 1 <= Len(s) PROVE FALSE
        OBVIOUS
      <4>1. Len(c) + 1 \in 1..Len(s) /\ f[Len(c) + 1] = s[Len(c) + 1]
        BY <1>6, <1>7, <3>1
      <4> QED
        BY <1>2, <3>2, <4>1
    <3>4. ~(i <= Len(s))
      BY <1>6, <3>1, <3>3
    <3> QED
      BY <1>7, <2>2, <3>4, <1>6
  <2> QED
    BY <1>6, <2>1, <2>2
<1>9. f = [i \in 1..n |-> IF i <= Len(c) THEN c[i] ELSE 0]
  BY <1>3, <1>8
<1> QED
  BY <1>3, <1>4, <1>6, <1>9 DEF Copy

(* What follows a field changes nothing about the string in it if the      *)
(* field has a zero at its end, or what follows begins with one.           *)
LEMMA CharsStop ==
    ASSUME NEW f \in Seq(Byte), NEW rest \in Seq(Byte), f # << >>,
           f[Len(f)] = 0 \/ (rest # << >> /\ rest[1] = 0)
    PROVE  Chars(f \o rest) = Chars(f)
<1>1. PICK m : m = f \o rest
  OBVIOUS
<1>2. m \in Seq(Byte) /\ Joins(m, f, rest)
  BY <1>1, Appended
<1>3. PICK c : c = Chars(f)
  OBVIOUS
<1>4. IsText(c, f)
  BY <1>3, CharsText
<1>5. Len(f) \in Nat /\ Len(rest) \in Nat /\ Len(c) \in Nat /\ Len(f) > 0
  BY <1>4 DEF IsText
<1>6. Len(m) = Len(f) + Len(rest)
  BY <1>2 DEF Joins
<1>7. \A i \in 1..Len(c) : c[i] = m[i] /\ m[i] # 0
  <2>1. \A i \in 1..Len(c) : i \in 1..Len(f) /\ c[i] = f[i] /\ f[i] # 0
    BY <1>4, <1>5 DEF IsText
  <2>2. \A i \in 1..Len(f) : m[i] = f[i]
    BY <1>2 DEF Joins
  <2> QED
    BY <2>1, <2>2
<1>8. Len(c) < Len(m) => m[Len(c) + 1] = 0
  <2>1. CASE Len(c) < Len(f)
    <3>1. Len(c) + 1 \in 1..Len(f) /\ f[Len(c) + 1] = 0
      BY <1>4, <1>5, <2>1 DEF IsText
    <3> QED
      BY <1>2, <3>1 DEF Joins
  <2>2. CASE Len(c) = Len(f)
    <3>1. f[Len(f)] # 0
      BY <1>4, <1>5, <2>2 DEF IsText
    <3>2. 1 \in 1..Len(rest) /\ rest[1] = 0
      BY <1>5, <3>1
    <3> QED
      BY <1>2, <2>2, <3>2 DEF Joins
  <2> QED
    BY <1>4, <1>5, <2>1, <2>2 DEF IsText
<1>9. IsText(c, m)
  BY <1>4, <1>5, <1>6, <1>7, <1>8 DEF IsText
<1> QED
  BY <1>1, <1>2, <1>3, <1>9, OneText

-----------------------------------------------------------------------------
(* FlattenSeq concatenates all the sequences.                              *)
LEMMA FlattenIsLastPart ==
    ASSUME NEW S, NEW n \in Nat, NEW seqs \in [1..n -> Seq(S)],
           NEW P \in [0..n -> Seq(S)], IsParts(P, seqs, n)
    PROVE  FlattenSeq(seqs) = P[n]
<1>1. Len(seqs) = n
  OBVIOUS
<1>2. CASE n = 0
  <2>1. seqs = << >>
    BY <1>2
  <2> QED
    BY <1>1, <1>2, <2>1 DEF FlattenSeq, IsParts
<1>3. CASE n # 0
  <2> DEFINE f == CHOOSE f : f = [i \in 1..n |-> IF i = 1 THEN seqs[i]
                                                 ELSE f[i - 1] \o seqs[i]]
  <2>1. FlattenSeq(seqs) = f[n]
    BY <1>1, <1>3 DEF FlattenSeq
  <2>2. \E h : Flattens(h, seqs, n)
    BY <1>3, FlatteningIsParts
  <2>3. \A h : Flattens(h, seqs, n) => h[n] = P[n]
    BY <1>3, FlatteningIsParts
  <2>4. \E h : h = [i \in 1..n |-> IF i = 1 THEN seqs[i] ELSE h[i - 1] \o seqs[i]]
    BY <2>2 DEF Flattens
  <2>5. f = [i \in 1..n |-> IF i = 1 THEN seqs[i] ELSE f[i - 1] \o seqs[i]]
    BY <2>4, Zenon
  <2> HIDE DEF f
  <2>6. Flattens(f, seqs, n)
    BY <2>5, Zenon DEF Flattens
  <2> QED
    BY <2>1, <2>3, <2>6
<1> QED
  BY <1>2, <1>3

(* The structs that `ezi add' makes.                                       *)
Built(sw) ==
    /\ Filled(sw.name, NameLen) /\ Filled(sw.desc, DescLen) /\ Filled(sw.url, UrlLen)
    /\ sw.deps \in Seq(Seq(Byte))
    /\ \A i \in 1..Len(sw.deps) : Filled(sw.deps[i], NameLen)

(* The lengths of the fields and the width of the count.                   *)
LEMMA Lengths ==
    /\ NameLen \in Nat \ {0} /\ DescLen \in Nat \ {0} /\ UrlLen \in Nat \ {0}
    /\ NameLen <= 65536 /\ DescLen <= 65536 /\ UrlLen <= 65536
    /\ DepsWidth \in Nat \ {0} /\ DepsWidth <= 65536
  BY LengthsAssumption

(* The same, without their bounds.                                         *)
LEMMA FieldLengths == NameLen \in Nat \ {0} /\ DescLen \in Nat \ {0} /\ UrlLen \in Nat \ {0}
  BY LengthsAssumption

(* The structs of `ezi add' are such structs.                              *)
LEMMA StructBuilt ==
    ASSUME NEW arg \in Arguments
    PROVE  Built(Struct(arg))
<1>1. /\ arg.name \in Seq(1..255) /\ arg.desc \in Seq(1..255)
      /\ arg.url \in Seq(1..255) /\ arg.deps \in Seq(Seq(1..255))
  BY StringsAssumption
<1>2. PICK n \in Nat : n = Len(arg.deps)
  BY <1>1
<1>3. PICK ds : ds = Struct(arg).deps
  OBVIOUS
<1>4. ds = [i \in 1..n |-> Copy(arg.deps[i], NameLen)]
  BY <1>1, <1>2, <1>3 DEF Struct
<1>5. \A i \in 1..n : arg.deps[i] \in Seq(1..255)
  BY <1>1, <1>2, ElementOfSeq
<1>6. \A i \in 1..n : Copy(arg.deps[i], NameLen) \in Seq(Byte)
  <2>1. \A i \in 1..n : arg.deps[i] \in Seq(Byte)
    BY <1>5, CharacterSeq
  <2>2. NameLen \in Nat
    BY Lengths
  <2> QED
    BY <2>1, <2>2, CopyType
<1>7. ds \in Seq(Seq(Byte)) /\ Len(ds) = n
  BY <1>4, <1>6
<1>8. \A i \in 1..n : Filled(ds[i], NameLen)
  BY <1>4, <1>5 DEF Filled
<1>9. /\ Filled(Struct(arg).name, NameLen) /\ Filled(Struct(arg).desc, DescLen)
       /\ Filled(Struct(arg).url, UrlLen)
  BY <1>1 DEF Struct, Filled
<1> QED
  BY <1>2, <1>3, <1>7, <1>8, <1>9, Zenon DEF Built

(* What follows the URL in a struct begins with a zero if there are no     *)
(* dependencies or the machine has its high bytes first.                   *)
LEMMA HeadType ==
    ASSUME NEW sw, Built(sw), NEW big \in BOOLEAN
    PROVE  /\ ListHead(sw, big) \in Seq(Byte) /\ ListHead(sw, big) # << >>
           /\ sw.deps = << >> \/ big => ListHead(sw, big)[1] = 0
<1>1. PICK n \in Nat : n = Len(sw.deps)
  BY DEF Built
<1>2. 0 \in Byte /\ <<0>> \in Seq(Byte) /\ Len(<<0>>) = 1 /\ <<0>>[1] = 0
  <2>1. 0 \in Byte
    BY DEF Byte
  <2> QED
    BY <2>1
<1>3. CASE big
  BY <1>2, <1>3 DEF ListHead
<1>4. CASE ~big
  <2>1. PICK low : low = Low(n, 3)
    OBVIOUS
  <2>2. IsLow(low, n, 3)
    BY <2>1, LowBytes, 3 \in {2, 3, 4}
  <2>3. PICK head : head = ListHead(sw, big)
    OBVIOUS
  <2>4. head = low \o <<0>>
    <3>1. HostBytes(n, 3, FALSE) = low
      BY <2>1, WritersAgree, 3 \in {2, 3, 4}, FALSE \in BOOLEAN
    <3> QED
      BY <1>1, <1>4, <2>3, <3>1 DEF ListHead
  <2>5. head \in Seq(Byte) /\ Joins(head, low, <<0>>)
    BY <1>2, <2>2, <2>4, Appended DEF IsLow
  <2>6. head[1] = Digit(n, 1) /\ Len(head) = 4
    <3>1. 1 \in 1..3
      BY SMT
    <3> QED
      BY <1>2, <2>2, <2>5, <3>1 DEF IsLow, Joins
  <2>7. n = 0 => Digit(n, 1) = 0
    BY Digits, SMT
  <2>8. sw.deps = << >> => n = 0
    BY <1>1
  <2>9. head # << >>
    BY <2>6
  <2> QED
    BY <1>4, <2>3, <2>5, <2>6, <2>7, <2>8, <2>9
<1> QED
  BY <1>3, <1>4

-----------------------------------------------------------------------------
(* The bytes of a string, and of a record of which all strings fit.        *)
Code(c, big) == NumberBytes(Len(c), 4, big) \o c

(* A string in a file takes four bytes and its own.                        *)
LEMMA CodeType ==
    ASSUME NEW c \in Seq(Byte), NEW big \in BOOLEAN
    PROVE  /\ NumberBytes(Len(c), 4, big) \in Seq(Byte)
           /\ Len(NumberBytes(Len(c), 4, big)) = 4
           /\ Code(c, big) \in Seq(Byte) /\ Len(Code(c, big)) = 4 + Len(c)
<1>1. PICK low : low = Low(Len(c), 4)
  OBVIOUS
<1>2. low \in Seq(Byte) /\ Len(low) = 4
  BY <1>1, LowBytes, 4 \in {2, 3, 4}, Len(c) \in Nat DEF IsLow
<1>3. PICK m : m = NumberBytes(Len(c), 4, big)
  OBVIOUS
<1>4. m = Reverse(low)
  BY <1>1, <1>3, WritersAgree, 4 \in {2, 3, 4}, Len(c) \in Nat
<1>5. m \in Seq(Byte) /\ Len(m) = 4
  BY <1>2, <1>4, ReverseTwice
<1>6. m \o c \in Seq(Byte) /\ Len(m \o c) = 4 + Len(c)
  <2>1. PICK u : u = m \o c
    OBVIOUS
  <2>2. u \in Seq(Byte) /\ Joins(u, m, c)
    BY <1>5, <2>1, Appended
  <2> QED
    BY <1>5, <2>1, <2>2 DEF Joins
<1> QED
  BY <1>3, <1>5, <1>6 DEF Code

(* What the writer makes of a string.                                      *)
LEMMA StringIsCode ==
    ASSUME NEW m \in Seq(Byte), NEW big \in BOOLEAN
    PROVE  StringBytes(m, big) = Code(Chars(m), big) /\ StringBytes(m, big) \in Seq(Byte)
<1>1. Chars(m) \in Seq(Byte)
  BY CharsText DEF IsText
<1> QED
  BY <1>1, CodeType DEF StringBytes, Code

(* The number of dependencies takes two bytes.                             *)
LEMMA CountType ==
    ASSUME NEW n \in Nat, NEW big \in BOOLEAN
    PROVE  NumberBytes(n, 2, big) \in Seq(Byte) /\ Len(NumberBytes(n, 2, big)) = 2
<1>1. PICK low : low = Low(n, 2)
  OBVIOUS
<1>2. low \in Seq(Byte) /\ Len(low) = 2
  BY <1>1, LowBytes, 2 \in {2, 3, 4} DEF IsLow
<1>3. NumberBytes(n, 2, big) = Reverse(low)
  BY <1>1, WritersAgree, 2 \in {2, 3, 4}
<1> QED
  BY <1>2, <1>3, ReverseTwice

-----------------------------------------------------------------------------
(* The reader.                                                             *)
IsStream(s) == s.ok \in BOOLEAN /\ s.eof \in BOOLEAN /\ s.pos \in 0..Len(bytes)

Results(V) == [ok : BOOLEAN, eof : BOOLEAN, pos : 0..Len(bytes), val : V]

(* The smaller of two numbers.                                             *)
LEMMA MinOfTwo ==
    ASSUME NEW i \in Nat, NEW j \in Nat
    PROVE  /\ Min({i, j}) = IF i <= j THEN i ELSE j
           /\ Min({i, j}) \in Nat /\ Min({i, j}) <= i /\ Min({i, j}) <= j
<1>1. PICK k \in {i, j} : k <= i /\ k <= j
  OBVIOUS
<1>2. \A x \in {i, j} : (\A y \in {i, j} : x =< y) => x = k
  BY <1>1
<1>3. Min({i, j}) = k
  BY <1>1, <1>2 DEF Min
<1> QED
  BY <1>1, <1>3

(* A read returns no more bytes than were asked for, goes forwards and     *)
(* does nothing on a stream that has failed or ended.                      *)
LEMMA ReadType ==
    ASSUME bytes \in Seq(Byte), NEW s, IsStream(s), NEW n \in Nat
    PROVE  /\ Read(s, n) \in Results(Seq(Byte))
           /\ ~s.ok \/ s.eof => Read(s, n) = Broken
           /\ s.ok /\ ~s.eof => /\ Read(s, n).ok
                                /\ s.pos <= Read(s, n).pos
                                /\ Len(Read(s, n).val) <= n
<1>1. Broken \in Results(Seq(Byte))
  BY DEF Broken, Results
<1>2. CASE s.ok /\ ~s.eof
  <2>1. PICK len \in Nat : len = Len(bytes)
    OBVIOUS
  <2>2. PICK p \in 0..len : p = s.pos
    BY <2>1 DEF IsStream
  <2>3. PICK end : end = Min({p + n, len})
    OBVIOUS
  <2>4. end \in Nat /\ end <= p + n /\ end <= len /\ p <= end
    BY <2>1, <2>3, MinOfTwo
  <2>5. PICK v : v = SubSeq(bytes, p + 1, end)
    OBVIOUS
  <2>6. v \in Seq(Byte) /\ Len(v) = end - p
    BY <2>1, <2>4, <2>5
  <2>7. Read(s, n) = [ok |-> TRUE, eof |-> p + n > len, pos |-> end, val |-> v]
    BY <1>2, <2>1, <2>2, <2>3, <2>5 DEF Read
  <2> QED
    BY <1>2, <2>1, <2>2, <2>4, <2>6, <2>7 DEF Results
<1>3. CASE ~s.ok \/ s.eof
  BY <1>1, <1>3 DEF Read
<1> QED
  BY <1>2, <1>3 DEF IsStream

(* So does the read of a number.                                           *)
LEMMA ReadNumberType ==
    ASSUME bytes \in Seq(Byte), NEW s, IsStream(s), NEW w \in {2, 4},
           NEW big \in BOOLEAN, NEW g \in Nat
    PROVE  /\ ReadNumber(s, w, big, g) \in Results(Nat)
           /\ ReadNumber(s, w, big, g).ok = Read(s, w).ok
           /\ ReadNumber(s, w, big, g).eof = Read(s, w).eof
           /\ ReadNumber(s, w, big, g).pos = Read(s, w).pos
           /\ ReadNumber(s, w, big, g).val
                = IF Len(Read(s, w).val) < w THEN g
                  ELSE HostNumber(Swapped(Read(s, w).val, big), big)
<1>1. PICK r : r = Read(s, w)
  OBVIOUS
<1>2. (r \in Results(Seq(Byte)) /\ Len(r.val) <= w) \/ r = Broken
  BY <1>1, ReadType, w \in Nat DEF IsStream
<1>3. r \in Results(Seq(Byte)) /\ Len(r.val) <= w
  <2>1. Broken \in Results(Seq(Byte)) /\ Len(Broken.val) <= w
    BY DEF Broken, Results
  <2> QED
    BY <1>2, <2>1
<1>4. PICK v : v = IF Len(r.val) < w THEN g ELSE HostNumber(Swapped(r.val, big), big)
  OBVIOUS
<1>5. v \in Nat
  <2>1. r.val \in Seq(Byte)
    BY <1>3 DEF Results
  <2>2. CASE Len(r.val) < w
    BY <1>4, <2>2
  <2>3. CASE ~(Len(r.val) < w)
    <3>1. Len(r.val) \in {2, 4}
      <4>1. \A l \in Nat : l <= w /\ ~(l < w) => l = w
        OBVIOUS
      <4>2. Len(r.val) \in Nat
        BY <2>1
      <4>3. Len(r.val) = w
        BY <1>3, <2>3, <4>1, <4>2, Zenon
      <4> QED
        BY <4>3
    <3>2. Value(r.val) \in Nat
      BY <2>1, <3>1, ValueType
    <3> QED
      BY <1>4, <2>1, <2>3, <3>2, ReadersAgree
  <2> QED
    BY <2>2, <2>3
<1>6. ReadNumber(s, w, big, g) = [r EXCEPT !.val = v]
  BY <1>1, <1>4, Zenon DEF ReadNumber
<1>7. [r EXCEPT !.val = v] = [ok |-> r.ok, eof |-> r.eof, pos |-> r.pos, val |-> v]
  BY <1>3 DEF Results
<1> QED
  BY <1>1, <1>3, <1>4, <1>5, <1>6, <1>7 DEF Results

(* And that of a string.                                                   *)
LEMMA ReadStringType ==
    ASSUME bytes \in Seq(Byte), NEW s, IsStream(s), NEW n \in Nat, NEW big \in BOOLEAN
    PROVE  /\ ReadString(s, n, big) \in Results(Seq(Byte))
           /\ IsStream(ReadString(s, n, big))
           /\ Len(ReadString(s, n, big).val) <= n
           /\ ~s.ok \/ s.eof => ~ReadString(s, n, big).ok
<1>1. PICK len : len = ReadNumber(s, 4, big, 0)
  OBVIOUS
<1>2. len \in Results(Nat) /\ len.ok = Read(s, 4).ok
  BY <1>1, ReadNumberType, 4 \in {2, 4}, 0 \in Nat
<1>3. IsStream(len) /\ len.val \in Nat
  BY <1>2 DEF Results, IsStream
<1>4. PICK k \in Nat : k = Min({len.val, n}) /\ k <= n
  BY <1>3, MinOfTwo
<1>5. ReadString(s, n, big) = Read(len, k)
  BY <1>1, <1>4 DEF ReadString
<1>6. Read(len, k) \in Results(Seq(Byte)) /\ (~len.ok => Read(len, k) = Broken)
  BY <1>3, ReadType
<1>7. ~s.ok \/ s.eof => ~len.ok
  BY <1>2, ReadType, 4 \in Nat DEF Broken
<1>8. ~Broken.ok /\ Len(Broken.val) = 0
  BY DEF Broken
<1>9. Len(Read(len, k).val) <= n
  <2>1. Len(Read(len, k).val) <= k
    <3>1. CASE len.ok /\ ~len.eof
      BY <1>3, <3>1, ReadType
    <3>2. CASE ~(len.ok /\ ~len.eof)
      <4>1. Read(len, k) = Broken
        BY <1>3, <3>2, ReadType
      <4> QED
        BY <1>8, <4>1
    <3> QED
      BY <3>1, <3>2
  <2>2. Len(Read(len, k).val) \in Nat
    BY <1>6 DEF Results
  <2> QED
    BY <1>4, <2>1, <2>2
<1> QED
  BY <1>5, <1>6, <1>7, <1>8, <1>9 DEF IsStream, Results

-----------------------------------------------------------------------------
(* The loop over the dependencies, as a function of the number of turns.   *)
DepTurns(h, s, big, N) ==
    /\ DOMAIN h = N
    /\ h[0] = [s |-> s, deps |-> << >>]
    /\ \A i \in N \ {0} : h[i] = ReadDep(h[i - 1], big)

(* Any number of turns can be made.                                        *)
LEMMA SomeTurns ==
    ASSUME NEW s, NEW big, NEW n \in Nat
    PROVE  \E h : DepTurns(h, s, big, 0..n)
<1> DEFINE T == {k \in Nat : ~\E h : DepTurns(h, s, big, 0..k)}
<1>1. T = {}
  <2> SUFFICES ASSUME T # {} PROVE FALSE
    OBVIOUS
  <2>1. PICK k \in T : \A j \in T : k <= j
    <3>1. T \in SUBSET Nat
      OBVIOUS
    <3> HIDE DEF T
    <3> QED
      BY <3>1, LeastNatural
  <2>2. k # 0
    <3>1. DepTurns([i \in 0..0 |-> [s |-> s, deps |-> << >>]], s, big, 0..0)
      BY DEF DepTurns
    <3> QED
      BY <2>1, <3>1
  <2>3. k - 1 \in Nat /\ k - 1 \notin T
    BY <2>1, <2>2
  <2>4. PICK h : DepTurns(h, s, big, 0..(k - 1))
    BY <2>3
  <2> DEFINE e == [i \in 0..k |-> IF i = k THEN ReadDep(h[k - 1], big) ELSE h[i]]
  <2>5. e[0] = [s |-> s, deps |-> << >>]
    BY <2>1, <2>2, <2>4 DEF DepTurns
  <2>6. ASSUME NEW i \in (0..k) \ {0} PROVE e[i] = ReadDep(e[i - 1], big)
    <3>1. i - 1 \in 0..k /\ i - 1 # k /\ e[i - 1] = h[i - 1]
      BY <2>1
    <3>2. CASE i = k
      BY <3>1, <3>2
    <3>3. CASE i # k
      <4>1. i \in (0..(k - 1)) \ {0} /\ e[i] = h[i]
        BY <2>1, <3>3
      <4> QED
        BY <2>4, <3>1, <4>1 DEF DepTurns
    <3> QED
      BY <3>2, <3>3
  <2>7. DepTurns(e, s, big, 0..k)
    BY <2>5, <2>6 DEF DepTurns
  <2> QED
    BY <2>1, <2>7
<1> QED
  BY <1>1

(* The state after some turns does not depend on how many follow.          *)
LEMMA TurnsAgree ==
    ASSUME NEW s, NEW big, NEW m \in Nat, NEW n \in Nat, m <= n,
           NEW h, DepTurns(h, s, big, 0..m), NEW e, DepTurns(e, s, big, 0..n)
    PROVE  h[m] = e[m]
<1> DEFINE T == {i \in 0..m : h[i] # e[i]}
<1>1. T = {}
  <2> SUFFICES ASSUME T # {} PROVE FALSE
    OBVIOUS
  <2>1. PICK i \in T : \A j \in T : i <= j
    <3>1. T \in SUBSET Nat
      OBVIOUS
    <3> HIDE DEF T
    <3> QED
      BY <3>1, LeastNatural
  <2>2. i # 0
    BY <2>1 DEF DepTurns
  <2>3. i - 1 \in 0..m /\ ~(i <= i - 1) /\ i \in (0..m) \ {0} /\ i \in (0..n) \ {0}
    BY <2>1, <2>2
  <2>4. h[i - 1] = e[i - 1]
    BY <2>1, <2>3
  <2>5. h[i] = e[i]
    BY <2>3, <2>4 DEF DepTurns
  <2> QED
    BY <2>1, <2>5
<1>2. m \in 0..m
  OBVIOUS
<1> QED
  BY <1>1, <1>2

(* ReadDeps is the state after as many turns as there are dependencies,    *)
(* and no more than there are bytes.                                       *)
LEMMA DepsAreTurns ==
    ASSUME NEW s, NEW n, NEW big
    PROVE  \E h : /\ DepTurns(h, s, big, Nat)
                  /\ ReadDeps(s, n, big) = h[Min({n, Len(bytes) + 1})]
<1> DEFINE start == [s |-> s, deps |-> << >>]
           some(k) == CHOOSE h : DepTurns(h, s, big, 0..k)
           all == [k \in Nat |-> some(k)[k]]
           deps == CHOOSE deps : deps = [i \in Nat |-> IF i = 0 THEN start
                                             ELSE ReadDep(deps[i - 1], big)]
<1>1. \A k \in Nat : DepTurns(some(k), s, big, 0..k)
  BY SomeTurns
<1>2. ASSUME NEW k \in Nat
      PROVE  all[k] = IF k = 0 THEN start ELSE ReadDep(all[k - 1], big)
  <2>1. all[k] = some(k)[k]
    OBVIOUS
  <2>2. CASE k = 0
    BY <1>1, <2>1, <2>2 DEF DepTurns
  <2>3. CASE k # 0
    <3>1. PICK m : m = k - 1
      OBVIOUS
    <3>2. m \in Nat /\ m <= k /\ k \in (0..k) \ {0}
      BY <2>3, <3>1
    <3>3. all[m] = some(m)[m]
      BY <3>2
    <3> HIDE DEF some, all
    <3>4. some(k)[k] = ReadDep(some(k)[k - 1], big)
      BY <1>1, <3>2 DEF DepTurns
    <3> DEFINE h == some(m)
               e == some(k)
    <3>5. DepTurns(h, s, big, 0..m) /\ DepTurns(e, s, big, 0..k)
      BY <1>1, <3>2
    <3> HIDE DEF h, e
    <3>6. h[m] = e[m]
      BY <3>2, <3>5, TurnsAgree
    <3>7. some(m)[m] = some(k)[m]
      BY <3>6 DEF h, e
    <3> QED
      BY <2>1, <2>3, <3>1, <3>3, <3>4, <3>7
  <2> QED
    BY <2>2, <2>3
<1> HIDE DEF some
<1>3. all = [i \in Nat |-> IF i = 0 THEN start ELSE ReadDep(all[i - 1], big)]
  <2>1. all = [i \in Nat |-> all[i]]
    OBVIOUS
  <2> HIDE DEF all
  <2> QED
    BY <1>2, <2>1
<1> HIDE DEF all
<1>4. deps = [i \in Nat |-> IF i = 0 THEN start ELSE ReadDep(deps[i - 1], big)]
  <2> HIDE DEF deps
  <2> QED
    BY <1>3 DEF deps
<1>5. ReadDeps(s, n, big) = deps[Min({n, Len(bytes) + 1})]
  BY DEF ReadDeps
<1> HIDE DEF deps
<1>6. DepTurns(deps, s, big, Nat)
  <2>1. DOMAIN deps = Nat
    BY <1>4, Zenon
  <2>2. \A i \in Nat : deps[i] = IF i = 0 THEN start ELSE ReadDep(deps[i - 1], big)
    BY <1>4, Zenon
  <2> QED
    BY <2>1, <2>2 DEF DepTurns
<1> QED
  BY <1>5, <1>6

(* Types of what the loop has.                                             *)
DepsType(d) ==
    IsStream(d.s) /\ d.deps \in Seq([1..NameLen -> Byte])

(* A turn of the loop over dependencies keeps the types.                   *)
LEMMA TurnType ==
    ASSUME bytes \in Seq(Byte), NEW d, DepsType(d), NEW big \in BOOLEAN
    PROVE  DepsType(ReadDep(d, big))
<1>1. PICK r : r = ReadString(d.s, NameLen, big)
  OBVIOUS
<1>2. r \in Results(Seq(Byte)) /\ IsStream(r)
  BY <1>1, ReadStringType, Lengths DEF DepsType
<1>3. PICK f : f = Copy(r.val, NameLen)
  OBVIOUS
<1>4. f \in [1..NameLen -> Byte]
  BY <1>2, <1>3, CopyType, Lengths DEF Results
<1>5. ReadDep(d, big) = IF ~d.s.ok THEN d ELSE [s |-> r, deps |-> <<f>> \o d.deps]
  BY <1>1, <1>3 DEF ReadDep
<1>6. d.deps \in Seq([1..NameLen -> Byte]) /\ <<f>> \in Seq([1..NameLen -> Byte])
  BY <1>4 DEF DepsType
<1>7. <<f>> \o d.deps \in Seq([1..NameLen -> Byte])
  BY <1>6, ConcatProperties
<1>8. CASE ~d.s.ok
  BY <1>5, <1>8
<1>9. CASE d.s.ok
  <2>1. ReadDep(d, big) = [s |-> r, deps |-> <<f>> \o d.deps]
    BY <1>5, <1>9
  <2>2. ReadDep(d, big).s = r /\ ReadDep(d, big).deps = <<f>> \o d.deps
    BY <2>1
  <2> QED
    BY <1>2, <1>7, <2>2 DEF DepsType
<1> QED
  BY <1>8, <1>9

(* Any number of turns does.                                               *)
LEMMA TurnsType ==
    ASSUME bytes \in Seq(Byte), NEW s, IsStream(s), NEW big \in BOOLEAN,
           NEW h, DepTurns(h, s, big, Nat), NEW n \in Nat
    PROVE  DepsType(h[n])
<1> DEFINE T == {i \in Nat : ~DepsType(h[i])}
<1>1. T = {}
  <2> SUFFICES ASSUME T # {} PROVE FALSE
    OBVIOUS
  <2>1. PICK i \in T : \A j \in T : i <= j
    <3>1. T \in SUBSET Nat
      OBVIOUS
    <3> HIDE DEF T
    <3> QED
      BY <3>1, LeastNatural
  <2>2. i # 0
    <3>1. DepsType([s |-> s, deps |-> << >>])
      BY DEF DepsType
    <3> QED
      BY <2>1, <3>1 DEF DepTurns
  <2>3. i - 1 \in Nat /\ ~(i <= i - 1) /\ i \in Nat \ {0}
    BY <2>1, <2>2
  <2>4. DepsType(h[i - 1])
    BY <2>1, <2>3
  <2>5. h[i] = ReadDep(h[i - 1], big)
    BY <2>3 DEF DepTurns
  <2> QED
    BY <2>1, <2>4, <2>5, TurnType
<1> QED
  BY <1>1

-----------------------------------------------------------------------------
(* The struct that a reader fills, whose fields lie behind each other.     *)
Size == NameLen + DescLen + UrlLen + 1

Memory(a, b, c) ==
    Store(Store(Store(Copy(<< >>, Size), 0, a), NameLen, b), NameLen + DescLen, c)

(* A zero that is written behind a field is overwritten by the next one:   *)
(* each field is as if the string had been copied into it.                 *)
LEMMA MemoryFields ==
    ASSUME NEW a \in Seq(Byte), Len(a) <= NameLen,
           NEW b \in Seq(Byte), Len(b) <= DescLen,
           NEW c \in Seq(Byte), Len(c) <= UrlLen,
           NEW m, m = Memory(a, b, c)
    PROVE  /\ SubSeq(m, 1, NameLen) = Copy(a, NameLen)
           /\ SubSeq(m, NameLen + 1, NameLen + DescLen) = Copy(b, DescLen)
           /\ SubSeq(m, NameLen + DescLen + 1, NameLen + DescLen + UrlLen)
                = Copy(c, UrlLen)
<1>1. PICK n \in Nat, d \in Nat, u \in Nat :
        n = NameLen /\ d = DescLen /\ u = UrlLen
  BY Lengths
<1>2. PICK la \in Nat, lb \in Nat, lc \in Nat :
        la = Len(a) /\ lb = Len(b) /\ lc = Len(c)
  OBVIOUS
<1>3. la <= n /\ lb <= d /\ lc <= u
  BY <1>1, <1>2
<1> DEFINE Z == 1..(n + d + u + 1)
<1>4. PICK m0 : m0 = Copy(<< >>, Size)
  OBVIOUS
<1>5. m0 = [i \in Z |-> 0]
  BY <1>1, <1>4, Len(<< >>) = 0 DEF Copy, Size
<1>6. PICK m1 : m1 = Store(m0, 0, a)
  OBVIOUS
<1>7. m1 = [i \in Z |-> IF i <= la THEN a[i] ELSE 0]
  <2>1. m1 = [i \in Z |-> IF i \in (0 + 1)..(0 + la) THEN a[i - 0]
                          ELSE IF i = 0 + la + 1 THEN 0 ELSE m0[i]]
    BY <1>2, <1>5, <1>6 DEF Store
  <2>2. \A i \in Z : m1[i] = IF i <= la THEN a[i] ELSE 0
    BY <1>5, <2>1
  <2> QED
    BY <2>1, <2>2
<1>8. PICK m2 : m2 = Store(m1, n, b)
  OBVIOUS
<1>9. m2 = [i \in Z |-> IF i <= n THEN (IF i <= la THEN a[i] ELSE 0)
                        ELSE IF i <= n + lb THEN b[i - n] ELSE 0]
  <2>1. m2 = [i \in Z |-> IF i \in (n + 1)..(n + lb) THEN b[i - n]
                          ELSE IF i = n + lb + 1 THEN 0 ELSE m1[i]]
    BY <1>2, <1>7, <1>8 DEF Store
  <2>2. \A i \in Z : m2[i] = IF i <= n THEN (IF i <= la THEN a[i] ELSE 0)
                             ELSE IF i <= n + lb THEN b[i - n] ELSE 0
    BY <1>3, <1>7, <2>1
  <2> QED
    BY <2>1, <2>2
<1>10. m = Store(m2, n + d, c)
  BY <1>1, <1>4, <1>6, <1>8 DEF Memory
<1>11. m = [i \in Z |-> IF i <= n THEN (IF i <= la THEN a[i] ELSE 0)
                        ELSE IF i <= n + d THEN (IF i <= n + lb THEN b[i - n] ELSE 0)
                        ELSE IF i <= n + d + lc THEN c[i - (n + d)] ELSE 0]
  <2>1. m = [i \in Z |-> IF i \in (n + d + 1)..(n + d + lc) THEN c[i - (n + d)]
                         ELSE IF i = n + d + lc + 1 THEN 0 ELSE m2[i]]
    BY <1>2, <1>9, <1>10 DEF Store
  <2>2. \A i \in Z :
           m[i] = IF i <= n THEN (IF i <= la THEN a[i] ELSE 0)
                  ELSE IF i <= n + d THEN (IF i <= n + lb THEN b[i - n] ELSE 0)
                  ELSE IF i <= n + d + lc THEN c[i - (n + d)] ELSE 0
    BY <1>3, <1>9, <2>1
  <2> QED
    BY <2>1, <2>2
<1>12. SubSeq(m, 1, n) = Copy(a, n)
  <2>1. SubSeq(m, 1, n) = [i \in 1..n |-> m[i]]
    OBVIOUS
  <2>2. \A i \in 1..n : m[i] = IF i <= la THEN a[i] ELSE 0
    BY <1>11
  <2> QED
    BY <1>2, <2>1, <2>2 DEF Copy
<1>13. SubSeq(m, n + 1, n + d) = Copy(b, d)
  <2>1. SubSeq(m, n + 1, n + d) = [i \in 1..d |-> m[i + n]]
    OBVIOUS
  <2>2. \A i \in 1..d : m[i + n] = IF i <= lb THEN b[i] ELSE 0
    BY <1>3, <1>11
  <2> QED
    BY <1>2, <2>1, <2>2 DEF Copy
<1>14. SubSeq(m, n + d + 1, n + d + u) = Copy(c, u)
  <2>1. SubSeq(m, n + d + 1, n + d + u) = [i \in 1..u |-> m[i + (n + d)]]
    OBVIOUS
  <2>2. \A i \in 1..u : m[i + (n + d)] = IF i <= lc THEN c[i] ELSE 0
    BY <1>3, <1>11
  <2> QED
    BY <1>2, <2>1, <2>2 DEF Copy
<1> QED
  BY <1>1, <1>12, <1>13, <1>14

(* What a record is made of when it is read.                               *)
IsParse(s, big, g, name, desc, url, num, deps) ==
    /\ name = ReadString(s, NameLen, big)
    /\ desc = ReadString(name, DescLen, big)
    /\ url = ReadString(desc, UrlLen, big)
    /\ num = ReadNumber(url, 2, big, g)
    /\ deps = ReadDeps(num, num.val, big)

ParseTypes(name, desc, url, num, deps) ==
    /\ name \in Results(Seq(Byte)) /\ Len(name.val) <= NameLen
    /\ desc \in Results(Seq(Byte)) /\ Len(desc.val) <= DescLen
    /\ url \in Results(Seq(Byte)) /\ Len(url.val) <= UrlLen
    /\ num \in Results(Nat) /\ DepsType(deps)

Parsed(name, desc, url, num, deps) ==
    IF ~num.ok \/ ~deps.s.ok THEN [ok |-> FALSE]
    ELSE [ok |-> TRUE,
          stream |-> [ok |-> TRUE, eof |-> deps.s.eof, pos |-> deps.s.pos, val |-> << >>],
          sw |-> [name |-> Copy(name.val, NameLen), desc |-> Copy(desc.val, DescLen),
                  url |-> Copy(url.val, UrlLen), deps |-> deps.deps]]

(* The five reads of ezi_software_read(), named.                           *)
LEMMA RecordIsParsed ==
    ASSUME bytes \in Seq(Byte), NEW s, IsStream(s), NEW big \in BOOLEAN, NEW g \in Nat
    PROVE  \E name, desc, url, num, deps :
              /\ IsParse(s, big, g, name, desc, url, num, deps)
              /\ ParseTypes(name, desc, url, num, deps)
              /\ ReadRecord(s, big, g) = Parsed(name, desc, url, num, deps)
<1>1. PICK name : name = ReadString(s, NameLen, big)
  OBVIOUS
<1>2. /\ name \in Results(Seq(Byte)) /\ IsStream(name) /\ Len(name.val) <= NameLen
  BY <1>1, ReadStringType, Lengths
<1>3. PICK desc : desc = ReadString(name, DescLen, big)
  OBVIOUS
<1>4. /\ desc \in Results(Seq(Byte)) /\ IsStream(desc) /\ Len(desc.val) <= DescLen
  BY <1>2, <1>3, ReadStringType, Lengths
<1>5. PICK url : url = ReadString(desc, UrlLen, big)
  OBVIOUS
<1>6. /\ url \in Results(Seq(Byte)) /\ IsStream(url) /\ Len(url.val) <= UrlLen
  BY <1>4, <1>5, ReadStringType, Lengths
<1>7. PICK num : num = ReadNumber(url, 2, big, g)
  OBVIOUS
<1>8. num \in Results(Nat) /\ IsStream(num)
  <2>1. num \in Results(Nat)
    BY <1>6, <1>7, ReadNumberType, 2 \in {2, 4}
  <2> QED
    BY <2>1 DEF Results, IsStream
<1>9. PICK deps : deps = ReadDeps(num, num.val, big)
  OBVIOUS
<1>10. DepsType(deps)
  <2>1. PICK h : DepTurns(h, num, big, Nat) /\ deps = h[Min({num.val, Len(bytes) + 1})]
    BY <1>9, DepsAreTurns
  <2>2. Min({num.val, Len(bytes) + 1}) \in Nat
    <3>1. num.val \in Nat /\ Len(bytes) + 1 \in Nat
      BY <1>8 DEF Results
    <3> QED
      BY <3>1, MinOfTwo
  <2> QED
    BY <1>8, <2>1, <2>2, TurnsType
<1>11. ReadRecord(s, big, g) = Parsed(name, desc, url, num, deps)
  <2>1. PICK m : m = Memory(name.val, desc.val, url.val)
    OBVIOUS
  <2>2. /\ name.val \in Seq(Byte) /\ desc.val \in Seq(Byte) /\ url.val \in Seq(Byte)
    BY <1>2, <1>4, <1>6 DEF Results
  <2>3. /\ SubSeq(m, 1, NameLen) = Copy(name.val, NameLen)
        /\ SubSeq(m, NameLen + 1, NameLen + DescLen) = Copy(desc.val, DescLen)
        /\ SubSeq(m, NameLen + DescLen + 1, NameLen + DescLen + UrlLen)
             = Copy(url.val, UrlLen)
    BY <1>2, <1>4, <1>6, <2>1, <2>2, MemoryFields
  <2>4. ReadRecord(s, big, g) =
          IF ~num.ok \/ ~deps.s.ok THEN [ok |-> FALSE]
          ELSE [ok |-> TRUE,
                stream |-> [ok |-> TRUE, eof |-> deps.s.eof, pos |-> deps.s.pos, val |-> << >>],
                sw |-> [name |-> SubSeq(m, 1, NameLen),
                        desc |-> SubSeq(m, NameLen + 1, NameLen + DescLen),
                        url |-> SubSeq(m, NameLen + DescLen + 1,
                                       NameLen + DescLen + UrlLen),
                        deps |-> deps.deps]]
    BY <1>1, <1>3, <1>5, <1>7, <1>9, <2>1, Zenon DEF ReadRecord, Memory, Size
  <2> QED
    BY <2>3, <2>4, Zenon DEF Parsed
<1>12. IsParse(s, big, g, name, desc, url, num, deps)
  BY <1>1, <1>3, <1>5, <1>7, <1>9 DEF IsParse
<1>13. ParseTypes(name, desc, url, num, deps)
  BY <1>2, <1>4, <1>6, <1>8, <1>10 DEF ParseTypes
<1> QED
  BY <1>11, <1>12, <1>13

-----------------------------------------------------------------------------
(* From position q on, the file holds t, as far as it goes.                *)
Holds(q, t) == \A i \in 1..Len(t) : q + i <= Len(bytes) => bytes[q + i] = t[i]

(* A file that holds a concatenation holds both parts.                     *)
LEMMA HoldsJoin ==
    ASSUME NEW q \in Nat, NEW s \in Seq(Byte), NEW t \in Seq(Byte), Holds(q, s \o t)
    PROVE  Holds(q, s) /\ Holds(q + Len(s), t)
<1>1. PICK u : u = s \o t
  OBVIOUS
<1>2. u \in Seq(Byte) /\ Joins(u, s, t) /\ Holds(q, u)
  BY <1>1, Appended
<1>3. PICK m \in Nat, n \in Nat : m = Len(s) /\ n = Len(t)
  OBVIOUS
<1>4. Len(u) = m + n
  BY <1>2, <1>3 DEF Joins
<1>5. Holds(q, s)
  <2>1. \A i \in 1..m : i \in 1..Len(u) /\ u[i] = s[i]
    BY <1>2, <1>3, <1>4 DEF Joins
  <2> QED
    BY <1>2, <1>3, <2>1 DEF Holds
<1>6. Holds(q + m, t)
  <2>1. \A i \in 1..n : m + i \in 1..Len(u) /\ u[m + i] = t[i] /\ q + (m + i) = q + m + i
    BY <1>2, <1>3, <1>4 DEF Joins
  <2> QED
    BY <1>2, <1>3, <2>1 DEF Holds
<1> QED
  BY <1>3, <1>5, <1>6

(* The stream is good, and at position q.                                  *)
At(s, q) == s.ok = TRUE /\ s.eof = FALSE /\ s.pos = q

(* A stream at a position in the file is a stream.                         *)
LEMMA AtIsStream ==
    ASSUME NEW q \in 0..Len(bytes), NEW s, At(s, q)
    PROVE  IsStream(s)
  BY DEF IsStream, At

(* What reading t from q on gives: t, or what is left of it.               *)
ReadsAs(r, q, t) ==
    IF q + Len(t) <= Len(bytes)
    THEN At(r, q + Len(t)) /\ r.val = t
    ELSE r.ok = TRUE /\ r.eof = TRUE /\ r.val = SubSeq(t, 1, Len(bytes) - q)

(* A read where the file holds t returns t, or what there is of it.        *)
LEMMA ReadHolds ==
    ASSUME bytes \in Seq(Byte), NEW t \in Seq(Byte), NEW q \in 0..Len(bytes),
           Holds(q, t), NEW s, At(s, q), NEW n \in Nat, n = Len(t)
    PROVE  ReadsAs(Read(s, n), q, t)
<1>1. PICK len \in Nat : len = Len(bytes)
  OBVIOUS
<1>2. PICK end : end = Min({q + n, len})
  OBVIOUS
<1>3. q \in Nat /\ q <= len /\ q + n \in Nat
  BY <1>1
<1>4. end = IF q + n <= len THEN q + n ELSE len
  BY <1>1, <1>2, <1>3, MinOfTwo
<1>5. PICK v : v = SubSeq(bytes, q + 1, end)
  OBVIOUS
<1>6. PICK r : r = Read(s, n)
  OBVIOUS
<1>10. r = [ok |-> TRUE, eof |-> q + n > len, pos |-> end, val |-> v]
  BY <1>1, <1>2, <1>5, <1>6 DEF Read, At
<1>11. r.ok = TRUE /\ r.eof = (q + n > len) /\ r.pos = end /\ r.val = v
  BY <1>10
<1>7. v = [i \in 1..(end - q) |-> bytes[q + i]]
  BY <1>1, <1>3, <1>4, <1>5
<1>8. CASE q + n <= len
  <2>1. v = [i \in 1..n |-> t[i]]
    BY <1>1, <1>3, <1>4, <1>7, <1>8 DEF Holds
  <2>2. v = t
    BY <2>1
  <2>3. (q + n > len) = FALSE /\ end = q + n
    BY <1>3, <1>4, <1>8
  <2>4. r.eof = FALSE /\ r.pos = q + n
    BY <1>11, <2>3, Zenon
  <2> QED
    BY <1>1, <1>6, <1>8, <1>11, <2>2, <2>4 DEF ReadsAs, At
<1>9. CASE ~(q + n <= len)
  <2>1. SubSeq(t, 1, len - q) = [i \in 1..(len - q) |-> t[i]]
    BY <1>1, <1>3, <1>9
  <2>2. \A i \in 1..(len - q) : q + i <= len /\ i \in 1..Len(t)
    BY <1>1, <1>3, <1>9
  <2>3. v = SubSeq(t, 1, len - q)
    BY <1>1, <1>3, <1>4, <1>7, <1>9, <2>1, <2>2 DEF Holds
  <2>4. (q + n > len) = TRUE
    BY <1>3, <1>9
  <2>5. r.eof = TRUE
    BY <1>11, <2>4, Zenon
  <2> QED
    BY <1>1, <1>6, <1>9, <1>11, <2>3, <2>5 DEF ReadsAs
<1> QED
  BY <1>8, <1>9

(* Reading a number that the file holds from q on.                         *)
NumberAs(r, q, w, n, g) ==
    IF q + w <= Len(bytes) THEN At(r, q + w) /\ r.val = n
    ELSE r.ok = TRUE /\ r.eof = TRUE /\ r.val = g

(* The read of a number that the file holds returns it, or at the end of   *)
(* the file what the variable held before.                                 *)
LEMMA ReadNumberHolds ==
    ASSUME bytes \in Seq(Byte), NEW n \in Nat, NEW w \in {2, 4}, InWidth(n, w),
           NEW wbig \in BOOLEAN, NEW rbig \in BOOLEAN, NEW g \in Nat,
           NEW q \in 0..Len(bytes), Holds(q, NumberBytes(n, w, wbig)),
           NEW s, At(s, q)
    PROVE  NumberAs(ReadNumber(s, w, rbig, g), q, w, n, g)
<1>1. PICK m : m = NumberBytes(n, w, wbig)
  OBVIOUS
<1>2. IsNumber(m, n, w)
  BY <1>1, NumberReturns
<1>3. m \in Seq(Byte) /\ Len(m) = w /\ w \in Nat
  BY <1>2 DEF IsNumber
<1>4. PICK r : r = Read(s, w)
  OBVIOUS
<1>5. ReadsAs(r, q, m)
  BY <1>1, <1>3, <1>4, ReadHolds
<1>6. IsStream(s)
  BY AtIsStream
<1>7. PICK u : u = ReadNumber(s, w, rbig, g)
  OBVIOUS
<1>8. /\ u.ok = r.ok /\ u.eof = r.eof /\ u.pos = r.pos
      /\ u.val = IF Len(r.val) < w THEN g ELSE HostNumber(Swapped(r.val, rbig), rbig)
  BY <1>4, <1>6, <1>7, ReadNumberType
<1>9. CASE q + w <= Len(bytes)
  <2>1. At(r, q + w) /\ r.val = m
    BY <1>3, <1>5, <1>9 DEF ReadsAs
  <2>2. u.val = n
    BY <1>2, <1>3, <1>8, <2>1 DEF IsNumber
  <2> QED
    BY <1>7, <1>8, <1>9, <2>1, <2>2 DEF NumberAs, At
<1>10. CASE ~(q + w <= Len(bytes))
  <2>1. r.ok = TRUE /\ r.eof = TRUE /\ r.val = SubSeq(m, 1, Len(bytes) - q)
    BY <1>3, <1>5, <1>10 DEF ReadsAs
  <2>2. Len(r.val) < w
    <3>1. Len(bytes) - q \in Nat /\ Len(bytes) - q < w
      BY <1>3, <1>10
    <3> QED
      BY <1>3, <2>1, <3>1
  <2> QED
    BY <1>7, <1>8, <1>10, <2>1, <2>2 DEF NumberAs
<1> QED
  BY <1>7, <1>9, <1>10

(* Reading a string that the file holds from q on, and that fits into the  *)
(* buffer.                                                                 *)
StringAs(r, q, c) ==
    IF q + 4 + Len(c) <= Len(bytes) THEN At(r, q + 4 + Len(c)) /\ r.val = c
    ELSE r.ok = TRUE => /\ r.eof = TRUE /\ q + 4 <= Len(bytes)
                        /\ \E k \in 0..Len(c) : r.val = SubSeq(c, 1, k)

(* The read of a string that the file holds returns it, or the part of it  *)
(* that the file has, with the end of the file noticed.                    *)
LEMMA ReadStringHolds ==
    ASSUME bytes \in Seq(Byte), NEW c \in Seq(Byte), NEW n \in Nat, Len(c) <= n,
           InWidth(Len(c), 4), NEW wbig \in BOOLEAN, NEW rbig \in BOOLEAN,
           NEW q \in 0..Len(bytes), Holds(q, Code(c, wbig)), NEW s, At(s, q)
    PROVE  StringAs(ReadString(s, n, rbig), q, c)
<1>1. PICK m \in Nat : m = Len(c)
  OBVIOUS
<1>2. PICK num : num = NumberBytes(m, 4, wbig)
  OBVIOUS
<1>3. num \in Seq(Byte) /\ Len(num) = 4
  <2>1. NumberBytes(Len(c), 4, wbig) \in Seq(Byte) /\ Len(NumberBytes(Len(c), 4, wbig)) = 4
    BY CodeType
  <2> QED
    BY <1>1, <1>2, <2>1
<1>4. Holds(q, num) /\ Holds(q + 4, c)
  <2>1. Holds(q, num \o c)
    BY <1>1, <1>2 DEF Code
  <2>2. Holds(q, num) /\ Holds(q + Len(num), c)
    <3>1. q \in Nat
      OBVIOUS
    <3> HIDE DEF Holds
    <3> QED
      BY <1>3, <2>1, <3>1, HoldsJoin, Zenon
  <2> QED
    BY <1>3, <2>2
<1>5. PICK len : len = ReadNumber(s, 4, rbig, 0)
  OBVIOUS
<1>6. NumberAs(len, q, 4, m, 0)
  <2>1. InWidth(m, 4)
    BY <1>1
  <2> QED
    BY <1>2, <1>4, <1>5, <2>1, ReadNumberHolds, 4 \in {2, 4}, 0 \in Nat
<1>7. len \in Results(Nat) /\ IsStream(len)
  <2>1. IsStream(s)
    BY AtIsStream
  <2>2. len \in Results(Nat)
    BY <1>5, <2>1, ReadNumberType, 4 \in {2, 4}, 0 \in Nat
  <2> QED
    BY <2>2 DEF Results, IsStream
<1>8. PICK r : r = ReadString(s, n, rbig)
  OBVIOUS
<1>9. r = Read(len, Min({len.val, n}))
  BY <1>5, <1>8 DEF ReadString
<1>10. CASE q + 4 <= Len(bytes)
  <2>1. At(len, q + 4) /\ len.val = m
    BY <1>6, <1>10 DEF NumberAs
  <2>2. Min({len.val, n}) = m
    BY <1>1, <2>1, MinOfTwo
  <2>3. q + 4 \in 0..Len(bytes)
    BY <1>10
  <2>4. ReadsAs(r, q + 4, c)
    BY <1>1, <1>4, <1>9, <2>1, <2>2, <2>3, ReadHolds
  <2>5. CASE q + 4 + m <= Len(bytes)
    BY <1>1, <1>8, <2>4, <2>5 DEF ReadsAs, StringAs
  <2>6. CASE ~(q + 4 + m <= Len(bytes))
    <3>1. Len(bytes) - (q + 4) \in 0..m
      BY <2>3, <2>6
    <3> QED
      BY <1>1, <1>8, <1>10, <2>4, <2>6, <3>1 DEF ReadsAs, StringAs
  <2> QED
    BY <2>5, <2>6
<1>11. CASE ~(q + 4 <= Len(bytes))
  <2>1. len.eof = TRUE
    BY <1>6, <1>11 DEF NumberAs
  <2>2. Min({len.val, n}) \in Nat
    BY <1>7, MinOfTwo DEF Results
  <2>3. r.ok = FALSE
    BY <1>7, <1>9, <2>1, <2>2, ReadType DEF Broken
  <2>4. ~(q + 4 + m <= Len(bytes))
    BY <1>11
  <2> QED
    BY <1>1, <1>8, <2>3, <2>4 DEF StringAs
<1> QED
  BY <1>10, <1>11

-----------------------------------------------------------------------------
(* The bytes of a record.  A concatenation begins with what its first part *)
(* begins with.                                                            *)
LEMMA FirstOfTwo ==
    ASSUME NEW s \in Seq(Byte), s # << >>, NEW t \in Seq(Byte)
    PROVE  s \o t \in Seq(Byte) /\ s \o t # << >> /\ (s \o t)[1] = s[1]
<1>1. PICK u : u = s \o t
  OBVIOUS
<1>2. u \in Seq(Byte) /\ Joins(u, s, t)
  BY <1>1, Appended
<1>3. 1 \in 1..Len(s) /\ Len(s) > 0 /\ Len(s) \in Nat /\ Len(t) \in Nat
  OBVIOUS
<1>4. Len(u) > 0 /\ u[1] = s[1]
  BY <1>2, <1>3 DEF Joins
<1>5. u # << >>
  BY <1>4
<1> QED
  BY <1>1, <1>2, <1>4, <1>5

(* The string in a field that is not full, or that a zero follows.         *)
LEMMA FieldChars ==
    ASSUME NEW n \in Nat \ {0}, NEW f, Filled(f, n), NEW rest \in Seq(Byte),
           f[Len(f)] # 0 => rest # << >> /\ rest[1] = 0
    PROVE  Chars(f \o rest) = Chars(f)
<1>1. f \in Seq(Byte) /\ Len(f) = n
  BY FilledText
<1>2. f # << >>
  BY <1>1
<1> QED
  BY <1>1, <1>2, CharsStop

(* The strings in the fields of a struct, which lie behind each other.     *)
FieldStops(f, rest) == f[Len(f)] # 0 => rest[1] = 0

(* The strings of three fields that follow each other, if each stops.      *)
LEMMA FieldsChars ==
    ASSUME NEW f \in Seq(Byte), Filled(f, NameLen), NEW d \in Seq(Byte), Filled(d, DescLen),
           NEW u \in Seq(Byte), Filled(u, UrlLen), NEW head \in Seq(Byte), head # << >>,
           d # << >>, u # << >>, FieldStops(f, d), FieldStops(d, u), FieldStops(u, head)
    PROVE  /\ Chars(f \o d \o u \o head) = Chars(f)
           /\ Chars(d \o u \o head) = Chars(d)
           /\ Chars(u \o head) = Chars(u)
<1>1. d \o u \o head = d \o (u \o head)
  BY ConcatAssociative
<1>2. PICK e \in Seq(Byte) : e = f \o d
  BY ConcatProperties
<1>3. e \o u \o head = e \o (u \o head)
  BY ConcatAssociative
<1>4. PICK r \in Seq(Byte) : r = u \o head /\ r # << >> /\ r[1] = u[1]
  BY FirstOfTwo
<1>5. (f \o d) \o r = f \o (d \o r)
  BY ConcatAssociative
<1>6. PICK t \in Seq(Byte) : t = d \o r /\ t # << >> /\ t[1] = d[1]
  BY FirstOfTwo
<1>7. Chars(u \o head) = Chars(u)
  BY FieldChars, FieldLengths DEF FieldStops
<1>8. Chars(d \o r) = Chars(d)
  BY <1>4, FieldChars, FieldLengths DEF FieldStops
<1>9. Chars(f \o t) = Chars(f)
  BY <1>6, FieldChars, FieldLengths DEF FieldStops
<1>10. f \o d \o u \o head = f \o t
  BY <1>2, <1>3, <1>4, <1>5, <1>6, Zenon
<1> QED
  BY <1>1, <1>4, <1>7, <1>8, <1>9, <1>10, Zenon

DepCodes(sw, big) == [i \in 1..Len(sw.deps) |-> Code(Chars(sw.deps[i]), big)]

Coded(sw, big) ==
    Code(Chars(sw.name), big) \o Code(Chars(sw.desc), big) \o Code(Chars(sw.url), big)
        \o NumberBytes(Len(sw.deps), 2, big) \o FlattenSeq(DepCodes(sw, big))

(* Of a struct that fits, the writer makes the codes of its strings,       *)
(* whatever lies behind the blocks of its list.                            *)
LEMMA RecordIsCoded ==
    ASSUME NEW sw, Built(sw), bigEndian \in [{"writer", "reader"} -> BOOLEAN], Fits(sw),
           NEW b \in Seq(Byte)
    PROVE  Record(sw, bigEndian["writer"], b) = Coded(sw, bigEndian["writer"])
<1>1. PICK big \in BOOLEAN : big = bigEndian["writer"]
  OBVIOUS
<1>2. PICK head : head = ListHead(sw, big)
  OBVIOUS
<1>3. head \in Seq(Byte) /\ head # << >> /\ (sw.deps = << >> \/ big => head[1] = 0)
  BY <1>2, HeadType
<1>4. PICK f : f = sw.name
  OBVIOUS
<1>5. PICK d : d = sw.desc
  OBVIOUS
<1>6. PICK u : u = sw.url
  OBVIOUS
<1>7. /\ Filled(f, NameLen) /\ f \in Seq(Byte) /\ Len(f) = NameLen
      /\ Filled(d, DescLen) /\ d \in Seq(Byte) /\ Len(d) = DescLen /\ d # << >>
      /\ Filled(u, UrlLen) /\ u \in Seq(Byte) /\ Len(u) = UrlLen /\ u # << >>
  <2>1. Filled(f, NameLen) /\ Filled(d, DescLen) /\ Filled(u, UrlLen)
    BY <1>4, <1>5, <1>6 DEF Built
  <2>2. /\ f \in Seq(Byte) /\ Len(f) = NameLen /\ d \in Seq(Byte) /\ Len(d) = DescLen
        /\ u \in Seq(Byte) /\ Len(u) = UrlLen
    BY <2>1, FilledText, Lengths
  <2>3. d # << >> /\ u # << >>
    BY <2>2, Lengths
  <2> QED
    BY <2>1, <2>2, <2>3
<1>8. /\ f[Len(f)] # 0 => d[1] = 0
      /\ d[Len(d)] # 0 => u[1] = 0
      /\ u[Len(u)] # 0 => head[1] = 0
  BY <1>1, <1>3, <1>4, <1>5, <1>6 DEF Fits
<1>12. /\ Chars(f \o d \o u \o head) = Chars(f)
       /\ Chars(d \o u \o head) = Chars(d)
       /\ Chars(u \o head) = Chars(u)
  <2>1. FieldStops(f, d) /\ FieldStops(d, u) /\ FieldStops(u, head)
    BY <1>7, <1>8 DEF FieldStops
  <2> QED
    BY <1>3, <1>7, <2>1, FieldsChars
<1>13. /\ StringBytes(f \o d \o u \o head, big) = Code(Chars(f), big)
       /\ StringBytes(d \o u \o head, big) = Code(Chars(d), big)
       /\ StringBytes(u \o head, big) = Code(Chars(u), big)
  BY <1>12, Zenon DEF StringBytes, Code
<1>14. PICK n \in Nat : n = Len(sw.deps) /\ DOMAIN sw.deps = 1..n
  <2>1. sw.deps \in Seq(Seq(Byte))
    BY DEF Built
  <2> QED
    BY <2>1
<1>15. n % DepsWidth = n
  <2>1. n < DepsWidth /\ DepsWidth \in Nat
    BY <1>14, Lengths DEF Fits
  <2> QED
    BY <2>1
<1>16. \A i \in 1..n : StringBytes(sw.deps[i] \o b, big) = Code(Chars(sw.deps[i]), big)
  <2>1. ASSUME NEW i \in 1..n PROVE Chars(sw.deps[i] \o b) = Chars(sw.deps[i])
    <3>1. Filled(sw.deps[i], NameLen)
      BY <1>14 DEF Built
    <3>2. sw.deps[i][Len(sw.deps[i])] = 0
      BY <1>14 DEF Fits
    <3> QED
      BY <3>1, <3>2, FieldChars, Lengths
  <2> QED
    BY <2>1, Zenon DEF StringBytes, Code
<1>17. [i \in DOMAIN sw.deps |-> StringBytes(sw.deps[i] \o b, big)] = DepCodes(sw, big)
  BY <1>14, <1>16, Zenon DEF DepCodes
<1> QED
  BY <1>1, <1>2, <1>4, <1>5, <1>6, <1>13, <1>14, <1>15, <1>17, Zenon DEF Record, Coded

(* What a file holds from q on it holds in parts.                          *)
LEMMA PartsHold ==
    ASSUME NEW q \in Nat, NEW n \in Nat, NEW codes \in [1..n -> Seq(Byte)],
           Holds(q, FlattenSeq(codes))
    PROVE  /\ FlattenSeq(codes) \in Seq(Byte)
           /\ \E pos \in [0..n -> Nat] :
                 /\ pos[0] = q /\ pos[n] = q + Len(FlattenSeq(codes))
                 /\ \A i \in 1..n : /\ pos[i] = pos[i - 1] + Len(codes[i])
                                    /\ Holds(pos[i - 1], codes[i])
<1>1. PICK P \in [0..n -> Seq(Byte)] : IsParts(P, codes, n)
  BY PartsExist
<1>2. FlattenSeq(codes) = P[n]
  BY <1>1, FlattenIsLastPart
<1>3. PICK pos \in [0..n -> Nat] : \A i \in 0..n : pos[i] = q + Len(P[i])
  <2>1. [i \in 0..n |-> q + Len(P[i])] \in [0..n -> Nat]
    OBVIOUS
  <2>2. \A i \in 0..n : [j \in 0..n |-> q + Len(P[j])][i] = q + Len(P[i])
    OBVIOUS
  <2> QED
    BY <2>1, <2>2
<1>4. pos[0] = q /\ pos[n] = q + Len(P[n])
  <2>1. P[0] = << >> /\ 0 \in 0..n /\ n \in 0..n
    BY <1>1 DEF IsParts
  <2> QED
    BY <1>3, <2>1
<1>5. ASSUME NEW i \in 1..n
      PROVE  pos[i] = pos[i - 1] + Len(codes[i]) /\ Holds(pos[i - 1], codes[i])
  <2>1. IsAt(P, codes, n, i)
    BY <1>1, PartAt
  <2>2. PICK k \in Nat : k = Len(P[i - 1])
    BY i - 1 \in 0..n
  <2>3. PICK m \in Nat : m = Len(codes[i])
    OBVIOUS
  <2>4. i \in 0..n /\ i - 1 \in 0..n
    OBVIOUS
  <2>5. pos[i - 1] = q + k /\ pos[i] = q + (k + m)
    BY <1>3, <2>1, <2>2, <2>3, <2>4 DEF IsAt
  <2>6. PICK t : t = P[n]
    OBVIOUS
  <2>7. Len(t) \in Nat /\ k + m <= Len(t) /\ \A j \in 1..m : t[k + j] = codes[i][j]
    <3>1. t \in Seq(Byte) /\ Len(P[i]) = k + m /\ Len(P[i]) <= Len(t)
      BY <2>1, <2>2, <2>3, <2>6 DEF IsAt
    <3>2. \A j \in 1..m : t[k + j] = codes[i][j]
      BY <2>1, <2>2, <2>3, <2>6, Zenon DEF IsAt
    <3>3. Len(t) \in Nat
      BY <3>1
    <3> QED
      BY <3>1, <3>2, <3>3, Zenon
  <2>8. \A j \in 1..Len(t) : q + j <= Len(bytes) => bytes[q + j] = t[j]
    BY <1>2, <2>6 DEF Holds
  <2>9. \A j \in 1..m : k + j \in 1..Len(t) /\ q + (k + j) = q + k + j
    BY <2>7
  <2>10. \A j \in 1..m : q + k + j <= Len(bytes) => bytes[q + k + j] = codes[i][j]
    BY <2>7, <2>8, <2>9
  <2> QED
    BY <2>3, <2>5, <2>10 DEF Holds
<1>6. /\ pos[0] = q /\ pos[n] = q + Len(FlattenSeq(codes))
      /\ \A i \in 1..n : /\ pos[i] = pos[i - 1] + Len(codes[i])
                         /\ Holds(pos[i - 1], codes[i])
  BY <1>2, <1>4, <1>5, Zenon
<1>7. FlattenSeq(codes) \in Seq(Byte)
  BY <1>2
<1> QED
  BY <1>6, <1>7, Zenon

(* The five parts of a record in the file.                                 *)
LEMMA FiveHold ==
    ASSUME NEW q \in Nat, NEW c1 \in Seq(Byte), NEW c2 \in Seq(Byte), NEW c3 \in Seq(Byte),
           NEW c4 \in Seq(Byte), NEW c5 \in Seq(Byte),
           Holds(q, c1 \o c2 \o c3 \o c4 \o c5)
    PROVE  /\ Holds(q, c1) /\ Holds(q + Len(c1), c2)
           /\ Holds(q + Len(c1) + Len(c2), c3)
           /\ Holds(q + Len(c1) + Len(c2) + Len(c3), c4)
           /\ Holds(q + Len(c1) + Len(c2) + Len(c3) + Len(c4), c5)
           /\ Len(c1 \o c2 \o c3 \o c4 \o c5)
                = Len(c1) + Len(c2) + Len(c3) + Len(c4) + Len(c5)
<1>1. PICK s2 \in Seq(Byte) : s2 = c1 \o c2 /\ Len(s2) = Len(c1) + Len(c2)
  BY ConcatProperties
<1>2. PICK s3 \in Seq(Byte) : s3 = s2 \o c3 /\ Len(s3) = Len(s2) + Len(c3)
  BY ConcatProperties
<1>3. PICK s4 \in Seq(Byte) : s4 = s3 \o c4 /\ Len(s4) = Len(s3) + Len(c4)
  BY ConcatProperties
<1>4. PICK s5 \in Seq(Byte) : s5 = s4 \o c5 /\ Len(s5) = Len(s4) + Len(c5)
  BY ConcatProperties
<1>5. Holds(q, s4 \o c5) /\ s5 = c1 \o c2 \o c3 \o c4 \o c5
  BY <1>1, <1>2, <1>3, <1>4, Zenon
<1>6. Holds(q, s4) /\ Holds(q + Len(s4), c5)
  BY <1>5, HoldsJoin
<1>7. Holds(q, s3) /\ Holds(q + Len(s3), c4)
  BY <1>3, <1>6, HoldsJoin
<1>8. Holds(q, s2) /\ Holds(q + Len(s2), c3)
  BY <1>2, <1>7, HoldsJoin
<1>9. Holds(q, c1) /\ Holds(q + Len(c1), c2)
  BY <1>1, <1>8, HoldsJoin
<1>10. /\ Len(c1) \in Nat /\ Len(c2) \in Nat /\ Len(c3) \in Nat /\ Len(c4) \in Nat
       /\ Len(c5) \in Nat
  OBVIOUS
<1>11. /\ q + Len(s2) = q + Len(c1) + Len(c2)
       /\ q + Len(s3) = q + Len(c1) + Len(c2) + Len(c3)
       /\ q + Len(s4) = q + Len(c1) + Len(c2) + Len(c3) + Len(c4)
       /\ Len(s5) = Len(c1) + Len(c2) + Len(c3) + Len(c4) + Len(c5)
  BY <1>1, <1>2, <1>3, <1>4, <1>10
<1> QED
  BY <1>5, <1>6, <1>7, <1>8, <1>9, <1>11, Zenon

(* The string in a field, which a reader gets back.                        *)
FieldString(f, n) ==
    /\ f \in [1..n -> Byte] /\ Chars(f) \in Seq(Byte) /\ Len(Chars(f)) <= n
    /\ InWidth(Len(Chars(f)), 4) /\ Copy(Chars(f), n) = f

(* The strings of a struct fit their fields and their lengths fit four     *)
(* bytes.                                                                  *)
LEMMA BuiltStrings ==
    ASSUME NEW sw, Built(sw)
    PROVE  /\ FieldString(sw.name, NameLen) /\ FieldString(sw.desc, DescLen)
           /\ FieldString(sw.url, UrlLen)
           /\ \A i \in 1..Len(sw.deps) : FieldString(sw.deps[i], NameLen)
<1>1. ASSUME NEW n \in {NameLen, DescLen, UrlLen}, NEW f, Filled(f, n)
      PROVE  FieldString(f, n)
  <2>1. n \in Nat
    BY LengthsAssumption
  <2>2. n <= 65536
    BY LengthsAssumption
  <2>3. /\ f \in [1..n -> Byte] /\ Chars(f) \in Seq(Byte) /\ Len(Chars(f)) <= n
        /\ Copy(Chars(f), n) = f
    BY <1>1, <2>1, FilledText
  <2>4. PICK k \in Nat : k = Len(Chars(f))
    BY <2>3
  <2>5. k <= n
    BY <2>3, <2>4
  <2>6. InWidth(k, 4)
    BY <2>1, <2>2, <2>5, SMT DEF InWidth
  <2>7. InWidth(Len(Chars(f)), 4)
    BY <2>4, <2>6
  <2> QED
    BY <2>3, <2>7 DEF FieldString
<1>2. /\ Filled(sw.name, NameLen) /\ Filled(sw.desc, DescLen) /\ Filled(sw.url, UrlLen)
      /\ \A i \in 1..Len(sw.deps) : Filled(sw.deps[i], NameLen)
  BY Zenon DEF Built
<1> QED
  BY <1>1, <1>2, Zenon

(* The dependencies in the file are strings.                               *)
LEMMA DepCodesType ==
    ASSUME NEW sw, Built(sw), NEW big \in BOOLEAN
    PROVE  /\ Len(sw.deps) \in Nat
           /\ DepCodes(sw, big) \in [1..Len(sw.deps) -> Seq(Byte)]
           /\ \A i \in 1..Len(sw.deps) :
                 Len(DepCodes(sw, big)[i]) = 4 + Len(Chars(sw.deps[i]))
<1>1. Len(sw.deps) \in Nat
  <2>1. sw.deps \in Seq(Seq(Byte))
    BY DEF Built
  <2> QED
    BY <2>1
<1>2. \A i \in 1..Len(sw.deps) : Chars(sw.deps[i]) \in Seq(Byte)
  BY BuiltStrings DEF FieldString
<1>3. \A i \in 1..Len(sw.deps) :
         /\ Code(Chars(sw.deps[i]), big) \in Seq(Byte)
         /\ Len(Code(Chars(sw.deps[i]), big)) = 4 + Len(Chars(sw.deps[i]))
  BY <1>2, CodeType
<1> QED
  BY <1>1, <1>3 DEF DepCodes

(* Where the strings of a record begin that the file holds from q on.      *)
DescAt(sw, q) == q + 4 + Len(Chars(sw.name))
UrlAt(sw, q) == DescAt(sw, q) + 4 + Len(Chars(sw.desc))
CountAt(sw, q) == UrlAt(sw, q) + 4 + Len(Chars(sw.url))

StringsPlaced(sw, big, q) ==
    /\ Holds(q, Code(Chars(sw.name), big))
    /\ Holds(DescAt(sw, q), Code(Chars(sw.desc), big))
    /\ Holds(UrlAt(sw, q), Code(Chars(sw.url), big))
    /\ Holds(CountAt(sw, q), NumberBytes(Len(sw.deps), 2, big))

DepsPlaced(deps, n, big, pos) ==
    /\ pos \in [0..n -> Nat]
    /\ \A i \in 1..n : /\ pos[i] = pos[i - 1] + 4 + Len(Chars(deps[i]))
                       /\ Holds(pos[i - 1], Code(Chars(deps[i]), big))

(* Where a record lies in the file its strings and dependencies lie one    *)
(* behind the other.                                                       *)
LEMMA RecordIsPlaced ==
    ASSUME NEW sw, Built(sw), NEW big \in BOOLEAN, NEW q \in Nat, Holds(q, Coded(sw, big))
    PROVE  /\ StringsPlaced(sw, big, q)
           /\ \E pos : /\ DepsPlaced(sw.deps, Len(sw.deps), big, pos)
                       /\ pos[0] = CountAt(sw, q) + 2
                       /\ pos[Len(sw.deps)] = q + Len(Coded(sw, big))
<1>1. PICK n \in Nat : n = Len(sw.deps)
  BY DepCodesType
<1>2. PICK codes : codes = DepCodes(sw, big)
  OBVIOUS
<1>3. codes \in [1..n -> Seq(Byte)]
  BY <1>1, <1>2, DepCodesType
<1>4. PICK c1 \in Seq(Byte) : c1 = Code(Chars(sw.name), big)
                              /\ Len(c1) = 4 + Len(Chars(sw.name))
  BY BuiltStrings, CodeType DEF FieldString
<1>5. PICK c2 \in Seq(Byte) : c2 = Code(Chars(sw.desc), big)
                              /\ Len(c2) = 4 + Len(Chars(sw.desc))
  BY BuiltStrings, CodeType DEF FieldString
<1>6. PICK c3 \in Seq(Byte) : c3 = Code(Chars(sw.url), big)
                              /\ Len(c3) = 4 + Len(Chars(sw.url))
  BY BuiltStrings, CodeType DEF FieldString
<1>7. PICK c4 \in Seq(Byte) : c4 = NumberBytes(n, 2, big) /\ Len(c4) = 2
  <2>1. NumberBytes(n, 2, big) \in Seq(Byte) /\ Len(NumberBytes(n, 2, big)) = 2
    BY CountType
  <2> QED
    BY <2>1
<1>8. PICK P \in [0..n -> Seq(Byte)] : IsParts(P, codes, n)
  BY <1>3, PartsExist
<1>9. PICK c5 \in Seq(Byte) : c5 = FlattenSeq(codes)
  <2>1. FlattenSeq(codes) = P[n]
    BY <1>3, <1>8, FlattenIsLastPart
  <2>2. P[n] \in Seq(Byte)
    OBVIOUS
  <2> QED
    BY <2>1, <2>2
<1>10. Coded(sw, big) = c1 \o c2 \o c3 \o c4 \o c5
  BY <1>1, <1>2, <1>4, <1>5, <1>6, <1>7, <1>9, Zenon DEF Coded
<1>11. Holds(q, c1 \o c2 \o c3 \o c4 \o c5)
  BY <1>10
<1>12. /\ Holds(q, c1) /\ Holds(q + Len(c1), c2)
       /\ Holds(q + Len(c1) + Len(c2), c3)
       /\ Holds(q + Len(c1) + Len(c2) + Len(c3), c4)
       /\ Holds(q + Len(c1) + Len(c2) + Len(c3) + Len(c4), c5)
       /\ Len(c1 \o c2 \o c3 \o c4 \o c5)
            = Len(c1) + Len(c2) + Len(c3) + Len(c4) + Len(c5)
  BY <1>11, FiveHold
<1>13. /\ Len(c1) \in Nat /\ Len(c2) \in Nat /\ Len(c3) \in Nat /\ Len(c5) \in Nat
       /\ Len(Chars(sw.name)) \in Nat /\ Len(Chars(sw.desc)) \in Nat
       /\ Len(Chars(sw.url)) \in Nat
  BY BuiltStrings DEF FieldString
<1>14. /\ q + Len(c1) = DescAt(sw, q)
       /\ q + Len(c1) + Len(c2) = UrlAt(sw, q)
       /\ q + Len(c1) + Len(c2) + Len(c3) = CountAt(sw, q)
       /\ q + Len(c1) + Len(c2) + Len(c3) + Len(c4) = CountAt(sw, q) + 2
  <2>1. PICK x \in Nat : x = Len(Chars(sw.name))
    BY <1>13
  <2>2. PICK y \in Nat : y = Len(Chars(sw.desc))
    BY <1>13
  <2>3. PICK z \in Nat : z = Len(Chars(sw.url))
    BY <1>13
  <2>4. Len(c1) = 4 + x /\ Len(c2) = 4 + y /\ Len(c3) = 4 + z /\ Len(c4) = 2
    BY <1>4, <1>5, <1>6, <1>7, <2>1, <2>2, <2>3
  <2>5. /\ DescAt(sw, q) = q + 4 + x /\ UrlAt(sw, q) = q + 4 + x + 4 + y
        /\ CountAt(sw, q) = q + 4 + x + 4 + y + 4 + z
    BY <2>1, <2>2, <2>3, Zenon DEF DescAt, UrlAt, CountAt
  <2> QED
    BY <2>4, <2>5
<1>15. StringsPlaced(sw, big, q)
  BY <1>1, <1>4, <1>5, <1>6, <1>7, <1>12, <1>14, Zenon DEF StringsPlaced
<1>16. PICK d \in Nat : d = CountAt(sw, q) + 2
  BY <1>7, <1>13, <1>14
<1>17. Holds(d, FlattenSeq(codes))
  BY <1>9, <1>12, <1>14, <1>16, Zenon
<1>18. PICK pos \in [0..n -> Nat] :
          /\ pos[0] = d /\ pos[n] = d + Len(FlattenSeq(codes))
          /\ \A i \in 1..n : /\ pos[i] = pos[i - 1] + Len(codes[i])
                             /\ Holds(pos[i - 1], codes[i])
  BY <1>3, <1>17, PartsHold
<1>19. ASSUME NEW i \in 1..n
       PROVE  /\ pos[i] = pos[i - 1] + 4 + Len(Chars(sw.deps[i]))
              /\ Holds(pos[i - 1], Code(Chars(sw.deps[i]), big))
  <2>1. codes[i] = Code(Chars(sw.deps[i]), big)
    BY <1>1, <1>2 DEF DepCodes
  <2>2. Len(codes[i]) = 4 + Len(Chars(sw.deps[i]))
    BY <1>1, <1>2, DepCodesType
  <2>4. Len(Chars(sw.deps[i])) \in Nat
    <3>1. FieldString(sw.deps[i], NameLen)
      BY <1>1, BuiltStrings
    <3> QED
      BY <3>1 DEF FieldString
  <2>3. pos[i - 1] \in Nat
    BY i - 1 \in 0..n
  <2> QED
    <3>1. Holds(pos[i - 1], codes[i]) /\ pos[i] = pos[i - 1] + Len(codes[i])
      BY <1>18
    <3>2. PICK k \in Nat : k = Len(Chars(sw.deps[i]))
      BY <2>4
    <3>3. pos[i - 1] + (4 + k) = pos[i - 1] + 4 + k
      <4>1. \A p \in Nat : p + (4 + k) = p + 4 + k
        OBVIOUS
      <4> QED
        BY <2>3, <4>1, Zenon
    <3> QED
      <4>1. pos[i] = pos[i - 1] + (4 + k)
        BY <2>2, <3>1, <3>2
      <4>2. Holds(pos[i - 1], Code(Chars(sw.deps[i]), big))
        BY <2>1, <3>1, Zenon
      <4> QED
        BY <3>2, <3>3, <4>1, <4>2, Zenon
<1>20. DepsPlaced(sw.deps, n, big, pos)
  BY <1>18, <1>19 DEF DepsPlaced
<1>21. pos[n] = q + Len(Coded(sw, big))
  BY <1>7, <1>9, <1>10, <1>12, <1>13, <1>14, <1>16, <1>18
<1> QED
  BY <1>1, <1>15, <1>16, <1>18, <1>20, <1>21, Zenon

-----------------------------------------------------------------------------
(* The loop over dependencies that the file holds.                         *)
LEMMA Prepended ==
    ASSUME NEW S, NEW x \in S, NEW m \in Nat, NEW t \in Seq(S), Len(t) = m
    PROVE  <<x>> \o t = [i \in 1..(m + 1) |-> IF i = 1 THEN x ELSE t[i - 1]]
<1>1. PICK u : u = <<x>> \o t
  OBVIOUS
<1>2. <<x>> \in Seq(S) /\ Len(<<x>>) = 1 /\ <<x>>[1] = x
  OBVIOUS
<1>3. u \in Seq(S) /\ Len(u) = 1 + m /\ u[1] = x /\ \A i \in 1..m : u[1 + i] = t[i]
  <2>1. u \in Seq(S) /\ Joins(u, <<x>>, t)
    BY <1>1, <1>2, Appended
  <2>2. 1 \in 1..1
    OBVIOUS
  <2> QED
    BY <1>2, <2>1, <2>2 DEF Joins
<1>4. \A i \in 1..(m + 1) : u[i] = IF i = 1 THEN x ELSE t[i - 1]
  <2>1. ASSUME NEW i \in 1..(m + 1), i # 1 PROVE u[i] = t[i - 1]
    <3>1. i - 1 \in 1..m /\ 1 + (i - 1) = i
      BY <2>1
    <3> QED
      BY <1>3, <3>1
  <2> QED
    BY <1>3, <2>1
<1>5. u = [i \in 1..(m + 1) |-> u[i]]
  BY <1>3
<1> QED
  BY <1>1, <1>4, <1>5

(* After k turns: the first k dependencies, the last of them first, or all *)
(* but a part of one of them.                                              *)
Turned(ds, k) == [i \in 1..k |-> ds[(k + 1) - i]]

TurnedWith(x, ds, k) == [i \in 1..k |-> IF i = 1 THEN x ELSE ds[(k + 1) - i]]

TurnedTorn(ds, k, j) == TurnedWith(Copy(SubSeq(Chars(ds[k]), 1, j), NameLen), ds, k)

DepsRead(d, ds, k, pos) ==
    IF pos[k] <= Len(bytes) THEN At(d.s, pos[k]) /\ d.deps = Turned(ds, k)
    ELSE d.s.ok = TRUE => /\ d.s.eof = TRUE /\ k > 0
                          /\ \E j \in 0..Len(Chars(ds[k])) : d.deps = TurnedTorn(ds, k, j)

(* A dependency shifted onto those before it.                              *)
LEMMA OneMoreTurned ==
    ASSUME NEW n \in Nat, NEW ds \in [1..n -> [1..NameLen -> Byte]], NEW k \in 1..n,
           NEW x \in [1..NameLen -> Byte]
    PROVE  <<x>> \o Turned(ds, k - 1) = TurnedWith(x, ds, k)
<1>1. PICK t : t = Turned(ds, k - 1)
  OBVIOUS
<1>2. k - 1 \in Nat /\ (k - 1) + 1 = k
  OBVIOUS
<1>3. \A i \in 1..(k - 1) : ((k - 1) + 1) - i \in 1..n
  OBVIOUS
<1>4. t \in [1..(k - 1) -> [1..NameLen -> Byte]]
  BY <1>1, <1>3 DEF Turned
<1>5. t \in Seq([1..NameLen -> Byte]) /\ Len(t) = k - 1
  BY <1>2, <1>4
<1>6. <<x>> \o t = [i \in 1..k |-> IF i = 1 THEN x ELSE t[i - 1]]
  <2>1. <<x>> \o t = [i \in 1..((k - 1) + 1) |-> IF i = 1 THEN x ELSE t[i - 1]]
    BY <1>2, <1>5, Prepended
  <2> QED
    BY <1>2, <2>1
<1>7. \A i \in 1..k : i # 1 => t[i - 1] = ds[(k + 1) - i]
  <2>1. ASSUME NEW i \in 1..k, i # 1 PROVE t[i - 1] = ds[(k + 1) - i]
    <3>1. i - 1 \in 1..(k - 1) /\ ((k - 1) + 1) - (i - 1) = (k + 1) - i
      BY <2>1
    <3> QED
      BY <1>1, <3>1 DEF Turned
  <2> QED
    BY <2>1
<1> QED
  BY <1>1, <1>6, <1>7 DEF TurnedWith

(* A turn after the end of the file fails, or leaves what had failed.      *)
LEMMA DepStops ==
    ASSUME bytes \in Seq(Byte), NEW rbig \in BOOLEAN, NEW d, DepsType(d),
           d.s.ok = TRUE => d.s.eof = TRUE
    PROVE  ~(ReadDep(d, rbig).s.ok = TRUE)
<1>1. PICK r : r = ReadString(d.s, NameLen, rbig)
  OBVIOUS
<1>2. PICK e : e = ReadDep(d, rbig)
  OBVIOUS
<1>3. e = IF ~d.s.ok THEN d ELSE [s |-> r, deps |-> <<Copy(r.val, NameLen)>> \o d.deps]
  BY <1>1, <1>2 DEF ReadDep
<1>4. IsStream(d.s) /\ (~d.s.ok \/ d.s.eof => ~r.ok)
  BY <1>1, ReadStringType, FieldLengths DEF DepsType
<1>5. CASE d.s.ok = TRUE
  <2>1. ~r.ok /\ e.s = r
    BY <1>3, <1>4, <1>5
  <2> QED
    BY <1>2, <2>1
<1>6. CASE ~(d.s.ok = TRUE)
  <2>1. d.s.ok \in BOOLEAN
    BY <1>4 DEF IsStream
  <2>2. e = d
    BY <1>3, <1>6, <2>1
  <2> QED
    BY <1>2, <1>6, <2>2
<1> QED
  BY <1>5, <1>6

(* One turn, at the place of dependency k, reads it, or what the file has  *)
(* of it.                                                                  *)
LEMMA DepTurn ==
    ASSUME bytes \in Seq(Byte), NEW n \in Nat, NEW ds \in [1..n -> [1..NameLen -> Byte]],
           \A i \in 1..n : FieldString(ds[i], NameLen),
           NEW wbig \in BOOLEAN, NEW rbig \in BOOLEAN,
           NEW pos, DepsPlaced(ds, n, wbig, pos), NEW k \in 1..n,
           NEW d, DepsType(d), DepsRead(d, ds, k - 1, pos)
    PROVE  DepsRead(ReadDep(d, rbig), ds, k, pos)
<1>1. PICK c : c = Chars(ds[k])
  OBVIOUS
<1>2. c \in Seq(Byte) /\ Len(c) <= NameLen /\ InWidth(Len(c), 4) /\ Copy(c, NameLen) = ds[k]
  BY <1>1 DEF FieldString
<1>3. PICK m \in Nat : m = Len(c)
  BY <1>2
<1>4. PICK p \in Nat : p = pos[k - 1]
  <2>1. k - 1 \in 0..n
    OBVIOUS
  <2> QED
    BY <2>1 DEF DepsPlaced
<1>5. pos[k] = p + 4 + m /\ Holds(p, Code(c, wbig))
  BY <1>1, <1>3, <1>4 DEF DepsPlaced
<1>6. PICK r : r = ReadString(d.s, NameLen, rbig)
  OBVIOUS
<1>7. PICK e : e = ReadDep(d, rbig)
  OBVIOUS
<1>8. e = IF ~d.s.ok THEN d ELSE [s |-> r, deps |-> <<Copy(r.val, NameLen)>> \o d.deps]
  BY <1>6, <1>7 DEF ReadDep
<1>9. IsStream(d.s) /\ r \in Results(Seq(Byte)) /\ (~d.s.ok \/ d.s.eof => ~r.ok)
  BY <1>6, ReadStringType, FieldLengths DEF DepsType
<1>10. CASE p <= Len(bytes)
  <2>1. At(d.s, p) /\ d.deps = Turned(ds, k - 1)
    BY <1>4, <1>10 DEF DepsRead
  <2>2. e.s = r /\ e.deps = <<Copy(r.val, NameLen)>> \o d.deps
    BY <1>8, <2>1 DEF At
  <2>3. StringAs(r, p, c)
    <3>1. p \in 0..Len(bytes)
      BY <1>10
    <3>2. NameLen \in Nat
      BY FieldLengths
    <3> QED
      BY <1>2, <1>5, <1>6, <2>1, <3>1, <3>2, ReadStringHolds
  <2>4. PICK f : f = Copy(r.val, NameLen)
    OBVIOUS
  <2>5. f \in [1..NameLen -> Byte]
    BY <1>9, <2>4, CopyType, FieldLengths DEF Results
  <2>6. e.deps = TurnedWith(f, ds, k)
    <3>1. <<f>> \o Turned(ds, k - 1) = TurnedWith(f, ds, k)
      BY <2>5, OneMoreTurned
    <3>2. e.deps = <<f>> \o Turned(ds, k - 1)
      BY <2>1, <2>2, <2>4, Zenon
    <3> QED
      BY <3>1, <3>2, Zenon
  <2>7. CASE p + 4 + m <= Len(bytes)
    <3>1. At(r, p + 4 + m) /\ r.val = c
      BY <1>3, <2>3, <2>7 DEF StringAs
    <3>2. f = ds[k] /\ (k + 1) - 1 = k
      BY <1>2, <2>4, <3>1
    <3>3. e.deps = Turned(ds, k)
      BY <2>6, <3>2 DEF Turned, TurnedWith
    <3> QED
      BY <1>5, <1>7, <2>2, <2>7, <3>1, <3>3 DEF DepsRead
  <2>8. CASE ~(p + 4 + m <= Len(bytes))
    <3>1. SUFFICES ASSUME e.s.ok = TRUE
                   PROVE  /\ e.s.eof = TRUE /\ k > 0
                          /\ \E j \in 0..Len(c) : e.deps = TurnedTorn(ds, k, j)
      BY <1>1, <1>5, <1>7, <2>8 DEF DepsRead
    <3>2. r.eof = TRUE /\ \E j \in 0..m : r.val = SubSeq(c, 1, j)
      BY <1>3, <2>2, <2>3, <2>8, <3>1 DEF StringAs
    <3>3. PICK j \in 0..Len(c) : r.val = SubSeq(c, 1, j)
      BY <1>3, <3>2
    <3>4. e.deps = TurnedTorn(ds, k, j)
      BY <1>1, <2>4, <2>6, <3>3 DEF TurnedTorn
    <3> QED
      <4>1. e.s.eof = TRUE /\ k > 0
        BY <2>2, <3>2
      <4> QED
        BY <3>4, <4>1, Zenon
  <2> QED
    BY <2>7, <2>8
<1>11. CASE ~(p <= Len(bytes))
  <2>1. d.s.ok = TRUE => d.s.eof = TRUE
    BY <1>4, <1>11 DEF DepsRead
  <2>2. ~(e.s.ok = TRUE)
    BY <1>7, <2>1, DepStops
  <2>3. ~(p + 4 + m <= Len(bytes))
    BY <1>11
  <2> QED
    BY <1>5, <1>7, <2>2, <2>3 DEF DepsRead
<1> QED
  BY <1>10, <1>11

(* Each dependency takes at least one byte.                                *)
LEMMA PlacesGrow ==
    ASSUME NEW n \in Nat, NEW ds, NEW big, NEW pos, DepsPlaced(ds, n, big, pos),
           \A i \in 1..n : Len(Chars(ds[i])) \in Nat
    PROVE  \A k \in 0..n : pos[k] >= pos[0] + k
<1> DEFINE T == {k \in 0..n : ~(pos[k] >= pos[0] + k)}
<1>1. T = {}
  <2> SUFFICES ASSUME T # {} PROVE FALSE
    OBVIOUS
  <2>1. PICK k \in T : \A j \in T : k <= j
    <3>1. T \in SUBSET Nat
      OBVIOUS
    <3> HIDE DEF T
    <3> QED
      BY <3>1, LeastNatural
  <2>2. pos \in [0..n -> Nat]
    BY DEF DepsPlaced
  <2>3. PICK p \in Nat : p = pos[0]
    BY <2>2
  <2>4. k # 0
    BY <2>1, <2>3
  <2>5. k - 1 \in 0..n /\ ~(k <= k - 1) /\ k \in 1..n
    BY <2>1, <2>4
  <2>6. PICK o \in Nat : o = pos[k - 1]
    BY <2>2, <2>5
  <2>7. o >= p + (k - 1)
    BY <2>1, <2>3, <2>5, <2>6
  <2>8. PICK m \in Nat : m = Len(Chars(ds[k]))
    BY <2>5
  <2>9. pos[k] = o + 4 + m
    BY <2>5, <2>6, <2>8 DEF DepsPlaced
  <2> QED
    BY <2>1, <2>3, <2>5, <2>7, <2>9
<1> QED
  BY <1>1

(* The loop reads all the dependencies that the file holds; the bound on   *)
(* the number of its turns does not matter.                                *)
LEMMA LoopReads ==
    ASSUME bytes \in Seq(Byte), NEW n \in Nat, NEW ds \in [1..n -> [1..NameLen -> Byte]],
           \A i \in 1..n : FieldString(ds[i], NameLen),
           NEW wbig \in BOOLEAN, NEW rbig \in BOOLEAN,
           NEW pos, DepsPlaced(ds, n, wbig, pos), pos[0] \in 1..Len(bytes),
           NEW s, At(s, pos[0])
    PROVE  DepsRead(ReadDeps(s, n, rbig), ds, n, pos)
<1>1. PICK len \in Nat : len = Len(bytes)
  OBVIOUS
<1>2. PICK h : DepTurns(h, s, rbig, Nat) /\ ReadDeps(s, n, rbig) = h[Min({n, len + 1})]
  BY <1>1, DepsAreTurns
<1>3. IsStream(s)
  <2>1. pos[0] \in 0..Len(bytes)
    OBVIOUS
  <2> QED
    BY <2>1, AtIsStream
<1>4. \A k \in Nat : DepsType(h[k])
  BY <1>2, <1>3, TurnsType
<1> DEFINE T == {k \in 0..n : ~DepsRead(h[k], ds, k, pos)}
<1>5. T = {}
  <2> SUFFICES ASSUME T # {} PROVE FALSE
    OBVIOUS
  <2>1. PICK k \in T : \A j \in T : k <= j
    <3>1. T \in SUBSET Nat
      OBVIOUS
    <3> HIDE DEF T
    <3> QED
      BY <3>1, LeastNatural
  <2>2. k # 0
    <3>1. h[0] = [s |-> s, deps |-> << >>]
      BY <1>2 DEF DepTurns
    <3>2. Turned(ds, 0) = << >>
      BY DEF Turned
    <3>3. DepsRead(h[0], ds, 0, pos)
      BY <3>1, <3>2 DEF DepsRead
    <3> QED
      BY <2>1, <3>3
  <2>3. k - 1 \in 0..n /\ ~(k <= k - 1) /\ k \in 1..n /\ k \in Nat \ {0} /\ k - 1 \in Nat
    BY <2>1, <2>2
  <2>4. DepsRead(h[k - 1], ds, k - 1, pos)
    BY <2>1, <2>3
  <2>5. PICK d : d = h[k - 1]
    OBVIOUS
  <2>6. h[k] = ReadDep(d, rbig)
    BY <1>2, <2>3, <2>5 DEF DepTurns
  <2>7. DepsType(d)
    BY <1>4, <2>3, <2>5
  <2>8. DepsRead(d, ds, k - 1, pos)
    BY <2>4, <2>5
  <2>9. DepsRead(h[k], ds, k, pos)
    BY <2>3, <2>6, <2>7, <2>8, DepTurn
  <2> QED
    BY <2>1, <2>9
<1>6. \A k \in 0..n : DepsRead(h[k], ds, k, pos)
  BY <1>5
<1> HIDE DEF T
<1>7. CASE n <= len + 1
  <2>1. Min({n, len + 1}) = n /\ n \in 0..n
    BY <1>7, MinOfTwo
  <2> QED
    BY <1>2, <1>6, <2>1
<1>8. CASE ~(n <= len + 1)
  <2>1. Min({n, len + 1}) = len + 1
    <3>1. len + 1 \in Nat
      OBVIOUS
    <3> QED
      BY <1>8, <3>1, MinOfTwo
  <2>2. \A k \in 0..n : pos[k] >= pos[0] + k
    BY PlacesGrow DEF FieldString
  <2>3. len \in 0..n /\ n \in 0..n /\ len + 1 \in Nat \ {0} /\ (len + 1) - 1 = len
    BY <1>8
  <2>4. \A k \in 0..n : pos[k] \in Nat
    BY DEF DepsPlaced
  <2>5. ~(pos[len] <= len) /\ ~(pos[n] <= len)
    BY <1>1, <1>8, <2>2, <2>3, <2>4
  <2>6. PICK d : d = h[len]
    OBVIOUS
  <2>7. d.s.ok = TRUE => d.s.eof = TRUE
    <3>1. DepsRead(d, ds, len, pos)
      BY <1>6, <2>3, <2>6
    <3> QED
      BY <1>1, <2>5, <3>1 DEF DepsRead
  <2>8. h[len + 1] = ReadDep(d, rbig)
    BY <1>2, <2>3, <2>6 DEF DepTurns
  <2>9. DepsType(d)
    BY <1>4, <2>6
  <2>10. ~(h[len + 1].s.ok = TRUE)
    BY <2>7, <2>8, <2>9, DepStops
  <2> QED
    BY <1>1, <1>2, <2>1, <2>5, <2>10 DEF DepsRead
<1> QED
  BY <1>7, <1>8

(* At the end of the file the loop makes no turn, or fails.                *)
LEMMA LoopStops ==
    ASSUME bytes \in Seq(Byte), NEW n \in Nat, NEW rbig \in BOOLEAN,
           NEW s, IsStream(s), s.ok = TRUE => s.eof = TRUE,
           NEW d, d = ReadDeps(s, n, rbig), d.s.ok = TRUE
    PROVE  d.s.eof = TRUE /\ d.deps = << >>
<1>1. PICK k \in Nat : k = Min({n, Len(bytes) + 1})
  <2>1. Len(bytes) + 1 \in Nat
    OBVIOUS
  <2> QED
    BY <2>1, MinOfTwo
<1>2. PICK h : DepTurns(h, s, rbig, Nat) /\ d = h[k]
  BY <1>1, DepsAreTurns
<1>3. \A i \in Nat : DepsType(h[i])
  BY <1>2, TurnsType
<1>4. h[0] = [s |-> s, deps |-> << >>]
  BY <1>2 DEF DepTurns
<1> DEFINE T == {i \in Nat : h[i].s.ok = TRUE /\ ~(h[i].s.eof = TRUE)}
<1>5. ASSUME NEW i \in Nat \ {0}, i - 1 \notin T PROVE ~(h[i].s.ok = TRUE)
  <2>1. i - 1 \in Nat
    OBVIOUS
  <2>2. PICK e : e = h[i - 1]
    OBVIOUS
  <2>3. DepsType(e) /\ (e.s.ok = TRUE => e.s.eof = TRUE)
    BY <1>3, <1>5, <2>1, <2>2
  <2>4. h[i] = ReadDep(e, rbig)
    BY <1>2, <2>2 DEF DepTurns
  <2> QED
    BY <2>3, <2>4, DepStops
<1>6. T = {}
  <2> SUFFICES ASSUME T # {} PROVE FALSE
    OBVIOUS
  <2>1. PICK i \in T : \A j \in T : i <= j
    <3>1. T \in SUBSET Nat
      OBVIOUS
    <3> HIDE DEF T
    <3> QED
      BY <3>1, LeastNatural
  <2>2. i # 0
    BY <1>4, <2>1
  <2>3. i \in Nat \ {0} /\ i - 1 \notin T
    <3>1. i \in Nat
      BY <2>1
    <3>2. ~(i <= i - 1)
      BY <3>1
    <3> QED
      BY <2>1, <2>2, <3>1, <3>2
  <2>4. h[i].s.ok = TRUE
    BY <2>1
  <2> HIDE DEF T
  <2> QED
    BY <1>5, <2>3, <2>4
<1>7. k = 0
  <2> HIDE DEF T
  <2> QED
    BY <1>2, <1>5, <1>6
<1> QED
  BY <1>2, <1>4, <1>7

-----------------------------------------------------------------------------
(* Where the strings of a record lie is where numbers are.                 *)
LEMMA PlacesType ==
    ASSUME NEW sw, Built(sw), NEW q \in Nat
    PROVE  /\ DescAt(sw, q) \in Nat /\ UrlAt(sw, q) \in Nat /\ CountAt(sw, q) \in Nat
           /\ q < DescAt(sw, q) /\ DescAt(sw, q) < UrlAt(sw, q)
           /\ UrlAt(sw, q) < CountAt(sw, q)
<1>1. PICK x \in Nat : x = Len(Chars(sw.name))
  BY BuiltStrings DEF FieldString
<1>2. PICK y \in Nat : y = Len(Chars(sw.desc))
  BY BuiltStrings DEF FieldString
<1>3. PICK z \in Nat : z = Len(Chars(sw.url))
  BY BuiltStrings DEF FieldString
<1>4. /\ DescAt(sw, q) = q + 4 + x /\ UrlAt(sw, q) = q + 4 + x + 4 + y
      /\ CountAt(sw, q) = q + 4 + x + 4 + y + 4 + z
  BY <1>1, <1>2, <1>3, Zenon DEF DescAt, UrlAt, CountAt
<1> QED
  BY <1>4

(* The three strings that begin a record are read as they are, or a read   *)
(* before that of the number of dependencies fails.                        *)
StringsRead(sw, q, name, desc, url) ==
    /\ At(url, CountAt(sw, q))
    /\ name.val = Chars(sw.name) /\ desc.val = Chars(sw.desc) /\ url.val = Chars(sw.url)

(* The three strings of a record come back, or the file ends in one of     *)
(* them or in the number behind them.                                      *)
LEMMA StringsReturn ==
    ASSUME bytes \in Seq(Byte), NEW sw, Built(sw), NEW wbig \in BOOLEAN,
           NEW rbig \in BOOLEAN, NEW q \in 0..Len(bytes), StringsPlaced(sw, wbig, q),
           NEW s, At(s, q), NEW name, name = ReadString(s, NameLen, rbig),
           NEW desc, desc = ReadString(name, DescLen, rbig),
           NEW url, url = ReadString(desc, UrlLen, rbig)
    PROVE  IF CountAt(sw, q) <= Len(bytes) THEN StringsRead(sw, q, name, desc, url)
           ELSE ~(url.ok = TRUE) \/ url.eof = TRUE
<1>1. /\ FieldString(sw.name, NameLen) /\ FieldString(sw.desc, DescLen)
      /\ FieldString(sw.url, UrlLen)
  BY BuiltStrings
<1>2. PICK len \in Nat : len = Len(bytes)
  OBVIOUS
<1>3. q \in Nat
  BY <1>2
<1>4. PICK qd \in Nat : qd = DescAt(sw, q)
  BY <1>3, PlacesType
<1>5. PICK qu \in Nat : qu = UrlAt(sw, q)
  BY <1>3, PlacesType
<1>6. PICK qn \in Nat : qn = CountAt(sw, q)
  BY <1>3, PlacesType
<1>7. q < qd /\ qd < qu /\ qu < qn
  BY <1>3, <1>4, <1>5, <1>6, PlacesType
<1>8. IsStream(s) /\ IsStream(name) /\ IsStream(desc)
  BY AtIsStream, ReadStringType, FieldLengths
<1>9. /\ ~name.ok \/ name.eof => ~desc.ok
      /\ ~desc.ok \/ desc.eof => ~url.ok
  BY <1>8, ReadStringType, FieldLengths
<1>10. StringAs(name, q, Chars(sw.name))
  BY <1>1, ReadStringHolds, FieldLengths DEF FieldString, StringsPlaced
<1>11. IF qd <= len THEN At(name, qd) /\ name.val = Chars(sw.name)
       ELSE name.ok = TRUE => name.eof = TRUE
  BY <1>2, <1>4, <1>10 DEF StringAs, DescAt
<1>12. CASE ~(qd <= len)
  <2>1. ~name.ok \/ name.eof
    BY <1>8, <1>11, <1>12 DEF IsStream
  <2>2. ~(qn <= len)
    BY <1>7, <1>12
  <2> QED
    BY <1>2, <1>6, <1>9, <2>1, <2>2
<1>13. CASE qd <= len
  <2>1. At(name, qd) /\ name.val = Chars(sw.name) /\ qd \in 0..Len(bytes)
    BY <1>2, <1>11, <1>13
  <2>2. StringAs(desc, qd, Chars(sw.desc))
    BY <1>1, <1>4, <2>1, ReadStringHolds, FieldLengths DEF FieldString, StringsPlaced
  <2>3. IF qu <= len THEN At(desc, qu) /\ desc.val = Chars(sw.desc)
        ELSE desc.ok = TRUE => desc.eof = TRUE
    BY <1>2, <1>4, <1>5, <2>2 DEF StringAs, UrlAt
  <2>4. CASE ~(qu <= len)
    <3>1. ~desc.ok \/ desc.eof
      BY <1>8, <2>3, <2>4 DEF IsStream
    <3>2. ~(qn <= len)
      BY <1>7, <2>4
    <3> QED
      BY <1>2, <1>6, <1>9, <3>1, <3>2
  <2>5. CASE qu <= len
    <3>1. At(desc, qu) /\ desc.val = Chars(sw.desc) /\ qu \in 0..Len(bytes)
      BY <1>2, <2>3, <2>5
    <3>2. StringAs(url, qu, Chars(sw.url))
      BY <1>1, <1>5, <3>1, ReadStringHolds, FieldLengths DEF FieldString, StringsPlaced
    <3>3. IF qn <= len THEN At(url, qn) /\ url.val = Chars(sw.url)
          ELSE url.ok = TRUE => url.eof = TRUE
      BY <1>2, <1>5, <1>6, <3>2 DEF StringAs, CountAt
    <3> QED
      BY <1>2, <1>6, <2>1, <3>1, <3>3 DEF StringsRead
  <2> QED
    BY <2>4, <2>5
<1> QED
  BY <1>12, <1>13

(* All dependencies, the last one first, or all but a part of one.         *)
LEMMA TurnedIsReverse ==
    ASSUME NEW S, NEW ds \in Seq(S)
    PROVE  Turned(ds, Len(ds)) = Reverse(ds)
<1>1. PICK n \in Nat : n = Len(ds)
  OBVIOUS
<1>2. \A i \in 1..n : (n + 1) - i = (n - i) + 1
  OBVIOUS
<1> QED
  BY <1>1, <1>2 DEF Turned, Reverse

(* The tail of a sequence, position by position.                           *)
LEMMA TailIs ==
    ASSUME NEW S, NEW s \in Seq(S), s # << >>
    PROVE  Tail(s) = [i \in 1..(Len(s) - 1) |-> s[i + 1]]
<1>1. PICK u : u = Tail(s)
  OBVIOUS
<1>2. PICK m : m = Len(s) - 1
  OBVIOUS
<1>3. u \in Seq(S) /\ Len(u) = m /\ \A i \in 1..m : u[i] = s[i + 1]
  BY <1>1, <1>2, HeadTailProperties
<1>4. u = [i \in 1..m |-> u[i]]
  BY <1>3
<1> QED
  BY <1>1, <1>2, <1>3, <1>4

(* A list whose last dependency was torn is a shortened one.               *)
LEMMA TornIsShortened ==
    ASSUME NEW n \in Nat \ {0}, NEW ds \in [1..n -> [1..NameLen -> Byte]],
           FieldString(ds[n], NameLen), NEW j \in 0..Len(Chars(ds[n]))
    PROVE  Shortened(TurnedTorn(ds, n, j), Reverse(ds))
<1>1. PICK t : t = TurnedTorn(ds, n, j)
  OBVIOUS
<1>2. PICK r : r = Reverse(ds)
  OBVIOUS
<1>3. PICK last \in [1..NameLen -> Byte] : last = ds[n]
  OBVIOUS
<1>4. PICK x : x = Copy(SubSeq(Chars(last), 1, j), NameLen)
  OBVIOUS
<1>5. t = [i \in 1..n |-> IF i = 1 THEN x ELSE ds[(n + 1) - i]]
  BY <1>1, <1>3, <1>4 DEF TurnedTorn, TurnedWith
<1>6. r = [i \in 1..n |-> ds[(n + 1) - i]]
  <2>1. \A i \in 1..n : (n + 1) - i = (n - i) + 1
    OBVIOUS
  <2>2. Len(ds) = n
    OBVIOUS
  <2> QED
    BY <1>2, <2>1, <2>2 DEF Reverse
<1>7. PICK c \in Seq(Byte) : c = Chars(last) /\ Len(c) <= NameLen
  BY <1>3 DEF FieldString
<1>8. SubSeq(c, 1, j) = SubSeq(last, 1, j)
  <2>1. last \in Seq(Byte) /\ Len(last) = NameLen
    BY <1>3, FieldLengths
  <2>2. IsText(c, last)
    BY <1>7, <2>1, CharsText
  <2>3. \A i \in 1..Len(c) : c[i] = last[i]
    BY <2>2 DEF IsText
  <2>4. j \in Nat /\ j <= Len(c) /\ j <= Len(last)
    BY <1>3, <1>7, <2>1, FieldLengths
  <2>5. SubSeq(c, 1, j) = [i \in 1..j |-> c[i]] /\ SubSeq(last, 1, j) = [i \in 1..j |-> last[i]]
    BY <2>1, <2>4
  <2> QED
    BY <2>3, <2>4, <2>5
<1>9. Head(t) = x /\ Head(r) = last
  <2>1. 1 \in 1..n /\ (n + 1) - 1 = n
    OBVIOUS
  <2>2. t[1] = x /\ r[1] = last
    BY <1>3, <1>5, <1>6, <2>1
  <2> QED
    BY <2>2 DEF Head
<1>10. Len(t) = n /\ Len(r) = n
  BY <1>5, <1>6
<1>11. Tail(t) = Tail(r)
  <2>1. \A i \in 1..(n - 1) : i + 1 \in 1..n /\ i + 1 # 1
    OBVIOUS
  <2>2. \A i \in 1..(n - 1) : t[i + 1] = r[i + 1]
    BY <1>5, <1>6, <2>1
  <2>3. Tail(t) = [i \in 1..(n - 1) |-> t[i + 1]] /\ Tail(r) = [i \in 1..(n - 1) |-> r[i + 1]]
    <3>1. x \in [1..NameLen -> Byte]
      <4>1. SubSeq(c, 1, j) \in Seq(Byte)
        BY <1>3, <1>7
      <4> QED
        BY <1>4, <1>7, <4>1, CopyType, FieldLengths
    <3>2. \A i \in 1..n : (n + 1) - i \in 1..n
      OBVIOUS
    <3>3. /\ t \in [1..n -> [1..NameLen -> Byte]]
          /\ r \in [1..n -> [1..NameLen -> Byte]]
      BY <1>5, <1>6, <3>1, <3>2
    <3>4. t \in Seq([1..NameLen -> Byte]) /\ r \in Seq([1..NameLen -> Byte])
      BY <3>3
    <3>5. t # << >> /\ r # << >>
      BY <1>10
    <3> QED
      BY <1>10, <3>4, <3>5, TailIs
  <2> QED
    BY <2>2, <2>3
<1>12. j \in 0..NameLen
  BY <1>3, <1>7, FieldLengths
<1>13. Head(t) = Copy(SubSeq(Head(r), 1, j), NameLen)
  BY <1>4, <1>7, <1>8, <1>9
<1> QED
  BY <1>1, <1>2, <1>10, <1>11, <1>12, <1>13 DEF Shortened

(* What reading a record gives that the file holds from q to the place end. *)
Returned(r, sw, end) ==
    IF end <= Len(bytes) THEN r.ok = TRUE /\ At(r.stream, end) /\ Same(r.sw, sw)
    ELSE r.ok = TRUE => /\ r.stream.eof = TRUE
                        /\ r.sw.name = sw.name /\ r.sw.desc = sw.desc /\ r.sw.url = sw.url
                        /\ Shortened(r.sw.deps, Reverse(sw.deps))

(* The reader returns the record that the file holds: all of it, or        *)
(* without dependencies, or with a part of one, or it fails, and only a    *)
(* record that the file ends in is not whole.                              *)
LEMMA RecordReturns ==
    ASSUME bytes \in Seq(Byte), NEW sw, Built(sw), InWidth(Len(sw.deps), 2),
           NEW wbig \in BOOLEAN, NEW rbig \in BOOLEAN, NEW g \in Nat,
           NEW q \in 0..Len(bytes), Holds(q, Coded(sw, wbig)), NEW s, At(s, q)
    PROVE  Returned(ReadRecord(s, rbig, g), sw, q + Len(Coded(sw, wbig)))
<1>1. PICK len \in Nat : len = Len(bytes)
  OBVIOUS
<1>2. q \in Nat
  BY <1>1
<1>3. PICK n \in Nat : n = Len(sw.deps)
  BY DepCodesType
<1>4. PICK end : end = q + Len(Coded(sw, wbig))
  OBVIOUS
<1>5. StringsPlaced(sw, wbig, q)
  BY <1>2, RecordIsPlaced
<1>6. PICK pos : /\ DepsPlaced(sw.deps, n, wbig, pos) /\ pos[0] = CountAt(sw, q) + 2
                 /\ pos[n] = end
  BY <1>2, <1>3, <1>4, RecordIsPlaced
<1>7. PICK qn \in Nat : qn = CountAt(sw, q)
  BY <1>2, PlacesType
<1>8. /\ \A i \in 1..n : FieldString(sw.deps[i], NameLen)
      /\ FieldString(sw.name, NameLen) /\ FieldString(sw.desc, DescLen)
      /\ FieldString(sw.url, UrlLen)
  BY <1>3, BuiltStrings
<1>9. end \in Nat /\ end >= (qn + 2) + n
  <2>1. \A k \in 0..n : pos[k] >= pos[0] + k
    <3>1. \A i \in 1..n : Len(Chars(sw.deps[i])) \in Nat
      BY <1>8 DEF FieldString
    <3> QED
      BY <1>6, <3>1, PlacesGrow
  <2>2. n \in 0..n /\ pos[n] \in Nat
    BY <1>6 DEF DepsPlaced
  <2> QED
    BY <1>6, <1>7, <2>1, <2>2
<1>10. sw.deps \in [1..n -> [1..NameLen -> Byte]]
  <2>1. sw.deps \in Seq(Seq(Byte))
    BY DEF Built
  <2>2. \A i \in 1..n : sw.deps[i] \in [1..NameLen -> Byte]
    BY <1>8 DEF FieldString
  <2> QED
    BY <1>3, <2>1, <2>2
<1>11. PICK name, desc, url, num, deps :
          /\ IsParse(s, rbig, g, name, desc, url, num, deps)
          /\ ParseTypes(name, desc, url, num, deps)
          /\ ReadRecord(s, rbig, g) = Parsed(name, desc, url, num, deps)
  BY AtIsStream, RecordIsParsed
<1>12. PICK r : r = ReadRecord(s, rbig, g)
  OBVIOUS
<1>13. IF qn <= len THEN StringsRead(sw, q, name, desc, url)
       ELSE ~(url.ok = TRUE) \/ url.eof = TRUE
  BY <1>1, <1>5, <1>7, <1>11, StringsReturn DEF IsParse
<1>14. num \in Results(Nat) /\ IsStream(num) /\ IsStream(url) /\ DepsType(deps)
  BY <1>11 DEF ParseTypes, Results, IsStream
<1>15. CASE ~(qn <= len)
  <2>1. ~url.ok \/ url.eof
    BY <1>13, <1>14, <1>15 DEF IsStream
  <2>2. Read(url, 2) = Broken
    BY <1>14, <2>1, ReadType, 2 \in Nat
  <2>3. num.ok = FALSE
    <3>1. num.ok = Read(url, 2).ok
      BY <1>11, <1>14, ReadNumberType, 2 \in {2, 4} DEF IsParse
    <3> QED
      BY <2>2, <3>1 DEF Broken
  <2>4. r.ok = FALSE
    BY <1>11, <1>12, <2>3 DEF Parsed
  <2>5. ~(end <= len)
    BY <1>9, <1>15
  <2> QED
    BY <1>1, <1>4, <1>12, <2>4, <2>5 DEF Returned
<1>16. CASE qn <= len
  <2>1. /\ At(url, qn) /\ name.val = Chars(sw.name) /\ desc.val = Chars(sw.desc)
        /\ url.val = Chars(sw.url)
    BY <1>7, <1>13, <1>16 DEF StringsRead
  <2>2. /\ Copy(name.val, NameLen) = sw.name /\ Copy(desc.val, DescLen) = sw.desc
        /\ Copy(url.val, UrlLen) = sw.url
    BY <1>8, <2>1 DEF FieldString
  <2>3. NumberAs(num, qn, 2, n, g)
    <3>1. qn \in 0..Len(bytes)
      BY <1>1, <1>16
    <3>2. Holds(qn, NumberBytes(n, 2, wbig)) /\ InWidth(n, 2)
      BY <1>3, <1>5, <1>7 DEF StringsPlaced
    <3>3. num = ReadNumber(url, 2, rbig, g)
      BY <1>11 DEF IsParse
    <3> QED
      BY <2>1, <3>1, <3>2, <3>3, ReadNumberHolds, 2 \in {2, 4}
  <2>4. deps = ReadDeps(num, num.val, rbig)
    BY <1>11 DEF IsParse
  <2>5. r = IF ~num.ok \/ ~deps.s.ok THEN [ok |-> FALSE]
            ELSE [ok |-> TRUE,
                  stream |-> [ok |-> TRUE, eof |-> deps.s.eof, pos |-> deps.s.pos,
                              val |-> << >>],
                  sw |-> [name |-> sw.name, desc |-> sw.desc, url |-> sw.url,
                          deps |-> deps.deps]]
    BY <1>11, <1>12, <2>2 DEF Parsed
  <2>6. num.ok = TRUE
    BY <2>3 DEF NumberAs, At
  <2>7. deps.s.ok \in BOOLEAN
    BY <1>14 DEF DepsType, IsStream
  <2>8. CASE deps.s.ok = FALSE
    <3>1. r.ok = FALSE
      BY <2>5, <2>8
    <3>2. ~(end <= len)
      <4>1. SUFFICES ASSUME end <= len PROVE FALSE
        OBVIOUS
      <4>2. qn + 2 <= len /\ qn + 2 \in 1..Len(bytes)
        BY <1>1, <1>9, <4>1
      <4>3. At(num, qn + 2) /\ num.val = n
        BY <1>1, <2>3, <4>2 DEF NumberAs
      <4>4. DepsRead(deps, sw.deps, n, pos)
        BY <1>6, <1>7, <1>8, <1>10, <2>4, <4>2, <4>3, LoopReads
      <4> QED
        BY <1>1, <1>6, <2>8, <4>1, <4>4 DEF DepsRead, At
    <3> QED
      BY <1>1, <1>4, <1>12, <3>1, <3>2 DEF Returned
  <2>9. CASE deps.s.ok = TRUE
    <3>1. /\ r.ok = TRUE
          /\ r.stream = [ok |-> TRUE, eof |-> deps.s.eof, pos |-> deps.s.pos, val |-> << >>]
          /\ r.sw = [name |-> sw.name, desc |-> sw.desc, url |-> sw.url, deps |-> deps.deps]
      BY <2>5, <2>6, <2>9
    <3>2. /\ r.stream.ok = TRUE /\ r.stream.eof = deps.s.eof /\ r.stream.pos = deps.s.pos
          /\ r.sw.name = sw.name /\ r.sw.desc = sw.desc /\ r.sw.url = sw.url
          /\ r.sw.deps = deps.deps
      BY <3>1
    <3>3. CASE qn + 2 <= len
      <4>1. qn + 2 \in 1..Len(bytes)
        BY <1>1, <3>3
      <4>2. At(num, qn + 2) /\ num.val = n
        BY <1>1, <2>3, <3>3 DEF NumberAs
      <4>3. DepsRead(deps, sw.deps, n, pos)
        BY <1>6, <1>7, <1>8, <1>10, <2>4, <4>1, <4>2, LoopReads
      <4>4. CASE end <= len
        <5>1. At(deps.s, end) /\ deps.deps = Turned(sw.deps, n)
          BY <1>1, <1>6, <4>3, <4>4 DEF DepsRead
        <5>2. deps.deps = Reverse(sw.deps)
          <6>1. sw.deps \in Seq([1..NameLen -> Byte])
            BY <1>10
          <6> QED
            BY <1>3, <5>1, <6>1, TurnedIsReverse
        <5>3. Same(r.sw, sw) /\ At(r.stream, end)
          BY <3>2, <5>1, <5>2 DEF Same, At
        <5> QED
          BY <1>1, <1>4, <1>12, <3>1, <4>4, <5>3 DEF Returned
      <4>5. CASE ~(end <= len)
        <5>1. /\ deps.s.eof = TRUE /\ n > 0
              /\ \E j \in 0..Len(Chars(sw.deps[n])) : deps.deps = TurnedTorn(sw.deps, n, j)
          BY <1>1, <1>6, <2>9, <4>3, <4>5 DEF DepsRead
        <5>2. n \in Nat \ {0} /\ FieldString(sw.deps[n], NameLen)
          BY <1>8, <5>1
        <5>3. Shortened(deps.deps, Reverse(sw.deps))
          BY <1>10, <5>1, <5>2, TornIsShortened
        <5> QED
          BY <1>1, <1>4, <1>12, <3>2, <4>5, <5>1, <5>3 DEF Returned
      <4> QED
        BY <4>4, <4>5
    <3>4. CASE ~(qn + 2 <= len)
      <4>1. num.eof = TRUE
        BY <1>1, <2>3, <3>4 DEF NumberAs
      <4>2. num.val \in Nat
        BY <1>14 DEF Results
      <4>3. deps.s.eof = TRUE /\ deps.deps = << >>
        BY <1>14, <2>4, <2>9, <4>1, <4>2, LoopStops
      <4>4. Shortened(deps.deps, Reverse(sw.deps))
        BY <4>3 DEF Shortened
      <4>5. ~(end <= len)
        BY <1>9, <3>4
      <4> QED
        BY <1>1, <1>4, <1>12, <3>2, <4>3, <4>4, <4>5 DEF Returned
    <3> QED
      BY <3>3, <3>4
  <2> QED
    BY <2>7, <2>8, <2>9
<1> QED
  BY <1>15, <1>16

-----------------------------------------------------------------------------
(* Types.  Any record is made of bytes.                                    *)
LEMMA RecordType ==
    ASSUME NEW sw, Built(sw), NEW big \in BOOLEAN, NEW b \in Seq(Byte)
    PROVE  Record(sw, big, b) \in Seq(Byte)
<1>1. PICK head \in Seq(Byte) : head = ListHead(sw, big)
  BY HeadType
<1>2. PICK f \in Seq(Byte) : f = sw.name
  BY FilledText, FieldLengths DEF Built
<1>3. PICK d \in Seq(Byte) : d = sw.desc
  BY FilledText, FieldLengths DEF Built
<1>4. PICK u \in Seq(Byte) : u = sw.url
  BY FilledText, FieldLengths DEF Built
<1>5. PICK n \in Nat : n = Len(sw.deps) /\ DOMAIN sw.deps = 1..n
  <2>1. sw.deps \in Seq(Seq(Byte))
    BY DEF Built
  <2> QED
    BY <2>1
<1>6. PICK s1 \in Seq(Byte) : s1 = StringBytes(f \o d \o u \o head, big)
  <2>1. f \o d \o u \o head \in Seq(Byte)
    BY ConcatProperties
  <2> QED
    BY <2>1, StringIsCode
<1>7. PICK s2 \in Seq(Byte) : s2 = StringBytes(d \o u \o head, big)
  <2>1. d \o u \o head \in Seq(Byte)
    BY ConcatProperties
  <2> QED
    BY <2>1, StringIsCode
<1>8. PICK s3 \in Seq(Byte) : s3 = StringBytes(u \o head, big)
  <2>1. u \o head \in Seq(Byte)
    BY ConcatProperties
  <2> QED
    BY <2>1, StringIsCode
<1>9. PICK s4 \in Seq(Byte) : s4 = NumberBytes(n % DepsWidth, 2, big)
  <2>1. PICK k : k = n % DepsWidth
    OBVIOUS
  <2>2. k \in Nat
    <3>1. DepsWidth \in Nat \ {0}
      BY LengthsAssumption
    <3> QED
      BY <2>1, <3>1
  <2>3. NumberBytes(k, 2, big) \in Seq(Byte)
    BY <2>2, CountType
  <2> QED
    BY <2>1, <2>3
<1>10. PICK codes : codes = [i \in 1..n |-> StringBytes(sw.deps[i] \o b, big)]
  OBVIOUS
<1>11. codes \in [1..n -> Seq(Byte)]
  <2>1. ASSUME NEW i \in 1..n PROVE StringBytes(sw.deps[i] \o b, big) \in Seq(Byte)
    <3>1. sw.deps[i] \in Seq(Byte)
      BY <1>5, FilledText, FieldLengths DEF Built
    <3>2. sw.deps[i] \o b \in Seq(Byte)
      BY <3>1, ConcatProperties
    <3> QED
      BY <3>2, StringIsCode
  <2> QED
    BY <1>10, <2>1
<1>12. PICK s5 \in Seq(Byte) : s5 = FlattenSeq(codes)
  <2>1. PICK P \in [0..n -> Seq(Byte)] : IsParts(P, codes, n)
    BY <1>11, PartsExist
  <2>2. FlattenSeq(codes) = P[n]
    BY <1>11, <2>1, FlattenIsLastPart
  <2>3. P[n] \in Seq(Byte)
    OBVIOUS
  <2> QED
    BY <2>2, <2>3
<1>13. Record(sw, big, b) = s1 \o s2 \o s3 \o s4 \o s5
  BY <1>1, <1>2, <1>3, <1>4, <1>5, <1>6, <1>7, <1>8, <1>9, <1>10, <1>12, Zenon DEF Record
<1> QED
  BY <1>13, ConcatProperties

ReadStructs ==
    [name : [1..NameLen -> Byte], desc : [1..DescLen -> Byte], url : [1..UrlLen -> Byte],
     deps : Seq([1..NameLen -> Byte])]

(* What the reader makes of any bytes has the shape of a struct.           *)
LEMMA ReadRecordType ==
    ASSUME bytes \in Seq(Byte), NEW s, IsStream(s), NEW big \in BOOLEAN, NEW g \in Nat,
           NEW r, r = ReadRecord(s, big, g)
    PROVE  /\ r.ok \in BOOLEAN
           /\ r.ok => r.stream.ok = TRUE /\ IsStream(r.stream) /\ r.sw \in ReadStructs
<1>1. PICK name, desc, url, num, deps :
          /\ ParseTypes(name, desc, url, num, deps)
          /\ r = Parsed(name, desc, url, num, deps)
  BY RecordIsParsed
<1>2. CASE ~num.ok \/ ~deps.s.ok
  <2>1. r = [ok |-> FALSE]
    BY <1>1, <1>2 DEF Parsed
  <2> QED
    BY <2>1
<1>3. CASE ~(~num.ok \/ ~deps.s.ok)
  <2>1. /\ name.val \in Seq(Byte) /\ desc.val \in Seq(Byte) /\ url.val \in Seq(Byte)
        /\ DepsType(deps)
    BY <1>1 DEF ParseTypes, Results
  <2>2. PICK x : x = Copy(name.val, NameLen)
    OBVIOUS
  <2>3. PICK y : y = Copy(desc.val, DescLen)
    OBVIOUS
  <2>4. PICK z : z = Copy(url.val, UrlLen)
    OBVIOUS
  <2>5. /\ x \in [1..NameLen -> Byte] /\ y \in [1..DescLen -> Byte]
        /\ z \in [1..UrlLen -> Byte]
    BY <2>1, <2>2, <2>3, <2>4, CopyType, FieldLengths
  <2>6. r = [ok |-> TRUE,
             stream |-> [ok |-> TRUE, eof |-> deps.s.eof, pos |-> deps.s.pos, val |-> << >>],
             sw |-> [name |-> x, desc |-> y, url |-> z, deps |-> deps.deps]]
    BY <1>1, <1>3, <2>2, <2>3, <2>4 DEF Parsed
  <2>7. /\ r.ok = TRUE /\ r.stream.ok = TRUE /\ r.stream.eof = deps.s.eof
        /\ r.stream.pos = deps.s.pos
        /\ r.sw = [name |-> x, desc |-> y, url |-> z, deps |-> deps.deps]
    BY <2>6
  <2>8. IsStream(r.stream)
    BY <2>1, <2>7 DEF DepsType, IsStream
  <2>9. r.sw \in ReadStructs
    BY <2>1, <2>5, <2>7 DEF DepsType, ReadStructs
  <2> QED
    BY <2>7, <2>8, <2>9
<1> QED
  BY <1>2, <1>3

Structs == {Struct(arg) : arg \in Arguments}

Types ==
    /\ phase \in {"write", "read", "done", "failed"}
    /\ bigEndian \in [{"writer", "reader"} -> BOOLEAN]
    /\ whole \in BOOLEAN
    /\ bytes \in Seq(Byte)
    /\ written \in Seq(Structs) /\ Len(written) <= MaxRecords
    /\ got \in Seq(ReadStructs) /\ Len(got) <= Len(written)
    /\ stream.ok = TRUE /\ IsStream(stream)
    /\ phase = "write" => /\ whole = TRUE /\ got = << >>
                          /\ stream.eof = FALSE /\ stream.pos = 0

(* The types hold at first.                                                *)
LEMMA InitTypes == ASSUME Init PROVE Types
<1>1. /\ bytes \in Seq(Byte) /\ Len(bytes) = 0 /\ written \in Seq(Structs)
      /\ Len(written) = 0 /\ got \in Seq(ReadStructs) /\ Len(got) = 0
  BY DEF Init
<1>2. stream.ok = TRUE /\ stream.eof = FALSE /\ stream.pos = 0
  BY DEF Init
<1>3. IsStream(stream)
  <2>1. 0 \in 0..Len(bytes)
    BY <1>1
  <2> QED
    BY <1>2, <2>1, AtIsStream DEF At
<1>4. Len(written) <= MaxRecords /\ Len(got) <= Len(written)
  BY <1>1, LengthsAssumption
<1> QED
  BY <1>1, <1>2, <1>3, <1>4 DEF Init, Types

(* What lies behind a block consists of bytes.                             *)
LEMMA BytesOfBehind == \A b \in Behind : b \in Seq(Byte)
  BY StringsAssumption DEF Byte

(* What the turns of both loops do.                                        *)
WriteOne(sw, b) ==
    /\ phase = "write" /\ Len(written) < MaxRecords
    /\ written' = Append(written, sw)
    /\ bytes' = bytes \o Record(sw, bigEndian["writer"], b)
    /\ UNCHANGED <<phase, bigEndian, whole, stream, got>>

(* Each turn of the writer keeps the types.                                *)
LEMMA WriteType ==
    ASSUME Types, NEW sw \in Structs, NEW b \in Behind, WriteOne(sw, b)
    PROVE  Types'
<1>1. Built(sw)
  BY StructBuilt DEF Structs
<1>2. PICK rec \in Seq(Byte) : rec = Record(sw, bigEndian["writer"], b)
  <2>1. bigEndian["writer"] \in BOOLEAN
    BY DEF Types
  <2> QED
    BY <1>1, <2>1, BytesOfBehind, RecordType
<1>3. bytes' \in Seq(Byte) /\ Len(bytes') \in Nat
  <2>1. bytes \in Seq(Byte) /\ bytes' = bytes \o rec
    BY <1>2 DEF Types, WriteOne
  <2>2. bytes' \in Seq(Byte)
    BY <2>1, ConcatProperties
  <2> QED
    BY <2>2
<1>4. /\ written' \in Seq(Structs) /\ Len(written') = Len(written) + 1
      /\ Len(written) \in Nat
  <2>1. written \in Seq(Structs) /\ written' = Append(written, sw)
    BY DEF Types, WriteOne
  <2> QED
    BY <2>1, AppendProperties
<1>5. Len(written') <= MaxRecords
  <2>1. MaxRecords \in Nat /\ Len(written) < MaxRecords
    BY LengthsAssumption DEF WriteOne
  <2> QED
    BY <1>4, <2>1
<1>6. /\ phase' = "write" /\ whole' = TRUE /\ got' = << >> /\ stream' = stream
      /\ stream.ok = TRUE /\ stream.eof = FALSE /\ stream.pos = 0 /\ bigEndian' = bigEndian
  BY DEF Types, WriteOne
<1>7. (IsStream(stream))'
  <2>1. 0 \in 0..Len(bytes')
    BY <1>3
  <2> QED
    BY <1>6, <2>1, Zenon DEF IsStream
<1>8. got' \in Seq(ReadStructs) /\ Len(got') <= Len(written')
  BY <1>4, <1>6
<1> QED
  BY <1>3, <1>4, <1>5, <1>6, <1>7, <1>8 DEF Types

(* So does the rewind(), wherever the file is cut.                         *)
LEMMA RewindType == ASSUME Types, Rewind PROVE Types'
<1>1. bytes' \in Seq(Byte)
  <2>1. CASE bytes' = bytes
    BY <2>1 DEF Types
  <2>2. CASE \E n \in 1..Len(bytes) : bytes' = SubSeq(bytes, 1, n - 1)
    <3>1. PICK n \in 1..Len(bytes) : bytes' = SubSeq(bytes, 1, n - 1)
      BY <2>2
    <3>2. bytes \in Seq(Byte)
      BY DEF Types
    <3> QED
      BY <3>1, <3>2
  <2> QED
    BY <2>1, <2>2 DEF Rewind
<1>2. whole' \in BOOLEAN
  BY DEF Types, Rewind
<1>3. /\ phase' = "read" /\ got' = << >> /\ stream' = stream /\ stream.ok = TRUE
      /\ stream.eof = FALSE /\ stream.pos = 0
      /\ UNCHANGED <<bigEndian, written>>
  BY DEF Types, Rewind
<1>4. (IsStream(stream))'
  <2>1. 0 \in 0..Len(bytes')
    BY <1>1
  <2> QED
    BY <1>3, <2>1, Zenon DEF IsStream
<1>5. got' \in Seq(ReadStructs) /\ Len(got') <= Len(written')
  BY <1>3 DEF Types
<1> QED
  BY <1>1, <1>2, <1>3, <1>4, <1>5 DEF Types

(* The turn of the reader that takes a record.                             *)
ReadOne(r) ==
    /\ phase = "read" /\ Len(got) < Len(written) /\ ~stream.eof
    /\ \E g \in Garbage : r = ReadRecord(stream, bigEndian["reader"], g)
    /\ r.ok
    /\ got' = Append(got, r.sw) /\ stream' = r.stream
    /\ UNCHANGED <<phase, bigEndian, written, bytes, whole>>

(* The one that fails, and the end of the loop.                            *)
ReadFails(r) ==
    /\ phase = "read" /\ Len(got) < Len(written) /\ ~stream.eof
    /\ \E g \in Garbage : r = ReadRecord(stream, bigEndian["reader"], g)
    /\ ~r.ok /\ phase' = "failed"
    /\ UNCHANGED <<got, stream, bigEndian, written, bytes, whole>>

ReadEnds ==
    /\ phase = "read" /\ ~(Len(got) < Len(written) /\ ~stream.eof) /\ phase' = "done"
    /\ UNCHANGED <<got, stream, bigEndian, written, bytes, whole>>

(* The cases of a step.                                                    *)
LEMMA NextCases ==
    ASSUME Next
    PROVE  \/ \E sw \in Structs, b \in Behind : WriteOne(sw, b)
           \/ Rewind
           \/ \E r : ReadOne(r)
           \/ \E r : ReadFails(r)
           \/ ReadEnds
<1>1. CASE Write
  <2>1. PICK arg \in Arguments, b \in Behind :
           /\ written' = Append(written, Struct(arg))
           /\ bytes' = bytes \o Record(Struct(arg), bigEndian["writer"], b)
    BY <1>1 DEF Write
  <2>2. Struct(arg) \in Structs
    BY DEF Structs
  <2>3. WriteOne(Struct(arg), b)
    BY <1>1, <2>1 DEF Write, WriteOne
  <2> QED
    BY <2>2, <2>3
<1>2. CASE Rewind
  BY <1>2
<1>3. CASE ReadNext
  <2>1. CASE Len(got) < Len(written) /\ ~stream.eof
    <3>1. PICK g \in Garbage :
             IF ReadRecord(stream, bigEndian["reader"], g).ok
             THEN /\ got' = Append(got, ReadRecord(stream, bigEndian["reader"], g).sw)
                  /\ stream' = ReadRecord(stream, bigEndian["reader"], g).stream
                  /\ UNCHANGED phase
             ELSE phase' = "failed" /\ UNCHANGED <<got, stream>>
      BY <1>3, <2>1, Zenon DEF ReadNext
    <3>2. PICK r : r = ReadRecord(stream, bigEndian["reader"], g)
      OBVIOUS
    <3>3. phase = "read" /\ UNCHANGED <<bigEndian, written, bytes, whole>>
      BY <1>3 DEF ReadNext
    <3>4. CASE r.ok
      <4>1. ReadOne(r)
        BY <2>1, <3>1, <3>2, <3>3, <3>4 DEF ReadOne
      <4> QED
        BY <4>1
    <3>5. CASE ~r.ok
      <4>1. ReadFails(r)
        BY <2>1, <3>1, <3>2, <3>3, <3>5 DEF ReadFails
      <4> QED
        BY <4>1
    <3> QED
      BY <3>4, <3>5
  <2>2. CASE ~(Len(got) < Len(written) /\ ~stream.eof)
    <3>1. ReadEnds
      BY <1>3, <2>2 DEF ReadNext, ReadEnds
    <3> QED
      BY <3>1
  <2> QED
    BY <2>1, <2>2
<1> QED
  BY <1>1, <1>2, <1>3 DEF Next

(* A record that is taken has the shape of a struct.                       *)
LEMMA ReadOneType == ASSUME Types, NEW r, ReadOne(r) PROVE Types'
<1>1. PICK g \in Nat : r = ReadRecord(stream, bigEndian["reader"], g)
  BY LengthsAssumption DEF ReadOne
<1>2. bytes \in Seq(Byte) /\ bigEndian["reader"] \in BOOLEAN /\ IsStream(stream) /\ r.ok
  BY DEF Types, ReadOne
<1>3. r.stream.ok = TRUE /\ IsStream(r.stream) /\ r.sw \in ReadStructs
  BY <1>1, <1>2, ReadRecordType
<1>4. got \in Seq(ReadStructs) /\ got' = Append(got, r.sw)
  BY DEF Types, ReadOne
<1>5. got' \in Seq(ReadStructs) /\ Len(got') = Len(got) + 1 /\ Len(got) \in Nat
  BY <1>3, <1>4, AppendProperties
<1>6. /\ phase' = "read" /\ stream' = r.stream
      /\ UNCHANGED <<bigEndian, written, bytes, whole>> /\ Len(got) < Len(written)
  BY DEF ReadOne
<1>7. Len(got') <= Len(written')
  <2>1. Len(written) \in Nat
    BY DEF Types
  <2> QED
    BY <1>5, <1>6, <2>1
<1>8. stream'.ok = TRUE /\ (IsStream(stream))'
  BY <1>3, <1>6, Zenon DEF IsStream
<1> QED
  BY <1>5, <1>6, <1>7, <1>8 DEF Types

(* The end of the load changes nothing else.                               *)
LEMMA ReadStopsType ==
    ASSUME Types, ReadEnds \/ \E r : ReadFails(r)
    PROVE  Types'
<1>1. phase' \in {"done", "failed"} /\ UNCHANGED <<got, stream, bigEndian, written, bytes, whole>>
  BY DEF ReadEnds, ReadFails
<1>2. (IsStream(stream))'
  BY <1>1, Zenon DEF IsStream, Types
<1> QED
  BY <1>1, <1>2 DEF Types

(* Every step keeps the types.                                             *)
LEMMA NextTypes == ASSUME Types, [Next]_vars PROVE Types'
<1>1. CASE Next
  BY <1>1, NextCases, WriteType, RewindType, ReadOneType, ReadStopsType
<1>2. CASE UNCHANGED vars
  BY <1>2, Zenon DEF vars, Types, IsStream
<1> QED
  BY <1>1, <1>2

(* So they hold always.                                                    *)
LEMMA AlwaysTypes == Spec => []Types
<1>1. Init => Types
  BY InitTypes
<1>2. Types /\ [Next]_vars => Types'
  BY NextTypes
<1> QED
  BY <1>1, <1>2, PTL DEF Spec

(* The types of the file and of the structs: whatever bytes are read, each *)
(* record that comes out of them fills the fields of a struct and no more, *)
(* and the reader never goes beyond the end of the file.                   *)
THEOREM TypeCorrect == Spec => []TypeOK
<1>1. ASSUME Types PROVE TypeOK
  <2>1. \A i \in DOMAIN bytes : bytes[i] \in 0..255
    <3>1. bytes \in Seq(Byte)
      BY <1>1 DEF Types
    <3>2. \A i \in DOMAIN bytes : bytes[i] \in Byte
      BY <3>1
    <3> QED
      BY <3>2, Zenon DEF Byte
  <2>2. ASSUME NEW i \in DOMAIN written
        PROVE  /\ written[i].name \in [1..NameLen -> 0..255]
               /\ written[i].desc \in [1..DescLen -> 0..255]
               /\ written[i].url \in [1..UrlLen -> 0..255]
               /\ \A j \in DOMAIN written[i].deps : written[i].deps[j] \in [1..NameLen -> 0..255]
    <3>1. PICK sw \in Structs : sw = written[i]
      BY <1>1, <2>2 DEF Types
    <3>2. Built(sw)
      BY StructBuilt DEF Structs
    <3>3. /\ sw.name \in [1..NameLen -> Byte] /\ sw.desc \in [1..DescLen -> Byte]
          /\ sw.url \in [1..UrlLen -> Byte]
      BY <3>2, BuiltStrings DEF FieldString
    <3>4. \A j \in DOMAIN sw.deps : sw.deps[j] \in [1..NameLen -> Byte]
      <4>1. DOMAIN sw.deps = 1..Len(sw.deps)
        <5>1. sw.deps \in Seq(Seq(Byte))
          BY <3>2 DEF Built
        <5> QED
          BY <5>1
      <4> QED
        BY <3>2, <4>1, BuiltStrings DEF FieldString
    <3> QED
      BY <3>1, <3>3, <3>4, Zenon DEF Byte
  <2>3. ASSUME NEW i \in DOMAIN got
        PROVE  /\ got[i].name \in [1..NameLen -> 0..255]
               /\ got[i].desc \in [1..DescLen -> 0..255]
               /\ got[i].url \in [1..UrlLen -> 0..255]
               /\ \A j \in DOMAIN got[i].deps : got[i].deps[j] \in [1..NameLen -> 0..255]
    <3>1. PICK sw \in ReadStructs : sw = got[i]
      BY <1>1, <2>3 DEF Types
    <3>2. /\ sw.name \in [1..NameLen -> Byte] /\ sw.desc \in [1..DescLen -> Byte]
          /\ sw.url \in [1..UrlLen -> Byte] /\ sw.deps \in Seq([1..NameLen -> Byte])
      BY DEF ReadStructs
    <3>3. \A j \in DOMAIN sw.deps : sw.deps[j] \in [1..NameLen -> Byte]
      BY <3>2
    <3> QED
      BY <3>1, <3>2, <3>3, Zenon DEF Byte
  <2> QED
    BY <1>1, <2>1, <2>2, <2>3, Zenon DEF TypeOK, Types, IsStream
<1>2. []Types => []TypeOK
  BY <1>1, PTL
<1> QED
  BY <1>2, AlwaysTypes, PTL

-----------------------------------------------------------------------------
(* The inductive invariant.  P[i] is what was written of the first i       *)
(* records; the file begins as all of it does, and is all of it unless it  *)
(* was cut.                                                                *)
Layout(seqs, P) ==
    /\ seqs \in [1..Len(written) -> Seq(Byte)]
    /\ P \in [0..Len(written) -> Seq(Byte)] /\ IsParts(P, seqs, Len(written))
    /\ \A i \in 1..Len(written) : \E b \in Behind :
          seqs[i] = Record(written[i], bigEndian["writer"], b)
    /\ Len(bytes) <= Len(P[Len(written)])
    /\ \A i \in 1..Len(bytes) : bytes[i] = P[Len(written)][i]
    /\ whole => bytes = P[Len(written)]

(* As long as all records fit, the reader is where one of them ends, and   *)
(* from a file that was not cut it takes all of them.                      *)
Upto(k) == \A j \in 1..k : Fits(written[j])

Progress(P) ==
    /\ ~stream.eof /\ Upto(Len(got)) => stream.pos = Len(P[Len(got)])
    /\ whole /\ Upto(Len(got)) => ~stream.eof
    /\ whole /\ phase \in {"done", "failed"} =>
          \A i \in 1..Len(written) : Upto(i) => i <= Len(got)

(* What was read is what was written, or has lost what was cut off.        *)
Lost(i) ==
    /\ ~whole /\ i = Len(got) /\ stream.eof
    /\ Same([got[i] EXCEPT !.deps = Reverse(written[i].deps)], written[i])
    /\ Shortened(got[i].deps, Reverse(written[i].deps))

Kept == \A i \in 1..Len(got) : Upto(i) => Same(got[i], written[i]) \/ Lost(i)

Laid == \E seqs, P : Layout(seqs, P) /\ Progress(P)

(* What was written are structs of `ezi add'.                              *)
LEMMA WrittenBuilt ==
    ASSUME Types, NEW i \in 1..Len(written)
    PROVE  Built(written[i])
<1>1. PICK sw \in Structs : sw = written[i]
  BY DEF Types
<1> QED
  BY <1>1, StructBuilt DEF Structs

(* One more sequence makes one more part.                                  *)
Longer(next, Q, seqs, P, n, t) ==
    /\ next = [i \in 1..(n + 1) |-> IF i = n + 1 THEN t ELSE seqs[i]]
    /\ Q = [i \in 0..(n + 1) |-> IF i = n + 1 THEN P[n] \o t ELSE P[i]]

(* A record more makes the file longer by one part.                        *)
LEMMA OneMorePart ==
    ASSUME NEW S, NEW n \in Nat, NEW seqs \in [1..n -> Seq(S)],
           NEW P \in [0..n -> Seq(S)], IsParts(P, seqs, n), NEW t \in Seq(S),
           NEW m, m = n + 1,
           NEW next, NEW Q, Longer(next, Q, seqs, P, n, t)
    PROVE  /\ next \in [1..m -> Seq(S)] /\ Q \in [0..m -> Seq(S)] /\ IsParts(Q, next, m)
           /\ Q[0] = P[0] /\ Q[m] = P[n] \o t
<1>1. PICK u : u = P[n] \o t
  OBVIOUS
<1>2. u \in Seq(S)
  <2>1. P[n] \in Seq(S)
    BY n \in 0..n
  <2> QED
    BY <1>1, <2>1, ConcatProperties
<1>3. /\ \A i \in 1..m : i = m \/ i \in 1..n
      /\ \A i \in 0..m : i = m \/ i \in 0..n
      /\ 0 \in 0..m /\ 0 # m /\ m \in 0..m /\ m \in 1..m /\ m - 1 = n /\ n # m
  OBVIOUS
<1>9. /\ next = [i \in 1..m |-> IF i = m THEN t ELSE seqs[i]]
      /\ Q = [i \in 0..m |-> IF i = m THEN P[n] \o t ELSE P[i]]
  BY DEF Longer
<1>4. next \in [1..m -> Seq(S)]
  BY <1>3, <1>9
<1>5. Q \in [0..m -> Seq(S)]
  BY <1>1, <1>2, <1>3, <1>9
<1>6. Q[0] = P[0] /\ Q[m] = P[n] \o t
  BY <1>3, <1>9
<1>7. ASSUME NEW i \in 1..m PROVE Q[i] = Q[i - 1] \o next[i]
  <2>1. CASE i = m
    <3>1. Q[n] = P[n] /\ next[m] = t
      BY <1>3, <1>9, n \in 0..m
    <3> QED
      BY <1>3, <1>6, <2>1, <3>1
  <2>2. CASE i # m
    <3>1. i \in 1..n /\ i - 1 \in 0..m /\ i - 1 # m /\ i \in 0..m
      BY <2>2
    <3>2. Q[i] = P[i] /\ Q[i - 1] = P[i - 1] /\ next[i] = seqs[i]
      BY <1>9, <2>2, <3>1
    <3> QED
      BY <3>1, <3>2 DEF IsParts
  <2> QED
    BY <2>1, <2>2
<1>8. IsParts(Q, next, m)
  <2>1. DOMAIN Q = 0..m /\ P[0] = << >>
    BY <1>9 DEF IsParts
  <2> QED
    BY <1>6, <1>7, <2>1 DEF IsParts
<1> QED
  BY <1>4, <1>5, <1>6, <1>8

(* An empty file is laid out as no records.                                *)
LEMMA InitLaid == ASSUME Init PROVE Laid
<1>1. PICK seqs : seqs = [i \in 1..0 |-> << >>]
  OBVIOUS
<1>2. PICK P : P = [i \in 0..0 |-> << >>]
  OBVIOUS
<1>3. /\ seqs \in [1..0 -> Seq(Byte)] /\ P \in [0..0 -> Seq(Byte)] /\ P[0] = << >>
      /\ IsParts(P, seqs, 0)
  BY <1>1, <1>2 DEF IsParts
<1>4. Len(written) = 0 /\ Len(got) = 0 /\ bytes = << >> /\ Len(bytes) = 0
  BY DEF Init
<1>5. Layout(seqs, P)
  BY <1>3, <1>4 DEF Layout
<1>6. stream.pos = 0 /\ stream.eof = FALSE /\ phase = "write"
  BY DEF Init
<1>7. Len(P[0]) = 0
  BY <1>3
<1>8. Progress(P)
  BY <1>4, <1>6, <1>7 DEF Progress
<1> QED
  BY <1>5, <1>8 DEF Laid

(* Each turn of the writer adds a record behind the others.                *)
LEMMA WriteLaid ==
    ASSUME Types, Laid, NEW sw \in Structs, NEW b \in Behind, WriteOne(sw, b)
    PROVE  Laid'
<1>1. PICK seqs, P : Layout(seqs, P) /\ Progress(P)
  BY DEF Laid
<1>2. PICK n \in Nat : n = Len(written)
  BY DEF Types
<1>3. PICK rec \in Seq(Byte) : rec = Record(sw, bigEndian["writer"], b)
  <2>1. bigEndian["writer"] \in BOOLEAN /\ Built(sw)
    BY StructBuilt DEF Types, Structs
  <2> QED
    BY <2>1, BytesOfBehind, RecordType
<1>4. /\ seqs \in [1..n -> Seq(Byte)] /\ P \in [0..n -> Seq(Byte)] /\ IsParts(P, seqs, n)
      /\ \A i \in 1..n : \E c \in Behind : seqs[i] = Record(written[i], bigEndian["writer"], c)
      /\ bytes = P[n]
  BY <1>1, <1>2 DEF Layout, Types, WriteOne
<1>5. PICK m \in Nat : m = n + 1
  OBVIOUS
<1>6. PICK next : next = [i \in 1..m |-> IF i = m THEN rec ELSE seqs[i]]
  OBVIOUS
<1>7. PICK Q : Q = [i \in 0..m |-> IF i = m THEN P[n] \o rec ELSE P[i]]
  OBVIOUS
<1>8. /\ next \in [1..m -> Seq(Byte)] /\ Q \in [0..m -> Seq(Byte)] /\ IsParts(Q, next, m)
      /\ Q[0] = P[0] /\ Q[m] = P[n] \o rec
  <2>1. Longer(next, Q, seqs, P, n, rec)
    BY <1>5, <1>6, <1>7 DEF Longer
  <2>2. seqs \in [1..n -> Seq(Byte)] /\ P \in [0..n -> Seq(Byte)] /\ IsParts(P, seqs, n)
    BY <1>4
  <2> QED
    BY <1>5, <2>1, <2>2, OneMorePart
<1>9. /\ Len(written') = m /\ written'[m] = sw
      /\ \A i \in 1..n : written'[i] = written[i]
  <2>1. written \in Seq(Structs) /\ written' = Append(written, sw)
    BY DEF Types, WriteOne
  <2> QED
    BY <1>2, <1>5, <2>1, AppendProperties
<1>10. /\ bigEndian' = bigEndian /\ whole' = TRUE /\ phase' = "write" /\ got' = << >>
       /\ stream' = stream /\ stream.eof = FALSE /\ stream.pos = 0
  BY DEF Types, WriteOne
<1>11. bytes' = Q[m]
  BY <1>3, <1>4, <1>8 DEF WriteOne
<1>12. \A i \in 1..m : \E c \in Behind :
          next[i] = Record(written'[i], bigEndian'["writer"], c)
  <2>1. ASSUME NEW i \in 1..m
        PROVE  \E c \in Behind : next[i] = Record(written'[i], bigEndian'["writer"], c)
    <3>1. CASE i = m
      BY <1>3, <1>6, <1>9, <1>10, <3>1
    <3>2. CASE i # m
      <4>1. i \in 1..n
        BY <1>5, <3>2
      <4>2. next[i] = seqs[i] /\ written'[i] = written[i]
        BY <1>6, <1>9, <3>2, <4>1
      <4> QED
        BY <1>4, <1>10, <4>1, <4>2
    <3> QED
      BY <3>1, <3>2
  <2> QED
    BY <2>1
<1>13. Len(bytes') <= Len(Q[m])
  <2>1. Q[m] \in Seq(Byte)
    BY <1>8, m \in 0..m
  <2>2. Len(Q[m]) \in Nat
    BY <2>1
  <2> QED
    BY <1>11, <2>2
<1>14. Layout(next, Q)'
  <2>1. \A i \in 1..Len(bytes') : bytes'[i] = Q[m][i]
    BY <1>11, Zenon
  <2> QED
    BY <1>8, <1>9, <1>11, <1>12, <1>13, <2>1 DEF Layout
<1>15. Len(got') = 0 /\ Len(Q[0]) = 0
  <2>1. Q[0] = << >>
    BY <1>4, <1>8 DEF IsParts
  <2> QED
    BY <1>10, <2>1
<1>16. Progress(Q)'
  BY <1>10, <1>15 DEF Progress
<1> QED
  BY <1>14, <1>16, Zenon DEF Laid

(* A cut leaves a beginning of them.                                       *)
LEMMA RewindLaid == ASSUME Types, Laid, Rewind PROVE Laid'
<1>1. PICK seqs, P : Layout(seqs, P) /\ Progress(P)
  BY DEF Laid
<1>2. PICK n \in Nat : n = Len(written)
  BY DEF Types
<1>3. PICK t \in Seq(Byte) : t = P[n]
  <2>1. P \in [0..n -> Seq(Byte)] /\ n \in 0..n
    BY <1>1, <1>2 DEF Layout
  <2> QED
    BY <2>1
<1>4. bytes = t
  BY <1>1, <1>2, <1>3 DEF Layout, Types, Rewind
<1>5. /\ Len(bytes') <= Len(t) /\ \A i \in 1..Len(bytes') : bytes'[i] = t[i]
      /\ whole' => bytes' = t
  <2>1. CASE UNCHANGED <<bytes, whole>>
    BY <1>4, <2>1
  <2>2. CASE whole' = FALSE /\ \E j \in 1..Len(bytes) : bytes' = SubSeq(bytes, 1, j - 1)
    <3>1. PICK j \in 1..Len(t) : bytes' = SubSeq(t, 1, j - 1)
      BY <1>4, <2>2
    <3>2. Len(bytes') = j - 1 /\ \A i \in 1..(j - 1) : bytes'[i] = t[i]
      BY <3>1
    <3> QED
      BY <2>2, <3>2
  <2> QED
    BY <2>1, <2>2 DEF Rewind
<1>6. /\ phase' = "read" /\ got' = << >> /\ UNCHANGED <<bigEndian, written, stream>>
      /\ stream.eof = FALSE /\ stream.pos = 0
  BY DEF Types, Rewind
<1>7. Layout(seqs, P)'
  BY <1>1, <1>2, <1>3, <1>5, <1>6 DEF Layout
<1>8. Len(got') = 0 /\ Len(P[0]) = 0
  <2>1. P[0] = << >>
    BY <1>1 DEF Layout, IsParts
  <2> QED
    BY <1>6, <2>1
<1>9. Progress(P)'
  BY <1>6, <1>8 DEF Progress
<1> QED
  BY <1>7, <1>9, Zenon DEF Laid

(* What fits does not change while the file is read.                       *)
LEMMA UptoSame ==
    ASSUME UNCHANGED <<bigEndian, written>>, NEW k
    PROVE  Upto(k)' <=> Upto(k)
<1>1. bigEndian' = bigEndian /\ written' = written
  OBVIOUS
<1> QED
  BY <1>1, Zenon DEF Upto, Fits

(* The file holds the code of a record that fits where the ones before it  *)
(* end.                                                                    *)
LEMMA RecordHeld ==
    ASSUME Types, NEW seqs, NEW P, Layout(seqs, P), NEW k \in 1..Len(written),
           Fits(written[k])
    PROVE  /\ Len(P[k - 1]) \in Nat /\ Len(P[k]) \in Nat
           /\ Holds(Len(P[k - 1]), Coded(written[k], bigEndian["writer"]))
           /\ Len(P[k]) = Len(P[k - 1]) + Len(Coded(written[k], bigEndian["writer"]))
           /\ Len(P[k]) <= Len(P[Len(written)])
<1>1. PICK n \in Nat : n = Len(written)
  BY DEF Types
<1>2. /\ seqs \in [1..n -> Seq(Byte)] /\ P \in [0..n -> Seq(Byte)] /\ IsParts(P, seqs, n)
  BY <1>1 DEF Layout
<1>3. PICK b \in Seq(Byte) : seqs[k] = Record(written[k], bigEndian["writer"], b)
  BY <1>1, BytesOfBehind DEF Layout
<1>4. PICK code : code = Coded(written[k], bigEndian["writer"])
  OBVIOUS
<1>5. seqs[k] = code
  <2>1. Built(written[k])
    BY WrittenBuilt
  <2>2. bigEndian \in [{"writer", "reader"} -> BOOLEAN]
    BY DEF Types
  <2> QED
    BY <1>3, <1>4, <2>1, <2>2, RecordIsCoded
<1>6. k \in 1..n /\ k - 1 \in 0..n /\ k \in 0..n
  BY <1>1
<1>7. IsAt(P, seqs, n, k)
  BY <1>2, <1>6, PartAt
<1>8. P[k - 1] \in Seq(Byte) /\ P[k] \in Seq(Byte) /\ P[n] \in Seq(Byte) /\ code \in Seq(Byte)
  BY <1>2, <1>5, <1>6, n \in 0..n
<1>9. PICK q \in Nat : q = Len(P[k - 1])
  BY <1>8
<1>10. PICK m \in Nat : m = Len(code)
  BY <1>8
<1>11. PICK t : t = P[n]
  OBVIOUS
<1>12. Len(P[k]) = q + m /\ q + m <= Len(t) /\ \A i \in 1..m : t[q + i] = code[i]
  BY <1>5, <1>7, <1>9, <1>10, <1>11 DEF IsAt
<1>13. bytes \in Seq(Byte) /\ \A i \in 1..Len(bytes) : bytes[i] = t[i]
  BY <1>1, <1>11 DEF Layout, Types
<1>14. Holds(q, code)
  <2>1. ASSUME NEW i \in 1..m, q + i <= Len(bytes) PROVE bytes[q + i] = code[i]
    <3>1. q + i \in 1..Len(bytes)
      BY <1>13, <2>1
    <3> QED
      BY <1>12, <1>13, <3>1
  <2> QED
    BY <1>10, <2>1 DEF Holds
<1>15. q + m \in Nat
  OBVIOUS
<1> QED
  BY <1>1, <1>4, <1>9, <1>10, <1>11, <1>12, <1>14, <1>15, Zenon

(* What the reader does with the next record, if it fits and those before  *)
(* it do.                                                                  *)
LEMMA NextReturns ==
    ASSUME Types, NEW seqs, NEW P, Layout(seqs, P), Progress(P),
           Len(got) < Len(written), ~stream.eof, NEW g \in Garbage,
           NEW r, r = ReadRecord(stream, bigEndian["reader"], g),
           NEW k, k = Len(got) + 1, Upto(k)
    PROVE  /\ k \in 1..Len(written)
           /\ Returned(r, written[k], Len(P[k]))
           /\ whole => Len(P[k]) <= Len(bytes)
<1>1. Len(got) \in Nat /\ Len(written) \in Nat /\ bytes \in Seq(Byte) /\ IsStream(stream)
  BY DEF Types
<1>2. k \in 1..Len(written) /\ k - 1 = Len(got)
  BY <1>1
<1>3. Fits(written[k]) /\ Upto(Len(got))
  <2>1. k \in 1..k /\ \A j \in 1..Len(got) : j \in 1..k
    BY <1>1
  <2> QED
    BY <2>1 DEF Upto
<1>4. PICK q \in Nat : q = Len(P[k - 1])
  BY <1>2, <1>3, RecordHeld
<1>5. PICK sw : sw = written[k]
  OBVIOUS
<1>6. PICK wbig \in BOOLEAN : wbig = bigEndian["writer"]
  BY DEF Types
<1>7. PICK rbig \in BOOLEAN : rbig = bigEndian["reader"]
  BY DEF Types
<1>8. /\ Holds(q, Coded(sw, wbig)) /\ Len(P[k]) = q + Len(Coded(sw, wbig))
      /\ Len(P[k]) <= Len(P[Len(written)])
  BY <1>2, <1>3, <1>4, <1>5, <1>6, RecordHeld
<1>9. At(stream, q) /\ q \in 0..Len(bytes)
  <2>1. stream.pos = q
    BY <1>2, <1>3, <1>4 DEF Progress
  <2>2. stream.ok = TRUE /\ stream.eof = FALSE
    BY DEF Types, IsStream
  <2> QED
    BY <1>1, <2>1, <2>2 DEF At, IsStream
<1>10. Built(sw)
  BY <1>2, <1>5, WrittenBuilt
<1>11. InWidth(Len(sw.deps), 2)
  <2>1. PICK n \in Nat : n = Len(sw.deps)
    BY <1>10, DepCodesType
  <2>2. n < DepsWidth
    BY <1>3, <1>5, <2>1 DEF Fits
  <2>3. DepsWidth \in Nat /\ DepsWidth <= 65536
    BY LengthsAssumption
  <2>4. InWidth(n, 2)
    BY <2>2, <2>3, SMT DEF InWidth
  <2> QED
    BY <2>1, <2>4
<1>12. g \in Nat
  BY LengthsAssumption
<1>13. Returned(r, sw, q + Len(Coded(sw, wbig)))
  BY <1>1, <1>7, <1>8, <1>9, <1>10, <1>11, <1>12, RecordReturns
<1>14. whole => Len(bytes) = Len(P[Len(written)])
  BY DEF Layout
<1> QED
  BY <1>2, <1>5, <1>8, <1>13, <1>14

(* A record that is taken.                                                 *)
LEMMA TakenLaid ==
    ASSUME Types, Types', Laid, Kept, NEW r, ReadOne(r)
    PROVE  Laid' /\ Kept'
<1>1. PICK seqs, P : Layout(seqs, P) /\ Progress(P)
  BY DEF Laid
<1>2. PICK g \in Garbage : r = ReadRecord(stream, bigEndian["reader"], g)
  BY DEF ReadOne
<1>3. PICK k \in Nat : k = Len(got) + 1
  BY DEF Types
<1>4. /\ UNCHANGED <<phase, bigEndian, written, bytes, whole>> /\ phase = "read"
      /\ Len(got) < Len(written) /\ ~stream.eof /\ r.ok
      /\ got' = Append(got, r.sw) /\ stream' = r.stream
  BY DEF ReadOne
<1>5. Len(got') = k /\ got'[k] = r.sw /\ \A i \in 1..Len(got) : got'[i] = got[i]
  <2>1. got \in Seq(ReadStructs)
    BY DEF Types
  <2> QED
    BY <1>3, <1>4, <2>1, AppendProperties
<1>6. ASSUME Upto(k)
      PROVE  /\ Returned(r, written[k], Len(P[k]))
             /\ whole => Len(P[k]) <= Len(bytes)
  BY <1>1, <1>2, <1>3, <1>4, <1>6, NextReturns
<1>7. ASSUME Upto(k), Len(P[k]) <= Len(bytes)
      PROVE  At(stream', Len(P[k])) /\ Same(r.sw, written[k])
  BY <1>4, <1>6, <1>7 DEF Returned
<1>8. ASSUME Upto(k), ~(Len(P[k]) <= Len(bytes))
      PROVE  /\ ~whole /\ stream'.eof = TRUE
             /\ r.sw.name = written[k].name /\ r.sw.desc = written[k].desc
             /\ r.sw.url = written[k].url
             /\ Shortened(r.sw.deps, Reverse(written[k].deps))
  <2>1. r.ok = TRUE
    <3>1. r.ok \in BOOLEAN
      <4>1. g \in Nat /\ bigEndian["reader"] \in BOOLEAN
        BY LengthsAssumption DEF Types
      <4> QED
        BY <1>2, <4>1, ReadRecordType DEF Types
    <3> QED
      BY <1>4, <3>1
  <2> QED
    BY <1>4, <1>6, <1>8, <2>1 DEF Returned
<1>9. \A i : Upto(i)' <=> Upto(i)
  BY <1>4, UptoSame
<1>10. Layout(seqs, P)'
  BY <1>1, <1>4 DEF Layout
<1>11. Progress(P)'
  <2>1. ASSUME ~stream'.eof, Upto(k) PROVE stream'.pos = Len(P[k])
    BY <1>7, <1>8, <2>1 DEF At
  <2>2. ASSUME whole, Upto(k) PROVE ~stream'.eof
    BY <1>6, <1>7, <2>2 DEF At
  <2>3. phase' = "read"
    BY <1>4
  <2> QED
    BY <1>4, <1>5, <1>9, <2>1, <2>2, <2>3 DEF Progress
<1>12. ASSUME NEW i \in 1..k, Upto(i)
       PROVE  Same(got'[i], written[i]) \/ Lost(i)'
  <2>1. CASE i = k
    <3>1. CASE Len(P[k]) <= Len(bytes)
      BY <1>5, <1>7, <1>12, <2>1, <3>1
    <3>2. CASE ~(Len(P[k]) <= Len(bytes))
      <4>1. PICK full : full = Reverse(written[k].deps)
        OBVIOUS
      <4>2. PICK sw \in ReadStructs : sw = r.sw
        <5>1. k \in 1..Len(got')
          BY <1>3, <1>5
        <5> QED
          BY <1>5, <5>1 DEF Types
      <4>3. PICK whl : whl = [sw EXCEPT !.deps = full]
        OBVIOUS
      <4>4. /\ whl.name = sw.name /\ whl.desc = sw.desc /\ whl.url = sw.url
            /\ whl.deps = full
        BY <4>2, <4>3 DEF ReadStructs
      <4>5. Same(whl, written[k])
        BY <1>8, <1>12, <2>1, <3>2, <4>1, <4>2, <4>4 DEF Same
      <4>6. ~whole' /\ stream'.eof /\ Shortened(sw.deps, full)
        BY <1>4, <1>8, <1>12, <2>1, <3>2, <4>1, <4>2
      <4>7. written' = written
        BY <1>4
      <4> QED
        BY <1>5, <2>1, <4>1, <4>2, <4>3, <4>5, <4>6, <4>7, Zenon DEF Lost
    <3> QED
      BY <3>1, <3>2
  <2>2. CASE i # k
    <3>1. i \in 1..Len(got)
      <4>1. Len(got) \in Nat
        BY DEF Types
      <4> QED
        BY <1>3, <2>2, <4>1
    <3>2. Same(got[i], written[i])
      BY <1>4, <1>12, <3>1 DEF Kept, Lost
    <3> QED
      BY <1>5, <3>1, <3>2
  <2> QED
    BY <2>1, <2>2
<1>13. Kept'
  BY <1>4, <1>5, <1>9, <1>12 DEF Kept
<1> QED
  BY <1>10, <1>11, <1>13, Zenon DEF Laid

(* The load ends, or fails.                                                *)
LEMMA StoppedLaid ==
    ASSUME Types, Laid, Kept, ReadEnds \/ \E r : ReadFails(r)
    PROVE  Laid' /\ Kept'
<1>1. PICK seqs, P : Layout(seqs, P) /\ Progress(P)
  BY DEF Laid
<1>2. /\ UNCHANGED <<got, stream, bigEndian, written, bytes, whole>>
      /\ phase' \in {"done", "failed"}
  BY DEF ReadEnds, ReadFails
<1>3. \A i : Upto(i)' <=> Upto(i)
  BY <1>2, UptoSame
<1>4. Len(got) \in Nat /\ Len(written) \in Nat /\ Len(got) <= Len(written)
  BY DEF Types
<1>5. PICK k \in Nat : k = Len(got) + 1
  BY <1>4
<1>6. ASSUME NEW i \in 1..Len(written), NEW j \in 1..i, Upto(i) PROVE Upto(j)
  <2>1. \A x \in 1..j : x \in 1..i
    BY <1>6
  <2> QED
    BY <1>6, <2>1 DEF Upto
<1>7. ASSUME whole, NEW i \in 1..Len(written), Upto(i), ~(i <= Len(got)) PROVE FALSE
  <2>1. k \in 1..i /\ Len(got) < Len(written)
    BY <1>4, <1>5, <1>7
  <2>2. Upto(k)
    BY <1>6, <1>7, <2>1
  <2>3. Upto(Len(got))
    <3>1. \A x \in 1..Len(got) : x \in 1..k
      BY <1>4, <1>5
    <3> QED
      BY <2>2, <3>1 DEF Upto
  <2>4. ~stream.eof
    BY <1>1, <1>7, <2>3 DEF Progress
  <2>5. PICK r : ReadFails(r)
    BY <2>1, <2>4 DEF ReadEnds
  <2>6. PICK g \in Garbage : r = ReadRecord(stream, bigEndian["reader"], g)
    BY <2>5 DEF ReadFails
  <2>7. Returned(r, written[k], Len(P[k])) /\ Len(P[k]) <= Len(bytes)
    BY <1>1, <1>5, <1>7, <2>1, <2>2, <2>4, <2>6, NextReturns
  <2>8. r.ok = TRUE
    BY <2>7 DEF Returned
  <2> QED
    BY <2>5, <2>8 DEF ReadFails
<1>8. Layout(seqs, P)'
  BY <1>1, <1>2 DEF Layout
<1>9. Progress(P)'
  <2>1. /\ ~stream.eof /\ Upto(Len(got)) => stream.pos = Len(P[Len(got)])
        /\ whole /\ Upto(Len(got)) => ~stream.eof
    BY <1>1 DEF Progress
  <2>2. whole => \A i \in 1..Len(written) : Upto(i) => i <= Len(got)
    BY <1>7
  <2> QED
    BY <1>2, <1>3, <2>1, <2>2 DEF Progress
<1>10. Kept'
  <2>1. \A i : Lost(i) => Lost(i)'
    BY <1>2 DEF Lost
  <2> QED
    BY <1>2, <1>3, <2>1 DEF Kept
<1> QED
  BY <1>8, <1>9, <1>10, Zenon DEF Laid

Inv == Types /\ Laid /\ Kept

(* The invariant holds at first.                                           *)
LEMMA InitInv == ASSUME Init PROVE Inv
<1>1. Kept
  <2>1. Len(got) = 0
    BY DEF Init
  <2> QED
    BY <2>1 DEF Kept
<1> QED
  BY <1>1, InitTypes, InitLaid DEF Inv

(* Every step keeps it.                                                    *)
LEMMA NextInv == ASSUME Inv, [Next]_vars PROVE Inv'
<1>1. Types /\ Laid /\ Kept
  BY DEF Inv
<1>2. Types'
  BY <1>1, NextTypes
<1>3. ASSUME got' = << >> PROVE Kept'
  <2>1. Len(got') = 0
    BY <1>3
  <2> QED
    BY <2>1 DEF Kept
<1>4. ASSUME NEW sw \in Structs, NEW b \in Behind, WriteOne(sw, b) PROVE Laid' /\ Kept'
  <2>1. got' = << >>
    BY <1>1, <1>4 DEF Types, WriteOne
  <2> QED
    BY <1>1, <1>3, <1>4, <2>1, WriteLaid
<1>5. CASE Rewind
  <2>1. got' = << >>
    BY <1>1, <1>5 DEF Types, Rewind
  <2> QED
    BY <1>1, <1>2, <1>3, <1>5, <2>1, RewindLaid DEF Inv
<1>6. ASSUME NEW r, ReadOne(r) PROVE Laid' /\ Kept'
  BY <1>1, <1>2, <1>6, TakenLaid
<1>7. CASE ReadEnds \/ \E r : ReadFails(r)
  BY <1>1, <1>2, <1>7, StoppedLaid DEF Inv
<1>8. CASE UNCHANGED vars
  <2>1. Laid'
    BY <1>1, <1>8, Zenon DEF vars, Laid, Layout, Progress, Upto, Fits
  <2>2. Kept'
    BY <1>1, <1>8, Zenon DEF vars, Kept, Lost, Upto, Fits
  <2> QED
    BY <1>2, <2>1, <2>2 DEF Inv
<1>9. CASE Next
  <2>1. Laid' /\ Kept'
    BY <1>4, <1>5, <1>6, <1>7, <1>9, <1>1, <1>2, NextCases DEF Inv
  <2> QED
    BY <1>2, <2>1 DEF Inv
<1> QED
  BY <1>8, <1>9

(* So it holds always.                                                     *)
LEMMA AlwaysInv == Spec => []Inv
<1>1. Init => Inv
  BY InitInv
<1>2. Inv /\ [Next]_vars => Inv'
  BY NextInv
<1> QED
  BY <1>1, <1>2, PTL DEF Spec

(* Wherever the file is cut, whatever lies behind the blocks of the list   *)
(* and on machines of either byte order, what the reader takes for a       *)
(* record was written as one, with all its strings; only the last may have *)
(* lost dependencies, and only if the reader knows that the file ended.    *)
THEOREM NothingIsInvented == Spec => []CutsInventNothing
<1>1. Inv => CutsInventNothing
  <2> SUFFICES ASSUME Inv, NEW i \in DOMAIN got, \A j \in 1..i : Fits(written[j])
               PROVE  \/ Same(got[i], written[i])
                      \/ /\ ~whole /\ i = Len(got) /\ stream.eof
                         /\ Same([got[i] EXCEPT !.deps = Reverse(written[i].deps)], written[i])
                         /\ Shortened(got[i].deps, Reverse(written[i].deps))
    BY Zenon DEF CutsInventNothing
  <2>1. i \in 1..Len(got)
    BY DEF Inv, Types
  <2>2. Upto(i)
    BY Zenon DEF Upto
  <2> QED
    BY <2>1, <2>2, Zenon DEF Inv, Kept, Lost
<1> QED
  BY <1>1, AlwaysInv, PTL

(* From a file that is not cut, all records up to the first one that does  *)
(* not fit come back as they were written, their dependencies in the       *)
(* opposite order: none is lost, and the load fails at none of them.       *)
THEOREM RecordsThatFitReturn == Spec => []FittingRecordsReturn
<1>1. Inv => FittingRecordsReturn
  <2> SUFFICES ASSUME Inv, whole, NEW i \in DOMAIN written, \A j \in 1..i : Fits(written[j])
               PROVE  /\ i <= Len(got) => Same(got[i], written[i])
                      /\ phase \in {"done", "failed"} => i <= Len(got)
    BY Zenon DEF FittingRecordsReturn
  <2>1. i \in 1..Len(written) /\ Len(got) \in Nat
    BY DEF Inv, Types
  <2>2. Upto(i)
    BY Zenon DEF Upto
  <2>3. ASSUME i <= Len(got) PROVE Same(got[i], written[i])
    <3>1. i \in 1..Len(got)
      BY <2>1, <2>3
    <3> QED
      BY <2>2, <3>1, Zenon DEF Inv, Kept, Lost
  <2>4. PICK P : Progress(P)
    BY DEF Inv, Laid
  <2>5. phase \in {"done", "failed"} => i <= Len(got)
    BY <2>1, <2>2, <2>4, Zenon DEF Progress
  <2> QED
    BY <2>3, <2>5
<1> QED
  BY <1>1, AlwaysInv, PTL
=============================================================================
