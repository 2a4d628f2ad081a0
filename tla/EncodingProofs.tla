--------------------------- MODULE EncodingProofs ---------------------------
(***************************************************************************)
(* Theorems of KeyEncoding: for bytes of any width and curves of any size, *)
(* the numbers read are the numbers written, and their length is the one   *)
(* the format fixes.  Both are facts about recursive definitions (powers   *)
(* of two, the value of a string of bytes), proved by induction on a set   *)
(* of numbers.                                                             *)
(***************************************************************************)
EXTENDS KeyEncoding, FiniteSetTheorems, SequenceTheorems, TLAPS

-----------------------------------------------------------------------------
(* A set with 0 and the successors of its members has every number: one    *)
(* missing number m would make x |-> x + 1 an injection from the members   *)
(* up to m into those that are not 0, which the pigeonhole forbids.        *)
LEMMA InductionOnASet ==
  ASSUME NEW S, 0 \in S, \A n \in Nat : n \in S => n + 1 \in S
  PROVE  \A n \in Nat : n \in S
<1>1. SUFFICES ASSUME NEW m \in Nat, m \notin S PROVE FALSE
  OBVIOUS
<1> DEFINE U == S \cap (0 .. m)
           V == U \ {0}
           f == [u \in U |-> u + 1]
<1>2. IsFiniteSet(U) /\ 0 \in U
  <2>1. IsFiniteSet(0 .. m)
    BY FS_Interval
  <2>2. U \in SUBSET (0 .. m)
    OBVIOUS
  <2>3. IsFiniteSet(U)
    BY <2>1, <2>2, FS_Subset
  <2> QED BY <2>3
<1>3. /\ IsFiniteSet(V) /\ Cardinality(V) < Cardinality(U)
  <2> HIDE DEF U
  <2>1. IsFiniteSet(V) /\ Cardinality(V) = Cardinality(U) - 1
    BY <1>2, FS_RemoveElement
  <2>2. Cardinality(U) \in Nat
    BY <1>2, FS_CardinalityType
  <2> QED BY <2>1, <2>2
<1>4. f \in [U -> V]
  BY <1>1
<1>5. PICK x, y \in U : x # y /\ f[x] = f[y]
  <2> HIDE DEF U, V, f
  <2> QED BY <1>2, <1>3, <1>4, FS_PigeonHole
<1> QED BY <1>5
(* A function is determined by its value at 0 and a step from each value   *)
(* to the next, and exists: CHOOSE finds the functions defined by          *)
(* recursion.                                                              *)
Recursive(g, S, a, step) ==
  g \in [Nat -> S] /\ g[0] = a /\ \A n \in Nat : g[n + 1] = step[n][g[n]]

LEMMA Recursion ==
  ASSUME NEW S, NEW a \in S, NEW step \in [Nat -> [S -> S]]
  PROVE  \E g : Recursive(g, S, a, step)
<1> DEFINE Goes(n, g) ==
             /\ g \in [0 .. n -> S] /\ g[0] = a
             /\ \A i \in 0 .. n : i < n => g[i + 1] = step[i][g[i]]
           Possible == {n \in Nat : \E g \in [0 .. n -> S] : Goes(n, g)}
<1>1. \A n \in Nat : n \in Possible
  <2>1. 0 \in Possible
    <3>1. Goes(0, [i \in 0 .. 0 |-> a])
      OBVIOUS
    <3> QED BY <3>1
  <2>2. ASSUME NEW n \in Nat, n \in Possible
        PROVE  n + 1 \in Possible
    <3>1. PICK g \in [0 .. n -> S] : Goes(n, g)
      BY <2>2
    <3> DEFINE h == [i \in 0 .. n + 1 |-> IF i = n + 1 THEN step[n][g[n]] ELSE g[i]]
    <3>2. h \in [0 .. n + 1 -> S] /\ h[0] = a
      BY <3>1
    <3>3. ASSUME NEW i \in 0 .. n + 1, i < n + 1
          PROVE  h[i + 1] = step[i][h[i]]
      <4>1. CASE i = n
        BY <4>1
      <4>2. CASE i < n
        BY <4>2, <3>1
      <4> QED BY <3>3, <4>1, <4>2
    <3>4. Goes(n + 1, h)
      <4> HIDE DEF h
      <4> QED BY <3>2, <3>3
    <3> HIDE DEF h, Goes
    <3> QED BY <3>2, <3>4
  <2> HIDE DEF Possible
  <2> QED BY <2>1, <2>2, InductionOnASet
<1>2. ASSUME NEW m \in Nat, NEW h, Goes(m, h)
      PROVE  \A n \in Nat : n <= m => \A g : Goes(n, g) => g[n] = h[n]
  <2> DEFINE Agree == {n \in Nat : n <= m => \A g : Goes(n, g) => g[n] = h[n]}
  <2>1. 0 \in Agree
    BY <1>2
  <2>2. ASSUME NEW n \in Nat, n \in Agree
        PROVE  n + 1 \in Agree
    <3> SUFFICES ASSUME n + 1 <= m, NEW g, Goes(n + 1, g)
                 PROVE  g[n + 1] = h[n + 1]
      OBVIOUS
    <3> DEFINE k == [i \in 0 .. n |-> g[i]]
    <3>1. k \in [0 .. n -> S] /\ k[0] = a
      OBVIOUS
    <3>2. \A i \in 0 .. n : i < n => k[i + 1] = step[i][k[i]]
      OBVIOUS
    <3>3. k[n] = g[n] /\ n <= m
      OBVIOUS
    <3>4. k[n] = h[n]
      <4> HIDE DEF k
      <4> QED BY <2>2, <3>1, <3>2, <3>3
    <3>5. g[n + 1] = step[n][g[n]]
      OBVIOUS
    <3>6. h[n + 1] = step[n][h[n]]
      BY <1>2
    <3> HIDE DEF k
    <3> QED BY <3>3, <3>4, <3>5, <3>6
  <2>3. \A n \in Nat : n \in Agree
    <3> HIDE DEF Agree
    <3> QED BY <2>1, <2>2, InductionOnASet
  <2> QED BY <2>3
<1> DEFINE G(n) == CHOOSE g \in [0 .. n -> S] : Goes(n, g)
           f == [n \in Nat |-> G(n)[n]]
<1>3. \A n \in Nat : G(n) \in [0 .. n -> S] /\ Goes(n, G(n))
  BY <1>1
<1>4. f \in [Nat -> S] /\ f[0] = a
  <2> HIDE DEF G
  <2> QED BY <1>3
<1>5. ASSUME NEW n \in Nat PROVE f[n + 1] = step[n][f[n]]
  <2>1. G(n)[n] = G(n + 1)[n]
    <3> HIDE DEF G, Goes
    <3>1. /\ G(n) \in [0 .. n -> S] /\ Goes(n, G(n))
          /\ G(n + 1) \in [0 .. n + 1 -> S] /\ Goes(n + 1, G(n + 1))
          /\ n + 1 \in Nat /\ n <= n + 1
      BY <1>3
    <3> QED BY <3>1, <1>2
  <2>2. G(n + 1)[n + 1] = step[n][G(n + 1)[n]]
    <3> HIDE DEF G
    <3> QED BY <1>3
  <2> HIDE DEF G
  <2> QED BY <2>1, <2>2
<1> HIDE DEF f
<1> QED BY <1>4, <1>5 DEF Recursive

-----------------------------------------------------------------------------
(* The powers of two. *)
LEMMA TwoToValues ==
  /\ TwoTo \in [Nat -> Nat]
  /\ TwoTo[0] = 1
  /\ \A k \in Nat : TwoTo[k + 1] = 2 * TwoTo[k]
<1> DEFINE step == [k \in Nat |-> [x \in Nat |-> 2 * x]]
<1>1. step \in [Nat -> [Nat -> Nat]]
  OBVIOUS
<1>2. PICK g : Recursive(g, Nat, 1, step)
  <2> HIDE DEF step
  <2> QED BY <1>1, Recursion
<1>3. g \in [Nat -> Nat] /\ g[0] = 1 /\ \A k \in Nat : g[k + 1] = 2 * g[k]
  BY <1>2 DEF Recursive
<1>4. g = [k \in Nat |-> IF k = 0 THEN 1 ELSE 2 * g[k - 1]]
  <2>1. ASSUME NEW k \in Nat
        PROVE  g[k] = IF k = 0 THEN 1 ELSE 2 * g[k - 1]
    <3>1. CASE k = 0
      BY <1>3, <3>1
    <3>2. CASE k # 0
      <4>1. k - 1 \in Nat /\ (k - 1) + 1 = k
        BY <3>2
      <4> QED BY <1>3, <3>2, <4>1
    <3> QED BY <3>1, <3>2
  <2> QED BY <1>3, <2>1
<1>5. TwoTo = [k \in Nat |-> IF k = 0 THEN 1 ELSE 2 * TwoTo[k - 1]]
  BY <1>4, Zenon DEF TwoTo
<1>6. TwoTo[0] = 1
  BY <1>5
<1>7. \A k \in Nat : TwoTo[k + 1] = 2 * TwoTo[k]
  BY <1>5
<1>8. \A k \in Nat : TwoTo[k] \in Nat
  <2> DEFINE S == {k \in Nat : TwoTo[k] \in Nat}
  <2>1. 0 \in S
    BY <1>6
  <2>2. \A k \in Nat : k \in S => k + 1 \in S
    BY <1>7
  <2>3. \A k \in Nat : k \in S
    <3> HIDE DEF S
    <3> QED BY <2>1, <2>2, InductionOnASet
  <2> QED BY <2>3
<1> QED BY <1>5, <1>6, <1>7, <1>8

LEMMA TwoToPositive ==
  \A k \in Nat : TwoTo[k] \in Nat /\ TwoTo[k] >= 1
<1> DEFINE S == {k \in Nat : TwoTo[k] >= 1}
<1>1. 0 \in S
  BY TwoToValues
<1>2. \A k \in Nat : k \in S => k + 1 \in S
  BY TwoToValues
<1>3. \A k \in Nat : k \in S
  <2> HIDE DEF S
  <2> QED BY <1>1, <1>2, InductionOnASet
<1> QED BY <1>3, TwoToValues

LEMMA TwoToSum ==
  ASSUME NEW a \in Nat
  PROVE  \A b \in Nat : TwoTo[a + b] = TwoTo[a] * TwoTo[b]
<1> DEFINE S == {b \in Nat : TwoTo[a + b] = TwoTo[a] * TwoTo[b]}
<1>1. 0 \in S
  BY TwoToValues
<1>2. ASSUME NEW b \in Nat, b \in S
      PROVE  b + 1 \in S
  <2>1. TwoTo[(a + b) + 1] = 2 * TwoTo[a + b] /\ TwoTo[b + 1] = 2 * TwoTo[b]
    BY TwoToValues
  <2>2. TwoTo[a] \in Nat /\ TwoTo[b] \in Nat /\ TwoTo[a + b] \in Nat
    BY TwoToValues
  <2>3. 2 * (TwoTo[a] * TwoTo[b]) = TwoTo[a] * (2 * TwoTo[b])
    BY <2>2
  <2>4. a + (b + 1) = (a + b) + 1
    OBVIOUS
  <2> QED BY <1>2, <2>1, <2>3, <2>4
<1>3. \A b \in Nat : b \in S
  <2> HIDE DEF S
  <2> QED BY <1>1, <1>2, InductionOnASet
<1> QED BY <1>3

LEMMA TwoToMonotone ==
  ASSUME NEW a \in Nat, NEW b \in Nat, a <= b
  PROVE  TwoTo[a] <= TwoTo[b]
<1>1. b - a \in Nat /\ a + (b - a) = b
  OBVIOUS
<1>2. TwoTo[b] = TwoTo[a] * TwoTo[b - a]
  BY <1>1, TwoToSum
<1>3. TwoTo[a] \in Nat /\ TwoTo[b - a] \in Nat /\ TwoTo[b - a] >= 1
  BY <1>1, TwoToPositive
<1>4. \A x, y \in Nat : y >= 1 => x * y >= x
  OBVIOUS
<1> QED BY <1>2, <1>3, <1>4

-----------------------------------------------------------------------------
(* Division. *)
LEMMA Quotient ==
  ASSUME NEW n \in Nat, NEW d \in Nat, d >= 1
  PROVE  /\ n \div d \in Nat
         /\ n % d \in 0 .. d - 1
         /\ n = (n \div d) * d + (n % d)
OBVIOUS

LEMMA QuotientUnique ==
  ASSUME NEW n \in Nat, NEW d \in Nat, d >= 1,
         NEW q \in Nat, NEW r \in 0 .. d - 1, n = q * d + r
  PROVE  n \div d = q
OBVIOUS

LEMMA QuotientOfQuotient ==
  ASSUME NEW n \in Nat, NEW c \in Nat, NEW d \in Nat, c >= 1, d >= 1
  PROVE  n \div (c * d) = (n \div c) \div d
<1> DEFINE m == n \div c
           r == n % c
           q == m \div d
           s == m % d
<1>1. m \in Nat /\ r \in 0 .. c - 1 /\ n = m * c + r
  BY Quotient
<1> HIDE DEF m, r
<1>2. q \in Nat /\ s \in 0 .. d - 1 /\ m = q * d + s
  BY <1>1, Quotient
<1> HIDE DEF q, s
<1>3. n = q * (c * d) + (s * c + r)
  <2>1. m * c = q * (c * d) + s * c
    BY <1>2
  <2> QED BY <1>1, <1>2, <2>1
<1>4. s * c + r \in Nat /\ s * c + r <= c * d - 1
  <2>1. s * c <= (d - 1) * c
    BY <1>2
  <2>2. (d - 1) * c = c * d - c
    OBVIOUS
  <2>3. s * c \in Nat /\ c * d \in Nat
    BY <1>2
  <2> QED BY <1>1, <2>1, <2>2, <2>3
<1>5. c * d \in Nat /\ c * d >= 1
  OBVIOUS
<1>6. n \div (c * d) = q
  BY <1>2, <1>3, <1>4, <1>5, QuotientUnique
<1> QED BY <1>6 DEF q, m

-----------------------------------------------------------------------------
(* The sizes. *)
LEMMA Sizes ==
  /\ ByteBits \in Nat /\ BitSize \in Nat
  /\ Base \in Nat /\ Base >= 1
  /\ Size \in Nat
  /\ BitSize <= Size * ByteBits
<1>1. ByteBits \in Nat /\ ByteBits >= 1 /\ BitSize \in Nat
  BY SizesAssumption
<1>2. Base \in Nat /\ Base >= 1
  BY <1>1, TwoToPositive DEF Base
<1> DEFINE n == BitSize + ByteBits - 1
<1>3. n \in Nat
  BY <1>1
<1>4. /\ n \div ByteBits \in Nat
      /\ n % ByteBits \in 0 .. ByteBits - 1
      /\ n = (n \div ByteBits) * ByteBits + (n % ByteBits)
  <2> HIDE DEF n
  <2> QED BY <1>1, <1>3, Quotient
<1>5. Size = n \div ByteBits
  BY DEF Size
<1>6. Size * ByteBits \in Nat /\ n <= Size * ByteBits + (ByteBits - 1)
  <2> HIDE DEF n
  <2> QED BY <1>1, <1>3, <1>4, <1>5
<1>7. BitSize <= Size * ByteBits
  BY <1>1, <1>6
<1> QED BY <1>1, <1>2, <1>4, <1>5, <1>7

(* What is left of a number without its last bytes. *)
LEMMA DropBytesValues ==
  ASSUME NEW n \in Nat, NEW k \in Nat
  PROVE  /\ DropBytes(n, k) \in Nat
         /\ DropBytes(n, 0) = n
         /\ DropBytes(n, k) % Base \in 0 .. Base - 1
         /\ DropBytes(n, k + 1) = DropBytes(n, k) \div Base
         /\ DropBytes(n, k) = DropBytes(n, k + 1) * Base + (DropBytes(n, k) % Base)
<1>1. k * ByteBits \in Nat /\ (k + 1) * ByteBits = k * ByteBits + ByteBits /\ 0 * ByteBits = 0
  BY Sizes
<1>2. TwoTo[k * ByteBits] \in Nat /\ TwoTo[k * ByteBits] >= 1
  BY <1>1, TwoToPositive
<1>3. TwoTo[(k + 1) * ByteBits] = TwoTo[k * ByteBits] * Base
  BY <1>1, Sizes, TwoToSum DEF Base
<1>4. DropBytes(n, k) \in Nat
  BY <1>2, Quotient DEF DropBytes
<1>5. DropBytes(n, 0) = n
  BY <1>1, TwoToValues DEF DropBytes
<1>6. DropBytes(n, k + 1) = DropBytes(n, k) \div Base
  BY <1>2, <1>3, Sizes, QuotientOfQuotient DEF DropBytes
<1>7. /\ DropBytes(n, k) % Base \in 0 .. Base - 1
      /\ DropBytes(n, k) = (DropBytes(n, k) \div Base) * Base + (DropBytes(n, k) % Base)
  BY <1>4, Sizes, Quotient
<1> QED BY <1>4, <1>5, <1>6, <1>7

LEMMA NumbersFit ==
  ASSUME NEW n \in Numbers
  PROVE  n \in Nat /\ DropBytes(n, Size) = 0
<1>1. TwoTo[BitSize] \in Nat /\ n \in Nat /\ n < TwoTo[BitSize]
  BY Sizes, TwoToPositive DEF Numbers
<1>2. Size * ByteBits \in Nat
  BY Sizes
<1>3. TwoTo[BitSize] <= TwoTo[Size * ByteBits]
  BY <1>2, Sizes, TwoToMonotone
<1>4. TwoTo[Size * ByteBits] \in Nat /\ TwoTo[Size * ByteBits] >= 1
  BY <1>2, TwoToPositive
<1>5. n = 0 * TwoTo[Size * ByteBits] + n /\ n \in 0 .. TwoTo[Size * ByteBits] - 1
  BY <1>1, <1>3, <1>4
<1>6. n \div TwoTo[Size * ByteBits] = 0
  BY <1>1, <1>4, <1>5, QuotientUnique
<1> QED BY <1>1, <1>6 DEF DropBytes

(* The number of bytes without leading zeros exists. *)
LEMMA NumBytesValues ==
  ASSUME NEW n \in Numbers
  PROVE  /\ NumBytes(n) \in 0 .. Size
         /\ DropBytes(n, NumBytes(n)) = 0
         /\ NumBytes(n) > 0 => DropBytes(n, NumBytes(n) - 1) # 0
<1> DEFINE Shortest(k) == DropBytes(n, k) = 0 /\ (k > 0 => DropBytes(n, k - 1) # 0)
<1>1. \E k \in 0 .. Size : Shortest(k)
  <2>1. SUFFICES ASSUME \A k \in 0 .. Size : ~ Shortest(k)
                 PROVE  FALSE
    OBVIOUS
  <2> DEFINE S == {k \in Nat : k <= Size => DropBytes(n, k) # 0}
  <2>2. 0 \in S
    BY <2>1, Sizes
  <2>3. ASSUME NEW k \in Nat, k \in S
        PROVE  k + 1 \in S
    BY <2>1, <2>3, Sizes
  <2>4. Size \in S
    <3> HIDE DEF S
    <3> QED BY <2>2, <2>3, Sizes, InductionOnASet
  <2> QED BY <2>4, Sizes, NumbersFit
<1>2. NumBytes(n) = CHOOSE k \in 0 .. Size : Shortest(k)
  BY DEF NumBytes
<1>3. NumBytes(n) \in 0 .. Size /\ Shortest(NumBytes(n))
  <2> HIDE DEF Shortest
  <2> QED BY <1>1, <1>2
<1> QED BY <1>3

-----------------------------------------------------------------------------
(* The strings of bytes. *)
LEMMA BytesType ==
  ASSUME NEW n \in Numbers
  PROVE  Bytes(n) \in Seq(Nat) /\ Len(Bytes(n)) = NumBytes(n)
<1>1. NumBytes(n) \in Nat
  BY NumBytesValues, Sizes
<1>2. \A i \in 1 .. NumBytes(n) : DropBytes(n, NumBytes(n) - i) % Base \in Nat
  <2>1. ASSUME NEW i \in 1 .. NumBytes(n)
        PROVE  DropBytes(n, NumBytes(n) - i) % Base \in Nat
    <3>1. NumBytes(n) - i \in Nat
      BY <1>1
    <3> QED BY <3>1, NumbersFit, DropBytesValues, Sizes
  <2> QED BY <2>1
<1> DEFINE m == NumBytes(n)
           byte(i) == DropBytes(n, NumBytes(n) - i) % Base
<1>3. Bytes(n) = [i \in 1 .. m |-> byte(i)]
  BY DEF Bytes
<1> HIDE DEF m, byte
<1>4. m \in Nat /\ \A i \in 1 .. m : byte(i) \in Nat
  BY <1>1, <1>2 DEF m, byte
<1>5. Bytes(n) \in Seq(Nat) /\ Len(Bytes(n)) = m
  BY <1>3, <1>4
<1> QED BY <1>5 DEF m

LEMMA PadLeftType ==
  ASSUME NEW n \in Numbers
  PROVE  PadLeft(n) \in Seq(Nat) /\ Len(PadLeft(n)) = Size
<1> DEFINE z == Size - NumBytes(n)
<1>1. z \in Nat /\ NumBytes(n) \in Nat /\ z + NumBytes(n) = Size
  BY NumBytesValues, Sizes
<1>2. PadLeft(n) = Zeros(z) \o Bytes(n)
  BY DEF PadLeft
<1> HIDE DEF z
<1>3. Zeros(z) \in Seq(Nat) /\ Len(Zeros(z)) = z
  <2>1. Zeros(z) = [i \in 1 .. z |-> 0]
    BY DEF Zeros
  <2> QED BY <1>1, <2>1
<1>4. PadLeft(n) \in Seq(Nat) /\ Len(PadLeft(n)) = z + NumBytes(n)
  BY <1>2, <1>3, BytesType, ConcatProperties
<1> QED BY <1>1, <1>4

-----------------------------------------------------------------------------
(* What big.Int.SetBytes reads, byte by byte. *)
LEMMA SetBytesValues ==
  ASSUME NEW b \in Seq(Nat)
  PROVE  \E v : /\ v[0] = 0
                /\ \A i \in 0 .. Len(b) : v[i] \in Nat
                /\ \A i \in 0 .. Len(b) - 1 : v[i + 1] = v[i] * Base + b[i + 1]
                /\ SetBytes(b) = v[Len(b)]
<1>1. Len(b) \in Nat /\ \A i \in 1 .. Len(b) : b[i] \in Nat
  OBVIOUS
<1>2. Base \in Nat
  BY Sizes
<1> DEFINE byte == [i \in Nat |-> IF i < Len(b) THEN b[i + 1] ELSE 0]
           step == [i \in Nat |-> [x \in Nat |-> x * Base + byte[i]]]
<1>3. step \in [Nat -> [Nat -> Nat]]
  <2>1. \A i \in Nat : byte[i] \in Nat
    BY <1>1
  <2> HIDE DEF byte
  <2>2. \A x, y, w \in Nat : x * y + w \in Nat
    OBVIOUS
  <2>3. \A i, x \in Nat : x * Base + byte[i] \in Nat
    BY <1>2, <2>1, <2>2
  <2> QED BY <2>3
<1>4. PICK g : Recursive(g, Nat, 0, step)
  <2> HIDE DEF step
  <2> QED BY <1>3, Recursion
<1>5. /\ g \in [Nat -> Nat] /\ g[0] = 0
      /\ \A i \in 0 .. Len(b) - 1 : g[i + 1] = g[i] * Base + b[i + 1]
  <2>1. g \in [Nat -> Nat] /\ g[0] = 0 /\ \A i \in Nat : g[i + 1] = step[i][g[i]]
    <3> HIDE DEF step
    <3> QED BY <1>4 DEF Recursive
  <2>2. \A i, x \in Nat : step[i][x] = x * Base + byte[i]
    <3> HIDE DEF byte
    <3> QED OBVIOUS
  <2>3. \A i \in Nat : g[i + 1] = g[i] * Base + byte[i]
    <3> HIDE DEF byte, step
    <3> QED BY <2>1, <2>2
  <2>4. \A i \in 0 .. Len(b) - 1 : byte[i] = b[i + 1]
    BY <1>1
  <2> HIDE DEF byte, step
  <2>5. ASSUME NEW i \in 0 .. Len(b) - 1
        PROVE  g[i + 1] = g[i] * Base + b[i + 1]
    <3>1. i \in Nat
      BY <1>1
    <3>2. g[i + 1] = g[i] * Base + byte[i]
      BY <2>3, <3>1
    <3>3. byte[i] = b[i + 1]
      BY <2>4
    <3> QED BY <3>2, <3>3
  <2> QED BY <2>1, <2>5
<1> HIDE DEF byte, step
<1> DEFINE h == [i \in 0 .. Len(b) |-> g[i]]
           v == CHOOSE value : value = [i \in 0 .. Len(b) |->
                                          IF i = 0 THEN 0 ELSE value[i - 1] * Base + b[i]]
<1>6. h = [i \in 0 .. Len(b) |-> IF i = 0 THEN 0 ELSE h[i - 1] * Base + b[i]]
  <2>1. ASSUME NEW i \in 0 .. Len(b)
        PROVE  h[i] = IF i = 0 THEN 0 ELSE h[i - 1] * Base + b[i]
    <3>1. CASE i = 0
      BY <1>1, <1>5, <3>1
    <3>2. CASE i # 0
      <4>1. i - 1 \in 0 .. Len(b) - 1 /\ i - 1 \in 0 .. Len(b) /\ (i - 1) + 1 = i
        BY <1>1, <3>2
      <4>2. h[i] = g[i] /\ h[i - 1] = g[i - 1]
        BY <4>1
      <4>3. g[i] = g[i - 1] * Base + b[i]
        BY <1>5, <4>1
      <4> QED BY <3>2, <4>2, <4>3
    <3> QED BY <3>1, <3>2
  <2> QED BY <2>1
<1>7. v = [i \in 0 .. Len(b) |-> IF i = 0 THEN 0 ELSE v[i - 1] * Base + b[i]]
  <2> HIDE DEF h
  <2> QED BY <1>6, Zenon
<1>8. SetBytes(b) = v[Len(b)]
  BY Zenon DEF SetBytes
<1> HIDE DEF h, v
<1>9. v[0] = 0 /\ \A i \in 0 .. Len(b) - 1 : v[i + 1] = v[i] * Base + b[i + 1]
  <2>1. v[0] = 0
    BY <1>1, <1>7
  <2>2. ASSUME NEW i \in 0 .. Len(b) - 1
        PROVE  v[i + 1] = v[i] * Base + b[i + 1]
    <3>1. i + 1 \in 0 .. Len(b) /\ i + 1 # 0 /\ (i + 1) - 1 = i
      BY <1>1
    <3> QED BY <1>7, <3>1
  <2> QED BY <2>1, <2>2
<1>10. \A i \in 0 .. Len(b) : v[i] \in Nat
  <2> DEFINE S == {i \in Nat : i <= Len(b) => v[i] \in Nat}
  <2>1. 0 \in S
    BY <1>9
  <2>2. ASSUME NEW i \in Nat, i \in S
        PROVE  i + 1 \in S
    <3>1. CASE i + 1 <= Len(b)
      <4>1. i \in 0 .. Len(b) - 1 /\ v[i] \in Nat /\ b[i + 1] \in Nat
        BY <1>1, <2>2, <3>1
      <4>2. v[i] * Base + b[i + 1] \in Nat
        <5>1. \A x, y, w \in Nat : x * y + w \in Nat
          OBVIOUS
        <5> QED BY <1>2, <4>1, <5>1
      <4> QED BY <1>9, <4>1, <4>2
    <3>2. CASE ~ (i + 1 <= Len(b))
      BY <3>2
    <3> QED BY <3>1, <3>2
  <2>3. \A i \in Nat : i \in S
    <3> HIDE DEF S
    <3> QED BY <2>1, <2>2, InductionOnASet
  <2> QED BY <1>1, <2>3
<1> QED BY <1>8, <1>9, <1>10

(* Bytes with any number of zeros before them are read as their number. *)
LEMMA ReadBytes ==
  ASSUME NEW n \in Numbers, NEW b \in Seq(Nat), NEW z \in Nat,
         Len(b) = z + NumBytes(n),
         \A i \in 1 .. z : b[i] = 0,
         \A i \in 1 .. NumBytes(n) : b[z + i] = Bytes(n)[i]
  PROVE  SetBytes(b) = n
<1> DEFINE m == NumBytes(n)
           l == Len(b)
<1>1. m \in Nat /\ l = z + m /\ l \in Nat
  BY NumBytesValues, Sizes
<1>2. PICK v : /\ v[0] = 0
               /\ \A i \in 0 .. l - 1 : v[i + 1] = v[i] * Base + b[i + 1]
               /\ SetBytes(b) = v[l]
  BY SetBytesValues
<1>3. \A i \in 1 .. m : b[z + i] = DropBytes(n, m - i) % Base
  BY DEF Bytes
<1>4. n \in Nat /\ DropBytes(n, m) = 0 /\ DropBytes(n, 0) = n
  BY NumbersFit, NumBytesValues, DropBytesValues
<1> HIDE DEF m, l
<1> DEFINE S == {i \in Nat : i <= l => v[i] = IF i <= z THEN 0 ELSE DropBytes(n, l - i)}
<1>5. 0 \in S
  BY <1>2
<1>6. ASSUME NEW i \in Nat, i \in S
      PROVE  i + 1 \in S
  <2>1. SUFFICES ASSUME i + 1 <= l
                 PROVE  v[i + 1] = IF i + 1 <= z THEN 0 ELSE DropBytes(n, l - (i + 1))
    OBVIOUS
  <2>2. v[i + 1] = v[i] * Base + b[i + 1]
    BY <1>1, <1>2, <2>1
  <2>3. v[i] = IF i <= z THEN 0 ELSE DropBytes(n, l - i)
    BY <1>1, <1>6, <2>1
  <2>4. CASE i + 1 <= z
    <3>1. v[i] = 0 /\ b[i + 1] = 0
      BY <2>3, <2>4
    <3> QED BY <2>2, <2>4, <3>1, Sizes
  <2>5. CASE ~ (i + 1 <= z)
    <3> DEFINE k == l - (i + 1)
    <3>1. k \in Nat /\ k + 1 = l - i /\ (i + 1) - z \in 1 .. m /\ m - ((i + 1) - z) = k
      BY <1>1, <2>1, <2>5
    <3>2. v[i] = DropBytes(n, k + 1)
      <4>1. CASE i = z
        <5>1. k + 1 = m
          BY <1>1, <4>1
        <5> QED BY <1>4, <2>3, <4>1, <5>1
      <4>2. CASE i # z
        BY <2>3, <2>5, <3>1, <4>2
      <4> QED BY <4>1, <4>2
    <3>3. b[i + 1] = DropBytes(n, k) % Base
      <4>1. z + ((i + 1) - z) = i + 1
        OBVIOUS
      <4> QED BY <1>3, <3>1, <4>1
    <3>4. DropBytes(n, k) = DropBytes(n, k + 1) * Base + (DropBytes(n, k) % Base)
      <4> HIDE DEF k
      <4> QED BY <1>4, <3>1, DropBytesValues
    <3>5. v[i + 1] = DropBytes(n, k)
      <4> HIDE DEF k
      <4> QED BY <2>2, <3>2, <3>3, <3>4
    <3> QED BY <2>5, <3>5
  <2> QED BY <2>4, <2>5
<1>7. l \in S
  <2> HIDE DEF S
  <2> QED BY <1>1, <1>5, <1>6, InductionOnASet
<1>8. v[l] = n
  <2>1. CASE l <= z
    <3>1. m = 0 /\ v[l] = 0
      BY <1>1, <1>7, <2>1
    <3> QED BY <1>4, <3>1
  <2>2. CASE ~ (l <= z)
    <3>1. v[l] = DropBytes(n, l - l) /\ l - l = 0
      BY <1>1, <1>7, <2>2
    <3> QED BY <1>4, <3>1
  <2> QED BY <2>1, <2>2
<1> QED BY <1>2, <1>8

(* The padded bytes, their zeros and what is read of them. *)
LEMMA PadLeftValues ==
  ASSUME NEW n \in Numbers
  PROVE  /\ \A i \in 1 .. Size - NumBytes(n) : PadLeft(n)[i] = 0
         /\ \A i \in 1 .. NumBytes(n) : PadLeft(n)[(Size - NumBytes(n)) + i] = Bytes(n)[i]
<1> DEFINE m == NumBytes(n)
           z == Size - m
<1>1. z \in Nat /\ m \in Nat
  BY NumBytesValues, Sizes
<1>2. PadLeft(n) = Zeros(z) \o Bytes(n)
  BY DEF PadLeft
<1>3. Bytes(n) \in Seq(Nat) /\ Len(Bytes(n)) = m
  BY BytesType
<1> HIDE DEF m, z
<1>4. Zeros(z) = [i \in 1 .. z |-> 0]
  BY DEF Zeros
<1>5. Zeros(z) \in Seq(Nat) /\ Len(Zeros(z)) = z
  BY <1>1, <1>4
<1>6. \A i \in 1 .. z + m : PadLeft(n)[i] = IF i <= z THEN Zeros(z)[i] ELSE Bytes(n)[i - z]
  BY <1>2, <1>3, <1>5, ConcatProperties
<1>7. \A i \in 1 .. z : PadLeft(n)[i] = 0
  BY <1>1, <1>4, <1>6
<1>8. ASSUME NEW i \in 1 .. m
      PROVE  PadLeft(n)[z + i] = Bytes(n)[i]
  <2>1. z + i \in 1 .. z + m /\ ~ (z + i <= z) /\ (z + i) - z = i
    BY <1>1
  <2> QED BY <1>6, <2>1
<1> QED BY <1>7, <1>8 DEF m, z

LEMMA ReadPadLeft ==
  ASSUME NEW n \in Numbers, NEW b \in Seq(Nat), Len(b) = Size,
         \A i \in 1 .. Size : b[i] = PadLeft(n)[i]
  PROVE  SetBytes(b) = n
<1> DEFINE z == Size - NumBytes(n)
<1>1. z \in Nat /\ NumBytes(n) \in Nat /\ Len(b) = z + NumBytes(n) /\ Size = z + NumBytes(n)
  BY NumBytesValues, Sizes
<1>2. \A i \in 1 .. z : i \in 1 .. Size
  BY <1>1
<1>3. \A i \in 1 .. NumBytes(n) : z + i \in 1 .. Size
  BY <1>1
<1>4. \A i \in 1 .. z : b[i] = 0
  BY <1>2, PadLeftValues
<1>5. \A i \in 1 .. NumBytes(n) : b[z + i] = Bytes(n)[i]
  BY <1>3, PadLeftValues
<1> HIDE DEF z
<1> QED BY <1>1, <1>4, <1>5, ReadBytes

LEMMA ReadUnpadded ==
  ASSUME NEW n \in Numbers
  PROVE  SetBytes(Bytes(n)) = n
<1>1. Bytes(n) \in Seq(Nat) /\ Len(Bytes(n)) = 0 + NumBytes(n) /\ NumBytes(n) \in Nat
  BY BytesType, NumBytesValues, Sizes
<1>2. \A i \in 1 .. NumBytes(n) : Bytes(n)[0 + i] = Bytes(n)[i]
  <2>1. \A i \in 1 .. NumBytes(n) : 0 + i = i
    BY <1>1
  <2> QED BY <2>1
<1>3. 0 \in Nat /\ \A i \in 1 .. 0 : Bytes(n)[i] = 0
  OBVIOUS
<1> QED BY <1>1, <1>2, <1>3, ReadBytes

(* Unpadded bytes have no leading zero. *)
LEMMA FirstByte ==
  ASSUME NEW n \in Numbers, Bytes(n) # <<>>
  PROVE  Head(Bytes(n)) # 0
<1> DEFINE m == NumBytes(n)
<1>1. Bytes(n) \in Seq(Nat) /\ Len(Bytes(n)) = m /\ m \in Nat
  BY BytesType, NumBytesValues, Sizes
<1>2. m > 0
  BY <1>1
<1>3. m - 1 \in Nat /\ (m - 1) + 1 = m
  BY <1>1, <1>2
<1>4. Head(Bytes(n)) = DropBytes(n, m - 1) % Base
  <2>1. Head(Bytes(n)) = Bytes(n)[1]
    BY <1>1, <1>2
  <2>2. 1 \in 1 .. m
    BY <1>1, <1>2
  <2>3. Bytes(n)[1] = DropBytes(n, m - 1) % Base
    BY <2>2 DEF Bytes
  <2> QED BY <2>1, <2>3
<1>5. DropBytes(n, m) = 0 /\ DropBytes(n, m - 1) # 0
  BY <1>2, NumBytesValues
<1> HIDE DEF m
<1>6. DropBytes(n, m - 1) = DropBytes(n, m) * Base + (DropBytes(n, m - 1) % Base)
  BY <1>3, NumbersFit, DropBytesValues
<1>7. DropBytes(n, m - 1) % Base \in Nat /\ 0 * Base = 0
  <2>1. DropBytes(n, m - 1) % Base \in 0 .. Base - 1
    BY <1>3, NumbersFit, DropBytesValues
  <2> QED BY <2>1, Sizes
<1> QED BY <1>4, <1>5, <1>6, <1>7

-----------------------------------------------------------------------------
LEMMA Piece ==
  ASSUME NEW sig \in Seq(Nat), NEW m \in Nat, NEW k \in Nat, m + k <= Len(sig)
  PROVE  /\ SubSeq(sig, m + 1, m + k) \in Seq(Nat)
         /\ Len(SubSeq(sig, m + 1, m + k)) = k
         /\ \A i \in 1 .. k : SubSeq(sig, m + 1, m + k)[i] = sig[m + i]
<1> DEFINE f == m + 1
           l == m + k
<1>1. f \in Int /\ l \in Int /\ \A i \in f .. l : sig[i] \in Nat
  OBVIOUS
<1>2. (IF f <= l THEN l - f + 1 ELSE 0) = k /\ l - f + 1 = k
  OBVIOUS
<1>3. \A i \in 1 .. k : f + i - 1 = m + i
  OBVIOUS
<1> HIDE DEF f, l
<1>4. /\ SubSeq(sig, f, l) \in Seq(Nat)
      /\ Len(SubSeq(sig, f, l)) = IF f <= l THEN l - f + 1 ELSE 0
      /\ \A i \in 1 .. l - f + 1 : SubSeq(sig, f, l)[i] = sig[f + i - 1]
  BY <1>1, SubSeqProperties
<1>5. SubSeq(sig, f, l) \in Seq(Nat) /\ Len(SubSeq(sig, f, l)) = k
  BY <1>2, <1>4
<1>6. \A i \in 1 .. k : SubSeq(sig, f, l)[i] = sig[m + i]
  BY <1>2, <1>3, <1>4
<1> QED BY <1>5, <1>6 DEF f, l

(* A signature is cut between its two halves, both of the curve's size. *)
LEMMA ReadSignature ==
  ASSUME NEW r \in Numbers, NEW s \in Numbers
  PROVE  /\ Len(Sign(r, s)[1]) = 2 * Size
         /\ Halves(Sign(r, s)[1]) = <<r, s>>
<1> DEFINE sig == PadLeft(r) \o PadLeft(s)
<1>1. Sign(r, s)[1] = sig
  BY DEF Sign
<1>2. /\ PadLeft(r) \in Seq(Nat) /\ Len(PadLeft(r)) = Size
      /\ PadLeft(s) \in Seq(Nat) /\ Len(PadLeft(s)) = Size
      /\ Size \in Nat
  BY PadLeftType, Sizes
<1>3. /\ sig \in Seq(Nat) /\ Len(sig) = Size + Size
      /\ \A i \in 1 .. Size + Size :
           sig[i] = IF i <= Size THEN PadLeft(r)[i] ELSE PadLeft(s)[i - Size]
  <2> DEFINE p == PadLeft(r)
             q == PadLeft(s)
  <2>1. p \in Seq(Nat) /\ q \in Seq(Nat)
    BY <1>2
  <2>2. Len(p) = Size /\ Len(q) = Size
    BY <1>2
  <2> HIDE DEF p, q
  <2>3. /\ p \o q \in Seq(Nat)
        /\ Len(p \o q) = Len(p) + Len(q)
        /\ \A i \in 1 .. Len(p) + Len(q) :
             (p \o q)[i] = IF i <= Len(p) THEN p[i] ELSE q[i - Len(p)]
    BY <2>1, ConcatProperties
  <2>4. sig = p \o q
    BY DEF p, q
  <2> QED BY <2>2, <2>3, <2>4 DEF p, q
<1> HIDE DEF sig
<1>4. Size + Size = 2 * Size /\ Len(sig) \div 2 = Size
  BY <1>2, <1>3
<1> DEFINE a == SubSeq(sig, 1, Size)
           b == SubSeq(sig, Size + 1, Len(sig))
<1>5. a \in Seq(Nat) /\ Len(a) = Size /\ \A i \in 1 .. Size : a[i] = PadLeft(r)[i]
  <2>1. a \in Seq(Nat) /\ Len(a) = Size /\ \A i \in 1 .. Size : a[i] = sig[i]
    <3>1. 0 \in Nat /\ 0 + Size <= Len(sig) /\ 0 + 1 = 1 /\ 0 + Size = Size
      BY <1>2, <1>3
    <3>2. \A i \in 1 .. Size : 0 + i = i
      BY <1>2
    <3> QED BY <1>2, <1>3, <3>1, <3>2, Piece
  <2>2. \A i \in 1 .. Size : i \in 1 .. Size + Size /\ i <= Size
    BY <1>2
  <2> HIDE DEF a
  <2> QED BY <1>3, <2>1, <2>2
<1>6. b \in Seq(Nat) /\ Len(b) = Size /\ \A i \in 1 .. Size : b[i] = PadLeft(s)[i]
  <2>1. b \in Seq(Nat) /\ Len(b) = Size /\ \A i \in 1 .. Size : b[i] = sig[Size + i]
    <3>1. Size + Size <= Len(sig) /\ Len(sig) = Size + Size
      BY <1>2, <1>3
    <3> QED BY <1>2, <1>3, <3>1, Piece
  <2>2. \A i \in 1 .. Size : /\ Size + i \in 1 .. Size + Size
                              /\ ~ (Size + i <= Size) /\ (Size + i) - Size = i
    BY <1>2
  <2> HIDE DEF b
  <2> QED BY <1>3, <2>1, <2>2
<1>7. SetBytes(a) = r /\ SetBytes(b) = s
  <2> HIDE DEF a, b
  <2> QED BY <1>5, <1>6, ReadPadLeft
<1>8. Halves(sig) = <<SetBytes(a), SetBytes(b)>>
  BY <1>4 DEF Halves
<1> QED BY <1>1, <1>3, <1>4, <1>7, <1>8

LEMMA ReadPublicKey ==
  ASSUME NEW kty \in Kinds, NEW a \in Numbers, NEW b \in Numbers
  PROVE  LET jwk == PublicKeyToJWK(kty, a, b)
         IN  /\ <<SetBytes(jwk[1]), SetBytes(jwk[2])>> = <<a, b>>
             /\ kty = "EC" => Len(jwk[1]) = Size /\ Len(jwk[2]) = Size
             /\ kty # "EC" => \A i \in 1 .. 2 : jwk[i] # <<>> => Head(jwk[i]) # 0
<1>1. CASE kty = "EC"
  <2>1. /\ PadLeft(a) \in Seq(Nat) /\ Len(PadLeft(a)) = Size
        /\ PadLeft(b) \in Seq(Nat) /\ Len(PadLeft(b)) = Size
    BY PadLeftType
  <2>2. SetBytes(PadLeft(a)) = a /\ SetBytes(PadLeft(b)) = b
    BY <2>1, ReadPadLeft
  <2> QED BY <1>1, <2>1, <2>2 DEF PublicKeyToJWK
<1>2. CASE kty # "EC"
  <2>1. SetBytes(Bytes(a)) = a /\ SetBytes(Bytes(b)) = b
    BY ReadUnpadded
  <2>2. /\ Bytes(a) # <<>> => Head(Bytes(a)) # 0
        /\ Bytes(b) # <<>> => Head(Bytes(b)) # 0
    BY FirstByte
  <2>3. \A i \in 1 .. 2 : i = 1 \/ i = 2
    OBVIOUS
  <2> QED BY <1>2, <2>1, <2>2, <2>3 DEF PublicKeyToJWK
<1> QED BY <1>1, <1>2

-----------------------------------------------------------------------------
(* What travels is what was encoded, and what is read is what was sent. *)
EncodingInv ==
  /\ sent \in Kinds \X Numbers \X Numbers
  /\ wire # <<>> =>
       wire = IF sent[1] = "signature" THEN Sign(sent[2], sent[3])
              ELSE PublicKeyToJWK(sent[1], sent[2], sent[3])
  /\ RoundTrip

LEMMA EncodingInvariant == Spec => []EncodingInv
<1>1. Init => EncodingInv
  BY DEF Init, EncodingInv, RoundTrip
<1>2. ASSUME EncodingInv, [Next]_transfer
      PROVE  EncodingInv'
  <2> USE <1>2
  <2>1. sent[1] \in Kinds /\ sent[2] \in Numbers /\ sent[3] \in Numbers
    BY DEF EncodingInv
  <2>2. CASE Encode
    <3>1. received # <<>> => received' = <<sent'[2], sent'[3]>>
      BY <2>2 DEF Encode, EncodingInv, RoundTrip
    <3> QED BY <2>2, <3>1 DEF Encode, EncodingInv, RoundTrip
  <2>3. CASE Decode
    <3>1. UNCHANGED <<sent, wire>> /\ wire # <<>>
      BY <2>3 DEF Decode
    <3>2. received' = <<sent[2], sent[3]>>
      <4>1. CASE sent[1] = "signature"
        <5>1. received' = Halves(Sign(sent[2], sent[3])[1])
          BY <2>3, <3>1, <4>1 DEF Decode, EncodingInv
        <5> QED BY <2>1, <5>1, ReadSignature
      <4>2. CASE sent[1] # "signature"
        <5> DEFINE jwk == PublicKeyToJWK(sent[1], sent[2], sent[3])
        <5>1. received' = <<SetBytes(jwk[1]), SetBytes(jwk[2])>>
          BY <2>3, <3>1, <4>2 DEF Decode, EncodingInv
        <5>2. <<SetBytes(jwk[1]), SetBytes(jwk[2])>> = <<sent[2], sent[3]>>
          BY <2>1, ReadPublicKey
        <5> QED BY <5>1, <5>2
      <4> QED BY <4>1, <4>2
    <3> QED BY <3>1, <3>2 DEF EncodingInv, RoundTrip
  <2>4. CASE UNCHANGED transfer
    BY <2>4 DEF transfer, EncodingInv, RoundTrip
  <2> QED BY <2>2, <2>3, <2>4 DEF Next
<1> QED BY <1>1, <1>2, PTL DEF Spec

(* For bytes of any width and curves of any size, the numbers read from a  *)
(* signature or a key are the numbers it was made of.                      *)
THEOREM RoundTripHolds == Spec => []RoundTrip
<1>1. EncodingInv => RoundTrip
  BY DEF EncodingInv
<1> QED BY <1>1, EncodingInvariant, PTL

(* A signature always has two curve sizes of bytes, an EC member one, and  *)
(* an RSA member no leading zero.                                          *)
THEOREM FixedLengthHolds == Spec => []FixedLength
<1>1. ASSUME EncodingInv
      PROVE  FixedLength
  <2>1. sent[1] \in Kinds /\ sent[2] \in Numbers /\ sent[3] \in Numbers
    BY <1>1 DEF EncodingInv
  <2>2. SUFFICES ASSUME wire # <<>>
                 PROVE  CASE sent[1] = "signature" -> Len(wire[1]) = 2 * Size
                          [] sent[1] = "EC" -> Len(wire[1]) = Size /\ Len(wire[2]) = Size
                          [] OTHER -> \A i \in 1 .. 2 : wire[i] # <<>> => Head(wire[i]) # 0
    BY DEF FixedLength
  <2>3. CASE sent[1] = "signature"
    <3>1. wire = Sign(sent[2], sent[3])
      BY <1>1, <2>2, <2>3 DEF EncodingInv
    <3>2. Len(wire[1]) = 2 * Size
      BY <2>1, <3>1, ReadSignature
    <3> QED BY <2>3, <3>2
  <2>4. CASE sent[1] # "signature"
    <3>1. wire = PublicKeyToJWK(sent[1], sent[2], sent[3])
      BY <1>1, <2>2, <2>4 DEF EncodingInv
    <3>2. /\ sent[1] = "EC" => Len(wire[1]) = Size /\ Len(wire[2]) = Size
          /\ sent[1] # "EC" => \A i \in 1 .. 2 : wire[i] # <<>> => Head(wire[i]) # 0
      BY <2>1, <3>1, ReadPublicKey
    <3> QED BY <2>4, <3>2
  <2> QED BY <2>3, <2>4
<1> QED BY <1>1, EncodingInvariant, PTL
=============================================================================
