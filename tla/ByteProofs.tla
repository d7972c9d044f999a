----------------------------- MODULE ByteProofs ------------------------------
(***************************************************************************)
(* The byte arithmetic and the instruction formats for every operand and   *)
(* every word: what the loops over bytes of bytemanip.h compute is what    *)
(* the manual says of words, bit by bit or as numbers.  Words are four     *)
(* bytes; a vector is compared with a word by its bits (fields, immediates *)
(* and shifts) or by its halves (sums, differences and orders).            *)
(***************************************************************************)
EXTENDS DatapathProperties, TLAPS

-----------------------------------------------------------------------------
(* Bytes and their bits. *)

LEMMA Powers ==
  /\ 2^0 = 1 /\ 2^1 = 2 /\ 2^2 = 4 /\ 2^3 = 8 /\ 2^4 = 16
  /\ 2^5 = 32 /\ 2^6 = 64 /\ 2^7 = 128 /\ 2^8 = 256
OBVIOUS

LEMMA BitValues ==
  ASSUME NEW b \in Byte
  PROVE  /\ Bit(b, 0) = b % 2
         /\ Bit(b, 1) = (b \div 2) % 2
         /\ Bit(b, 2) = (b \div 4) % 2
         /\ Bit(b, 3) = (b \div 8) % 2
         /\ Bit(b, 4) = (b \div 16) % 2
         /\ Bit(b, 5) = (b \div 32) % 2
         /\ Bit(b, 6) = (b \div 64) % 2
         /\ Bit(b, 7) = (b \div 128) % 2
BY Powers DEF Bit, Byte

LEMMA BitRange ==
  ASSUME NEW b \in Byte, NEW i \in 0 .. 7
  PROVE Bit(b, i) \in {0, 1}
BY BitValues DEF Byte

LEMMA JoinOfBits ==
  ASSUME NEW b \in Byte
  PROVE b = Join([i \in 0 .. 7 |-> Bit(b, i)])
<1>1. b = Bit(b,0) + 2 * Bit(b,1) + 4*Bit(b,2) + 8*Bit(b,3) + 16*Bit(b,4)+32*Bit(b,5)+64*Bit(b,6)+128*Bit(b,7)
  BY BitValues DEF Byte
<1> QED BY <1>1 DEF Join

LEMMA BitsOfJoin ==
  ASSUME NEW f \in [0 .. 7 -> {0, 1}]
  PROVE  /\ Join(f) \in Byte
         /\ \A i \in 0 .. 7 : Bit(Join(f), i) = f[i]
<1> DEFINE j == f[0] + 2 * f[1] + 4 * f[2] + 8 * f[3]
              + 16 * f[4] + 32 * f[5] + 64 * f[6] + 128 * f[7]
<1>1. f[0] \in 0..1 /\ f[1] \in 0..1 /\ f[2] \in 0..1 /\ f[3] \in 0..1 /\ f[4] \in 0..1 /\ f[5] \in 0..1 /\ f[6] \in 0..1 /\ f[7] \in 0..1
  OBVIOUS
<1>2. j \in Byte
  BY <1>1 DEF Byte
<1>3. j % 2 = f[0] /\ (j \div 2) % 2 = f[1] /\ (j \div 4) % 2 = f[2] /\ (j \div 8) % 2 = f[3]
     /\ (j \div 16) % 2 = f[4] /\ (j \div 32) % 2 = f[5] /\ (j \div 64) % 2 = f[6] /\ (j \div 128) % 2 = f[7]
  BY <1>1
<1>4. Join(f) = j
  BY DEF Join
<1> HIDE DEF j
<1> QED BY <1>2, <1>3, <1>4, BitValues

LEMMA ByteIsItsBits ==
  ASSUME NEW a \in Byte, NEW b \in Byte,
         \A i \in 0 .. 7 : Bit(a, i) = Bit(b, i)
  PROVE a = b
<1>1. [i \in 0 .. 7 |-> Bit(a, i)] = [i \in 0 .. 7 |-> Bit(b, i)]
  OBVIOUS
<1> QED BY <1>1, JoinOfBits

LEMMA BitsOfOperators ==
  ASSUME NEW a \in Byte, NEW b \in Byte
  PROVE  /\ a & b \in Byte /\ a | b \in Byte /\ a ^^ b \in Byte
         /\ \A i \in 0 .. 7 :
              /\ Bit(a & b, i) = Bit(a, i) * Bit(b, i)
              /\ Bit(a | b, i) = IF Bit(a, i) + Bit(b, i) = 0 THEN 0 ELSE 1
              /\ Bit(a ^^ b, i) = (Bit(a, i) + Bit(b, i)) % 2
<1> DEFINE And == [i \in 0 .. 7 |-> Bit(a, i) * Bit(b, i)]
           Or  == [i \in 0 .. 7 |-> IF Bit(a, i) + Bit(b, i) = 0 THEN 0 ELSE 1]
           Xor == [i \in 0 .. 7 |-> (Bit(a, i) + Bit(b, i)) % 2]
<1>1. \A i \in 0 .. 7 : Bit(a, i) \in {0, 1} /\ Bit(b, i) \in {0, 1}
  BY BitRange
<1>2. And \in [0 .. 7 -> {0, 1}] /\ Or \in [0 .. 7 -> {0, 1}] /\ Xor \in [0 .. 7 -> {0, 1}]
  BY <1>1
<1>3. a & b = Join(And) /\ a | b = Join(Or) /\ a ^^ b = Join(Xor)
  BY DEF &, |, ^^
<1>4. \A i \in 0 .. 7 : /\ Bit(Join(And), i) = And[i] /\ Bit(Join(Or), i) = Or[i] /\ Bit(Join(Xor), i) = Xor[i]
  BY <1>2, BitsOfJoin
<1>5. Join(And) \in Byte /\ Join(Or) \in Byte /\ Join(Xor) \in Byte
  BY <1>2, BitsOfJoin
<1> QED BY <1>3, <1>4, <1>5

LEMMA ShiftsByNumbers ==
  ASSUME NEW b \in Byte
  PROVE  /\ Shl(b, 0) = b /\ Shl(b, 1) = (2 * b) % 256 /\ Shl(b, 2) = (4 * b) % 256
         /\ Shl(b, 3) = (8 * b) % 256 /\ Shl(b, 4) = (16 * b) % 256
         /\ Shl(b, 5) = (32 * b) % 256 /\ Shl(b, 6) = (64 * b) % 256
         /\ Shl(b, 7) = (128 * b) % 256 /\ Shl(b, 8) = 0
         /\ Shr(b, 0) = b /\ Shr(b, 1) = b \div 2 /\ Shr(b, 2) = b \div 4
         /\ Shr(b, 3) = b \div 8 /\ Shr(b, 4) = b \div 16 /\ Shr(b, 5) = b \div 32
         /\ Shr(b, 6) = b \div 64 /\ Shr(b, 7) = b \div 128 /\ Shr(b, 8) = 0
<1>1. /\ Shl(b, 0) = (b * 1) % 256 /\ Shl(b, 1) = (b * 2) % 256 /\ Shl(b, 2) = (b * 4) % 256
      /\ Shl(b, 3) = (b * 8) % 256 /\ Shl(b, 4) = (b * 16) % 256 /\ Shl(b, 5) = (b * 32) % 256
      /\ Shl(b, 6) = (b * 64) % 256 /\ Shl(b, 7) = (b * 128) % 256 /\ Shl(b, 8) = (b * 256) % 256
  BY Powers DEF Shl
<1>2. /\ Shr(b, 0) = b \div 1 /\ Shr(b, 1) = b \div 2 /\ Shr(b, 2) = b \div 4
      /\ Shr(b, 3) = b \div 8 /\ Shr(b, 4) = b \div 16 /\ Shr(b, 5) = b \div 32
      /\ Shr(b, 6) = b \div 64 /\ Shr(b, 7) = b \div 128 /\ Shr(b, 8) = b \div 256
  BY Powers DEF Shr
<1> QED BY <1>1, <1>2 DEF Byte

LEMMA ShiftedBytes ==
  ASSUME NEW b \in Byte, NEW n \in 0 .. 8
  PROVE  Shl(b, n) \in Byte /\ Shr(b, n) \in Byte
BY ShiftsByNumbers DEF Byte

LEMMA BitsOfShl ==
  ASSUME NEW b \in Byte, NEW n \in 0 .. 8, NEW i \in 0 .. 7
  PROVE  Bit(Shl(b, n), i) = IF i < n THEN 0 ELSE Bit(b, i - n)
<1>0. Shl(b, n) \in Byte
  BY ShiftedBytes
<1>1. CASE n = 0
  BY <1>1, ShiftsByNumbers
<1>2. CASE n = 1
  BY <1>0, <1>2, ShiftsByNumbers, BitValues DEF Byte
<1>3. CASE n = 2
  BY <1>0, <1>3, ShiftsByNumbers, BitValues DEF Byte
<1>4. CASE n = 3
  BY <1>0, <1>4, ShiftsByNumbers, BitValues DEF Byte
<1>5. CASE n = 4
  BY <1>0, <1>5, ShiftsByNumbers, BitValues DEF Byte
<1>6. CASE n = 5
  BY <1>0, <1>6, ShiftsByNumbers, BitValues DEF Byte
<1>7. CASE n = 6
  BY <1>0, <1>7, ShiftsByNumbers, BitValues DEF Byte
<1>8. CASE n = 7
  BY <1>0, <1>8, ShiftsByNumbers, BitValues DEF Byte
<1>9. CASE n = 8
  BY <1>0, <1>9, ShiftsByNumbers, BitValues DEF Byte
<1> QED BY <1>1, <1>2, <1>3, <1>4, <1>5, <1>6, <1>7, <1>8, <1>9

LEMMA BitsOfShr ==
  ASSUME NEW b \in Byte, NEW n \in 0 .. 8, NEW i \in 0 .. 7
  PROVE  Bit(Shr(b, n), i) = IF i + n > 7 THEN 0 ELSE Bit(b, i + n)
<1>0. Shr(b, n) \in Byte
  BY ShiftedBytes
<1>1. CASE n = 0
  BY <1>1, ShiftsByNumbers
<1>2. CASE n = 1
  BY <1>0, <1>2, ShiftsByNumbers, BitValues DEF Byte
<1>3. CASE n = 2
  BY <1>0, <1>3, ShiftsByNumbers, BitValues DEF Byte
<1>4. CASE n = 3
  BY <1>0, <1>4, ShiftsByNumbers, BitValues DEF Byte
<1>5. CASE n = 4
  BY <1>0, <1>5, ShiftsByNumbers, BitValues DEF Byte
<1>6. CASE n = 5
  BY <1>0, <1>6, ShiftsByNumbers, BitValues DEF Byte
<1>7. CASE n = 6
  BY <1>0, <1>7, ShiftsByNumbers, BitValues DEF Byte
<1>8. CASE n = 7
  BY <1>0, <1>8, ShiftsByNumbers, BitValues DEF Byte
<1>9. CASE n = 8
  BY <1>0, <1>9, ShiftsByNumbers, BitValues DEF Byte
<1> QED BY <1>1, <1>2, <1>3, <1>4, <1>5, <1>6, <1>7, <1>8, <1>9

-----------------------------------------------------------------------------
(* Words. *)

Words == [1 .. 4 -> Byte]
WordBit(w, i) == Bit(w[i \div 8 + 1], i % 8)

\* Byte f holds the bits low .. high of w.
Slices(w, f, low, high) ==
  /\ f \in Byte
  /\ \A j \in 0 .. 7 : Bit(f, j) = IF low + j <= high THEN WordBit(w, low + j) ELSE 0

LEMMA WordBitsAre ==
  ASSUME NEW w \in Words
  PROVE  /\ \A i \in 0 .. 31 : /\ Machine!Bits(w)[i] = WordBit(w, i)
                               /\ WordBit(w, i) \in {0, 1}
<1>1. ASSUME NEW i \in 0 .. 31 PROVE i \div 8 + 1 \in 1 .. 4 /\ i % 8 \in 0 .. 7
  OBVIOUS
<1>2. ASSUME NEW i \in 0 .. 31
      PROVE Machine!Bits(w)[i] = WordBit(w, i) /\ WordBit(w, i) \in {0, 1}
  <2>1. w[i \div 8 + 1] \in Byte
    BY <1>1 DEF Words
  <2>2. WordBit(w, i) \in {0, 1}
    BY <1>1, <2>1, BitRange DEF WordBit
  <2>3. Machine!Bits(w)[i] = WordBit(w, i)
    BY DEF Machine!Bits, WordBit, Bit
  <2> QED BY <2>2, <2>3
<1> QED BY <1>2

LEMMA NumberIsJoin ==
  ASSUME NEW bits, NEW low \in Nat, NEW high \in Nat
  PROVE  Machine!Number(bits, low, high)
           = Join([j \in 0 .. 7 |-> IF low + j <= high THEN bits[low + j] ELSE 0])
BY DEF Machine!Number, Join

LEMMA SliceIsNumber ==
  ASSUME NEW w \in Words, NEW f, NEW low \in 0 .. 31, NEW high \in 0 .. 31, Slices(w, f, low, high)
  PROVE  f = Machine!Number(Machine!Bits(w), low, high)
<1> DEFINE n == [j \in 0 .. 7 |-> IF low + j <= high THEN Machine!Bits(w)[low + j] ELSE 0]
<1>1. \A j \in 0 .. 7 : low + j <= high => low + j \in 0 .. 31
  OBVIOUS
<1>2. n = [j \in 0 .. 7 |-> Bit(f, j)]
  BY <1>1, WordBitsAre DEF Slices
<1>3. f = Join(n)
  BY <1>2, JoinOfBits DEF Slices
<1>4. low \in Nat /\ high \in Nat
  OBVIOUS
<1> HIDE DEF n
<1>5. Machine!Number(Machine!Bits(w), low, high)
        = Join([j \in 0 .. 7 |-> IF low + j <= high THEN Machine!Bits(w)[low + j] ELSE 0])
  BY <1>4, NumberIsJoin
<1> QED BY <1>3, <1>5 DEF n

\* A word is known by its bits.
LEMMA WordOfBits ==
  ASSUME NEW v \in Words, NEW bits, \A i \in 0 .. 31 : bits[i] = WordBit(v, i)
  PROVE  v = Machine!Word(bits)
<1>1. ASSUME NEW k \in 1 .. 4 PROVE v[k] = Machine!Number(bits, 8 * k - 8, 8 * k - 1)
  <2> DEFINE n == [j \in 0 .. 7 |-> IF (8 * k - 8) + j <= 8 * k - 1 THEN bits[(8 * k - 8) + j] ELSE 0]
  <2>1. ASSUME NEW j \in 0 .. 7 PROVE n[j] = Bit(v[k], j)
    <3>1. (8 * k - 8) + j \in 0 .. 31 /\ ((8 * k - 8) + j) \div 8 + 1 = k /\ ((8 * k - 8) + j) % 8 = j
          /\ (8 * k - 8) + j <= 8 * k - 1
      OBVIOUS
    <3> QED BY <3>1 DEF WordBit
  <2>2. v[k] \in Byte
    BY DEF Words
  <2>3. v[k] = Join(n)
    <3>1. n = [j \in 0 .. 7 |-> Bit(v[k], j)]
      BY <2>1
    <3> QED BY <2>2, <3>1, JoinOfBits
  <2>4. 8 * k - 8 \in Nat /\ 8 * k - 1 \in Nat
    OBVIOUS
  <2> HIDE DEF n
  <2>5. Machine!Number(bits, 8 * k - 8, 8 * k - 1) = Join([j \in 0 .. 7 |-> IF (8 * k - 8) + j <= 8 * k - 1 THEN bits[(8 * k - 8) + j] ELSE 0])
    BY <2>4, NumberIsJoin
  <2> QED BY <2>3, <2>5 DEF n
<1>2. v = [k \in 1 .. 4 |-> v[k]]
  BY DEF Words
<1> QED BY <1>1, <1>2 DEF Machine!Word

LEMMA BytesOfWord ==
  ASSUME NEW w \in Words
  PROVE  w[1] \in Byte /\ w[2] \in Byte /\ w[3] \in Byte /\ w[4] \in Byte
BY DEF Words

LEMMA WordBitNumbers ==
  ASSUME NEW w
  PROVE  \A j \in 0 .. 7 :
           /\ WordBit(w, j) = Bit(w[1], j) /\ WordBit(w, 8 + j) = Bit(w[2], j)
           /\ WordBit(w, 16 + j) = Bit(w[3], j) /\ WordBit(w, 24 + j) = Bit(w[4], j)
<1> SUFFICES ASSUME NEW j \in 0 .. 7
             PROVE /\ WordBit(w, j) = Bit(w[1], j) /\ WordBit(w, 8 + j) = Bit(w[2], j)
                   /\ WordBit(w, 16 + j) = Bit(w[3], j) /\ WordBit(w, 24 + j) = Bit(w[4], j)
  OBVIOUS
<1>1. /\ j \div 8 + 1 = 1 /\ (8 + j) \div 8 + 1 = 2 /\ (16 + j) \div 8 + 1 = 3 /\ (24 + j) \div 8 + 1 = 4
      /\ j % 8 = j /\ (8 + j) % 8 = j /\ (16 + j) % 8 = j /\ (24 + j) % 8 = j
  OBVIOUS
<1> QED BY <1>1 DEF WordBit

LEMMA MaskBits ==
  ASSUME NEW p \in 0 .. 8
  PROVE  /\ getByteMaskForPosition(p) \in Byte
         /\ \A j \in 0 .. 7 : Bit(getByteMaskForPosition(p), j) = IF j < p THEN 1 ELSE 0
<1>1. /\ getByteMaskForPosition(0) = 0 /\ getByteMaskForPosition(1) = 1
      /\ getByteMaskForPosition(2) = 3 /\ getByteMaskForPosition(3) = 7
      /\ getByteMaskForPosition(4) = 15 /\ getByteMaskForPosition(5) = 31
      /\ getByteMaskForPosition(6) = 63 /\ getByteMaskForPosition(7) = 127
      /\ getByteMaskForPosition(8) = 255
  BY Powers DEF getByteMaskForPosition
<1> DEFINE m == getByteMaskForPosition(p)
<1>2. m \in Byte
  <2>1. p \in {0, 1, 2, 3, 4, 5, 6, 7, 8}
    OBVIOUS
  <2> QED BY <1>1, <2>1 DEF Byte
<1>3. ASSUME NEW j \in 0 .. 7 PROVE Bit(m, j) = IF j < p THEN 1 ELSE 0
  <2> HIDE DEF m
  <2> USE <1>2, BitValues DEF Byte
  <2>0. CASE p = 0
    <3>1. m = 0 BY <2>0, <1>1 DEF m
    <3> QED BY <3>1, <2>0
  <2>1. CASE p = 1
    <3>1. m = 1 BY <2>1, <1>1 DEF m
    <3> QED BY <3>1, <2>1
  <2>2. CASE p = 2
    <3>1. m = 3 BY <2>2, <1>1 DEF m
    <3> QED BY <3>1, <2>2
  <2>3. CASE p = 3
    <3>1. m = 7 BY <2>3, <1>1 DEF m
    <3> QED BY <3>1, <2>3
  <2>4. CASE p = 4
    <3>1. m = 15 BY <2>4, <1>1 DEF m
    <3> QED BY <3>1, <2>4
  <2>5. CASE p = 5
    <3>1. m = 31 BY <2>5, <1>1 DEF m
    <3> QED BY <3>1, <2>5
  <2>6. CASE p = 6
    <3>1. m = 63 BY <2>6, <1>1 DEF m
    <3> QED BY <3>1, <2>6
  <2>7. CASE p = 7
    <3>1. m = 127 BY <2>7, <1>1 DEF m
    <3> QED BY <3>1, <2>7
  <2>8. CASE p = 8
    <3>1. m = 255 BY <2>8, <1>1 DEF m
    <3> QED BY <3>1, <2>8
  <2> QED BY <2>0, <2>1, <2>2, <2>3, <2>4, <2>5, <2>6, <2>7, <2>8
<1> QED BY <1>2, <1>3

\* The slices that the formats take, as shifts and masks of bytes.
LEMMA ConstrainedBits ==
  ASSUME NEW w \in Words
  PROVE  /\ getContrainedBits(w, 0, 6)[1] = Shr(w[1], 0) & getByteMaskForPosition(7)
         /\ getContrainedBits(w, 7, 11)[1] = Shr(w[1], 7) | Shr(Shl(w[2], 4), 3)
         /\ getContrainedBits(w, 12, 14)[1] = Shr(w[2], 4) & getByteMaskForPosition(3)
         /\ getContrainedBits(w, 15, 19)[1] = Shr(w[2], 7) | Shr(Shl(w[3], 4), 3)
         /\ getContrainedBits(w, 20, 24)[1] = Shr(w[3], 4) | Shr(Shl(w[4], 7), 3)
         /\ getContrainedBits(w, 25, 31)[1] = Shr(w[4], 1) & getByteMaskForPosition(7)
         /\ getContrainedBits(w, 25, 30)[1] = Shr(w[4], 1) & getByteMaskForPosition(6)
         /\ getContrainedBits(w, 8, 11)[1] = Shr(w[2], 0) & getByteMaskForPosition(4)
         /\ getContrainedBits(w, 20, 31) = <<Shr(w[3], 4) | Shl(w[4], 4), Shr(w[4], 4) & getByteMaskForPosition(4)>>
         /\ getContrainedBits(w, 12, 31) = <<Shr(w[2], 4) | Shl(w[3], 4), Shr(w[3], 4) | Shl(w[4], 4), Shr(w[4], 4) & getByteMaskForPosition(4)>>
<1>1. getContrainedBits(w, 0, 6)[1] = Shr(w[1], 0) & getByteMaskForPosition(7)
  BY DEF getContrainedBits
<1>2. getContrainedBits(w, 7, 11)[1] = Shr(w[1], 7) | Shr(Shl(w[2], 4), 3)
  BY DEF getContrainedBits
<1>3. getContrainedBits(w, 12, 14)[1] = Shr(w[2], 4) & getByteMaskForPosition(3)
  BY DEF getContrainedBits
<1>4. getContrainedBits(w, 15, 19)[1] = Shr(w[2], 7) | Shr(Shl(w[3], 4), 3)
  BY DEF getContrainedBits
<1>5. getContrainedBits(w, 20, 24)[1] = Shr(w[3], 4) | Shr(Shl(w[4], 7), 3)
  BY DEF getContrainedBits
<1>6. getContrainedBits(w, 25, 31)[1] = Shr(w[4], 1) & getByteMaskForPosition(7)
  BY DEF getContrainedBits
<1>7. getContrainedBits(w, 25, 30)[1] = Shr(w[4], 1) & getByteMaskForPosition(6)
  BY DEF getContrainedBits
<1>8. getContrainedBits(w, 8, 11)[1] = Shr(w[2], 0) & getByteMaskForPosition(4)
  BY DEF getContrainedBits
<1>9. getContrainedBits(w, 20, 31) = <<Shr(w[3], 4) | Shl(w[4], 4), Shr(w[4], 4) & getByteMaskForPosition(4)>>
  BY DEF getContrainedBits
<1>10. getContrainedBits(w, 12, 31) = <<Shr(w[2], 4) | Shl(w[3], 4), Shr(w[3], 4) | Shl(w[4], 4), Shr(w[4], 4) & getByteMaskForPosition(4)>>
  BY DEF getContrainedBits
<1> QED BY <1>1, <1>2, <1>3, <1>4, <1>5, <1>6, <1>7, <1>8, <1>9, <1>10

LEMMA Complement ==
  ASSUME NEW b \in Byte
  PROVE  255 - b \in Byte /\ \A j \in 0 .. 7 : Bit(255 - b, j) = 1 - Bit(b, j)
<1> DEFINE f == [j \in 0 .. 7 |-> 1 - Bit(b, j)]
<1>1. \A j \in 0 .. 7 : Bit(b, j) \in {0, 1}
  BY BitRange
<1>2. f \in [0 .. 7 -> {0, 1}]
  BY <1>1
<1>3. Join(f) = 255 - Join([j \in 0 .. 7 |-> Bit(b, j)])
  BY <1>1 DEF Join
<1>4. Join(f) = 255 - b
  BY <1>3, JoinOfBits
<1>5. Join(f) \in Byte /\ \A j \in 0 .. 7 : Bit(Join(f), j) = f[j]
  BY <1>2, BitsOfJoin
<1> QED BY <1>4, <1>5

LEMMA TopBit ==
  ASSUME NEW b \in Byte
  PROVE  /\ b & 128 = 128 * Bit(b, 7)
         /\ b & 128 # 0 <=> Bit(b, 7) = 1
         /\ b & 128 # 0 <=> b >= 128
<1>1. Bit(128, 0) = 0 /\ Bit(128, 1) = 0 /\ Bit(128, 2) = 0 /\ Bit(128, 3) = 0
      /\ Bit(128, 4) = 0 /\ Bit(128, 5) = 0 /\ Bit(128, 6) = 0 /\ Bit(128, 7) = 1
  BY BitValues DEF Byte
<1>2. \A j \in 0 .. 7 : Bit(b, j) \in {0, 1}
  BY BitRange
<1>3. b & 128 = Bit(b, 0) * Bit(128, 0) + 2 * (Bit(b, 1) * Bit(128, 1)) + 4 * (Bit(b, 2) * Bit(128, 2))
                + 8 * (Bit(b, 3) * Bit(128, 3)) + 16 * (Bit(b, 4) * Bit(128, 4)) + 32 * (Bit(b, 5) * Bit(128, 5))
                + 64 * (Bit(b, 6) * Bit(128, 6)) + 128 * (Bit(b, 7) * Bit(128, 7))
  BY DEF &, Join
<1>4. b & 128 = 128 * Bit(b, 7)
  BY <1>1, <1>2, <1>3
<1>5. Bit(b, 7) = 1 <=> b >= 128
  BY BitValues DEF Byte
<1> QED BY <1>2, <1>4, <1>5

LEMMA WordOfByteBits ==
  ASSUME NEW v \in Words, NEW bits,
         \A j \in 0 .. 7 : /\ bits[j] = Bit(v[1], j) /\ bits[8 + j] = Bit(v[2], j)
                           /\ bits[16 + j] = Bit(v[3], j) /\ bits[24 + j] = Bit(v[4], j)
  PROVE  v = Machine!Word(bits)
<1>1. ASSUME NEW i \in 0 .. 31 PROVE bits[i] = WordBit(v, i)
  <2>1. CASE i \in 0 .. 7
    BY <2>1, WordBitNumbers
  <2>2. CASE i \in 8 .. 15
    <3>1. i - 8 \in 0 .. 7 /\ i = 8 + (i - 8) BY <2>2
    <3> QED BY <3>1, WordBitNumbers
  <2>3. CASE i \in 16 .. 23
    <3>1. i - 16 \in 0 .. 7 /\ i = 16 + (i - 16) BY <2>3
    <3> QED BY <3>1, WordBitNumbers
  <2>4. CASE i \in 24 .. 31
    <3>1. i - 24 \in 0 .. 7 /\ i = 24 + (i - 24) BY <2>4
    <3> QED BY <3>1, WordBitNumbers
  <2> QED BY <2>1, <2>2, <2>3, <2>4
<1> QED BY <1>1, WordOfBits

LEMMA MaskedShift ==
  ASSUME NEW b \in Byte, NEW n \in 0 .. 8, NEW p \in 0 .. 8
  PROVE  /\ Shr(b, n) & getByteMaskForPosition(p) \in Byte
         /\ \A j \in 0 .. 7 : Bit(Shr(b, n) & getByteMaskForPosition(p), j)
                               = IF j < p /\ j + n <= 7 THEN Bit(b, j + n) ELSE 0
<1> DEFINE x == Shr(b, n)
           m == getByteMaskForPosition(p)
<1>1. x \in Byte /\ m \in Byte
  BY ShiftedBytes, MaskBits
<1>2. \A j \in 0 .. 7 : /\ Bit(x, j) = IF j + n > 7 THEN 0 ELSE Bit(b, j + n)
                        /\ Bit(m, j) = IF j < p THEN 1 ELSE 0
                        /\ Bit(x, j) \in {0, 1}
  <2> SUFFICES ASSUME NEW j \in 0 .. 7
               PROVE  /\ Bit(x, j) = IF j + n > 7 THEN 0 ELSE Bit(b, j + n)
                      /\ Bit(m, j) = IF j < p THEN 1 ELSE 0
                      /\ Bit(x, j) \in {0, 1}
    OBVIOUS
  <2>1. Bit(x, j) = IF j + n > 7 THEN 0 ELSE Bit(b, j + n)
    BY BitsOfShr
  <2>2. Bit(m, j) = IF j < p THEN 1 ELSE 0
    BY MaskBits
  <2>3. Bit(x, j) \in {0, 1}
    BY <1>1, BitRange
  <2> QED BY <2>1, <2>2, <2>3
<1> HIDE DEF x, m
<1>3. x & m \in Byte /\ \A j \in 0 .. 7 : Bit(x & m, j) = Bit(x, j) * Bit(m, j)
  BY <1>1, BitsOfOperators
<1>4. \A j \in 0 .. 7 : Bit(x & m, j) = IF j < p /\ j + n <= 7 THEN Bit(b, j + n) ELSE 0
  BY <1>2, <1>3
<1> QED BY <1>3, <1>4 DEF x, m

\* The two halves of a byte that crosses the boundary of two bytes.
Splice(a, b, n, c, d) == Shr(a, n) | Shr(Shl(b, c), d)

LEMMA Spliced ==
  ASSUME NEW a \in Byte, NEW b \in Byte, NEW n \in 0 .. 8, NEW c \in 0 .. 8, NEW d \in 0 .. 8,
         c - d = 8 - n
  PROVE  /\ Splice(a, b, n, c, d) \in Byte
         /\ \A j \in 0 .. 7 :
              Bit(Splice(a, b, n, c, d), j)
                = IF j + n <= 7 THEN Bit(a, j + n)
                  ELSE IF j + d <= 7 THEN Bit(b, j + n - 8) ELSE 0
<1> DEFINE x == Shr(a, n)
           y == Shr(Shl(b, c), d)
<1>1. x \in Byte /\ Shl(b, c) \in Byte /\ y \in Byte
  BY ShiftedBytes
<1>2. \A j \in 0 .. 7 : /\ Bit(x, j) = IF j + n > 7 THEN 0 ELSE Bit(a, j + n)
                        /\ Bit(y, j) = IF j + d > 7 THEN 0 ELSE Bit(Shl(b, c), j + d)
                        /\ Bit(x, j) \in {0, 1} /\ Bit(y, j) \in {0, 1}
  BY <1>1, BitsOfShr, BitRange
<1>3. ASSUME NEW j \in 0 .. 7, j + d <= 7
      PROVE Bit(Shl(b, c), j + d) = IF j + n <= 7 THEN 0 ELSE Bit(b, j + n - 8)
  <2>1. Bit(Shl(b, c), j + d) = IF j + d < c THEN 0 ELSE Bit(b, (j + d) - c)
    BY <1>3, BitsOfShl
  <2> QED BY <2>1
<1>4. Splice(a, b, n, c, d) = x | y
  BY DEF Splice
<1> HIDE DEF x, y
<1>5. x | y \in Byte /\ \A j \in 0 .. 7 : Bit(x | y, j) = IF Bit(x, j) + Bit(y, j) = 0 THEN 0 ELSE 1
  BY <1>1, BitsOfOperators
<1>6. \A j \in 0 .. 7 : Bit(x | y, j) = IF j + n <= 7 THEN Bit(a, j + n)
                  ELSE IF j + d <= 7 THEN Bit(b, j + n - 8) ELSE 0
  BY <1>2, <1>3, <1>5
<1> QED BY <1>4, <1>5, <1>6

LEMMA EightPositions ==
  \A j \in 0 .. 7 : j = 0 \/ j = 1 \/ j = 2 \/ j = 3 \/ j = 4 \/ j = 5 \/ j = 6 \/ j = 7
OBVIOUS

\* The fields of an instruction word.
LEMMA FieldSlices ==
  ASSUME NEW w \in Words
  PROVE  /\ Slices(w, Field(w, 0, 6), 0, 6) /\ Slices(w, Field(w, 7, 11), 7, 11)
         /\ Slices(w, Field(w, 12, 14), 12, 14) /\ Slices(w, Field(w, 15, 19), 15, 19)
         /\ Slices(w, Field(w, 20, 24), 20, 24) /\ Slices(w, Field(w, 25, 31), 25, 31)
         /\ Slices(w, Field(w, 25, 30), 25, 30) /\ Slices(w, Field(w, 8, 11), 8, 11)
<1> USE BytesOfWord
<1>1. Slices(w, Field(w, 0, 6), 0, 6)
  BY ConstrainedBits, WordBitNumbers, MaskedShift DEF Slices, Field
<1>2. Slices(w, Field(w, 7, 11), 7, 11)
  <2>1. Field(w, 7, 11) = Splice(w[1], w[2], 7, 4, 3)
    BY ConstrainedBits DEF Field, Splice
  <2> QED BY <2>1, Spliced, WordBitNumbers DEF Slices
<1>3. Slices(w, Field(w, 12, 14), 12, 14)
  BY ConstrainedBits, WordBitNumbers, MaskedShift DEF Slices, Field
<1>4. Slices(w, Field(w, 15, 19), 15, 19)
  <2>1. Field(w, 15, 19) = Splice(w[2], w[3], 7, 4, 3)
    BY ConstrainedBits DEF Field, Splice
  <2> QED BY <2>1, Spliced, WordBitNumbers DEF Slices
<1>5. Slices(w, Field(w, 20, 24), 20, 24)
  <2>1. Field(w, 20, 24) = Splice(w[3], w[4], 4, 7, 3)
    BY ConstrainedBits DEF Field, Splice
  <2> QED BY <2>1, Spliced, WordBitNumbers DEF Slices
<1>6. Slices(w, Field(w, 25, 31), 25, 31)
  BY ConstrainedBits, WordBitNumbers, MaskedShift DEF Slices, Field
<1>7. Slices(w, Field(w, 25, 30), 25, 30)
  BY ConstrainedBits, WordBitNumbers, MaskedShift DEF Slices, Field
<1>8. Slices(w, Field(w, 8, 11), 8, 11)
  BY ConstrainedBits, WordBitNumbers, MaskedShift DEF Slices, Field
<1> QED BY <1>1, <1>2, <1>3, <1>4, <1>5, <1>6, <1>7, <1>8

\* Every field of an instruction word is read from its bits, whichever of the
\* cases of getContrainedBits it takes.
THEOREM FieldsRead ==
  ASSUME NEW w \in Words
  PROVE  /\ Field(w, 0, 6) = Machine!Opcode(w) /\ Field(w, 7, 11) = Machine!Rd(w)
         /\ Field(w, 12, 14) = Machine!Func3(w) /\ Field(w, 15, 19) = Machine!Rs1(w)
         /\ Field(w, 20, 24) = Machine!Rs2(w) /\ Field(w, 25, 31) = Machine!Func7(w)
BY FieldSlices, SliceIsNumber
   DEF Machine!Opcode, Machine!Rd, Machine!Func3, Machine!Rs1, Machine!Rs2, Machine!Func7

-----------------------------------------------------------------------------
(* Immediates. *)

LEMMA ZeroAndOnes ==
  /\ 0 \in Byte /\ 255 \in Byte
  /\ \A j \in 0 .. 7 : Bit(0, j) = 0 /\ Bit(255, j) = 1
<1>1. 0 \in Byte /\ 255 \in Byte
  BY DEF Byte
<1>2. /\ Bit(0, 0) = 0 /\ Bit(0, 1) = 0 /\ Bit(0, 2) = 0 /\ Bit(0, 3) = 0
      /\ Bit(0, 4) = 0 /\ Bit(0, 5) = 0 /\ Bit(0, 6) = 0 /\ Bit(0, 7) = 0
  BY <1>1, BitValues
<1>3. \A j \in 0 .. 7 : Bit(0, j) = 0
  BY <1>2, EightPositions
<1>4. 255 - 0 = 255
  OBVIOUS
<1>5. \A j \in 0 .. 7 : Bit(255, j) = 1 - Bit(0, j)
  BY <1>1, <1>4, Complement
<1> QED BY <1>1, <1>3, <1>5

Signed(b, p) == b | (255 - getByteMaskForPosition(p))

LEMMA SignedBits ==
  ASSUME NEW b \in Byte, NEW p \in 0 .. 8
  PROVE  /\ Signed(b, p) \in Byte
         /\ \A j \in 0 .. 7 : Bit(Signed(b, p), j) = IF j < p THEN Bit(b, j) ELSE 1
<1> DEFINE m == 255 - getByteMaskForPosition(p)
<1>1. m \in Byte /\ \A j \in 0 .. 7 : Bit(m, j) = IF j < p THEN 0 ELSE 1
  BY MaskBits, Complement
<1>2. Signed(b, p) = b | m
  BY DEF Signed
<1> HIDE DEF m
<1>3. \A j \in 0 .. 7 : Bit(b, j) \in {0, 1}
  BY BitRange
<1>4. b | m \in Byte /\ \A j \in 0 .. 7 : Bit(b | m, j) = IF Bit(b, j) + Bit(m, j) = 0 THEN 0 ELSE 1
  BY <1>1, BitsOfOperators
<1> QED BY <1>1, <1>2, <1>3, <1>4

\* Two bytes become a word by their sign.
LEMMA ExtendedTwo ==
  ASSUME NEW p \in Byte, NEW q \in Byte
  PROVE  /\ copyWithSignExtend(<<p, q>>, 4) \in Words
         /\ copyWithSignExtend(<<p, q>>, 4)[1] = p
         /\ copyWithSignExtend(<<p, q>>, 4)[2] = q
         /\ \A j \in 0 .. 7 : /\ Bit(copyWithSignExtend(<<p, q>>, 4)[3], j) = Bit(q, 7)
                              /\ Bit(copyWithSignExtend(<<p, q>>, 4)[4], j) = Bit(q, 7)
<1> DEFINE v == copyWithSignExtend(<<p, q>>, 4)
           e == IF q & 128 # 0 THEN 255 ELSE 0
<1>1. Len(<<p, q>>) = 2 /\ Last(<<p, q>>) = q /\ <<p, q>>[1] = p /\ <<p, q>>[2] = q
  BY DEF Last
<1>2. v = [i \in 1 .. 4 |-> IF i <= 2 THEN <<p, q>>[i] ELSE e]
  BY <1>1 DEF copyWithSignExtend
<1>3. e \in Byte
  BY ZeroAndOnes
<1>4. \A j \in 0 .. 7 : Bit(e, j) = Bit(q, 7)
  <2>1. Bit(q, 7) \in {0, 1}
    BY BitRange
  <2> QED BY <2>1, TopBit, ZeroAndOnes
<1> HIDE DEF e
<1>5. v \in Words /\ v[1] = p /\ v[2] = q /\ v[3] = e /\ v[4] = e
  BY <1>1, <1>2, <1>3 DEF Words
<1> QED BY <1>4, <1>5

\* The two bytes of the immediate of an I-type word.
BytesI(w, p, q) ==
  /\ p \in Byte /\ q \in Byte
  /\ \A j \in 0 .. 7 :
       /\ Bit(p, j) = IF j <= 3 THEN Bit(w[3], j + 4) ELSE Bit(w[4], j - 4)
       /\ Bit(q, j) = IF j < 4 THEN Bit(w[4], j + 4) ELSE Bit(w[4], 7)

LEMMA BytesOfI ==
  ASSUME NEW w \in Words
  PROVE  \E p, q : DecodeI(w) = <<p, q>> /\ BytesI(w, p, q)
<1> DEFINE p == Splice(w[3], w[4], 4, 4, 0)
           m == Shr(w[4], 4) & getByteMaskForPosition(4)
           q == IF Bit(w[4], 7) = 1 THEN Signed(m, 4) ELSE m
<1> USE BytesOfWord
<1>1. DecodeI(w) = <<p, q>>
  <2>1. getContrainedBits(w, 20, 31) = <<p, m>>
    BY ConstrainedBits, ShiftedBytes, ShiftsByNumbers DEF Splice
  <2>2. SignFrom(<<p, m>>, 2, 4) = <<p, Signed(m, 4)>>
    BY DEF SignFrom, Signed
  <2> QED BY <2>1, <2>2, TopBit DEF DecodeI
<1>2. p \in Byte /\ \A j \in 0 .. 7 : Bit(p, j) = IF j <= 3 THEN Bit(w[3], j + 4) ELSE Bit(w[4], j - 4)
  BY Spliced
<1>3. m \in Byte /\ \A j \in 0 .. 7 : Bit(m, j) = IF j < 4 THEN Bit(w[4], j + 4) ELSE 0
  BY MaskedShift
<1> HIDE DEF p, m
<1>4. q \in Byte /\ \A j \in 0 .. 7 : Bit(q, j) = IF j < 4 THEN Bit(w[4], j + 4) ELSE Bit(w[4], 7)
  BY <1>3, SignedBits, BitRange
<1> HIDE DEF q
<1> QED BY <1>1, <1>2, <1>4 DEF BytesI

\* The immediate of every I-type word, with its sign (ITypeInstruction::decode).
THEOREM ImmediateI ==
  ASSUME NEW w \in Words
  PROVE  SignExtended(DecodeI(w)) = Machine!ImmI(w)
<1>1. PICK p, q : DecodeI(w) = <<p, q>> /\ BytesI(w, p, q)
  BY BytesOfI
<1>2. p \in Byte /\ \A j \in 0 .. 7 : Bit(p, j) = IF j <= 3 THEN Bit(w[3], j + 4) ELSE Bit(w[4], j - 4)
  BY <1>1 DEF BytesI
<1>4. q \in Byte /\ \A j \in 0 .. 7 : Bit(q, j) = IF j < 4 THEN Bit(w[4], j + 4) ELSE Bit(w[4], 7)
  BY <1>1 DEF BytesI
<1> DEFINE v == copyWithSignExtend(<<p, q>>, 4)
<1>5. /\ v \in Words /\ v[1] = p /\ v[2] = q
      /\ \A j \in 0 .. 7 : Bit(v[3], j) = Bit(q, 7) /\ Bit(v[4], j) = Bit(q, 7)
  BY <1>2, <1>4, ExtendedTwo
<1> DEFINE bits == [i \in 0 .. 31 |-> Machine!Bits(w)[IF i <= 10 THEN 20 + i ELSE 31]]
<1>6. \A j \in 0 .. 7 : /\ bits[j] = Bit(v[1], j) /\ bits[8 + j] = Bit(v[2], j)
                        /\ bits[16 + j] = Bit(v[3], j) /\ bits[24 + j] = Bit(v[4], j)
  BY <1>2, <1>4, <1>5, WordBitsAre, WordBitNumbers
<1> HIDE DEF bits, v
<1>7. v = Machine!Word(bits)
  BY <1>5, <1>6, WordOfByteBits
<1> QED BY <1>1, <1>7 DEF SignExtended, XLEN, v, bits, Machine!ImmI

\* The constants that the formats and routines mask with.
LEMMA Masks ==
  /\ 254 \in Byte /\ 1 \in Byte /\ 7 \in Byte /\ 8 \in Byte /\ 128 \in Byte /\ 54 \in Byte
  /\ 31 \in Byte /\ 15 \in Byte /\ 63 \in Byte /\ 127 \in Byte
  /\ \A j \in 0 .. 7 :
       /\ Bit(254, j) = IF j = 0 THEN 0 ELSE 1
       /\ Bit(1, j) = IF j = 0 THEN 1 ELSE 0
       /\ Bit(7, j) = IF j < 3 THEN 1 ELSE 0
       /\ Bit(8, j) = IF j = 3 THEN 1 ELSE 0
       /\ Bit(128, j) = IF j = 7 THEN 1 ELSE 0
       /\ Bit(54, j) = IF j \in {1, 2, 4, 5} THEN 1 ELSE 0
       /\ Bit(31, j) = IF j < 5 THEN 1 ELSE 0
       /\ Bit(15, j) = IF j < 4 THEN 1 ELSE 0
       /\ Bit(63, j) = IF j < 6 THEN 1 ELSE 0
       /\ Bit(127, j) = IF j < 7 THEN 1 ELSE 0
<1>1. /\ 254 \in Byte /\ 1 \in Byte /\ 7 \in Byte /\ 8 \in Byte /\ 128 \in Byte /\ 54 \in Byte
      /\ 31 \in Byte /\ 15 \in Byte /\ 63 \in Byte /\ 127 \in Byte
  BY DEF Byte
<1>2. ASSUME NEW j \in 0 .. 7 PROVE Bit(254, j) = IF j = 0 THEN 0 ELSE 1
  BY <1>1, BitValues, EightPositions
<1>3. ASSUME NEW j \in 0 .. 7 PROVE Bit(1, j) = IF j = 0 THEN 1 ELSE 0
  BY <1>1, BitValues, EightPositions
<1>4. ASSUME NEW j \in 0 .. 7 PROVE Bit(7, j) = IF j < 3 THEN 1 ELSE 0
  BY <1>1, BitValues, EightPositions
<1>5. ASSUME NEW j \in 0 .. 7 PROVE Bit(8, j) = IF j = 3 THEN 1 ELSE 0
  BY <1>1, BitValues, EightPositions
<1>6. ASSUME NEW j \in 0 .. 7 PROVE Bit(128, j) = IF j = 7 THEN 1 ELSE 0
  BY <1>1, BitValues, EightPositions
<1>7. ASSUME NEW j \in 0 .. 7 PROVE Bit(54, j) = IF j \in {1, 2, 4, 5} THEN 1 ELSE 0
  BY <1>1, BitValues, EightPositions
<1>8. ASSUME NEW j \in 0 .. 7 PROVE Bit(31, j) = IF j < 5 THEN 1 ELSE 0
  BY <1>1, BitValues, EightPositions
<1>9. ASSUME NEW j \in 0 .. 7 PROVE Bit(15, j) = IF j < 4 THEN 1 ELSE 0
  BY <1>1, BitValues, EightPositions
<1>10. ASSUME NEW j \in 0 .. 7 PROVE Bit(63, j) = IF j < 6 THEN 1 ELSE 0
  BY <1>1, BitValues, EightPositions
<1>11. ASSUME NEW j \in 0 .. 7 PROVE Bit(127, j) = IF j < 7 THEN 1 ELSE 0
  BY <1>1, BitValues, EightPositions
<1> QED BY <1>1, <1>2, <1>3, <1>4, <1>5, <1>6, <1>7, <1>8, <1>9, <1>10, <1>11

LEMMA AndBits ==
  ASSUME NEW a \in Byte, NEW b \in Byte
  PROVE  /\ a & b \in Byte
         /\ \A j \in 0 .. 7 : Bit(a & b, j) = IF Bit(b, j) = 1 THEN Bit(a, j) ELSE 0
<1>1. \A j \in 0 .. 7 : Bit(a, j) \in {0, 1} /\ Bit(b, j) \in {0, 1}
  BY BitRange
<1>2. a & b \in Byte /\ \A j \in 0 .. 7 : Bit(a & b, j) = Bit(a, j) * Bit(b, j)
  BY BitsOfOperators
<1> QED BY <1>1, <1>2

LEMMA OrBits ==
  ASSUME NEW a \in Byte, NEW b \in Byte
  PROVE  /\ a | b \in Byte
         /\ \A j \in 0 .. 7 : Bit(a | b, j) = IF Bit(a, j) = 0 THEN Bit(b, j) ELSE 1
<1>1. \A j \in 0 .. 7 : Bit(a, j) \in {0, 1} /\ Bit(b, j) \in {0, 1}
  BY BitRange
<1>2. a | b \in Byte /\ \A j \in 0 .. 7 : Bit(a | b, j) = IF Bit(a, j) + Bit(b, j) = 0 THEN 0 ELSE 1
  BY BitsOfOperators
<1> QED BY <1>1, <1>2

LEMMA NonZero ==
  ASSUME NEW b \in Byte
  PROVE  b # 0 <=> \E j \in 0 .. 7 : Bit(b, j) = 1
<1>1. ASSUME b # 0 PROVE \E j \in 0 .. 7 : Bit(b, j) = 1
  <2> SUFFICES ASSUME \A j \in 0 .. 7 : Bit(b, j) # 1 PROVE FALSE
    OBVIOUS
  <2>1. \A j \in 0 .. 7 : Bit(b, j) = Bit(0, j)
    BY BitRange, ZeroAndOnes
  <2> QED BY <1>1, <2>1, ByteIsItsBits, ZeroAndOnes
<1>2. ASSUME NEW j \in 0 .. 7, Bit(b, j) = 1 PROVE b # 0
  BY <1>2, ZeroAndOnes
<1> QED BY <1>1, <1>2

\* A word of the manual has the bits it is made of.
LEMMA BitsOfMachineWord ==
  ASSUME NEW bits \in [0 .. 31 -> {0, 1}]
  PROVE  /\ Machine!Word(bits) \in Words
         /\ \A i \in 0 .. 31 : WordBit(Machine!Word(bits), i) = bits[i]
<1>1. ASSUME NEW k \in 1 .. 4
      PROVE  /\ Machine!Word(bits)[k] \in Byte
             /\ \A j \in 0 .. 7 : Bit(Machine!Word(bits)[k], j) = bits[(8 * k - 8) + j]
  <2> DEFINE n == [j \in 0 .. 7 |-> IF (8 * k - 8) + j <= 8 * k - 1 THEN bits[(8 * k - 8) + j] ELSE 0]
  <2>1. \A j \in 0 .. 7 : (8 * k - 8) + j <= 8 * k - 1 /\ (8 * k - 8) + j \in 0 .. 31
    OBVIOUS
  <2>2. n \in [0 .. 7 -> {0, 1}] /\ \A j \in 0 .. 7 : n[j] = bits[(8 * k - 8) + j]
    BY <2>1
  <2>3. 8 * k - 8 \in Nat /\ 8 * k - 1 \in Nat
    OBVIOUS
  <2> HIDE DEF n
  <2>4. Machine!Number(bits, 8 * k - 8, 8 * k - 1)
          = Join([j \in 0 .. 7 |-> IF (8 * k - 8) + j <= 8 * k - 1 THEN bits[(8 * k - 8) + j] ELSE 0])
    BY <2>3, NumberIsJoin
  <2>5. Machine!Word(bits)[k] = Machine!Number(bits, 8 * k - 8, 8 * k - 1)
    BY DEF Machine!Word
  <2>6. Machine!Word(bits)[k] = Join(n)
    BY <2>4, <2>5 DEF n
  <2> QED BY <2>2, <2>6, BitsOfJoin
<1>2. Machine!Word(bits) = [k \in 1 .. 4 |-> Machine!Number(bits, 8 * k - 8, 8 * k - 1)]
  BY DEF Machine!Word
<1>3. Machine!Word(bits) \in Words
  BY <1>1, <1>2 DEF Words
<1>4. ASSUME NEW i \in 0 .. 31 PROVE WordBit(Machine!Word(bits), i) = bits[i]
  <2> DEFINE k == i \div 8 + 1
             j == i % 8
  <2>1. k \in 1 .. 4 /\ j \in 0 .. 7 /\ (8 * k - 8) + j = i
    OBVIOUS
  <2>2. Bit(Machine!Word(bits)[k], j) = bits[(8 * k - 8) + j]
    BY <1>1, <2>1
  <2> QED BY <2>1, <2>2 DEF WordBit
<1> QED BY <1>3, <1>4

LEMMA WordIsItsBits ==
  ASSUME NEW v \in Words, NEW w \in Words, \A i \in 0 .. 31 : WordBit(v, i) = WordBit(w, i)
  PROVE  v = w
<1> DEFINE bits == [i \in 0 .. 31 |-> WordBit(v, i)]
<1>1. v = Machine!Word(bits) /\ w = Machine!Word(bits)
  BY WordOfBits
<1> QED BY <1>1

\* The bits that decode takes for the sign of a store's offset.
NegativeS(w) == \E i \in {26, 27, 29, 30} : Machine!Bits(w)[i] = 1

\* The two bytes of the offset of a store.
BytesS(w, p, q) ==
  /\ p \in Byte /\ q \in Byte
  /\ \A j \in 0 .. 7 :
       /\ Bit(p, j) = IF j <= 4 THEN WordBit(w, 7 + j) ELSE WordBit(w, 20 + j)
       /\ Bit(q, j) = IF j < 4 THEN WordBit(w, 28 + j) ELSE IF NegativeS(w) THEN 1 ELSE 0

LEMMA BytesOfS ==
  ASSUME NEW w \in Words
  PROVE  \E p, q : DecodeS(w) = <<p, q>> /\ BytesS(w, p, q)
<1> DEFINE low5 == Field(w, 7, 11)
           imm7 == Field(w, 25, 31)
           p == low5 | Shl(imm7, 5)
           m == Shr(imm7, 3)
           negative == NegativeS(w)
           q == IF negative THEN Signed(m, 4) ELSE m
<1> USE BytesOfWord
<1>1. /\ low5 \in Byte /\ \A j \in 0 .. 7 : Bit(low5, j) = IF 7 + j <= 11 THEN WordBit(w, 7 + j) ELSE 0
      /\ imm7 \in Byte /\ \A j \in 0 .. 7 : Bit(imm7, j) = IF 25 + j <= 31 THEN WordBit(w, 25 + j) ELSE 0
  BY FieldSlices DEF Slices
<1>2. imm7 & 54 # 0 <=> negative
  <2>1. imm7 & 54 \in Byte
    BY <1>1, AndBits, Masks
  <2>2. \A j \in 0 .. 7 : Bit(imm7 & 54, j) = 1 <=> j \in {1, 2, 4, 5} /\ WordBit(w, 25 + j) = 1
    BY <1>1, AndBits, Masks
  <2> HIDE DEF imm7
  <2>3. imm7 & 54 # 0 <=> \E j \in {1, 2, 4, 5} : WordBit(w, 25 + j) = 1
    BY <2>1, <2>2, NonZero
  <2> QED BY <2>3, WordBitsAre DEF NegativeS
<1>3. DecodeS(w) = <<p, q>>
  <2>1. SignFrom(<<p, m>>, 2, 4) = <<p, Signed(m, 4)>>
    BY DEF SignFrom, Signed
  <2> QED BY <1>2, <2>1 DEF DecodeS
<1> HIDE DEF low5, imm7, negative
<1>4. p \in Byte /\ \A j \in 0 .. 7 : Bit(p, j) = IF j <= 4 THEN WordBit(w, 7 + j) ELSE WordBit(w, 20 + j)
  <2>1. \A j \in 0 .. 7 : Bit(Shl(imm7, 5), j) = IF j < 5 THEN 0 ELSE Bit(imm7, j - 5)
    BY <1>1, BitsOfShl
  <2>2. \A j \in 0 .. 7 : Bit(p, j) = IF Bit(low5, j) = 0 THEN Bit(Shl(imm7, 5), j) ELSE 1
    BY <1>1, OrBits, ShiftedBytes
  <2>3. ASSUME NEW j \in 0 .. 7, j >= 5 PROVE Bit(imm7, j - 5) = WordBit(w, 20 + j)
    <3>1. 25 + (j - 5) = 20 + j /\ 25 + (j - 5) <= 31 /\ j - 5 \in 0 .. 7
      BY <2>3
    <3> QED BY <1>1, <3>1
  <2>4. \A j \in 0 .. 7 : Bit(low5, j) \in {0, 1}
    BY <1>1, BitRange
  <2>5. p \in Byte
    BY <1>1, OrBits, ShiftedBytes
  <2> HIDE DEF p
  <2> QED BY <1>1, <2>1, <2>2, <2>3, <2>4, <2>5
<1>5. m \in Byte /\ \A j \in 0 .. 7 : Bit(m, j) = IF j < 4 THEN WordBit(w, 28 + j) ELSE 0
  <2>1. m \in Byte /\ \A j \in 0 .. 7 : Bit(m, j) = IF j + 3 > 7 THEN 0 ELSE Bit(imm7, j + 3)
    BY <1>1, BitsOfShr, ShiftedBytes
  <2>2. ASSUME NEW j \in 0 .. 7, j < 4 PROVE Bit(imm7, j + 3) = WordBit(w, 28 + j)
    <3>1. 25 + (j + 3) = 28 + j /\ 25 + (j + 3) <= 31 /\ j + 3 \in 0 .. 7
      BY <2>2
    <3> QED BY <1>1, <3>1
  <2>3. Bit(imm7, 7) = 0
    BY <1>1
  <2> HIDE DEF m
  <2> QED BY <2>1, <2>2, <2>3
<1> HIDE DEF p, m
<1>6. q \in Byte /\ \A j \in 0 .. 7 : Bit(q, j) = IF j < 4 THEN WordBit(w, 28 + j) ELSE IF negative THEN 1 ELSE 0
  BY <1>5, SignedBits
<1> HIDE DEF q
<1> QED BY <1>3, <1>4, <1>6 DEF BytesS, negative

\* The offset of every store, with the sign the code gives it
\* (STypeInstruction::decode).
THEOREM ImmediateS ==
  ASSUME NEW w \in Words
  PROVE  SignExtended(DecodeS(w)) = Machine!StoreOffset(w)
<1>3. PICK p, q : DecodeS(w) = <<p, q>> /\ BytesS(w, p, q)
  BY BytesOfS
<1> DEFINE negative == NegativeS(w)
           v == copyWithSignExtend(<<p, q>>, 4)
<1>4. p \in Byte /\ \A j \in 0 .. 7 : Bit(p, j) = IF j <= 4 THEN WordBit(w, 7 + j) ELSE WordBit(w, 20 + j)
  BY <1>3 DEF BytesS
<1>6. q \in Byte /\ \A j \in 0 .. 7 : Bit(q, j) = IF j < 4 THEN WordBit(w, 28 + j) ELSE IF negative THEN 1 ELSE 0
  BY <1>3 DEF BytesS
<1> HIDE DEF negative
<1>7. /\ v \in Words /\ v[1] = p /\ v[2] = q
      /\ \A j \in 0 .. 7 : Bit(v[3], j) = Bit(q, 7) /\ Bit(v[4], j) = Bit(q, 7)
  BY <1>4, <1>6, ExtendedTwo
<1> DEFINE immS == [i \in 0 .. 31 |-> Machine!Bits(w)[CASE i <= 4         -> 7 + i
                                                      [] i \in 5 .. 10  -> 20 + i
                                                      [] i >= 11        -> 31]]
           bits == [i \in 0 .. 31 |-> IF i <= 11 THEN Machine!Bits(Machine!ImmS(w))[i]
                              ELSE IF negative THEN 1 ELSE 0]
<1>8. ASSUME NEW i \in 0 .. 11 PROVE bits[i] = WordBit(w, IF i <= 4 THEN 7 + i ELSE 20 + i)
  <2>1. immS \in [0 .. 31 -> {0, 1}]
    BY WordBitsAre
  <2>2. Machine!ImmS(w) = Machine!Word(immS)
    BY DEF Machine!ImmS
  <2>3. bits[i] = Machine!Bits(Machine!ImmS(w))[i]
    OBVIOUS
  <2>4. immS[i] = WordBit(w, IF i <= 4 THEN 7 + i ELSE 20 + i)
    BY WordBitsAre
  <2> HIDE DEF immS, bits
  <2>5. bits[i] = immS[i]
    BY <2>1, <2>2, <2>3, BitsOfMachineWord, WordBitsAre
  <2> QED BY <2>4, <2>5
<1>9. \A i \in 12 .. 31 : bits[i] = IF negative THEN 1 ELSE 0
  OBVIOUS
<1> HIDE DEF bits, v
<1>10. \A j \in 0 .. 7 : /\ bits[j] = Bit(v[1], j) /\ bits[8 + j] = Bit(v[2], j)
                         /\ bits[16 + j] = Bit(v[3], j) /\ bits[24 + j] = Bit(v[4], j)
  <2>1. ASSUME NEW j \in 0 .. 7 PROVE bits[j] = Bit(v[1], j)
    BY <1>4, <1>7, <1>8
  <2>2. ASSUME NEW j \in 0 .. 7 PROVE bits[8 + j] = Bit(v[2], j)
    <3>1. CASE j < 4
      <4>1. 8 + j \in 0 .. 11 /\ 20 + (8 + j) = 28 + j /\ ~(8 + j <= 4)
        BY <3>1
      <4> QED BY <1>6, <1>7, <1>8, <3>1, <4>1
    <3>2. CASE j >= 4
      BY <1>6, <1>7, <1>9, <3>2
    <3> QED BY <3>1, <3>2
  <2>3. ASSUME NEW j \in 0 .. 7 PROVE bits[16 + j] = Bit(v[3], j) /\ bits[24 + j] = Bit(v[4], j)
    BY <1>6, <1>7, <1>9
  <2> QED BY <2>1, <2>2, <2>3
<1>11. v = Machine!Word(bits)
  BY <1>7, <1>10, WordOfByteBits
<1> QED BY <1>3, <1>11 DEF SignExtended, XLEN, v, bits, negative, NegativeS, Machine!StoreOffset

\* The two bytes of the offset of a branch.
BytesB(w, p, q) ==
  /\ p \in Byte /\ q \in Byte
  /\ \A j \in 0 .. 7 :
       /\ Bit(p, j) = IF j = 0 THEN 0 ELSE IF j <= 4 THEN Bit(w[2], j - 1) ELSE Bit(w[4], j - 4)
       /\ Bit(q, j) = CASE j <= 2 -> Bit(w[4], j + 4) [] j = 3 -> Bit(w[1], 7)
                        [] OTHER -> Bit(w[4], 7)

LEMMA BytesOfB ==
  ASSUME NEW w \in Words
  PROVE  \E p, q : DecodeB(w) = <<p, q>> /\ BytesB(w, p, q)
<1> DEFINE f4 == Field(w, 8, 11)
           f6 == Field(w, 25, 30)
           p == Shl(f4, 1) | Shl(f6, 5)
           m == (Shr(f6, 3) | Shr(w[1] & 128, 4)) | Shr(w[4] & 128, 3)
           q == IF Bit(w[4], 7) = 1 THEN Signed(m, 5) ELSE m
<1> USE BytesOfWord
<1>1. /\ f4 \in Byte /\ \A j \in 0 .. 7 : Bit(f4, j) = IF j <= 3 THEN Bit(w[2], j) ELSE 0
      /\ f6 \in Byte /\ \A j \in 0 .. 7 : Bit(f6, j) = IF j <= 5 THEN Bit(w[4], j + 1) ELSE 0
  BY ConstrainedBits, MaskedShift DEF Field
<1>2. /\ w[1] & 128 \in Byte /\ \A j \in 0 .. 7 : Bit(w[1] & 128, j) = IF j = 7 THEN Bit(w[1], 7) ELSE 0
      /\ w[4] & 128 \in Byte /\ \A j \in 0 .. 7 : Bit(w[4] & 128, j) = IF j = 7 THEN Bit(w[4], 7) ELSE 0
  BY AndBits, Masks
<1>3. DecodeB(w) = <<p, q>>
  <2>1. SignFrom(<<p, m>>, 2, 5) = <<p, Signed(m, 5)>>
    BY DEF SignFrom, Signed
  <2> QED BY <2>1, TopBit DEF DecodeB
<1> HIDE DEF f4, f6
<1>4. /\ p \in Byte
      /\ \A j \in 0 .. 7 : Bit(p, j) = IF j = 0 THEN 0 ELSE IF j <= 4 THEN Bit(w[2], j - 1) ELSE Bit(w[4], j - 4)
  <2>1. /\ Shl(f4, 1) \in Byte /\ \A j \in 0 .. 7 : Bit(Shl(f4, 1), j) = IF j < 1 THEN 0 ELSE Bit(f4, j - 1)
        /\ Shl(f6, 5) \in Byte /\ \A j \in 0 .. 7 : Bit(Shl(f6, 5), j) = IF j < 5 THEN 0 ELSE Bit(f6, j - 5)
    BY <1>1, BitsOfShl, ShiftedBytes
  <2>2. p \in Byte /\ \A j \in 0 .. 7 : Bit(p, j) = IF Bit(Shl(f4, 1), j) = 0 THEN Bit(Shl(f6, 5), j) ELSE 1
    BY <2>1, OrBits
  <2>3. \A j \in 0 .. 7 : Bit(Shl(f4, 1), j) \in {0, 1} /\ Bit(Shl(f6, 5), j) \in {0, 1}
    BY <2>1, BitRange
  <2> HIDE DEF p
  <2> QED BY <1>1, <2>1, <2>2, <2>3
<1>5. /\ m \in Byte
      /\ \A j \in 0 .. 7 : Bit(m, j) = CASE j <= 2 -> Bit(w[4], j + 4) [] j = 3 -> Bit(w[1], 7)
                                         [] j = 4 -> Bit(w[4], 7) [] OTHER -> 0
  <2> DEFINE x == Shr(f6, 3)  y == Shr(w[1] & 128, 4)  z == Shr(w[4] & 128, 3)
  <2>1. /\ x \in Byte /\ \A j \in 0 .. 7 : Bit(x, j) = IF j + 3 > 7 THEN 0 ELSE Bit(f6, j + 3)
        /\ y \in Byte /\ \A j \in 0 .. 7 : Bit(y, j) = IF j + 4 > 7 THEN 0 ELSE Bit(w[1] & 128, j + 4)
        /\ z \in Byte /\ \A j \in 0 .. 7 : Bit(z, j) = IF j + 3 > 7 THEN 0 ELSE Bit(w[4] & 128, j + 3)
    BY <1>1, <1>2, BitsOfShr, ShiftedBytes
  <2> HIDE DEF x, y, z
  <2>2. /\ x | y \in Byte /\ \A j \in 0 .. 7 : Bit(x | y, j) = IF Bit(x, j) = 0 THEN Bit(y, j) ELSE 1
    BY <2>1, OrBits
  <2>3. /\ (x | y) | z \in Byte /\ \A j \in 0 .. 7 : Bit((x | y) | z, j) = IF Bit(x | y, j) = 0 THEN Bit(z, j) ELSE 1
    BY <2>1, <2>2, OrBits
  <2>4. \A j \in 0 .. 7 : Bit(x, j) \in {0, 1} /\ Bit(y, j) \in {0, 1} /\ Bit(z, j) \in {0, 1}
    BY <2>1, BitRange
  <2>5. m = (x | y) | z
    BY DEF x, y, z
  <2> HIDE DEF m
  <2>6. ASSUME NEW j \in 0 .. 7
        PROVE  Bit(m, j) = CASE j <= 2 -> Bit(w[4], j + 4) [] j = 3 -> Bit(w[1], 7)
                             [] j = 4 -> Bit(w[4], 7) [] OTHER -> 0
    <3>1. /\ Bit(x, j) = IF j <= 2 THEN Bit(w[4], j + 4) ELSE 0
          /\ Bit(y, j) = IF j = 3 THEN Bit(w[1], 7) ELSE 0
          /\ Bit(z, j) = IF j = 4 THEN Bit(w[4], 7) ELSE 0
      BY <1>1, <1>2, <2>1
    <3> QED BY <2>2, <2>3, <2>4, <2>5, <3>1
  <2> QED BY <2>3, <2>5, <2>6
<1> HIDE DEF p, m
<1>6. /\ q \in Byte
      /\ \A j \in 0 .. 7 : Bit(q, j) = CASE j <= 2 -> Bit(w[4], j + 4) [] j = 3 -> Bit(w[1], 7)
                                         [] OTHER -> Bit(w[4], 7)
  BY <1>5, SignedBits, BitRange
<1> HIDE DEF q
<1> QED BY <1>3, <1>4, <1>6 DEF BytesB

\* The offset of every branch (BTypeInstruction::decode).
THEOREM ImmediateB ==
  ASSUME NEW w \in Words
  PROVE  SignExtended(DecodeB(w)) = Machine!ImmB(w)
<1>3. PICK p, q : DecodeB(w) = <<p, q>> /\ BytesB(w, p, q)
  BY BytesOfB
<1> DEFINE v == copyWithSignExtend(<<p, q>>, 4)
<1>4. /\ p \in Byte
      /\ \A j \in 0 .. 7 : Bit(p, j) = IF j = 0 THEN 0 ELSE IF j <= 4 THEN Bit(w[2], j - 1) ELSE Bit(w[4], j - 4)
  BY <1>3 DEF BytesB
<1>6. /\ q \in Byte
      /\ \A j \in 0 .. 7 : Bit(q, j) = CASE j <= 2 -> Bit(w[4], j + 4) [] j = 3 -> Bit(w[1], 7)
                                         [] OTHER -> Bit(w[4], 7)
  BY <1>3 DEF BytesB
<1>7. /\ v \in Words /\ v[1] = p /\ v[2] = q
      /\ \A j \in 0 .. 7 : Bit(v[3], j) = Bit(q, 7) /\ Bit(v[4], j) = Bit(q, 7)
  BY <1>4, <1>6, ExtendedTwo
<1> DEFINE bits == [i \in 0 .. 31 |-> IF i = 0 THEN 0
                          ELSE Machine!Bits(w)[CASE i <= 4         -> 7 + i
                                         [] i \in 5 .. 10  -> 20 + i
                                         [] i = 11         -> 7
                                         [] i >= 12        -> 31]]
<1>8. /\ bits[0] = 0 /\ bits[11] = WordBit(w, 7)
      /\ \A i \in 1 .. 4 : bits[i] = WordBit(w, 7 + i)
      /\ \A i \in 5 .. 10 : bits[i] = WordBit(w, 20 + i)
      /\ \A i \in 12 .. 31 : bits[i] = WordBit(w, 31)
  BY WordBitsAre
<1>9. WordBit(w, 7) = Bit(w[1], 7) /\ WordBit(w, 31) = Bit(w[4], 7)
  BY WordBitNumbers
<1> HIDE DEF bits, v
<1>10. \A j \in 0 .. 7 : /\ bits[j] = Bit(v[1], j) /\ bits[8 + j] = Bit(v[2], j)
                         /\ bits[16 + j] = Bit(v[3], j) /\ bits[24 + j] = Bit(v[4], j)
  <2>1. ASSUME NEW j \in 0 .. 7 PROVE bits[j] = Bit(v[1], j)
    <3>1. CASE j = 0
      BY <1>4, <1>7, <1>8, <3>1
    <3>2. CASE j \in 1 .. 4
      <4>1. 7 + j = 8 + (j - 1) /\ j - 1 \in 0 .. 7
        BY <3>2
      <4> QED BY <1>4, <1>7, <1>8, <3>2, <4>1, WordBitNumbers
    <3>3. CASE j \in 5 .. 7
      <4>1. 20 + j = 24 + (j - 4) /\ j - 4 \in 0 .. 7
        BY <3>3
      <4> QED BY <1>4, <1>7, <1>8, <3>3, <4>1, WordBitNumbers
    <3> QED BY <3>1, <3>2, <3>3
  <2>2. ASSUME NEW j \in 0 .. 7 PROVE bits[8 + j] = Bit(v[2], j)
    <3>1. CASE j \in 0 .. 2
      <4>1. 20 + (8 + j) = 24 + (j + 4) /\ j + 4 \in 0 .. 7 /\ 8 + j \in 5 .. 10
        BY <3>1
      <4> QED BY <1>6, <1>7, <1>8, <3>1, <4>1, WordBitNumbers
    <3>2. CASE j = 3
      BY <1>6, <1>7, <1>8, <1>9, <3>2
    <3>3. CASE j \in 4 .. 7
      BY <1>6, <1>7, <1>8, <1>9, <3>3
    <3> QED BY <3>1, <3>2, <3>3
  <2>3. ASSUME NEW j \in 0 .. 7 PROVE bits[16 + j] = Bit(v[3], j) /\ bits[24 + j] = Bit(v[4], j)
    BY <1>6, <1>7, <1>8, <1>9
  <2> QED BY <2>1, <2>2, <2>3
<1>11. v = Machine!Word(bits)
  BY <1>7, <1>10, WordOfByteBits
<1> QED BY <1>3, <1>11 DEF SignExtended, XLEN, v, bits, Machine!ImmB

-----------------------------------------------------------------------------
(* Shifts. *)

LEMMA Lefts ==
  ASSUME NEW a \in Words, NEW full \in 0 .. 3, NEW offset \in 0 .. 7
  PROVE  /\ Left(a, full, offset) \in Words
         /\ \A i \in 0 .. 31 : WordBit(Left(a, full, offset), i)
              = IF i < 8 * full + offset THEN 0 ELSE WordBit(a, i - (8 * full + offset))
<1> DEFINE At(i) == IF i < 1 THEN 0 ELSE a[i]
           v == Left(a, full, offset)
<1>1. Len(a) = 4
  BY DEF Words
<1>2. v = [i \in 1 .. 4 |-> Shl(At(i - full), offset) | Shr(At(i - full - 1), 8 - offset)]
  BY <1>1 DEF Left
<1>3. \A i \in -4 .. 4 : At(i) \in Byte
  BY ZeroAndOnes DEF Words
<1> HIDE DEF v
<1>4. ASSUME NEW k \in 1 .. 4
      PROVE  /\ v[k] \in Byte
             /\ \A j \in 0 .. 7 : Bit(v[k], j) = IF j < offset THEN Bit(At(k - full - 1), j + 8 - offset)
                                                  ELSE Bit(At(k - full), j - offset)
  <2> DEFINE x == At(k - full)
             y == At(k - full - 1)
  <2>1. x \in Byte /\ y \in Byte
    BY <1>3
  <2>2. v[k] = Shl(x, offset) | Shr(y, 8 - offset)
    BY <1>2
  <2> HIDE DEF x, y
  <2>3. offset \in 0 .. 8 /\ 8 - offset \in 0 .. 8
    OBVIOUS
  <2>4. Shl(x, offset) \in Byte /\ Shr(y, 8 - offset) \in Byte
    BY <2>1, <2>3, ShiftedBytes
  <2>5. \A j \in 0 .. 7 : /\ Bit(Shl(x, offset), j) = IF j < offset THEN 0 ELSE Bit(x, j - offset)
                          /\ Bit(Shr(y, 8 - offset), j) = IF j + (8 - offset) > 7 THEN 0 ELSE Bit(y, j + (8 - offset))
                          /\ Bit(Shl(x, offset), j) \in {0, 1}
    BY <2>1, <2>3, <2>4, BitsOfShl, BitsOfShr, BitRange
  <2>6. /\ v[k] \in Byte
        /\ \A j \in 0 .. 7 : Bit(v[k], j) = IF Bit(Shl(x, offset), j) = 0 THEN Bit(Shr(y, 8 - offset), j) ELSE 1
    BY <2>2, <2>4, OrBits
  <2>7. ASSUME NEW j \in 0 .. 7
        PROVE  Bit(v[k], j) = IF j < offset THEN Bit(y, j + 8 - offset) ELSE Bit(x, j - offset)
    <3>1. CASE j < offset
      <4>1. j + (8 - offset) = j + 8 - offset /\ j + (8 - offset) <= 7
        BY <3>1
      <4> QED BY <2>5, <2>6, <3>1, <4>1
    <3>2. CASE j >= offset
      BY <2>5, <2>6, <3>2
    <3> QED BY <3>1, <3>2
  <2> QED BY <2>6, <2>7 DEF x, y
<1>5. v \in Words
  BY <1>2, <1>4 DEF Words
<1>6. ASSUME NEW i \in 0 .. 31
      PROVE  WordBit(v, i) = IF i < 8 * full + offset THEN 0 ELSE WordBit(a, i - (8 * full + offset))
  <2> DEFINE k == i \div 8 + 1
             j == i % 8
             n == 8 * full + offset
  <2>1. k \in 1 .. 4 /\ j \in 0 .. 7 /\ i = 8 * k - 8 + j
    OBVIOUS
  <2>2. WordBit(v, i) = Bit(v[k], j)
    BY DEF WordBit
  <2> HIDE DEF k, j
  <2>3. CASE i < n
    <3>1. CASE j < offset
      <4>1. k - full - 1 < 1 /\ k - full - 1 \in -4 .. 4 /\ j + 8 - offset \in 0 .. 7
        BY <2>1, <2>3, <3>1
      <4>2. At(k - full - 1) = 0
        BY <4>1
      <4> HIDE DEF At
      <4> QED BY <1>4, <2>1, <2>2, <2>3, <3>1, <4>1, <4>2, ZeroAndOnes
    <3>2. CASE j >= offset
      <4>1. k - full < 1 /\ k - full \in -4 .. 4 /\ j - offset \in 0 .. 7
        BY <2>1, <2>3, <3>2
      <4>2. At(k - full) = 0
        BY <4>1
      <4> HIDE DEF At
      <4> QED BY <1>4, <2>1, <2>2, <2>3, <3>2, <4>1, <4>2, ZeroAndOnes
    <3> QED BY <2>1, <3>1, <3>2
  <2>4. CASE i >= n
    <3>0. i - n \in 0 .. 31
      BY <2>4
    <3>1. CASE j < offset
      <4>1. (i - n) \div 8 + 1 = k - full - 1 /\ (i - n) % 8 = j + 8 - offset /\ k - full - 1 >= 1
        BY <2>1, <2>4, <3>1
      <4>2. At(k - full - 1) = a[k - full - 1]
        BY <4>1, <2>1
      <4>3. WordBit(a, i - n) = Bit(a[k - full - 1], j + 8 - offset)
        BY <4>1 DEF WordBit
      <4> HIDE DEF At
      <4> QED BY <1>4, <2>1, <2>2, <2>4, <3>1, <4>2, <4>3
    <3>2. CASE j >= offset
      <4>1. (i - n) \div 8 + 1 = k - full /\ (i - n) % 8 = j - offset /\ k - full >= 1
        BY <2>1, <2>4, <3>2
      <4>2. At(k - full) = a[k - full]
        BY <4>1, <2>1
      <4>3. WordBit(a, i - n) = Bit(a[k - full], j - offset)
        BY <4>1 DEF WordBit
      <4> HIDE DEF At
      <4> QED BY <1>4, <2>1, <2>2, <2>4, <3>2, <4>2, <4>3
    <3> QED BY <2>1, <3>1, <3>2
  <2> QED BY <2>3, <2>4
<1> QED BY <1>5, <1>6 DEF v

LEMMA Rights ==
  ASSUME NEW a \in Words, NEW full \in 0 .. 3, NEW offset \in 0 .. 7, NEW fill \in {0, 255}
  PROVE  /\ Right(a, full, offset, fill) \in Words
         /\ \A i \in 0 .. 31 : WordBit(Right(a, full, offset, fill), i)
              = IF i + (8 * full + offset) > 31 THEN fill \div 255
                ELSE WordBit(a, i + (8 * full + offset))
<1> DEFINE At(i) == IF i > 4 THEN fill ELSE a[i]
           v == Right(a, full, offset, fill)
           top == fill \div 255
<1>1. Len(a) = 4
  BY DEF Words
<1>2. v = [i \in 1 .. 4 |-> Shr(At(i + full), offset) | Shl(At(i + full + 1), 8 - offset)]
  BY <1>1 DEF Right
<1>3. \A i \in 1 .. 8 : At(i) \in Byte
  BY ZeroAndOnes DEF Words
<1>4. fill \in Byte /\ top \in {0, 1} /\ \A j \in 0 .. 7 : Bit(fill, j) = top
  <2>1. CASE fill = 0
    BY <2>1, ZeroAndOnes
  <2>2. CASE fill = 255
    BY <2>2, ZeroAndOnes
  <2> QED BY <2>1, <2>2
<1> HIDE DEF v, top
<1>5. ASSUME NEW k \in 1 .. 4
      PROVE  /\ v[k] \in Byte
             /\ \A j \in 0 .. 7 : Bit(v[k], j) = IF j + offset <= 7 THEN Bit(At(k + full), j + offset)
                                                  ELSE Bit(At(k + full + 1), j + offset - 8)
  <2> DEFINE x == At(k + full)
             y == At(k + full + 1)
  <2>1. x \in Byte /\ y \in Byte
    BY <1>3
  <2>2. v[k] = Shr(x, offset) | Shl(y, 8 - offset)
    BY <1>2
  <2> HIDE DEF x, y
  <2>3. offset \in 0 .. 8 /\ 8 - offset \in 0 .. 8
    OBVIOUS
  <2>4. Shr(x, offset) \in Byte /\ Shl(y, 8 - offset) \in Byte
    BY <2>1, <2>3, ShiftedBytes
  <2>5. \A j \in 0 .. 7 : /\ Bit(Shr(x, offset), j) = IF j + offset > 7 THEN 0 ELSE Bit(x, j + offset)
                          /\ Bit(Shl(y, 8 - offset), j) = IF j < 8 - offset THEN 0 ELSE Bit(y, j - (8 - offset))
                          /\ Bit(Shr(x, offset), j) \in {0, 1}
    BY <2>1, <2>3, <2>4, BitsOfShl, BitsOfShr, BitRange
  <2>6. /\ v[k] \in Byte
        /\ \A j \in 0 .. 7 : Bit(v[k], j) = IF Bit(Shr(x, offset), j) = 0 THEN Bit(Shl(y, 8 - offset), j) ELSE 1
    BY <2>2, <2>4, OrBits
  <2>7. ASSUME NEW j \in 0 .. 7
        PROVE  Bit(v[k], j) = IF j + offset <= 7 THEN Bit(x, j + offset) ELSE Bit(y, j + offset - 8)
    <3>1. CASE j + offset <= 7
      BY <2>5, <2>6, <3>1
    <3>2. CASE j + offset > 7
      <4>1. j - (8 - offset) = j + offset - 8 /\ ~(j < 8 - offset)
        BY <3>2
      <4> QED BY <2>5, <2>6, <3>2, <4>1
    <3> QED BY <3>1, <3>2
  <2> QED BY <2>6, <2>7 DEF x, y
<1>6. v \in Words
  BY <1>2, <1>5 DEF Words
<1>7. ASSUME NEW i \in 0 .. 31
      PROVE  WordBit(v, i) = IF i + (8 * full + offset) > 31 THEN top ELSE WordBit(a, i + (8 * full + offset))
  <2> DEFINE k == i \div 8 + 1
             j == i % 8
             n == 8 * full + offset
             near == k + full
             far == k + full + 1
  <2>1. k \in 1 .. 4 /\ j \in 0 .. 7 /\ i = 8 * k - 8 + j
    OBVIOUS
  <2>2. WordBit(v, i) = Bit(v[k], j)
    BY DEF WordBit
  <2> HIDE DEF k, j
  <2>3. CASE j + offset <= 7
    <3>1. near \in 1 .. 8 /\ j + offset \in 0 .. 7 /\ (i + n > 31 <=> near > 4)
      BY <2>1, <2>3
    <3>2. WordBit(v, i) = Bit(At(near), j + offset)
      BY <1>5, <2>1, <2>2, <2>3
    <3>3. CASE near > 4
      BY <1>4, <3>1, <3>2, <3>3
    <3>4. CASE near <= 4
      <4>1. (i + n) \div 8 + 1 = near /\ (i + n) % 8 = j + offset
        BY <2>1, <2>3, <3>1
      <4>2. WordBit(a, i + n) = Bit(a[near], j + offset)
        BY <4>1 DEF WordBit
      <4> QED BY <3>1, <3>2, <3>4, <4>2
    <3> QED BY <3>1, <3>3, <3>4
  <2>4. CASE j + offset > 7
    <3>1. far \in 1 .. 8 /\ j + offset - 8 \in 0 .. 7 /\ (i + n > 31 <=> far > 4)
      BY <2>1, <2>4
    <3>2. WordBit(v, i) = Bit(At(far), j + offset - 8)
      BY <1>5, <2>1, <2>2, <2>4
    <3>3. CASE far > 4
      BY <1>4, <3>1, <3>2, <3>3
    <3>4. CASE far <= 4
      <4>1. (i + n) \div 8 + 1 = far /\ (i + n) % 8 = j + offset - 8
        BY <2>1, <2>4, <3>1
      <4>2. WordBit(a, i + n) = Bit(a[far], j + offset - 8)
        BY <4>1 DEF WordBit
      <4> QED BY <3>1, <3>2, <3>4, <4>2
    <3> QED BY <3>1, <3>3, <3>4
  <2> QED BY <2>1, <2>3, <2>4
<1> QED BY <1>6, <1>7 DEF v, top

LEMMA ShiftAmount ==
  ASSUME NEW n \in 0 .. 31
  PROVE  n \div 8 \in 0 .. 3 /\ n % 8 \in 0 .. 7 /\ 8 * (n \div 8) + (n % 8) = n
<1>1. n \div 8 \in 0 .. 3
  OBVIOUS
<1>2. n % 8 \in 0 .. 7
  OBVIOUS
<1>3. 8 * (n \div 8) + (n % 8) = n
  OBVIOUS
<1> QED BY <1>1, <1>2, <1>3

\* A left shift by a number (SLLI, LUI).
LEMMA LeftIsShiftLeft ==
  ASSUME NEW a \in Words, NEW n \in 0 .. 31
  PROVE  /\ LeftBy(a, n) = Machine!ShiftLeft(a, n)
         /\ LeftBy(a, n) \in Words
<1> DEFINE bits == [i \in 0 .. 31 |-> IF i < n THEN 0 ELSE Machine!Bits(a)[i - n]]
<1>1. /\ LeftBy(a, n) \in Words
      /\ \A i \in 0 .. 31 : WordBit(LeftBy(a, n), i) = IF i < n THEN 0 ELSE WordBit(a, i - n)
  BY ShiftAmount, Lefts DEF LeftBy
<1>2. \A i \in 0 .. 31 : bits[i] = WordBit(LeftBy(a, n), i)
  BY <1>1, WordBitsAre
<1> HIDE DEF bits
<1>3. LeftBy(a, n) = Machine!Word(bits)
  BY <1>1, <1>2, WordOfBits
<1> QED BY <1>1, <1>3 DEF bits, Machine!ShiftLeft

\* A right shift by a number (SRLI, SRAI).
LEMMA RightIsShiftRight ==
  ASSUME NEW a \in Words, NEW n \in 0 .. 31, NEW fill \in {0, 255}
  PROVE  /\ RightBy(a, n, fill) = Machine!ShiftRight(a, n, fill \div 255)
         /\ RightBy(a, n, fill) \in Words
<1> DEFINE bits == [i \in 0 .. 31 |-> IF i + n > 31 THEN fill \div 255 ELSE Machine!Bits(a)[i + n]]
<1>1. /\ RightBy(a, n, fill) \in Words
      /\ \A i \in 0 .. 31 : WordBit(RightBy(a, n, fill), i) = IF i + n > 31 THEN fill \div 255 ELSE WordBit(a, i + n)
  BY ShiftAmount, Rights DEF RightBy
<1>2. \A i \in 0 .. 31 : bits[i] = WordBit(RightBy(a, n, fill), i)
  BY <1>1, WordBitsAre
<1> HIDE DEF bits
<1>3. RightBy(a, n, fill) = Machine!Word(bits)
  BY <1>1, <1>2, WordOfBits
<1> QED BY <1>1, <1>3 DEF bits, Machine!ShiftRight

LEMMA SignFillIsSign ==
  ASSUME NEW a \in Words
  PROVE  SignFill(a) \in {0, 255} /\ SignFill(a) \div 255 = Machine!Sign(a)
<1>1. Last(a) = a[4]
  <2>1. Len(a) = 4
    BY DEF Words
  <2> QED BY <2>1 DEF Last
<1>2. Machine!Sign(a) = Bit(a[4], 7)
  <2>1. Machine!Sign(a) = WordBit(a, 31)
    BY WordBitsAre DEF Machine!Sign
  <2>2. 24 + 7 = 31 /\ 7 \in 0 .. 7
    OBVIOUS
  <2>3. WordBit(a, 24 + 7) = Bit(a[4], 7)
    BY <2>2, WordBitNumbers, Zenon
  <2> QED BY <2>1, <2>2, <2>3
<1>3. Bit(a[4], 7) \in {0, 1} /\ a[4] \in Byte
  BY BytesOfWord, BitRange
<1>4. CASE Bit(a[4], 7) = 1
  BY <1>1, <1>2, <1>3, <1>4, TopBit DEF SignFill
<1>5. CASE Bit(a[4], 7) = 0
  BY <1>1, <1>2, <1>3, <1>5, TopBit DEF SignFill
<1> QED BY <1>3, <1>4, <1>5

-----------------------------------------------------------------------------
(* The immediates of U and J. *)

LEMMA Wide ==
  ASSUME NEW w \in Words
  PROVE  \E x \in Byte, y \in Byte, z \in Byte :
           /\ getContrainedBits(w, 12, 31) = <<x, y, z>>
           /\ \A j \in 0 .. 7 :
                /\ Bit(x, j) = WordBit(w, 12 + j) /\ Bit(y, j) = WordBit(w, 20 + j)
                /\ Bit(z, j) = IF j < 4 THEN WordBit(w, 28 + j) ELSE 0
<1> DEFINE x == Splice(w[2], w[3], 4, 4, 0)
           y == Splice(w[3], w[4], 4, 4, 0)
           z == Shr(w[4], 4) & getByteMaskForPosition(4)
<1> USE BytesOfWord
<1>1. getContrainedBits(w, 12, 31) = <<x, y, z>>
  <2>1. Shl(w[3], 4) \in Byte /\ Shl(w[4], 4) \in Byte
    BY ShiftedBytes
  <2>2. Shr(Shl(w[3], 4), 0) = Shl(w[3], 4) /\ Shr(Shl(w[4], 4), 0) = Shl(w[4], 4)
    BY <2>1, ShiftsByNumbers
  <2> QED BY <2>2, ConstrainedBits DEF Splice
<1>2. x \in Byte /\ \A j \in 0 .. 7 : Bit(x, j) = IF j <= 3 THEN Bit(w[2], j + 4) ELSE Bit(w[3], j - 4)
  BY Spliced
<1>3. y \in Byte /\ \A j \in 0 .. 7 : Bit(y, j) = IF j <= 3 THEN Bit(w[3], j + 4) ELSE Bit(w[4], j - 4)
  BY Spliced
<1>4. z \in Byte /\ \A j \in 0 .. 7 : Bit(z, j) = IF j < 4 THEN Bit(w[4], j + 4) ELSE 0
  BY MaskedShift
<1> HIDE DEF x, y, z
<1>5. ASSUME NEW j \in 0 .. 7
      PROVE  /\ Bit(x, j) = WordBit(w, 12 + j) /\ Bit(y, j) = WordBit(w, 20 + j)
             /\ Bit(z, j) = IF j < 4 THEN WordBit(w, 28 + j) ELSE 0
  <2>1. CASE j <= 3
    <3>1. j + 4 \in 0 .. 7 /\ 12 + j = 8 + (j + 4) /\ 20 + j = 16 + (j + 4) /\ 28 + j = 24 + (j + 4)
      BY <2>1
    <3> QED BY <1>2, <1>3, <1>4, <2>1, <3>1, WordBitNumbers
  <2>2. CASE j > 3
    <3>1. j - 4 \in 0 .. 7 /\ 12 + j = 16 + (j - 4) /\ 20 + j = 24 + (j - 4)
      BY <2>2
    <3> QED BY <1>2, <1>3, <1>4, <2>2, <3>1, WordBitNumbers
  <2> QED BY <2>1, <2>2
<1> QED BY <1>1, <1>2, <1>3, <1>4, <1>5

\* The immediate of every LUI and AUIPC (UTypeInstruction::decode).
THEOREM ImmediateU ==
  ASSUME NEW w \in Words
  PROVE  DecodeU(w) = Machine!ImmU(w) /\ DecodeU(w) \in Words
<1>1. PICK x \in Byte, y \in Byte, z \in Byte :
           /\ getContrainedBits(w, 12, 31) = <<x, y, z>>
           /\ \A j \in 0 .. 7 :
                /\ Bit(x, j) = WordBit(w, 12 + j) /\ Bit(y, j) = WordBit(w, 20 + j)
                /\ Bit(z, j) = IF j < 4 THEN WordBit(w, 28 + j) ELSE 0
  BY Wide
<1> DEFINE val == Resize(<<x, y, z>>, 4)
           v == LeftBy(val, 12)
           bits == [i \in 0 .. 31 |-> IF i < 12 THEN 0 ELSE Machine!Bits(w)[i]]
<1>2. val \in Words /\ val[1] = x /\ val[2] = y /\ val[3] = z
  BY ZeroAndOnes DEF Resize, Words
<1> HIDE DEF val
<1>3. /\ v \in Words
      /\ \A i \in 0 .. 31 : WordBit(v, i) = IF i < 12 THEN 0 ELSE WordBit(val, i - 12)
  <2>1. 12 \div 8 = 1 /\ 12 % 8 = 4 /\ 8 * 1 + 4 = 12 /\ 1 \in 0 .. 3 /\ 4 \in 0 .. 7
    OBVIOUS
  <2> QED BY <1>2, <2>1, Lefts DEF LeftBy
<1> HIDE DEF v
<1>4. ASSUME NEW i \in 0 .. 31 PROVE bits[i] = WordBit(v, i)
  <2>1. CASE i < 12
    BY <1>3, <2>1
  <2>2. CASE i \in 12 .. 19
    <3>1. i - 12 \in 0 .. 7 /\ 12 + (i - 12) = i
      BY <2>2
    <3> QED BY <1>1, <1>2, <1>3, <2>2, <3>1, WordBitNumbers, WordBitsAre
  <2>3. CASE i \in 20 .. 27
    <3>1. i - 20 \in 0 .. 7 /\ 20 + (i - 20) = i /\ i - 12 = 8 + (i - 20)
      BY <2>3
    <3> QED BY <1>1, <1>2, <1>3, <2>3, <3>1, WordBitNumbers, WordBitsAre
  <2>4. CASE i \in 28 .. 31
    <3>1. i - 28 \in 0 .. 7 /\ 28 + (i - 28) = i /\ i - 12 = 16 + (i - 28) /\ i - 28 < 4
      BY <2>4
    <3> QED BY <1>1, <1>2, <1>3, <2>4, <3>1, WordBitNumbers, WordBitsAre
  <2> QED BY <2>1, <2>2, <2>3, <2>4
<1> HIDE DEF bits
<1>5. v = Machine!Word(bits)
  BY <1>3, <1>4, WordOfBits
<1>6. DecodeU(w) = v
  BY <1>1 DEF DecodeU, v, val
<1> QED BY <1>3, <1>5, <1>6 DEF bits, Machine!ImmU

LEMMA ExtendedThree ==
  ASSUME NEW p \in Byte, NEW q \in Byte, NEW r \in Byte
  PROVE  /\ copyWithSignExtend(<<p, q, r>>, 4) \in Words
         /\ copyWithSignExtend(<<p, q, r>>, 4)[1] = p
         /\ copyWithSignExtend(<<p, q, r>>, 4)[2] = q
         /\ copyWithSignExtend(<<p, q, r>>, 4)[3] = r
         /\ \A j \in 0 .. 7 : Bit(copyWithSignExtend(<<p, q, r>>, 4)[4], j) = Bit(r, 7)
<1> DEFINE val == <<p, q, r>>
           v == copyWithSignExtend(val, 4)
           e == IF r & 128 # 0 THEN 255 ELSE 0
<1>1. Len(val) = 3 /\ Last(val) = r /\ val[1] = p /\ val[2] = q /\ val[3] = r
  BY DEF Last
<1>2. v = [i \in 1 .. 4 |-> IF i <= 3 THEN val[i] ELSE e]
  BY <1>1 DEF copyWithSignExtend
<1>3. e \in Byte
  BY ZeroAndOnes
<1>4. \A j \in 0 .. 7 : Bit(e, j) = Bit(r, 7)
  <2>1. Bit(r, 7) \in {0, 1}
    BY BitRange
  <2> QED BY <2>1, TopBit, ZeroAndOnes
<1> HIDE DEF e
<1>5. v \in Words /\ v[1] = p /\ v[2] = q /\ v[3] = r /\ v[4] = e
  BY <1>1, <1>2, <1>3 DEF Words
<1> QED BY <1>4, <1>5

\* The three bytes of the offset of a jump.
BytesJ(w, p, q, r) ==
  /\ p \in Byte /\ q \in Byte /\ r \in Byte
  /\ \A j \in 0 .. 7 :
       /\ Bit(p, j) = IF j = 0 THEN 0 ELSE WordBit(w, 20 + j)
       /\ Bit(q, j) = CASE j < 3 -> WordBit(w, 28 + j)
                        [] j = 3 -> WordBit(w, 20) [] j > 3 -> WordBit(w, 8 + j)
       /\ Bit(r, j) = IF j < 4 THEN WordBit(w, 16 + j) ELSE WordBit(w, 31)

LEMMA BytesOfJ ==
  ASSUME NEW w \in Words
  PROVE  \E p, q, r : DecodeJ(w) = <<p, q, r>> /\ BytesJ(w, p, q, r)
<1>1. PICK x \in Byte, y \in Byte, z \in Byte :
           /\ getContrainedBits(w, 12, 31) = <<x, y, z>>
           /\ \A j \in 0 .. 7 :
                /\ Bit(x, j) = WordBit(w, 12 + j) /\ Bit(y, j) = WordBit(w, 20 + j)
                /\ Bit(z, j) = IF j < 4 THEN WordBit(w, 28 + j) ELSE 0
  BY Wide
<1> DEFINE p == y & 254
           q == ((z & 7) | Shl(y & 1, 3)) | Shl(x, 4)
           m == Shr(x, 4) | Shl(z & 8, 1)
           r == IF Bit(w[4], 7) = 1 THEN Signed(m, 5) ELSE m
<1>2. DecodeJ(w) = <<p, q, r>>
  <2>1. SignFrom(<<p, q, m>>, 3, 5) = <<p, q, Signed(m, 5)>>
    BY DEF SignFrom, Signed
  <2>2. w[4] \in Byte
    BY BytesOfWord
  <2>3. <<x, y, z>>[1] = x /\ <<x, y, z>>[2] = y /\ <<x, y, z>>[3] = z
    OBVIOUS
  <2> HIDE DEF p, q, m
  <2>4. DecodeJ(w) = IF w[4] & 128 # 0 THEN SignFrom(<<p, q, m>>, 3, 5) ELSE <<p, q, m>>
    BY <1>1, <2>3 DEF DecodeJ, p, q, m
  <2> QED BY <2>1, <2>2, <2>4, TopBit
<1>3. p \in Byte /\ \A j \in 0 .. 7 : Bit(p, j) = IF j = 0 THEN 0 ELSE WordBit(w, 20 + j)
  BY <1>1, AndBits, Masks
<1>4. q \in Byte /\ \A j \in 0 .. 7 : Bit(q, j) = CASE j < 3 -> WordBit(w, 28 + j)
                                                    [] j = 3 -> WordBit(w, 20) [] j > 3 -> WordBit(w, 8 + j)
  <2> DEFINE a == z & 7  b == Shl(y & 1, 3)  c == Shl(x, 4)
  <2>1. y & 1 \in Byte /\ \A j \in 0 .. 7 : Bit(y & 1, j) = IF j = 0 THEN Bit(y, j) ELSE 0
    BY AndBits, Masks
  <2>2. /\ a \in Byte /\ \A j \in 0 .. 7 : Bit(a, j) = IF j < 3 THEN Bit(z, j) ELSE 0
        /\ b \in Byte /\ \A j \in 0 .. 7 : Bit(b, j) = IF j < 3 THEN 0 ELSE Bit(y & 1, j - 3)
        /\ c \in Byte /\ \A j \in 0 .. 7 : Bit(c, j) = IF j < 4 THEN 0 ELSE Bit(x, j - 4)
    <3>1. a \in Byte /\ \A j \in 0 .. 7 : Bit(a, j) = IF j < 3 THEN Bit(z, j) ELSE 0
      BY AndBits, Masks
    <3>2. b \in Byte /\ \A j \in 0 .. 7 : Bit(b, j) = IF j < 3 THEN 0 ELSE Bit(y & 1, j - 3)
      BY <2>1, BitsOfShl, ShiftedBytes
    <3>3. c \in Byte /\ \A j \in 0 .. 7 : Bit(c, j) = IF j < 4 THEN 0 ELSE Bit(x, j - 4)
      BY BitsOfShl, ShiftedBytes
    <3> QED BY <3>1, <3>2, <3>3
  <2>3. Bit(y, 0) = WordBit(w, 20) /\ \A j \in 4 .. 7 : Bit(x, j - 4) = WordBit(w, 8 + j)
    <3>1. \A j \in 4 .. 7 : j - 4 \in 0 .. 7 /\ 12 + (j - 4) = 8 + j
      OBVIOUS
    <3>2. 20 + 0 = 20 /\ 0 \in 0 .. 7
      OBVIOUS
    <3> QED BY <1>1, <3>1, <3>2
  <2> HIDE DEF a, b, c
  <2>4. a | b \in Byte /\ \A j \in 0 .. 7 : Bit(a | b, j) = IF Bit(a, j) = 0 THEN Bit(b, j) ELSE 1
    BY <2>2, OrBits
  <2>5. (a | b) | c \in Byte /\ \A j \in 0 .. 7 : Bit((a | b) | c, j) = IF Bit(a | b, j) = 0 THEN Bit(c, j) ELSE 1
    BY <2>2, <2>4, OrBits
  <2>6. q = (a | b) | c
    BY DEF a, b, c
  <2>7. \A j \in 0 .. 7 : Bit(a, j) \in {0, 1} /\ Bit(b, j) \in {0, 1} /\ Bit(c, j) \in {0, 1}
    BY <2>2, BitRange
  <2> HIDE DEF q
  <2>8. ASSUME NEW j \in 0 .. 7
        PROVE  Bit(q, j) = CASE j < 3 -> WordBit(w, 28 + j)
                             [] j = 3 -> WordBit(w, 20) [] j > 3 -> WordBit(w, 8 + j)
    <3>1. CASE j < 3
      BY <1>1, <2>2, <2>4, <2>5, <2>6, <2>7, <3>1
    <3>2. CASE j = 3
      BY <1>1, <2>1, <2>2, <2>3, <2>4, <2>5, <2>6, <2>7, <3>2
    <3>3. CASE j > 3
      BY <1>1, <2>1, <2>2, <2>3, <2>4, <2>5, <2>6, <2>7, <3>3
    <3> QED BY <3>1, <3>2, <3>3
  <2> QED BY <2>5, <2>6, <2>8
<1>5. m \in Byte /\ \A j \in 0 .. 7 : Bit(m, j) = CASE j < 4 -> WordBit(w, 16 + j)
                                                    [] j = 4 -> WordBit(w, 31) [] j > 4 -> 0
  <2> DEFINE a == Shr(x, 4)  b == Shl(z & 8, 1)
  <2>1. z & 8 \in Byte /\ \A j \in 0 .. 7 : Bit(z & 8, j) = IF j = 3 THEN Bit(z, j) ELSE 0
    BY AndBits, Masks
  <2>2. /\ a \in Byte /\ \A j \in 0 .. 7 : Bit(a, j) = IF j + 4 > 7 THEN 0 ELSE Bit(x, j + 4)
        /\ b \in Byte /\ \A j \in 0 .. 7 : Bit(b, j) = IF j < 1 THEN 0 ELSE Bit(z & 8, j - 1)
    BY <2>1, BitsOfShl, BitsOfShr, ShiftedBytes
  <2>3. Bit(z, 3) = WordBit(w, 31) /\ \A j \in 0 .. 3 : Bit(x, j + 4) = WordBit(w, 16 + j)
    <3>1. \A j \in 0 .. 3 : j + 4 \in 0 .. 7 /\ 12 + (j + 4) = 16 + j
      OBVIOUS
    <3>2. 28 + 3 = 31 /\ 3 \in 0 .. 7
      OBVIOUS
    <3> QED BY <1>1, <3>1, <3>2
  <2> HIDE DEF a, b
  <2>4. a | b \in Byte /\ \A j \in 0 .. 7 : Bit(a | b, j) = IF Bit(a, j) = 0 THEN Bit(b, j) ELSE 1
    BY <2>2, OrBits
  <2>5. m = a | b
    BY DEF a, b
  <2>6. \A j \in 0 .. 7 : Bit(a, j) \in {0, 1} /\ Bit(b, j) \in {0, 1}
    BY <2>2, BitRange
  <2> HIDE DEF m
  <2>7. ASSUME NEW j \in 0 .. 7
        PROVE  Bit(m, j) = CASE j < 4 -> WordBit(w, 16 + j)
                             [] j = 4 -> WordBit(w, 31) [] j > 4 -> 0
    <3>1. CASE j < 4
      BY <2>1, <2>2, <2>3, <2>4, <2>5, <2>6, <3>1
    <3>2. CASE j = 4
      BY <2>1, <2>2, <2>3, <2>4, <2>5, <2>6, <3>2
    <3>3. CASE j > 4
      BY <2>1, <2>2, <2>3, <2>4, <2>5, <2>6, <3>3
    <3> QED BY <3>1, <3>2, <3>3
  <2> QED BY <2>4, <2>5, <2>7
<1> HIDE DEF p, q, m
<1>6. WordBit(w, 31) = Bit(w[4], 7) /\ w[4] \in Byte
  <2>1. 24 + 7 = 31 /\ 7 \in 0 .. 7
    OBVIOUS
  <2> QED BY <2>1, BytesOfWord, WordBitNumbers
<1>7. r \in Byte /\ \A j \in 0 .. 7 : Bit(r, j) = IF j < 4 THEN WordBit(w, 16 + j) ELSE WordBit(w, 31)
  BY <1>5, <1>6, SignedBits, BitRange
<1> HIDE DEF r
<1> QED BY <1>2, <1>3, <1>4, <1>7 DEF BytesJ

\* The offset of every JAL (JTypeInstruction::decode).
THEOREM ImmediateJ ==
  ASSUME NEW w \in Words
  PROVE  SignExtended(DecodeJ(w)) = Machine!ImmJ(w)
<1>2. PICK p, q, r : DecodeJ(w) = <<p, q, r>> /\ BytesJ(w, p, q, r)
  BY BytesOfJ
<1> DEFINE v == copyWithSignExtend(<<p, q, r>>, 4)
<1>3. p \in Byte /\ \A j \in 0 .. 7 : Bit(p, j) = IF j = 0 THEN 0 ELSE WordBit(w, 20 + j)
  BY <1>2 DEF BytesJ
<1>4. q \in Byte /\ \A j \in 0 .. 7 : Bit(q, j) = CASE j < 3 -> WordBit(w, 28 + j)
                                                    [] j = 3 -> WordBit(w, 20) [] j > 3 -> WordBit(w, 8 + j)
  BY <1>2 DEF BytesJ
<1>7. r \in Byte /\ \A j \in 0 .. 7 : Bit(r, j) = IF j < 4 THEN WordBit(w, 16 + j) ELSE WordBit(w, 31)
  BY <1>2 DEF BytesJ
<1>8. /\ v \in Words /\ v[1] = p /\ v[2] = q /\ v[3] = r
      /\ \A j \in 0 .. 7 : Bit(v[4], j) = Bit(r, 7)
  BY <1>3, <1>4, <1>7, ExtendedThree
<1> DEFINE bits == [i \in 0 .. 31 |-> IF i = 0 THEN 0
                          ELSE Machine!Bits(w)[CASE i <= 10         -> 20 + i
                                         [] i = 11          -> 20
                                         [] i \in 12 .. 19  -> i
                                         [] i >= 20         -> 31]]
<1>9. /\ bits[0] = 0 /\ bits[11] = WordBit(w, 20)
      /\ \A i \in 1 .. 10 : bits[i] = WordBit(w, 20 + i)
      /\ \A i \in 12 .. 19 : bits[i] = WordBit(w, i)
      /\ \A i \in 20 .. 31 : bits[i] = WordBit(w, 31)
  BY WordBitsAre
<1> HIDE DEF bits, v
<1>10. \A j \in 0 .. 7 : /\ bits[j] = Bit(v[1], j) /\ bits[8 + j] = Bit(v[2], j)
                         /\ bits[16 + j] = Bit(v[3], j) /\ bits[24 + j] = Bit(v[4], j)
  <2>1. ASSUME NEW j \in 0 .. 7 PROVE bits[j] = Bit(v[1], j)
    BY <1>3, <1>8, <1>9
  <2>2. ASSUME NEW j \in 0 .. 7 PROVE bits[8 + j] = Bit(v[2], j)
    <3>1. CASE j < 3
      <4>1. 20 + (8 + j) = 28 + j /\ 8 + j \in 1 .. 10
        BY <3>1
      <4> QED BY <1>4, <1>8, <1>9, <3>1, <4>1
    <3>2. CASE j = 3
      BY <1>4, <1>8, <1>9, <3>2
    <3>3. CASE j > 3
      BY <1>4, <1>8, <1>9, <3>3
    <3> QED BY <3>1, <3>2, <3>3
  <2>3. ASSUME NEW j \in 0 .. 7 PROVE bits[16 + j] = Bit(v[3], j) /\ bits[24 + j] = Bit(v[4], j)
    BY <1>7, <1>8, <1>9
  <2> QED BY <2>1, <2>2, <2>3
<1>11. v = Machine!Word(bits)
  BY <1>8, <1>10, WordOfByteBits
<1> QED BY <1>2, <1>11 DEF SignExtended, XLEN, v, bits, Machine!ImmJ

-----------------------------------------------------------------------------
(* Addition and subtraction: digits in base 256 with what is carried. *)

LEMMA Digits ==
  ASSUME NEW s \in Int, NEW t \in Int
  PROVE  /\ s \div 256 \in Int /\ s % 256 \in Byte
         /\ (s + 256 * t) % 256 = s % 256
         /\ (s + 256 * t) \div 256 = t + (s \div 256)
         /\ (s + 256 * t) \div 65536 = (t + (s \div 256)) \div 256
<1> DEFINE c == s \div 256
           r == s % 256
           u == t + c
           d == u \div 256
           p == u % 256
<1>1. c \in Int /\ r \in 0 .. 255 /\ s = 256 * c + r
  OBVIOUS
<1> HIDE DEF c, r
<1>2. u \in Int
  BY <1>1
<1>3. s + 256 * t = 256 * u + r
  BY <1>1
<1> HIDE DEF u
<1>4. d \in Int /\ p \in 0 .. 255 /\ u = 256 * d + p
  BY <1>2
<1> HIDE DEF d, p
<1>5. (256 * u + r) % 256 = r /\ (256 * u + r) \div 256 = u
  BY <1>1, <1>2
<1>6. (256 * u + r) \div 65536 = d
  BY <1>1, <1>4
<1> QED BY <1>1, <1>3, <1>5, <1>6 DEF c, r, u, d, Byte

\* Four digits of which each gives what is over to the next one.
Carried(s1, s2, s3, s4) ==
  LET c1 == s1 \div 256
      c2 == (s2 + c1) \div 256
      c3 == (s3 + c2) \div 256
  IN  <<s1 % 256, (s2 + c1) % 256, (s3 + c2) % 256, (s4 + c3) % 256>>

\* The number that the four digits make.
HalvesOf(s1, s2, s3, s4) ==
  LET low == s1 + 256 * s2
  IN  Machine!Halves(low, (s3 + 256 * s4) + (low \div 65536))

LEMMA CarriedIsHalves ==
  ASSUME NEW s1 \in Int, NEW s2 \in Int, NEW s3 \in Int, NEW s4 \in Int
  PROVE  /\ HalvesOf(s1, s2, s3, s4) = Carried(s1, s2, s3, s4)
         /\ Carried(s1, s2, s3, s4) \in Words
<1> DEFINE low == s1 + 256 * s2
           c1 == s1 \div 256
           c2 == (s2 + c1) \div 256
           c3 == (s3 + c2) \div 256
           high == (s3 + 256 * s4) + (low \div 65536)
<1>1. c1 \in Int /\ s1 % 256 \in Byte /\ low % 256 = s1 % 256 /\ low \div 256 = s2 + c1
      /\ low \div 65536 = c2
  BY Digits
<1> HIDE DEF c1
<1>2. c2 \in Int /\ (s2 + c1) % 256 \in Byte
  BY <1>1, Digits
<1> HIDE DEF c2
<1>3. high = (s3 + c2) + 256 * s4 /\ s3 + c2 \in Int
  BY <1>1, <1>2
<1> HIDE DEF high
<1>4. c3 \in Int /\ (s3 + c2) % 256 \in Byte
      /\ high % 256 = (s3 + c2) % 256 /\ high \div 256 = s4 + c3
  BY <1>3, Digits
<1> HIDE DEF c3
<1>5. (s4 + c3) % 256 \in Byte
  BY <1>4, Digits
<1>6. Machine!Halves(low, high) = <<s1 % 256, (s2 + c1) % 256, (s3 + c2) % 256, (s4 + c3) % 256>>
  BY <1>1, <1>4 DEF Machine!Halves
<1>7. Carried(s1, s2, s3, s4) = <<s1 % 256, (s2 + c1) % 256, (s3 + c2) % 256, (s4 + c3) % 256>>
  BY DEF Carried, c1, c2, c3
<1>8. <<s1 % 256, (s2 + c1) % 256, (s3 + c2) % 256, (s4 + c3) % 256>> \in Words
  <2> DEFINE x1 == s1 % 256  x2 == (s2 + c1) % 256  x3 == (s3 + c2) % 256  x4 == (s4 + c3) % 256
  <2>1. x1 \in Byte /\ x2 \in Byte /\ x3 \in Byte /\ x4 \in Byte
    BY <1>1, <1>2, <1>4, <1>5
  <2> HIDE DEF x1, x2, x3, x4
  <2>2. <<x1, x2, x3, x4>> \in Words
    BY <2>1 DEF Words
  <2> QED BY <2>2 DEF x1, x2, x3, x4
<1> QED BY <1>6, <1>7, <1>8 DEF high, HalvesOf

\* The function that a recursive definition over four bytes describes.
LEMMA FourSteps ==
  ASSUME NEW c1, NEW c2, NEW c3, NEW c4
  PROVE  LET w == [i \in 0 .. 4 |-> CASE i = 0 -> 0 [] i = 1 -> c1 [] i = 2 -> c2
                                      [] i = 3 -> c3 [] i = 4 -> c4]
         IN  /\ w[0] = 0 /\ w[1] = c1 /\ w[2] = c2 /\ w[3] = c3 /\ w[4] = c4
OBVIOUS

LEMMA WordNumbers ==
  ASSUME NEW a \in Words
  PROVE  /\ Len(a) = 4
         /\ a[1] \in 0 .. 255 /\ a[2] \in 0 .. 255 /\ a[3] \in 0 .. 255 /\ a[4] \in 0 .. 255
<1>1. Len(a) = 4
  BY DEF Words
<1> QED BY <1>1, BytesOfWord DEF Byte

\* The bytes of a word as numbers.
LEMMA FourNumbers ==
  \A a \in Words :
    \E x1 \in 0 .. 255, x2 \in 0 .. 255, x3 \in 0 .. 255, x4 \in 0 .. 255 :
      x1 = a[1] /\ x2 = a[2] /\ x3 = a[3] /\ x4 = a[4]
<1> SUFFICES ASSUME NEW a \in Words
             PROVE  \E x1 \in 0 .. 255, x2 \in 0 .. 255, x3 \in 0 .. 255, x4 \in 0 .. 255 :
                      x1 = a[1] /\ x2 = a[2] /\ x3 = a[3] /\ x4 = a[4]
  OBVIOUS
<1>1. a[1] \in 0 .. 255 /\ a[2] \in 0 .. 255 /\ a[3] \in 0 .. 255 /\ a[4] \in 0 .. 255
  BY WordNumbers
<1> QED BY Zenon, <1>1

LEMMA TwoBytes ==
  ASSUME NEW x \in 0 .. 255, NEW v \in 0 .. 255
  PROVE  /\ x + v \in Int /\ x - v \in Int /\ (x + v + 0) = x + v /\ (x - v - 0) = x - v
OBVIOUS

LEMMA HalvesCombined ==
  ASSUME NEW a \in Words, NEW b \in Words
  PROVE  /\ Machine!Low(a) + Machine!Low(b) = (a[1] + b[1]) + 256 * (a[2] + b[2])
         /\ Machine!High(a) + Machine!High(b) = (a[3] + b[3]) + 256 * (a[4] + b[4])
         /\ Machine!Low(a) - Machine!Low(b) = (a[1] - b[1]) + 256 * (a[2] - b[2])
         /\ Machine!High(a) - Machine!High(b) = (a[3] - b[3]) + 256 * (a[4] - b[4])
<1>1. PICK x1 \in 0 .. 255, x2 \in 0 .. 255, x3 \in 0 .. 255, x4 \in 0 .. 255 :
        x1 = a[1] /\ x2 = a[2] /\ x3 = a[3] /\ x4 = a[4]
  BY Zenon, FourNumbers
<1>2. PICK y1 \in 0 .. 255, y2 \in 0 .. 255, y3 \in 0 .. 255, y4 \in 0 .. 255 :
        y1 = b[1] /\ y2 = b[2] /\ y3 = b[3] /\ y4 = b[4]
  BY Zenon, FourNumbers
<1>3. /\ (x1 + 256 * x2) + (y1 + 256 * y2) = (x1 + y1) + 256 * (x2 + y2)
      /\ (x3 + 256 * x4) + (y3 + 256 * y4) = (x3 + y3) + 256 * (x4 + y4)
      /\ (x1 + 256 * x2) - (y1 + 256 * y2) = (x1 - y1) + 256 * (x2 - y2)
      /\ (x3 + 256 * x4) - (y3 + 256 * y4) = (x3 - y3) + 256 * (x4 - y4)
  OBVIOUS
<1> QED BY <1>1, <1>2, <1>3 DEF Machine!Low, Machine!High

\* Adding byte by byte with a carry is addition of words
\* (bytesAdditionUnsigned, bytesAdditionSigned and bytesAddSignedToPC).
THEOREM AddBytesIsPlus ==
  ASSUME NEW a \in Words, NEW b \in Words
  PROVE  AddBytes(a, b) = Machine!Plus(a, b) /\ AddBytes(a, b) \in Words
<1> DEFINE Body(c) == [i \in 0 .. Len(a) |-> IF i = 0 THEN 0 ELSE (a[i] + b[i] + c[i - 1]) \div 256]
           carry == CHOOSE c : c = Body(c)
           s1 == a[1] + b[1]
           s2 == a[2] + b[2]
           s3 == a[3] + b[3]
           s4 == a[4] + b[4]
           c1 == s1 \div 256
           c2 == (s2 + c1) \div 256
           c3 == (s3 + c2) \div 256
           c4 == (s4 + c3) \div 256
           w == [i \in 0 .. 4 |-> CASE i = 0 -> 0 [] i = 1 -> c1 [] i = 2 -> c2
                                    [] i = 3 -> c3 [] i = 4 -> c4]
<1> HIDE DEF Body, carry, w
<1>0. Len(a) = 4 /\ s1 \in Int /\ s2 \in Int /\ s3 \in Int /\ s4 \in Int
  <2>1. /\ Len(a) = 4
        /\ a[1] \in 0 .. 255 /\ a[2] \in 0 .. 255 /\ a[3] \in 0 .. 255 /\ a[4] \in 0 .. 255
    BY WordNumbers
  <2>2. b[1] \in 0 .. 255 /\ b[2] \in 0 .. 255 /\ b[3] \in 0 .. 255 /\ b[4] \in 0 .. 255
    BY WordNumbers
  <2>3. s1 \in Int /\ s2 \in Int
    BY <2>1, <2>2, TwoBytes
  <2>4. s3 \in Int /\ s4 \in Int
    BY <2>1, <2>2, TwoBytes
  <2> QED BY <2>1, <2>3, <2>4
<1>1. (a[1] + b[1] + 0) \div 256 = c1 /\ (a[1] + b[1] + 0) % 256 = s1 % 256
  <2>1. a[1] \in 0 .. 255 /\ b[1] \in 0 .. 255
    BY WordNumbers
  <2>2. a[1] + b[1] + 0 = s1
    BY <2>1, TwoBytes
  <2> HIDE DEF s1
  <2> QED BY <2>2
<1>2. w = Body(w)
  <2> HIDE DEF c1, c2, c3, c4
  <2>1. w[0] = 0 /\ w[1] = c1 /\ w[2] = c2 /\ w[3] = c3 /\ w[4] = c4
    BY FourSteps DEF w
  <2>2. w = [i \in 0 .. 4 |-> w[i]]
    BY DEF w
  <2>3. ASSUME NEW i \in 0 .. 4
        PROVE  w[i] = IF i = 0 THEN 0 ELSE (a[i] + b[i] + w[i - 1]) \div 256
    <3>1. CASE i = 0
      BY <3>1, <2>1
    <3>2. CASE i = 1
      BY <3>2, <2>1, <1>1
    <3>3. CASE i = 2
      BY <3>3, <2>1 DEF c2
    <3>4. CASE i = 3
      BY <3>4, <2>1 DEF c3
    <3>5. CASE i = 4
      BY <3>5, <2>1 DEF c4
    <3> QED BY <3>1, <3>2, <3>3, <3>4, <3>5
  <2> QED BY <1>0, <2>2, <2>3 DEF Body
<1>3. carry = Body(carry)
  <2> QED BY <1>2 DEF carry
<1>4. carry[0] = 0 /\ carry[1] = c1 /\ carry[2] = c2 /\ carry[3] = c3
  <2>1. carry[0] = 0
    BY <1>0, <1>3 DEF Body
  <2>2. carry[1] = (a[1] + b[1] + carry[0]) \div 256
    BY <1>0, <1>3 DEF Body
  <2>3. carry[2] = (a[2] + b[2] + carry[1]) \div 256
    BY <1>0, <1>3 DEF Body
  <2>4. carry[3] = (a[3] + b[3] + carry[2]) \div 256
    BY <1>0, <1>3 DEF Body
  <2> QED BY <1>1, <2>1, <2>2, <2>3, <2>4
<1>5. AddBytes(a, b) = [i \in 1 .. Len(a) |-> (a[i] + b[i] + carry[i - 1]) % 256]
  BY Zenon DEF AddBytes, carry, Body
<1> HIDE DEF c1, c2, c3
<1>6. AddBytes(a, b) = << (a[1] + b[1] + carry[0]) % 256, (a[2] + b[2] + carry[1]) % 256,
                          (a[3] + b[3] + carry[2]) % 256, (a[4] + b[4] + carry[3]) % 256 >>
  BY <1>0, <1>5
<1>7. AddBytes(a, b) = Carried(s1, s2, s3, s4)
  BY <1>1, <1>4, <1>6 DEF Carried, c1, c2, c3
<1>8. Machine!Plus(a, b) = HalvesOf(s1, s2, s3, s4)
  <2>1. Machine!Low(a) + Machine!Low(b) = s1 + 256 * s2
        /\ Machine!High(a) + Machine!High(b) = s3 + 256 * s4
    BY HalvesCombined
  <2> HIDE DEF s1, s2, s3, s4
  <2> QED BY <2>1 DEF Machine!Plus, HalvesOf
<1> HIDE DEF s1, s2, s3, s4
<1> QED BY <1>0, <1>7, <1>8, CarriedIsHalves

\* What a byte of the code borrows from the next one, and what it should borrow.
Borrow(abs) == IF abs < 0 THEN (-abs) \div 255 + 1 ELSE 0
One(abs) == IF abs < 0 THEN 1 ELSE 0

\* The borrows of bytesSubtractionUnsigned, one after the other.
LEMMA Borrows ==
  ASSUME NEW a \in Words, NEW b \in Words
  PROVE  LET g1 == Borrow(a[1] - b[1] - 0)
             g2 == Borrow(a[2] - b[2] - g1)
             g3 == Borrow(a[3] - b[3] - g2)
         IN  bytesSubtractionUnsigned(a, b)
               = << (a[1] - b[1] - 0) % 256, (a[2] - b[2] - g1) % 256,
                    (a[3] - b[3] - g2) % 256, (a[4] - b[4] - g3) % 256 >>
<1> DEFINE Body(c) == [i \in 0 .. Len(a) |->
                         IF i = 0 THEN 0
                         ELSE LET abs == a[i] - b[i] - c[i - 1]
                              IN  IF abs < 0 THEN (-abs) \div 255 + 1 ELSE 0]
           borrow == CHOOSE c : c = Body(c)
           g1 == Borrow(a[1] - b[1] - 0)
           g2 == Borrow(a[2] - b[2] - g1)
           g3 == Borrow(a[3] - b[3] - g2)
           g4 == Borrow(a[4] - b[4] - g3)
           w == [i \in 0 .. 4 |-> CASE i = 0 -> 0 [] i = 1 -> g1 [] i = 2 -> g2
                                    [] i = 3 -> g3 [] i = 4 -> g4]
<1> HIDE DEF Body, borrow, w
<1>0. Len(a) = 4
  BY WordNumbers
<1>1. \A c : Body(c) = [i \in 0 .. 4 |-> IF i = 0 THEN 0 ELSE Borrow(a[i] - b[i] - c[i - 1])]
  BY <1>0 DEF Body, Borrow
<1>2. w = Body(w)
  <2> HIDE DEF g1, g2, g3, g4
  <2>1. w[0] = 0 /\ w[1] = g1 /\ w[2] = g2 /\ w[3] = g3 /\ w[4] = g4
    BY FourSteps DEF w
  <2>2. w = [i \in 0 .. 4 |-> w[i]]
    BY DEF w
  <2>3. ASSUME NEW i \in 0 .. 4
        PROVE  w[i] = IF i = 0 THEN 0 ELSE Borrow(a[i] - b[i] - w[i - 1])
    <3>1. CASE i = 0
      BY <3>1, <2>1
    <3>2. CASE i = 1
      BY <3>2, <2>1 DEF g1
    <3>3. CASE i = 2
      BY <3>3, <2>1 DEF g2
    <3>4. CASE i = 3
      BY <3>4, <2>1 DEF g3
    <3>5. CASE i = 4
      BY <3>5, <2>1 DEF g4
    <3> QED BY <3>1, <3>2, <3>3, <3>4, <3>5
  <2> QED BY <1>1, <2>2, <2>3
<1>3. borrow = Body(borrow)
  BY <1>2 DEF borrow
<1>4. borrow[0] = 0 /\ borrow[1] = g1 /\ borrow[2] = g2 /\ borrow[3] = g3
  <2> HIDE DEF g1, g2, g3, g4
  <2>1. borrow[0] = 0
    BY <1>1, <1>3
  <2>2. borrow[1] = Borrow(a[1] - b[1] - borrow[0])
    BY <1>1, <1>3
  <2>3. borrow[2] = Borrow(a[2] - b[2] - borrow[1])
    BY <1>1, <1>3
  <2>4. borrow[3] = Borrow(a[3] - b[3] - borrow[2])
    BY <1>1, <1>3
  <2> QED BY <2>1, <2>2, <2>3, <2>4 DEF g1, g2, g3
<1>5. bytesSubtractionUnsigned(a, b) = [i \in 1 .. Len(a) |-> (a[i] - b[i] - borrow[i - 1]) % 256]
  BY Zenon DEF bytesSubtractionUnsigned, borrow, Body
<1> HIDE DEF g1, g2, g3, g4
<1>6. bytesSubtractionUnsigned(a, b)
        = << (a[1] - b[1] - borrow[0]) % 256, (a[2] - b[2] - borrow[1]) % 256,
             (a[3] - b[3] - borrow[2]) % 256, (a[4] - b[4] - borrow[3]) % 256 >>
  BY <1>0, <1>5
<1> QED BY <1>4, <1>6 DEF g1, g2, g3

\* The borrows of the erratum, one after the other.
LEMMA SingleBorrows ==
  ASSUME NEW a \in Words, NEW b \in Words
  PROVE  LET e1 == One(a[1] - b[1] - 0)
             e2 == One(a[2] - b[2] - e1)
         IN  Machine!DoubleBorrow(a, b)
               <=> \/ a[1] - b[1] - 0 <= -255
                   \/ a[2] - b[2] - e1 <= -255
                   \/ a[3] - b[3] - e2 <= -255
<1> DEFINE Body(c) == [i \in 0 .. 3 |->
                         IF i = 0 THEN 0 ELSE IF a[i] - b[i] - c[i - 1] < 0 THEN 1 ELSE 0]
           borrow == CHOOSE c : c = Body(c)
           e1 == One(a[1] - b[1] - 0)
           e2 == One(a[2] - b[2] - e1)
           e3 == One(a[3] - b[3] - e2)
           w == [i \in 0 .. 3 |-> CASE i = 0 -> 0 [] i = 1 -> e1 [] i = 2 -> e2 [] i = 3 -> e3]
<1> HIDE DEF Body, borrow, w
<1>1. \A c : Body(c) = [i \in 0 .. 3 |-> IF i = 0 THEN 0 ELSE One(a[i] - b[i] - c[i - 1])]
  BY DEF Body, One
<1>2. w = Body(w)
  <2> HIDE DEF e1, e2, e3
  <2>1. w[0] = 0 /\ w[1] = e1 /\ w[2] = e2 /\ w[3] = e3
    BY DEF w
  <2>2. w = [i \in 0 .. 3 |-> w[i]]
    BY DEF w
  <2>3. ASSUME NEW i \in 0 .. 3
        PROVE  w[i] = IF i = 0 THEN 0 ELSE One(a[i] - b[i] - w[i - 1])
    <3>1. CASE i = 0
      BY <3>1, <2>1
    <3>2. CASE i = 1
      BY <3>2, <2>1 DEF e1
    <3>3. CASE i = 2
      BY <3>3, <2>1 DEF e2
    <3>4. CASE i = 3
      BY <3>4, <2>1 DEF e3
    <3> QED BY <3>1, <3>2, <3>3, <3>4
  <2> QED BY <1>1, <2>2, <2>3
<1>3. borrow = Body(borrow)
  BY <1>2 DEF borrow
<1>4. borrow[0] = 0 /\ borrow[1] = e1 /\ borrow[2] = e2
  <2> HIDE DEF e1, e2, e3
  <2>1. borrow[0] = 0
    BY <1>1, <1>3
  <2>2. borrow[1] = One(a[1] - b[1] - borrow[0])
    BY <1>1, <1>3
  <2>3. borrow[2] = One(a[2] - b[2] - borrow[1])
    BY <1>1, <1>3
  <2> QED BY <2>1, <2>2, <2>3 DEF e1, e2
<1>5. Machine!DoubleBorrow(a, b) <=> \E i \in 1 .. 3 : a[i] - b[i] - borrow[i - 1] <= -255
  BY Zenon DEF Machine!DoubleBorrow, borrow, Body
<1> HIDE DEF e1, e2, e3
<1>6. (\E i \in 1 .. 3 : a[i] - b[i] - borrow[i - 1] <= -255)
        <=> \/ a[1] - b[1] - borrow[0] <= -255
            \/ a[2] - b[2] - borrow[1] <= -255
            \/ a[3] - b[3] - borrow[2] <= -255
  <2>1. \A i \in 1 .. 3 : i = 1 \/ i = 2 \/ i = 3
    OBVIOUS
  <2>2. 1 - 1 = 0 /\ 2 - 1 = 1 /\ 3 - 1 = 2 /\ 1 \in 1 .. 3 /\ 2 \in 1 .. 3 /\ 3 \in 1 .. 3
    OBVIOUS
  <2> QED BY Zenon, <2>1, <2>2
<1> QED BY <1>4, <1>5, <1>6 DEF e1, e2

LEMMA OneBorrow ==
  \A s \in -256 .. 255 :
    /\ One(s) \in 0 .. 1 /\ s \div 256 = -One(s)
    /\ ~(s <= -255) => Borrow(s) = One(s)
BY DEF One, Borrow

LEMMA Difference ==
  \A x \in 0 .. 255, y \in 0 .. 255, e \in 0 .. 1 :
    x - y - e \in -256 .. 255 /\ (x - y) + (-e) = x - y - e
OBVIOUS

\* Subtracting byte by byte is subtraction of words, unless a byte below the
\* top takes a borrow of two (bytesSubtractionUnsigned).
THEOREM SubtractionIsMinus ==
  ASSUME NEW a \in Words, NEW b \in Words, ~Machine!DoubleBorrow(a, b)
  PROVE  bytesSubtractionUnsigned(a, b) = Machine!Minus(a, b)
<1>1. PICK x1 \in 0 .. 255, x2 \in 0 .. 255, x3 \in 0 .. 255, x4 \in 0 .. 255 :
        x1 = a[1] /\ x2 = a[2] /\ x3 = a[3] /\ x4 = a[4]
  BY Zenon, FourNumbers
<1>2. PICK y1 \in 0 .. 255, y2 \in 0 .. 255, y3 \in 0 .. 255, y4 \in 0 .. 255 :
        y1 = b[1] /\ y2 = b[2] /\ y3 = b[3] /\ y4 = b[4]
  BY Zenon, FourNumbers
<1> DEFINE s1 == x1 - y1  s2 == x2 - y2  s3 == x3 - y3  s4 == x4 - y4
           d1 == x1 - y1 - 0      e1 == One(d1)  c1 == s1 \div 256
           d2 == x2 - y2 - e1     e2 == One(d2)  c2 == (s2 + c1) \div 256
           d3 == x3 - y3 - e2     e3 == One(d3)  c3 == (s3 + c2) \div 256
           d4 == x4 - y4 - e3
           g1 == Borrow(d1)
           g2 == Borrow(x2 - y2 - g1)
           g3 == Borrow(x3 - y3 - g2)
<1>3. ~(d1 <= -255) /\ ~(d2 <= -255) /\ ~(d3 <= -255)
  BY <1>1, <1>2, SingleBorrows
<1>4. bytesSubtractionUnsigned(a, b)
        = << d1 % 256, (x2 - y2 - g1) % 256, (x3 - y3 - g2) % 256, (x4 - y4 - g3) % 256 >>
  BY <1>1, <1>2, Borrows
<1>5. s1 \in Int /\ s2 \in Int /\ s3 \in Int /\ s4 \in Int /\ d1 \in -256 .. 255 /\ s1 = d1
  OBVIOUS
<1> HIDE DEF d1
<1>6. e1 \in 0 .. 1 /\ c1 = -e1 /\ g1 = e1
  BY Zenon, <1>3, <1>5, OneBorrow
<1> HIDE DEF e1, c1, g1
<1>7. d2 \in -256 .. 255 /\ s2 + c1 = d2
  BY Zenon, <1>6, Difference
<1> HIDE DEF d2
<1>8. e2 \in 0 .. 1 /\ c2 = -e2
  BY Zenon, <1>3, <1>7, OneBorrow
<1>9. g2 = e2
  <2>1. g2 = Borrow(d2)
    BY <1>6 DEF d2
  <2> QED BY Zenon, <1>3, <1>7, <2>1, OneBorrow
<1> HIDE DEF e2, c2, g2
<1>10. d3 \in -256 .. 255 /\ s3 + c2 = d3
  BY Zenon, <1>8, Difference
<1> HIDE DEF d3
<1>11. e3 \in 0 .. 1 /\ c3 = -e3
  BY Zenon, <1>3, <1>10, OneBorrow
<1>12. g3 = e3
  <2>1. g3 = Borrow(d3)
    BY <1>9 DEF d3
  <2> QED BY Zenon, <1>3, <1>10, <2>1, OneBorrow
<1> HIDE DEF e3, c3, g3
<1>13. s4 + c3 = d4
  BY Zenon, <1>11, Difference
<1>14. bytesSubtractionUnsigned(a, b) = <<d1 % 256, d2 % 256, d3 % 256, d4 % 256>>
  BY <1>4, <1>6, <1>9, <1>12 DEF d2, d3
<1> HIDE DEF d4
<1>15. Carried(s1, s2, s3, s4)
         = <<s1 % 256, (s2 + c1) % 256, (s3 + c2) % 256, (s4 + c3) % 256>>
  BY DEF Carried, c1, c2, c3
<1>16. bytesSubtractionUnsigned(a, b) = Carried(s1, s2, s3, s4)
  <2> HIDE DEF s1, s2, s3, s4
  <2> QED BY <1>5, <1>7, <1>10, <1>13, <1>14, <1>15
<1>17. Machine!Minus(a, b) = HalvesOf(s1, s2, s3, s4)
  <2>1. Machine!Low(a) - Machine!Low(b) = s1 + 256 * s2
        /\ Machine!High(a) - Machine!High(b) = s3 + 256 * s4
    BY <1>1, <1>2, HalvesCombined
  <2> HIDE DEF s1, s2, s3, s4
  <2> QED BY <2>1 DEF Machine!Minus, HalvesOf
<1> HIDE DEF s1, s2, s3, s4
<1> QED BY <1>5, <1>16, <1>17, CarriedIsHalves

LEMMA SubtractionType ==
  ASSUME NEW a \in Words, NEW b \in Words
  PROVE  bytesSubtractionUnsigned(a, b) \in Words
<1>1. PICK x1 \in 0 .. 255, x2 \in 0 .. 255, x3 \in 0 .. 255, x4 \in 0 .. 255 :
        x1 = a[1] /\ x2 = a[2] /\ x3 = a[3] /\ x4 = a[4]
  BY Zenon, FourNumbers
<1>2. PICK y1 \in 0 .. 255, y2 \in 0 .. 255, y3 \in 0 .. 255, y4 \in 0 .. 255 :
        y1 = b[1] /\ y2 = b[2] /\ y3 = b[3] /\ y4 = b[4]
  BY Zenon, FourNumbers
<1> DEFINE g1 == Borrow(x1 - y1 - 0)
           g2 == Borrow(x2 - y2 - g1)
           g3 == Borrow(x3 - y3 - g2)
           z1 == (x1 - y1 - 0) % 256
           z2 == (x2 - y2 - g1) % 256
           z3 == (x3 - y3 - g2) % 256
           z4 == (x4 - y4 - g3) % 256
<1>3. bytesSubtractionUnsigned(a, b) = <<z1, z2, z3, z4>>
  BY <1>1, <1>2, Borrows
<1>4. \A s \in Int : Borrow(s) \in Int /\ s % 256 \in Byte
  BY DEF Borrow, Byte
<1>5. z1 \in Byte /\ g1 \in Int
  BY <1>4
<1> HIDE DEF g1, z1
<1>6. z2 \in Byte /\ g2 \in Int
  BY <1>4, <1>5
<1> HIDE DEF g2, z2
<1>7. z3 \in Byte /\ g3 \in Int
  BY <1>4, <1>6
<1> HIDE DEF g3, z3
<1>8. z4 \in Byte
  BY <1>4, <1>7
<1> HIDE DEF z4
<1>9. <<z1, z2, z3, z4>> \in Words
  BY <1>5, <1>6, <1>7, <1>8 DEF Words
<1> QED BY <1>3, <1>9

-----------------------------------------------------------------------------
(* Adding one byte. *)

\* What the first byte leaves for the second.
FirstRest(sum) == IF sum < 0 THEN 255 ELSE sum \div 256

LEMMA Rests ==
  ASSUME NEW a \in Words, NEW k
  PROVE  LET r1 == FirstRest(a[1] + Char(k))
             r2 == (a[2] + r1) \div 256
             r3 == (a[3] + r2) \div 256
             r4 == (a[4] + r3) \div 256
         IN  addByteToBytes(a, k)
               = IF r4 # 0 THEN <<>>
                 ELSE << (a[1] + k) % 256, (a[2] + r1) % 256, (a[3] + r2) % 256, (a[4] + r3) % 256 >>
<1> DEFINE Body(c) == [i \in 1 .. Len(a) |->
                         IF i = 1 THEN LET sum == a[1] + Char(k)
                                       IN  IF sum < 0 THEN 255 ELSE sum \div 256
                         ELSE (a[i] + c[i - 1]) \div 256]
           rest == CHOOSE c : c = Body(c)
           r1 == FirstRest(a[1] + Char(k))
           r2 == (a[2] + r1) \div 256
           r3 == (a[3] + r2) \div 256
           r4 == (a[4] + r3) \div 256
           w == [i \in 1 .. 4 |-> CASE i = 1 -> r1 [] i = 2 -> r2 [] i = 3 -> r3 [] i = 4 -> r4]
<1> HIDE DEF Body, rest, w
<1>0. Len(a) = 4
  BY WordNumbers
<1>1. \A c : Body(c) = [i \in 1 .. 4 |-> IF i = 1 THEN FirstRest(a[1] + Char(k))
                                                  ELSE (a[i] + c[i - 1]) \div 256]
  BY <1>0 DEF Body, FirstRest
<1>2. w = Body(w)
  <2> HIDE DEF r1, r2, r3, r4
  <2>1. w[1] = r1 /\ w[2] = r2 /\ w[3] = r3 /\ w[4] = r4
    BY DEF w
  <2>2. w = [i \in 1 .. 4 |-> w[i]]
    BY DEF w
  <2>3. ASSUME NEW i \in 1 .. 4
        PROVE  w[i] = IF i = 1 THEN FirstRest(a[1] + Char(k)) ELSE (a[i] + w[i - 1]) \div 256
    <3>2. CASE i = 1
      BY <3>2, <2>1 DEF r1
    <3>3. CASE i = 2
      BY <3>3, <2>1 DEF r2
    <3>4. CASE i = 3
      BY <3>4, <2>1 DEF r3
    <3>5. CASE i = 4
      BY <3>5, <2>1 DEF r4
    <3> QED BY <3>2, <3>3, <3>4, <3>5
  <2> QED BY <1>1, <2>2, <2>3
<1>3. rest = Body(rest)
  BY <1>2 DEF rest
<1>4. rest[1] = r1 /\ rest[2] = r2 /\ rest[3] = r3 /\ rest[4] = r4
  <2> HIDE DEF r1, r2, r3, r4
  <2>1. rest[1] = FirstRest(a[1] + Char(k))
    BY <1>1, <1>3
  <2>2. rest[2] = (a[2] + rest[1]) \div 256
    BY <1>1, <1>3
  <2>3. rest[3] = (a[3] + rest[2]) \div 256
    BY <1>1, <1>3
  <2>4. rest[4] = (a[4] + rest[3]) \div 256
    BY <1>1, <1>3
  <2> QED BY <2>1, <2>2, <2>3, <2>4 DEF r1, r2, r3, r4
<1>5. addByteToBytes(a, k)
        = IF rest[Len(a)] # 0 THEN <<>>
          ELSE [i \in 1 .. Len(a) |-> (a[i] + IF i = 1 THEN k ELSE rest[i - 1]) % 256]
  BY Zenon DEF addByteToBytes, rest, Body
<1> HIDE DEF r1, r2, r3, r4
<1>6. [i \in 1 .. 4 |-> (a[i] + IF i = 1 THEN k ELSE rest[i - 1]) % 256]
        = << (a[1] + k) % 256, (a[2] + rest[1]) % 256, (a[3] + rest[2]) % 256, (a[4] + rest[3]) % 256 >>
  OBVIOUS
<1>7. addByteToBytes(a, k)
        = IF r4 # 0 THEN <<>>
          ELSE << (a[1] + k) % 256, (a[2] + r1) % 256, (a[3] + r2) % 256, (a[4] + r3) % 256 >>
  <2> HIDE DEF Body, rest
  <2> QED BY <1>0, <1>4, <1>5, <1>6
<1> QED BY <1>7 DEF r1, r2, r3, r4

\* The byte as a word.
Single(k) == <<k, 0, 0, 0>>

LEMMA SingleWord ==
  ASSUME NEW k \in 0 .. 255
  PROVE  Single(k) \in Words /\ Single(k)[1] = k /\ Single(k)[2] = 0 /\ Single(k)[3] = 0
         /\ Single(k)[4] = 0
<1>1. k \in Byte /\ 0 \in Byte
  BY DEF Byte
<1> QED BY <1>1 DEF Single, Words

\* The halves with a byte added and subtracted.
WithSingle(a, k) ==
  /\ Machine!Low(a) + Machine!Low(Single(k)) = (a[1] + k) + 256 * (a[2] + 0)
  /\ Machine!High(a) + Machine!High(Single(k)) = (a[3] + 0) + 256 * (a[4] + 0)
  /\ Machine!Low(a) - Machine!Low(Single(k)) = (a[1] - k) + 256 * (a[2] - 0)
  /\ Machine!High(a) - Machine!High(Single(k)) = (a[3] - 0) + 256 * (a[4] - 0)

LEMMA HalvesWithSingle ==
  ASSUME NEW a \in Words, NEW k \in 0 .. 255
  PROVE  WithSingle(a, k)
<1> DEFINE b == Single(k)
<1>0. b \in Words
  BY SingleWord
<1>1. b[1] = k /\ b[2] = 0 /\ b[3] = 0 /\ b[4] = 0
  BY SingleWord
<1> HIDE DEF b
<1>2. /\ Machine!Low(a) + Machine!Low(b) = (a[1] + b[1]) + 256 * (a[2] + b[2])
      /\ Machine!High(a) + Machine!High(b) = (a[3] + b[3]) + 256 * (a[4] + b[4])
      /\ Machine!Low(a) - Machine!Low(b) = (a[1] - b[1]) + 256 * (a[2] - b[2])
      /\ Machine!High(a) - Machine!High(b) = (a[3] - b[3]) + 256 * (a[4] - b[4])
  BY <1>0, HalvesCombined
<1> QED BY <1>1, <1>2 DEF b, WithSingle

\* addByteToBytes with a byte that is no negative one adds it, and throws only
\* if the sum does not fit.
THEOREM AddByteIsPlus ==
  ASSUME NEW a \in Words, NEW k \in 0 .. 127
  PROVE  /\ addByteToBytes(a, k) = <<>> \/ addByteToBytes(a, k) = Machine!Plus(a, Single(k))
         /\ a[4] = 0 => addByteToBytes(a, k) # <<>>
         /\ addByteToBytes(a, k) = <<>> => a[4] = 255 /\ a[3] = 255 /\ a[2] = 255 /\ a[1] + k >= 256
         /\ a[4] = 255 /\ a[3] = 255 /\ a[2] = 255 /\ a[1] + k >= 256 => addByteToBytes(a, k) = <<>>
<1>1. PICK x1 \in 0 .. 255, x2 \in 0 .. 255, x3 \in 0 .. 255, x4 \in 0 .. 255 :
        x1 = a[1] /\ x2 = a[2] /\ x3 = a[3] /\ x4 = a[4]
  BY Zenon, FourNumbers
<1>0. /\ Machine!Low(a) + Machine!Low(Single(k)) = (a[1] + k) + 256 * (a[2] + 0)
      /\ Machine!High(a) + Machine!High(Single(k)) = (a[3] + 0) + 256 * (a[4] + 0)
  <2>1. k \in 0 .. 255
    OBVIOUS
  <2>2. WithSingle(a, k)
    BY <2>1, HalvesWithSingle
  <2> QED BY <2>2 DEF WithSingle
<1> DEFINE r1 == FirstRest(x1 + Char(k))
           r2 == (x2 + r1) \div 256
           r3 == (x3 + r2) \div 256
           r4 == (x4 + r3) \div 256
           z == << (x1 + k) % 256, (x2 + r1) % 256, (x3 + r2) % 256, (x4 + r3) % 256 >>
<1>2. addByteToBytes(a, k) = IF r4 # 0 THEN <<>> ELSE z
  BY <1>1, Rests
<1>3. r1 = (x1 + k) \div 256
  BY DEF FirstRest, Char
<1>4. z # <<>>
  OBVIOUS
<1>5. z = Machine!Plus(a, Single(k))
  <2> DEFINE s1 == x1 + k  s2 == x2 + 0  s3 == x3 + 0  s4 == x4 + 0
  <2>1. s1 \in Int /\ s2 = x2 /\ s3 = x3 /\ s4 = x4
    OBVIOUS
  <2>2. z = Carried(s1, s2, s3, s4)
    <3> HIDE DEF r1
    <3> QED BY <1>3, <2>1 DEF Carried
  <2>3. /\ Machine!Low(a) + Machine!Low(Single(k)) = s1 + 256 * s2
        /\ Machine!High(a) + Machine!High(Single(k)) = s3 + 256 * s4
    BY <1>0, <1>1
  <2> HIDE DEF s1, s2, s3, s4, z
  <2>4. Machine!Plus(a, Single(k)) = HalvesOf(s1, s2, s3, s4)
    BY <2>3 DEF Machine!Plus, HalvesOf
  <2>5. HalvesOf(s1, s2, s3, s4) = Carried(s1, s2, s3, s4)
    BY <2>1, CarriedIsHalves
  <2> QED BY <2>2, <2>4, <2>5
<1> HIDE DEF r1, z
<1>6. r1 \in 0 .. 1 /\ (r1 = 1 <=> x1 + k >= 256)
  BY <1>3
<1>7. r2 \in 0 .. 1 /\ (r2 = 1 <=> x2 = 255 /\ r1 = 1)
  BY <1>6
<1> HIDE DEF r2
<1>8. r3 \in 0 .. 1 /\ (r3 = 1 <=> x3 = 255 /\ r2 = 1)
  BY <1>7
<1> HIDE DEF r3
<1>9. r4 \in 0 .. 1 /\ (r4 = 1 <=> x4 = 255 /\ r3 = 1)
  BY <1>8
<1> HIDE DEF r4
<1>10. r4 = 0 \/ r4 = 1
  BY <1>9
<1>11. 0 # 1 /\ 0 # 255
  OBVIOUS
<1>13. r4 # 0 <=> r4 = 1
  BY Zenon, <1>10, <1>11
<1>14. r3 = 1 <=> x3 = 255 /\ x2 = 255 /\ x1 + k >= 256
  BY Zenon, <1>6, <1>7, <1>8
<1>12. r4 # 0 <=> x4 = 255 /\ x3 = 255 /\ x2 = 255 /\ x1 + k >= 256
  BY Zenon, <1>9, <1>13, <1>14
<1>15. addByteToBytes(a, k) = <<>> <=> r4 # 0
  BY Zenon, <1>2, <1>4
<1>16. addByteToBytes(a, k) = <<>> <=> a[4] = 255 /\ a[3] = 255 /\ a[2] = 255 /\ a[1] + k >= 256
  BY Zenon, <1>1, <1>12, <1>15
<1>17. a[4] = 0 => addByteToBytes(a, k) # <<>>
  BY Zenon, <1>11, <1>16
<1>18. addByteToBytes(a, k) = <<>> \/ addByteToBytes(a, k) = Machine!Plus(a, Single(k))
  BY Zenon, <1>2, <1>5
<1> QED BY Zenon, <1>16, <1>17, <1>18

\* addByteToBytes with 255 subtracts one where the lowest byte is not 0.
LEMMA AddMinusOne ==
  ASSUME NEW a \in Words
  PROVE  /\ addByteToBytes(a, 255) = <<>> \/ addByteToBytes(a, 255) \in Words
         /\ a[1] # 0 => addByteToBytes(a, 255) = Machine!Minus(a, Single(1))
<1>1. PICK x1 \in 0 .. 255, x2 \in 0 .. 255, x3 \in 0 .. 255, x4 \in 0 .. 255 :
        x1 = a[1] /\ x2 = a[2] /\ x3 = a[3] /\ x4 = a[4]
  BY Zenon, FourNumbers
<1> DEFINE r1 == FirstRest(x1 + Char(255))
           r2 == (x2 + r1) \div 256
           r3 == (x3 + r2) \div 256
           r4 == (x4 + r3) \div 256
           z1 == (x1 + 255) % 256
           z2 == (x2 + r1) % 256
           z3 == (x3 + r2) % 256
           z4 == (x4 + r3) % 256
<1>2. addByteToBytes(a, 255) = IF r4 # 0 THEN <<>> ELSE <<z1, z2, z3, z4>>
  BY <1>1, Rests
<1>3. r1 = (IF x1 = 0 THEN 255 ELSE 0)
  BY DEF FirstRest, Char
<1> HIDE DEF r1
<1>4. z1 \in Byte /\ z2 \in Byte /\ r2 \in 0 .. 1
  BY <1>3 DEF Byte
<1>5. r1 = 0 => r2 = 0 /\ z2 = x2
  OBVIOUS
<1> HIDE DEF r2, z2
<1>6. z3 \in Byte /\ r3 \in 0 .. 1 /\ (r2 = 0 => r3 = 0 /\ z3 = x3)
  BY <1>4 DEF Byte
<1> HIDE DEF r3, z3
<1>7. z4 \in Byte /\ (r3 = 0 => r4 = 0 /\ z4 = x4)
  BY <1>6 DEF Byte
<1>8. x1 # 0 => z1 = x1 - 1
  OBVIOUS
<1> HIDE DEF r4, z4, z1
<1>9. <<z1, z2, z3, z4>> \in Words
  BY <1>4, <1>6, <1>7 DEF Words
<1>10. ASSUME x1 # 0 PROVE addByteToBytes(a, 255) = Machine!Minus(a, Single(1))
  <2> DEFINE s1 == x1 - 1  s2 == x2 - 0  s3 == x3 - 0  s4 == x4 - 0
  <2>1. s1 \in 0 .. 254 /\ s2 = x2 /\ s3 = x3 /\ s4 = x4
    BY <1>10
  <2>2. /\ Machine!Low(a) - Machine!Low(Single(1)) = s1 + 256 * s2
        /\ Machine!High(a) - Machine!High(Single(1)) = s3 + 256 * s4
    <3>0. 1 \in 0 .. 255
      OBVIOUS
    <3>1. WithSingle(a, 1)
      BY <3>0, HalvesWithSingle
    <3> QED BY <1>1, <3>1 DEF WithSingle
  <2> HIDE DEF s1, s2, s3, s4
  <2>3. Machine!Minus(a, Single(1)) = HalvesOf(s1, s2, s3, s4)
    BY <2>2 DEF Machine!Minus, HalvesOf
  <2>4. HalvesOf(s1, s2, s3, s4) = Carried(s1, s2, s3, s4)
    BY <2>1, CarriedIsHalves
  <2>5. Carried(s1, s2, s3, s4) = <<s1, x2, x3, x4>>
    <3>1. s1 \div 256 = 0 /\ s1 % 256 = s1
      BY <2>1
    <3>2. \A x \in 0 .. 255 : (x + 0) \div 256 = 0 /\ (x + 0) % 256 = x
      OBVIOUS
    <3>3. (x2 + 0) \div 256 = 0 /\ (x2 + 0) % 256 = x2 /\ (x3 + 0) \div 256 = 0
          /\ (x3 + 0) % 256 = x3 /\ (x4 + 0) % 256 = x4
      BY <3>2
    <3> QED BY <2>1, <3>1, <3>3 DEF Carried
  <2>6. addByteToBytes(a, 255) = <<s1, x2, x3, x4>>
    BY <1>2, <1>3, <1>5, <1>6, <1>7, <1>8, <1>10 DEF s1
  <2> QED BY <2>3, <2>4, <2>5, <2>6
<1> QED BY <1>1, <1>2, <1>9, <1>10

-----------------------------------------------------------------------------
(* Comparisons. *)

\* The counts after one more iteration of the loop.
NextCounts(c) ==
  LET count1 == IF c[1] >= c[2] THEN c[1] - 1 ELSE c[1]
  IN  <<count1, IF c[2] >= count1 THEN c[2] - 1 ELSE c[2]>>

LEMMA NextCountsFour ==
  /\ NextCounts(<<4, 4>>) = <<3, 3>>
  /\ NextCounts(<<3, 3>>) = <<2, 2>>
  /\ NextCounts(<<2, 2>>) = <<1, 1>>
  /\ NextCounts(<<1, 1>>) = <<0, 0>>
  /\ NextCounts(<<0, 0>>) = <<-1, -1>>
  /\ NextCounts(<<-1, -1>>) = <<-2, -2>>
  /\ NextCounts(<<-2, -2>>) = <<-3, -3>>
  /\ NextCounts(<<-3, -3>>) = <<-4, -4>>
BY DEF NextCounts

LEMMA NextCountsTwo ==
  /\ NextCounts(<<4, 2>>) = <<3, 2>>
  /\ NextCounts(<<3, 2>>) = <<2, 1>>
  /\ NextCounts(<<2, 1>>) = <<1, 0>>
  /\ NextCounts(<<1, 0>>) = <<0, -1>>
  /\ NextCounts(<<0, -1>>) = <<-1, -2>>
  /\ NextCounts(<<-1, -2>>) = <<-2, -3>>
BY DEF NextCounts

\* Compare on two vectors of four elements: the first difference from the top.
LEMMA CompareFour ==
  ASSUME NEW v \in [1 .. 4 -> Int], NEW u \in [1 .. 4 -> Int]
  PROVE  Compare(v, u) = IF v[4] - u[4] # 0 THEN v[4] - u[4]
                         ELSE IF v[3] - u[3] # 0 THEN v[3] - u[3]
                         ELSE IF v[2] - u[2] # 0 THEN v[2] - u[2] ELSE v[1] - u[1]
<1> DEFINE Body(c) == [k \in 0 .. Len(v) + Len(u) |->
                         IF k = 0 THEN <<Len(v), Len(u)>> ELSE NextCounts(c[k - 1])]
           counts == CHOOSE c : c = Body(c)
           Compared(c) == (IF c[1] >= c[2] THEN v[c[1]] ELSE 0) - (IF c[2] >= c[1] THEN u[c[2]] ELSE 0)
           Differ(k) == counts[k][1] > 0 /\ counts[k][2] > 0 /\ Compared(counts[k]) # 0
           First(k) == Differ(k) /\ \A j \in 0 .. k - 1 : ~Differ(j)
           w == [k \in 0 .. 8 |-> CASE k = 0 -> <<4, 4>> [] k = 1 -> <<3, 3>> [] k = 2 -> <<2, 2>> [] k = 3 -> <<1, 1>> [] k = 4 -> <<0, 0>> [] k = 5 -> <<-1, -1>> [] k = 6 -> <<-2, -2>> [] k = 7 -> <<-3, -3>> [] k = 8 -> <<-4, -4>>]
<1> HIDE DEF Body, counts, w, Compared, Differ, First
<1>0. Len(v) = 4 /\ Len(u) = 4 /\ 4 + 4 = 8
  OBVIOUS
<1>1. \A c : Body(c) = [k \in 0 .. 8 |-> IF k = 0 THEN <<4, 4>> ELSE NextCounts(c[k - 1])]
  BY <1>0 DEF Body
<1>2. w = Body(w)
  <2>1. w[0] = <<4, 4>> /\ w[1] = <<3, 3>> /\ w[2] = <<2, 2>> /\ w[3] = <<1, 1>> /\ w[4] = <<0, 0>> /\ w[5] = <<-1, -1>> /\ w[6] = <<-2, -2>> /\ w[7] = <<-3, -3>> /\ w[8] = <<-4, -4>>
    BY DEF w
  <2>2. w = [k \in 0 .. 8 |-> w[k]]
    BY DEF w
  <2>3. ASSUME NEW k \in 0 .. 8
        PROVE  w[k] = IF k = 0 THEN <<4, 4>> ELSE NextCounts(w[k - 1])
    <3>0. CASE k = 0
      BY <3>0, <2>1
    <3>1. CASE k = 1
      <4>1. w[k] = <<3, 3>> /\ w[k - 1] = <<4, 4>> /\ k # 0
        BY <3>1, <2>1
      <4> QED BY <4>1, NextCountsFour
    <3>2. CASE k = 2
      <4>1. w[k] = <<2, 2>> /\ w[k - 1] = <<3, 3>> /\ k # 0
        BY <3>2, <2>1
      <4> QED BY <4>1, NextCountsFour
    <3>3. CASE k = 3
      <4>1. w[k] = <<1, 1>> /\ w[k - 1] = <<2, 2>> /\ k # 0
        BY <3>3, <2>1
      <4> QED BY <4>1, NextCountsFour
    <3>4. CASE k = 4
      <4>1. w[k] = <<0, 0>> /\ w[k - 1] = <<1, 1>> /\ k # 0
        BY <3>4, <2>1
      <4> QED BY <4>1, NextCountsFour
    <3>5. CASE k = 5
      <4>1. w[k] = <<-1, -1>> /\ w[k - 1] = <<0, 0>> /\ k # 0
        BY <3>5, <2>1
      <4> QED BY <4>1, NextCountsFour
    <3>6. CASE k = 6
      <4>1. w[k] = <<-2, -2>> /\ w[k - 1] = <<-1, -1>> /\ k # 0
        BY <3>6, <2>1
      <4> QED BY <4>1, NextCountsFour
    <3>7. CASE k = 7
      <4>1. w[k] = <<-3, -3>> /\ w[k - 1] = <<-2, -2>> /\ k # 0
        BY <3>7, <2>1
      <4> QED BY <4>1, NextCountsFour
    <3>8. CASE k = 8
      <4>1. w[k] = <<-4, -4>> /\ w[k - 1] = <<-3, -3>> /\ k # 0
        BY <3>8, <2>1
      <4> QED BY <4>1, NextCountsFour
    <3> QED BY <3>0, <3>1, <3>2, <3>3, <3>4, <3>5, <3>6, <3>7, <3>8
  <2> QED BY <1>1, <2>2, <2>3
<1>3. counts = Body(counts)
  BY <1>2 DEF counts
<1>4. \A k \in 0 .. 8 : counts[k] = IF k = 0 THEN <<4, 4>> ELSE NextCounts(counts[k - 1])
  BY <1>1, <1>3
<1>5. counts[0] = <<4, 4>>
  BY <1>4
<1>6. counts[1] = <<3, 3>>
  <2>1. 1 \in 0 .. 8 /\ 1 # 0 /\ 1 - 1 = 0
    OBVIOUS
  <2>2. counts[1] = NextCounts(counts[0])
    BY <1>4, <2>1
  <2> QED BY <1>5, <2>2, NextCountsFour
<1>7. counts[2] = <<2, 2>>
  <2>1. 2 \in 0 .. 8 /\ 2 # 0 /\ 2 - 1 = 1
    OBVIOUS
  <2>2. counts[2] = NextCounts(counts[1])
    BY <1>4, <2>1
  <2> QED BY <1>6, <2>2, NextCountsFour
<1>8. counts[3] = <<1, 1>>
  <2>1. 3 \in 0 .. 8 /\ 3 # 0 /\ 3 - 1 = 2
    OBVIOUS
  <2>2. counts[3] = NextCounts(counts[2])
    BY <1>4, <2>1
  <2> QED BY <1>7, <2>2, NextCountsFour
<1>9. counts[4] = <<0, 0>>
  <2>1. 4 \in 0 .. 8 /\ 4 # 0 /\ 4 - 1 = 3
    OBVIOUS
  <2>2. counts[4] = NextCounts(counts[3])
    BY <1>4, <2>1
  <2> QED BY <1>8, <2>2, NextCountsFour
<1>10. counts[5] = <<-1, -1>>
  <2>1. 5 \in 0 .. 8 /\ 5 # 0 /\ 5 - 1 = 4
    OBVIOUS
  <2>2. counts[5] = NextCounts(counts[4])
    BY <1>4, <2>1
  <2> QED BY <1>9, <2>2, NextCountsFour
<1>11. counts[6] = <<-2, -2>>
  <2>1. 6 \in 0 .. 8 /\ 6 # 0 /\ 6 - 1 = 5
    OBVIOUS
  <2>2. counts[6] = NextCounts(counts[5])
    BY <1>4, <2>1
  <2> QED BY <1>10, <2>2, NextCountsFour
<1>12. counts[7] = <<-3, -3>>
  <2>1. 7 \in 0 .. 8 /\ 7 # 0 /\ 7 - 1 = 6
    OBVIOUS
  <2>2. counts[7] = NextCounts(counts[6])
    BY <1>4, <2>1
  <2> QED BY <1>11, <2>2, NextCountsFour
<1>13. counts[8] = <<-4, -4>>
  <2>1. 8 \in 0 .. 8 /\ 8 # 0 /\ 8 - 1 = 7
    OBVIOUS
  <2>2. counts[8] = NextCounts(counts[7])
    BY <1>4, <2>1
  <2> QED BY <1>12, <2>2, NextCountsFour
<1>14. /\ Compared(counts[0]) = v[4] - u[4]
       /\ Compared(counts[1]) = v[3] - u[3]
       /\ Compared(counts[2]) = v[2] - u[2]
       /\ Compared(counts[3]) = v[1] - u[1]
  BY <1>5, <1>6, <1>7, <1>8, <1>9, <1>10, <1>11, <1>12, <1>13 DEF Compared
<1>15. /\ Differ(0) <=> Compared(counts[0]) # 0
       /\ Differ(1) <=> Compared(counts[1]) # 0
       /\ Differ(2) <=> Compared(counts[2]) # 0
       /\ Differ(3) <=> Compared(counts[3]) # 0
       /\ ~Differ(4)
       /\ ~Differ(5)
       /\ ~Differ(6)
       /\ ~Differ(7)
       /\ ~Differ(8)
  <2> HIDE DEF Compared
  <2> QED BY <1>5, <1>6, <1>7, <1>8, <1>9, <1>10, <1>11, <1>12, <1>13 DEF Differ
<1>16. \A k \in 0 .. 8 : k = 0 \/ k = 1 \/ k = 2 \/ k = 3 \/ k = 4 \/ k = 5 \/ k = 6 \/ k = 7 \/ k = 8
  OBVIOUS
<1>17. Compare(v, u) = IF \E k \in DOMAIN counts : Differ(k)
                         THEN Compared(counts[CHOOSE k \in DOMAIN counts : First(k)]) ELSE 0
  BY Zenon DEF Compare, counts, Body, NextCounts, Compared, Differ, First
<1>18. DOMAIN counts = 0 .. 8
  BY <1>1, <1>3
<1>19. ASSUME NEW f \in 0 .. 8, Differ(f), \A j \in 0 .. f - 1 : ~Differ(j)
       PROVE  Compare(v, u) = Compared(counts[f])
  <2>1. First(f) /\ f \in DOMAIN counts
    BY <1>18, <1>19 DEF First
  <2>2. ASSUME NEW k \in 0 .. 8, First(k) PROVE k = f
    <3>1. ~(k < f) /\ ~(f < k)
      BY <1>19, <2>2 DEF First
    <3> QED BY <3>1
  <2> DEFINE chosen == CHOOSE k \in DOMAIN counts : First(k)
  <2>3. chosen \in DOMAIN counts /\ First(chosen)
    BY <2>1
  <2> HIDE DEF chosen
  <2>4. chosen = f
    BY <1>18, <2>2, <2>3
  <2>5. \E k \in DOMAIN counts : Differ(k)
    BY <1>19, <2>1
  <2> QED BY <1>17, <2>4, <2>5 DEF chosen
<1>20. ASSUME Differ(0) PROVE Compare(v, u) = Compared(counts[0])
  <2>1. 0 \in 0 .. 8 /\ \A j \in 0 .. 0 - 1 : FALSE
    OBVIOUS
  <2> QED BY <1>20, <1>19, <2>1
<1>21. ASSUME Differ(1), ~Differ(0) PROVE Compare(v, u) = Compared(counts[1])
  <2>1. 1 \in 0 .. 8 /\ \A j \in 0 .. 1 - 1 : j = 0
    OBVIOUS
  <2> QED BY <1>21, <1>19, <2>1
<1>22. ASSUME Differ(2), ~Differ(0), ~Differ(1) PROVE Compare(v, u) = Compared(counts[2])
  <2>1. 2 \in 0 .. 8 /\ \A j \in 0 .. 2 - 1 : j = 0 \/ j = 1
    OBVIOUS
  <2> QED BY <1>22, <1>19, <2>1
<1>23. ASSUME Differ(3), ~Differ(0), ~Differ(1), ~Differ(2) PROVE Compare(v, u) = Compared(counts[3])
  <2>1. 3 \in 0 .. 8 /\ \A j \in 0 .. 3 - 1 : j = 0 \/ j = 1 \/ j = 2
    OBVIOUS
  <2> QED BY <1>23, <1>19, <2>1
<1>24. ASSUME ~Differ(0), ~Differ(1), ~Differ(2), ~Differ(3) PROVE Compare(v, u) = 0
  <2>1. \A k \in 0 .. 8 : ~Differ(k)
    BY <1>24, <1>15, <1>16
  <2> QED BY <1>17, <1>18, <2>1
<1> HIDE DEF Compared, Differ
<1>25. v[1] \in Int /\ v[2] \in Int /\ v[3] \in Int /\ v[4] \in Int
  OBVIOUS
<1> QED BY <1>14, <1>15, <1>20, <1>21, <1>22, <1>23, <1>24, <1>25

\* Compare on four elements and two: the counts fall out of step, and the
\* second vector is never looked at.
LEMMA CompareTwo ==
  ASSUME NEW v \in [1 .. 4 -> Int], NEW u \in [1 .. 2 -> Int]
  PROVE  Compare(v, u) = IF v[4] # 0 THEN v[4] ELSE IF v[3] # 0 THEN v[3] ELSE v[2]
<1> DEFINE Body(c) == [k \in 0 .. Len(v) + Len(u) |->
                         IF k = 0 THEN <<Len(v), Len(u)>> ELSE NextCounts(c[k - 1])]
           counts == CHOOSE c : c = Body(c)
           Compared(c) == (IF c[1] >= c[2] THEN v[c[1]] ELSE 0) - (IF c[2] >= c[1] THEN u[c[2]] ELSE 0)
           Differ(k) == counts[k][1] > 0 /\ counts[k][2] > 0 /\ Compared(counts[k]) # 0
           First(k) == Differ(k) /\ \A j \in 0 .. k - 1 : ~Differ(j)
           w == [k \in 0 .. 6 |-> CASE k = 0 -> <<4, 2>> [] k = 1 -> <<3, 2>> [] k = 2 -> <<2, 1>> [] k = 3 -> <<1, 0>> [] k = 4 -> <<0, -1>> [] k = 5 -> <<-1, -2>> [] k = 6 -> <<-2, -3>>]
<1> HIDE DEF Body, counts, w, Compared, Differ, First
<1>0. Len(v) = 4 /\ Len(u) = 2 /\ 4 + 2 = 6
  OBVIOUS
<1>1. \A c : Body(c) = [k \in 0 .. 6 |-> IF k = 0 THEN <<4, 2>> ELSE NextCounts(c[k - 1])]
  BY <1>0 DEF Body
<1>2. w = Body(w)
  <2>1. w[0] = <<4, 2>> /\ w[1] = <<3, 2>> /\ w[2] = <<2, 1>> /\ w[3] = <<1, 0>> /\ w[4] = <<0, -1>> /\ w[5] = <<-1, -2>> /\ w[6] = <<-2, -3>>
    BY DEF w
  <2>2. w = [k \in 0 .. 6 |-> w[k]]
    BY DEF w
  <2>3. ASSUME NEW k \in 0 .. 6
        PROVE  w[k] = IF k = 0 THEN <<4, 2>> ELSE NextCounts(w[k - 1])
    <3>0. CASE k = 0
      BY <3>0, <2>1
    <3>1. CASE k = 1
      <4>1. w[k] = <<3, 2>> /\ w[k - 1] = <<4, 2>> /\ k # 0
        BY <3>1, <2>1
      <4> QED BY <4>1, NextCountsTwo
    <3>2. CASE k = 2
      <4>1. w[k] = <<2, 1>> /\ w[k - 1] = <<3, 2>> /\ k # 0
        BY <3>2, <2>1
      <4> QED BY <4>1, NextCountsTwo
    <3>3. CASE k = 3
      <4>1. w[k] = <<1, 0>> /\ w[k - 1] = <<2, 1>> /\ k # 0
        BY <3>3, <2>1
      <4> QED BY <4>1, NextCountsTwo
    <3>4. CASE k = 4
      <4>1. w[k] = <<0, -1>> /\ w[k - 1] = <<1, 0>> /\ k # 0
        BY <3>4, <2>1
      <4> QED BY <4>1, NextCountsTwo
    <3>5. CASE k = 5
      <4>1. w[k] = <<-1, -2>> /\ w[k - 1] = <<0, -1>> /\ k # 0
        BY <3>5, <2>1
      <4> QED BY <4>1, NextCountsTwo
    <3>6. CASE k = 6
      <4>1. w[k] = <<-2, -3>> /\ w[k - 1] = <<-1, -2>> /\ k # 0
        BY <3>6, <2>1
      <4> QED BY <4>1, NextCountsTwo
    <3> QED BY <3>0, <3>1, <3>2, <3>3, <3>4, <3>5, <3>6
  <2> QED BY <1>1, <2>2, <2>3
<1>3. counts = Body(counts)
  BY <1>2 DEF counts
<1>4. \A k \in 0 .. 6 : counts[k] = IF k = 0 THEN <<4, 2>> ELSE NextCounts(counts[k - 1])
  BY <1>1, <1>3
<1>5. counts[0] = <<4, 2>>
  BY <1>4
<1>6. counts[1] = <<3, 2>>
  <2>1. 1 \in 0 .. 6 /\ 1 # 0 /\ 1 - 1 = 0
    OBVIOUS
  <2>2. counts[1] = NextCounts(counts[0])
    BY <1>4, <2>1
  <2> QED BY <1>5, <2>2, NextCountsTwo
<1>7. counts[2] = <<2, 1>>
  <2>1. 2 \in 0 .. 6 /\ 2 # 0 /\ 2 - 1 = 1
    OBVIOUS
  <2>2. counts[2] = NextCounts(counts[1])
    BY <1>4, <2>1
  <2> QED BY <1>6, <2>2, NextCountsTwo
<1>8. counts[3] = <<1, 0>>
  <2>1. 3 \in 0 .. 6 /\ 3 # 0 /\ 3 - 1 = 2
    OBVIOUS
  <2>2. counts[3] = NextCounts(counts[2])
    BY <1>4, <2>1
  <2> QED BY <1>7, <2>2, NextCountsTwo
<1>9. counts[4] = <<0, -1>>
  <2>1. 4 \in 0 .. 6 /\ 4 # 0 /\ 4 - 1 = 3
    OBVIOUS
  <2>2. counts[4] = NextCounts(counts[3])
    BY <1>4, <2>1
  <2> QED BY <1>8, <2>2, NextCountsTwo
<1>10. counts[5] = <<-1, -2>>
  <2>1. 5 \in 0 .. 6 /\ 5 # 0 /\ 5 - 1 = 4
    OBVIOUS
  <2>2. counts[5] = NextCounts(counts[4])
    BY <1>4, <2>1
  <2> QED BY <1>9, <2>2, NextCountsTwo
<1>11. counts[6] = <<-2, -3>>
  <2>1. 6 \in 0 .. 6 /\ 6 # 0 /\ 6 - 1 = 5
    OBVIOUS
  <2>2. counts[6] = NextCounts(counts[5])
    BY <1>4, <2>1
  <2> QED BY <1>10, <2>2, NextCountsTwo
<1>12. /\ Compared(counts[0]) = v[4] - 0
       /\ Compared(counts[1]) = v[3] - 0
       /\ Compared(counts[2]) = v[2] - 0
  BY <1>5, <1>6, <1>7, <1>8, <1>9, <1>10, <1>11 DEF Compared
<1>13. /\ Differ(0) <=> Compared(counts[0]) # 0
       /\ Differ(1) <=> Compared(counts[1]) # 0
       /\ Differ(2) <=> Compared(counts[2]) # 0
       /\ ~Differ(3)
       /\ ~Differ(4)
       /\ ~Differ(5)
       /\ ~Differ(6)
  <2> HIDE DEF Compared
  <2> QED BY <1>5, <1>6, <1>7, <1>8, <1>9, <1>10, <1>11 DEF Differ
<1>14. \A k \in 0 .. 6 : k = 0 \/ k = 1 \/ k = 2 \/ k = 3 \/ k = 4 \/ k = 5 \/ k = 6
  OBVIOUS
<1>15. Compare(v, u) = IF \E k \in DOMAIN counts : Differ(k)
                         THEN Compared(counts[CHOOSE k \in DOMAIN counts : First(k)]) ELSE 0
  BY Zenon DEF Compare, counts, Body, NextCounts, Compared, Differ, First
<1>16. DOMAIN counts = 0 .. 6
  BY <1>1, <1>3
<1>17. ASSUME NEW f \in 0 .. 6, Differ(f), \A j \in 0 .. f - 1 : ~Differ(j)
       PROVE  Compare(v, u) = Compared(counts[f])
  <2>1. First(f) /\ f \in DOMAIN counts
    BY <1>16, <1>17 DEF First
  <2>2. ASSUME NEW k \in 0 .. 6, First(k) PROVE k = f
    <3>1. ~(k < f) /\ ~(f < k)
      BY <1>17, <2>2 DEF First
    <3> QED BY <3>1
  <2> DEFINE chosen == CHOOSE k \in DOMAIN counts : First(k)
  <2>3. chosen \in DOMAIN counts /\ First(chosen)
    BY <2>1
  <2> HIDE DEF chosen
  <2>4. chosen = f
    BY <1>16, <2>2, <2>3
  <2>5. \E k \in DOMAIN counts : Differ(k)
    BY <1>17, <2>1
  <2> QED BY <1>15, <2>4, <2>5 DEF chosen
<1>18. ASSUME Differ(0) PROVE Compare(v, u) = Compared(counts[0])
  <2>1. 0 \in 0 .. 6 /\ \A j \in 0 .. 0 - 1 : FALSE
    OBVIOUS
  <2> QED BY <1>18, <1>17, <2>1
<1>19. ASSUME Differ(1), ~Differ(0) PROVE Compare(v, u) = Compared(counts[1])
  <2>1. 1 \in 0 .. 6 /\ \A j \in 0 .. 1 - 1 : j = 0
    OBVIOUS
  <2> QED BY <1>19, <1>17, <2>1
<1>20. ASSUME Differ(2), ~Differ(0), ~Differ(1) PROVE Compare(v, u) = Compared(counts[2])
  <2>1. 2 \in 0 .. 6 /\ \A j \in 0 .. 2 - 1 : j = 0 \/ j = 1
    OBVIOUS
  <2> QED BY <1>20, <1>17, <2>1
<1>21. ASSUME ~Differ(0), ~Differ(1), ~Differ(2) PROVE Compare(v, u) = 0
  <2>1. \A k \in 0 .. 6 : ~Differ(k)
    BY <1>21, <1>13, <1>14
  <2> QED BY <1>15, <1>16, <2>1
<1> HIDE DEF Compared, Differ
<1>22. v[1] \in Int /\ v[2] \in Int /\ v[3] \in Int /\ v[4] \in Int
  OBVIOUS
<1> QED BY <1>12, <1>13, <1>18, <1>19, <1>20, <1>21, <1>22

\* The order of two words, from the top.
LEMMA LessFromTheTop ==
  ASSUME NEW a \in Words, NEW b \in Words
  PROVE  Machine!LessUnsigned(a, b)
         <=> IF a[4] # b[4] THEN a[4] < b[4] ELSE IF a[3] # b[3] THEN a[3] < b[3]
             ELSE IF a[2] # b[2] THEN a[2] < b[2] ELSE a[1] < b[1]
<1>1. PICK x1 \in 0 .. 255, x2 \in 0 .. 255, x3 \in 0 .. 255, x4 \in 0 .. 255 :
        x1 = a[1] /\ x2 = a[2] /\ x3 = a[3] /\ x4 = a[4]
  BY Zenon, FourNumbers
<1>2. PICK y1 \in 0 .. 255, y2 \in 0 .. 255, y3 \in 0 .. 255, y4 \in 0 .. 255 :
        y1 = b[1] /\ y2 = b[2] /\ y3 = b[3] /\ y4 = b[4]
  BY Zenon, FourNumbers
<1>3. Machine!LessUnsigned(a, b)
        <=> (x3 + 256 * x4 < y3 + 256 * y4
               \/ (x3 + 256 * x4 = y3 + 256 * y4 /\ x1 + 256 * x2 < y1 + 256 * y2))
  BY <1>1, <1>2 DEF Machine!LessUnsigned, Machine!Low, Machine!High
<1>4. Machine!LessUnsigned(a, b)
        <=> IF x4 # y4 THEN x4 < y4 ELSE IF x3 # y3 THEN x3 < y3
             ELSE IF x2 # y2 THEN x2 < y2 ELSE x1 < y1
  <2>1. x3 + 256 * x4 = y3 + 256 * y4 <=> x4 = y4 /\ x3 = y3
    OBVIOUS
  <2>2. x4 # y4 => (x3 + 256 * x4 < y3 + 256 * y4 <=> x4 < y4)
    OBVIOUS
  <2>3. x4 = y4 => (x3 + 256 * x4 < y3 + 256 * y4 <=> x3 < y3)
    OBVIOUS
  <2>4. x2 # y2 => (x1 + 256 * x2 < y1 + 256 * y2 <=> x2 < y2)
    OBVIOUS
  <2>5. x2 = y2 => (x1 + 256 * x2 < y1 + 256 * y2 <=> x1 < y1)
    OBVIOUS
  <2> QED BY <1>3, <2>1, <2>2, <2>3, <2>4, <2>5
<1> QED BY <1>1, <1>2, <1>4

LEMMA WordsAreIntegers == \A a \in Words : a \in [1 .. 4 -> Int]
BY DEF Words, Byte

\* bytesLessThanBytesUnsigned is the order of words as numbers.
THEOREM UnsignedOrder ==
  ASSUME NEW a \in Words, NEW b \in Words
  PROVE  bytesLessThanBytesUnsigned(a, b) <=> Machine!LessUnsigned(a, b)
<1>1. PICK x1 \in 0 .. 255, x2 \in 0 .. 255, x3 \in 0 .. 255, x4 \in 0 .. 255 :
        x1 = a[1] /\ x2 = a[2] /\ x3 = a[3] /\ x4 = a[4]
  BY Zenon, FourNumbers
<1>2. PICK y1 \in 0 .. 255, y2 \in 0 .. 255, y3 \in 0 .. 255, y4 \in 0 .. 255 :
        y1 = b[1] /\ y2 = b[2] /\ y3 = b[3] /\ y4 = b[4]
  BY Zenon, FourNumbers
<1>3. Compare(a, b) = IF x4 - y4 # 0 THEN x4 - y4 ELSE IF x3 - y3 # 0 THEN x3 - y3
                      ELSE IF x2 - y2 # 0 THEN x2 - y2 ELSE x1 - y1
  BY <1>1, <1>2, WordsAreIntegers, CompareFour
<1>4. Compare(a, b) < 0 <=> IF x4 # y4 THEN x4 < y4 ELSE IF x3 # y3 THEN x3 < y3
                            ELSE IF x2 # y2 THEN x2 < y2 ELSE x1 < y1
  BY <1>3
<1> QED BY <1>1, <1>2, <1>4, LessFromTheTop DEF bytesLessThanBytesUnsigned

LEMMA CharValues ==
  ASSUME NEW x \in 0 .. 255
  PROVE  /\ Char(x) \in -128 .. 127 /\ (x + 128) % 256 = Char(x) + 128
         /\ Char(x) = 0 <=> x = 0
         /\ Char(x) < 0 <=> x >= 128
BY DEF Char

LEMMA SignedValues ==
  ASSUME NEW a \in Words
  PROVE  /\ AsSigned(a) \in [1 .. 4 -> Int]
         /\ AsSigned(a)[1] = Char(a[1]) /\ AsSigned(a)[2] = Char(a[2])
         /\ AsSigned(a)[3] = Char(a[3]) /\ AsSigned(a)[4] = Char(a[4])
<1>1. DOMAIN a = 1 .. 4 /\ \A i \in 1 .. 4 : a[i] \in 0 .. 255
  BY DEF Words, Byte
<1>2. \A i \in 1 .. 4 : Char(a[i]) \in -128 .. 127
  BY <1>1, CharValues
<1>3. \A n \in -128 .. 127 : n \in Int
  OBVIOUS
<1>4. AsSigned(a) = [i \in 1 .. 4 |-> Char(a[i])]
  BY <1>1 DEF AsSigned
<1>5. \A i \in 1 .. 4 : Char(a[i]) \in Int
  BY <1>2, <1>3
<1> QED BY <1>4, <1>5

\* bytesLessThanBytesSigned is the order of words as signed numbers, unless
\* bytes below the top decide and only one of them has its top bit set.
THEOREM SignedOrder ==
  ASSUME NEW a \in Words, NEW b \in Words, ~Machine!SignedByBytes(a, b)
  PROVE  bytesLessThanBytesSigned(a, b) <=> Machine!LessSigned(a, b)
<1>1. PICK x1 \in 0 .. 255, x2 \in 0 .. 255, x3 \in 0 .. 255, x4 \in 0 .. 255 :
        x1 = a[1] /\ x2 = a[2] /\ x3 = a[3] /\ x4 = a[4]
  BY Zenon, FourNumbers
<1>2. PICK y1 \in 0 .. 255, y2 \in 0 .. 255, y3 \in 0 .. 255, y4 \in 0 .. 255 :
        y1 = b[1] /\ y2 = b[2] /\ y3 = b[3] /\ y4 = b[4]
  BY Zenon, FourNumbers
<1> DEFINE d1 == Char(x1) - Char(y1)  d2 == Char(x2) - Char(y2)
           d3 == Char(x3) - Char(y3)  d4 == Char(x4) - Char(y4)
           fx == (x4 + 128) % 256     fy == (y4 + 128) % 256
<1>3. Compare(AsSigned(a), AsSigned(b))
        = IF d4 # 0 THEN d4 ELSE IF d3 # 0 THEN d3 ELSE IF d2 # 0 THEN d2 ELSE d1
  BY <1>1, <1>2, SignedValues, CompareFour
<1>4. /\ x4 = y4 => ~(x3 >= 128 <=> y3 < 128)
      /\ x4 = y4 /\ x3 = y3 => ~(x2 >= 128 <=> y2 < 128)
      /\ x4 = y4 /\ x3 = y3 /\ x2 = y2 => ~(x1 >= 128 <=> y1 < 128)
  <2>1. \A i \in 1 .. 3 : ~((a[i] >= 128 <=> b[i] < 128) /\ \A j \in i + 1 .. 4 : a[j] = b[j])
    BY DEF Machine!SignedByBytes
  <2>2. /\ 1 \in 1 .. 3 /\ 2 \in 1 .. 3 /\ 3 \in 1 .. 3
        /\ \A j \in 1 + 1 .. 4 : j = 2 \/ j = 3 \/ j = 4
        /\ \A j \in 2 + 1 .. 4 : j = 3 \/ j = 4
        /\ \A j \in 3 + 1 .. 4 : j = 4
    OBVIOUS
  <2>3. a[4] = b[4] => ~(a[3] >= 128 <=> b[3] < 128)
    <3>1. SUFFICES ASSUME a[4] = b[4] PROVE ~(a[3] >= 128 <=> b[3] < 128)
      OBVIOUS
    <3>2. ASSUME NEW j \in 3 + 1 .. 4 PROVE a[j] = b[j]
      BY Zenon, <2>2, <3>1, <3>2
    <3> QED BY Zenon, <2>1, <2>2, <3>2
  <2>4. a[4] = b[4] /\ a[3] = b[3] => ~(a[2] >= 128 <=> b[2] < 128)
    <3>1. SUFFICES ASSUME a[4] = b[4] /\ a[3] = b[3] PROVE ~(a[2] >= 128 <=> b[2] < 128)
      OBVIOUS
    <3>2. ASSUME NEW j \in 2 + 1 .. 4 PROVE a[j] = b[j]
      BY Zenon, <2>2, <3>1, <3>2
    <3> QED BY Zenon, <2>1, <2>2, <3>2
  <2>5. a[4] = b[4] /\ a[3] = b[3] /\ a[2] = b[2] => ~(a[1] >= 128 <=> b[1] < 128)
    <3>1. SUFFICES ASSUME a[4] = b[4] /\ a[3] = b[3] /\ a[2] = b[2] PROVE ~(a[1] >= 128 <=> b[1] < 128)
      OBVIOUS
    <3>2. ASSUME NEW j \in 1 + 1 .. 4 PROVE a[j] = b[j]
      BY Zenon, <2>2, <3>1, <3>2
    <3> QED BY Zenon, <2>1, <2>2, <3>2
  <2> QED BY Zenon, <1>1, <1>2, <2>3, <2>4, <2>5
<1>5. /\ d4 # 0 <=> x4 # y4
      /\ d4 < 0 <=> fx < fy
      /\ fx # fy <=> x4 # y4
  BY DEF Char
<1>6. (d3 # 0 <=> x3 # y3) /\ (x4 = y4 => (d3 < 0 <=> x3 < y3))
  BY <1>4 DEF Char
<1>7. (d2 # 0 <=> x2 # y2) /\ (x4 = y4 /\ x3 = y3 => (d2 < 0 <=> x2 < y2))
  BY <1>4 DEF Char
<1>8. x4 = y4 /\ x3 = y3 /\ x2 = y2 => (d1 < 0 <=> x1 < y1)
  BY <1>4 DEF Char
<1> HIDE DEF d1, d2, d3, d4
<1>9. Compare(AsSigned(a), AsSigned(b)) < 0
        <=> IF fx # fy THEN fx < fy ELSE IF x3 # y3 THEN x3 < y3
            ELSE IF x2 # y2 THEN x2 < y2 ELSE x1 < y1
  <2> HIDE DEF fx, fy
  <2> QED BY <1>3, <1>5, <1>6, <1>7, <1>8
<1>10. /\ Machine!Flipped(a) \in Words /\ Machine!Flipped(b) \in Words
       /\ Machine!Flipped(a)[1] = x1 /\ Machine!Flipped(a)[2] = x2
       /\ Machine!Flipped(a)[3] = x3 /\ Machine!Flipped(a)[4] = fx
       /\ Machine!Flipped(b)[1] = y1 /\ Machine!Flipped(b)[2] = y2
       /\ Machine!Flipped(b)[3] = y3 /\ Machine!Flipped(b)[4] = fy
  <2>1. fx \in Byte /\ fy \in Byte
    BY DEF Byte
  <2> HIDE DEF fx, fy
  <2>2. Machine!Flipped(a) = [a EXCEPT ![4] = fx] /\ Machine!Flipped(b) = [b EXCEPT ![4] = fy]
    BY <1>1, <1>2 DEF Machine!Flipped, fx, fy
  <2>3. /\ [a EXCEPT ![4] = fx] \in Words /\ [b EXCEPT ![4] = fy] \in Words
    BY <2>1 DEF Words
  <2>4. /\ [a EXCEPT ![4] = fx][1] = a[1] /\ [a EXCEPT ![4] = fx][2] = a[2]
        /\ [a EXCEPT ![4] = fx][3] = a[3] /\ [a EXCEPT ![4] = fx][4] = fx
        /\ [b EXCEPT ![4] = fy][1] = b[1] /\ [b EXCEPT ![4] = fy][2] = b[2]
        /\ [b EXCEPT ![4] = fy][3] = b[3] /\ [b EXCEPT ![4] = fy][4] = fy
    BY DEF Words
  <2> QED BY <1>1, <1>2, <2>2, <2>3, <2>4
<1> HIDE DEF fx, fy
<1>11. Machine!LessSigned(a, b)
         <=> IF fx # fy THEN fx < fy ELSE IF x3 # y3 THEN x3 < y3
             ELSE IF x2 # y2 THEN x2 < y2 ELSE x1 < y1
  BY <1>10, LessFromTheTop DEF Machine!LessSigned
<1> QED BY <1>9, <1>11 DEF bytesLessThanBytesSigned

-----------------------------------------------------------------------------
(* Operations bit by bit, and shifts by a register. *)

LEMMA ExtendedFour ==
  ASSUME NEW b \in Words
  PROVE  copyWithSignExtend(b, 4) = b
<1>1. Len(b) = 4
  BY WordNumbers
<1>2. copyWithSignExtend(b, 4) = [i \in 1 .. 4 |-> b[i]]
  BY <1>1 DEF copyWithSignExtend
<1> QED BY <1>2 DEF Words

LEMMA PlacesOfBits ==
  ASSUME NEW i \in 0 .. 31
  PROVE  i \div 8 + 1 \in 1 .. 4 /\ i % 8 \in 0 .. 7
OBVIOUS

\* XOR, OR and AND of a word and a vector that is extended to one.
LEMMA XorOfWords ==
  ASSUME NEW a \in Words, NEW b, NEW e \in Words, e = copyWithSignExtend(b, 4)
  PROVE  /\ bytesXOR(a, b) \in Words
         /\ bytesXOR(a, b)
              = Machine!Word([i \in 0 .. 31 |-> (Machine!Bits(a)[i] + Machine!Bits(e)[i]) % 2])
<1> DEFINE bits == [i \in 0 .. 31 |-> (Machine!Bits(a)[i] + Machine!Bits(e)[i]) % 2]
           v == bytesXOR(a, b)
<1>0. Len(a) = 4
  BY WordNumbers
<1>1. v = [k \in 1 .. 4 |-> a[k] ^^ e[k]]
  BY <1>0 DEF bytesXOR
<1>2. \A k \in 1 .. 4 : a[k] \in Byte /\ e[k] \in Byte
  BY DEF Words
<1>3. v \in Words
  BY <1>1, <1>2, BitsOfOperators DEF Words
<1>4. ASSUME NEW i \in 0 .. 31 PROVE bits[i] = WordBit(v, i)
  <2> DEFINE k == i \div 8 + 1
             j == i % 8
  <2>1. k \in 1 .. 4 /\ j \in 0 .. 7
    BY PlacesOfBits
  <2>2. bits[i] = (WordBit(a, i) + WordBit(e, i)) % 2
    BY WordBitsAre
  <2>3. WordBit(a, i) = Bit(a[k], j) /\ WordBit(e, i) = Bit(e[k], j) /\ WordBit(v, i) = Bit(v[k], j)
    BY DEF WordBit
  <2> HIDE DEF k, j, bits
  <2>4. Bit(v[k], j) = (Bit(a[k], j) + Bit(e[k], j)) % 2
    BY <1>1, <1>2, <2>1, BitsOfOperators
  <2> QED BY <2>2, <2>3, <2>4
<1> HIDE DEF bits, v
<1>5. v = Machine!Word(bits)
  BY <1>3, <1>4, WordOfBits
<1> QED BY <1>3, <1>5 DEF v, bits

LEMMA OrOfWords ==
  ASSUME NEW a \in Words, NEW b, NEW e \in Words, e = copyWithSignExtend(b, 4)
  PROVE  /\ bytesOR(a, b) \in Words
         /\ bytesOR(a, b)
              = Machine!Word([i \in 0 .. 31 |-> IF Machine!Bits(a)[i] + Machine!Bits(e)[i] = 0
                                                  THEN 0 ELSE 1])
<1> DEFINE bits == [i \in 0 .. 31 |-> IF Machine!Bits(a)[i] + Machine!Bits(e)[i] = 0 THEN 0 ELSE 1]
           v == bytesOR(a, b)
<1>0. Len(a) = 4
  BY WordNumbers
<1>1. v = [k \in 1 .. 4 |-> a[k] | e[k]]
  BY <1>0 DEF bytesOR
<1>2. \A k \in 1 .. 4 : a[k] \in Byte /\ e[k] \in Byte
  BY DEF Words
<1>3. v \in Words
  BY <1>1, <1>2, BitsOfOperators DEF Words
<1>4. ASSUME NEW i \in 0 .. 31 PROVE bits[i] = WordBit(v, i)
  <2> DEFINE k == i \div 8 + 1
             j == i % 8
  <2>1. k \in 1 .. 4 /\ j \in 0 .. 7
    BY PlacesOfBits
  <2>2. bits[i] = IF WordBit(a, i) + WordBit(e, i) = 0 THEN 0 ELSE 1
    BY WordBitsAre
  <2>3. WordBit(a, i) = Bit(a[k], j) /\ WordBit(e, i) = Bit(e[k], j) /\ WordBit(v, i) = Bit(v[k], j)
    BY DEF WordBit
  <2> HIDE DEF k, j, bits
  <2>4. Bit(v[k], j) = IF Bit(a[k], j) + Bit(e[k], j) = 0 THEN 0 ELSE 1
    BY <1>1, <1>2, <2>1, BitsOfOperators
  <2> QED BY <2>2, <2>3, <2>4
<1> HIDE DEF bits, v
<1>5. v = Machine!Word(bits)
  BY <1>3, <1>4, WordOfBits
<1> QED BY <1>3, <1>5 DEF v, bits

LEMMA AndOfWords ==
  ASSUME NEW a \in Words, NEW b, NEW e \in Words, e = copyWithSignExtend(b, 4)
  PROVE  /\ bytesAND(a, b) \in Words
         /\ bytesAND(a, b)
              = Machine!Word([i \in 0 .. 31 |-> Machine!Bits(a)[i] * Machine!Bits(e)[i]])
<1> DEFINE bits == [i \in 0 .. 31 |-> Machine!Bits(a)[i] * Machine!Bits(e)[i]]
           v == bytesAND(a, b)
<1>0. Len(a) = 4
  BY WordNumbers
<1>1. v = [k \in 1 .. 4 |-> a[k] & e[k]]
  BY <1>0 DEF bytesAND
<1>2. \A k \in 1 .. 4 : a[k] \in Byte /\ e[k] \in Byte
  BY DEF Words
<1>3. v \in Words
  BY <1>1, <1>2, BitsOfOperators DEF Words
<1>4. ASSUME NEW i \in 0 .. 31 PROVE bits[i] = WordBit(v, i)
  <2> DEFINE k == i \div 8 + 1
             j == i % 8
  <2>1. k \in 1 .. 4 /\ j \in 0 .. 7
    BY PlacesOfBits
  <2>2. bits[i] = WordBit(a, i) * WordBit(e, i)
    BY WordBitsAre
  <2>3. WordBit(a, i) = Bit(a[k], j) /\ WordBit(e, i) = Bit(e[k], j) /\ WordBit(v, i) = Bit(v[k], j)
    BY DEF WordBit
  <2> HIDE DEF k, j, bits
  <2>4. Bit(v[k], j) = Bit(a[k], j) * Bit(e[k], j)
    BY <1>1, <1>2, <2>1, BitsOfOperators
  <2> QED BY <2>2, <2>3, <2>4
<1> HIDE DEF bits, v
<1>5. v = Machine!Word(bits)
  BY <1>3, <1>4, WordOfBits
<1> QED BY <1>3, <1>5 DEF v, bits

\* bytesGreaterEqualToUint, which compares in base 255, finds exactly the
\* shifts of 32 or more.
LEMMA TooFarIsManyBits ==
  ASSUME NEW a \in Words, NEW b \in Words
  PROVE  /\ TooFar(a, b) <=> ~Machine!LessUnsigned(b, Single(32))
         /\ ~TooFar(a, b) => b[4] = 0 /\ b[3] = 0 /\ b[2] = 0 /\ b[1] \in 0 .. 31
<1>1. PICK x1 \in 0 .. 255, x2 \in 0 .. 255, x3 \in 0 .. 255, x4 \in 0 .. 255 :
        x1 = b[1] /\ x2 = b[2] /\ x3 = b[3] /\ x4 = b[4]
  BY Zenon, FourNumbers
<1>2. Len(a) * 8 = 32 /\ 32 \div 255 + 1 = 1 /\ Len(b) = 4 /\ 32 - 255 * (1 - 1) = 32 /\ 1 + 1 = 2
  <2>1. Len(a) = 4 /\ Len(b) = 4
    BY WordNumbers
  <2> QED BY <2>1
<1>3. TooFar(a, b) <=> (1 <= 4 /\ ((\E i \in 2 .. 4 : b[i] > 0) \/ b[1] >= 32))
  BY <1>2 DEF TooFar, bytesGreaterEqualToUint
<1>4. (\E i \in 2 .. 4 : b[i] > 0) <=> b[2] > 0 \/ b[3] > 0 \/ b[4] > 0
  <2>1. /\ 2 \in 2 .. 4 /\ 3 \in 2 .. 4 /\ 4 \in 2 .. 4
        /\ \A i \in 2 .. 4 : i = 2 \/ i = 3 \/ i = 4
    OBVIOUS
  <2> QED BY Zenon, <2>1
<1>5. TooFar(a, b) <=> x2 > 0 \/ x3 > 0 \/ x4 > 0 \/ x1 >= 32
  BY <1>1, <1>3, <1>4
<1>6. Machine!LessUnsigned(b, Single(32))
        <=> IF x4 # 0 THEN x4 < 0 ELSE IF x3 # 0 THEN x3 < 0
            ELSE IF x2 # 0 THEN x2 < 0 ELSE x1 < 32
  <2> DEFINE c == Single(32)
  <2>1. c \in Words
    BY SingleWord
  <2>2. c[1] = 32 /\ c[2] = 0 /\ c[3] = 0 /\ c[4] = 0
    BY SingleWord
  <2> HIDE DEF c
  <2>3. Machine!LessUnsigned(b, c)
          <=> IF b[4] # c[4] THEN b[4] < c[4] ELSE IF b[3] # c[3] THEN b[3] < c[3]
              ELSE IF b[2] # c[2] THEN b[2] < c[2] ELSE b[1] < c[1]
    BY <2>1, LessFromTheTop
  <2> QED BY <1>1, <2>2, <2>3 DEF c
<1>7. ~(x2 > 0 \/ x3 > 0 \/ x4 > 0 \/ x1 >= 32) => x4 = 0 /\ x3 = 0 /\ x2 = 0 /\ x1 \in 0 .. 31
  OBVIOUS
<1>8. (x2 > 0 \/ x3 > 0 \/ x4 > 0 \/ x1 >= 32)
        <=> ~(IF x4 # 0 THEN x4 < 0 ELSE IF x3 # 0 THEN x3 < 0
              ELSE IF x2 # 0 THEN x2 < 0 ELSE x1 < 32)
  OBVIOUS
<1> QED BY <1>1, <1>5, <1>6, <1>7, <1>8

\* A shift vector below 32 is its first byte.
LEMMA FullShiftIsQuotient ==
  ASSUME NEW b \in Words, NEW n \in 0 .. 31, b[1] = n, b[2] = 0, b[3] = 0, b[4] = 0
  PROVE  FullShift(b) = n \div 8
<1> DEFINE Body(c) == [i \in 0 .. Len(b) |-> IF i = 0 THEN 0 ELSE c[i - 1] + b[i] \div 8]
           sum == CHOOSE c : c = Body(c)
           s1 == 0 + b[1] \div 8
           s2 == s1 + b[2] \div 8
           s3 == s2 + b[3] \div 8
           s4 == s3 + b[4] \div 8
           w == [i \in 0 .. 4 |-> CASE i = 0 -> 0 [] i = 1 -> s1 [] i = 2 -> s2
                                    [] i = 3 -> s3 [] i = 4 -> s4]
<1> HIDE DEF Body, sum, w
<1>0. Len(b) = 4
  BY WordNumbers
<1>1. \A c : Body(c) = [i \in 0 .. 4 |-> IF i = 0 THEN 0 ELSE c[i - 1] + b[i] \div 8]
  BY <1>0 DEF Body
<1>2. w = Body(w)
  <2> HIDE DEF s1, s2, s3, s4
  <2>1. w[0] = 0 /\ w[1] = s1 /\ w[2] = s2 /\ w[3] = s3 /\ w[4] = s4
    BY FourSteps DEF w
  <2>2. w = [i \in 0 .. 4 |-> w[i]]
    BY DEF w
  <2>3. ASSUME NEW i \in 0 .. 4
        PROVE  w[i] = IF i = 0 THEN 0 ELSE w[i - 1] + b[i] \div 8
    <3>1. CASE i = 0
      BY <3>1, <2>1
    <3>2. CASE i = 1
      BY <3>2, <2>1 DEF s1
    <3>3. CASE i = 2
      BY <3>3, <2>1 DEF s2
    <3>4. CASE i = 3
      BY <3>4, <2>1 DEF s3
    <3>5. CASE i = 4
      BY <3>5, <2>1 DEF s4
    <3> QED BY <3>1, <3>2, <3>3, <3>4, <3>5
  <2> QED BY <1>1, <2>2, <2>3
<1>3. sum = Body(sum)
  BY <1>2 DEF sum
<1>4. sum[4] = s4
  <2> HIDE DEF s1, s2, s3, s4
  <2>1. sum[0] = 0
    BY <1>1, <1>3
  <2>2. sum[1] = sum[0] + b[1] \div 8
    BY <1>1, <1>3
  <2>3. sum[2] = sum[1] + b[2] \div 8
    BY <1>1, <1>3
  <2>4. sum[3] = sum[2] + b[3] \div 8
    BY <1>1, <1>3
  <2>5. sum[4] = sum[3] + b[4] \div 8
    BY <1>1, <1>3
  <2> QED BY <2>1, <2>2, <2>3, <2>4, <2>5 DEF s1, s2, s3, s4
<1>5. FullShift(b) = sum[Len(b)]
  BY Zenon DEF FullShift, sum, Body
<1>6. s4 = n \div 8
  <2>1. 0 \div 8 = 0
    OBVIOUS
  <2>2. s1 = n \div 8 /\ n \div 8 \in Int
    OBVIOUS
  <2> HIDE DEF s1
  <2>3. s2 = n \div 8
    BY <2>1, <2>2
  <2> HIDE DEF s2
  <2>4. s3 = n \div 8
    BY <2>1, <2>2, <2>3
  <2> HIDE DEF s3
  <2> QED BY <2>1, <2>2, <2>4
<1> QED BY <1>0, <1>4, <1>5, <1>6

LEMMA OffsetIsRemainder ==
  ASSUME NEW b \in Words, NEW n \in 0 .. 31, b[1] = n, b[2] = 0, b[3] = 0, b[4] = 0
  PROVE  Offset(b) = n % 8
<1> DEFINE Body(c) == [i \in 0 .. Len(b) |-> IF i = 0 THEN 0 ELSE (c[i - 1] + b[i]) % 8]
           sum == CHOOSE c : c = Body(c)
           s1 == (0 + b[1]) % 8
           s2 == (s1 + b[2]) % 8
           s3 == (s2 + b[3]) % 8
           s4 == (s3 + b[4]) % 8
           w == [i \in 0 .. 4 |-> CASE i = 0 -> 0 [] i = 1 -> s1 [] i = 2 -> s2
                                    [] i = 3 -> s3 [] i = 4 -> s4]
<1> HIDE DEF Body, sum, w
<1>0. Len(b) = 4
  BY WordNumbers
<1>1. \A c : Body(c) = [i \in 0 .. 4 |-> IF i = 0 THEN 0 ELSE (c[i - 1] + b[i]) % 8]
  BY <1>0 DEF Body
<1>2. w = Body(w)
  <2> HIDE DEF s1, s2, s3, s4
  <2>1. w[0] = 0 /\ w[1] = s1 /\ w[2] = s2 /\ w[3] = s3 /\ w[4] = s4
    BY FourSteps DEF w
  <2>2. w = [i \in 0 .. 4 |-> w[i]]
    BY DEF w
  <2>3. ASSUME NEW i \in 0 .. 4
        PROVE  w[i] = IF i = 0 THEN 0 ELSE (w[i - 1] + b[i]) % 8
    <3>1. CASE i = 0
      BY <3>1, <2>1
    <3>2. CASE i = 1
      BY <3>2, <2>1 DEF s1
    <3>3. CASE i = 2
      BY <3>3, <2>1 DEF s2
    <3>4. CASE i = 3
      BY <3>4, <2>1 DEF s3
    <3>5. CASE i = 4
      BY <3>5, <2>1 DEF s4
    <3> QED BY <3>1, <3>2, <3>3, <3>4, <3>5
  <2> QED BY <1>1, <2>2, <2>3
<1>3. sum = Body(sum)
  BY <1>2 DEF sum
<1>4. sum[4] = s4
  <2> HIDE DEF s1, s2, s3, s4
  <2>1. sum[0] = 0
    BY <1>1, <1>3
  <2>2. sum[1] = (sum[0] + b[1]) % 8
    BY <1>1, <1>3
  <2>3. sum[2] = (sum[1] + b[2]) % 8
    BY <1>1, <1>3
  <2>4. sum[3] = (sum[2] + b[3]) % 8
    BY <1>1, <1>3
  <2>5. sum[4] = (sum[3] + b[4]) % 8
    BY <1>1, <1>3
  <2> QED BY <2>1, <2>2, <2>3, <2>4, <2>5 DEF s1, s2, s3, s4
<1>5. Offset(b) = sum[Len(b)]
  BY Zenon DEF Offset, sum, Body
<1>6. s4 = n % 8
  <2>1. \A m \in 0 .. 7 : (m + 0) % 8 = m
    OBVIOUS
  <2>2. s1 = n % 8 /\ n % 8 \in 0 .. 7
    OBVIOUS
  <2> HIDE DEF s1
  <2>3. s2 = n % 8
    BY <2>1, <2>2
  <2> HIDE DEF s2
  <2>4. s3 = n % 8
    BY <2>1, <2>2, <2>3
  <2> HIDE DEF s3
  <2> QED BY <2>1, <2>2, <2>4
<1> QED BY <1>0, <1>4, <1>5, <1>6

\* All bits of a word are the same.
LEMMA FilledWord ==
  ASSUME NEW fill \in {0, 255}
  PROVE  /\ [i \in 1 .. 4 |-> fill] \in Words
         /\ [i \in 1 .. 4 |-> fill] = Machine!Word([i \in 0 .. 31 |-> fill \div 255])
<1> DEFINE v == [i \in 1 .. 4 |-> fill]
           bits == [i \in 0 .. 31 |-> fill \div 255]
<1>1. v \in Words
  BY ZeroAndOnes DEF Words
<1>2. 0 \div 255 = 0 /\ 255 \div 255 = 1
  OBVIOUS
<1>3. ASSUME NEW i \in 0 .. 31 PROVE bits[i] = WordBit(v, i)
  <2>1. i \div 8 + 1 \in 1 .. 4 /\ i % 8 \in 0 .. 7
    BY PlacesOfBits
  <2>2. WordBit(v, i) = Bit(fill, i % 8)
    BY <2>1 DEF WordBit
  <2> QED BY <1>2, <2>1, <2>2, ZeroAndOnes
<1> HIDE DEF v, bits
<1>4. v = Machine!Word(bits)
  BY <1>1, <1>3, WordOfBits
<1> QED BY <1>1, <1>4 DEF v, bits

\* A left shift by a register, whose amount is not masked
\* (bytesLogicalLeftShift).
THEOREM ShiftLeftByRegister ==
  ASSUME NEW a \in Words, NEW b \in Words
  PROVE  /\ bytesLogicalLeftShift(a, b) \in Words
         /\ TooFar(a, b) => bytesLogicalLeftShift(a, b) = Machine!Word([i \in 0 .. 31 |-> 0])
         /\ ~TooFar(a, b) => bytesLogicalLeftShift(a, b) = Machine!ShiftLeft(a, b[1] % 32)
<1>0. Len(a) = 4
  BY WordNumbers
<1>1. CASE TooFar(a, b)
  <2>1. bytesLogicalLeftShift(a, b) = [i \in 1 .. 4 |-> 0]
    BY <1>0, <1>1 DEF bytesLogicalLeftShift, Zeros
  <2>2. 0 \div 255 = 0
    OBVIOUS
  <2>3. /\ [i \in 1 .. 4 |-> 0] \in Words
        /\ [i \in 1 .. 4 |-> 0] = Machine!Word([i \in 0 .. 31 |-> 0 \div 255])
    BY FilledWord
  <2> QED BY <1>1, <2>1, <2>2, <2>3
<1>2. CASE ~TooFar(a, b)
  <2>1. PICK n \in 0 .. 31 : b[1] = n
    BY <1>2, TooFarIsManyBits
  <2>2. b[2] = 0 /\ b[3] = 0 /\ b[4] = 0
    BY <1>2, TooFarIsManyBits
  <2>3. FullShift(b) = n \div 8 /\ Offset(b) = n % 8
    BY <2>1, <2>2, FullShiftIsQuotient, OffsetIsRemainder
  <2>4. bytesLogicalLeftShift(a, b) = LeftBy(a, n)
    BY <1>2, <2>3 DEF bytesLogicalLeftShift, LeftBy
  <2>5. n % 32 = n
    OBVIOUS
  <2>6. LeftBy(a, n) = Machine!ShiftLeft(a, n) /\ LeftBy(a, n) \in Words
    BY LeftIsShiftLeft
  <2> QED BY <1>2, <2>1, <2>4, <2>5, <2>6
<1> QED BY <1>1, <1>2

\* A right shift by a register, whose amount is not masked
\* (bytesLogicalRightShift, bytesArithmeticRightShift).
THEOREM ShiftRightByRegister ==
  ASSUME NEW a \in Words, NEW b \in Words, NEW fill \in {0, 255}
  PROVE  /\ RightShift(a, b, fill) \in Words
         /\ TooFar(a, b) => RightShift(a, b, fill) = Machine!Word([i \in 0 .. 31 |-> fill \div 255])
         /\ ~TooFar(a, b) => RightShift(a, b, fill) = Machine!ShiftRight(a, b[1] % 32, fill \div 255)
<1>0. Len(a) = 4
  BY WordNumbers
<1>1. CASE TooFar(a, b)
  <2>1. RightShift(a, b, fill) = [i \in 1 .. 4 |-> fill]
    BY <1>0, <1>1 DEF RightShift
  <2>2. /\ [i \in 1 .. 4 |-> fill] \in Words
        /\ [i \in 1 .. 4 |-> fill] = Machine!Word([i \in 0 .. 31 |-> fill \div 255])
    BY FilledWord
  <2> QED BY <1>1, <2>1, <2>2
<1>2. CASE ~TooFar(a, b)
  <2>1. PICK n \in 0 .. 31 : b[1] = n
    BY <1>2, TooFarIsManyBits
  <2>2. b[2] = 0 /\ b[3] = 0 /\ b[4] = 0
    BY <1>2, TooFarIsManyBits
  <2>3. FullShift(b) = n \div 8 /\ Offset(b) = n % 8
    BY <2>1, <2>2, FullShiftIsQuotient, OffsetIsRemainder
  <2>4. RightShift(a, b, fill) = RightBy(a, n, fill)
    BY <1>2, <2>3 DEF RightShift, RightBy
  <2>5. n % 32 = n
    OBVIOUS
  <2>6. RightBy(a, n, fill) = Machine!ShiftRight(a, n, fill \div 255) /\ RightBy(a, n, fill) \in Words
    BY RightIsShiftRight
  <2> QED BY <1>2, <2>1, <2>4, <2>5, <2>6
<1> QED BY <1>1, <1>2

=============================================================================
