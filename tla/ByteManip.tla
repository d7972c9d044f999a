------------------------------ MODULE ByteManip ------------------------------
(***************************************************************************)
(* The arithmetic of include/bytemanip.h.  A value of the program is a     *)
(* vector of bytes, least significant first, here a sequence: byte i of    *)
(* the code is element i + 1.  Every operation goes byte by byte, with the *)
(* carries, borrows and shifts of the code.                                *)
(***************************************************************************)
EXTENDS Integers, SequencesExt

\* A bound of the model: getBytesToULong saturates here.  The values of the
\* program are only ever compared with the size of memory, which is smaller.
ULongBound == 2^24

Byte == 0 .. 255

\* The bits of a byte, and the operators of the language that go bit by bit.
Bit(b, i) == (b \div 2^i) % 2
Join(bits) == bits[0] + 2 * bits[1] + 4 * bits[2] + 8 * bits[3]
              + 16 * bits[4] + 32 * bits[5] + 64 * bits[6] + 128 * bits[7]
a & b == Join([i \in 0 .. 7 |-> Bit(a, i) * Bit(b, i)])
a | b == Join([i \in 0 .. 7 |-> IF Bit(a, i) + Bit(b, i) = 0 THEN 0 ELSE 1])
a ^^ b == Join([i \in 0 .. 7 |-> (Bit(a, i) + Bit(b, i)) % 2])

Zeros(size) == [i \in 1 .. size |-> 0]
Shl(b, n) == (b * 2^n) % 256
Shr(b, n) == b \div 2^n
Char(b) == IF b >= 128 THEN b - 256 ELSE b
Resize(val, size) == [i \in 1 .. size |-> IF i <= Len(val) THEN val[i] ELSE 0]

getByteMaskForPosition(position) ==
  IF position >= 8 THEN 255 ELSE 2^position - 1

\* Bits low .. high of imm, moved down to bit 0.
getContrainedBits(imm, low, high) ==
  LET start  == low \div 8
      offset == low % 8
      At(i) ==  \* byte i of the result, counted from 0
        LET tmp  == Shr(imm[start + i + 1], offset)
            next == (start + i + 1) * 8
            c    == next + 8 - high - 1
        IN CASE high >= next + offset -> tmp | Shl(imm[start + i + 2], 8 - offset)
             [] high < next + offset /\ high >= next ->
                  tmp | Shr(Shl(imm[start + i + 2], c),
                            IF offset >= c THEN offset - c ELSE c - offset)
             [] high < next ->
                  tmp & getByteMaskForPosition(high - (next - 8) - offset + 1)
  IN  [i \in 1 .. (high - low + 7) \div 8 |-> At(i - 1)]

getBytesToULong(val) ==
  IF \E i \in 4 .. Len(val) : val[i] # 0
    THEN ULongBound
    ELSE LET Digit(i) == IF i <= Len(val) THEN val[i] ELSE 0
         IN  Digit(1) + 256 * Digit(2) + 65536 * Digit(3)

copyWithSignExtend(val, size) ==
  [i \in 1 .. size |-> IF i <= Len(val) THEN val[i]
                       ELSE IF Last(val) & 128 # 0 THEN 255 ELSE 0]

\* Mutant: the carry into a byte is left out when its own carry is taken.
AddBytesShortCarry(val, operand) ==
  LET carry[i \in 0 .. Len(val)] ==
        IF i = 0 THEN 0 ELSE (val[i] + operand[i]) \div 256
  IN  [i \in 1 .. Len(val) |-> (val[i] + operand[i] + carry[i - 1]) % 256]

\* The sum of two vectors of one length; the last carry is dropped.
AddBytes(val, operand) ==
  LET carry[i \in 0 .. Len(val)] ==
        IF i = 0 THEN 0 ELSE (val[i] + operand[i] + carry[i - 1]) \div 256
  IN  [i \in 1 .. Len(val) |-> (val[i] + operand[i] + carry[i - 1]) % 256]

bytesAdditionUnsigned(val, operand) == AddBytes(val, operand)
bytesAdditionSigned(val, operand) == AddBytes(val, copyWithSignExtend(operand, Len(val)))
bytesAddSignedToPC(PC, operand) == AddBytes(PC, copyWithSignExtend(operand, Len(PC)))

\* Adds a signed byte.  The carry out of a negative first byte is 255, and is
\* added to the second byte like any other; <<>> stands for the exception.
addByteToBytes(val, operand) ==
  LET remainder[i \in 1 .. Len(val)] ==  \* what byte i leaves for byte i + 1
        IF i = 1 THEN LET sum == val[1] + Char(operand)
                      IN  IF sum < 0 THEN 255 ELSE sum \div 256
                 ELSE (val[i] + remainder[i - 1]) \div 256
  IN  IF remainder[Len(val)] # 0 THEN <<>>
      ELSE [i \in 1 .. Len(val) |->
              (val[i] + IF i = 1 THEN operand ELSE remainder[i - 1]) % 256]

\* Mutant: the borrow is one, but the bytes below the second never borrow.
bytesSubtractionTwoBytes(val, operand) ==
  LET borrow[i \in 0 .. Len(val)] ==
        IF i = 0 \/ i > 2 THEN 0
        ELSE IF val[i] - operand[i] - borrow[i - 1] < 0 THEN 1 ELSE 0
  IN  [i \in 1 .. Len(val) |-> (val[i] - operand[i] - borrow[i - 1]) % 256]

\* A byte that falls below -254 takes a borrow of two.
bytesSubtractionUnsigned(val, operand) ==
  LET borrow[i \in 0 .. Len(val)] ==
        IF i = 0 THEN 0
        ELSE LET abs == val[i] - operand[i] - borrow[i - 1]
             IN  IF abs < 0 THEN (-abs) \div 255 + 1 ELSE 0
  IN  [i \in 1 .. Len(val) |-> (val[i] - operand[i] - borrow[i - 1]) % 256]

bytesGreaterEqualToUint(val1, val2) ==
  LET highPosition == val2 \div 255 + 1
  IN  /\ highPosition <= Len(val1)
      /\ \/ \E i \in highPosition + 1 .. Len(val1) : val1[i] > 0
         \/ val1[highPosition] >= val2 - 255 * (highPosition - 1)

\* The bytes, each read as a signed char.
AsSigned(val) == [i \in DOMAIN val |-> Char(val[i])]

\* The difference of the first two elements that differ, from the top; 0 if the
\* loop finds none.  The two counts do not stay level when the lengths differ.
Compare(val1, val2) ==
  LET counts[k \in 0 .. Len(val1) + Len(val2)] ==  \* after k iterations
        IF k = 0 THEN <<Len(val1), Len(val2)>>
        ELSE LET c == counts[k - 1]
                 count1 == IF c[1] >= c[2] THEN c[1] - 1 ELSE c[1]
             IN  <<count1, IF c[2] >= count1 THEN c[2] - 1 ELSE c[2]>>
      Compared(c) == (IF c[1] >= c[2] THEN val1[c[1]] ELSE 0)
                     - (IF c[2] >= c[1] THEN val2[c[2]] ELSE 0)
      Differ(k) == /\ counts[k][1] > 0 /\ counts[k][2] > 0
                   /\ Compared(counts[k]) # 0
      First(k) == Differ(k) /\ \A j \in 0 .. k - 1 : ~Differ(j)
  IN  IF \E k \in DOMAIN counts : Differ(k)
        THEN Compared(counts[CHOOSE k \in DOMAIN counts : First(k)])
        ELSE 0

bytesLessThanBytesSigned(val1, val2) == Compare(AsSigned(val1), AsSigned(val2)) < 0
bytesLessThanBytesUnsigned(val1, val2) == Compare(val1, val2) < 0
bytesGreaterOrequalToSigned(val1, val2) == Compare(AsSigned(val1), AsSigned(val2)) >= 0
bytesGreaterOrequalToUnsigned(val1, val2) == Compare(val1, val2) >= 0

\* Shifts by full bytes and offset bits; fill comes in from the top.
Left(val, full, offset) ==
  LET At(i) == IF i < 1 THEN 0 ELSE val[i]
  IN  [i \in 1 .. Len(val) |->
         Shl(At(i - full), offset) | Shr(At(i - full - 1), 8 - offset)]

Right(val, full, offset, fill) ==
  LET At(i) == IF i > Len(val) THEN fill ELSE val[i]
  IN  [i \in 1 .. Len(val) |->
         Shr(At(i + full), offset) | Shl(At(i + full + 1), 8 - offset)]

SignFill(val) == IF Last(val) & 128 # 0 THEN 255 ELSE 0

\* A shift by a number.
LeftBy(val, shift) == Left(val, shift \div 8, shift % 8)
RightBy(val, shift, fill) == Right(val, shift \div 8, shift % 8, fill)

\* A shift by a vector: 32 or more leaves nothing of the value.
TooFar(val, shift) == bytesGreaterEqualToUint(shift, Len(val) * 8)
FullShift(shift) ==
  LET sum[i \in 0 .. Len(shift)] == IF i = 0 THEN 0 ELSE sum[i - 1] + shift[i] \div 8
  IN  sum[Len(shift)]
Offset(shift) ==
  LET sum[i \in 0 .. Len(shift)] == IF i = 0 THEN 0 ELSE (sum[i - 1] + shift[i]) % 8
  IN  sum[Len(shift)]

bytesLogicalLeftShift(val, shift) ==
  IF TooFar(val, shift) THEN Zeros(Len(val))
                        ELSE Left(val, FullShift(shift), Offset(shift))

RightShift(val, shift, fill) ==
  IF TooFar(val, shift) THEN [i \in 1 .. Len(val) |-> fill]
                        ELSE Right(val, FullShift(shift), Offset(shift), fill)
bytesLogicalRightShift(val, shift) == RightShift(val, shift, 0)
bytesArithmeticRightShift(val, shift) == RightShift(val, shift, SignFill(val))

bytesXOR(val1, val2) ==
  [i \in 1 .. Len(val1) |-> val1[i] ^^ copyWithSignExtend(val2, Len(val1))[i]]
bytesOR(val1, val2) ==
  [i \in 1 .. Len(val1) |-> val1[i] | copyWithSignExtend(val2, Len(val1))[i]]
bytesAND(val1, val2) ==
  [i \in 1 .. Len(val1) |-> val1[i] & copyWithSignExtend(val2, Len(val1))[i]]

=============================================================================
