---------------------------- MODULE DatapathProofs ----------------------------
(***************************************************************************)
(* What holds of every run of the emulator on one HART, whatever the       *)
(* program, the memory and the command line (modules Datapath and          *)
(* DatapathProperties): the types of its state, what decoding finds in a   *)
(* word, what the configuration takes from the command line, and what the  *)
(* interface shows.                                                        *)
(***************************************************************************)
EXTENDS ByteProofs, MemoryProofs

-----------------------------------------------------------------------------
(* Words and vectors. *)

LEMMA CellIsByte == Cell = Byte
BY DEF Cell, Byte

LEMMA ZerosAre == Zeros(XLEN) = <<0, 0, 0, 0>> /\ Zeros(XLEN) \in Words
BY DEF Zeros, XLEN, Words, Byte

LEMMA WordsAreBytes ==
  ASSUME NEW a \in Words
  PROVE  IsBytes(a, XLEN)
<1>1. a \in [1 .. 4 -> Byte] /\ 4 \in Nat
  BY DEF Words
<1>2. a \in Seq(Byte)
  BY <1>1, SeqDef
<1> QED BY <1>2, WordNumbers DEF IsBytes, XLEN

\* A byte whose bits from n on are zero is below 2^n.
LEMMA SmallByte ==
  ASSUME NEW b \in Byte, NEW n \in {3, 5, 7},
         \A j \in 0 .. 7 : j >= n => Bit(b, j) = 0
  PROVE  (n = 3 => b \in 0 .. 7) /\ (n = 5 => b \in 0 .. 31) /\ (n = 7 => b \in 0 .. 127)
<1>1. b = Bit(b,0) + 2 * Bit(b,1) + 4*Bit(b,2) + 8*Bit(b,3) + 16*Bit(b,4)+32*Bit(b,5)+64*Bit(b,6)+128*Bit(b,7)
  BY BitValues DEF Byte
<1>2. \A j \in 0 .. 7 : Bit(b, j) \in 0 .. 1
  BY BitRange
<1>3. /\ Bit(b, 0) \in 0 .. 1 /\ Bit(b, 1) \in 0 .. 1 /\ Bit(b, 2) \in 0 .. 1 /\ Bit(b, 3) \in 0 .. 1
      /\ Bit(b, 4) \in 0 .. 1 /\ Bit(b, 5) \in 0 .. 1 /\ Bit(b, 6) \in 0 .. 1 /\ Bit(b, 7) \in 0 .. 1
  BY <1>2
<1>4. CASE n = 3
  <2>1. Bit(b, 3) = 0 /\ Bit(b, 4) = 0 /\ Bit(b, 5) = 0 /\ Bit(b, 6) = 0 /\ Bit(b, 7) = 0
    BY <1>4
  <2> QED BY <1>1, <1>3, <1>4, <2>1
<1>5. CASE n = 5
  <2>1. Bit(b, 5) = 0 /\ Bit(b, 6) = 0 /\ Bit(b, 7) = 0
    BY <1>5
  <2> QED BY <1>1, <1>3, <1>5, <2>1
<1>6. CASE n = 7
  <2>1. Bit(b, 7) = 0
    BY <1>6
  <2> QED BY <1>1, <1>3, <1>6, <2>1
<1> QED BY <1>4, <1>5, <1>6

LEMMA FieldRanges ==
  ASSUME NEW w \in Words
  PROVE  /\ Field(w, 0, 6) \in 0 .. 127 /\ Field(w, 7, 11) \in 0 .. 31
         /\ Field(w, 12, 14) \in 0 .. 7 /\ Field(w, 15, 19) \in 0 .. 31
         /\ Field(w, 20, 24) \in 0 .. 31 /\ Field(w, 25, 31) \in 0 .. 127
<1>1. ASSUME NEW f, NEW low \in Nat, NEW high \in Nat, NEW n \in {3, 5, 7}, Slices(w, f, low, high), high = low + n - 1
      PROVE  (n = 3 => f \in 0 .. 7) /\ (n = 5 => f \in 0 .. 31) /\ (n = 7 => f \in 0 .. 127)
  <2>1. f \in Byte
    BY <1>1 DEF Slices
  <2>2. ASSUME NEW j \in 0 .. 7, j >= n PROVE Bit(f, j) = 0
    <3>1. ~(low + j <= high)
      BY <1>1, <2>2
    <3> QED BY <1>1, <3>1 DEF Slices
  <2> QED BY <2>1, <2>2, SmallByte
<1>2. Field(w, 0, 6) \in 0 .. 127
  <2>1. Slices(w, Field(w, 0, 6), 0, 6) /\ 6 = 0 + 7 - 1 /\ 0 \in Nat /\ 6 \in Nat /\ 7 \in {3, 5, 7}
    BY FieldSlices
  <2> QED BY <2>1, <1>1
<1>3. Field(w, 7, 11) \in 0 .. 31
  <2>1. Slices(w, Field(w, 7, 11), 7, 11) /\ 11 = 7 + 5 - 1 /\ 7 \in Nat /\ 11 \in Nat /\ 5 \in {3, 5, 7}
    BY FieldSlices
  <2> QED BY <2>1, <1>1
<1>4. Field(w, 12, 14) \in 0 .. 7
  <2>1. Slices(w, Field(w, 12, 14), 12, 14) /\ 14 = 12 + 3 - 1 /\ 12 \in Nat /\ 14 \in Nat /\ 3 \in {3, 5, 7}
    BY FieldSlices
  <2> QED BY <2>1, <1>1
<1>5. Field(w, 15, 19) \in 0 .. 31
  <2>1. Slices(w, Field(w, 15, 19), 15, 19) /\ 19 = 15 + 5 - 1 /\ 15 \in Nat /\ 19 \in Nat /\ 5 \in {3, 5, 7}
    BY FieldSlices
  <2> QED BY <2>1, <1>1
<1>6. Field(w, 20, 24) \in 0 .. 31
  <2>1. Slices(w, Field(w, 20, 24), 20, 24) /\ 24 = 20 + 5 - 1 /\ 20 \in Nat /\ 24 \in Nat /\ 5 \in {3, 5, 7}
    BY FieldSlices
  <2> QED BY <2>1, <1>1
<1>7. Field(w, 25, 31) \in 0 .. 127
  <2>1. Slices(w, Field(w, 25, 31), 25, 31) /\ 31 = 25 + 7 - 1 /\ 25 \in Nat /\ 31 \in Nat /\ 7 \in {3, 5, 7}
    BY FieldSlices
  <2> QED BY <2>1, <1>1
<1> QED BY <1>2, <1>3, <1>4, <1>5, <1>6, <1>7

\* The opcode that Hart::decode takes by a mask is the one that decode reads.
LEMMA OpcodeMasked ==
  ASSUME NEW w \in Words
  PROVE  w[1] & 127 = Field(w, 0, 6)
<1>1. w[1] \in Byte
  BY BytesOfWord
<1>2. w[1] & 127 \in Byte /\ \A j \in 0 .. 7 : Bit(w[1] & 127, j) = IF j < 7 THEN Bit(w[1], j) ELSE 0
  BY <1>1, AndBits, Masks
<1>3. Field(w, 0, 6) \in Byte /\ \A j \in 0 .. 7 : Bit(Field(w, 0, 6), j) = IF j < 7 THEN Bit(w[1], j) ELSE 0
  BY FieldSlices, WordBitNumbers DEF Slices
<1> QED BY <1>2, <1>3, ByteIsItsBits

-----------------------------------------------------------------------------
(* The decoded instruction. *)

\* The immediate of a type.
Immediate(type, w) ==
  CASE type = "R" -> Zeros(4)   [] type = "I" -> DecodeI(w)
    [] type = "S" -> DecodeS(w) [] type = "B" -> DecodeB(w)
    [] type = "U" -> DecodeU(w) [] type = "J" -> DecodeJ(w)

\* The fields of an instruction that is decoded with these operands.
Fields(i, type, w, p, a, b) ==
  /\ i.type = type /\ i.opcode = Field(w, 0, 6) /\ i.rd = Field(w, 7, 11)
  /\ i.func3 = Field(w, 12, 14) /\ i.rs1 = Field(w, 15, 19) /\ i.rs2 = Field(w, 20, 24)
  /\ i.func7 = Field(w, 25, 31) /\ i.imm = Immediate(type, w)
  /\ i.pc = p /\ i.rs1Val = a /\ i.rs2Val = b

LEMMA DecodedFields ==
  ASSUME NEW type, NEW w
  PROVE  Fields(WithOperands(decode(type, w)), type, w, pc,
                registers[Field(w, 15, 19)], registers[Field(w, 20, 24)])
<1> DEFINE d == decode(type, w)
           i == WithOperands(d)
<1>1. d = [type |-> type, opcode |-> Field(w, 0, 6), rd |-> Field(w, 7, 11),
           func3 |-> Field(w, 12, 14), rs1 |-> Field(w, 15, 19), rs2 |-> Field(w, 20, 24),
           func7 |-> Field(w, 25, 31), imm |-> Immediate(type, w)]
  BY Zenon DEF decode, Immediate
<1> HIDE DEF d
<1>2. DOMAIN d = {"type", "opcode", "rd", "func3", "rs1", "rs2", "func7", "imm"}
  BY <1>1
<1>3. /\ d.type = type /\ d.opcode = Field(w, 0, 6) /\ d.rd = Field(w, 7, 11)
      /\ d.func3 = Field(w, 12, 14) /\ d.rs1 = Field(w, 15, 19) /\ d.rs2 = Field(w, 20, 24)
      /\ d.func7 = Field(w, 25, 31) /\ d.imm = Immediate(type, w)
  BY <1>1
<1>4. /\ i.type = d.type /\ i.opcode = d.opcode /\ i.rd = d.rd /\ i.func3 = d.func3
      /\ i.rs1 = d.rs1 /\ i.rs2 = d.rs2 /\ i.func7 = d.func7 /\ i.imm = d.imm
      /\ i.pc = pc /\ i.rs1Val = registers[d.rs1] /\ i.rs2Val = registers[d.rs2]
  BY <1>2 DEF WithOperands
<1> HIDE DEF i
<1> QED BY <1>3, <1>4 DEF Fields, i, d

-----------------------------------------------------------------------------
(* What the routines compute is a word, or nothing. *)

LEMMA PlusType ==
  ASSUME NEW a \in Words, NEW b \in Words
  PROVE  Machine!Plus(a, b) \in Words
BY AddBytesIsPlus

\* A vector that is extended to a word.
Vector(imm) == SignExtended(imm) \in Words

LEMMA ExtendedImmediates ==
  ASSUME NEW w \in Words
  PROVE  /\ Vector(DecodeI(w)) /\ Vector(DecodeS(w)) /\ Vector(DecodeB(w)) /\ Vector(DecodeJ(w))
         /\ DecodeU(w) \in Words /\ Vector(DecodeU(w))
<1>1. Vector(DecodeI(w))
  <2>1. PICK p, q : DecodeI(w) = <<p, q>> /\ BytesI(w, p, q)
    BY BytesOfI
  <2> QED BY <2>1, ExtendedTwo DEF BytesI, Vector, SignExtended, XLEN
<1>2. Vector(DecodeS(w))
  <2>1. PICK p, q : DecodeS(w) = <<p, q>> /\ BytesS(w, p, q)
    BY BytesOfS
  <2> QED BY <2>1, ExtendedTwo DEF BytesS, Vector, SignExtended, XLEN
<1>3. Vector(DecodeB(w))
  <2>1. PICK p, q : DecodeB(w) = <<p, q>> /\ BytesB(w, p, q)
    BY BytesOfB
  <2> QED BY <2>1, ExtendedTwo DEF BytesB, Vector, SignExtended, XLEN
<1>4. Vector(DecodeJ(w))
  <2>1. PICK p, q, r : DecodeJ(w) = <<p, q, r>> /\ BytesJ(w, p, q, r)
    BY BytesOfJ
  <2> QED BY <2>1, ExtendedThree DEF BytesJ, Vector, SignExtended, XLEN
<1>5. DecodeU(w) \in Words /\ Vector(DecodeU(w))
  BY ImmediateU, ExtendedFour DEF Vector, SignExtended, XLEN
<1> QED BY <1>1, <1>2, <1>3, <1>4, <1>5

LEMMA Sums ==
  ASSUME NEW a \in Words, NEW imm, Vector(imm)
  PROVE  /\ bytesAdditionSigned(a, imm) = Machine!Plus(a, SignExtended(imm))
         /\ bytesAddSignedToPC(a, imm) = Machine!Plus(a, SignExtended(imm))
         /\ Machine!Plus(a, SignExtended(imm)) \in Words
<1>1. Len(a) = 4
  BY WordNumbers
<1>2. SignExtended(imm) \in Words
  BY DEF Vector
<1>3. /\ bytesAdditionSigned(a, imm) = AddBytes(a, SignExtended(imm))
      /\ bytesAddSignedToPC(a, imm) = AddBytes(a, SignExtended(imm))
  BY <1>1 DEF bytesAdditionSigned, bytesAddSignedToPC, SignExtended, XLEN
<1> QED BY <1>2, <1>3, AddBytesIsPlus

LEMMA TruthIsWord ==
  ASSUME NEW c
  PROVE  Truth(c) \in Words /\ Machine!Truth(c) = Truth(c)
BY DEF Truth, Machine!Truth, Words, Byte

\* The PC of an instruction that was fetched is small enough for the next one.
LEMMA NextInstruction ==
  ASSUME NEW i, i.pc \in Words, i.pc[4] = 0
  PROVE  IncPC(i) = Machine!Plus(i.pc, Machine!Four) /\ IncPC(i) \in Words
<1>1. Machine!Four = Single(4) /\ Single(4) \in Words
  BY SingleWord DEF Machine!Four, Single
<1>2. addByteToBytes(i.pc, 4) = Machine!Plus(i.pc, Single(4))
  <2>1. 4 \in 0 .. 127
    OBVIOUS
  <2> QED BY <2>1, AddByteIsPlus
<1> QED BY <1>1, <1>2, PlusType DEF IncPC

LEMMA ShiftAmounts ==
  ASSUME NEW b \in Byte
  PROVE  b & 31 \in 0 .. 31 /\ b & 31 = b % 32
<1>1. b & 31 \in Byte /\ \A j \in 0 .. 7 : Bit(b & 31, j) = IF j < 5 THEN Bit(b, j) ELSE 0
  BY AndBits, Masks
<1>2. b & 31 \in 0 .. 31
  <2>1. \A j \in 0 .. 7 : j >= 5 => Bit(b & 31, j) = 0
    BY <1>1
  <2>2. 5 \in {3, 5, 7}
    OBVIOUS
  <2> QED BY <1>1, <2>1, <2>2, SmallByte
<1> DEFINE s == b & 31
           t == Bit(b, 5) + 2 * Bit(b, 6) + 4 * Bit(b, 7)
<1>3. ASSUME NEW j \in 0 .. 7 PROVE Bit(b, j) \in 0 .. 1
  BY BitRange
<1>4. t \in 0 .. 7
  BY <1>3
<1>5. b = s + 32 * t
  <2>1. \A c \in Byte : c = Bit(c, 0) + 2 * Bit(c, 1) + 4 * Bit(c, 2) + 8 * Bit(c, 3)
                            + 16 * Bit(c, 4) + 32 * Bit(c, 5) + 64 * Bit(c, 6) + 128 * Bit(c, 7)
    BY BitValues DEF Byte
  <2>2. s = Bit(b, 0) + 2 * Bit(b, 1) + 4 * Bit(b, 2) + 8 * Bit(b, 3) + 16 * Bit(b, 4)
    BY <1>1, <1>3, <2>1
  <2> QED BY <1>3, <2>1, <2>2
<1> HIDE DEF s, t
<1>6. ASSUME NEW x \in 0 .. 31, NEW y \in 0 .. 7 PROVE (x + 32 * y) % 32 = x
  OBVIOUS
<1>7. s \in 0 .. 31
  BY <1>2 DEF s
<1>8. (s + 32 * t) % 32 = s
  BY <1>4, <1>6, <1>7
<1> QED BY <1>2, <1>5, <1>8 DEF s

\* What decode hands to the routines.
Executable(i) ==
  /\ i.pc \in Words /\ i.pc[4] = 0 /\ i.rs1Val \in Words /\ i.rs2Val \in Words
  /\ i.opcode \in BaseOpcodes \cup {127} /\ i.func3 \in 0 .. 7
  /\ Vector(i.imm) /\ i.imm[1] \in Byte
  /\ i.opcode \in {55, 23} => i.imm \in Words

LEMMA SignFills ==
  ASSUME NEW a \in Words
  PROVE  0 \in {0, 255} /\ SignFill(a) \in {0, 255}
BY SignFillIsSign

LEMMA BitwiseTypes ==
  ASSUME NEW a \in Words, NEW imm, Vector(imm)
  PROVE  bytesXOR(a, imm) \in Words /\ bytesOR(a, imm) \in Words /\ bytesAND(a, imm) \in Words
<1>1. PICK e \in Words : e = copyWithSignExtend(imm, 4)
  BY DEF Vector, SignExtended, XLEN
<1>2. bytesXOR(a, imm) \in Words
  BY <1>1, XorOfWords
<1>3. bytesOR(a, imm) \in Words
  BY <1>1, OrOfWords
<1>4. bytesAND(a, imm) \in Words
  BY <1>1, AndOfWords
<1> QED BY <1>2, <1>3, <1>4

LEMMA WordsAreVectors ==
  ASSUME NEW a \in Words
  PROVE  Vector(a) /\ SignExtended(a) = a
BY ExtendedFour DEF Vector, SignExtended, XLEN

\* The cases of the routines on immediates, one by one.
LEMMA BitopsImmediateCases ==
  ASSUME NEW i
  PROVE  LET v == i.rs1Val
             shift == i.imm[1] & 31
             func7 == getContrainedBits(i.imm, 5, 11)[1]
         IN  /\ i.func3 = 0 => BitopsImmediate(i) = bytesAdditionSigned(v, i.imm)
             /\ i.func3 = 1 => BitopsImmediate(i) = LeftBy(v, shift)
             /\ i.func3 = 2 => BitopsImmediate(i) = Truth(bytesLessThanBytesSigned(v, i.imm))
             /\ i.func3 = 3 => BitopsImmediate(i) = Truth(bytesLessThanBytesUnsigned(v, i.imm))
             /\ i.func3 = 4 => BitopsImmediate(i) = bytesXOR(v, i.imm)
             /\ i.func3 = 5 /\ func7 = 0 => BitopsImmediate(i) = RightBy(v, shift, 0)
             /\ i.func3 = 5 /\ func7 = 32 => BitopsImmediate(i) = RightBy(v, shift, SignFill(v))
             /\ i.func3 = 5 /\ func7 # 0 /\ func7 # 32 => BitopsImmediate(i) = <<>>
             /\ i.func3 = 6 => BitopsImmediate(i) = bytesOR(v, i.imm)
             /\ i.func3 = 7 => BitopsImmediate(i) = bytesAND(v, i.imm)
BY DEF BitopsImmediate

LEMMA BitopsCases ==
  ASSUME NEW i
  PROVE  LET v1 == i.rs1Val
             v2 == i.rs2Val
         IN  /\ i.func3 = 0 /\ i.func7 = 0 => Bitops(i) = bytesAdditionUnsigned(v1, v2)
             /\ i.func3 = 0 /\ i.func7 = 32 => Bitops(i) = bytesSubtractionUnsigned(v1, v2)
             /\ i.func3 = 0 /\ i.func7 # 0 /\ i.func7 # 32 => Bitops(i) = <<>>
             /\ i.func3 = 1 => Bitops(i) = bytesLogicalLeftShift(v1, v2)
             /\ i.func3 = 2 => Bitops(i) = Truth(bytesLessThanBytesSigned(v1, v2))
             /\ i.func3 = 3 => Bitops(i) = Truth(bytesLessThanBytesUnsigned(v1, v2))
             /\ i.func3 = 4 => Bitops(i) = bytesXOR(v1, v2)
             /\ i.func3 = 5 /\ i.func7 = 0 => Bitops(i) = bytesLogicalRightShift(v1, v2)
             /\ i.func3 = 5 /\ i.func7 = 32 => Bitops(i) = bytesArithmeticRightShift(v1, v2)
             /\ i.func3 = 5 /\ i.func7 # 0 /\ i.func7 # 32 => Bitops(i) = <<>>
             /\ i.func3 = 6 => Bitops(i) = bytesOR(v1, v2)
             /\ i.func3 = 7 => Bitops(i) = bytesAND(v1, v2)
BY DEF Bitops

LEMMA EightFunctions ==
  \A n \in 0 .. 7 : n = 0 \/ n = 1 \/ n = 2 \/ n = 3 \/ n = 4 \/ n = 5 \/ n = 6 \/ n = 7
OBVIOUS

LEMMA BitopsImmediateType ==
  ASSUME NEW i, Executable(i)
  PROVE  BitopsImmediate(i) = <<>> \/ BitopsImmediate(i) \in Words
<1> DEFINE v == i.rs1Val
           shift == i.imm[1] & 31
<1>1. v \in Words /\ Vector(i.imm) /\ i.func3 \in 0 .. 7 /\ i.imm[1] \in Byte
  BY DEF Executable
<1>2. shift \in 0 .. 31
  BY <1>1, ShiftAmounts
<1>3. bytesAdditionSigned(v, i.imm) \in Words
  BY <1>1, Sums
<1>4. LeftBy(v, shift) \in Words
  BY <1>1, <1>2, LeftIsShiftLeft
<1>5. RightBy(v, shift, 0) \in Words /\ RightBy(v, shift, SignFill(v)) \in Words
  BY <1>1, <1>2, SignFills, RightIsShiftRight
<1> HIDE DEF v, shift
<1>6. bytesXOR(v, i.imm) \in Words /\ bytesOR(v, i.imm) \in Words /\ bytesAND(v, i.imm) \in Words
  BY <1>1, BitwiseTypes
<1>7. i.func3 = 0 \/ i.func3 = 1 \/ i.func3 = 2 \/ i.func3 = 3 \/ i.func3 = 4 \/ i.func3 = 5
        \/ i.func3 = 6 \/ i.func3 = 7
  BY <1>1, EightFunctions
<1> QED BY <1>3, <1>4, <1>5, <1>6, <1>7, BitopsImmediateCases, TruthIsWord DEF v, shift

LEMMA BitopsType ==
  ASSUME NEW i, Executable(i)
  PROVE  Bitops(i) = <<>> \/ Bitops(i) \in Words
<1> DEFINE a == i.rs1Val
           b == i.rs2Val
<1>1. a \in Words /\ b \in Words /\ i.func3 \in 0 .. 7
  BY DEF Executable
<1> HIDE DEF a, b
<1>2. bytesAdditionUnsigned(a, b) \in Words /\ bytesSubtractionUnsigned(a, b) \in Words
  BY <1>1, AddBytesIsPlus, SubtractionType DEF bytesAdditionUnsigned
<1>3. bytesLogicalLeftShift(a, b) \in Words
  BY <1>1, ShiftLeftByRegister
<1>4. bytesLogicalRightShift(a, b) \in Words /\ bytesArithmeticRightShift(a, b) \in Words
  BY <1>1, SignFills, ShiftRightByRegister DEF bytesLogicalRightShift, bytesArithmeticRightShift
<1>5. bytesXOR(a, b) \in Words /\ bytesOR(a, b) \in Words /\ bytesAND(a, b) \in Words
  BY <1>1, BitwiseTypes, WordsAreVectors
<1>7. i.func3 = 0 \/ i.func3 = 1 \/ i.func3 = 2 \/ i.func3 = 3 \/ i.func3 = 4 \/ i.func3 = 5
        \/ i.func3 = 6 \/ i.func3 = 7
  BY <1>1, EightFunctions
<1> QED BY <1>2, <1>3, <1>4, <1>5, <1>7, BitopsCases, TruthIsWord DEF a, b

\* What execute leaves.
Effect(e) ==
  /\ e.result \in Words /\ e.next \in Words
  /\ e = [result |-> e.result, next |-> e.next, fault |-> e.fault]

LEMMA EffectOfThrow ==
  ASSUME NEW fault
  PROVE  Effect(Throws(fault)) /\ Throws(fault).fault = fault
BY ZerosAre DEF Effect, Throws

LEMMA EffectOfDone ==
  ASSUME NEW r \in Words, NEW n \in Words
  PROVE  /\ Effect(Done(r, n)) /\ Done(r, n).fault = "none"
         /\ Done(r, n).result = r /\ Done(r, n).next = n
BY DEF Effect, Done

LEMMA EffectOfJump ==
  ASSUME NEW r \in Words, NEW n \in Words, NEW size
  PROVE  Effect(JumpTo(r, n, size))
BY EffectOfThrow, EffectOfDone DEF JumpTo

\* The routine of each opcode.
LEMMA ExecuteCases ==
  ASSUME NEW i, NEW size
  PROVE  /\ i.opcode = 55  => execute(i, size) = Done(i.imm, IncPC(i))
         /\ i.opcode = 23  => execute(i, size) = Done(bytesAddSignedToPC(i.pc, i.imm), IncPC(i))
         /\ i.opcode = 111 => execute(i, size) = executeJAL(i, size)
         /\ i.opcode = 103 => execute(i, size) = executeJALR(i, size)
         /\ i.opcode = 99  => execute(i, size) = executeBranch(i, size)
         /\ i.opcode \in {3, 35} => execute(i, size) = executeAccess(i, size)
         /\ i.opcode = 19  => execute(i, size) = executeBits(i, BitopsImmediate(i))
         /\ i.opcode = 51  => execute(i, size) = executeBits(i, Bitops(i))
         /\ i.opcode = 127 => execute(i, size) = executeT(i)
         /\ i.opcode \in {15, 115} => execute(i, size) = Done(Zeros(XLEN), IncPC(i))
BY DEF execute

\* Every instruction leaves a result and a PC of four bytes, whatever it throws.
LEMMA ExecuteType ==
  ASSUME NEW i, Executable(i), NEW size
  PROVE  Effect(execute(i, size))
<1>1. /\ i.pc \in Words /\ i.pc[4] = 0 /\ i.rs1Val \in Words /\ i.rs2Val \in Words
      /\ Vector(i.imm) /\ (i.opcode \in {55, 23} => i.imm \in Words)
      /\ i.opcode \in BaseOpcodes \cup {127}
  BY DEF Executable
<1>2. IncPC(i) \in Words
  BY <1>1, NextInstruction
<1>3. bytesAddSignedToPC(i.pc, i.imm) \in Words /\ bytesAdditionSigned(i.rs1Val, i.imm) \in Words
  BY <1>1, Sums
<1>4. CASE i.opcode = 55
  BY <1>1, <1>2, <1>4, EffectOfDone, ExecuteCases
<1>5. CASE i.opcode = 23
  BY <1>2, <1>3, <1>5, EffectOfDone, ExecuteCases
<1>6. CASE i.opcode = 111
  BY <1>2, <1>3, <1>6, EffectOfJump, ExecuteCases DEF executeJAL
<1>7. CASE i.opcode = 103
  BY <1>2, <1>3, <1>7, EffectOfJump, ExecuteCases DEF executeJALR
<1>8. CASE i.opcode = 99
  <2>1. CASE BranchTaken(i)
    BY <1>2, <1>3, <1>8, <2>1, EffectOfJump, EffectOfThrow, ExecuteCases DEF executeBranch
  <2>2. CASE ~BranchTaken(i)
    BY <1>2, <1>3, <1>8, <2>2, EffectOfJump, EffectOfThrow, ExecuteCases DEF executeBranch
  <2> QED BY <2>1, <2>2
<1>9. CASE i.opcode \in {3, 35}
  BY <1>2, <1>3, <1>9, EffectOfDone, EffectOfThrow, ExecuteCases DEF executeAccess
<1>10. CASE i.opcode = 19
  BY <1>2, <1>10, BitopsImmediateType, EffectOfDone, EffectOfThrow, ExecuteCases DEF executeBits
<1>11. CASE i.opcode = 51
  BY <1>2, <1>11, BitopsType, EffectOfDone, EffectOfThrow, ExecuteCases DEF executeBits
<1>12. CASE i.opcode = 127
  <2>1. addByteToBytes(i.rs1Val, 1) = <<>> \/ addByteToBytes(i.rs1Val, 1) \in Words
    <3>1. 1 \in 0 .. 127 /\ Single(1) \in Words
      BY SingleWord
    <3>2. addByteToBytes(i.rs1Val, 1) = <<>> \/ addByteToBytes(i.rs1Val, 1) = Machine!Plus(i.rs1Val, Single(1))
      <4>1. ASSUME NEW v \in Words
            PROVE  addByteToBytes(v, 1) = <<>> \/ addByteToBytes(v, 1) = Machine!Plus(v, Single(1))
        BY <3>1, AddByteIsPlus
      <4> QED BY <1>1, <4>1
    <3> QED BY <1>1, <3>1, <3>2, PlusType
  <2>2. addByteToBytes(i.rs1Val, 255) = <<>> \/ addByteToBytes(i.rs1Val, 255) \in Words
    BY <1>1, AddMinusOne
  <2> QED BY <1>2, <1>12, <2>1, <2>2, EffectOfDone, EffectOfThrow, ExecuteCases DEF executeT
<1>13. CASE i.opcode \in {15, 115}
  BY <1>2, <1>13, ZerosAre, EffectOfDone, ExecuteCases
<1> QED
  BY <1>1, <1>4, <1>5, <1>6, <1>7, <1>8, <1>9, <1>10, <1>11, <1>12, <1>13 DEF BaseOpcodes

-----------------------------------------------------------------------------
(* Addresses, loads and stores. *)

\* Three bytes: the largest number is one less than the bound.
LEMMA BoundIs ==
  ASSUME NEW x \in 0 .. 255, NEW y \in 0 .. 255, NEW z \in 0 .. 255
  PROVE  x + 256 * y + 65536 * z < ULongBound
BY SMT DEF ULongBound

LEMMA BoundIsNat == ULongBound \in Nat
BY SMT DEF ULongBound

\* The address that a word stands for; all those that do not fit in three bytes
\* are one.
LEMMA ULongOfWord ==
  ASSUME NEW v \in Words
  PROVE  /\ getBytesToULong(v) \in 0 .. ULongBound
         /\ getBytesToULong(v) < ULongBound <=> v[4] = 0
         /\ v[4] = 0 => getBytesToULong(v) = Machine!Address(v)
<1>1. Len(v) = 4 /\ v[4] \in 0 .. 255
  BY SMT, WordNumbers
<1>2. PICK x \in 0 .. 255, y \in 0 .. 255, z \in 0 .. 255 : x = v[1] /\ y = v[2] /\ z = v[3]
  <2>1. v[1] \in 0 .. 255 /\ v[2] \in 0 .. 255 /\ v[3] \in 0 .. 255
    BY SMT, WordNumbers
  <2> QED BY Zenon, <2>1
<1>3. \A j \in 4 .. 4 : j = 4
  OBVIOUS
<1>4. (\E j \in 4 .. Len(v) : v[j] # 0) <=> v[4] # 0
  BY <1>1, <1>3
<1>5. getBytesToULong(v) = IF v[4] # 0 THEN ULongBound ELSE x + 256 * y + 65536 * z
  BY SMT, <1>1, <1>2, <1>4 DEF getBytesToULong
<1>6. x + 256 * y + 65536 * z < ULongBound
  BY SMT DEF ULongBound
<1>8. x + 256 * y + 65536 * z \in Nat
  OBVIOUS
<1>7. Machine!Address(v) = x + 256 * y + 65536 * z
  BY SMT, <1>2 DEF Machine!Address
<1> QED BY SMT, <1>5, <1>6, <1>7, <1>8, BoundIsNat

LEMMA AccessWidths ==
  ASSUME NEW f
  PROVE  LoadWidth(f) \in {0, 1, 2, 4} /\ StoreWidth(f) \in {0, 1, 2, 4}
BY DEF LoadWidth, StoreWidth

\* The bytes of an access that does not throw lie in memory.
LEMMA AccessRead ==
  ASSUME NEW size \in Nat, NEW mem \in [0 .. size - 1 -> Byte], NEW addr \in Nat,
         NEW width \in {1, 2, 4}, ~OutOfMemory(size, addr, width)
  PROVE  /\ Read(mem, addr, width) \in [1 .. width -> Byte]
         /\ \A j \in 0 .. width - 1 : addr + j \in 0 .. size - 1
         /\ \A j \in 1 .. width : Read(mem, addr, width)[j] = mem[addr + j - 1]
<1>1. width \in Widths
  BY DEF Widths
<1>2. addr .. addr + width - 1 \subseteq 0 .. size - 1
  BY <1>1, AccessInMemory
<1>3. \A j \in 0 .. width - 1 : addr + j \in 0 .. size - 1
  BY SMT, <1>2
<1>4. ASSUME NEW j \in 1 .. width PROVE mem[addr + j - 1] \in Byte
  <2>1. addr + j - 1 \in addr .. addr + width - 1
    OBVIOUS
  <2> QED BY <1>2, <2>1
<1> QED BY <1>3, <1>4 DEF Read

LEMMA PaddedWords ==
  ASSUME NEW width \in {1, 2, 4}, NEW r \in [1 .. width -> Byte]
  PROVE  /\ Resize(r, 4) \in Words /\ copyWithSignExtend(r, 4) \in Words
         /\ Len(r) = width
<1>1. r \in Seq(Byte) /\ Len(r) = width
  <2>1. width \in Nat
    OBVIOUS
  <2>2. r \in Seq(Byte) /\ DOMAIN r = 1 .. width
    BY <2>1, SeqDef
  <2> QED BY <2>1, <2>2, LenProperties
<1>2. 0 \in Byte /\ 255 \in Byte
  BY ZeroAndOnes
<1>3. Resize(r, 4) \in Words
  BY <1>1, <1>2 DEF Resize, Words
<1>4. copyWithSignExtend(r, 4) \in Words
  BY <1>1, <1>2 DEF copyWithSignExtend, Words
<1> QED BY <1>1, <1>3, <1>4

\* A load that does not throw gives a word.
LEMMA LoadType ==
  ASSUME NEW size \in Nat, NEW mem \in [0 .. size - 1 -> Byte], NEW i, NEW v \in Words,
         i.opcode = 3, memFault(i, v, size) = "none"
  PROVE  /\ memLoad(i, v, mem) \in Words
         /\ LoadWidth(i.func3) \in {1, 2, 4}
         /\ ~OutOfMemory(size, getBytesToULong(v), LoadWidth(i.func3))
<1>1. getBytesToULong(v) \in Nat
  BY ULongOfWord, BoundIsNat
<1>2. LoadWidth(i.func3) \in {0, 1, 2, 4}
  BY AccessWidths
<1>3. /\ LoadWidth(i.func3) # 0
      /\ ~(LoadWidth(i.func3) > 0 /\ OutOfMemory(size, getBytesToULong(v), LoadWidth(i.func3)))
  BY <1>2 DEF memFault
<1>4. LoadWidth(i.func3) \in {1, 2, 4} /\ ~OutOfMemory(size, getBytesToULong(v), LoadWidth(i.func3))
  BY <1>2, <1>3
<1>5. Read(mem, getBytesToULong(v), LoadWidth(i.func3)) \in [1 .. LoadWidth(i.func3) -> Byte]
  BY <1>1, <1>4, AccessRead
<1> QED BY <1>4, <1>5, PaddedWords DEF memLoad, XLEN

\* A store keeps the memory's type.
LEMMA StoreType ==
  ASSUME NEW size \in Nat, NEW mem \in [0 .. size - 1 -> Byte], NEW i, NEW v \in Words,
         i.rs2Val \in Words
  PROVE  memStore(i, v, mem) \in [0 .. size - 1 -> Byte]
<1>1. getBytesToULong(v) \in Nat
  BY ULongOfWord, BoundIsNat
<1>2. StoreWidth(i.func3) \in {0, 1, 2, 4}
  BY AccessWidths
<1>3. i.rs2Val \in Seq(Byte) /\ Len(i.rs2Val) = 4
  BY WordsAreBytes DEF IsBytes, XLEN
<1>4. SubSeq(i.rs2Val, 1, StoreWidth(i.func3)) \in Seq(Byte)
  BY <1>2, <1>3, SubSeqProperties
<1> QED BY <1>1, <1>4, WriteType, CellIsByte DEF memStore, Memories


-----------------------------------------------------------------------------
(* The invariant that types the state of a run.                            *)

\* Before the binary is loaded there is neither memory nor a register.
Blank == memory = <<>> /\ registers = <<>>
Full ==
  /\ config.memorySize # 0
  /\ memory \in [0 .. config.memorySize - 1 -> Byte]
  /\ registers \in [0 .. 31 -> Words]

ConfigType(c) ==
  /\ c = [XLEN |-> c.XLEN, extensionSet |-> c.extensionSet, memorySize |-> c.memorySize,
          numberOfHardwareThreads |-> c.numberOfHardwareThreads,
          fileLocation |-> c.fileLocation, pauseOnEntry |-> c.pauseOnEntry,
          haltAddr |-> c.haltAddr, returned |-> c.returned]
  /\ c.XLEN \in {0, XLEN} /\ c.extensionSet \subseteq {T_EXTENSION}
  /\ c.memorySize \in MemorySizes /\ c.numberOfHardwareThreads \in 0 .. 2^16 - 1
  /\ c.pauseOnEntry \in BOOLEAN /\ c.returned \in BOOLEAN
  /\ c.haltAddr = <<>> \/ c.haltAddr \in [1 .. 8 -> Byte] \/ c.haltAddr \in Words

Loading == {"start", "load", "refused"}
Running == {"fetch", "decode", "execute", "memoryAccess", "writeback"}

RunChosen ==
  \E run \in Runs :
    argv = run.argv /\ file = [location |-> run.location, contents |-> run.contents]

RunInv ==
  /\ RunChosen
  /\ parsed \in 0 .. Len(argv)
  /\ stage \in Loading \cup Running \cup Ended
  /\ executed \in 0 .. MaxInstructions
  /\ ConfigType(config)

MemoryInv ==
  \/ stage \in Loading \cup {"terminated"} /\ Blank
  \/ stage \notin Loading /\ Full

WordsInv == pc \in Words /\ Effect(effect)

\* The instruction between its fetch and its write back.
FetchedInv ==
  stage \in {"decode", "execute", "memoryAccess", "writeback"} =>
    /\ executed < MaxInstructions /\ fetched \in Words /\ pc[4] = 0
    /\ getBytesToULong(pc) + 4 < config.memorySize
    /\ stage # "writeback" => fetched = Read(memory, getBytesToULong(pc), 4)

Decoded ==
  LET opcode == Field(fetched, 0, 6)
      routines == Opcodes(config.extensionSet)
  IN  /\ opcode \in DOMAIN routines
      /\ Fields(ins, routines[opcode], fetched, pc, registers[Field(fetched, 15, 19)],
                registers[Field(fetched, 20, 24)])

DecodedInv ==
  /\ stage \in {"execute", "memoryAccess", "writeback"} => Decoded
  /\ stage = "memoryAccess" => /\ effect = execute(ins, config.memorySize)
                               /\ effect.fault = "none"
  /\ ins = NoInstruction \/ ins.type \in Types

\* An int, whose width is at most that of a ulong.
FitsInt(n) == n \in Int /\ 2 * n < UInt /\ -(2 * n) <= UInt

LEMMA IntWidths ==
  /\ UInt \in Nat \ {0} /\ 2 * 2^16 <= UInt /\ UInt <= ULong /\ ULong \in Nat \ {0}
  /\ Numbers \subseteq Int
<1>1. UInt \in Nat /\ 2 * 2^16 <= UInt /\ UInt <= ULong /\ Numbers \subseteq Int
  BY Zenon, DatapathAssumption
<1>2. PICK u \in Nat : u = UInt
  BY <1>1
<1>3. 2 * 2^16 <= u
  BY Zenon, <1>1, <1>2
<1>4. u # 0
  BY <1>3
<1> QED BY <1>1, <1>2, <1>4, MemoryAssumption

RegionInv ==
  /\ region = [start |-> region.start, count |-> region.count, hart |-> region.hart]
  /\ FitsInt(region.start) /\ FitsInt(region.count) /\ FitsInt(region.hart)
  /\ \A i \in DOMAIN shown : shown[i] \in Byte

DataInv ==
  RunInv /\ MemoryInv /\ WordsInv /\ FetchedInv /\ DecodedInv /\ RegionInv

-----------------------------------------------------------------------------
(* The command line.                                                       *)

LEMMA RunFacts ==
  ASSUME RunChosen
  PROVE  /\ argv \in Seq(Argument) /\ file.contents \in Seq(Byte)
         /\ \A i \in DOMAIN argv :
              "memory-size" \in argv[i].contains =>
                \A k \in DOMAIN argv[i].number : argv[i].number[k] \in MemorySizes
<1>1. PICK run \in Runs :
        argv = run.argv /\ file = [location |-> run.location, contents |-> run.contents]
  BY DEF RunChosen
<1>2. file.contents = run.contents
  BY <1>1
<1> QED BY <1>1, <1>2, DatapathAssumption

\* What an argument without a keyword is taken for.
Nothing == ""

LEMMA OptionIsContained ==
  ASSUME NEW arg
  PROVE  \/ OptionFound(arg) = Nothing
         \/ OptionFound(arg) \in arg.contains /\ \E k \in DOMAIN Keywords : OptionFound(arg) = Keywords[k]
<1> DEFINE Found(i) == Keywords[i] \in arg.contains
           First(i) == i \in DOMAIN Keywords /\ Found(i) /\ \A j \in 1 .. i - 1 : ~Found(j)
<1>1. CASE \A i \in DOMAIN Keywords : ~Found(i)
  BY Zenon, <1>1 DEF OptionFound, Nothing
<1>2. CASE \E i \in DOMAIN Keywords : Found(i)
  <2>1. DOMAIN Keywords = 1 .. 10
    BY DEF Keywords
  <2>2. \E i \in 1 .. 10 : First(i)
    <3> DEFINE None(n) == \A j \in 1 .. n : ~Found(j)
    <3>1. \A n \in 1 .. 10 : None(n - 1) => (None(n) \/ (Found(n) /\ \A j \in 1 .. n - 1 : ~Found(j)))
      OBVIOUS
    <3>2. ASSUME \A i \in 1 .. 10 : ~First(i) PROVE FALSE
      <4>1. \A n \in 1 .. 10 : None(n - 1) => None(n)
        BY <2>1, <3>1, <3>2
      <4>2. ~None(10)
        BY <1>2, <2>1
      <4>3. None(0)
        OBVIOUS
      <4> HIDE DEF None
      <4>4. None(1) /\ None(2) /\ None(3) /\ None(4) /\ None(5)
        <5>1. /\ None(1 - 1) => None(1)
              /\ None(2 - 1) => None(2)
              /\ None(3 - 1) => None(3)
              /\ None(4 - 1) => None(4)
              /\ None(5 - 1) => None(5)
          BY <4>1
        <5> QED BY <4>3, <5>1
      <4>5. None(6) /\ None(7) /\ None(8) /\ None(9) /\ None(10)
        <5>1. /\ None(6 - 1) => None(6)
              /\ None(7 - 1) => None(7)
              /\ None(8 - 1) => None(8)
              /\ None(9 - 1) => None(9)
              /\ None(10 - 1) => None(10)
          BY <4>1
        <5> QED BY <4>4, <5>1
      <4> QED BY <4>2, <4>5
    <3> QED BY <3>2
  <2> DEFINE k == CHOOSE i \in DOMAIN Keywords : Found(i) /\ \A j \in 1 .. i - 1 : ~Found(j)
  <2>3. k \in DOMAIN Keywords /\ Found(k)
    BY <2>1, <2>2
  <2>4. OptionFound(arg) = Keywords[k]
    BY Zenon, <1>2 DEF OptionFound
  <2> HIDE DEF k
  <2> QED BY <2>3, <2>4
<1> QED BY <1>1, <1>2

\* Every option that can be found, and what it does.
LEMMA OptionsFound ==
  ASSUME NEW arg
  PROVE  OptionFound(arg) \in {"base-isa", "extensions", "memory-size", "hardware-threads",
           "branch-predictor", "binary", "pause", "runningOutput", "halt", "help", Nothing}
<1>1. \A k \in DOMAIN Keywords : Keywords[k] \in {"base-isa", "extensions", "memory-size",
        "hardware-threads", "branch-predictor", "binary", "pause", "runningOutput", "halt", "help"}
  <2>1. DOMAIN Keywords = 1 .. 10
    BY DEF Keywords
  <2>2. \A k \in 1 .. 10 : k = 1 \/ k = 2 \/ k = 3 \/ k = 4 \/ k = 5 \/ k = 6 \/ k = 7 \/ k = 8 \/ k = 9 \/ k = 10
    OBVIOUS
  <2> QED BY <2>1, <2>2 DEF Keywords
<1> QED BY <1>1, OptionIsContained

LEMMA ApplyCases ==
  ASSUME NEW c, NEW o, NEW arg
  PROVE  /\ o = "base-isa" => Apply(c, o, arg) = IF arg.text = "RV32I" THEN [c EXCEPT !.XLEN = 4] ELSE c
         /\ o = "extensions" => Apply(c, o, arg) =
              IF arg.text = "T" THEN [c EXCEPT !.extensionSet = @ \cup {"T"}] ELSE c
         /\ o = "memory-size" => Apply(c, o, arg) = WithMemory(c, arg)
         /\ o = "hardware-threads" => Apply(c, o, arg) = WithThreads(c, arg)
         /\ o \in {"branch-predictor", "runningOutput"} => Apply(c, o, arg) = c
         /\ o = "binary" => Apply(c, o, arg) = [c EXCEPT !.fileLocation = arg.text]
         /\ o = "pause" => Apply(c, o, arg) = [c EXCEPT !.pauseOnEntry = TRUE]
         /\ o = "halt" => Apply(c, o, arg) = WithHalt(c, arg)
         /\ o = "help" => Apply(c, o, arg) = Refuse(c)
<1>1. o = "base-isa" => Apply(c, o, arg) = IF arg.text = "RV32I" THEN [c EXCEPT !.XLEN = 4] ELSE c
  BY Zenon DEF Apply
<1>2. o = "extensions" => Apply(c, o, arg) =
              IF arg.text = "T" THEN [c EXCEPT !.extensionSet = @ \cup {"T"}] ELSE c
  BY Zenon DEF Apply
<1>3. o = "memory-size" => Apply(c, o, arg) = WithMemory(c, arg)
  BY Zenon DEF Apply
<1>4. o = "hardware-threads" => Apply(c, o, arg) = WithThreads(c, arg)
  BY Zenon DEF Apply
<1>5. o \in {"branch-predictor", "runningOutput"} => Apply(c, o, arg) = c
  BY Zenon DEF Apply
<1>6. o = "binary" => Apply(c, o, arg) = [c EXCEPT !.fileLocation = arg.text]
  BY Zenon DEF Apply
<1>7. o = "pause" => Apply(c, o, arg) = [c EXCEPT !.pauseOnEntry = TRUE]
  BY Zenon DEF Apply
<1>8. o = "halt" => Apply(c, o, arg) = WithHalt(c, arg)
  BY Zenon DEF Apply
<1>9. o = "help" => Apply(c, o, arg) = Refuse(c)
  BY Zenon DEF Apply
<1> QED BY <1>1, <1>2, <1>3, <1>4, <1>5, <1>6, <1>7, <1>8, <1>9

LEMMA ApplyNothing ==
  ASSUME NEW c, NEW arg
  PROVE  Apply(c, Nothing, arg) = Refuse(c)
BY Zenon DEF Apply, Nothing

\* Of eight places the first that is no digit.
LEMMA FirstNoDigit ==
  ASSUME NEW digits, NEW first \in Nat, NEW last \in Nat, last <= first + 7,
         \E j \in first .. last : digits[j] = NoDigit
  PROVE  \E j \in first .. last :
           digits[j] = NoDigit /\ \A k \in first .. j - 1 : digits[k] # NoDigit
<1> DEFINE Digit(j) == digits[j] # NoDigit
           None(n) == \A j \in first .. last : j < first + n => Digit(j)
<1>1. None(0) /\ ~None(8)
  OBVIOUS
<1>2. PICK n \in 0 .. 7 : None(n) /\ ~None(n + 1)
  <2> HIDE DEF None
  <2>1. ASSUME \A n \in 0 .. 7 : None(n) => None(n + 1) PROVE FALSE
    <3>1. /\ None(0) => None(0 + 1)
          /\ None(1) => None(1 + 1)
          /\ None(2) => None(2 + 1)
          /\ None(3) => None(3 + 1)
          /\ None(4) => None(4 + 1)
          /\ None(5) => None(5 + 1)
          /\ None(6) => None(6 + 1)
          /\ None(7) => None(7 + 1)
      BY <2>1
    <3> QED BY <1>1, <3>1
  <2> QED BY <2>1
<1> HIDE DEF Digit
<1>3. PICK j \in first .. last : j < first + (n + 1) /\ ~Digit(j)
  BY <1>2
<1>4. j = first + n
  BY <1>2, <1>3
<1>5. \A k \in first .. j - 1 : Digit(k)
  BY <1>2, <1>3, <1>4
<1> QED BY <1>3, <1>5 DEF Digit

\* What is read of at most eight characters is a byte, and of digits only it is
\* the last two.
LEMMA ByteIsRead ==
  ASSUME NEW digits, NEW first \in Nat, NEW last \in Nat, first < last, last <= first + 7,
         \A j \in first .. last : digits[j] \in 0 .. 16
  PROVE  /\ ByteRead(digits, first, last) \in Byte
         /\ (\A j \in first .. last : digits[j] # NoDigit) =>
              ByteRead(digits, first, last) = 16 * digits[last - 1] + digits[last]
<1> DEFINE No(j) == digits[j] = NoDigit /\ \A k \in first .. j - 1 : digits[k] # NoDigit
           stop == IF \E j \in first .. last : digits[j] = NoDigit
                     THEN CHOOSE j \in first .. last : No(j) ELSE last + 1
<1>1. stop \in first .. last + 1 /\ \A k \in first .. stop - 1 : digits[k] # NoDigit
  <2>1. CASE \E j \in first .. last : digits[j] = NoDigit
    <3>1. \E j \in first .. last : No(j)
      BY <2>1, FirstNoDigit
    <3>2. stop \in first .. last /\ No(stop)
      <4> HIDE DEF No
      <4> QED BY <2>1, <3>1
    <3> HIDE DEF stop
    <3> QED BY <3>2
  <2>2. CASE ~ \E j \in first .. last : digits[j] = NoDigit
    BY <2>2
  <2> QED BY <2>1, <2>2
<1>2. (\A j \in first .. last : digits[j] # NoDigit) => stop = last + 1
  OBVIOUS
<1>3. ByteRead(digits, first, last) =
        CASE stop = first     -> 0
          [] stop = first + 1 -> digits[first]
          [] OTHER            -> 16 * digits[stop - 2] + digits[stop - 1]
  BY Zenon DEF ByteRead
<1> HIDE DEF stop
<1>4. \A k \in first .. stop - 1 : digits[k] \in 0 .. 15
  BY <1>1 DEF NoDigit
<1>5. CASE stop = first
  BY <1>2, <1>3, <1>5 DEF Byte
<1>6. CASE stop = first + 1
  <2>1. digits[first] \in 0 .. 15
    BY <1>4, <1>6
  <2> QED BY <1>2, <1>3, <1>6, <2>1 DEF Byte
<1>7. CASE stop # first /\ stop # first + 1
  <2>1. PICK x \in 0 .. 15, y \in 0 .. 15 : x = digits[stop - 2] /\ y = digits[stop - 1]
    <3>1. stop - 2 \in first .. stop - 1 /\ stop - 1 \in first .. stop - 1
      BY <1>1, <1>7
    <3> QED BY <1>4, <3>1
  <2>2. 16 * x + y \in Byte
    BY DEF Byte
  <2>3. ByteRead(digits, first, last) = 16 * digits[stop - 2] + digits[stop - 1]
    BY <1>3, <1>7
  <2>4. (\A j \in first .. last : digits[j] # NoDigit) => stop - 2 = last - 1 /\ stop - 1 = last
    BY <1>2
  <2> QED BY <2>1, <2>2, <2>3, <2>4
<1> QED BY <1>5, <1>6, <1>7

\* Each byte of a halt address is read of two to eight characters.
LEMMA HaltPlaces ==
  ASSUME NEW n \in Nat, n % 2 = 0, n <= 16, NEW k \in 1 .. 8, 2 * (k - 1) < n
  PROVE  LET i == 2 * (k - 1)
             end == IF i + i + 2 <= n THEN i + i + 2 ELSE n
         IN  i + 1 \in Nat /\ end \in Nat /\ i + 1 < end /\ end <= (i + 1) + 7 /\ end <= n
OBVIOUS

\* The eight bytes of a halt address that is not refused.
LEMMA HaltAddrType ==
  ASSUME NEW digits \in Seq(0 .. 16), Len(digits) % 2 = 0, Len(digits) <= 16
  PROVE  haltAddr(digits) \in [1 .. 8 -> Byte]
<1>1. Len(digits) \in Nat /\ \A j \in 1 .. Len(digits) : digits[j] \in 0 .. 16
  BY LenProperties, ElementOfSeq
<1>2. ASSUME NEW k \in 1 .. 8
      PROVE  LET i == 2 * (k - 1)
                 end == IF i + i + 2 <= Len(digits) THEN i + i + 2 ELSE Len(digits)
             IN  (IF i < Len(digits) THEN ByteRead(digits, i + 1, end) ELSE 0) \in Byte
  <2> DEFINE i == 2 * (k - 1)
             end == IF i + i + 2 <= Len(digits) THEN i + i + 2 ELSE Len(digits)
  <2>1. CASE i < Len(digits)
    <3>1. i + 1 \in Nat \ {0} /\ end \in Nat /\ i + 1 < end /\ end <= (i + 1) + 7 /\ end <= Len(digits)
      BY <1>1, <2>1, HaltPlaces
    <3>2. PICK f \in Nat \ {0}, l \in Nat : f = i + 1 /\ l = end
      BY <3>1
    <3> HIDE DEF i, end
    <3>3. \A j \in f .. l : digits[j] \in 0 .. 16
      <4>1. \A j \in f .. l : j \in 1 .. Len(digits)
        BY <1>1, <3>1, <3>2
      <4> QED BY <1>1, <4>1
    <3>4. ByteRead(digits, f, l) \in Byte
      BY <3>1, <3>2, <3>3, ByteIsRead
    <3> USE DEF i, end
    <3> QED BY Zenon, <2>1, <3>2, <3>4
  <2>2. CASE ~(i < Len(digits))
    BY <2>2 DEF Byte
  <2> QED BY <2>1, <2>2
<1> QED BY <1>2 DEF haltAddr

\* A configuration with one field changed.
LEMMA ChangedConfig ==
  ASSUME NEW c, ConfigType(c), NEW v
  PROVE  /\ v \in {0, XLEN} => ConfigType([c EXCEPT !.XLEN = v])
         /\ v \subseteq {T_EXTENSION} => ConfigType([c EXCEPT !.extensionSet = v])
         /\ v \in MemorySizes => ConfigType([c EXCEPT !.memorySize = v])
         /\ v \in 0 .. 2^16 - 1 => ConfigType([c EXCEPT !.numberOfHardwareThreads = v])
         /\ ConfigType([c EXCEPT !.fileLocation = v])
         /\ v \in BOOLEAN => ConfigType([c EXCEPT !.pauseOnEntry = v])
         /\ v \in BOOLEAN => ConfigType([c EXCEPT !.returned = v])
         /\ v = <<>> \/ v \in [1 .. 8 -> Byte] \/ v \in Words => ConfigType([c EXCEPT !.haltAddr = v])
<1> DEFINE R(x, e, m, n, f, p, h, r) ==
             [XLEN |-> x, extensionSet |-> e, memorySize |-> m, numberOfHardwareThreads |-> n,
              fileLocation |-> f, pauseOnEntry |-> p, haltAddr |-> h, returned |-> r]
           T(x, e, m, n, p, h, r) ==
             /\ x \in {0, XLEN} /\ e \subseteq {T_EXTENSION} /\ m \in MemorySizes
             /\ n \in 0 .. 2^16 - 1 /\ p \in BOOLEAN /\ r \in BOOLEAN
             /\ h = <<>> \/ h \in [1 .. 8 -> Byte] \/ h \in Words
<1>1. ASSUME NEW x, NEW e, NEW m, NEW n, NEW f, NEW p, NEW h, NEW r, T(x, e, m, n, p, h, r)
      PROVE  ConfigType(R(x, e, m, n, f, p, h, r))
  BY <1>1 DEF ConfigType
<1>2. PICK x, e, m, n, f, p, h, r : c = R(x, e, m, n, f, p, h, r) /\ T(x, e, m, n, p, h, r)
  BY DEF ConfigType
<1>3. /\ [c EXCEPT !.XLEN = v] = R(v, e, m, n, f, p, h, r)
      /\ [c EXCEPT !.extensionSet = v] = R(x, v, m, n, f, p, h, r)
      /\ [c EXCEPT !.memorySize = v] = R(x, e, v, n, f, p, h, r)
      /\ [c EXCEPT !.numberOfHardwareThreads = v] = R(x, e, m, v, f, p, h, r)
      /\ [c EXCEPT !.fileLocation = v] = R(x, e, m, n, v, p, h, r)
      /\ [c EXCEPT !.pauseOnEntry = v] = R(x, e, m, n, f, v, h, r)
      /\ [c EXCEPT !.haltAddr = v] = R(x, e, m, n, f, p, v, r)
      /\ [c EXCEPT !.returned = v] = R(x, e, m, n, f, p, h, v)
  BY <1>2
<1>4. /\ v \in {0, XLEN} => T(v, e, m, n, p, h, r)
      /\ v \subseteq {T_EXTENSION} => T(x, v, m, n, p, h, r)
      /\ v \in MemorySizes => T(x, e, v, n, p, h, r)
      /\ v \in 0 .. 2^16 - 1 => T(x, e, m, v, p, h, r)
      /\ v \in BOOLEAN => T(x, e, m, n, v, h, r)
      /\ v \in BOOLEAN => T(x, e, m, n, p, h, v)
      /\ v = <<>> \/ v \in [1 .. 8 -> Byte] \/ v \in Words => T(x, e, m, n, p, v, r)
  BY <1>2
<1> HIDE DEF R, T
<1>5. /\ v \in {0, XLEN} => ConfigType(R(v, e, m, n, f, p, h, r))
      /\ v \subseteq {T_EXTENSION} => ConfigType(R(x, v, m, n, f, p, h, r))
      /\ v \in MemorySizes => ConfigType(R(x, e, v, n, f, p, h, r))
  BY Zenon, <1>1, <1>4
<1>6. /\ v \in 0 .. 2^16 - 1 => ConfigType(R(x, e, m, v, f, p, h, r))
      /\ ConfigType(R(x, e, m, n, v, p, h, r))
      /\ v \in BOOLEAN => ConfigType(R(x, e, m, n, f, v, h, r))
  BY Zenon, <1>1, <1>2, <1>4
<1>7. /\ v \in BOOLEAN => ConfigType(R(x, e, m, n, f, p, h, v))
      /\ v = <<>> \/ v \in [1 .. 8 -> Byte] \/ v \in Words => ConfigType(R(x, e, m, n, f, p, v, r))
  BY Zenon, <1>1, <1>4
<1> QED BY Zenon, <1>3, <1>5, <1>6, <1>7

LEMMA RefuseType ==
  ASSUME NEW c, ConfigType(c)
  PROVE  ConfigType(Refuse(c))
<1>1. 0 \in MemorySizes
  BY MemoryAssumption, BoundIsNat DEF MemorySizes
<1>2. 0 \in 0 .. 2^16 - 1
  BY SMT
<1> DEFINE d == [c EXCEPT !.memorySize = 0]
           e == [d EXCEPT !.numberOfHardwareThreads = 0]
<1>3. ConfigType(d)
  BY <1>1, ChangedConfig
<1> HIDE DEF d
<1>4. ConfigType(e)
  BY <1>2, <1>3, ChangedConfig
<1> HIDE DEF e
<1>5. TRUE \in BOOLEAN
  OBVIOUS
<1>6. ConfigType([e EXCEPT !.returned = TRUE])
  BY <1>4, <1>5, ChangedConfig
<1>7. Refuse(c) = [e EXCEPT !.returned = TRUE]
  BY DEF Refuse, e, d
<1> QED BY <1>6, <1>7

LEMMA ParseType ==
  ASSUME NEW c, ConfigType(c), NEW arg \in Argument,
         "memory-size" \in arg.contains => \A k \in DOMAIN arg.number : arg.number[k] \in MemorySizes
  PROVE  ConfigType(Parse(c, arg))
<1> DEFINE o == OptionFound(arg)
<1>1. Parse(c, arg) = Apply(c, o, arg)
  BY DEF Parse
<1> HIDE DEF o
<1>2. arg.number \in Seq(Int) /\ arg.digits \in Seq(0 .. 16)
  BY DEF Argument, NoDigit
<1>3. arg.number # <<>> => 1 \in DOMAIN arg.number /\ arg.number[1] \in Int
  BY <1>2
<1>4. ConfigType(Refuse(c))
  BY RefuseType
<1>5. CASE o = "base-isa"
  <2>1. ConfigType([c EXCEPT !.XLEN = 4])
    BY ChangedConfig DEF XLEN
  <2> QED BY <1>1, <1>5, <2>1, ApplyCases
<1>6. CASE o = "extensions"
  <2>1. c.extensionSet \cup {"T"} \subseteq {T_EXTENSION}
    BY DEF ConfigType, T_EXTENSION
  <2>2. ConfigType([c EXCEPT !.extensionSet = @ \cup {"T"}])
    BY <2>1, ChangedConfig
  <2>3. Parse(c, arg) = IF arg.text = "T" THEN [c EXCEPT !.extensionSet = @ \cup {"T"}] ELSE c
    BY Zenon, <1>1, <1>6 DEF Apply
  <2> QED BY <2>2, <2>3
<1>7. CASE o = "memory-size"
  <2>1. "memory-size" \in arg.contains
    BY <1>7, OptionIsContained DEF o, Nothing
  <2>2. ASSUME arg.number # <<>> PROVE ConfigType([c EXCEPT !.memorySize = arg.number[1]])
    BY <1>3, <2>1, <2>2 DEF ConfigType
  <2>3. ConfigType(WithMemory(c, arg))
    BY <1>4, <2>2 DEF WithMemory
  <2> QED BY <1>1, <1>7, <2>3, ApplyCases
<1>8. CASE o = "hardware-threads"
  <2>1. ASSUME arg.number # <<>>
        PROVE  ConfigType([c EXCEPT !.numberOfHardwareThreads = arg.number[1] % 2^16])
    <3>1. arg.number[1] % 2^16 \in 0 .. 2^16 - 1
      BY <1>3, <2>1
    <3> QED BY <3>1, ChangedConfig
  <2>2. ConfigType(WithThreads(c, arg))
    BY <1>4, <2>1 DEF WithThreads
  <2> QED BY <1>1, <1>8, <2>2, ApplyCases
<1>9. CASE o \in {"branch-predictor", "runningOutput"}
  BY <1>1, <1>9, ApplyCases
<1>10. CASE o = "binary"
  <2>1. ConfigType([c EXCEPT !.fileLocation = arg.text])
    BY ChangedConfig
  <2> QED BY <1>1, <1>10, <2>1, ApplyCases
<1>11. CASE o = "pause"
  <2>1. TRUE \in BOOLEAN
    OBVIOUS
  <2>2. ConfigType([c EXCEPT !.pauseOnEntry = TRUE])
    BY <2>1, ChangedConfig
  <2>3. Parse(c, arg) = [c EXCEPT !.pauseOnEntry = TRUE]
    BY Zenon, <1>1, <1>11 DEF Apply
  <2> QED BY <2>2, <2>3
<1>12. CASE o = "halt"
  <2>1. ASSUME ~(Len(arg.digits) % 2 # 0 \/ Len(arg.digits) > 16)
        PROVE  ConfigType([c EXCEPT !.haltAddr = haltAddr(arg.digits)])
    <3>1. haltAddr(arg.digits) \in [1 .. 8 -> Byte]
      <4>1. ASSUME NEW d \in Seq(0 .. 16), ~(Len(d) % 2 # 0 \/ Len(d) > 16)
            PROVE  haltAddr(d) \in [1 .. 8 -> Byte]
        BY <4>1, LenProperties, HaltAddrType
      <4> QED BY <1>2, <2>1, <4>1
    <3> QED BY <3>1 DEF ConfigType
  <2>2. ConfigType(WithHalt(c, arg))
    BY <1>4, <2>1 DEF WithHalt
  <2> QED BY <1>1, <1>12, <2>2, ApplyCases
<1>13. CASE o = "help"
  BY <1>1, <1>4, <1>13, ApplyCases
<1>15. CASE o = Nothing
  BY <1>1, <1>4, <1>15, ApplyNothing
<1>14. o \in {"base-isa", "extensions", "memory-size", "hardware-threads",
           "branch-predictor", "binary", "pause", "runningOutput", "halt", "help", Nothing}
  BY OptionsFound DEF o
<1> QED BY <1>5, <1>6, <1>7, <1>8, <1>9, <1>10, <1>11, <1>12, <1>13, <1>14, <1>15

-----------------------------------------------------------------------------
(* Every step keeps the types.                                             *)

LEMMA InitData == Init => DataInv
<1> SUFFICES ASSUME Init PROVE DataInv
  OBVIOUS
<1>1. RunInv
  <2>1. PICK run \in Runs :
          argv = run.argv /\ file = [location |-> run.location, contents |-> run.contents]
    BY DEF Init
  <2>2. RunChosen
    BY <2>1 DEF RunChosen
  <2>3. Len(argv) \in Nat
    BY <2>2, RunFacts, LenProperties
  <2>4. ConfigType(config)
    <3>1. 0 \in MemorySizes
      BY MemoryAssumption, BoundIsNat DEF MemorySizes
    <3>2. 0 \in 0 .. 2^16 - 1
      BY SMT
    <3> QED BY <3>1, <3>2 DEF Init, Config, ConfigType
  <2>5. stage = "start" /\ parsed = 0 /\ executed = 0
    BY DEF Init
  <2>6. MaxInstructions \in Nat
    BY DatapathAssumption
  <2> QED BY <2>2, <2>3, <2>4, <2>5, <2>6 DEF RunInv, Loading
<1>2. MemoryInv
  BY DEF Init, MemoryInv, Blank, Loading
<1>3. WordsInv
  BY ZerosAre, EffectOfThrow DEF Init, WordsInv, NoEffect
<1>4. FetchedInv /\ DecodedInv
  BY DEF Init, FetchedInv, DecodedInv
<1>5. RegionInv
  BY IntWidths DEF Init, RegionInv, FitsInt
<1> QED BY <1>1, <1>2, <1>3, <1>4, <1>5 DEF DataInv

\* Types that depend on no variable but these.
LEMMA SameRun ==
  ASSUME RunChosen, UNCHANGED <<argv, file>>
  PROVE  RunChosen'
BY DEF RunChosen

LEMMA StutterData ==
  ASSUME DataInv, UNCHANGED vars
  PROVE  DataInv'
<1>1. RunInv'
  BY DEF DataInv, vars, RunInv, RunChosen
<1>2. MemoryInv' /\ WordsInv' /\ RegionInv'
  BY DEF DataInv, vars, MemoryInv, Blank, Full, WordsInv, RegionInv
<1>3. FetchedInv'
  BY DEF DataInv, vars, FetchedInv
<1>4. DecodedInv'
  BY DEF DataInv, vars, DecodedInv, Decoded
<1> QED BY <1>1, <1>2, <1>3, <1>4 DEF DataInv

LEMMA ParseArgData ==
  ASSUME DataInv, ParseArg
  PROVE  DataInv'
<1>1. /\ stage = "start" /\ stage' = "start" /\ parsed < Len(argv) /\ parsed' = parsed + 1
      /\ config' = Parse(config, argv[parsed + 1])
      /\ UNCHANGED <<argv, file, memory, pc, registers, fetched, ins, effect, executed, region, shown>>
  BY DEF ParseArg
<1>2. RunInv /\ RunChosen /\ ConfigType(config) /\ parsed \in 0 .. Len(argv)
  BY DEF DataInv, RunInv
<1>3. Len(argv) \in Nat /\ parsed + 1 \in DOMAIN argv /\ argv[parsed + 1] \in Argument
  <2>1. argv \in Seq(Argument)
    BY <1>2, RunFacts
  <2>2. Len(argv) \in Nat /\ DOMAIN argv = 1 .. Len(argv)
    BY <2>1, LenProperties
  <2>3. parsed + 1 \in 1 .. Len(argv)
    BY <1>1, <1>2, <2>2
  <2> QED BY <2>1, <2>2, <2>3, ElementOfSeq
<1>4. ConfigType(config')
  BY <1>1, <1>2, <1>3, RunFacts, ParseType
<1>5. RunInv'
  <2>1. RunChosen'
    BY <1>1, <1>2, SameRun
  <2>2. parsed' \in 0 .. Len(argv')
    BY <1>1, <1>2, <1>3
  <2> QED BY <1>1, <1>2, <1>4, <2>1, <2>2 DEF RunInv
<1>6. MemoryInv'
  BY <1>1 DEF DataInv, MemoryInv, Blank, Loading
<1>7. WordsInv' /\ RegionInv'
  BY <1>1 DEF DataInv, WordsInv, RegionInv
<1>8. FetchedInv' /\ DecodedInv'
  BY <1>1 DEF DataInv, FetchedInv, DecodedInv
<1> QED BY <1>5, <1>6, <1>7, <1>8 DEF DataInv

LEMMA ParsedArgsData ==
  ASSUME DataInv, ParsedArgs
  PROVE  DataInv'
<1>1. /\ stage = "start" /\ stage' \in {"load", "refused"}
      /\ UNCHANGED <<argv, file, parsed, config, memory, pc, registers, fetched, ins, effect,
                     executed, region, shown>>
  BY DEF ParsedArgs
<1>2. RunInv'
  <2>1. RunChosen'
    BY <1>1, SameRun DEF DataInv, RunInv
  <2> QED BY <1>1, <2>1 DEF DataInv, RunInv, Loading
<1>3. MemoryInv' /\ WordsInv' /\ RegionInv'
  BY <1>1 DEF DataInv, MemoryInv, Blank, Loading, WordsInv, RegionInv
<1>4. FetchedInv' /\ DecodedInv'
  BY <1>1 DEF DataInv, FetchedInv, DecodedInv
<1> QED BY <1>2, <1>3, <1>4 DEF DataInv

\* The halt address that a HART is given.
LEMMA ResizedHalt ==
  ASSUME NEW h, h \in [1 .. 8 -> Byte] \/ h \in Words
  PROVE  Resize(h, XLEN) \in Words
<1>1. h \in Seq(Byte)
  BY SeqDef DEF Words
<1>2. 0 \in Byte /\ Len(h) \in Nat /\ \A i \in 1 .. Len(h) : h[i] \in Byte
  BY <1>1, ZeroAndOnes, LenProperties, ElementOfSeq
<1> QED BY <1>2 DEF Resize, Words, XLEN

\* The width that is shown by default is one that memory has.
LEMMA DefaultWidth ==
  ASSUME ConfigType(config)
  PROVE  /\ FitsInt(defaultMemoryWidth) /\ defaultMemoryWidth \in 0 .. config.memorySize
         /\ config.memorySize \in Nat /\ 2 * config.memorySize < ULong /\ FitsInt(0)
BY IntWidths, BoundIsNat DEF ConfigType, MemorySizes, FitsInt, defaultMemoryWidth

LEMMA LoadData ==
  ASSUME DataInv, Load
  PROVE  DataInv'
<1>1. /\ stage = "load" /\ UNCHANGED <<argv, file, parsed, pc, fetched, ins, effect, executed, shown>>
  BY DEF Load
<1>2. RunInv /\ RunChosen /\ ConfigType(config) /\ RunChosen'
  BY <1>1, SameRun DEF DataInv, RunInv
<1>3. WordsInv' /\ FetchedInv' /\ DecodedInv' /\ RunInv' /\ MemoryInv' /\ RegionInv'
  <2>1. CASE LoadFails(file.contents, config.memorySize)
    <3>1. stage' = "terminated" /\ UNCHANGED <<config, memory, registers, region>>
      BY <2>1 DEF Load
    <3>2. WordsInv' /\ MemoryInv' /\ RegionInv'
      BY <1>1, <3>1 DEF DataInv, MemoryInv, Blank, Loading, WordsInv, RegionInv
    <3>3. FetchedInv' /\ DecodedInv'
      BY <1>1, <3>1 DEF DataInv, FetchedInv, DecodedInv
    <3>4. RunInv'
      BY <1>1, <1>2, <3>1 DEF RunInv, Ended
    <3> QED BY <3>2, <3>3, <3>4
  <2>2. CASE ~LoadFails(file.contents, config.memorySize)
    <3>1. /\ stage' = "fetch"
          /\ memory' = LoadedMemory(file.contents, config.memorySize)
          /\ registers' = [r \in 0 .. 31 |-> Zeros(XLEN)]
          /\ config' = [config EXCEPT !.haltAddr = IF @ = <<>> THEN @ ELSE Resize(@, XLEN)]
          /\ region' = [region EXCEPT !.count = defaultMemoryWidth]
      BY <2>2 DEF Load
    <3>2. /\ config.memorySize \in Nat
          /\ memory' \in [0 .. config.memorySize - 1 -> Byte] /\ config.memorySize # 0
      <4>1. config.memorySize \in Nat /\ file.contents \in Seq(Cell)
        BY <1>2, DefaultWidth, RunFacts, CellIsByte
      <4>2. /\ memory' \in Memories(config.memorySize)
            /\ Len(file.contents) < config.memorySize /\ Len(file.contents) \in Nat
        BY <2>2, <3>1, <4>1, BinaryIsLoaded, LenProperties
      <4> QED BY <4>1, <4>2, CellIsByte DEF Memories
    <3>3. ConfigType(config') /\ config'.memorySize = config.memorySize
      <4>1. config.haltAddr # <<>> => Resize(config.haltAddr, XLEN) \in Words
        BY <1>2, ResizedHalt DEF ConfigType
      <4> QED BY <1>2, <3>1, <4>1 DEF ConfigType
    <3>4. registers' \in [0 .. 31 -> Words]
      BY <3>1, ZerosAre
    <3>5. MemoryInv'
      BY <3>1, <3>2, <3>3, <3>4 DEF MemoryInv, Full, Loading
    <3>6. RunInv'
      BY <1>1, <1>2, <3>1, <3>3 DEF RunInv, Running
    <3>7. RegionInv'
      BY <1>1, <1>2, <3>1, DefaultWidth DEF DataInv, RegionInv
    <3>8. WordsInv' /\ FetchedInv' /\ DecodedInv'
      BY <1>1, <3>1 DEF DataInv, WordsInv, FetchedInv, DecodedInv
    <3> QED BY <3>5, <3>6, <3>7, <3>8
  <2> QED BY <2>1, <2>2
<1> QED BY <1>3 DEF DataInv

\* The fetch of a word that is in memory.
LEMMA FetchCases ==
  ASSUME Fetch
  PROVE  /\ stage = "fetch" /\ executed < MaxInstructions
         /\ UNCHANGED <<argv, file, parsed, config, memory, pc, registers, ins, effect, executed, region, shown>>
         /\ \/ stage' \in {"halted", "exception"} /\ UNCHANGED fetched
            \/ /\ stage' = "decode" /\ fetched' = Read(memory, getBytesToULong(pc), 4)
               /\ ~OutOfMemory(config.memorySize, getBytesToULong(pc), 4)
BY Zenon DEF Fetch

LEMMA FetchData ==
  ASSUME DataInv, Fetch
  PROVE  DataInv'
<1>1. /\ stage = "fetch" /\ executed < MaxInstructions
      /\ UNCHANGED <<argv, file, parsed, config, memory, pc, registers, ins, effect, executed, region, shown>>
  BY FetchCases
<1>2. RunInv /\ RunChosen' /\ ConfigType(config)
  BY <1>1, SameRun DEF DataInv, RunInv
<1>3. Full
  BY <1>1 DEF DataInv, MemoryInv, Loading
<1>4. CASE stage' \in {"halted", "exception"} /\ UNCHANGED fetched
  <2>1. RunInv'
    BY <1>1, <1>2, <1>4 DEF RunInv, Ended
  <2>2. MemoryInv' /\ WordsInv' /\ RegionInv'
    BY <1>1, <1>3, <1>4 DEF DataInv, MemoryInv, Full, Loading, WordsInv, RegionInv
  <2>3. FetchedInv' /\ DecodedInv'
    BY <1>1, <1>4 DEF DataInv, FetchedInv, DecodedInv
  <2> QED BY <2>1, <2>2, <2>3 DEF DataInv
<1>5. CASE /\ stage' = "decode" /\ fetched' = Read(memory, getBytesToULong(pc), 4)
           /\ ~OutOfMemory(config.memorySize, getBytesToULong(pc), 4)
  <2>1. RunInv'
    BY <1>1, <1>2, <1>5 DEF RunInv, Running
  <2>2. MemoryInv' /\ WordsInv' /\ RegionInv'
    BY <1>1, <1>3, <1>5 DEF DataInv, MemoryInv, Full, Loading, WordsInv, RegionInv
  <2>3. DecodedInv'
    BY <1>1, <1>5 DEF DataInv, DecodedInv
  <2>4. /\ config.memorySize \in Nat /\ config.memorySize <= ULongBound
        /\ getBytesToULong(pc) \in Nat /\ pc \in Words
    BY <1>2, DefaultWidth, ULongOfWord, BoundIsNat DEF DataInv, WordsInv, ConfigType, MemorySizes
  <2>5. getBytesToULong(pc) + 4 < config.memorySize
    BY <1>5, <2>4 DEF OutOfMemory
  <2>6. pc[4] = 0
    BY <2>4, <2>5, ULongOfWord, BoundIsNat
  <2>7. fetched' \in Words
    <3>1. Read(memory, getBytesToULong(pc), 4) \in [1 .. 4 -> Byte]
      BY <1>3, <1>5, <2>4, AccessRead DEF Full
    <3> QED BY <1>5, <3>1 DEF Words
  <2>8. FetchedInv'
    BY <1>1, <1>5, <2>5, <2>6, <2>7 DEF FetchedInv
  <2> QED BY <2>1, <2>2, <2>3, <2>8 DEF DataInv
<1> QED BY <1>4, <1>5, FetchCases

\* The first byte of an immediate.
LEMMA ImmediateByte ==
  ASSUME NEW w \in Words
  PROVE  /\ DecodeI(w)[1] \in Byte /\ DecodeS(w)[1] \in Byte /\ DecodeB(w)[1] \in Byte
         /\ DecodeU(w)[1] \in Byte /\ DecodeJ(w)[1] \in Byte /\ Zeros(4)[1] \in Byte
<1>1. DecodeI(w)[1] \in Byte
  <2>1. PICK p, q : DecodeI(w) = <<p, q>> /\ BytesI(w, p, q)
    BY BytesOfI
  <2> QED BY <2>1 DEF BytesI
<1>2. DecodeS(w)[1] \in Byte
  <2>1. PICK p, q : DecodeS(w) = <<p, q>> /\ BytesS(w, p, q)
    BY BytesOfS
  <2> QED BY <2>1 DEF BytesS
<1>3. DecodeB(w)[1] \in Byte
  <2>1. PICK p, q : DecodeB(w) = <<p, q>> /\ BytesB(w, p, q)
    BY BytesOfB
  <2> QED BY <2>1 DEF BytesB
<1>4. DecodeJ(w)[1] \in Byte
  <2>1. PICK p, q, r : DecodeJ(w) = <<p, q, r>> /\ BytesJ(w, p, q, r)
    BY BytesOfJ
  <2> QED BY <2>1 DEF BytesJ
<1>5. DecodeU(w)[1] \in Byte
  BY ExtendedImmediates, BytesOfWord
<1>6. Zeros(4)[1] \in Byte
  BY ZerosAre, BytesOfWord DEF XLEN
<1> QED BY <1>1, <1>2, <1>3, <1>4, <1>5, <1>6

LEMMA ImmediateCases ==
  ASSUME NEW w
  PROVE  /\ Immediate("R", w) = Zeros(4) /\ Immediate("I", w) = DecodeI(w)
         /\ Immediate("S", w) = DecodeS(w) /\ Immediate("B", w) = DecodeB(w)
         /\ Immediate("U", w) = DecodeU(w) /\ Immediate("J", w) = DecodeJ(w)
<1>1. Immediate("R", w) = Zeros(4)
  BY Zenon DEF Immediate
<1>2. Immediate("I", w) = DecodeI(w)
  BY Zenon DEF Immediate
<1>3. Immediate("S", w) = DecodeS(w)
  BY Zenon DEF Immediate
<1>4. Immediate("B", w) = DecodeB(w)
  BY Zenon DEF Immediate
<1>5. Immediate("U", w) = DecodeU(w)
  BY Zenon DEF Immediate
<1>6. Immediate("J", w) = DecodeJ(w)
  BY Zenon DEF Immediate
<1> QED BY <1>1, <1>2, <1>3, <1>4, <1>5, <1>6

\* The format of each opcode.
LEMMA OpcodeFormats ==
  ASSUME NEW e, NEW o \in DOMAIN Opcodes(e)
  PROVE  /\ o \in BaseOpcodes \/ (o = 127 /\ T_EXTENSION \in e)
         /\ Opcodes(e)[o] \in Types
         /\ o \in {55, 23} => Opcodes(e)[o] = "U"
         /\ o = 111 => Opcodes(e)[o] = "J"
         /\ o = 99 => Opcodes(e)[o] = "B"
         /\ o = 35 => Opcodes(e)[o] = "S"
         /\ o = 51 => Opcodes(e)[o] = "R"
         /\ o \in {103, 3, 19, 15, 115, 127} => Opcodes(e)[o] = "I"
<1>1. DOMAIN Opcodes(e) = BaseOpcodes \cup (IF T_EXTENSION \in e THEN {127} ELSE {})
  BY DEF Opcodes
<1>2. Opcodes(e)[o] = CASE o \in {55, 23} -> "U" [] o = 111 -> "J" [] o = 99 -> "B"
       [] o = 35 -> "S"         [] o = 51 -> "R"  [] OTHER -> "I"
  BY <1>1, Zenon DEF Opcodes
<1>3. o \in BaseOpcodes \/ (o = 127 /\ T_EXTENSION \in e)
  BY <1>1
<1> QED BY SMT, <1>2, <1>3 DEF BaseOpcodes, Types

\* A decoded instruction can be executed.
LEMMA DecodedExecutable ==
  ASSUME NEW e, NEW w \in Words, Field(w, 0, 6) \in DOMAIN Opcodes(e),
         NEW p \in Words, p[4] = 0, NEW a \in Words, NEW b \in Words,
         NEW i, Fields(i, Opcodes(e)[Field(w, 0, 6)], w, p, a, b)
  PROVE  Executable(i)
<1> DEFINE o == Field(w, 0, 6)
           t == Opcodes(e)[o]
<1>1. /\ i.pc = p /\ i.rs1Val = a /\ i.rs2Val = b /\ i.opcode = o /\ i.func3 = Field(w, 12, 14)
      /\ i.imm = Immediate(t, w)
  BY DEF Fields
<1>2. o \in BaseOpcodes \cup {127} /\ t \in Types /\ (o \in {55, 23} => t = "U")
  BY OpcodeFormats
<1> HIDE DEF o, t
<1>3. Vector(Zeros(4))
  BY ZerosAre, WordsAreVectors DEF XLEN
<1>4. Vector(Immediate(t, w)) /\ Immediate(t, w)[1] \in Byte
  BY <1>2, <1>3, ImmediateByte, ImmediateCases, ExtendedImmediates DEF Types
<1>5. t = "U" => Immediate(t, w) \in Words
  BY ImmediateCases, ExtendedImmediates
<1>6. i.func3 \in 0 .. 7
  BY <1>1, FieldRanges
<1> QED BY <1>1, <1>2, <1>4, <1>5, <1>6 DEF Executable

LEMMA InstructionExecutable ==
  ASSUME DataInv, stage \in {"execute", "memoryAccess", "writeback"}
  PROVE  Executable(ins) /\ Decoded /\ Full
<1>1. fetched \in Words /\ pc \in Words /\ pc[4] = 0 /\ Decoded
  BY DEF DataInv, FetchedInv, WordsInv, DecodedInv
<1>2. Full
  BY DEF DataInv, MemoryInv, Loading
<1>3. registers[Field(fetched, 15, 19)] \in Words /\ registers[Field(fetched, 20, 24)] \in Words
  BY <1>1, <1>2, FieldRanges DEF Full
<1> QED BY <1>1, <1>2, <1>3, DecodedExecutable DEF Decoded

LEMMA DecodeData ==
  ASSUME DataInv, Decode
  PROVE  DataInv'
<1>1. /\ stage = "decode" /\ stage' \in {"exception", "execute"}
      /\ UNCHANGED <<argv, file, parsed, config, memory, pc, registers, fetched, effect, executed, region, shown>>
  BY DEF Decode
<1>2. RunInv'
  <2>1. RunChosen'
    BY <1>1, SameRun DEF DataInv, RunInv
  <2> QED BY <1>1, <2>1 DEF DataInv, RunInv, Running, Ended
<1>3. MemoryInv' /\ WordsInv' /\ RegionInv'
  BY <1>1 DEF DataInv, MemoryInv, Full, Loading, WordsInv, RegionInv
<1>4. FetchedInv'
  BY <1>1 DEF DataInv, FetchedInv
<1>5. DecodedInv'
  <2>1. fetched \in Words /\ fetched[1] & 127 = Field(fetched, 0, 6)
    BY <1>1, OpcodeMasked DEF DataInv, FetchedInv
  <2>2. CASE fetched[1] & 127 \notin DOMAIN Opcodes(config.extensionSet)
    <3>1. stage' = "exception" /\ UNCHANGED ins
      BY <2>2 DEF Decode
    <3> QED BY <3>1 DEF DataInv, DecodedInv
  <2>3. CASE fetched[1] & 127 \in DOMAIN Opcodes(config.extensionSet)
    <3> DEFINE t == Opcodes(config.extensionSet)[Field(fetched, 0, 6)]
    <3>1. stage' = "execute" /\ ins' = WithOperands(decode(t, fetched))
      BY <2>1, <2>3 DEF Decode
    <3>2. t \in Types
      BY <2>1, <2>3, OpcodeFormats
    <3>3. Fields(ins', t, fetched, pc, registers[Field(fetched, 15, 19)],
                 registers[Field(fetched, 20, 24)])
      BY <3>1, DecodedFields
    <3>4. ins'.type = t
      BY <3>3 DEF Fields
    <3>5. Decoded'
      BY <1>1, <2>1, <2>3, <3>3 DEF Decoded
    <3> QED BY <3>1, <3>2, <3>4, <3>5 DEF DecodedInv
  <2> QED BY <2>2, <2>3
<1> QED BY <1>2, <1>3, <1>4, <1>5 DEF DataInv

LEMMA ExecuteData ==
  ASSUME DataInv, Execute
  PROVE  DataInv'
<1>1. /\ stage = "execute" /\ effect' = execute(ins, config.memorySize)
      /\ stage' = CASE effect'.fault = "none" -> "memoryAccess"
                    [] effect'.fault = "pointer" -> "terminated"
                    [] OTHER -> "exception"
      /\ UNCHANGED <<argv, file, parsed, config, memory, pc, registers, fetched, ins, executed, region, shown>>
  BY DEF Execute
<1>2. stage' \in {"memoryAccess", "terminated", "exception"}
      /\ (stage' = "memoryAccess" => effect'.fault = "none")
  BY <1>1
<1>3. RunInv'
  <2>1. RunChosen'
    BY <1>1, SameRun DEF DataInv, RunInv
  <2> QED BY <1>1, <1>2, <2>1 DEF DataInv, RunInv, Running, Ended
<1>4. Full
  BY <1>1 DEF DataInv, MemoryInv, Loading
<1>5. MemoryInv' /\ RegionInv'
  BY <1>1, <1>2, <1>4 DEF DataInv, MemoryInv, Full, Loading, RegionInv
<1>6. WordsInv'
  BY <1>1, InstructionExecutable, ExecuteType DEF DataInv, WordsInv
<1>7. FetchedInv'
  BY <1>1, <1>2 DEF DataInv, FetchedInv
<1>8. DecodedInv'
  BY <1>1, <1>2 DEF DataInv, DecodedInv, Decoded
<1> QED BY <1>3, <1>5, <1>6, <1>7, <1>8 DEF DataInv

LEMMA MemoryAccessData ==
  ASSUME DataInv, MemoryAccess
  PROVE  DataInv'
<1>1. /\ stage = "memoryAccess" /\ stage' \in {"exception", "writeback"}
      /\ UNCHANGED <<argv, file, parsed, config, pc, registers, fetched, ins, executed, region, shown>>
  BY DEF MemoryAccess
<1>2. RunInv'
  <2>1. RunChosen'
    BY <1>1, SameRun DEF DataInv, RunInv
  <2> QED BY <1>1, <2>1 DEF DataInv, RunInv, Running, Ended
<1>3. /\ Full /\ Executable(ins) /\ Effect(effect) /\ config.memorySize \in Nat
      /\ effect.result \in Words /\ ins.rs2Val \in Words
  BY <1>1, InstructionExecutable, DefaultWidth DEF DataInv, WordsInv, RunInv, Effect, Executable
<1>4. MemoryInv' /\ WordsInv'
  <2>1. CASE memFault(ins, effect.result, config.memorySize) # "none"
    <3>1. UNCHANGED <<memory, effect>>
      BY <2>1 DEF MemoryAccess
    <3> QED BY <1>1, <1>3, <3>1 DEF DataInv, MemoryInv, Full, Loading, WordsInv
  <2>2. CASE memFault(ins, effect.result, config.memorySize) = "none"
    <3>1. /\ effect' = IF ins.opcode = 3
                         THEN [effect EXCEPT !.result = memLoad(ins, @, memory)]
                         ELSE effect
          /\ memory' = IF ins.opcode = 35 THEN memStore(ins, effect.result, memory)
                                          ELSE memory
      BY <2>2 DEF MemoryAccess
    <3>2. ins.opcode = 3 => memLoad(ins, effect.result, memory) \in Words
      BY <1>3, <2>2, LoadType DEF Full
    <3>3. Effect(effect')
      BY <1>3, <3>1, <3>2 DEF Effect
    <3>4. memStore(ins, effect.result, memory) \in [0 .. config.memorySize - 1 -> Byte]
      BY <1>3, StoreType DEF Full
    <3>5. memory' \in [0 .. config.memorySize - 1 -> Byte]
      BY <1>3, <3>1, <3>4 DEF Full
    <3> QED BY <1>1, <1>3, <3>3, <3>5 DEF DataInv, MemoryInv, Full, Loading, WordsInv
  <2> QED BY <2>1, <2>2
<1>5. FetchedInv'
  BY <1>1 DEF DataInv, FetchedInv
<1>6. DecodedInv'
  BY <1>1 DEF DataInv, DecodedInv, Decoded
<1>7. RegionInv'
  BY <1>1 DEF DataInv, RegionInv
<1> QED BY <1>2, <1>4, <1>5, <1>6, <1>7 DEF DataInv

LEMMA WrittenType ==
  ASSUME registers \in [0 .. 31 -> Words], effect.result \in Words
  PROVE  Written \in [0 .. 31 -> Words]
BY DEF Written

LEMMA WritebackData ==
  ASSUME DataInv, Writeback
  PROVE  DataInv'
<1>1. /\ stage = "writeback" /\ stage' = "fetch" /\ registers' = Written /\ pc' = effect.next
      /\ executed' = executed + 1
      /\ UNCHANGED <<argv, file, parsed, config, memory, fetched, ins, effect, region, shown>>
  BY DEF Writeback
<1>2. RunInv'
  <2>1. RunChosen'
    BY <1>1, SameRun DEF DataInv, RunInv
  <2>2. executed' \in 0 .. MaxInstructions
    <3>1. PICK m \in Nat : m = MaxInstructions
      BY DatapathAssumption
    <3>2. executed \in 0 .. m /\ executed < m
      BY <1>1, <3>1 DEF DataInv, FetchedInv, RunInv
    <3> QED BY <1>1, <3>1, <3>2
  <2> QED BY <1>1, <2>1, <2>2 DEF DataInv, RunInv, Running
<1>3. Full /\ effect.result \in Words /\ effect.next \in Words
  BY <1>1 DEF DataInv, MemoryInv, Loading, WordsInv, Effect
<1>4. Written \in [0 .. 31 -> Words]
  BY <1>3, WrittenType DEF Full
<1>5. MemoryInv' /\ WordsInv' /\ RegionInv'
  BY <1>1, <1>3, <1>4 DEF DataInv, MemoryInv, Full, Loading, WordsInv, RegionInv
<1>6. FetchedInv' /\ DecodedInv'
  BY <1>1 DEF DataInv, FetchedInv, DecodedInv
<1> QED BY <1>2, <1>5, <1>6 DEF DataInv

LEMMA Division ==
  ASSUME NEW a \in Int, NEW b \in Nat \ {0}, NEW q \in Int, NEW r \in 0 .. b - 1, a = b * q + r
  PROVE  a \div b = q /\ a % b = r
OBVIOUS

\* What a signed number becomes as an unsigned one of at least its width.
LEMMA Unsigned ==
  ASSUME NEW n \in Int, NEW u \in Nat \ {0}, 2 * n < u, -(2 * n) <= u
  PROVE  n % u = IF n >= 0 THEN n ELSE n + u
<1>1. CASE n >= 0
  BY <1>1
<1>2. CASE n < 0
  <2>1. n + u \in 0 .. u - 1 /\ n = (n + u) - u
    BY <1>2
  <2>2. n % u = n + u
    BY <2>1
  <2> QED BY <1>2, <2>2
<1> QED BY <1>1, <1>2

LEMMA IntAsULong ==
  ASSUME NEW n, FitsInt(n)
  PROVE  n % ULong = IF n >= 0 THEN n ELSE n + ULong
<1>1. PICK u \in Nat \ {0} : u = ULong
  BY MemoryAssumption
<1>2. n \in Int /\ 2 * n < u /\ -(2 * n) <= u
  BY <1>1, IntWidths DEF FitsInt
<1> QED BY <1>1, <1>2, Unsigned

\* The int that main.cpp keeps is the number that the property names.
LEMMA IntOfNumber ==
  ASSUME NEW n \in Int
  PROVE  FitsInt(AsInt(n)) /\ AsInt(n) = Truncated(n)
<1>1. PICK u \in Nat \ {0} : u = UInt
  BY IntWidths
<1>2. PICK q \in Int, r \in 0 .. u - 1 : n = u * q + r
  <2>1. n = u * (n \div u) + (n % u) /\ n \div u \in Int /\ n % u \in 0 .. u - 1
    BY <1>1
  <2> QED BY <2>1
<1>3. n % u = r
  BY <1>2, Division
<1>4. AsInt(n) = IF 2 * r < u THEN r ELSE r - u
  BY <1>1, <1>3 DEF AsInt
<1>5. Truncated(n) = n - u * ((2 * n + u) \div (2 * u))
  BY <1>1 DEF Truncated
<1>6. FitsInt(AsInt(n))
  BY <1>1, <1>4 DEF FitsInt
<1>7. CASE 2 * r < u
  <2>1. 2 * n + u = (2 * u) * q + (2 * r + u) /\ 2 * r + u \in 0 .. (2 * u) - 1
    BY <1>2, <1>7
  <2>2. (2 * n + u) \div (2 * u) = q
    BY <2>1, Division
  <2> QED BY <1>2, <1>4, <1>5, <1>6, <1>7, <2>2
<1>8. CASE ~(2 * r < u)
  <2>1. 2 * n + u = (2 * u) * (q + 1) + (2 * r - u) /\ 2 * r - u \in 0 .. (2 * u) - 1
    BY <1>2, <1>8
  <2>2. (2 * n + u) \div (2 * u) = q + 1
    BY <2>1, Division
  <2> QED BY <1>2, <1>4, <1>5, <1>6, <1>8, <2>2
<1> QED BY <1>7, <1>8

LEMMA ULongSum ==
  ASSUME NEW m \in Nat, m < 2 * ULong
  PROVE  m % ULong = IF m < ULong THEN m ELSE m - ULong
<1>1. PICK u \in Nat \ {0} : u = ULong
  BY MemoryAssumption
<1>2. CASE m < u
  BY <1>1, <1>2
<1>3. CASE m >= u
  <2>1. m - u \in 0 .. u - 1
    BY <1>1, <1>3
  <2>2. m % u = m - u
    BY <1>3, <2>1
  <2> QED BY <1>1, <1>3, <2>2
<1> QED BY <1>1, <1>2, <1>3

\* getRegion throws exactly for the regions that do not lie in memory, or that a
\* negative width does not lead back into it.
LEMMA RefusedIfMissing ==
  ASSUME NEW size \in Nat, 2 * size < ULong, NEW start, NEW count, FitsInt(start), FitsInt(count)
  PROVE  RegionRefused(size, start, count) <=> ~(start \in 0 .. size /\ start + count \in 0 .. size)
<1>1. PICK u \in Nat \ {0} : u = ULong
  BY MemoryAssumption
<1>2. /\ start \in Int /\ 2 * start < u /\ -(2 * start) <= u
      /\ count \in Int /\ 2 * count < u /\ -(2 * count) <= u /\ 2 * size < u
  BY <1>1, IntWidths DEF FitsInt
<1>3. PICK s \in Nat : s = start % ULong
  BY <1>1, <1>2, IntAsULong
<1>4. PICK c \in Nat : c = count % ULong
  BY <1>1, <1>2, IntAsULong
<1>5. s = (IF start >= 0 THEN start ELSE start + u) /\ c = (IF count >= 0 THEN count ELSE count + u)
  BY <1>1, <1>3, <1>4, IntAsULong
<1>6. s < u /\ c < u /\ s + c \in Nat /\ s + c < 2 * u
  BY <1>2, <1>5
<1>7. PICK t \in Nat : t = (s + c) % ULong
  BY <1>1, <1>6, ULongSum
<1>8. t = IF s + c < u THEN s + c ELSE s + c - u
  BY <1>1, <1>6, <1>7, ULongSum
<1>9. RegionRefused(size, start, count) <=> (s > size \/ t > size)
  BY <1>3, <1>4, <1>7 DEF RegionRefused
<1>10. CASE start < 0
  <2>1. s > size
    BY <1>2, <1>5, <1>10
  <2> QED BY <1>2, <1>9, <1>10, <2>1
<1>11. CASE start >= 0 /\ start > size
  BY <1>2, <1>5, <1>9, <1>11
<1>12. CASE start >= 0 /\ start <= size
  <2>1. s = start
    BY <1>5, <1>12
  <2>2. CASE count >= 0
    <3>1. t = start + count
      BY <1>2, <1>5, <1>8, <1>12, <2>1, <2>2
    <3> QED BY <1>2, <1>9, <1>12, <2>1, <2>2, <3>1
  <2>3. CASE count < 0
    <3>1. CASE start + count >= 0
      <4>1. t = start + count
        BY <1>2, <1>5, <1>8, <1>12, <2>1, <2>3, <3>1
      <4> QED BY <1>2, <1>9, <1>12, <2>1, <2>3, <3>1, <4>1
    <3>2. CASE start + count < 0
      <4>1. t = start + count + u
        BY <1>2, <1>5, <1>8, <1>12, <2>1, <2>3, <3>2
      <4>2. t > size
        BY <1>2, <1>12, <2>3, <4>1
      <4> QED BY <1>2, <1>9, <3>2, <4>2
    <3> QED BY <1>2, <3>1, <3>2
  <2> QED BY <1>2, <2>2, <2>3
<1> QED BY <1>2, <1>10, <1>11, <1>12

\* What main keeps of the region and the HART.
IntRegion(r) ==
  /\ r = [start |-> r.start, count |-> r.count, hart |-> r.hart]
  /\ FitsInt(r.start) /\ FitsInt(r.count) /\ FitsInt(r.hart)

LEMMA CorrectedRegion ==
  ASSUME ConfigType(config), NEW asked, IntRegion(asked)
  PROVE  /\ IntRegion(Corrected(asked)) /\ Exists(Corrected(asked))
         /\ Corrected(asked).start = IF Exists(asked) THEN asked.start ELSE 0
         /\ Corrected(asked).count = IF Exists(asked) THEN asked.count ELSE defaultMemoryWidth
<1>1. /\ config.memorySize \in Nat /\ 2 * config.memorySize < ULong
      /\ defaultMemoryWidth \in 0 .. config.memorySize /\ FitsInt(defaultMemoryWidth) /\ FitsInt(0)
  BY DefaultWidth
<1>2. RegionRefused(config.memorySize, asked.start, asked.count) <=> ~Exists(asked)
  BY <1>1, RefusedIfMissing DEF Exists, IntRegion
<1> DEFINE hart == IF asked.hart % UInt > config.numberOfHardwareThreads - 1 THEN 0 ELSE asked.hart
<1>3. FitsInt(hart)
  BY <1>1 DEF IntRegion
<1>4. CASE ~Exists(asked)
  <2>1. Corrected(asked) = [start |-> 0, count |-> defaultMemoryWidth, hart |-> hart]
    BY <1>2, <1>4 DEF Corrected
  <2> HIDE DEF hart
  <2> QED BY <1>1, <1>3, <1>4, <2>1 DEF IntRegion, Exists
<1>5. CASE Exists(asked)
  <2>1. Corrected(asked) = [asked EXCEPT !.hart = hart]
    BY <1>2, <1>5 DEF Corrected
  <2> HIDE DEF hart
  <2> QED BY <1>1, <1>3, <1>5, <2>1 DEF IntRegion, Exists
<1> QED BY <1>4, <1>5

LEMMA ShownBytes ==
  ASSUME ConfigType(config), Full, NEW r, IntRegion(r), Exists(r)
  PROVE  /\ \A i \in DOMAIN getRegion(memory, r.start, r.count) :
              getRegion(memory, r.start, r.count)[i] \in Byte
         /\ DOMAIN getRegion(memory, r.start, r.count) = 1 .. (IF r.count > 0 THEN r.count ELSE 0)
<1>1. config.memorySize \in Nat
  BY DefaultWidth
<1>2. PICK start \in Int, count \in Int : start = r.start /\ count = r.count
  BY DEF IntRegion, FitsInt
<1>3. start \in 0 .. config.memorySize /\ start + count \in 0 .. config.memorySize
  BY <1>2 DEF Exists
<1>4. ASSUME NEW i \in 1 .. (IF count > 0 THEN count ELSE 0)
      PROVE  memory[start + i - 1] \in Byte
  <2>1. start + i - 1 \in 0 .. config.memorySize - 1
    BY <1>1, <1>3
  <2> QED BY <2>1 DEF Full
<1> QED BY <1>2, <1>4 DEF getRegion

\* A region of ints with another int in it is one.
LEMMA OtherRegion ==
  ASSUME IntRegion(region), NEW n, FitsInt(n), NEW field \in {"start", "count", "hart"}
  PROVE  IntRegion([region EXCEPT ![field] = n])
<1>1. PICK s, t, u : region = [start |-> s, count |-> t, hart |-> u]
                       /\ FitsInt(s) /\ FitsInt(t) /\ FitsInt(u)
  BY DEF IntRegion
<1>2. [region EXCEPT ![field] = n] \in {[start |-> n, count |-> t, hart |-> u],
        [start |-> s, count |-> n, hart |-> u], [start |-> s, count |-> t, hart |-> n]}
  BY <1>1
<1>3. /\ IntRegion([start |-> n, count |-> t, hart |-> u])
      /\ IntRegion([start |-> s, count |-> n, hart |-> u])
      /\ IntRegion([start |-> s, count |-> t, hart |-> n])
  BY <1>1 DEF IntRegion
<1> QED BY <1>2, <1>3

\* A command sets a region of ints, which main corrects.
LEMMA CommandAsks ==
  ASSUME DataInv, Command
  PROVE  \E asked \in Asks : /\ IntRegion(asked) /\ region' = Corrected(asked)
                             /\ shown' = getRegion(memory, region'.start, region'.count)
<1>1. IntRegion(region)
  BY DEF DataInv, RegionInv, IntRegion
<1>2. \/ Render(region)
      \/ \E n \in Numbers, field \in {"start", "count", "hart"} :
           Render([region EXCEPT ![field] = AsInt(n)])
  BY DEF Command
<1>3. CASE Render(region)
  BY <1>1, <1>3 DEF Render, Asks
<1>4. ASSUME NEW n \in Numbers, NEW field \in {"start", "count", "hart"},
             Render([region EXCEPT ![field] = AsInt(n)])
      PROVE  \E asked \in Asks : /\ IntRegion(asked) /\ region' = Corrected(asked)
                                /\ shown' = getRegion(memory, region'.start, region'.count)
  <2>1. FitsInt(AsInt(n)) /\ AsInt(n) = Truncated(n)
    BY IntWidths, IntOfNumber
  <2>2. PICK asked : asked = [region EXCEPT ![field] = AsInt(n)]
    OBVIOUS
  <2>3. IntRegion(asked)
    BY <1>1, <2>1, <2>2, OtherRegion
  <2>4. asked = [region EXCEPT ![field] = Truncated(n)]
    BY <2>1, <2>2
  <2>5. /\ region' = Corrected(asked)
        /\ shown' = getRegion(memory, region'.start, region'.count)
    BY <1>4, <2>2 DEF Render
  <2>6. asked \in Asks
    <3> DEFINE With(m, other) == [region EXCEPT ![other] = Truncated(m)]
               others == {With(m, other) : m \in Numbers, other \in {"start", "count", "hart"}}
    <3>1. asked = With(n, field)
      BY <2>4
    <3> HIDE DEF With
    <3>2. asked \in others
      BY <3>1
    <3>3. Asks = {region} \cup others
      BY DEF Asks, With
    <3> HIDE DEF others
    <3> QED BY <3>2, <3>3
  <2> QED BY <2>3, <2>5, <2>6
<1> QED BY <1>2, <1>3, <1>4

LEMMA CommandData ==
  ASSUME DataInv, Command
  PROVE  DataInv'
<1>1. /\ stage = "fetch" /\ executed = 0
      /\ UNCHANGED <<argv, file, parsed, config, memory, pc, registers, stage, fetched, ins, effect, executed>>
  BY DEF Command
<1>2. RunInv'
  <2>1. RunChosen'
    BY <1>1, SameRun DEF DataInv, RunInv
  <2> QED BY <1>1, <2>1 DEF DataInv, RunInv
<1>3. Full /\ ConfigType(config)
  BY <1>1 DEF DataInv, MemoryInv, Loading, RunInv
<1>4. MemoryInv' /\ WordsInv'
  BY <1>1, <1>3 DEF DataInv, MemoryInv, Full, Loading, WordsInv
<1>5. FetchedInv' /\ DecodedInv'
  BY <1>1 DEF DataInv, FetchedInv, DecodedInv
<1>6. PICK asked : /\ IntRegion(asked) /\ region' = Corrected(asked)
                   /\ shown' = getRegion(memory, region'.start, region'.count)
  BY CommandAsks
<1>7. IntRegion(region') /\ Exists(region')
  BY <1>3, <1>6, CorrectedRegion
<1>8. \A i \in DOMAIN shown' : shown'[i] \in Byte
  BY <1>3, <1>6, <1>7, ShownBytes
<1>9. RegionInv'
  BY <1>7, <1>8 DEF RegionInv, IntRegion
<1> QED BY <1>2, <1>4, <1>5, <1>9 DEF DataInv

\* The fields of a run keep their types.
THEOREM DataIsTyped == Spec => []DataInv
<1>1. Init => DataInv
  BY InitData
<1>2. DataInv /\ [Next]_vars => DataInv'
  BY StutterData, ParseArgData, ParsedArgsData, LoadData, FetchData, DecodeData, ExecuteData,
     MemoryAccessData, WritebackData, CommandData DEF Next
<1> QED BY <1>1, <1>2, PTL DEF Spec

\* The registers, the PC and the results have four bytes at every step of every
\* run, and every cell of memory has one, in the size it was given.
THEOREM TypesKept == Spec => []TypeOK
<1>1. DataInv => TypeOK
  <2> SUFFICES ASSUME DataInv PROVE TypeOK
    OBVIOUS
  <2>1. /\ stage \in Loading \cup Running \cup Ended /\ executed \in 0 .. MaxInstructions
        /\ (ins = NoInstruction \/ ins.type \in Types) /\ \A i \in DOMAIN shown : shown[i] \in Byte
    BY DEF DataInv, RunInv, DecodedInv, RegionInv
  <2>2. IsBytes(pc, XLEN) /\ IsBytes(effect.result, XLEN) /\ IsBytes(effect.next, XLEN)
    <3>1. \A v \in Words : IsBytes(v, XLEN)
      BY WordsAreBytes
    <3> QED BY <3>1 DEF DataInv, WordsInv, Effect
  <2>3. registers = <<>> \/ \A r \in 0 .. 31 : IsBytes(registers[r], XLEN)
    <3>1. registers = <<>> \/ registers \in [0 .. 31 -> Words]
      BY DEF DataInv, MemoryInv, Blank, Full
    <3>2. \A v \in Words : IsBytes(v, XLEN)
      BY WordsAreBytes
    <3> QED BY <3>1, <3>2
  <2>4. memory = <<>> \/ memory \in [0 .. config.memorySize - 1 -> Byte]
    BY DEF DataInv, MemoryInv, Blank, Full
  <2> QED BY <2>1, <2>2, <2>3, <2>4 DEF TypeOK, Loading, Running, Ended
<1> QED BY <1>1, DataIsTyped, PTL

-----------------------------------------------------------------------------
(* Decoding.                                                               *)

LEMMA DecodedWord ==
  ASSUME DataInv, stage = "execute"
  PROVE  /\ fetched \in Words /\ ins.type \in Types
         /\ Fields(ins, ins.type, fetched, pc, registers[Field(fetched, 15, 19)],
                   registers[Field(fetched, 20, 24)])
<1>1. fetched \in Words /\ Decoded
  BY DEF DataInv, FetchedInv, DecodedInv
<1> DEFINE o == Field(fetched, 0, 6)
           t == Opcodes(config.extensionSet)[o]
<1>2. t \in Types
  BY <1>1, OpcodeFormats DEF Decoded
<1>3. Fields(ins, t, fetched, pc, registers[Field(fetched, 15, 19)], registers[Field(fetched, 20, 24)])
  BY <1>1 DEF Decoded
<1>4. ins.type = t
  BY <1>3 DEF Fields
<1> QED BY <1>1, <1>2, <1>3, <1>4

\* Every field and every bit of the immediate of an instruction are those of the
\* word, of a store all but the sign (instructions/*Type.cpp decode).
THEOREM WordsDecoded == Spec => []DecodesWord
<1>1. DataInv => DecodesWord
  <2> SUFFICES ASSUME DataInv, stage = "execute" PROVE DecodesWord
    BY DEF DecodesWord
  <2> DEFINE w == fetched
             t == ins.type
  <2>1. /\ w \in Words /\ t \in Types
        /\ Fields(ins, t, w, pc, registers[Field(w, 15, 19)], registers[Field(w, 20, 24)])
    BY DecodedWord
  <2>2. /\ ins.opcode = Field(w, 0, 6) /\ ins.rd = Field(w, 7, 11) /\ ins.func3 = Field(w, 12, 14)
        /\ ins.rs1 = Field(w, 15, 19) /\ ins.rs2 = Field(w, 20, 24) /\ ins.func7 = Field(w, 25, 31)
        /\ ins.imm = Immediate(t, w)
    BY <2>1 DEF Fields
  <2>3. /\ t = "I" => SignExtended(ins.imm) = Machine!ImmI(w)
        /\ t = "S" => SignExtended(ins.imm) = Machine!StoreOffset(w)
        /\ t = "B" => SignExtended(ins.imm) = Machine!ImmB(w)
        /\ t = "U" => ins.imm = Machine!ImmU(w)
        /\ t = "J" => SignExtended(ins.imm) = Machine!ImmJ(w)
    <3>1. t = "I" => SignExtended(ins.imm) = Machine!ImmI(w)
      BY <2>1, <2>2, ImmediateCases, ImmediateI
    <3>2. t = "S" => SignExtended(ins.imm) = Machine!StoreOffset(w)
      BY <2>1, <2>2, ImmediateCases, ImmediateS
    <3>3. t = "B" => SignExtended(ins.imm) = Machine!ImmB(w)
      BY <2>1, <2>2, ImmediateCases, ImmediateB
    <3>4. t = "U" => ins.imm = Machine!ImmU(w)
      BY <2>1, <2>2, ImmediateCases, ImmediateU
    <3>5. t = "J" => SignExtended(ins.imm) = Machine!ImmJ(w)
      BY <2>1, <2>2, ImmediateCases, ImmediateJ
    <3> QED BY <3>1, <3>2, <3>3, <3>4, <3>5
  <2>4. /\ ins.opcode = Machine!Opcode(w) /\ ins.rd = Machine!Rd(w) /\ ins.func3 = Machine!Func3(w)
        /\ ins.rs1 = Machine!Rs1(w) /\ ins.rs2 = Machine!Rs2(w) /\ ins.func7 = Machine!Func7(w)
    BY <2>1, <2>2, FieldsRead
  <2>5. CASE t \in {"R"}
    BY <2>4, <2>5 DEF DecodesWord
  <2>6. CASE t = "I"
    BY <2>3, <2>4, <2>6 DEF DecodesWord
  <2>7. CASE t = "S"
    BY <2>3, <2>4, <2>7 DEF DecodesWord
  <2>8. CASE t = "B"
    BY <2>3, <2>4, <2>8 DEF DecodesWord
  <2>9. CASE t = "U"
    BY <2>3, <2>4, <2>9 DEF DecodesWord
  <2>10. CASE t = "J"
    BY <2>3, <2>4, <2>10 DEF DecodesWord
  <2> QED BY <2>1, <2>5, <2>6, <2>7, <2>8, <2>9, <2>10 DEF Types
<1> QED BY <1>1, DataIsTyped, PTL

-----------------------------------------------------------------------------
(* Taking an instruction apart and building it again.                      *)

LEMMA RebuiltI ==
  ASSUME NEW w \in Words
  PROVE  LET imm == DecodeI(w) IN ConstructI(<<imm[1], imm[2] & 15>>) = imm
<1>1. PICK p, q : DecodeI(w) = <<p, q>> /\ BytesI(w, p, q)
  BY BytesOfI
<1> DEFINE m == q & 15
<1>2. /\ p \in Byte /\ q \in Byte /\ Bit(q, 3) = Bit(w[4], 7)
      /\ \A j \in 4 .. 7 : Bit(q, j) = Bit(q, 3)
  BY <1>1 DEF BytesI
<1>3. m \in Byte /\ \A j \in 0 .. 7 : Bit(m, j) = IF j < 4 THEN Bit(q, j) ELSE 0
  BY <1>2, AndBits, Masks
<1>4. m & 8 # 0 <=> Bit(q, 3) = 1
  <2>1. m & 8 \in Byte /\ \A j \in 0 .. 7 : Bit(m & 8, j) = IF j = 3 THEN Bit(m, 3) ELSE 0
    BY <1>3, AndBits, Masks
  <2> HIDE DEF m
  <2>2. m & 8 # 0 <=> Bit(m, 3) = 1
    BY <2>1, NonZero
  <2> QED BY <1>3, <2>2
<1> HIDE DEF m
<1>5. ConstructI(<<p, m>>) = <<p, IF Bit(q, 3) = 1 THEN Signed(m, 4) ELSE m>>
  <2>1. SignFrom(<<p, m>>, 2, 4) = <<p, Signed(m, 4)>>
    BY DEF SignFrom, Signed
  <2> QED BY <1>4, <2>1 DEF ConstructI
<1>6. (IF Bit(q, 3) = 1 THEN Signed(m, 4) ELSE m) = q
  <2>1. \A j \in 0 .. 7 : Bit(q, j) \in {0, 1}
    BY <1>2, BitRange
  <2>2. CASE Bit(q, 3) = 1
    <3>1. Signed(m, 4) \in Byte /\ \A j \in 0 .. 7 : Bit(Signed(m, 4), j) = IF j < 4 THEN Bit(m, j) ELSE 1
      BY <1>3, SignedBits
    <3>2. \A j \in 0 .. 7 : Bit(Signed(m, 4), j) = Bit(q, j)
      BY <1>2, <1>3, <2>2, <3>1
    <3> QED BY <1>2, <2>2, <3>1, <3>2, ByteIsItsBits
  <2>3. CASE Bit(q, 3) # 1
    <3>1. \A j \in 0 .. 7 : Bit(m, j) = Bit(q, j)
      BY <1>2, <1>3, <2>1, <2>3
    <3> QED BY <1>2, <1>3, <2>3, <3>1, ByteIsItsBits
  <2> QED BY <2>2, <2>3
<1> QED BY <1>1, <1>5, <1>6 DEF m

\* The constructor of stores is never given a sign.
LEMMA ConstructSUnsigned ==
  ASSUME NEW x, NEW y
  PROVE  ConstructS(x, y) = <<x | Shl(y, 5), Shr(y, 3)>>
<1>1. 0 & 54 = 0 /\ 1 & 54 = 0
  <2>1. /\ 0 & 54 \in Byte /\ \A j \in 0 .. 7 : Bit(0 & 54, j) = 0
        /\ 1 & 54 \in Byte /\ \A j \in 0 .. 7 : Bit(1 & 54, j) = 0
    BY AndBits, Masks, ZeroAndOnes
  <2> QED BY <2>1, ZeroAndOnes, ByteIsItsBits
<1>2. (IF y # 0 THEN 1 ELSE 0) & 54 = 0
  BY <1>1
<1> QED BY <1>2 DEF ConstructS

LEMMA PartsOfS ==
  ASSUME NEW p \in Byte, NEW q \in Byte
  PROVE  LET x == p & 31
             y == Shr(p, 5) | Shl(q & 15, 3)
         IN  x | Shl(y, 5) = p /\ Shr(y, 3) = q & 15 /\ q & 15 \in Byte
<1> DEFINE x == p & 31
           m == q & 15
           a == Shr(p, 5)
           b == Shl(m, 3)
           y == a | b
<1>1. /\ x \in Byte /\ \A j \in 0 .. 7 : Bit(x, j) = IF j < 5 THEN Bit(p, j) ELSE 0
      /\ m \in Byte /\ \A j \in 0 .. 7 : Bit(m, j) = IF j < 4 THEN Bit(q, j) ELSE 0
  BY AndBits, Masks
<1>2. /\ a \in Byte /\ \A j \in 0 .. 7 : Bit(a, j) = IF j + 5 > 7 THEN 0 ELSE Bit(p, j + 5)
      /\ b \in Byte /\ \A j \in 0 .. 7 : Bit(b, j) = IF j < 3 THEN 0 ELSE Bit(m, j - 3)
  BY <1>1, BitsOfShl, BitsOfShr, ShiftedBytes
<1> HIDE DEF x, m, a, b
<1>3. y \in Byte /\ \A j \in 0 .. 7 : Bit(y, j) = IF Bit(a, j) = 0 THEN Bit(b, j) ELSE 1
  BY <1>2, OrBits
<1>4. \A j \in 0 .. 7 : Bit(a, j) \in {0, 1} /\ Bit(b, j) \in {0, 1} /\ Bit(x, j) \in {0, 1}
                        /\ Bit(p, j) \in {0, 1} /\ Bit(m, j) \in {0, 1}
  BY <1>1, <1>2, BitRange
<1>5. \A j \in 0 .. 7 : Bit(y, j) = IF j < 3 THEN Bit(p, j + 5) ELSE Bit(m, j - 3)
  BY <1>2, <1>3, <1>4
<1> HIDE DEF y
<1>6. /\ Shl(y, 5) \in Byte /\ \A j \in 0 .. 7 : Bit(Shl(y, 5), j) = IF j < 5 THEN 0 ELSE Bit(y, j - 5)
      /\ Shr(y, 3) \in Byte /\ \A j \in 0 .. 7 : Bit(Shr(y, 3), j) = IF j + 3 > 7 THEN 0 ELSE Bit(y, j + 3)
  BY <1>3, BitsOfShl, BitsOfShr, ShiftedBytes
<1>7. x | Shl(y, 5) = p
  <2>1. x | Shl(y, 5) \in Byte
        /\ \A j \in 0 .. 7 : Bit(x | Shl(y, 5), j) = IF Bit(x, j) = 0 THEN Bit(Shl(y, 5), j) ELSE 1
    BY <1>1, <1>6, OrBits
  <2>2. ASSUME NEW j \in 0 .. 7, j >= 5 PROVE Bit(Shl(y, 5), j) = Bit(p, j)
    <3>1. j - 5 \in 0 .. 7 /\ j - 5 < 3 /\ (j - 5) + 5 = j
      BY <2>2
    <3> QED BY <1>5, <1>6, <2>2, <3>1
  <2>3. \A j \in 0 .. 7 : Bit(x | Shl(y, 5), j) = Bit(p, j)
    BY <1>1, <1>4, <1>6, <2>1, <2>2
  <2> QED BY <2>1, <2>3, ByteIsItsBits
<1>8. Shr(y, 3) = m
  <2>1. ASSUME NEW j \in 0 .. 7 PROVE Bit(Shr(y, 3), j) = Bit(m, j)
    <3>1. CASE j <= 4
      <4>1. j + 3 \in 0 .. 7 /\ ~(j + 3 < 3) /\ (j + 3) - 3 = j
        BY <3>1
      <4> QED BY <1>5, <1>6, <3>1, <4>1
    <3>2. CASE j > 4
      BY <1>1, <1>6, <3>2
    <3> QED BY <3>1, <3>2
  <2> QED BY <1>1, <1>6, <2>1, ByteIsItsBits
<1> QED BY <1>1, <1>7, <1>8 DEF x, m, a, b, y

LEMMA RebuiltS ==
  ASSUME NEW w \in Words
  PROVE  LET imm == DecodeS(w)
         IN  ConstructS(ImmS(imm, 7)[1], ImmS(imm, 25)[1]) # imm <=> NegativeS(w)
<1>1. PICK p, q : DecodeS(w) = <<p, q>> /\ BytesS(w, p, q)
  BY BytesOfS
<1>2. p \in Byte /\ q \in Byte /\ \A j \in 4 .. 7 : Bit(q, j) = IF NegativeS(w) THEN 1 ELSE 0
  BY <1>1 DEF BytesS
<1>3. ImmS(<<p, q>>, 7)[1] = p & 31 /\ ImmS(<<p, q>>, 25)[1] = Shr(p, 5) | Shl(q & 15, 3)
  BY DEF ImmS
<1>4. ConstructS(ImmS(<<p, q>>, 7)[1], ImmS(<<p, q>>, 25)[1]) = <<p, q & 15>>
  BY <1>2, <1>3, ConstructSUnsigned, PartsOfS
<1>5. q & 15 \in Byte /\ \A j \in 0 .. 7 : Bit(q & 15, j) = IF j < 4 THEN Bit(q, j) ELSE 0
  BY <1>2, AndBits, Masks
<1>6. q & 15 # q <=> NegativeS(w)
  <2>1. CASE NegativeS(w)
    <3>1. Bit(q, 4) = 1 /\ Bit(q & 15, 4) = 0
      BY <1>2, <1>5, <2>1
    <3> QED BY <2>1, <3>1
  <2>2. CASE ~NegativeS(w)
    <3>1. \A j \in 0 .. 7 : Bit(q & 15, j) = Bit(q, j)
      BY <1>2, <1>5, <2>2
    <3> QED BY <1>2, <1>5, <2>2, <3>1, ByteIsItsBits
  <2> QED BY <2>1, <2>2
<1>7. <<p, q & 15>> # <<p, q>> <=> q & 15 # q
  OBVIOUS
<1> QED BY <1>1, <1>4, <1>6, <1>7

LEMMA PartsOfB ==
  ASSUME NEW p \in Byte, NEW q \in Byte, Bit(p, 0) = 0
  PROVE  LET f1 == Shr(q & 8, 3)
             f4 == Shr(p, 1) & getByteMaskForPosition(4)
             f6 == (Shr(p, 5) | Shl(q, 3)) & 63
             f31 == Shr(q, 4) & 1
         IN  /\ Shl(f4, 1) | Shl(f6, 5) = p
             /\ (Shl(f1, 3) | Shr(f6, 3)) | Shl(f31, 4) \in Byte
             /\ \A j \in 0 .. 7 : Bit((Shl(f1, 3) | Shr(f6, 3)) | Shl(f31, 4), j)
                                    = IF j <= 4 THEN Bit(q, j) ELSE 0
             /\ f31 = Bit(q, 4)
<1> DEFINE f1 == Shr(q & 8, 3)
           f4 == Shr(p, 1) & getByteMaskForPosition(4)
           a == Shr(p, 5)
           b == Shl(q, 3)
           f6 == (a | b) & 63
           f31 == Shr(q, 4) & 1
<1>0. \A j \in 0 .. 7 : Bit(p, j) \in {0, 1} /\ Bit(q, j) \in {0, 1}
  BY BitRange
<1>1. f1 \in Byte /\ \A j \in 0 .. 7 : Bit(f1, j) = IF j = 0 THEN Bit(q, 3) ELSE 0
  <2>1. q & 8 \in Byte /\ \A j \in 0 .. 7 : Bit(q & 8, j) = IF j = 3 THEN Bit(q, 3) ELSE 0
    BY AndBits, Masks
  <2>2. f1 \in Byte /\ \A j \in 0 .. 7 : Bit(f1, j) = IF j + 3 > 7 THEN 0 ELSE Bit(q & 8, j + 3)
    BY <2>1, BitsOfShr, ShiftedBytes
  <2> HIDE DEF f1
  <2> QED BY <2>1, <2>2
<1>2. f4 \in Byte /\ \A j \in 0 .. 7 : Bit(f4, j) = IF j < 4 THEN Bit(p, j + 1) ELSE 0
  <2>1. f4 \in Byte /\ \A j \in 0 .. 7 : Bit(f4, j) = IF j < 4 /\ j + 1 <= 7 THEN Bit(p, j + 1) ELSE 0
    BY MaskedShift
  <2> HIDE DEF f4
  <2> QED BY <2>1
<1>3. /\ a \in Byte /\ \A j \in 0 .. 7 : Bit(a, j) = IF j + 5 > 7 THEN 0 ELSE Bit(p, j + 5)
      /\ b \in Byte /\ \A j \in 0 .. 7 : Bit(b, j) = IF j < 3 THEN 0 ELSE Bit(q, j - 3)
  BY BitsOfShl, BitsOfShr, ShiftedBytes
<1>4. f6 \in Byte /\ \A j \in 0 .. 7 : Bit(f6, j) = IF j < 3 THEN Bit(p, j + 5)
                                                     ELSE IF j < 6 THEN Bit(q, j - 3) ELSE 0
  <2> HIDE DEF a, b
  <2>1. a | b \in Byte /\ \A j \in 0 .. 7 : Bit(a | b, j) = IF Bit(a, j) = 0 THEN Bit(b, j) ELSE 1
    BY <1>3, OrBits
  <2>2. f6 \in Byte /\ \A j \in 0 .. 7 : Bit(f6, j) = IF j < 6 THEN Bit(a | b, j) ELSE 0
    BY <2>1, AndBits, Masks
  <2> HIDE DEF f6
  <2> QED BY <1>0, <1>3, <2>1, <2>2
<1>5. f31 \in Byte /\ (\A j \in 0 .. 7 : Bit(f31, j) = IF j = 0 THEN Bit(q, 4) ELSE 0) /\ f31 = Bit(q, 4)
  <2>1. Shr(q, 4) \in Byte /\ Bit(Shr(q, 4), 0) = Bit(q, 4)
    BY BitsOfShr, ShiftedBytes
  <2>2. f31 \in Byte /\ \A j \in 0 .. 7 : Bit(f31, j) = IF j = 0 THEN Bit(q, 4) ELSE 0
    BY <2>1, AndBits, Masks
  <2>3. 0 \in Byte /\ 1 \in Byte /\ \A j \in 0 .. 7 : Bit(0, j) = 0 /\ Bit(1, j) = IF j = 0 THEN 1 ELSE 0
    BY Masks, ZeroAndOnes
  <2> HIDE DEF f31
  <2>4. CASE Bit(q, 4) = 0
    BY <2>2, <2>3, <2>4, ByteIsItsBits
  <2>5. CASE Bit(q, 4) = 1
    BY <2>2, <2>3, <2>5, ByteIsItsBits
  <2> QED BY <1>0, <2>2, <2>4, <2>5
<1> HIDE DEF a, b, f1, f4, f6, f31
<1>6. /\ Shl(f4, 1) \in Byte /\ \A j \in 0 .. 7 : Bit(Shl(f4, 1), j) = IF j < 1 THEN 0 ELSE Bit(f4, j - 1)
      /\ Shl(f6, 5) \in Byte /\ \A j \in 0 .. 7 : Bit(Shl(f6, 5), j) = IF j < 5 THEN 0 ELSE Bit(f6, j - 5)
      /\ Shl(f1, 3) \in Byte /\ \A j \in 0 .. 7 : Bit(Shl(f1, 3), j) = IF j < 3 THEN 0 ELSE Bit(f1, j - 3)
      /\ Shr(f6, 3) \in Byte /\ \A j \in 0 .. 7 : Bit(Shr(f6, 3), j) = IF j + 3 > 7 THEN 0 ELSE Bit(f6, j + 3)
      /\ Shl(f31, 4) \in Byte /\ \A j \in 0 .. 7 : Bit(Shl(f31, 4), j) = IF j < 4 THEN 0 ELSE Bit(f31, j - 4)
  BY <1>1, <1>2, <1>4, <1>5, BitsOfShl, BitsOfShr, ShiftedBytes
<1>7. \A j \in 0 .. 7 : /\ Bit(Shl(f4, 1), j) = IF j \in 1 .. 4 THEN Bit(p, j) ELSE 0
                        /\ Bit(Shl(f6, 5), j) = IF j < 5 THEN 0 ELSE Bit(p, j)
                        /\ Bit(Shl(f1, 3), j) = IF j = 3 THEN Bit(q, 3) ELSE 0
                        /\ Bit(Shr(f6, 3), j) = IF j < 3 THEN Bit(q, j) ELSE 0
                        /\ Bit(Shl(f31, 4), j) = IF j = 4 THEN Bit(q, 4) ELSE 0
  <2> SUFFICES ASSUME NEW j \in 0 .. 7
               PROVE  /\ Bit(Shl(f4, 1), j) = IF j \in 1 .. 4 THEN Bit(p, j) ELSE 0
                      /\ Bit(Shl(f6, 5), j) = IF j < 5 THEN 0 ELSE Bit(p, j)
                      /\ Bit(Shl(f1, 3), j) = IF j = 3 THEN Bit(q, 3) ELSE 0
                      /\ Bit(Shr(f6, 3), j) = IF j < 3 THEN Bit(q, j) ELSE 0
                      /\ Bit(Shl(f31, 4), j) = IF j = 4 THEN Bit(q, 4) ELSE 0
    OBVIOUS
  <2>1. Bit(Shl(f4, 1), j) = IF j \in 1 .. 4 THEN Bit(p, j) ELSE 0
    BY <1>2, <1>6
  <2>2. Bit(Shl(f6, 5), j) = IF j < 5 THEN 0 ELSE Bit(p, j)
    BY <1>4, <1>6
  <2>3. Bit(Shl(f1, 3), j) = IF j = 3 THEN Bit(q, 3) ELSE 0
    BY <1>1, <1>6
  <2>4. Bit(Shr(f6, 3), j) = IF j < 3 THEN Bit(q, j) ELSE 0
    BY <1>4, <1>6
  <2>5. Bit(Shl(f31, 4), j) = IF j = 4 THEN Bit(q, 4) ELSE 0
    BY <1>5, <1>6
  <2> QED BY <2>1, <2>2, <2>3, <2>4, <2>5
<1>8. Shl(f4, 1) | Shl(f6, 5) = p
  <2>1. /\ Shl(f4, 1) | Shl(f6, 5) \in Byte
        /\ \A j \in 0 .. 7 : Bit(Shl(f4, 1) | Shl(f6, 5), j)
                               = IF Bit(Shl(f4, 1), j) = 0 THEN Bit(Shl(f6, 5), j) ELSE 1
    BY <1>6, OrBits
  <2>2. \A j \in 0 .. 7 : Bit(Shl(f4, 1) | Shl(f6, 5), j) = Bit(p, j)
    BY <1>0, <1>7, <2>1
  <2> QED BY <2>1, <2>2, ByteIsItsBits
<1>9. /\ Shl(f1, 3) | Shr(f6, 3) \in Byte
      /\ \A j \in 0 .. 7 : Bit(Shl(f1, 3) | Shr(f6, 3), j)
                             = IF Bit(Shl(f1, 3), j) = 0 THEN Bit(Shr(f6, 3), j) ELSE 1
  BY <1>6, OrBits
<1>10. /\ (Shl(f1, 3) | Shr(f6, 3)) | Shl(f31, 4) \in Byte
       /\ \A j \in 0 .. 7 : Bit((Shl(f1, 3) | Shr(f6, 3)) | Shl(f31, 4), j)
                              = IF Bit(Shl(f1, 3) | Shr(f6, 3), j) = 0 THEN Bit(Shl(f31, 4), j) ELSE 1
  BY <1>6, <1>9, OrBits
<1>11. \A j \in 0 .. 7 : Bit((Shl(f1, 3) | Shr(f6, 3)) | Shl(f31, 4), j) = IF j <= 4 THEN Bit(q, j) ELSE 0
  BY <1>0, <1>7, <1>9, <1>10
<1> QED BY <1>5, <1>8, <1>10, <1>11 DEF a, b, f1, f4, f6, f31

\* A byte that is built from the low bits of another one and its sign.
LEMMA SignRebuilt ==
  ASSUME NEW q \in Byte, NEW m \in Byte,
         \A j \in 5 .. 7 : Bit(q, j) = Bit(q, 4),
         \A j \in 0 .. 7 : Bit(m, j) = IF j <= 4 THEN Bit(q, j) ELSE 0
  PROVE  (IF Bit(q, 4) # 0 THEN Signed(m, 5) ELSE m) = q
<1>1. \A j \in 0 .. 7 : Bit(q, j) \in {0, 1}
  BY BitRange
<1>2. CASE Bit(q, 4) # 0
  <2>1. Signed(m, 5) \in Byte /\ \A j \in 0 .. 7 : Bit(Signed(m, 5), j) = IF j < 5 THEN Bit(m, j) ELSE 1
    BY SignedBits
  <2>2. \A j \in 0 .. 7 : Bit(Signed(m, 5), j) = Bit(q, j)
    BY <1>1, <1>2, <2>1
  <2> QED BY <1>2, <2>1, <2>2, ByteIsItsBits
<1>3. CASE Bit(q, 4) = 0
  <2>1. \A j \in 0 .. 7 : Bit(m, j) = Bit(q, j)
    BY <1>3
  <2> QED BY <1>3, <2>1, ByteIsItsBits
<1> QED BY <1>2, <1>3

LEMMA RebuiltB ==
  ASSUME NEW w \in Words
  PROVE  LET imm == DecodeB(w)
         IN  ConstructB(ImmB(imm, 7)[1], ImmB(imm, 8)[1], ImmB(imm, 25)[1], ImmB(imm, 31)[1]) = imm
<1>1. PICK p, q : DecodeB(w) = <<p, q>> /\ BytesB(w, p, q)
  BY BytesOfB
<1>2. /\ p \in Byte /\ q \in Byte /\ Bit(p, 0) = 0
      /\ \A j \in 0 .. 7 : Bit(q, j) = CASE j <= 2 -> Bit(w[4], j + 4) [] j = 3 -> Bit(w[1], 7)
                                         [] OTHER -> Bit(w[4], 7)
  BY <1>1 DEF BytesB
<1>3. \A j \in 5 .. 7 : Bit(q, j) = Bit(q, 4)
  BY <1>2
<1> DEFINE f1 == Shr(q & 8, 3)
           f4 == Shr(p, 1) & getByteMaskForPosition(4)
           f6 == (Shr(p, 5) | Shl(q, 3)) & 63
           f31 == Shr(q, 4) & 1
           m == (Shl(f1, 3) | Shr(f6, 3)) | Shl(f31, 4)
<1>4. ImmB(<<p, q>>, 7)[1] = f1 /\ ImmB(<<p, q>>, 25)[1] = f6 /\ ImmB(<<p, q>>, 31)[1] = f31
  <2>1. ImmB(<<p, q>>, 7) = <<f1>>
    BY DEF ImmB
  <2>2. ImmB(<<p, q>>, 25) = <<f6>>
    BY DEF ImmB
  <2>3. ImmB(<<p, q>>, 31) = <<f31>>
    BY DEF ImmB
  <2> QED BY <2>1, <2>2, <2>3
<1>5. ImmB(<<p, q>>, 8)[1] = f4
  <2>1. ImmB(<<p, q>>, 8) = getContrainedBits(<<p, q>>, 1, 4)
    BY DEF ImmB
  <2>2. getContrainedBits(<<p, q>>, 1, 4)[1] = f4
    BY DEF getContrainedBits
  <2> QED BY <2>1, <2>2
<1>6. /\ Shl(f4, 1) | Shl(f6, 5) = p /\ f31 = Bit(q, 4)
      /\ m \in Byte /\ \A j \in 0 .. 7 : Bit(m, j) = IF j <= 4 THEN Bit(q, j) ELSE 0
  BY <1>2, PartsOfB
<1> HIDE DEF f1, f4, f6, f31
<1>7. ConstructB(f1, f4, f6, f31) = <<p, IF Bit(q, 4) # 0 THEN Signed(m, 5) ELSE m>>
  <2>1. SignFrom(<<p, m>>, 2, 5) = <<p, Signed(m, 5)>>
    BY DEF SignFrom, Signed
  <2> QED BY <1>6, <2>1 DEF ConstructB
<1> HIDE DEF m
<1>8. (IF Bit(q, 4) # 0 THEN Signed(m, 5) ELSE m) = q
  BY <1>2, <1>3, <1>6, SignRebuilt
<1> QED BY <1>1, <1>4, <1>5, <1>7, <1>8

\* The word of an upper immediate is its own upper immediate.
LEMMA UpperBits ==
  ASSUME NEW w \in Words
  PROVE  /\ DecodeU(w) \in Words /\ DecodeU(DecodeU(w)) = DecodeU(w)
         /\ \A i \in 0 .. 31 : WordBit(DecodeU(w), i) = IF i < 12 THEN 0 ELSE WordBit(w, i)
<1>1. ASSUME NEW v \in Words
      PROVE  /\ DecodeU(v) \in Words
             /\ \A i \in 0 .. 31 : WordBit(DecodeU(v), i) = IF i < 12 THEN 0 ELSE WordBit(v, i)
  <2> DEFINE bits == [i \in 0 .. 31 |-> IF i < 12 THEN 0 ELSE Machine!Bits(v)[i]]
  <2>1. DecodeU(v) = Machine!Word(bits) /\ DecodeU(v) \in Words
    BY ImmediateU DEF Machine!ImmU
  <2>2. bits \in [0 .. 31 -> {0, 1}] /\ \A i \in 0 .. 31 : bits[i] = IF i < 12 THEN 0 ELSE WordBit(v, i)
    BY WordBitsAre
  <2> HIDE DEF bits
  <2> QED BY <2>1, <2>2, BitsOfMachineWord
<1>2. DecodeU(w) \in Words
  BY <1>1
<1>3. \A i \in 0 .. 31 : WordBit(DecodeU(DecodeU(w)), i) = WordBit(DecodeU(w), i)
  BY <1>1, <1>2
<1> QED BY <1>1, <1>2, <1>3, WordIsItsBits

\* The constructor of LUI and AUIPC sets bits 12 .. 15 of the value if it is
\* negative.
LEMMA RebuiltU ==
  ASSUME NEW w \in Words
  PROVE  LET imm == DecodeU(w)
         IN  ConstructU(getContrainedBits(imm, 12, 31)) # imm
               <=> WordBit(w, 31) = 1 /\ \E i \in 12 .. 15 : WordBit(w, i) = 0
<1> DEFINE v == DecodeU(w)
<1>1. /\ v \in Words /\ DecodeU(v) = v
      /\ \A i \in 0 .. 31 : WordBit(v, i) = IF i < 12 THEN 0 ELSE WordBit(w, i)
  BY UpperBits
<1> HIDE DEF v
<1>2. PICK x \in Byte, y \in Byte, z \in Byte :
        /\ getContrainedBits(v, 12, 31) = <<x, y, z>>
        /\ \A j \in 0 .. 7 :
             /\ Bit(x, j) = WordBit(v, 12 + j) /\ Bit(y, j) = WordBit(v, 20 + j)
             /\ Bit(z, j) = IF j < 4 THEN WordBit(v, 28 + j) ELSE 0
  BY <1>1, Wide
<1>3. z & 8 # 0 <=> WordBit(w, 31) = 1
  <2>1. z & 8 \in Byte /\ \A j \in 0 .. 7 : Bit(z & 8, j) = IF j = 3 THEN Bit(z, 3) ELSE 0
    BY AndBits, Masks
  <2>2. z & 8 # 0 <=> Bit(z, 3) = 1
    BY <2>1, NonZero
  <2>3. Bit(z, 3) = WordBit(v, 28 + 3) /\ 28 + 3 = 31
    BY <1>2
  <2> QED BY <1>1, <2>2, <2>3
<1>4. LeftBy(Resize(<<x, y, z>>, 4), 12) = v
  BY <1>1, <1>2 DEF DecodeU
<1>5. ConstructU(<<x, y, z>>) = IF z & 8 # 0 THEN SignFrom(v, 2, 4) ELSE v
  <2>1. <<x, y, z>>[3] = z
    OBVIOUS
  <2> QED BY <1>4, <2>1 DEF ConstructU
<1>6. v[2] \in Byte /\ SignFrom(v, 2, 4) \in [1 .. 4 -> Byte]
  <2>1. v[2] \in Byte
    BY <1>1, BytesOfWord
  <2>2. Signed(v[2], 4) \in Byte
    BY <2>1, SignedBits
  <2> QED BY <1>1, <2>1, <2>2 DEF SignFrom, Signed, Words
<1>7. SignFrom(v, 2, 4) # v <=> Signed(v[2], 4) # v[2]
  BY <1>1, <1>6 DEF SignFrom, Signed, Words
<1>8. Signed(v[2], 4) # v[2] <=> \E i \in 12 .. 15 : WordBit(w, i) = 0
  <2>1. Signed(v[2], 4) \in Byte
        /\ \A j \in 0 .. 7 : Bit(Signed(v[2], 4), j) = IF j < 4 THEN Bit(v[2], j) ELSE 1
    BY <1>6, SignedBits
  <2>2. \A j \in 0 .. 7 : Bit(v[2], j) = WordBit(v, 8 + j) /\ Bit(v[2], j) \in {0, 1}
    BY <1>6, WordBitNumbers, BitRange
  <2>3. \A j \in 4 .. 7 : Bit(v[2], j) = WordBit(w, 8 + j)
    BY <1>1, <2>2
  <2>4. CASE \E i \in 12 .. 15 : WordBit(w, i) = 0
    <3>1. PICK i \in 12 .. 15 : WordBit(w, i) = 0
      BY <2>4
    <3>2. i - 8 \in 4 .. 7 /\ 8 + (i - 8) = i
      OBVIOUS
    <3>3. Bit(v[2], i - 8) = 0
      BY <2>3, <3>1, <3>2
    <3>4. Bit(Signed(v[2], 4), i - 8) = 1
      BY <2>1, <3>2
    <3> QED BY <2>4, <3>3, <3>4
  <2>5. CASE ~\E i \in 12 .. 15 : WordBit(w, i) = 0
    <3>1. \A j \in 4 .. 7 : Bit(v[2], j) = 1
      <4>1. \A j \in 4 .. 7 : 8 + j \in 12 .. 15
        OBVIOUS
      <4> QED BY <2>2, <2>3, <2>5, <4>1
    <3>2. \A j \in 0 .. 7 : Bit(Signed(v[2], 4), j) = Bit(v[2], j)
      BY <2>1, <3>1
    <3> QED BY <1>6, <2>1, <2>5, <3>2, ByteIsItsBits
  <2> QED BY <2>4, <2>5
<1> QED BY <1>2, <1>3, <1>5, <1>7, <1>8 DEF v

LEMMA PartsOfJ ==
  ASSUME NEW p \in Byte, NEW q \in Byte, NEW r \in Byte, Bit(p, 0) = 0
  PROVE  LET f8 == Splice(q, r, 4, 4, 0)
             f1 == Shr(q, 3) & 1
             x == Splice(p, q, 1, 7, 0)
             y == Shr(q, 1) & getByteMaskForPosition(2)
             f31 == Shr(r, 4) & 1
             n == ((Shl(f8, 4) | Shl(f1, 3)) | Shr(x & 128, 7)) | Shl(y, 1)
             m == Shr(f8, 4) | Shl(f31, 4)
         IN  /\ Shl(x, 1) = p /\ n = q /\ f31 = Bit(r, 4)
             /\ m \in Byte /\ \A j \in 0 .. 7 : Bit(m, j) = IF j <= 4 THEN Bit(r, j) ELSE 0
<1> DEFINE f8 == Splice(q, r, 4, 4, 0)
           f1 == Shr(q, 3) & 1
           x == Splice(p, q, 1, 7, 0)
           y == Shr(q, 1) & getByteMaskForPosition(2)
           f31 == Shr(r, 4) & 1
           t == Shr(x & 128, 7)
           m == Shr(f8, 4) | Shl(f31, 4)
<1>0. \A j \in 0 .. 7 : Bit(p, j) \in {0, 1} /\ Bit(q, j) \in {0, 1} /\ Bit(r, j) \in {0, 1}
  BY BitRange
<1>1. f8 \in Byte /\ \A j \in 0 .. 7 : Bit(f8, j) = IF j < 4 THEN Bit(q, j + 4) ELSE Bit(r, j - 4)
  <2>1. 4 - 0 = 8 - 4 /\ 4 \in 0 .. 8 /\ 0 \in 0 .. 8
    OBVIOUS
  <2>2. f8 \in Byte /\ \A j \in 0 .. 7 : Bit(f8, j) = IF j + 4 <= 7 THEN Bit(q, j + 4)
                                                       ELSE IF j + 0 <= 7 THEN Bit(r, j + 4 - 8) ELSE 0
    BY <2>1, Spliced
  <2> HIDE DEF f8
  <2>3. \A j \in 0 .. 7 : j + 4 - 8 = j - 4 /\ j + 0 <= 7
    OBVIOUS
  <2> QED BY <2>2, <2>3
<1>2. x \in Byte /\ \A j \in 0 .. 7 : Bit(x, j) = IF j < 7 THEN Bit(p, j + 1) ELSE Bit(q, 0)
  <2>1. 7 - 0 = 8 - 1 /\ 1 \in 0 .. 8 /\ 7 \in 0 .. 8 /\ 0 \in 0 .. 8
    OBVIOUS
  <2>2. x \in Byte /\ \A j \in 0 .. 7 : Bit(x, j) = IF j + 1 <= 7 THEN Bit(p, j + 1)
                                                     ELSE IF j + 0 <= 7 THEN Bit(q, j + 1 - 8) ELSE 0
    BY <2>1, Spliced
  <2> HIDE DEF x
  <2>3. 7 + 1 - 8 = 0
    OBVIOUS
  <2> QED BY <2>2, <2>3
<1>3. y \in Byte /\ \A j \in 0 .. 7 : Bit(y, j) = IF j < 2 THEN Bit(q, j + 1) ELSE 0
  <2>1. y \in Byte /\ \A j \in 0 .. 7 : Bit(y, j) = IF j < 2 /\ j + 1 <= 7 THEN Bit(q, j + 1) ELSE 0
    BY MaskedShift
  <2> HIDE DEF y
  <2> QED BY <2>1
<1>4. f1 \in Byte /\ \A j \in 0 .. 7 : Bit(f1, j) = IF j = 0 THEN Bit(q, 3) ELSE 0
  <2>1. Shr(q, 3) \in Byte /\ Bit(Shr(q, 3), 0) = Bit(q, 3)
    BY BitsOfShr, ShiftedBytes
  <2>2. f1 \in Byte /\ \A j \in 0 .. 7 : Bit(f1, j) = IF j = 0 THEN Bit(Shr(q, 3), 0) ELSE 0
    BY <2>1, AndBits, Masks
  <2> HIDE DEF f1
  <2> QED BY <2>1, <2>2
<1>5. f31 \in Byte /\ (\A j \in 0 .. 7 : Bit(f31, j) = IF j = 0 THEN Bit(r, 4) ELSE 0) /\ f31 = Bit(r, 4)
  <2>1. Shr(r, 4) \in Byte /\ Bit(Shr(r, 4), 0) = Bit(r, 4)
    BY BitsOfShr, ShiftedBytes
  <2>2. f31 \in Byte /\ \A j \in 0 .. 7 : Bit(f31, j) = IF j = 0 THEN Bit(r, 4) ELSE 0
    BY <2>1, AndBits, Masks
  <2>3. 0 \in Byte /\ 1 \in Byte /\ \A j \in 0 .. 7 : Bit(0, j) = 0 /\ Bit(1, j) = IF j = 0 THEN 1 ELSE 0
    BY Masks, ZeroAndOnes
  <2> HIDE DEF f31
  <2>4. CASE Bit(r, 4) = 0
    BY <2>2, <2>3, <2>4, ByteIsItsBits
  <2>5. CASE Bit(r, 4) = 1
    BY <2>2, <2>3, <2>5, ByteIsItsBits
  <2> QED BY <1>0, <2>2, <2>4, <2>5
<1>6. t \in Byte /\ \A j \in 0 .. 7 : Bit(t, j) = IF j = 0 THEN Bit(q, 0) ELSE 0
  <2> HIDE DEF x
  <2>1. x & 128 \in Byte /\ \A j \in 0 .. 7 : Bit(x & 128, j) = IF j = 7 THEN Bit(x, 7) ELSE 0
    BY <1>2, AndBits, Masks
  <2>2. t \in Byte /\ \A j \in 0 .. 7 : Bit(t, j) = IF j + 7 > 7 THEN 0 ELSE Bit(x & 128, j + 7)
    BY <2>1, BitsOfShr, ShiftedBytes
  <2> HIDE DEF t
  <2>3. Bit(t, 0) = Bit(x & 128, 0 + 7) /\ 0 + 7 = 7
    BY <2>2
  <2>4. Bit(t, 0) = Bit(q, 0)
    BY <1>2, <2>1, <2>3
  <2>5. \A j \in 0 .. 7 : j # 0 => Bit(t, j) = 0
    BY <2>2
  <2> QED BY <2>2, <2>4, <2>5
<1> HIDE DEF f8, f1, x, y, f31, t
<1>7. /\ Shl(x, 1) \in Byte /\ \A j \in 0 .. 7 : Bit(Shl(x, 1), j) = IF j < 1 THEN 0 ELSE Bit(x, j - 1)
      /\ Shl(f8, 4) \in Byte /\ \A j \in 0 .. 7 : Bit(Shl(f8, 4), j) = IF j < 4 THEN 0 ELSE Bit(f8, j - 4)
      /\ Shl(f1, 3) \in Byte /\ \A j \in 0 .. 7 : Bit(Shl(f1, 3), j) = IF j < 3 THEN 0 ELSE Bit(f1, j - 3)
      /\ Shl(y, 1) \in Byte /\ \A j \in 0 .. 7 : Bit(Shl(y, 1), j) = IF j < 1 THEN 0 ELSE Bit(y, j - 1)
      /\ Shr(f8, 4) \in Byte /\ \A j \in 0 .. 7 : Bit(Shr(f8, 4), j) = IF j + 4 > 7 THEN 0 ELSE Bit(f8, j + 4)
      /\ Shl(f31, 4) \in Byte /\ \A j \in 0 .. 7 : Bit(Shl(f31, 4), j) = IF j < 4 THEN 0 ELSE Bit(f31, j - 4)
  BY <1>1, <1>2, <1>3, <1>4, <1>5, BitsOfShl, BitsOfShr, ShiftedBytes
<1>8. Shl(x, 1) = p
  <2>1. \A j \in 0 .. 7 : Bit(Shl(x, 1), j) = Bit(p, j)
    BY <1>2, <1>7
  <2> QED BY <1>7, <2>1, ByteIsItsBits
<1>9. ASSUME NEW j \in 0 .. 7
      PROVE  /\ Bit(Shl(f8, 4), j) = IF j < 4 THEN 0 ELSE Bit(q, j)
             /\ Bit(Shl(f1, 3), j) = IF j = 3 THEN Bit(q, 3) ELSE 0
             /\ Bit(Shl(y, 1), j) = IF j \in 1 .. 2 THEN Bit(q, j) ELSE 0
             /\ Bit(Shr(f8, 4), j) = IF j < 4 THEN Bit(r, j) ELSE 0
             /\ Bit(Shl(f31, 4), j) = IF j = 4 THEN Bit(r, 4) ELSE 0
  <2>1. Bit(Shl(f8, 4), j) = IF j < 4 THEN 0 ELSE Bit(q, j)
    BY <1>1, <1>7
  <2>2. Bit(Shl(f1, 3), j) = IF j = 3 THEN Bit(q, 3) ELSE 0
    BY <1>4, <1>7
  <2>3. Bit(Shl(y, 1), j) = IF j \in 1 .. 2 THEN Bit(q, j) ELSE 0
    BY <1>3, <1>7
  <2>4. Bit(Shr(f8, 4), j) = IF j < 4 THEN Bit(r, j) ELSE 0
    BY <1>1, <1>7
  <2>5. Bit(Shl(f31, 4), j) = IF j = 4 THEN Bit(r, 4) ELSE 0
    BY <1>5, <1>7
  <2> QED BY <2>1, <2>2, <2>3, <2>4, <2>5
<1> DEFINE a == Shl(f8, 4) | Shl(f1, 3)
           b == a | t
           n == b | Shl(y, 1)
<1>10. a \in Byte /\ \A j \in 0 .. 7 : Bit(a, j) = IF j < 3 THEN 0 ELSE Bit(q, j)
  <2>1. a \in Byte /\ \A j \in 0 .. 7 : Bit(a, j) = IF Bit(Shl(f8, 4), j) = 0 THEN Bit(Shl(f1, 3), j) ELSE 1
    BY <1>7, OrBits
  <2> HIDE DEF a
  <2> QED BY <1>0, <1>9, <2>1
<1> HIDE DEF a
<1>11. b \in Byte /\ \A j \in 0 .. 7 : Bit(b, j) = IF j \in 1 .. 2 THEN 0 ELSE Bit(q, j)
  <2>1. b \in Byte /\ \A j \in 0 .. 7 : Bit(b, j) = IF Bit(a, j) = 0 THEN Bit(t, j) ELSE 1
    BY <1>6, <1>10, OrBits
  <2> HIDE DEF b
  <2> QED BY <1>0, <1>6, <1>10, <2>1
<1> HIDE DEF b
<1>12. n = q
  <2>1. n \in Byte /\ \A j \in 0 .. 7 : Bit(n, j) = IF Bit(b, j) = 0 THEN Bit(Shl(y, 1), j) ELSE 1
    BY <1>7, <1>11, OrBits
  <2> HIDE DEF n
  <2>2. \A j \in 0 .. 7 : Bit(n, j) = Bit(q, j)
    BY <1>0, <1>9, <1>11, <2>1
  <2> QED BY <2>1, <2>2, ByteIsItsBits
<1>13. m \in Byte /\ \A j \in 0 .. 7 : Bit(m, j) = IF j <= 4 THEN Bit(r, j) ELSE 0
  <2>1. m \in Byte /\ \A j \in 0 .. 7 : Bit(m, j) = IF Bit(Shr(f8, 4), j) = 0 THEN Bit(Shl(f31, 4), j) ELSE 1
    BY <1>7, OrBits
  <2> HIDE DEF m
  <2> QED BY <1>0, <1>9, <2>1
<1> QED BY <1>5, <1>8, <1>12, <1>13 DEF f8, f1, x, y, f31, t, a, b

LEMMA RebuiltJ ==
  ASSUME NEW w \in Words
  PROVE  LET imm == DecodeJ(w)
         IN  ConstructJ(ImmJ(imm, 12)[1], ImmJ(imm, 20)[1], ImmJ(imm, 21), ImmJ(imm, 31)[1]) = imm
<1>1. PICK p, q, r : DecodeJ(w) = <<p, q, r>> /\ BytesJ(w, p, q, r)
  BY BytesOfJ
<1>2. /\ p \in Byte /\ q \in Byte /\ r \in Byte /\ Bit(p, 0) = 0
      /\ \A j \in 0 .. 7 : Bit(r, j) = IF j < 4 THEN WordBit(w, 16 + j) ELSE WordBit(w, 31)
  BY <1>1 DEF BytesJ
<1>3. \A j \in 5 .. 7 : Bit(r, j) = Bit(r, 4)
  BY <1>2
<1> DEFINE f8 == Splice(q, r, 4, 4, 0)
           f1 == Shr(q, 3) & 1
           x == Splice(p, q, 1, 7, 0)
           y == Shr(q, 1) & getByteMaskForPosition(2)
           f31 == Shr(r, 4) & 1
           n == ((Shl(f8, 4) | Shl(f1, 3)) | Shr(x & 128, 7)) | Shl(y, 1)
           m == Shr(f8, 4) | Shl(f31, 4)
           imm == <<p, q, r>>
<1>4. ImmJ(imm, 20)[1] = f1 /\ ImmJ(imm, 31)[1] = f31
  <2>1. ImmJ(imm, 20) = <<f1>>
    BY DEF ImmJ
  <2>2. ImmJ(imm, 31) = <<f31>>
    BY DEF ImmJ
  <2> QED BY <2>1, <2>2
<1>5. ImmJ(imm, 12)[1] = f8
  <2>1. ImmJ(imm, 12) = getContrainedBits(imm, 12, 19)
    BY DEF ImmJ
  <2>2. Shl(r, 4) \in Byte
    BY <1>2, ShiftedBytes
  <2>3. Shr(Shl(r, 4), 0) = Shl(r, 4)
    BY <2>2, ShiftsByNumbers
  <2>4. getContrainedBits(imm, 12, 19)[1] = Shr(q, 4) | Shr(Shl(r, 4), 0)
    BY <2>3 DEF getContrainedBits
  <2> QED BY <2>1, <2>4 DEF Splice
<1>6. ImmJ(imm, 21) = <<x, y>>
  <2>1. ImmJ(imm, 21) = getContrainedBits(imm, 1, 10)
    BY DEF ImmJ
  <2>2. Shl(q, 7) \in Byte
    BY <1>2, ShiftedBytes
  <2>3. Shr(Shl(q, 7), 0) = Shl(q, 7)
    BY <2>2, ShiftsByNumbers
  <2>4. getContrainedBits(imm, 1, 10) = <<Shr(p, 1) | Shl(q, 7), Shr(q, 1) & getByteMaskForPosition(2)>>
    BY DEF getContrainedBits
  <2> QED BY <2>1, <2>3, <2>4 DEF Splice
<1>7. /\ Shl(x, 1) = p /\ n = q /\ f31 = Bit(r, 4)
      /\ m \in Byte /\ \A j \in 0 .. 7 : Bit(m, j) = IF j <= 4 THEN Bit(r, j) ELSE 0
  BY <1>2, PartsOfJ
<1> HIDE DEF f8, f1, x, y, f31
<1>8. ConstructJ(f8, f1, <<x, y>>, f31) = <<p, q, IF Bit(r, 4) # 0 THEN Signed(m, 5) ELSE m>>
  <2>1. SignFrom(<<p, q, m>>, 3, 5) = <<p, q, Signed(m, 5)>>
    BY DEF SignFrom, Signed
  <2>2. <<x, y>>[1] = x /\ <<x, y>>[2] = y
    OBVIOUS
  <2>3. <<Shl(x, 1), n, m>> = <<p, q, m>>
    BY <1>7
  <2>4. ConstructJ(f8, f1, <<x, y>>, f31)
          = IF f31 # 0 THEN SignFrom(<<Shl(x, 1), n, m>>, 3, 5) ELSE <<Shl(x, 1), n, m>>
    BY <2>2 DEF ConstructJ
  <2> QED BY <1>7, <2>1, <2>3, <2>4
<1> HIDE DEF m, n
<1>9. (IF Bit(r, 4) # 0 THEN Signed(m, 5) ELSE m) = r
  BY <1>2, <1>3, <1>7, SignRebuilt
<1> QED BY <1>1, <1>4, <1>5, <1>6, <1>8, <1>9

LEMMA RebuiltCases ==
  ASSUME NEW i
  PROVE  /\ i.type = "I" => Rebuilt(i) = ConstructI(<<i.imm[1], i.imm[2] & 15>>)
         /\ i.type = "S" => Rebuilt(i) = ConstructS(ImmS(i.imm, 7)[1], ImmS(i.imm, 25)[1])
         /\ i.type = "B" => Rebuilt(i) = ConstructB(ImmB(i.imm, 7)[1], ImmB(i.imm, 8)[1],
                                                    ImmB(i.imm, 25)[1], ImmB(i.imm, 31)[1])
         /\ i.type = "U" => Rebuilt(i) = ConstructU(getContrainedBits(i.imm, 12, 31))
         /\ i.type = "J" => Rebuilt(i) = ConstructJ(ImmJ(i.imm, 12)[1], ImmJ(i.imm, 20)[1],
                                                    ImmJ(i.imm, 21), ImmJ(i.imm, 31)[1])
         /\ i.type = "R" => Rebuilt(i) = i.imm
<1>1. CASE i.type = "I"
  BY <1>1 DEF Rebuilt
<1>2. CASE i.type = "S"
  BY <1>2 DEF Rebuilt, getImm
<1>3. CASE i.type = "B"
  BY <1>3 DEF Rebuilt, getImm
<1>4. CASE i.type = "U"
  BY <1>4 DEF Rebuilt, getImm
<1>5. CASE i.type = "J"
  BY <1>5 DEF Rebuilt, getImm
<1>6. CASE i.type = "R"
  BY <1>6 DEF Rebuilt
<1> QED BY <1>1, <1>2, <1>3, <1>4, <1>5, <1>6

\* An instruction that is built again from its fields has the immediate it was
\* decoded with, except that a store never has a sign and that LUI and AUIPC
\* have theirs inside the value (getImm and the constructors of
\* instructions/*Type.cpp).
THEOREM InstructionsRebuilt == Spec => []ConstructorsAgree
<1>1. DataInv => ConstructorsAgree
  <2> SUFFICES ASSUME DataInv, stage = "execute" PROVE ConstructorsAgree
    BY DEF ConstructorsAgree
  <2> DEFINE w == fetched
             t == ins.type
             bits == Machine!Bits(w)
  <2>1. w \in Words /\ t \in Types /\ ins.imm = Immediate(t, w)
    BY DecodedWord DEF Fields
  <2>2. \A i \in 0 .. 31 : bits[i] = WordBit(w, i)
    BY <2>1, WordBitsAre
  <2>3. NegativeS(w) <=> \E i \in {26, 27, 29, 30} : bits[i] = 1
    BY DEF NegativeS
  <2>4. (bits[31] = 1 /\ \E i \in 12 .. 15 : bits[i] = 0)
          <=> WordBit(w, 31) = 1 /\ \E i \in 12 .. 15 : WordBit(w, i) = 0
    BY <2>2
  <2> HIDE DEF bits
  <2>5. (t = "I" \/ t = "B" \/ t = "J" \/ t = "R") => Rebuilt(ins) = ins.imm
    <3>1. t = "I" => Rebuilt(ins) = ins.imm
      BY <2>1, ImmediateCases, RebuiltCases, RebuiltI
    <3>2. t = "B" => Rebuilt(ins) = ins.imm
      BY <2>1, ImmediateCases, RebuiltCases, RebuiltB
    <3>3. t = "J" => Rebuilt(ins) = ins.imm
      BY <2>1, ImmediateCases, RebuiltCases, RebuiltJ
    <3>4. t = "R" => Rebuilt(ins) = ins.imm
      BY RebuiltCases
    <3> QED BY <3>1, <3>2, <3>3, <3>4
  <2>6. t = "S" => (Rebuilt(ins) # ins.imm <=> NegativeS(w))
    <3>1. t = "S" => ins.imm = DecodeS(w)
      BY <2>1, ImmediateCases
    <3>2. t = "S" => Rebuilt(ins) = ConstructS(ImmS(ins.imm, 7)[1], ImmS(ins.imm, 25)[1])
      BY RebuiltCases
    <3> QED BY <2>1, <3>1, <3>2, RebuiltS
  <2>7. t = "U" => (Rebuilt(ins) # ins.imm <=> WordBit(w, 31) = 1 /\ \E i \in 12 .. 15 : WordBit(w, i) = 0)
    <3>1. t = "U" => ins.imm = DecodeU(w)
      BY <2>1, ImmediateCases
    <3>2. t = "U" => Rebuilt(ins) = ConstructU(getContrainedBits(ins.imm, 12, 31))
      BY RebuiltCases
    <3> QED BY <2>1, <3>1, <3>2, RebuiltU
  <2>8. Rebuilt(ins) # ins.imm <=>
          \/ t = "S" /\ NegativeS(w)
          \/ t = "U" /\ bits[31] = 1 /\ \E i \in 12 .. 15 : bits[i] = 0
    BY <2>1, <2>4, <2>5, <2>6, <2>7 DEF Types
  <2> QED BY <2>3, <2>8 DEF ConstructorsAgree, bits
<1> QED BY <1>1, DataIsTyped, PTL

-----------------------------------------------------------------------------
(* The interface.                                                          *)

\* An int is a HART's exactly if, as a uint, it is not too large.
LEMMA HartIsThere ==
  ASSUME ConfigType(config), config.numberOfHardwareThreads # 0, NEW n, FitsInt(n)
  PROVE  n % UInt > config.numberOfHardwareThreads - 1
           <=> n \notin 0 .. config.numberOfHardwareThreads - 1
<1>1. PICK t \in Nat : t = config.numberOfHardwareThreads
  BY DEF ConfigType
<1>2. t - 1 \in 0 .. 2^16 - 1
  BY <1>1 DEF ConfigType
<1>3. PICK u \in Nat \ {0} : u = UInt
  BY IntWidths
<1>4. 2 * t <= u /\ n \in Int /\ 2 * n < u /\ -(2 * n) <= u
  <2>1. 2 * 2^16 <= u
    BY <1>3, IntWidths
  <2> QED BY SMT, <1>1, <1>2, <1>3, <2>1 DEF FitsInt
<1>5. n % u = IF n >= 0 THEN n ELSE n + u
  BY <1>4, Unsigned
<1>6. n % u > t - 1 <=> n \notin 0 .. t - 1
  BY <1>1, <1>4, <1>5
<1> QED BY <1>1, <1>3, <1>6

\* main shows the HART that is asked for, and the region that is asked for, or
\* the ones that are always there.
LEMMA CorrectedAsAsked ==
  ASSUME ConfigType(config), config.numberOfHardwareThreads # 0, NEW asked, IntRegion(asked)
  PROVE  LET r == IF Exists(asked) THEN asked
                  ELSE [asked EXCEPT !.start = 0, !.count = defaultMemoryWidth]
         IN  Corrected(asked) =
               [r EXCEPT !.hart = IF @ \in 0 .. config.numberOfHardwareThreads - 1 THEN @ ELSE 0]
<1> DEFINE hart == IF asked.hart % UInt > config.numberOfHardwareThreads - 1 THEN 0 ELSE asked.hart
           r == IF Exists(asked) THEN asked
                ELSE [asked EXCEPT !.start = 0, !.count = defaultMemoryWidth]
<1>1. RegionRefused(config.memorySize, asked.start, asked.count) <=> ~Exists(asked)
  <2>1. config.memorySize \in Nat /\ 2 * config.memorySize < ULong
    BY DefaultWidth
  <2> QED BY <2>1, RefusedIfMissing DEF Exists, IntRegion
<1>2. hart = IF asked.hart \in 0 .. config.numberOfHardwareThreads - 1 THEN asked.hart ELSE 0
  BY HartIsThere DEF IntRegion
<1>3. Corrected(asked) = IF Exists(asked) THEN [asked EXCEPT !.hart = hart]
                         ELSE [start |-> 0, count |-> defaultMemoryWidth, hart |-> hart]
  BY <1>1 DEF Corrected
<1>4. r.hart = asked.hart
  BY DEF IntRegion
<1> HIDE DEF hart
<1>5. Corrected(asked) = [r EXCEPT !.hart = hart]
  <2>1. PICK s, t, u : asked = [start |-> s, count |-> t, hart |-> u]
    BY DEF IntRegion
  <2> DEFINE e == [asked EXCEPT !.start = 0]
             d == [e EXCEPT !.count = defaultMemoryWidth]
  <2>2. e = [start |-> 0, count |-> t, hart |-> u]
    BY <2>1
  <2> HIDE DEF e
  <2>3. CASE Exists(asked)
    BY <1>3, <2>3
  <2>4. CASE ~Exists(asked)
    <3>1. d = [start |-> 0, count |-> defaultMemoryWidth, hart |-> u]
      BY <2>2
    <3>2. r = d
      BY Zenon, <2>4 DEF r, e, d
    <3> HIDE DEF r, d
    <3>3. [r EXCEPT !.hart = hart] = [start |-> 0, count |-> defaultMemoryWidth, hart |-> hart]
      BY <3>1, <3>2
    <3> QED BY Zenon, <1>3, <2>4, <3>3
  <2> QED BY <2>3, <2>4
<1> HIDE DEF r
<1> QED BY <1>2, <1>4, <1>5 DEF r

\* What is shown are the bytes of memory from the start on.
LEMMA ShownAre ==
  ASSUME ConfigType(config), Full, NEW r, IntRegion(r), Exists(r)
  PROVE  /\ Len(getRegion(memory, r.start, r.count)) = IF r.count < 0 THEN 0 ELSE r.count
         /\ \A i \in DOMAIN getRegion(memory, r.start, r.count) :
              getRegion(memory, r.start, r.count)[i] = memory[r.start + i - 1]
<1> DEFINE g == getRegion(memory, r.start, r.count)
<1>1. PICK start \in Int, count \in Int : start = r.start /\ count = r.count
  BY DEF IntRegion, FitsInt
<1>2. PICK n \in Nat : n = IF count > 0 THEN count ELSE 0
  BY <1>1
<1>3. DOMAIN g = 1 .. n /\ \A i \in DOMAIN g : g[i] \in Byte
  BY <1>1, <1>2, ShownBytes
<1>4. \A i \in DOMAIN g : g[i] = memory[start + i - 1]
  BY <1>1 DEF getRegion
<1>5. g = [i \in 1 .. n |-> g[i]]
  BY <1>1, <1>2 DEF getRegion
<1> HIDE DEF g
<1>6. g \in Seq(Byte)
  BY <1>3, <1>5, SeqDef
<1>7. Len(g) = n
  BY <1>3, <1>6, LenProperties
<1> QED BY <1>1, <1>2, <1>4, <1>7 DEF g


-----------------------------------------------------------------------------
(* The invariant of the command line: what the configuration says of the   *)
(* arguments that have been read, and how main goes on with it.            *)

GivenSoFar(option) == {i \in Given(option) : i <= parsed}
LastSoFar(option) == argv[CHOOSE i \in GivenSoFar(option) : \A j \in GivenSoFar(option) : j <= i]

AsRead ==
  /\ \A i \in DOMAIN argv : i <= parsed => ~Malformed(argv[i])
  /\ config.XLEN # 0 <=> GivenSoFar("base-isa") # {}
  /\ T_EXTENSION \in config.extensionSet <=> GivenSoFar("extensions") # {}
  /\ config.pauseOnEntry <=> GivenSoFar("pause") # {}
  /\ config.memorySize = IF GivenSoFar("memory-size") = {} THEN 0
                         ELSE LastSoFar("memory-size").number[1]
  /\ config.numberOfHardwareThreads =
       IF GivenSoFar("hardware-threads") = {} THEN 0
       ELSE LastSoFar("hardware-threads").number[1] % 2^16
  /\ config.fileLocation = IF GivenSoFar("binary") = {} THEN Nothing ELSE LastSoFar("binary").text

HaltAsRead ==
  LET given == haltAddr(LastSoFar("halt").digits)
  IN  /\ config.haltAddr = IF GivenSoFar("halt") = {} THEN <<>>
                           ELSE IF memory = <<>> THEN given ELSE Resize(given, XLEN)
      /\ GivenSoFar("halt") # {} => \E i \in GivenSoFar("halt") : LastSoFar("halt") = argv[i]

ReadInv ==
  Meant =>
    /\ config.returned => /\ config.memorySize = 0 /\ config.numberOfHardwareThreads = 0
                          /\ \E i \in DOMAIN argv : Malformed(argv[i])
    /\ ~config.returned => AsRead /\ HaltAsRead

CanStart == Usable(config) /\ config.fileLocation = file.location

StartInv ==
  /\ stage # "start" => parsed = Len(argv) \/ config.returned
  /\ stage = "refused" => ~CanStart
  /\ stage \notin {"start", "refused"} => CanStart
  /\ stage = "terminated" /\ memory = <<>> => LoadFails(file.contents, config.memorySize)
  /\ memory # <<>> => ~LoadFails(file.contents, config.memorySize)

CommandInv == ReadInv /\ StartInv

LEMMA FoundAsMeant ==
  ASSUME NEW arg, ReadAsMeant(arg)
  PROVE  /\ OptionFound(arg) = arg.option
         /\ arg.option \in {"base-isa", "extensions", "memory-size", "hardware-threads",
              "branch-predictor", "binary", "pause", "runningOutput", "halt", "help"}
<1> DEFINE Found(i) == Keywords[i] \in arg.contains
           First(i) == i \in DOMAIN Keywords /\ Found(i) /\ \A j \in 1 .. i - 1 : ~Found(j)
<1>1. DOMAIN Keywords = 1 .. 10
  BY DEF Keywords
<1>2. PICK k \in DOMAIN Keywords : First(k) /\ Keywords[k] = arg.option
  BY DEF ReadAsMeant
<1>3. \A i \in 1 .. 10 : First(i) => i = k
  <2>1. k \in 1 .. 10 /\ Found(k) /\ \A j \in 1 .. k - 1 : ~Found(j)
    BY <1>1, <1>2
  <2> HIDE DEF Found
  <2>2. ASSUME NEW i \in 1 .. 10, Found(i), \A j \in 1 .. i - 1 : ~Found(j)
        PROVE  i = k
    <3>1. ~(i < k) /\ ~(k < i)
      BY <2>1, <2>2
    <3> QED BY <2>1, <3>1
  <2> QED BY <2>2 DEF Found
<1>4. OptionFound(arg) = Keywords[CHOOSE i \in DOMAIN Keywords : Found(i) /\ \A j \in 1 .. i - 1 : ~Found(j)]
  BY Zenon, <1>2 DEF OptionFound
<1> DEFINE i == CHOOSE i \in DOMAIN Keywords : Found(i) /\ \A j \in 1 .. i - 1 : ~Found(j)
<1>5. First(i)
  BY Zenon, <1>2
<1>6. i = k
  BY <1>1, <1>3, <1>5
<1>7. OptionFound(arg) = arg.option
  BY <1>2, <1>4, <1>6
<1>8. k = 1 \/ k = 2 \/ k = 3 \/ k = 4 \/ k = 5 \/ k = 6 \/ k = 7 \/ k = 8 \/ k = 9 \/ k = 10
  BY <1>1
<1> HIDE DEF i, Found, First
<1> QED BY <1>2, <1>7, <1>8 DEF Keywords

\* What an argument that is read as meant does to the configuration.
LEMMA ParseCases ==
  ASSUME NEW c, NEW arg, ReadAsMeant(arg)
  PROVE  /\ Malformed(arg) => Parse(c, arg) = Refuse(c)
         /\ ~Says(arg) => Parse(c, arg) = c
         /\ Says(arg) /\ ~Malformed(arg) =>
              /\ arg.option # "help"
              /\ arg.option = "base-isa" => Parse(c, arg) = [c EXCEPT !.XLEN = 4]
              /\ arg.option = "extensions" =>
                   Parse(c, arg) = [c EXCEPT !.extensionSet = @ \cup {"T"}]
              /\ arg.option = "memory-size" =>
                   arg.number # <<>> /\ Parse(c, arg) = [c EXCEPT !.memorySize = arg.number[1]]
              /\ arg.option = "hardware-threads" =>
                   /\ arg.number # <<>>
                   /\ Parse(c, arg) = [c EXCEPT !.numberOfHardwareThreads = arg.number[1] % 2^16]
              /\ arg.option \in {"branch-predictor", "runningOutput"} => Parse(c, arg) = c
              /\ arg.option = "binary" => Parse(c, arg) = [c EXCEPT !.fileLocation = arg.text]
              /\ arg.option = "pause" => Parse(c, arg) = [c EXCEPT !.pauseOnEntry = TRUE]
              /\ arg.option = "halt" =>
                   /\ ~(Len(arg.digits) % 2 # 0 \/ Len(arg.digits) > 16)
                   /\ Parse(c, arg) = [c EXCEPT !.haltAddr = haltAddr(arg.digits)]
<1> DEFINE o == arg.option
<1>1. Parse(c, arg) = Apply(c, o, arg)
  BY FoundAsMeant DEF Parse
<1>2. CASE o = "base-isa"
  <2>1. (Says(arg) <=> arg.text = "RV32I") /\ ~Malformed(arg)
    BY Zenon, <1>2 DEF Says, Malformed
  <2> QED BY <1>1, <1>2, <2>1, ApplyCases
<1>3. CASE o = "extensions"
  <2>1. (Says(arg) <=> arg.text = "T") /\ ~Malformed(arg)
    BY Zenon, <1>3 DEF Says, Malformed
  <2> QED BY <1>1, <1>3, <2>1, ApplyCases
<1>4. CASE o = "memory-size"
  <2>1. (Says(arg) <=> arg.text # "") /\ (Malformed(arg) <=> Says(arg) /\ arg.number = <<>>)
    BY Zenon, <1>4 DEF Says, Malformed
  <2>2. /\ Malformed(arg) => WithMemory(c, arg) = Refuse(c)
        /\ ~Says(arg) => WithMemory(c, arg) = c
        /\ Says(arg) /\ ~Malformed(arg) => WithMemory(c, arg) = [c EXCEPT !.memorySize = arg.number[1]]
    BY Zenon, <2>1 DEF WithMemory
  <2>3. Malformed(arg) <=> Says(arg) /\ arg.number = <<>>
    BY Zenon, <2>1
  <2> QED BY <1>1, <1>4, <2>2, <2>3, ApplyCases
<1>5. CASE o = "hardware-threads"
  <2>1. (Says(arg) <=> arg.text # "") /\ (Malformed(arg) <=> Says(arg) /\ arg.number = <<>>)
    BY Zenon, <1>5 DEF Says, Malformed
  <2>2. /\ Malformed(arg) => WithThreads(c, arg) = Refuse(c)
        /\ ~Says(arg) => WithThreads(c, arg) = c
        /\ Says(arg) /\ ~Malformed(arg) =>
             WithThreads(c, arg) = [c EXCEPT !.numberOfHardwareThreads = arg.number[1] % 2^16]
    BY Zenon, <2>1 DEF WithThreads
  <2>3. Malformed(arg) <=> Says(arg) /\ arg.number = <<>>
    BY Zenon, <2>1
  <2> QED BY <1>1, <1>5, <2>2, <2>3, ApplyCases
<1>6. CASE o \in {"branch-predictor", "runningOutput"}
  <2>1. Says(arg) /\ ~Malformed(arg)
    BY Zenon, <1>6 DEF Says, Malformed
  <2>2. Parse(c, arg) = c
    BY <1>1, <1>6, ApplyCases
  <2> QED BY <1>6, <2>1, <2>2
<1>7. CASE o = "binary"
  <2>1. Says(arg) /\ ~Malformed(arg)
    BY Zenon, <1>7 DEF Says, Malformed
  <2> QED BY <1>1, <1>7, <2>1, ApplyCases
<1>8. CASE o = "pause"
  <2>1. Says(arg) /\ ~Malformed(arg)
    BY Zenon, <1>8 DEF Says, Malformed
  <2> QED BY <1>1, <1>8, <2>1, ApplyCases
<1>9. CASE o = "halt"
  <2> DEFINE Bad == Len(arg.digits) % 2 # 0 \/ Len(arg.digits) > 16
  <2>1. (Says(arg) <=> arg.text # "") /\ (Malformed(arg) <=> Says(arg) /\ Bad)
    BY Zenon, <1>9 DEF Says, Malformed
  <2>2. /\ Malformed(arg) => WithHalt(c, arg) = Refuse(c)
        /\ ~Says(arg) => WithHalt(c, arg) = c
        /\ Says(arg) /\ ~Malformed(arg) => WithHalt(c, arg) = [c EXCEPT !.haltAddr = haltAddr(arg.digits)]
    BY Zenon, <2>1 DEF WithHalt
  <2>3. Malformed(arg) <=> Says(arg) /\ Bad
    BY Zenon, <2>1
  <2>4. Parse(c, arg) = WithHalt(c, arg)
    BY Zenon, <1>1, <1>9 DEF Apply
  <2> QED BY <1>9, <2>2, <2>3, <2>4
<1>10. CASE o = "help"
  <2>1. Says(arg) /\ Malformed(arg)
    BY Zenon, <1>10 DEF Says, Malformed
  <2> QED BY <1>1, <1>10, <2>1, ApplyCases
<1> HIDE DEF o
<1>11. o \in {"base-isa", "extensions", "memory-size", "hardware-threads",
              "branch-predictor", "binary", "pause", "runningOutput", "halt", "help"}
  BY FoundAsMeant DEF o
<1> QED BY <1>2, <1>3, <1>4, <1>5, <1>6, <1>7, <1>8, <1>9, <1>10, <1>11

\* The next argument is the last of those that give its option.
LEMMA NextIsLast ==
  ASSUME DataInv, ParseArg, NEW option
  PROVE  LET arg == argv[parsed + 1]
         IN  /\ arg.option = option /\ Says(arg) =>
                  GivenSoFar(option)' # {} /\ LastSoFar(option)' = arg
             /\ ~(arg.option = option /\ Says(arg)) =>
                  /\ GivenSoFar(option)' = GivenSoFar(option)
                  /\ LastSoFar(option)' = LastSoFar(option)
<1> DEFINE arg == argv[parsed + 1]
           n == parsed + 1
<1>1. parsed \in Nat /\ parsed' = n /\ argv' = argv /\ DOMAIN argv = 1 .. Len(argv) /\ Len(argv) \in Nat
      /\ parsed < Len(argv)
  <2>1. argv \in Seq(Argument) /\ parsed \in 0 .. Len(argv)
    BY RunFacts DEF DataInv, RunInv
  <2>2. parsed' = n /\ argv' = argv /\ parsed < Len(argv)
    BY DEF ParseArg
  <2> QED BY <2>1, <2>2, LenProperties
<1>2. \A i \in DOMAIN argv : i <= parsed' <=> i <= parsed \/ i = n
  BY <1>1
<1>3. GivenSoFar(option)' = {i \in Given(option) : i <= parsed'}
  BY <1>1 DEF GivenSoFar, Given
<1>4. n \in Given(option) <=> arg.option = option /\ Says(arg)
  BY <1>1 DEF Given
<1>5. CASE n \in Given(option)
  <2> DEFINE S == {i \in Given(option) : i <= parsed'}
             Top(i) == i \in S /\ \A j \in S : j <= i
  <2>1. n \in S /\ \A j \in S : j \in Int /\ j <= n
    BY <1>1, <1>5 DEF Given
  <2>2. Top(n) /\ \A i : Top(i) => i = n
    <3>1. ASSUME NEW i, Top(i) PROVE i = n
      <4>1. i \in Int /\ n \in Int /\ i <= n /\ n <= i
        BY <1>1, <2>1, <3>1
      <4> QED BY <4>1
    <3> QED BY <2>1, <3>1
  <2>3. LastSoFar(option)' = argv[CHOOSE i \in S : \A j \in S : j <= i]
    BY <1>1, <1>3 DEF LastSoFar
  <2>4. (CHOOSE i \in S : \A j \in S : j <= i) = n
    <3> DEFINE t == CHOOSE i \in S : \A j \in S : j <= i
    <3>1. Top(t)
      BY Zenon, <2>2
    <3> HIDE DEF t, Top
    <3> QED BY <2>2, <3>1 DEF t
  <2> QED BY <1>3, <1>4, <1>5, <2>1, <2>3, <2>4
<1>6. CASE n \notin Given(option)
  <2>1. GivenSoFar(option)' = GivenSoFar(option)
    <3>1. Given(option) \subseteq DOMAIN argv
      BY DEF Given
    <3> QED BY <1>2, <1>3, <1>6, <3>1 DEF GivenSoFar
  <2>2. LastSoFar(option)' = LastSoFar(option)
    BY <1>1, <2>1 DEF LastSoFar
  <2> QED BY <1>4, <1>6, <2>1, <2>2
<1> QED BY <1>5, <1>6

\* Field by field: an argument sets the field of its own option.
ParsedTo(d, c, arg) ==
  LET Sets(option) == arg.option = option /\ Says(arg)
  IN  /\ d.returned = c.returned
      /\ d.XLEN = IF Sets("base-isa") THEN 4 ELSE c.XLEN
      /\ d.extensionSet = IF Sets("extensions") THEN c.extensionSet \cup {"T"} ELSE c.extensionSet
      /\ d.memorySize = IF Sets("memory-size") THEN arg.number[1] ELSE c.memorySize
      /\ d.numberOfHardwareThreads =
           IF Sets("hardware-threads") THEN arg.number[1] % 2^16 ELSE c.numberOfHardwareThreads
      /\ d.fileLocation = IF Sets("binary") THEN arg.text ELSE c.fileLocation
      /\ d.pauseOnEntry = IF Sets("pause") THEN TRUE ELSE c.pauseOnEntry
      /\ d.haltAddr = IF Sets("halt") THEN haltAddr(arg.digits) ELSE c.haltAddr

LEMMA FieldsParsed ==
  ASSUME NEW c, ConfigType(c), NEW arg, ReadAsMeant(arg), ~Malformed(arg)
  PROVE  ParsedTo(Parse(c, arg), c, arg)
<1> DEFINE o == arg.option
<1>1. c = [XLEN |-> c.XLEN, extensionSet |-> c.extensionSet, memorySize |-> c.memorySize,
           numberOfHardwareThreads |-> c.numberOfHardwareThreads,
           fileLocation |-> c.fileLocation, pauseOnEntry |-> c.pauseOnEntry,
           haltAddr |-> c.haltAddr, returned |-> c.returned]
  BY DEF ConfigType
<1>2. CASE ~Says(arg)
  <2>1. Parse(c, arg) = c
    BY <1>2, ParseCases
  <2> QED BY <1>2, <2>1 DEF ParsedTo
<1>3. CASE Says(arg)
  <2>1. CASE o = "base-isa"
    <3>1. Parse(c, arg) = [c EXCEPT !.XLEN = 4]
      BY <1>3, <2>1, ParseCases
    <3> QED BY <1>1, <1>3, <2>1, <3>1 DEF ParsedTo
  <2>2. CASE o = "extensions"
    <3>1. Parse(c, arg) = [c EXCEPT !.extensionSet = @ \cup {"T"}]
      BY <1>3, <2>2, ParseCases
    <3> QED BY <1>1, <1>3, <2>2, <3>1 DEF ParsedTo
  <2>3. CASE o = "memory-size"
    <3>1. Parse(c, arg) = [c EXCEPT !.memorySize = arg.number[1]]
      BY <1>3, <2>3, ParseCases
    <3> QED BY <1>1, <1>3, <2>3, <3>1 DEF ParsedTo
  <2>4. CASE o = "hardware-threads"
    <3>1. Parse(c, arg) = [c EXCEPT !.numberOfHardwareThreads = arg.number[1] % 2^16]
      BY <1>3, <2>4, ParseCases
    <3> QED BY <1>1, <1>3, <2>4, <3>1 DEF ParsedTo
  <2>5. CASE o \in {"branch-predictor", "runningOutput"}
    <3>1. Parse(c, arg) = c
      BY <1>3, <2>5, ParseCases
    <3> QED BY <1>3, <2>5, <3>1 DEF ParsedTo
  <2>6. CASE o = "binary"
    <3>1. Parse(c, arg) = [c EXCEPT !.fileLocation = arg.text]
      BY <1>3, <2>6, ParseCases
    <3> QED BY <1>1, <1>3, <2>6, <3>1 DEF ParsedTo
  <2>7. CASE o = "pause"
    <3>1. Parse(c, arg) = [c EXCEPT !.pauseOnEntry = TRUE]
      BY <1>3, <2>7, ParseCases
    <3> QED BY <1>1, <1>3, <2>7, <3>1 DEF ParsedTo
  <2>8. CASE o = "halt"
    <3>1. Parse(c, arg) = [c EXCEPT !.haltAddr = haltAddr(arg.digits)]
      BY <1>3, <2>8, ParseCases
    <3> QED BY <1>1, <1>3, <2>8, <3>1 DEF ParsedTo
  <2>9. o # "help"
    BY <1>3, ParseCases
  <2> HIDE DEF o
  <2>10. o \in {"base-isa", "extensions", "memory-size", "hardware-threads",
                "branch-predictor", "binary", "pause", "runningOutput", "halt", "help"}
    BY FoundAsMeant DEF o
  <2> QED BY <2>1, <2>2, <2>3, <2>4, <2>5, <2>6, <2>7, <2>8, <2>9, <2>10
<1> QED BY <1>2, <1>3

LEMMA RefusedConfig ==
  ASSUME NEW c, ConfigType(c)
  PROVE  /\ Refuse(c).returned = TRUE /\ Refuse(c).memorySize = 0
         /\ Refuse(c).numberOfHardwareThreads = 0
BY DEF ConfigType, Refuse

\* Reading one more argument keeps what is known of those before.
LEMMA ParseArgReads ==
  ASSUME DataInv, ReadInv, ParseArg
  PROVE  ReadInv'
<1> DEFINE arg == argv[parsed + 1]
           Sets(option) == arg.option = option /\ Says(arg)
<1>1. /\ config' = Parse(config, arg) /\ parsed' = parsed + 1 /\ ~config.returned
      /\ UNCHANGED <<argv, memory>> /\ stage = "start"
  BY DEF ParseArg
<1>2. ConfigType(config) /\ parsed + 1 \in DOMAIN argv /\ parsed \in Nat
  <2>1. argv \in Seq(Argument) /\ parsed \in 0 .. Len(argv) /\ ConfigType(config)
    BY RunFacts DEF DataInv, RunInv
  <2>2. parsed < Len(argv)
    BY DEF ParseArg
  <2> QED BY <2>1, <2>2, LenProperties
<1>3. memory = <<>> /\ memory' = <<>>
  BY <1>1 DEF DataInv, MemoryInv, Blank, Loading
<1> SUFFICES ASSUME Meant'
             PROVE  ReadInv'
  BY DEF ReadInv
<1>4. Meant /\ ReadAsMeant(arg)
  BY <1>1, <1>2 DEF Meant
<1>5. AsRead /\ HaltAsRead
  BY <1>1, <1>4 DEF ReadInv
<1>6. CASE Malformed(arg)
  <2>1. config' = Refuse(config)
    BY <1>1, <1>4, <1>6, ParseCases
  <2>2. \E i \in DOMAIN argv' : Malformed(argv'[i])
    BY <1>1, <1>2, <1>6
  <2>3. config'.returned = TRUE /\ config'.memorySize = 0 /\ config'.numberOfHardwareThreads = 0
    BY <1>2, <2>1, RefusedConfig
  <2> QED BY <2>2, <2>3 DEF ReadInv
<1>7. CASE ~Malformed(arg)
  <2>1. ParsedTo(config', config, arg)
    BY <1>1, <1>2, <1>4, <1>7, FieldsParsed
  <2>2. ASSUME NEW option
        PROVE  /\ Sets(option) => GivenSoFar(option)' # {} /\ LastSoFar(option)' = arg
               /\ ~Sets(option) => /\ GivenSoFar(option)' = GivenSoFar(option)
                                   /\ LastSoFar(option)' = LastSoFar(option)
    BY NextIsLast
  <2>3. config'.returned = FALSE
    <3>1. config'.returned = config.returned /\ config.returned \in BOOLEAN
      BY <1>2, <2>1 DEF ParsedTo, ConfigType
    <3> QED BY <1>1, <3>1
  <2>4. \A i \in DOMAIN argv' : i <= parsed' => ~Malformed(argv'[i])
    <3>1. \A i \in DOMAIN argv : i <= parsed + 1 => i <= parsed \/ i = parsed + 1
      <4>1. DOMAIN argv = 1 .. Len(argv)
        BY RunFacts DEF DataInv, RunInv
      <4> QED BY <1>2, <4>1
    <3>2. \A i \in DOMAIN argv : i <= parsed => ~Malformed(argv[i])
      BY <1>5 DEF AsRead
    <3> QED BY <1>1, <1>7, <3>1, <3>2
  <2>5. config'.XLEN # 0 <=> GivenSoFar("base-isa")' # {}
    <3>1. config'.XLEN = IF Sets("base-isa") THEN 4 ELSE config.XLEN
      BY <2>1 DEF ParsedTo
    <3>2. config.XLEN # 0 <=> GivenSoFar("base-isa") # {}
      BY <1>5 DEF AsRead
    <3> HIDE DEF Sets
    <3>3. CASE Sets("base-isa")
      <4>1. GivenSoFar("base-isa")' # {} /\ config'.XLEN = 4
        BY <2>2, <3>1, <3>3
      <4> QED BY <4>1
    <3>4. CASE ~Sets("base-isa")
      BY <2>2, <3>1, <3>2, <3>4
    <3> QED BY <3>3, <3>4
  <2>6. T_EXTENSION \in config'.extensionSet <=> GivenSoFar("extensions")' # {}
    <3>1. config'.extensionSet = IF Sets("extensions") THEN config.extensionSet \cup {"T"} ELSE config.extensionSet
      BY <2>1 DEF ParsedTo
    <3>2. T_EXTENSION \in config.extensionSet <=> GivenSoFar("extensions") # {}
      BY <1>5 DEF AsRead
    <3> HIDE DEF Sets
    <3> QED BY <2>2, <3>1, <3>2 DEF T_EXTENSION
  <2>7. config'.pauseOnEntry <=> GivenSoFar("pause")' # {}
    <3>1. config'.pauseOnEntry = IF Sets("pause") THEN TRUE ELSE config.pauseOnEntry
      BY <2>1 DEF ParsedTo
    <3>2. config.pauseOnEntry <=> GivenSoFar("pause") # {}
      BY <1>5 DEF AsRead
    <3> HIDE DEF Sets
    <3> QED BY <2>2, <3>1, <3>2
  <2>8. config'.memorySize = IF GivenSoFar("memory-size")' = {} THEN 0
                             ELSE LastSoFar("memory-size")'.number[1]
    <3>1. config'.memorySize = IF Sets("memory-size") THEN arg.number[1] ELSE config.memorySize
      BY <2>1 DEF ParsedTo
    <3>2. config.memorySize = IF GivenSoFar("memory-size") = {} THEN 0
                              ELSE LastSoFar("memory-size").number[1]
      BY <1>5 DEF AsRead
    <3> HIDE DEF Sets, arg
    <3> QED BY <2>2, <3>1, <3>2
  <2>9. config'.numberOfHardwareThreads =
          IF GivenSoFar("hardware-threads")' = {} THEN 0
          ELSE LastSoFar("hardware-threads")'.number[1] % 2^16
    <3>1. config'.numberOfHardwareThreads =
            IF Sets("hardware-threads") THEN arg.number[1] % 2^16 ELSE config.numberOfHardwareThreads
      BY <2>1 DEF ParsedTo
    <3>2. config.numberOfHardwareThreads =
            IF GivenSoFar("hardware-threads") = {} THEN 0
            ELSE LastSoFar("hardware-threads").number[1] % 2^16
      BY <1>5 DEF AsRead
    <3> HIDE DEF Sets, arg
    <3> QED BY <2>2, <3>1, <3>2
  <2>10. config'.fileLocation = IF GivenSoFar("binary")' = {} THEN Nothing ELSE LastSoFar("binary")'.text
    <3>1. config'.fileLocation = IF Sets("binary") THEN arg.text ELSE config.fileLocation
      BY <2>1 DEF ParsedTo
    <3>2. config.fileLocation = IF GivenSoFar("binary") = {} THEN Nothing ELSE LastSoFar("binary").text
      BY <1>5 DEF AsRead
    <3> HIDE DEF Sets, arg
    <3> QED BY <2>2, <3>1, <3>2
  <2>11. AsRead'
    BY <2>4, <2>5, <2>6, <2>7, <2>8, <2>9, <2>10 DEF AsRead
  <2>12. HaltAsRead'
    <3>1. config'.haltAddr = IF Sets("halt") THEN haltAddr(arg.digits) ELSE config.haltAddr
      BY <2>1 DEF ParsedTo
    <3>2. config.haltAddr = IF GivenSoFar("halt") = {} THEN <<>> ELSE haltAddr(LastSoFar("halt").digits)
      BY <1>3, <1>5 DEF HaltAsRead
    <3>4. GivenSoFar("halt")' # {} =>
            \E i \in GivenSoFar("halt")' : LastSoFar("halt")' = argv'[i]
      <4>1. CASE Sets("halt")
        <5>1. parsed + 1 \in GivenSoFar("halt")'
          BY <1>1, <1>2, <4>1 DEF GivenSoFar, Given
        <5>2. LastSoFar("halt")' = argv'[parsed + 1]
          BY <1>1, <2>2, <4>1
        <5> QED BY <5>1, <5>2
      <4>2. CASE ~Sets("halt")
        <5>1. GivenSoFar("halt") # {} => \E i \in GivenSoFar("halt") : LastSoFar("halt") = argv[i]
          BY <1>5 DEF HaltAsRead
        <5>2. GivenSoFar("halt")' = GivenSoFar("halt") /\ LastSoFar("halt")' = LastSoFar("halt")
          BY <2>2, <4>2
        <5> QED BY <1>1, <5>1, <5>2
      <4> QED BY <4>1, <4>2
    <3> HIDE DEF Sets, arg
    <3>3. config'.haltAddr = IF GivenSoFar("halt")' = {} THEN <<>> ELSE haltAddr(LastSoFar("halt")'.digits)
      BY <2>2, <3>1, <3>2
    <3> QED BY <1>3, <3>3, <3>4 DEF HaltAsRead
  <2> QED BY <2>3, <2>11, <2>12 DEF ReadInv
<1> QED BY <1>6, <1>7

\* A memory with at least one byte is not the empty sequence.
LEMMA SomeMemory ==
  ASSUME NEW size \in Nat, size # 0, NEW m, m \in [0 .. size - 1 -> Byte]
  PROVE  m # <<>> /\ 0 \in DOMAIN m
<1>1. DOMAIN m = 0 .. size - 1 /\ 0 \in 0 .. size - 1
  OBVIOUS
<1>2. DOMAIN (<<>>) = 1 .. 0 /\ 0 \notin 1 .. 0
  OBVIOUS
<1> QED BY <1>1, <1>2

LEMMA MemoryIsThere ==
  ASSUME DataInv, stage \notin Loading \cup {"terminated"}
  PROVE  Full /\ memory # <<>>
<1>1. Full
  BY DEF DataInv, MemoryInv
<1>2. PICK size \in Nat : size = config.memorySize /\ size # 0
  BY <1>1, DefaultWidth DEF DataInv, RunInv, Full
<1>3. memory \in [0 .. size - 1 -> Byte]
  BY <1>1, <1>2 DEF Full
<1> QED BY <1>1, <1>2, <1>3, SomeMemory

LEMMA HaltIsThere == \A digits : haltAddr(digits) # <<>>
<1> SUFFICES ASSUME NEW digits PROVE haltAddr(digits) # <<>>
  OBVIOUS
<1>1. DOMAIN haltAddr(digits) = 1 .. 8
  BY DEF haltAddr
<1>2. DOMAIN (<<>>) = 1 .. 0
  OBVIOUS
<1>3. 1 \in 1 .. 8 /\ 1 \notin 1 .. 0
  OBVIOUS
<1> QED BY <1>1, <1>2, <1>3

LEMMA InitCommand == Init => CommandInv
<1> SUFFICES ASSUME Init PROVE CommandInv
  OBVIOUS
<1>1. stage = "start" /\ memory = <<>> /\ parsed = 0 /\ config = Config
  BY DEF Init
<1>2. StartInv
  BY <1>1 DEF StartInv
<1>3. DOMAIN argv = 1 .. Len(argv) /\ Len(argv) \in Nat
  <2>1. argv \in Seq(Argument)
    BY InitData, RunFacts DEF DataInv, RunInv
  <2> QED BY <2>1, LenProperties
<1>4. \A option : GivenSoFar(option) = {}
  BY <1>1, <1>3 DEF GivenSoFar, Given
<1>5. config = [XLEN |-> 0, extensionSet |-> {}, memorySize |-> 0, numberOfHardwareThreads |-> 0,
        fileLocation |-> Nothing, pauseOnEntry |-> FALSE, haltAddr |-> <<>>, returned |-> FALSE]
  BY Zenon, <1>1 DEF Config, Nothing
<1>6. /\ config.XLEN = 0 /\ config.extensionSet = {} /\ config.memorySize = 0
      /\ config.numberOfHardwareThreads = 0 /\ config.fileLocation = Nothing
      /\ config.pauseOnEntry = FALSE /\ config.haltAddr = <<>> /\ config.returned = FALSE
  BY <1>5
<1>7. \A i \in DOMAIN argv : ~(i <= parsed)
  BY <1>1, <1>3
<1>8. AsRead /\ HaltAsRead
  BY <1>4, <1>6, <1>7 DEF AsRead, HaltAsRead
<1>9. ReadInv
  BY <1>6, <1>8 DEF ReadInv
<1> QED BY <1>2, <1>9 DEF CommandInv

\* The configuration is read once.
LEMMA ReadStays ==
  ASSUME ReadInv, UNCHANGED <<argv, parsed, config>>, memory = <<>> <=> memory' = <<>>
  PROVE  ReadInv'
<1>1. /\ \A option : GivenSoFar(option)' = GivenSoFar(option)
      /\ \A option : LastSoFar(option)' = LastSoFar(option)
  BY DEF GivenSoFar, LastSoFar, Given
<1>2. Meant' <=> Meant
  BY DEF Meant
<1>3. AsRead => AsRead'
  BY <1>1 DEF AsRead
<1>4. HaltAsRead => HaltAsRead'
  BY <1>1 DEF HaltAsRead
<1> QED BY <1>2, <1>3, <1>4 DEF ReadInv

LEMMA StutterCommand ==
  ASSUME CommandInv, UNCHANGED vars
  PROVE  CommandInv'
<1>1. ReadInv'
  BY ReadStays DEF CommandInv, vars
<1>2. StartInv'
  BY DEF CommandInv, vars, StartInv, CanStart
<1> QED BY <1>1, <1>2 DEF CommandInv

LEMMA ParseArgCommand ==
  ASSUME DataInv, CommandInv, ParseArg
  PROVE  CommandInv'
<1>1. ReadInv'
  BY ParseArgReads DEF CommandInv
<1>2. stage' = "start" /\ memory' = <<>>
  BY DEF ParseArg, DataInv, MemoryInv, Blank, Loading
<1> QED BY <1>1, <1>2 DEF CommandInv, StartInv

LEMMA ParsedArgsCommand ==
  ASSUME DataInv, CommandInv, ParsedArgs
  PROVE  CommandInv'
<1>1. /\ stage = "start" /\ (parsed = Len(argv) \/ config.returned)
      /\ stage' = IF CanStart THEN "load" ELSE "refused"
      /\ UNCHANGED <<argv, file, parsed, config, memory>>
  BY DEF ParsedArgs, CanStart
<1>2. memory' = <<>>
  BY <1>1 DEF DataInv, MemoryInv, Blank, Loading
<1>3. CanStart' <=> CanStart
  BY <1>1 DEF CanStart
<1>4. StartInv'
  BY <1>1, <1>2, <1>3 DEF StartInv
<1>5. ReadInv'
  BY <1>1, ReadStays DEF CommandInv
<1> QED BY <1>4, <1>5 DEF CommandInv

LEMMA LoadCommand ==
  ASSUME DataInv, CommandInv, Load
  PROVE  CommandInv'
<1>1. /\ stage = "load" /\ UNCHANGED <<argv, file, parsed>> /\ memory = <<>>
  BY DEF Load, DataInv, MemoryInv, Loading, Blank
<1>2. CanStart /\ (parsed = Len(argv) \/ config.returned)
  BY <1>1 DEF CommandInv, StartInv
<1>3. CASE LoadFails(file.contents, config.memorySize)
  <2>1. stage' = "terminated" /\ UNCHANGED <<config, memory>>
    BY <1>3 DEF Load
  <2>2. ReadInv'
    BY <1>1, <2>1, ReadStays DEF CommandInv
  <2>3. CanStart'
    BY <1>1, <1>2, <2>1 DEF CanStart
  <2>4. StartInv'
    BY <1>1, <1>2, <1>3, <2>1, <2>3 DEF StartInv
  <2> QED BY <2>2, <2>4 DEF CommandInv
<1>4. CASE ~LoadFails(file.contents, config.memorySize)
  <2>1. /\ stage' = "fetch"
        /\ config' = [config EXCEPT !.haltAddr = IF @ = <<>> THEN @ ELSE Resize(@, XLEN)]
    BY <1>4 DEF Load
  <2>2. memory' # <<>>
    <3>1. DataInv' /\ stage' \notin Loading \cup {"terminated"}
      BY <2>1, LoadData DEF Loading
    <3>2. ASSUME DataInv', stage' \notin Loading' \cup {"terminated"} PROVE memory' # <<>>
      <4>1. Full'
        BY <3>2 DEF DataInv, MemoryInv
      <4>2. ConfigType(config')
        BY <3>2 DEF DataInv, RunInv
      <4>3. config'.memorySize \in Nat /\ config'.memorySize # 0
        BY <4>1, <4>2, MemoryAssumption, BoundIsNat DEF ConfigType, MemorySizes, Full
      <4>4. PICK size \in Nat : size = config'.memorySize /\ size # 0
        BY <4>3
      <4>5. memory' \in [0 .. size - 1 -> Byte]
        BY <4>1, <4>4 DEF Full
      <4> QED BY <4>4, <4>5, SomeMemory
    <3> QED BY <3>1, <3>2 DEF Loading
  <2>3. /\ config'.XLEN = config.XLEN /\ config'.extensionSet = config.extensionSet
        /\ config'.memorySize = config.memorySize /\ config'.fileLocation = config.fileLocation
        /\ config'.numberOfHardwareThreads = config.numberOfHardwareThreads
        /\ config'.pauseOnEntry = config.pauseOnEntry /\ config'.returned = config.returned
        /\ config'.haltAddr = IF config.haltAddr = <<>> THEN <<>> ELSE Resize(config.haltAddr, XLEN)
    BY <2>1 DEF DataInv, RunInv, ConfigType
  <2>4. CanStart'
    BY Zenon, <1>1, <1>2, <2>3 DEF CanStart, Usable
  <2>5. StartInv'
    BY <1>1, <1>2, <1>4, <2>1, <2>2, <2>3, <2>4 DEF StartInv
  <2>6. /\ \A option : GivenSoFar(option)' = GivenSoFar(option)
        /\ \A option : LastSoFar(option)' = LastSoFar(option)
    BY <1>1 DEF GivenSoFar, LastSoFar, Given
  <2>7. Meant' <=> Meant
    BY <1>1 DEF Meant
  <2>8. AsRead => AsRead'
    BY <1>1, <2>3, <2>6 DEF AsRead
  <2>9. HaltAsRead => HaltAsRead'
    BY <1>1, <2>2, <2>3, <2>6, HaltIsThere DEF HaltAsRead
  <2>10. ReadInv'
    BY <1>1, <2>3, <2>7, <2>8, <2>9 DEF CommandInv, ReadInv
  <2> QED BY <2>5, <2>10 DEF CommandInv
<1> QED BY <1>3, <1>4

\* Once it is loaded, nothing of what was asked for changes.
LEMMA RunCommand ==
  ASSUME DataInv, CommandInv, DataInv', UNCHANGED <<argv, file, parsed, config>>,
         stage \notin Loading \cup {"terminated"}, stage' \notin Loading, memory' # <<>>
  PROVE  CommandInv'
<1>1. memory # <<>>
  BY MemoryIsThere
<1>2. ReadInv'
  BY <1>1, ReadStays DEF CommandInv
<1>3. CanStart'
  BY DEF CommandInv, StartInv, CanStart, Loading
<1>4. StartInv'
  BY <1>1, <1>3 DEF CommandInv, StartInv, Loading
<1> QED BY <1>2, <1>4 DEF CommandInv

LEMMA OthersCommand ==
  ASSUME DataInv, CommandInv, DataInv',
         Fetch \/ Decode \/ Execute \/ MemoryAccess \/ Writeback \/ Command
  PROVE  CommandInv'
<1>1. UNCHANGED <<argv, file, parsed, config>> /\ stage \notin Loading \cup {"terminated"}
  BY DEF Fetch, Decode, Execute, MemoryAccess, Writeback, Command, Loading
<1>2. stage' \notin Loading
  <2>1. CASE Fetch
    BY <2>1 DEF Fetch, Loading
  <2>2. CASE Decode
    BY <2>2 DEF Decode, Loading
  <2>3. CASE Execute
    BY <2>3 DEF Execute, Loading
  <2>4. CASE MemoryAccess
    BY <2>4 DEF MemoryAccess, Loading
  <2>5. CASE Writeback \/ Command
    BY <2>5 DEF Writeback, Command, Loading
  <2> QED BY <2>1, <2>2, <2>3, <2>4, <2>5
<1>3. memory' # <<>>
  <2>1. CASE ~MemoryAccess
    <3>1. memory' = memory
      BY <2>1 DEF Fetch, Decode, Execute, Writeback, Command
    <3> QED BY <1>1, <3>1, MemoryIsThere
  <2>2. CASE MemoryAccess
    <3>1. stage' \notin Loading \cup {"terminated"}
      BY <2>2 DEF MemoryAccess, Loading
    <3>2. Full'
      BY <3>1 DEF DataInv, MemoryInv, Loading
    <3>3. config'.memorySize \in Nat /\ config'.memorySize # 0
      BY <3>2, MemoryAssumption, BoundIsNat DEF DataInv, RunInv, ConfigType, MemorySizes, Full
    <3>4. PICK size \in Nat : size = config'.memorySize /\ size # 0
      BY <3>3
    <3>5. memory' \in [0 .. size - 1 -> Byte]
      BY <3>2, <3>4 DEF Full
    <3> QED BY <3>4, <3>5, SomeMemory
  <2> QED BY <2>1, <2>2
<1> QED BY <1>1, <1>2, <1>3, RunCommand

\* What the emulator starts with is what the arguments that it has read say.
THEOREM CommandLineIsRead == Spec => [](DataInv /\ CommandInv)
<1> DEFINE Inv == DataInv /\ CommandInv
<1>1. Init => Inv
  BY InitData, InitCommand
<1>2. Inv /\ [Next]_vars => Inv'
  <2> SUFFICES ASSUME Inv, [Next]_vars PROVE Inv'
    OBVIOUS
  <2>1. DataInv'
    BY StutterData, ParseArgData, ParsedArgsData, LoadData, FetchData, DecodeData, ExecuteData,
       MemoryAccessData, WritebackData, CommandData DEF Next
  <2>2. CommandInv'
    BY <2>1, StutterCommand, ParseArgCommand, ParsedArgsCommand, LoadCommand, OthersCommand DEF Next
  <2> QED BY <2>1, <2>2
<1> HIDE DEF Inv
<1>3. Spec => []Inv
  BY <1>1, <1>2, PTL DEF Spec
<1> QED BY <1>3 DEF Inv

LEMMA OutcomeIs ==
  ASSUME DataInv
  PROVE  /\ Outcome = "loading" <=> stage \in {"start", "load"}
         /\ Outcome = "refused" <=> stage = "refused" \/ (stage = "terminated" /\ memory = <<>>)
         /\ Started => stage \notin Loading /\ memory # <<>> /\ Full
<1>1. CASE stage \in {"start", "load"}
  <2>1. Outcome = "loading"
    BY <1>1, Zenon DEF Outcome
  <2> QED BY <1>1, <2>1 DEF Started
<1>2. CASE stage = "refused" \/ (stage = "terminated" /\ memory = <<>>)
  <2>1. Outcome = "refused"
    BY <1>2, Zenon DEF Outcome
  <2> QED BY <1>2, <2>1 DEF Started
<1>3. CASE stage \in {"exception", "terminated"} /\ memory # <<>>
  <2>1. Outcome = "exception"
    BY <1>3, Zenon DEF Outcome
  <2>2. Full
    BY <1>3 DEF DataInv, MemoryInv, Loading, Blank
  <2> QED BY <1>3, <2>1, <2>2 DEF Started, Loading
<1>4. CASE stage \notin Loading \cup {"terminated"}
  <2>1. Full /\ memory # <<>>
    BY <1>4, MemoryIsThere
  <2>2. Outcome \in {"exception", "halted", "running"}
    <3>1. CASE stage = "exception"
      BY <2>1, <3>1, Zenon DEF Outcome
    <3>2. CASE stage = "halted"
      BY <3>2, Zenon DEF Outcome
    <3>3. CASE stage \notin {"exception", "halted"}
      <4>1. stage \notin {"start", "load", "refused", "terminated", "exception", "halted"}
        BY <1>4, <3>3 DEF Loading
      <4>2. Outcome = "running"
        BY <4>1, Zenon DEF Outcome
      <4> QED BY <4>2
    <3> QED BY <3>1, <3>2, <3>3
  <2> QED BY <1>4, <2>1, <2>2 DEF Loading
<1> QED BY <1>1, <1>2, <1>3, <1>4 DEF Loading

\* When all arguments have been read, the last of those is the last there is.
LEMMA AllAreRead ==
  ASSUME DataInv, parsed = Len(argv)
  PROVE  /\ \A i \in DOMAIN argv : i <= parsed
         /\ \A option : GivenSoFar(option) = Given(option) /\ LastSoFar(option) = LastGiven(option)
<1>1. argv \in Seq(Argument)
  BY RunFacts DEF DataInv, RunInv
<1>2. \A i \in DOMAIN argv : i <= parsed
  BY <1>1
<1>3. \A option : GivenSoFar(option) = Given(option)
  BY <1>2 DEF GivenSoFar, Given
<1> QED BY <1>2, <1>3 DEF LastSoFar, LastGiven

LEMMA FileFacts ==
  ASSUME DataInv
  PROVE  /\ file.location # Nothing /\ Len(file.contents) \in Nat
         /\ \A size \in Nat : LoadFails(file.contents, size) <=> Len(file.contents) >= size
<1>1. PICK run \in Runs :
        argv = run.argv /\ file = [location |-> run.location, contents |-> run.contents]
  BY DEF DataInv, RunInv, RunChosen
<1>2. run.location # Nothing
  BY Zenon, DatapathAssumption DEF Nothing
<1>3. file.location = run.location
  BY <1>1
<1>4. file.contents \in Seq(Byte)
  BY RunFacts DEF DataInv, RunInv
<1>5. Len(BytesRead(file.contents)) = Len(file.contents) + 1 /\ Len(file.contents) \in Nat
  BY <1>4 DEF BytesRead
<1> QED BY <1>2, <1>3, <1>5 DEF LoadFails

LEMMA StartsIfAsked ==
  ASSUME DataInv, CommandInv
  PROVE  StartsAsAsked
<1> SUFFICES ASSUME stage \notin {"start", "load"}, Meant
             PROVE  StartsAsAsked
  BY DEF StartsAsAsked
<1>1. (parsed = Len(argv) \/ config.returned) /\ ReadInv
  BY DEF CommandInv, StartInv
<1>2. config.memorySize \in Nat /\ ConfigType(config)
  BY DefaultWidth DEF DataInv, RunInv
<1>3. CASE Outcome = "refused"
  <2>1. CASE config.returned
    <3>1. \E i \in DOMAIN argv : Malformed(argv[i])
      BY <1>1, <2>1 DEF ReadInv
    <3> QED BY Zenon, <1>3, <3>1 DEF StartsAsAsked
  <2>2. CASE ~config.returned
    <3>1. /\ config.XLEN # 0 <=> Given("base-isa") # {}
          /\ config.memorySize = NumberGiven("memory-size")
          /\ config.numberOfHardwareThreads =
               IF Given("hardware-threads") = {} THEN 0 ELSE NumberGiven("hardware-threads") % 2^16
          /\ config.fileLocation = IF Given("binary") = {} THEN Nothing ELSE LastGiven("binary").text
      <4>1. \A option : GivenSoFar(option) = Given(option) /\ LastSoFar(option) = LastGiven(option)
        BY <1>1, <2>2, AllAreRead
      <4>2. AsRead
        BY <1>1, <2>2 DEF ReadInv
      <4> QED BY <4>1, <4>2 DEF AsRead, NumberGiven
    <3>2. CASE ~CanStart
      <4>1. \/ config.numberOfHardwareThreads = 0 \/ config.memorySize = 0 \/ config.XLEN = 0
            \/ config.fileLocation = Nothing \/ config.fileLocation # file.location
        BY Zenon, <3>2 DEF CanStart, Usable, Nothing
      <4>2. \/ Given("base-isa") = {} \/ Given("memory-size") = {} \/ Given("hardware-threads") = {}
            \/ Given("binary") = {} \/ LastGiven("binary").text # file.location
            \/ Len(file.contents) >= NumberGiven("memory-size")
            \/ NumberGiven("hardware-threads") % 2^16 = 0
        BY <3>1, <4>1, FileFacts
      <4> QED BY Zenon, <1>3, <4>2 DEF StartsAsAsked
    <3>3. CASE CanStart
      <4>1. stage = "terminated" /\ memory = <<>>
        BY <1>3, <3>3, OutcomeIs DEF CommandInv, StartInv
      <4>2. Len(file.contents) >= NumberGiven("memory-size")
        BY <1>2, <3>1, <4>1, FileFacts DEF CommandInv, StartInv
      <4> QED BY Zenon, <1>3, <4>2 DEF StartsAsAsked
    <3> QED BY <3>2, <3>3
  <2> QED BY <2>1, <2>2
<1>4. CASE Outcome # "refused"
  <2>1. stage \notin {"start", "refused"} /\ memory # <<>> /\ CanStart
    BY <1>4, OutcomeIs DEF CommandInv, StartInv, Started
  <2>2. config.memorySize # 0 /\ config.numberOfHardwareThreads # 0
    BY Zenon, <2>1 DEF CanStart, Usable
  <2>3. ~config.returned
    BY <1>1, <2>2 DEF ReadInv
  <2>4. \A option : GivenSoFar(option) = Given(option) /\ LastSoFar(option) = LastGiven(option)
    BY <1>1, <2>3, AllAreRead
  <2>5. AsRead /\ \A i \in DOMAIN argv : ~Malformed(argv[i])
    BY <1>1, <2>3, AllAreRead DEF ReadInv, AsRead
  <2>6. /\ config.memorySize = NumberGiven("memory-size")
        /\ config.numberOfHardwareThreads = NumberGiven("hardware-threads") % 2^16
        /\ config.pauseOnEntry <=> Given("pause") # {}
        /\ T_EXTENSION \in config.extensionSet <=> Given("extensions") # {}
    BY <2>2, <2>4, <2>5 DEF AsRead, NumberGiven
  <2>7. Len(file.contents) < config.memorySize
    BY <1>2, <2>1, FileFacts DEF CommandInv, StartInv
  <2> QED BY Zenon, <1>4, <2>5, <2>6, <2>7 DEF StartsAsAsked
<1> QED BY <1>3, <1>4

\* For every command line whose arguments are read as meant, the emulator starts
\* exactly with what the last argument of each option asks for, and does not
\* start with a malformed argument, without a needed one or with a file that
\* does not leave a byte of memory free (parseArgs, main, loadFile).
THEOREM StartedAsAsked == Spec => []StartsAsAsked
<1>1. DataInv /\ CommandInv => StartsAsAsked
  BY StartsIfAsked
<1> QED BY <1>1, CommandLineIsRead, PTL

LEMMA EightBytes ==
  ASSUME NEW h \in [1 .. 8 -> Byte]
  PROVE  Len(h) = 8
<1>1. h \in [1 .. 8 -> Byte] /\ 8 \in Nat
  OBVIOUS
<1>2. h \in Seq(Byte)
  BY <1>1, SeqDef
<1> QED BY <1>1, <1>2, LenProperties

\* The bytes of a halt address: the first is the first pair of digits, and so
\* is each one of an address of at most four digits.
LEMMA HaltBytes ==
  ASSUME NEW digits \in Seq(0 .. 16), Len(digits) % 2 = 0, Len(digits) <= 16
  PROVE  LET Pair(k) == IF 2 * k <= Len(digits) THEN 16 * digits[2 * k - 1] + digits[2 * k] ELSE 0
             read == Resize(haltAddr(digits), XLEN)
             hex == \A j \in DOMAIN digits : digits[j] # NoDigit
         IN  /\ read # <<>>
             /\ hex => read[1] = Pair(1)
             /\ hex /\ Len(digits) <= 4 => \A k \in 1 .. XLEN : read[k] = Pair(k)
<1> DEFINE Pair(k) == IF 2 * k <= Len(digits) THEN 16 * digits[2 * k - 1] + digits[2 * k] ELSE 0
           read == Resize(haltAddr(digits), XLEN)
           i(k) == 2 * (k - 1)
           end(k) == IF i(k) + i(k) + 2 <= Len(digits) THEN i(k) + i(k) + 2 ELSE Len(digits)
<1>1. PICK n \in Nat : n = Len(digits) /\ n % 2 = 0 /\ n <= 16
  BY LenProperties
<1>2. \A k \in 1 .. 8 : haltAddr(digits)[k] =
        IF i(k) < Len(digits) THEN ByteRead(digits, i(k) + 1, end(k)) ELSE 0
  BY DEF haltAddr
<1>3. Len(haltAddr(digits)) = 8
  <2>1. haltAddr(digits) \in [1 .. 8 -> Byte]
    BY HaltAddrType
  <2>2. PICK h \in [1 .. 8 -> Byte] : h = haltAddr(digits)
    BY <2>1
  <2> QED BY <2>2, EightBytes
<1>4. \A k \in 1 .. 4 : read[k] = haltAddr(digits)[k]
  BY <1>3 DEF Resize, XLEN
<1>5. read # <<>>
  <2>1. DOMAIN read = 1 .. 4
    BY DEF Resize, XLEN
  <2>2. DOMAIN (<<>>) = 1 .. 0 /\ 1 \in 1 .. 4 /\ 1 \notin 1 .. 0
    OBVIOUS
  <2> QED BY <2>1, <2>2
<1> DEFINE hex == \A j \in DOMAIN digits : digits[j] # NoDigit
<1>6. ASSUME NEW k \in 1 .. 4, k = 1 \/ n <= 4, hex
      PROVE  read[k] = Pair(k)
  <2>1. read[k] = IF i(k) < n THEN ByteRead(digits, i(k) + 1, end(k)) ELSE 0
    <3> HIDE DEF i, end
    <3>1. k \in 1 .. 8 /\ read[k] = haltAddr(digits)[k]
      BY <1>4
    <3> QED BY <1>1, <1>2, <3>1
  <2>2. i(k) < n <=> 2 * k <= n
    BY <1>1
  <2>3. i(k) < n => end(k) = 2 * k
    BY <1>1, <1>6
  <2>4. ASSUME 2 * k <= n
        PROVE  ByteRead(digits, 2 * k - 1, 2 * k) = 16 * digits[2 * k - 1] + digits[2 * k]
    <3>1. PICK f \in Nat, l \in Nat : f = 2 * k - 1 /\ l = 2 * k
      OBVIOUS
    <3>2. \A j \in f .. l : digits[j] \in 0 .. 16 /\ digits[j] # NoDigit
      <4>1. DOMAIN digits = 1 .. n /\ \A j \in 1 .. n : digits[j] \in 0 .. 16
        BY <1>1, LenProperties, ElementOfSeq
      <4>2. \A j \in f .. l : j \in 1 .. n
        BY <1>1, <2>4, <3>1
      <4> QED BY <1>6, <4>1, <4>2
    <3>3. f < l /\ l <= f + 7 /\ l - 1 = f
      BY <3>1
    <3>4. ByteRead(digits, f, l) = 16 * digits[l - 1] + digits[l]
      BY <3>2, <3>3, ByteIsRead
    <3> QED BY <3>1, <3>3, <3>4
  <2>5. i(k) + 1 = 2 * k - 1
    OBVIOUS
  <2> HIDE DEF read, i, end
  <2> QED BY <1>1, <2>1, <2>2, <2>3, <2>4, <2>5
<1> HIDE DEF read
<1>7. /\ hex => read[1] = Pair(1)
      /\ hex /\ Len(digits) <= 4 => \A k \in 1 .. XLEN : read[k] = Pair(k)
  BY <1>1, <1>6 DEF XLEN
<1> QED BY <1>5, <1>7 DEF read

LEMMA ReadsHaltAddress ==
  ASSUME DataInv, CommandInv
  PROVE  HaltAddressRead
<1> DEFINE digits == LastGiven("halt").digits
           Pair(k) == IF 2 * k <= Len(digits) THEN 16 * digits[2 * k - 1] + digits[2 * k] ELSE 0
<1> SUFFICES ASSUME Started, Meant
             PROVE  /\ config.haltAddr = <<>> <=> Given("halt") = {}
                    /\ config.haltAddr # <<>> /\ (\A i \in DOMAIN digits : digits[i] # NoDigit) =>
                         /\ config.haltAddr[1] = Pair(1)
                         /\ Len(digits) <= 4 => \A k \in 1 .. XLEN : config.haltAddr[k] = Pair(k)
  BY DEF HaltAddressRead
<1>1. stage \notin {"start", "refused"} /\ memory # <<>> /\ CanStart
  BY OutcomeIs DEF CommandInv, StartInv, Loading
<1>2. config.memorySize # 0
  BY Zenon, <1>1 DEF CanStart, Usable
<1>3. parsed = Len(argv) /\ AsRead /\ HaltAsRead
  BY <1>1, <1>2 DEF CommandInv, StartInv, ReadInv
<1>4. /\ config.haltAddr = IF Given("halt") = {} THEN <<>> ELSE Resize(haltAddr(digits), XLEN)
      /\ Given("halt") # {} => \E i \in Given("halt") : LastGiven("halt") = argv[i]
  BY <1>1, <1>3, AllAreRead DEF HaltAsRead
<1>5. CASE Given("halt") = {}
  BY <1>4, <1>5
<1>6. CASE Given("halt") # {}
  <2>1. PICK i \in DOMAIN argv : digits = argv[i].digits /\ argv[i].option = "halt" /\ Says(argv[i])
    BY <1>4, <1>6 DEF Given
  <2>2. ~Malformed(argv[i]) /\ ReadAsMeant(argv[i]) /\ argv[i] \in Argument
    <3>1. argv \in Seq(Argument)
      BY RunFacts DEF DataInv, RunInv
    <3> QED BY <1>3, <2>1, <3>1, AllAreRead DEF AsRead, Meant
  <2>3. digits \in Seq(0 .. 16)
    BY <2>1, <2>2 DEF Argument, NoDigit
  <2>4. ~(Len(digits) % 2 # 0 \/ Len(digits) > 16)
    BY <2>1, <2>2, ParseCases
  <2> HIDE DEF digits
  <2>5. Len(digits) % 2 = 0 /\ Len(digits) <= 16
    BY <2>3, <2>4, LenProperties
  <2>6. config.haltAddr = Resize(haltAddr(digits), XLEN)
    BY <1>4, <1>6 DEF digits
  <2> QED BY <1>6, <2>3, <2>5, <2>6, HaltBytes
<1> QED BY <1>5, <1>6

\* For every command line, HARTs get a halt address only if one was given, and
\* read the last one pair by pair, if it is hexadecimal: its first byte always,
\* all of it if it has at most four digits (parseArgs, HART::HART).
THEOREM HaltIsRead == Spec => []HaltAddressRead
<1>1. DataInv /\ CommandInv => HaltAddressRead
  BY ReadsHaltAddress
<1> QED BY <1>1, CommandLineIsRead, PTL

-----------------------------------------------------------------------------

LEMMA CommandShows ==
  ASSUME DataInv, CommandInv, Command
  PROVE  \E asked \in Asks :
           LET r == IF Exists(asked) THEN asked
                    ELSE [asked EXCEPT !.start = 0, !.count = defaultMemoryWidth]
           IN  /\ region' = [r EXCEPT !.hart = IF @ \in 0 .. config.numberOfHardwareThreads - 1
                                                THEN @ ELSE 0]
               /\ Len(shown') = IF r.count < 0 THEN 0 ELSE r.count
               /\ \A i \in DOMAIN shown' : shown'[i] = memory[r.start + i - 1]
<1>1. stage = "fetch" /\ Full /\ ConfigType(config)
  BY DEF Command, DataInv, MemoryInv, Loading, RunInv
<1>2. config.numberOfHardwareThreads # 0
  <2>1. CanStart
    BY <1>1 DEF CommandInv, StartInv
  <2> QED BY Zenon, <2>1 DEF CanStart, Usable
<1>3. PICK asked \in Asks : /\ IntRegion(asked) /\ region' = Corrected(asked)
                             /\ shown' = getRegion(memory, region'.start, region'.count)
  BY CommandAsks
<1> DEFINE r == IF Exists(asked) THEN asked
                ELSE [asked EXCEPT !.start = 0, !.count = defaultMemoryWidth]
<1>4. IntRegion(asked) /\ region' = Corrected(asked)
      /\ shown' = getRegion(memory, region'.start, region'.count)
  BY <1>3
<1>5. region' = [r EXCEPT !.hart = IF @ \in 0 .. config.numberOfHardwareThreads - 1 THEN @ ELSE 0]
  BY <1>1, <1>2, <1>4, CorrectedAsAsked
<1>6. /\ IntRegion(region') /\ Exists(region')
      /\ region'.start = IF Exists(asked) THEN asked.start ELSE 0
      /\ region'.count = IF Exists(asked) THEN asked.count ELSE defaultMemoryWidth
  BY <1>1, <1>4, CorrectedRegion
<1>7. region'.start = r.start /\ region'.count = r.count
  BY <1>4, <1>6 DEF IntRegion
<1>8. /\ Len(shown') = IF region'.count < 0 THEN 0 ELSE region'.count
      /\ \A i \in DOMAIN shown' : shown'[i] = memory[region'.start + i - 1]
  <2>1. ASSUME NEW q, IntRegion(q), Exists(q), shown' = getRegion(memory, q.start, q.count)
        PROVE  /\ Len(shown') = IF q.count < 0 THEN 0 ELSE q.count
               /\ \A i \in DOMAIN shown' : shown'[i] = memory[q.start + i - 1]
    BY <1>1, <2>1, ShownAre
  <2> QED BY <1>4, <1>6, <2>1
<1> HIDE DEF r
<1>9. /\ region' = [r EXCEPT !.hart = IF @ \in 0 .. config.numberOfHardwareThreads - 1 THEN @ ELSE 0]
      /\ Len(shown') = IF r.count < 0 THEN 0 ELSE r.count
      /\ \A i \in DOMAIN shown' : shown'[i] = memory[r.start + i - 1]
  BY <1>5, <1>7, <1>8
<1> QED BY <1>3, <1>9 DEF r

\* Whatever is given to memA, memW and hID, truncated to ints that are compared
\* as unsigned numbers of two widths, the interface shows the HART and the bytes that
\* are asked for, or the ones that are always there, and no cell outside memory
\* (renderUI, Processor::debug, Memory::getRegion).
THEOREM RegionIsShown == Spec => RegionShown
<1> DEFINE Shows ==
      stage = "fetch" /\ stage' = "fetch" =>
        \E asked \in Asks :
          LET r == IF Exists(asked) THEN asked
                   ELSE [asked EXCEPT !.start = 0, !.count = defaultMemoryWidth]
          IN  /\ region' = [r EXCEPT !.hart = IF @ \in 0 .. config.numberOfHardwareThreads - 1
                                               THEN @ ELSE 0]
              /\ Len(shown') = IF r.count < 0 THEN 0 ELSE r.count
              /\ \A i \in DOMAIN shown' : shown'[i] = memory[r.start + i - 1]
<1>1. (DataInv /\ CommandInv) /\ [Next]_vars => [Shows]_vars
  <2> SUFFICES ASSUME DataInv, CommandInv, Next, stage = "fetch", stage' = "fetch"
               PROVE  Shows
    OBVIOUS
  <2>1. Command
    <3>1. ~(ParseArg \/ ParsedArgs \/ Load \/ Decode \/ Execute \/ MemoryAccess \/ Writeback)
      BY DEF ParseArg, ParsedArgs, Load, Decode, Execute, MemoryAccess, Writeback
    <3>2. ~Fetch
      BY DEF Fetch
    <3> QED BY <3>1, <3>2 DEF Next
  <2> QED BY <2>1, CommandShows
<1> HIDE DEF Shows
<1>2. Spec => [][Shows]_vars
  BY <1>1, CommandLineIsRead, PTL DEF Spec
<1> QED BY <1>2 DEF RegionShown, Shows
=============================================================================
