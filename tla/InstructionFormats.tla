-------------------------- MODULE InstructionFormats -------------------------
(***************************************************************************)
(* The six instruction formats (instructions/*Type.cpp): decoding a word   *)
(* of four bytes, building an instruction from its fields, and reading its *)
(* immediate back by bit positions.  An instruction has all the fields of  *)
(* AbstractInstruction; a format only uses its own.                        *)
(***************************************************************************)
EXTENDS ByteManip

Types == {"R", "I", "S", "B", "U", "J"}

Field(instruction, low, high) == getContrainedBits(instruction, low, high)[1]

\* |= ~getByteMaskForPosition(position) on byte i of an immediate.
SignFrom(imm, i, position) ==
  [imm EXCEPT ![i] = @ | (255 - getByteMaskForPosition(position))]

DecodeI(w) ==
  LET imm == getContrainedBits(w, 20, 31)
  IN  IF w[4] & 128 # 0 THEN SignFrom(imm, 2, 4) ELSE imm

\* The bits 54 of imm7 stand for its sign.
DecodeS(w) ==
  LET imm7 == Field(w, 25, 31)
      imm  == <<Field(w, 7, 11) | Shl(imm7, 5), Shr(imm7, 3)>>
  IN  IF imm7 & 54 # 0 THEN SignFrom(imm, 2, 4) ELSE imm

\* Mutant: bit 7 of the word, bit 11 of the offset, is shifted by one too many.
DecodeBShifted(w) ==
  LET imm510 == Field(w, 25, 30)
      imm12  == w[4] & 128
      imm    == << Shl(Field(w, 8, 11), 1) | Shl(imm510, 5),
                   (Shr(imm510, 3) | Shr(w[1] & 128, 5)) | Shr(imm12, 3) >>
  IN  IF imm12 # 0 THEN SignFrom(imm, 2, 5) ELSE imm

DecodeB(w) ==
  LET imm11  == w[1] & 128
      imm510 == Field(w, 25, 30)
      imm12  == w[4] & 128
      imm    == << Shl(Field(w, 8, 11), 1) | Shl(imm510, 5),
                   (Shr(imm510, 3) | Shr(imm11, 4)) | Shr(imm12, 3) >>
  IN  IF imm12 # 0 THEN SignFrom(imm, 2, 5) ELSE imm

DecodeU(w) == LeftBy(Resize(getContrainedBits(w, 12, 31), 4), 12)

DecodeJ(w) ==
  LET fullImm == getContrainedBits(w, 12, 31)
      imm == << fullImm[2] & 254,
                ((fullImm[3] & 7) | Shl(fullImm[2] & 1, 3)) | Shl(fullImm[1], 4),
                Shr(fullImm[1], 4) | Shl(fullImm[3] & 8, 1) >>
  IN  IF w[4] & 128 # 0 THEN SignFrom(imm, 3, 5) ELSE imm

decode(type, w) ==
  [ type |-> type, opcode |-> Field(w, 0, 6), rd |-> Field(w, 7, 11),
    func3 |-> Field(w, 12, 14), rs1 |-> Field(w, 15, 19),
    rs2 |-> Field(w, 20, 24), func7 |-> Field(w, 25, 31),
    imm |-> CASE type = "R" -> Zeros(4)   [] type = "I" -> DecodeI(w)
              [] type = "S" -> DecodeS(w) [] type = "B" -> DecodeB(w)
              [] type = "U" -> DecodeU(w) [] type = "J" -> DecodeJ(w) ]

-----------------------------------------------------------------------------
(* getImm(low, high): the part of the immediate that the instruction word  *)
(* has at bits low .. high, in its first bytes.                            *)

ImmRanges ==
  [ R |-> {}, I |-> {<<20, 31>>}, S |-> {<<7, 11>>, <<25, 31>>},
    B |-> {<<7, 7>>, <<8, 11>>, <<25, 30>>, <<31, 31>>}, U |-> {<<12, 31>>},
    J |-> {<<12, 19>>, <<20, 20>>, <<21, 30>>, <<31, 31>>} ]

ImmS(imm, low) ==
  IF low = 7 THEN <<imm[1] & 31>> ELSE <<Shr(imm[1], 5) | Shl(imm[2] & 15, 3)>>

ImmB(imm, low) ==
  CASE low = 7  -> <<Shr(imm[2] & 8, 3)>>
    [] low = 8  -> getContrainedBits(imm, 1, 4)
    [] low = 25 -> <<(Shr(imm[1], 5) | Shl(imm[2], 3)) & 63>>
    [] low = 31 -> <<Shr(imm[2], 4) & 1>>

ImmJ(imm, low) ==
  CASE low = 12 -> getContrainedBits(imm, 12, 19)
    [] low = 20 -> <<Shr(imm[2], 3) & 1>>
    [] low = 21 -> getContrainedBits(imm, 1, 10)
    [] low = 31 -> <<Shr(imm[3], 4) & 1>>

\* <<low, high>> is in ImmRanges[ins.type]: the code throws for any other pair.
getImm(ins, low, high) ==
  CASE ins.type = "I" -> ins.imm
    [] ins.type = "S" -> ImmS(ins.imm, low)
    [] ins.type = "B" -> ImmB(ins.imm, low)
    [] ins.type = "U" -> getContrainedBits(ins.imm, low, high)
    [] ins.type = "J" -> ImmJ(ins.imm, low)

-----------------------------------------------------------------------------
(* The immediate that the constructor of a type makes from its fields,     *)
(* given as they stand in the word; all of them are within their limits.   *)

ConstructI(imm) == IF imm[2] & 8 # 0 THEN SignFrom(imm, 2, 4) ELSE imm

\* (bool)imm7 & 54 is 1 & 54: never signed.
ConstructS(imm5, imm7) ==
  LET isSigned == (IF imm7 # 0 THEN 1 ELSE 0) & 54
      imm == <<imm5 | Shl(imm7, 5), Shr(imm7, 3)>>
  IN  IF isSigned # 0 THEN SignFrom(imm, 2, 4) ELSE imm

ConstructB(imm1, imm4, imm6, imm31) ==
  LET imm == << Shl(imm4, 1) | Shl(imm6, 5),
                (Shl(imm1, 3) | Shr(imm6, 3)) | Shl(imm31, 4) >>
  IN  IF imm31 # 0 THEN SignFrom(imm, 2, 5) ELSE imm

\* The sign goes to byte 1, into the middle of the value.
ConstructU(imm) ==
  LET shifted == LeftBy(Resize(imm, 4), 12)
  IN  IF imm[3] & 8 # 0 THEN SignFrom(shifted, 2, 4) ELSE shifted

\* Mutant: the top bit of the low byte of imm10 is lost.
ConstructJShort(imm8, imm1, imm10, imm31) ==
  LET imm == << Shl(imm10[1], 1),
                (Shl(imm8, 4) | Shl(imm1, 3)) | Shl(imm10[2], 1),
                Shr(imm8, 4) | Shl(imm31, 4) >>
  IN  IF imm31 # 0 THEN SignFrom(imm, 3, 5) ELSE imm

ConstructJ(imm8, imm1, imm10, imm31) ==
  LET imm == << Shl(imm10[1], 1),
                ((Shl(imm8, 4) | Shl(imm1, 3)) | Shr(imm10[1] & 128, 7)) | Shl(imm10[2], 1),
                Shr(imm8, 4) | Shl(imm31, 4) >>
  IN  IF imm31 # 0 THEN SignFrom(imm, 3, 5) ELSE imm

\* The immediate of an instruction built from the fields of another one.
Rebuilt(ins) ==
  LET Part(low, high) == getImm(ins, low, high)
  IN  CASE ins.type = "I" -> ConstructI(<<ins.imm[1], ins.imm[2] & 15>>)
        [] ins.type = "S" -> ConstructS(Part(7, 11)[1], Part(25, 31)[1])
        [] ins.type = "B" -> ConstructB(Part(7, 7)[1], Part(8, 11)[1],
                                        Part(25, 30)[1], Part(31, 31)[1])
        [] ins.type = "U" -> ConstructU(Part(12, 31))
        [] ins.type = "J" -> ConstructJ(Part(12, 19)[1], Part(20, 20)[1],
                                        Part(21, 30), Part(31, 31)[1])
        [] OTHER -> ins.imm

=============================================================================
