---------------------------- MODULE RV32IRoutines ----------------------------
(***************************************************************************)
(* The execute and memory routines of instructions/sets/RV32I.cpp and      *)
(* extensions/T.cpp on the bytes of their operands.  Module RV32I has the  *)
(* same routines family by family, for the pipeline; this one has every    *)
(* instruction and what it computes.  An instruction has the fields its    *)
(* format decoded, pc, rs1Val and rs2Val.                                  *)
(***************************************************************************)
EXTENDS InstructionFormats, Memory

XLEN == 4
T_EXTENSION == "T"

\* The opcode space: the format each opcode is decoded in.
BaseOpcodes == {55, 23, 111, 103, 99, 3, 35, 19, 51, 15, 115}
Opcodes(extensions) ==
  [o \in BaseOpcodes \cup (IF T_EXTENSION \in extensions THEN {127} ELSE {}) |->
     CASE o \in {55, 23} -> "U" [] o = 111 -> "J" [] o = 99 -> "B"
       [] o = 35 -> "S"         [] o = 51 -> "R"  [] OTHER -> "I"]

\* What an execute routine leaves: instruction->result, the PC that follows,
\* and what it throws.  "pointer" is an exception thrown as a pointer.
Done(result, next) == [result |-> result, next |-> next, fault |-> "none"]
Throws(fault) == [result |-> Zeros(XLEN), next |-> Zeros(XLEN), fault |-> fault]

IncPC(ins) == addByteToBytes(ins.pc, 4)
Truth(condition) == <<IF condition THEN 1 ELSE 0, 0, 0, 0>>

\* A jump or branch to next, with result for rd.
JumpTo(result, next, size) ==
  IF next[1] % 4 # 0 THEN Throws("AddressMisaligned")
  ELSE IF getBytesToULong(next) >= size THEN Throws("AddressOutOfMemory")
  ELSE Done(result, next)

BranchTaken(ins) ==
  LET v1 == ins.rs1Val  v2 == ins.rs2Val
  IN  CASE ins.func3 = 0 -> v1 = v2
        [] ins.func3 = 1 -> v1 # v2
        [] ins.func3 = 4 -> bytesLessThanBytesSigned(v1, v2)
        [] ins.func3 = 5 -> bytesGreaterOrequalToSigned(v1, v2)
        [] ins.func3 = 6 -> bytesLessThanBytesUnsigned(v1, v2)
        [] ins.func3 = 7 -> bytesGreaterOrequalToUnsigned(v1, v2)

executeBranch(ins, size) ==
  IF ins.func3 \in {2, 3} THEN Throws("UndefinedInstruction")
  ELSE LET next == IF BranchTaken(ins) THEN bytesAddSignedToPC(ins.pc, ins.imm)
                                       ELSE IncPC(ins)
       IN  JumpTo(next, next, size)

executeJAL(ins, size) == JumpTo(IncPC(ins), bytesAddSignedToPC(ins.pc, ins.imm), size)
executeJALR(ins, size) == JumpTo(IncPC(ins), bytesAdditionSigned(ins.rs1Val, ins.imm), size)

\* executeLoad and executeStore.
executeAccess(ins, size) ==
  LET pointer == bytesAdditionSigned(ins.rs1Val, ins.imm)
  IN  IF getBytesToULong(pointer) >= size THEN Throws("AddressOutOfMemory")
                                          ELSE Done(pointer, IncPC(ins))

\* executeBitopsImmediate and executeBitops: the result, <<>> if undefined.
BitopsImmediate(ins) ==
  LET v == ins.rs1Val
      imm == ins.imm
      shift == imm[1] & 31
      func7 == getContrainedBits(imm, 5, 11)[1]
  IN  CASE ins.func3 = 0 -> bytesAdditionSigned(v, imm)
        [] ins.func3 = 2 -> Truth(bytesLessThanBytesSigned(v, imm))
        [] ins.func3 = 3 -> Truth(bytesLessThanBytesUnsigned(v, imm))
        [] ins.func3 = 4 -> bytesXOR(v, imm)
        [] ins.func3 = 6 -> bytesOR(v, imm)
        [] ins.func3 = 7 -> bytesAND(v, imm)
        [] ins.func3 = 1 -> LeftBy(v, shift)
        [] ins.func3 = 5 /\ func7 = 0  -> RightBy(v, shift, 0)
        [] ins.func3 = 5 /\ func7 = 32 -> RightBy(v, shift, SignFill(v))
        [] OTHER -> <<>>

Bitops(ins) ==
  LET v1 == ins.rs1Val  v2 == ins.rs2Val
  IN  CASE ins.func3 = 0 /\ ins.func7 = 0  -> bytesAdditionUnsigned(v1, v2)
        [] ins.func3 = 0 /\ ins.func7 = 32 -> bytesSubtractionUnsigned(v1, v2)
        [] ins.func3 = 1 -> bytesLogicalLeftShift(v1, v2)
        [] ins.func3 = 2 -> Truth(bytesLessThanBytesSigned(v1, v2))
        [] ins.func3 = 3 -> Truth(bytesLessThanBytesUnsigned(v1, v2))
        [] ins.func3 = 4 -> bytesXOR(v1, v2)
        [] ins.func3 = 5 /\ ins.func7 = 0  -> bytesLogicalRightShift(v1, v2)
        [] ins.func3 = 5 /\ ins.func7 = 32 -> bytesArithmeticRightShift(v1, v2)
        [] ins.func3 = 6 -> bytesOR(v1, v2)
        [] ins.func3 = 7 -> bytesAND(v1, v2)
        [] OTHER -> <<>>

executeBits(ins, result) ==
  IF result = <<>> THEN Throws("UndefinedInstruction") ELSE Done(result, IncPC(ins))

\* TExtension::execute: increment and decrement.
executeT(ins) ==
  IF ins.func3 \notin {0, 1} THEN Throws("UndefinedInstruction")
  ELSE LET result == addByteToBytes(ins.rs1Val, IF ins.func3 = 0 THEN 1 ELSE 255)
       IN  IF result = <<>> THEN Throws("pointer") ELSE Done(result, IncPC(ins))

execute(ins, size) ==
  CASE ins.opcode = 55  -> Done(ins.imm, IncPC(ins))
    [] ins.opcode = 23  -> Done(bytesAddSignedToPC(ins.pc, ins.imm), IncPC(ins))
    [] ins.opcode = 111 -> executeJAL(ins, size)
    [] ins.opcode = 103 -> executeJALR(ins, size)
    [] ins.opcode = 99  -> executeBranch(ins, size)
    [] ins.opcode \in {3, 35} -> executeAccess(ins, size)
    [] ins.opcode = 19  -> executeBits(ins, BitopsImmediate(ins))
    [] ins.opcode = 51  -> executeBits(ins, Bitops(ins))
    [] ins.opcode = 127 -> executeT(ins)
    [] ins.opcode \in {15, 115} -> Done(Zeros(XLEN), IncPC(ins))

\* The bytes a load or a store of this func3 accesses; 0 if it accesses none.
LoadWidth(func3) ==
  CASE func3 \in {0, 4} -> 1 [] func3 \in {1, 5} -> 2 [] func3 = 2 -> 4 [] OTHER -> 0
StoreWidth(func3) ==
  CASE func3 = 0 -> 1 [] func3 = 1 -> 2 [] func3 = 2 -> 4 [] OTHER -> 0

\* memLoad and memStore throw.
memFault(ins, pointer, size) ==
  LET addr == getBytesToULong(pointer)
  IN  CASE ins.opcode = 3 /\ LoadWidth(ins.func3) = 0 -> "UndefinedInstruction"
        [] ins.opcode = 3 /\ LoadWidth(ins.func3) > 0
           /\ OutOfMemory(size, addr, LoadWidth(ins.func3)) -> "AddressOutOfMemory"
        [] ins.opcode = 35 /\ StoreWidth(ins.func3) > 0
           /\ OutOfMemory(size, addr, StoreWidth(ins.func3)) -> "AddressOutOfMemory"
        [] OTHER -> "none"

\* Mutant: an unsigned load leaves only the bytes it has read.
memLoadShort(ins, pointer, memory) ==
  LET result == Read(memory, getBytesToULong(pointer), LoadWidth(ins.func3))
  IN  IF ins.func3 \in {4, 5} THEN result ELSE copyWithSignExtend(result, XLEN)
memLoad(ins, pointer, memory) ==
  LET result == Read(memory, getBytesToULong(pointer), LoadWidth(ins.func3))
  IN  IF ins.func3 \in {4, 5} THEN Resize(result, XLEN)
                              ELSE copyWithSignExtend(result, XLEN)

\* A store of any other func3 does nothing.
memStore(ins, pointer, memory) ==
  Write(memory, getBytesToULong(pointer), SubSeq(ins.rs2Val, 1, StoreWidth(ins.func3)))

\* The instruction has a registerWriteback routine.
WritesBack(ins) == ins.opcode \notin {99, 35, 15, 115}

=============================================================================
