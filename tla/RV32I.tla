------------------------------- MODULE RV32I --------------------------------
(***************************************************************************)
(* The routines of instructions/sets/RV32I.cpp as functions of a decoded   *)
(* instruction.  An instruction word is a record [op, rd, rs1, rs2, imm];  *)
(* once decoded it also has its pc and the operand values v1 and v2 (the   *)
(* fields of AbstractInstruction).  One op stands for each family of       *)
(* decode, execute and memory routines; what the arithmetic of a family    *)
(* computes is left to addition.                                           *)
(***************************************************************************)
EXTENDS Integers

CONSTANTS Width,   \* a register or an address has Width values (2^(8*XLEN))
          MemSize  \* bytes of memory, at most Width

ASSUME RV32IAssumption ==
  /\ Width \in Nat /\ Width % 4 = 0
  /\ MemSize \in 4 .. Width

Branches == {"beq", "bne"}
Jumps    == {"jal", "jalr"}
Control  == Branches \cup Jumps
Loads    == {"lw"}
Stores   == {"sw"}
Bitops   == {"addi", "add", "lui", "auipc"}
Silent   == {"fence", "ecall"}  \* decoded and executed without any effect

\* The opcodes of the opcode space; decoding any other word throws.
Defined == Control \cup Loads \cup Stores \cup Bitops \cup Silent
Op == Defined \cup {"illegal"}

\* The decode routine asks the hazard controller for these registers.
Sources(word) ==
  CASE word.op \in Branches \cup Stores \cup {"add"} -> {word.rs1, word.rs2}
    [] word.op \in {"jalr", "lw", "addi", "fence"}   -> {word.rs1}
    [] OTHER                                         -> {}

\* The instruction has a registerWriteback routine.
WritesBack(ins) == ins.op \in Bitops \cup Loads \cup Jumps

\* The execute routine calls storeResultAfterExecution.
PostsResult(ins) == ins.op \in Bitops \cup Control

Taken(ins) ==
  \/ ins.op = "beq" /\ ins.v1 = ins.v2
  \/ ins.op = "bne" /\ ins.v1 # ins.v2

\* The PC of the instruction that follows ins in the program.
NextPC(ins) ==
  (CASE ins.op \in Branches -> IF Taken(ins) THEN ins.pc + ins.imm ELSE ins.pc + 4
     [] ins.op = "jal"      -> ins.pc + ins.imm
     [] ins.op = "jalr"     -> ins.v1 + ins.imm
     [] OTHER               -> ins.pc + 4) % Width

\* instruction->result after the execute stage: the value for rd, or the
\* address a load or a store accesses.
Result(ins) ==
  (CASE ins.op = "lui"                  -> ins.imm
     [] ins.op = "auipc"                -> ins.pc + ins.imm
     [] ins.op \in Jumps                -> ins.pc + 4
     [] ins.op \in Branches             -> NextPC(ins)
     [] ins.op = "add"                  -> ins.v1 + ins.v2
     [] ins.op \in {"addi", "lw", "sw"} -> ins.v1 + ins.imm
     [] OTHER                           -> 0) % Width

\* What the execute routine throws, "none" if nothing.
ExecuteFault(ins) ==
  CASE ins.op \in Control /\ NextPC(ins) % 4 # 0 -> "AddressMisaligned"
    [] ins.op \in Control /\ NextPC(ins) % 4 = 0 /\ NextPC(ins) >= MemSize
         -> "AddressOutOfMemory"
    [] ins.op \in Loads \cup Stores /\ Result(ins) >= MemSize
         -> "AddressOutOfMemory"
    [] OTHER -> "none"

\* What readWord or writeWord throws for the address the execute stage left.
MemoryFault(ins) ==
  IF ins.op \in Loads \cup Stores /\ ins.result + 4 >= MemSize
    THEN "AddressOutOfMemory"
    ELSE "none"

=============================================================================
