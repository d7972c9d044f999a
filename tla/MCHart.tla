------------------------------- MODULE MCHart -------------------------------
(***************************************************************************)
(* Instances of Hart for TLC: sets of short programs, enumerated over a    *)
(* menu of instructions.  A program is followed by words that are no       *)
(* instruction, or by instructions that do nothing.                        *)
(***************************************************************************)
EXTENDS HartProperties

I(op, rd, rs1, rs2, imm) == [op |-> op, rd |-> rd, rs1 |-> rs1, rs2 |-> rs2, imm |-> imm]

Zero == I("illegal", 0, 0, 0, 0)
Idle == I("addi", 0, 0, 0, 0)

\* The program at the start of memory, then the same word everywhere.
Load(code, rest) ==
  [a \in Address |-> IF a \div 4 < Len(code) THEN code[a \div 4 + 1] ELSE rest]

\* Straight code that depends on itself in every way, with a jump that the
\* predictor gets right, to run and to halt.  It raises no exception: an
\* exception in the tick that meets the halt address is lost (see the README).
DataMenu ==
  { I("addi", 1, 0, 0, 4), I("addi", 1, 1, 0, 4), I("add", 2, 1, 2, 0),
    I("lw", 1, 0, 0, 36), I("lw", 2, 1, 0, 28), I("sw", 0, 0, 1, 36),
    I("jal", 2, 0, 0, 8) }
DataPrograms == {Load(code, Zero) : code \in [1 .. 4 -> DataMenu]}

\* Branches and jumps of every kind, forwards and backwards, that depend on
\* an earlier instruction.  A JALR here has no link register (see CallProgram).
BranchMenu ==
  { I("addi", 1, 1, 0, 4), I("addi", 2, 1, 0, 8),
    I("beq", 0, 0, 0, 8), I("bne", 0, 1, 2, -4), I("beq", 0, 1, 0, 12),
    I("jal", 1, 0, 0, 8), I("jalr", 0, 2, 0, 4) }

\* Loads and stores between branches and jumps, and jumps that link.  A load
\* right before a branch or a jump is left out (see LoadThenBranch).
MixedMenu ==
  { I("addi", 1, 1, 0, 4), I("lw", 1, 0, 0, 36), I("sw", 0, 0, 1, 36),
    I("bne", 0, 1, 0, 8), I("jal", 2, 0, 0, -8), I("jalr", 0, 1, 0, 12) }

ControlPrograms ==
  {Load(code, Idle) : code \in
     {c \in [1 .. 4 -> BranchMenu] \cup [1 .. 4 -> MixedMenu] :
        \A i \in 1 .. 3 : c[i].op \in Loads => c[i + 1].op \notin Control}}

\* Anything goes: jumps that link and are mispredicted, loads right before
\* branches, addresses beyond memory.
AnyMenu ==
  { I("addi", 1, 0, 0, 8), I("lw", 1, 1, 0, 36), I("bne", 0, 1, 0, -4),
    I("jal", 1, 0, 0, 8), I("jalr", 1, 1, 0, 4) }
AnyPrograms == {Load(code, Idle) : code \in [1 .. 3 -> AnyMenu]}

\* No instruction waits for the one before it: what a flush may meet and not
\* lose (see the README).
FlushMenu ==
  { I("addi", 1, 0, 0, 4), I("sw", 0, 0, 1, 36), I("lw", 2, 0, 0, 36),
    I("beq", 0, 0, 0, 8), I("jal", 2, 0, 0, -4), I("jalr", 0, 0, 0, 4) }
FlushPrograms ==
  {Load(code, Idle) : code \in
     {c \in [1 .. 3 -> FlushMenu] :
        \A i \in 1 .. 2 : c[i].rd # 0 => c[i].rd \notin {c[i + 1].rs1, c[i + 1].rs2}}}

\* Loads, stores, branches and jumps to addresses that are misaligned, beyond
\* memory or in its last word, depending on what x1 has come to.
FaultMenu ==
  { I("addi", 1, 1, 0, 8), I("lw", 1, 1, 0, 36), I("sw", 0, 1, 1, 36),
    I("jalr", 0, 1, 0, 2), I("bne", 0, 1, 0, 6), I("beq", 0, 1, 0, 8), Zero }
FaultPrograms ==
  {Load(code, Idle) : code \in
     {c \in [1 .. 3 -> FaultMenu] :
        \A i \in 1 .. 2 : c[i].op \in Loads => c[i + 1].op \notin Control}}

StraightPrograms == DataPrograms \cup FaultPrograms \cup FlushPrograms

\* Only DataPrograms are halted (and, by the .cfg, only FlushPrograms flushed).
StraightInit == Init /\ (haltAddr = NoPC \/ program \in DataPrograms)
StraightSpec == StraightInit /\ [][Next]_vars

-----------------------------------------------------------------------------
(* Single programs, for the statements that do not hold. *)

One(code) == {Load(code, Idle)}

\* A call: jalr x1, 12(x0).
CallProgram == One(<<I("jalr", 1, 0, 0, 12)>>)

\* A load, a branch that is mispredicted, and on its wrong path a user of
\* what was loaded: it stalls in the tick that fails the prediction.
LoadThenBranch ==
  One(<<I("lw", 1, 0, 0, 36), I("beq", 0, 0, 0, 12), I("addi", 2, 1, 0, 4)>>)

\* Branches the predictor gets right, one after the other.
BackAndForth ==
  One(<<I("bne", 0, 0, 0, 8), I("addi", 1, 0, 0, 4), I("jal", 0, 0, 0, -8)>>)

=============================================================================
