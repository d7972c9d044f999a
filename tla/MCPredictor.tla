---------------------------- MODULE MCPredictor ----------------------------
(***************************************************************************)
(* Instances of SimpleBranchPredictor for TLC: programs of a few words     *)
(* that branch forwards and backwards, in a memory small enough for the    *)
(* look-ahead to run off its end.                                          *)
(***************************************************************************)
EXTENDS SimpleBranchPredictor

W(op, imm) == [op |-> op, imm |-> imm]
Idle == W("addi", 0)

Load(code) == [a \in Address |-> IF a \div 4 < Len(code) THEN code[a \div 4 + 1] ELSE Idle]

Menu == {Idle, W("beq", 8), W("bne", -4), W("jal", -8), W("jal", 10)}

\* A word that branches or jumps at the start, and one in the middle.
SomePrograms == {Load(<<first, Idle, Idle, second>>) : first, second \in Menu}

=============================================================================
