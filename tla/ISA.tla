-------------------------------- MODULE ISA ---------------------------------
(***************************************************************************)
(* What a HART promises the program it runs: the instructions take effect  *)
(* one at a time, whole and in program order.  This is the machine of the  *)
(* RISC-V manual, without pipeline, prediction or forwarding.  Module Hart *)
(* is shown to implement it.                                               *)
(***************************************************************************)
EXTENDS RV32I

CONSTANTS Reg, NoPC

VARIABLES program, haltAddr,  \* chosen once, never changed
          pc, registers, memory,
          outcome  \* "running", "halted", "exception" or "abandoned"

architecture == <<program, haltAddr, pc, registers, memory, outcome>>

Init ==
  /\ pc = 0
  /\ registers = [r \in Reg |-> 0]
  /\ \A a \in DOMAIN memory : memory[a] = 0
  /\ outcome = "running"

HaltReached == haltAddr # NoPC /\ pc >= haltAddr

\* The instruction at pc, with its operands read from the registers.
Current ==
  LET word == program[pc]
  IN  [op |-> word.op, rd |-> word.rd, imm |-> word.imm, pc |-> pc,
       v1 |-> registers[word.rs1], v2 |-> registers[word.rs2]]

\* One whole instruction that raises no exception.
Step ==
  /\ outcome = "running" /\ ~HaltReached
  /\ pc \in DOMAIN program /\ Current.op \in Defined
  /\ ExecuteFault(Current) = "none"
  /\ LET address == Result(Current)
         written == IF Current.op \in Loads THEN memory[address]
                                            ELSE Result(Current)
     IN  /\ Current.op \in Loads \cup Stores => address + 4 < MemSize
         /\ pc' = NextPC(Current)
         /\ registers' = [r \in Reg |-> IF WritesBack(Current) /\ r = Current.rd /\ r # 0
                                          THEN written
                                          ELSE registers[r]]
         /\ memory' = [a \in DOMAIN memory |-> IF Current.op \in Stores /\ a = address
                                                 THEN Current.v2
                                                 ELSE memory[a]]
  /\ UNCHANGED <<program, haltAddr, outcome>>

\* The machine stops before the first instruction at or after haltAddr, with
\* all the earlier ones done.
Halt ==
  /\ outcome = "running" /\ HaltReached
  /\ outcome' = "halted"
  /\ UNCHANGED <<program, haltAddr, pc, registers, memory>>

\* What Step does not do: the instruction at pc faults.
Faults(ins) ==
  \/ ins.op \notin Defined
  \/ ExecuteFault(ins) # "none"
  \/ ins.op \in Loads \cup Stores /\ Result(ins) + 4 >= MemSize

\* The instruction at pc faults, with all the earlier ones done and before any
\* later one.  Nothing is promised of the state it leaves.
Except ==
  /\ outcome = "running" /\ ~HaltReached
  /\ pc \in DOMAIN program /\ Faults(Current)
  /\ outcome' = "exception"
  /\ UNCHANGED <<program, haltAddr>>

\* The HART gives up over an instruction it has only fetched or decoded, and
\* which it may never have executed.
Abandon ==
  /\ outcome = "running"
  /\ outcome' = "abandoned"
  /\ UNCHANGED <<program, haltAddr>>

Spec == Init /\ [][Step \/ Halt \/ Except \/ Abandon]_architecture

=============================================================================
