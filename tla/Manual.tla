------------------------------- MODULE Manual --------------------------------
(***************************************************************************)
(* The machine that the RISC-V manual describes, for RV32I and for the two *)
(* instructions of the T extension (increment and decrement), written on   *)
(* bits and without looking at how the emulator computes: instructions     *)
(* take effect one at a time.  A word is four bytes, least significant     *)
(* first, as the emulator displays it.  Module Datapath is shown to        *)
(* implement it, apart from what module Errata lists.                      *)
(***************************************************************************)
EXTENDS Integers, Sequences

VARIABLES image,      \* what is in memory when the program starts
          haltAt,     \* the address to halt at, <<>> if none
          custom,     \* the T extension is there
          pc, registers, memory,
          outcome     \* "loading", "refused", "running", "halted" or "exception"

machine == <<image, haltAt, custom, pc, registers, memory, outcome>>

-----------------------------------------------------------------------------
(* Words as bits and as halves. *)

Bits(w) == [i \in 0 .. 31 |-> (w[i \div 8 + 1] \div 2^(i % 8)) % 2]

\* The number in at most eight bits.
Number(bits, low, high) ==
  LET At(k) == IF low + k <= high THEN bits[low + k] ELSE 0
  IN  At(0) + 2 * At(1) + 4 * At(2) + 8 * At(3)
      + 16 * At(4) + 32 * At(5) + 64 * At(6) + 128 * At(7)

Word(bits) == [k \in 1 .. 4 |-> Number(bits, 8 * k - 8, 8 * k - 1)]

Low(w)  == w[1] + 256 * w[2]
High(w) == w[3] + 256 * w[4]
Halves(low, high) ==
  <<low % 256, (low \div 256) % 256, high % 256, (high \div 256) % 256>>

Plus(a, b) ==
  LET low == Low(a) + Low(b) IN Halves(low, High(a) + High(b) + low \div 65536)
Minus(a, b) ==
  LET low == Low(a) - Low(b) IN Halves(low, High(a) - High(b) + low \div 65536)

LessUnsigned(a, b) == High(a) < High(b) \/ (High(a) = High(b) /\ Low(a) < Low(b))
Flipped(a) == [a EXCEPT ![4] = (@ + 128) % 256]
LessSigned(a, b) == LessUnsigned(Flipped(a), Flipped(b))

ShiftLeft(a, n) == Word([i \in 0 .. 31 |-> IF i < n THEN 0 ELSE Bits(a)[i - n]])
ShiftRight(a, n, top) ==
  Word([i \in 0 .. 31 |-> IF i + n > 31 THEN top ELSE Bits(a)[i + n]])
Sign(a) == Bits(a)[31]

Truth(condition) == <<IF condition THEN 1 ELSE 0, 0, 0, 0>>
Four == <<4, 0, 0, 0>>

-----------------------------------------------------------------------------
(* Instruction words: fields, and the immediate of each format, bit i of   *)
(* which is a bit of the word.                                             *)

Opcode(w) == Number(Bits(w), 0, 6)
Rd(w)     == Number(Bits(w), 7, 11)
Func3(w)  == Number(Bits(w), 12, 14)
Rs1(w)    == Number(Bits(w), 15, 19)
Rs2(w)    == Number(Bits(w), 20, 24)
Func7(w)  == Number(Bits(w), 25, 31)

ImmI(w) == Word([i \in 0 .. 31 |-> Bits(w)[IF i <= 10 THEN 20 + i ELSE 31]])
ImmS(w) ==
  Word([i \in 0 .. 31 |-> Bits(w)[CASE i <= 4         -> 7 + i
                                    [] i \in 5 .. 10  -> 20 + i
                                    [] i >= 11        -> 31]])
ImmB(w) ==
  Word([i \in 0 .. 31 |-> IF i = 0 THEN 0
                          ELSE Bits(w)[CASE i <= 4         -> 7 + i
                                         [] i \in 5 .. 10  -> 20 + i
                                         [] i = 11         -> 7
                                         [] i >= 12        -> 31]])
ImmU(w) == Word([i \in 0 .. 31 |-> IF i < 12 THEN 0 ELSE Bits(w)[i]])
ImmJ(w) ==
  Word([i \in 0 .. 31 |-> IF i = 0 THEN 0
                          ELSE Bits(w)[CASE i <= 10         -> 20 + i
                                         [] i = 11          -> 20
                                         [] i \in 12 .. 19  -> i
                                         [] i >= 20         -> 31]])

Width(func3) == CASE func3 \in {0, 4} -> 1 [] func3 \in {1, 5} -> 2 [] func3 = 2 -> 4

Legal(w) ==
  CASE Opcode(w) \in {55, 23, 111} -> TRUE
    [] Opcode(w) \in {103, 15} -> Func3(w) = 0
    [] Opcode(w) = 99  -> Func3(w) \notin {2, 3}
    [] Opcode(w) = 3   -> Func3(w) \in {0, 1, 2, 4, 5}
    [] Opcode(w) = 35  -> Func3(w) \in {0, 1, 2}
    [] Opcode(w) = 19  -> /\ Func3(w) = 1 => Func7(w) = 0
                          /\ Func3(w) = 5 => Func7(w) \in {0, 32}
    [] Opcode(w) = 51  -> Func7(w) = 0 \/ (Func7(w) = 32 /\ Func3(w) \in {0, 5})
    [] Opcode(w) = 115 -> w \in {<<115, 0, 0, 0>>, <<115, 0, 16, 0>>}
    [] Opcode(w) = 127 -> custom /\ Func3(w) \in {0, 1}
    [] OTHER -> FALSE

-----------------------------------------------------------------------------
(* The instruction at pc. *)

Address(w) == w[1] + 256 * w[2] + 65536 * w[3]
Inside(w, width) == w[4] = 0 /\ \A i \in 0 .. width - 1 : Address(w) + i \in DOMAIN memory

Current == [i \in 1 .. 4 |-> memory[Address(pc) + i - 1]]

Alu(func3, alternate, a, b) ==
  CASE func3 = 0 -> IF alternate THEN Minus(a, b) ELSE Plus(a, b)
    [] func3 = 1 -> ShiftLeft(a, b[1] % 32)
    [] func3 = 2 -> Truth(LessSigned(a, b))
    [] func3 = 3 -> Truth(LessUnsigned(a, b))
    [] func3 = 4 -> Word([i \in 0 .. 31 |-> (Bits(a)[i] + Bits(b)[i]) % 2])
    [] func3 = 5 -> ShiftRight(a, b[1] % 32, IF alternate THEN Sign(a) ELSE 0)
    [] func3 = 6 -> Word([i \in 0 .. 31 |-> IF Bits(a)[i] + Bits(b)[i] = 0 THEN 0 ELSE 1])
    [] func3 = 7 -> Word([i \in 0 .. 31 |-> Bits(a)[i] * Bits(b)[i]])

Taken(w, a, b) ==
  CASE Func3(w) = 0 -> a = b           [] Func3(w) = 1 -> a # b
    [] Func3(w) = 4 -> LessSigned(a, b)   [] Func3(w) = 5 -> ~LessSigned(a, b)
    [] Func3(w) = 6 -> LessUnsigned(a, b) [] Func3(w) = 7 -> ~LessUnsigned(a, b)

Even(w) == [w EXCEPT ![1] = @ - (@ % 2)]

NextPC(w, a, b) ==
  CASE Opcode(w) = 111 -> Plus(pc, ImmJ(w))
    [] Opcode(w) = 103 -> Even(Plus(a, ImmI(w)))
    [] Opcode(w) = 99 /\ Taken(w, a, b) -> Plus(pc, ImmB(w))
    [] OTHER -> Plus(pc, Four)

Pointer(w, a) == Plus(a, IF Opcode(w) = 35 THEN ImmS(w) ELSE ImmI(w))

Loaded(w, a) ==
  LET width == Width(Func3(w))
      address == Address(Pointer(w, a))
      top == IF Func3(w) \in {4, 5} \/ memory[address + width - 1] < 128 THEN 0 ELSE 255
  IN  [i \in 1 .. 4 |-> IF i <= width THEN memory[address + i - 1] ELSE top]

\* Memory after a store of b's first bytes at the pointer.
Stored(w, pointer, b) ==
  [x \in DOMAIN memory |-> IF x \in Address(pointer) .. Address(pointer) + Width(Func3(w)) - 1
                             THEN b[x - Address(pointer) + 1] ELSE memory[x]]

\* The value for rd.
Value(w, a, b) ==
  CASE Opcode(w) = 55 -> ImmU(w)
    [] Opcode(w) = 23 -> Plus(pc, ImmU(w))
    [] Opcode(w) \in {111, 103} -> Plus(pc, Four)
    [] Opcode(w) = 3  -> Loaded(w, a)
    [] Opcode(w) = 19 -> Alu(Func3(w), Func3(w) = 5 /\ Func7(w) = 32, a, ImmI(w))
    [] Opcode(w) = 51 -> Alu(Func3(w), Func7(w) = 32, a, b)
    [] Opcode(w) = 127 -> IF Func3(w) = 0 THEN Plus(a, <<1, 0, 0, 0>>)
                                          ELSE Minus(a, <<1, 0, 0, 0>>)

\* The instruction changes a register: x0 always stays zero.
HasResult(w) == Opcode(w) \notin {99, 35, 15, 115} /\ Rd(w) # 0

\* The execution environment: misaligned jumps, and jumps and accesses that
\* leave memory, raise an exception.
Faults(w, a, b) ==
  \/ ~Legal(w)
  \/ /\ Opcode(w) \in {111, 103, 99}
     /\ NextPC(w, a, b)[1] % 4 # 0 \/ ~Inside(NextPC(w, a, b), 1)
  \/ /\ Opcode(w) \in {3, 35}
     /\ ~Inside(Pointer(w, a), Width(Func3(w)))

A == registers[Rs1(Current)]
B == registers[Rs2(Current)]
CurrentFaults == ~Inside(pc, 4) \/ Faults(Current, A, B)

-----------------------------------------------------------------------------

Init == outcome = "loading"

\* The program is loaded; whatever else the machine depends on is settled now.
Start ==
  /\ outcome = "loading" /\ outcome' = "running"
  /\ pc' = <<0, 0, 0, 0>>
  /\ registers' = [r \in 0 .. 31 |-> <<0, 0, 0, 0>>]
  /\ memory' = image'

Refuse == outcome = "loading" /\ outcome' = "refused"

HaltReached == haltAt # <<>> /\ ~LessUnsigned(pc, haltAt)

Step ==
  /\ outcome = "running" /\ ~HaltReached /\ ~CurrentFaults
  /\ LET w == Current
     IN  /\ pc' = NextPC(w, A, B)
         /\ registers' = IF HasResult(w) THEN [registers EXCEPT ![Rd(w)] = Value(w, A, B)]
                                         ELSE registers
         /\ memory' = IF Opcode(w) = 35 THEN Stored(w, Pointer(w, A), B) ELSE memory
  /\ UNCHANGED <<image, haltAt, custom, outcome>>

Except ==
  /\ outcome = "running" /\ ~HaltReached /\ CurrentFaults
  /\ outcome' = "exception"
  /\ UNCHANGED <<image, haltAt, custom, registers, memory>>

Halt ==
  /\ outcome = "running" /\ HaltReached
  /\ outcome' = "halted"
  /\ UNCHANGED <<image, haltAt, custom, pc, registers, memory>>

Next == Start \/ Refuse \/ Step \/ Except \/ Halt

Spec == Init /\ [][Next]_machine

=============================================================================
