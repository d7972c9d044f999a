------------------------------- MODULE Errata --------------------------------
(***************************************************************************)
(* Where the emulator departs from the machine of the manual, condition by *)
(* condition on the instruction at pc and its operands.  They are exact:   *)
(* outside them the emulator does what the manual says, and under each of  *)
(* them it does something else.                                            *)
(***************************************************************************)
EXTENDS Manual

\* SUB: some byte below the top takes a borrow of two, for 0 - 255, or with a
\* borrow from below for 0 - 254 and 1 - 255 (bytesSubtractionUnsigned).
DoubleBorrow(a, b) ==
  LET borrow[i \in 0 .. 3] ==
        IF i = 0 THEN 0 ELSE IF a[i] - b[i] - borrow[i - 1] < 0 THEN 1 ELSE 0
  IN  \E i \in 1 .. 3 : a[i] - b[i] - borrow[i - 1] <= -255

\* BLT, BGE, SLT: every byte is compared with its own sign, so the first two
\* that differ decide wrongly if they are not the top ones and one of them is
\* 128 or more (bytesLessThanBytesSigned).
SignedByBytes(a, b) ==
  \E i \in 1 .. 3 : /\ a[i] >= 128 <=> b[i] < 128
                    /\ \A j \in i + 1 .. 4 : a[j] = b[j]

\* SLTI and SLTIU never look at the two bytes of the immediate: they compare
\* the top three bytes of rs1 with zero.
SltiIgnoresImmediate(w, a) ==
  LET negative == \E i \in 2 .. 4 : a[i] >= 128 /\ \A j \in i + 1 .. 4 : a[j] = 0
  IN  \/ Func3(w) = 2 /\ negative # LessSigned(a, ImmI(w))
      \/ Func3(w) = 3 /\ LessUnsigned(a, ImmI(w))

\* SLL, SRL, SRA by a register of 32 or more use all of it, not its low bits.
ShiftNotMasked(w, a, b) ==
  /\ ~LessUnsigned(b, <<32, 0, 0, 0>>)
  /\ Alu(Func3(w), Func7(w) = 32, a, b) #
       Word([i \in 0 .. 31 |-> IF Func7(w) = 32 /\ Func3(w) = 5 THEN Sign(a) ELSE 0])

\* Stores: the offset is taken for negative by bits 26, 27, 29 and 30 of the
\* word and not by bit 31 (STypeInstruction::decode).
StoreOffset(w) ==
  LET negative == \E i \in {26, 27, 29, 30} : Bits(w)[i] = 1
  IN  Word([i \in 0 .. 31 |-> IF i <= 11 THEN Bits(ImmS(w))[i]
                              ELSE IF negative THEN 1 ELSE 0])
StorePointer(w, a) == Plus(a, StoreOffset(w))

\* Accesses of two or four bytes that end with the last byte of memory fail
\* (Memory::readHWord, writeHWord, readWord, writeWord).
Fits(w, pointer) ==
  LET width == Width(Func3(w)) IN Inside(pointer, IF width = 1 THEN 1 ELSE width + 1)

LoadFromTheEnd(w, a) == Inside(Pointer(w, a), Width(Func3(w))) /\ ~Fits(w, Pointer(w, a))

StoreElsewhere(w, a, b) ==
  LET there == Pointer(w, a)
      here  == StorePointer(w, a)
  IN  \/ ~(Inside(there, Width(Func3(w))) <=> Fits(w, here))
      \/ Fits(w, here) /\ Stored(w, here, b) # Stored(w, there, b)

\* JALR does not clear the lowest bit of the target, and so finds it misaligned.
OddTarget(w, a) ==
  Plus(a, ImmI(w))[1] % 4 = 1 /\ Inside(Even(Plus(a, ImmI(w))), 1)

\* Encodings that are reserved and are executed as others.
Reserved(w, a) ==
  \/ Opcode(w) = 51 /\ Func3(w) \notin {0, 5}
  \/ Opcode(w) = 19 /\ Func3(w) = 1
  \/ Opcode(w) = 35 /\ Inside(StorePointer(w, a), 1)
  \/ Opcode(w) = 103 /\ LET target == Plus(a, ImmI(w))
                        IN  target[1] % 4 = 0 /\ Inside(target, 1)
  \/ Opcode(w) \in {15, 115}

\* DEC borrows from the second byte only, and passes a carry on.  INC of the
\* largest value throws, and so does DEC if that carry leaves the top byte
\* (addByteToBytes).
DecrementBorrows(w, a) == Func3(w) = 1 /\ a[1] = 0
ByteThrows(w, a) ==
  /\ a[3] = 255 /\ a[4] = 255
  /\ \/ Func3(w) = 0 /\ a[1] = 255 /\ a[2] = 255
     \/ Func3(w) = 1 /\ a[1] = 0 /\ a[2] # 0

\* The word at the end of memory cannot be fetched.
LastWord == Inside(pc, 4) /\ ~Inside(pc, 5) /\ ~Faults(Current, A, B)

\* A legal instruction leaves another value for rd.
OtherValue(w, a, b) ==
  \/ Opcode(w) = 51 /\ Func3(w) = 0 /\ Func7(w) = 32 /\ DoubleBorrow(a, b)
  \/ Opcode(w) = 51 /\ Func3(w) = 2 /\ SignedByBytes(a, b)
  \/ Opcode(w) = 51 /\ Func3(w) \in {1, 5} /\ ShiftNotMasked(w, a, b)
  \/ Opcode(w) = 19 /\ SltiIgnoresImmediate(w, a)
  \/ Opcode(w) = 127 /\ DecrementBorrows(w, a)

\* A legal instruction has another effect.
Departs(w, a, b) ==
  \/ HasResult(w) /\ OtherValue(w, a, b)
  \/ Opcode(w) = 127 /\ ByteThrows(w, a)
  \/ /\ Opcode(w) = 99 /\ Func3(w) \in {4, 5} /\ SignedByBytes(a, b)
     /\ Plus(pc, ImmB(w)) # Plus(pc, Four)
  \/ Opcode(w) = 103 /\ OddTarget(w, a)
  \/ Opcode(w) = 3 /\ LoadFromTheEnd(w, a)
  \/ Opcode(w) = 35 /\ StoreElsewhere(w, a, b)

Erratum ==
  \/ LastWord
  \/ /\ Inside(pc, 5)
     /\ IF Legal(Current) THEN Departs(Current, A, B) ELSE Reserved(Current, A)

\* Under an erratum the next state is not the one of the manual.
Deviate ==
  /\ outcome = "running" /\ ~HaltReached /\ Erratum
  /\ outcome' \in {"running", "exception"}
  /\ UNCHANGED <<image, haltAt, custom>>

SpecWithErrata == Init /\ [][Next \/ Deviate]_machine

\* Every erratum is one: no step under it is a step of the manual.
Real == [][outcome = "running" /\ ~HaltReached /\ Erratum => ~Next]_machine

=============================================================================
