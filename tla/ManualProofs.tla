----------------------------- MODULE ManualProofs -----------------------------
(***************************************************************************)
(* The emulator on one HART and the machine of the manual (modules Manual  *)
(* and Errata) under the mapping of DatapathProperties: whatever the       *)
(* program, the memory and the command line, a step of the emulator is one *)
(* of that machine, or none, unless an erratum applies to the instruction. *)
(***************************************************************************)
EXTENDS DatapathProofs

-----------------------------------------------------------------------------
(* Addresses. *)

\* The sizes that a memory can have are below what an address can stand for.
LEMMA SizeOfMemory ==
  ASSUME ConfigType(config)
  PROVE  config.memorySize \in Nat /\ config.memorySize <= ULongBound
BY BoundIsNat DEF ConfigType, MemorySizes

\* Bytes from an address on lie in memory if their end does.
LEMMA InsideIsBelow ==
  ASSUME ConfigType(config), Full, NEW v \in Words, NEW width \in {1, 2, 3, 4, 5}
  PROVE  Machine!Inside(v, width) <=> getBytesToULong(v) + width <= config.memorySize
<1>1. PICK size \in Nat : size = config.memorySize /\ size <= ULongBound
  BY SizeOfMemory
<1>2. DOMAIN memory = 0 .. size - 1
  BY <1>1 DEF Full
<1>3. CASE v[4] # 0
  <2>1. PICK bound \in Nat : bound = ULongBound
    BY BoundIsNat
  <2>2. PICK n \in Nat : n = getBytesToULong(v) /\ n >= bound
    BY <1>3, <2>1, ULongOfWord
  <2>3. ~(n + width <= size)
    BY <1>1, <2>1, <2>2
  <2>4. ~Machine!Inside(v, width)
    BY <1>3 DEF Machine!Inside
  <2> QED BY <1>1, <2>2, <2>3, <2>4
<1>4. CASE v[4] = 0
  <2>1. PICK n \in Nat : n = getBytesToULong(v) /\ n = Machine!Address(v)
    BY <1>4, ULongOfWord
  <2>2. Machine!Inside(v, width) <=> \A i \in 0 .. width - 1 : n + i \in 0 .. size - 1
    BY <1>2, <1>4, <2>1 DEF Machine!Inside
  <2>3. (\A i \in 0 .. width - 1 : n + i \in 0 .. size - 1) <=> n + width <= size
    <3>1. ASSUME \A i \in 0 .. width - 1 : n + i \in 0 .. size - 1
          PROVE  n + width <= size
      <4>1. width - 1 \in 0 .. width - 1
        OBVIOUS
      <4>2. n + (width - 1) \in 0 .. size - 1
        BY <3>1, <4>1
      <4> QED BY <4>2
    <3>2. ASSUME n + width <= size, NEW i \in 0 .. width - 1
          PROVE  n + i \in 0 .. size - 1
      BY <3>2
    <3> QED BY <3>1, <3>2
  <2> QED BY <1>1, <2>1, <2>2, <2>3
<1> QED BY <1>3, <1>4

\* The instruction after one that is not the last: its address is aligned and
\* in memory.
LEMMA NextIsInMemory ==
  ASSUME NEW v \in Words, v[4] = 0, v[1] % 4 = 0,
         NEW size \in Nat, size <= ULongBound, getBytesToULong(v) + 4 < size
  PROVE  LET next == Machine!Plus(v, Machine!Four)
         IN  next \in Words /\ next[1] % 4 = 0 /\ getBytesToULong(next) + 1 <= size
<1> DEFINE next == Machine!Plus(v, Machine!Four)
<1>1. PICK x \in 0 .. 255, y \in 0 .. 255, z \in 0 .. 255 : x = v[1] /\ y = v[2] /\ z = v[3]
  BY WordNumbers
<1>2. getBytesToULong(v) = x + 256 * y + 65536 * z
  <2>1. getBytesToULong(v) = Machine!Address(v)
    BY ULongOfWord
  <2>2. Machine!Address(v) = x + 256 * y + 65536 * z
    BY SMT, <1>1 DEF Machine!Address
  <2> QED BY <2>1, <2>2
<1>3. x + 256 * y + 65536 * z + 4 < 16777216
  <2>1. ULongBound = 16777216
    BY SMT DEF ULongBound
  <2> QED BY <1>2, <2>1
<1>4. Machine!Four = <<4, 0, 0, 0>>
  BY DEF Machine!Four
<1>5. next = LET low == x + 256 * y + 4
             IN  <<low % 256, (low \div 256) % 256,
                   (z + low \div 65536) % 256, ((z + low \div 65536) \div 256) % 256>>
  <2>1. Machine!Low(v) = x + 256 * y /\ Machine!High(v) = z
    BY <1>1 DEF Machine!Low, Machine!High
  <2>2. Machine!Low(Machine!Four) = 4 /\ Machine!High(Machine!Four) = 0
    BY <1>4 DEF Machine!Low, Machine!High
  <2>3. next = LET low == x + 256 * y + 4 IN Machine!Halves(low, z + 0 + low \div 65536)
    BY <2>1, <2>2 DEF Machine!Plus
  <2> QED BY <2>3 DEF Machine!Halves
<1>6. next \in Words
  <2>1. Machine!Four \in Words
    BY SingleWord DEF Machine!Four, Single
  <2> QED BY <2>1, PlusType
<1>7. x % 4 = 0
  BY <1>1
<1> HIDE DEF next
<1>8. CASE x < 252
  <2>1. next = <<x + 4, y, z, 0>>
    BY <1>5, <1>8
  <2>2. Machine!Address(next) = x + 256 * y + 65536 * z + 4 /\ next[4] = 0 /\ next[1] = x + 4
    BY <2>1 DEF Machine!Address
  <2>3. (x + 4) % 4 = 0
    BY <1>7
  <2> QED BY <1>2, <1>6, <2>2, <2>3, ULongOfWord DEF next
<1>9. CASE x = 252 /\ y < 255
  <2>1. next = <<0, y + 1, z, 0>>
    BY <1>5, <1>9
  <2>2. Machine!Address(next) = x + 256 * y + 65536 * z + 4 /\ next[4] = 0 /\ next[1] = 0
    BY <1>9, <2>1 DEF Machine!Address
  <2> QED BY <1>2, <1>6, <2>2, ULongOfWord DEF next
<1>10. CASE x = 252 /\ y = 255
  <2>1. z < 255
    BY <1>3, <1>10
  <2>2. next = <<0, 0, z + 1, 0>>
    BY <1>5, <1>10, <2>1
  <2>3. Machine!Address(next) = x + 256 * y + 65536 * z + 4 /\ next[4] = 0 /\ next[1] = 0
    BY <1>10, <2>2 DEF Machine!Address
  <2> QED BY <1>2, <1>6, <2>3, ULongOfWord DEF next
<1>11. x < 252 \/ x = 252
  BY <1>7
<1> QED BY <1>8, <1>9, <1>10, <1>11

-----------------------------------------------------------------------------
(* The manual, one opcode at a time. *)

LEMMA LegalCases ==
  ASSUME NEW w
  PROVE  /\ Machine!Opcode(w) \in {55, 23, 111} => Machine!Legal(w)
         /\ Machine!Opcode(w) \in {103, 15} => (Machine!Legal(w) <=> Machine!Func3(w) = 0)
         /\ Machine!Opcode(w) = 99 => (Machine!Legal(w) <=> Machine!Func3(w) \notin {2, 3})
         /\ Machine!Opcode(w) = 3 => (Machine!Legal(w) <=> Machine!Func3(w) \in {0, 1, 2, 4, 5})
         /\ Machine!Opcode(w) = 35 => (Machine!Legal(w) <=> Machine!Func3(w) \in {0, 1, 2})
         /\ Machine!Opcode(w) = 19 =>
              (Machine!Legal(w) <=> /\ Machine!Func3(w) = 1 => Machine!Func7(w) = 0
                                    /\ Machine!Func3(w) = 5 => Machine!Func7(w) \in {0, 32})
         /\ Machine!Opcode(w) = 51 =>
              (Machine!Legal(w) <=> \/ Machine!Func7(w) = 0
                                    \/ Machine!Func7(w) = 32 /\ Machine!Func3(w) \in {0, 5})
         /\ Machine!Opcode(w) = 127 =>
              (Machine!Legal(w) <=> /\ Started /\ T_EXTENSION \in config.extensionSet
                                    /\ Machine!Func3(w) \in {0, 1})
         /\ Machine!Opcode(w) \notin BaseOpcodes \cup {127} => ~Machine!Legal(w)
BY DEF Machine!Legal, BaseOpcodes

\* The address of the next instruction.
LEMMA NextPCCases ==
  ASSUME NEW w, NEW a, NEW b
  PROVE  /\ Machine!Opcode(w) = 111 => Machine!NextPC(w, a, b) = Machine!Plus(PC, Machine!ImmJ(w))
         /\ Machine!Opcode(w) = 103 =>
              Machine!NextPC(w, a, b) = Machine!Even(Machine!Plus(a, Machine!ImmI(w)))
         /\ Machine!Opcode(w) = 99 =>
              Machine!NextPC(w, a, b) = Machine!Plus(PC, IF Machine!Taken(w, a, b) THEN Machine!ImmB(w)
                                                                                ELSE Machine!Four)
         /\ Machine!Opcode(w) \notin {111, 103, 99} =>
              Machine!NextPC(w, a, b) = Machine!Plus(PC, Machine!Four)
BY DEF Machine!NextPC

\* The value for rd.
LEMMA ValueCases ==
  ASSUME NEW w, NEW a, NEW b
  PROVE  /\ Machine!Opcode(w) = 55 => Machine!Value(w, a, b) = Machine!ImmU(w)
         /\ Machine!Opcode(w) = 23 => Machine!Value(w, a, b) = Machine!Plus(PC, Machine!ImmU(w))
         /\ Machine!Opcode(w) \in {111, 103} =>
              Machine!Value(w, a, b) = Machine!Plus(PC, Machine!Four)
         /\ Machine!Opcode(w) = 3 => Machine!Value(w, a, b) = Machine!Loaded(w, a)
BY DEF Machine!Value

LEMMA ValueOfBits ==
  ASSUME NEW w, NEW a, NEW b, Machine!Opcode(w) = 19
  PROVE  Machine!Value(w, a, b) =
           Machine!Alu(Machine!Func3(w), Machine!Func3(w) = 5 /\ Machine!Func7(w) = 32,
                       a, Machine!ImmI(w))
BY DEF Machine!Value

LEMMA ValueOfTwo ==
  ASSUME NEW w, NEW a, NEW b, Machine!Opcode(w) = 51
  PROVE  Machine!Value(w, a, b) = Machine!Alu(Machine!Func3(w), Machine!Func7(w) = 32, a, b)
BY DEF Machine!Value

LEMMA ValueOfCount ==
  ASSUME NEW w, NEW a, NEW b, Machine!Opcode(w) = 127
  PROVE  /\ Machine!Func3(w) = 0 => Machine!Value(w, a, b) = Machine!Plus(a, Single(1))
         /\ Machine!Func3(w) = 1 => Machine!Value(w, a, b) = Machine!Minus(a, Single(1))
BY DEF Machine!Value, Single

\* The arithmetic of the manual.
LEMMA AluCases ==
  ASSUME NEW alternate, NEW a, NEW b
  PROVE  /\ Machine!Alu(0, alternate, a, b) = IF alternate THEN Machine!Minus(a, b) ELSE Machine!Plus(a, b)
         /\ Machine!Alu(1, alternate, a, b) = Machine!ShiftLeft(a, b[1] % 32)
         /\ Machine!Alu(2, alternate, a, b) = Machine!Truth(Machine!LessSigned(a, b))
         /\ Machine!Alu(3, alternate, a, b) = Machine!Truth(Machine!LessUnsigned(a, b))
         /\ Machine!Alu(4, alternate, a, b) =
              Machine!Word([i \in 0 .. 31 |-> (Machine!Bits(a)[i] + Machine!Bits(b)[i]) % 2])
         /\ Machine!Alu(5, alternate, a, b) =
              Machine!ShiftRight(a, b[1] % 32, IF alternate THEN Machine!Sign(a) ELSE 0)
         /\ Machine!Alu(6, alternate, a, b) =
              Machine!Word([i \in 0 .. 31 |-> IF Machine!Bits(a)[i] + Machine!Bits(b)[i] = 0 THEN 0 ELSE 1])
         /\ Machine!Alu(7, alternate, a, b) =
              Machine!Word([i \in 0 .. 31 |-> Machine!Bits(a)[i] * Machine!Bits(b)[i]])
<1>1. Machine!Alu(0, alternate, a, b) = IF alternate THEN Machine!Minus(a, b) ELSE Machine!Plus(a, b)
  BY DEF Machine!Alu
<1>2. Machine!Alu(1, alternate, a, b) = Machine!ShiftLeft(a, b[1] % 32)
  BY DEF Machine!Alu
<1>3. Machine!Alu(2, alternate, a, b) = Machine!Truth(Machine!LessSigned(a, b))
  BY DEF Machine!Alu
<1>4. Machine!Alu(3, alternate, a, b) = Machine!Truth(Machine!LessUnsigned(a, b))
  BY DEF Machine!Alu
<1>5. Machine!Alu(4, alternate, a, b) =
              Machine!Word([i \in 0 .. 31 |-> (Machine!Bits(a)[i] + Machine!Bits(b)[i]) % 2])
  BY DEF Machine!Alu
<1>6. Machine!Alu(5, alternate, a, b) =
              Machine!ShiftRight(a, b[1] % 32, IF alternate THEN Machine!Sign(a) ELSE 0)
  BY DEF Machine!Alu
<1>7. Machine!Alu(6, alternate, a, b) =
              Machine!Word([i \in 0 .. 31 |-> IF Machine!Bits(a)[i] + Machine!Bits(b)[i] = 0 THEN 0 ELSE 1])
  BY DEF Machine!Alu
<1>8. Machine!Alu(7, alternate, a, b) =
              Machine!Word([i \in 0 .. 31 |-> Machine!Bits(a)[i] * Machine!Bits(b)[i]])
  BY DEF Machine!Alu
<1> QED BY <1>1, <1>2, <1>3, <1>4, <1>5, <1>6, <1>7, <1>8

\* Which instructions fault.
LEMMA FaultCases ==
  ASSUME NEW w, NEW a, NEW b
  PROVE  /\ ~Machine!Legal(w) => Machine!Faults(w, a, b)
         /\ Machine!Legal(w) /\ Machine!Opcode(w) \in {111, 103, 99} =>
              (Machine!Faults(w, a, b) <=> \/ Machine!NextPC(w, a, b)[1] % 4 # 0
                                           \/ ~Machine!Inside(Machine!NextPC(w, a, b), 1))
         /\ Machine!Legal(w) /\ Machine!Opcode(w) \in {3, 35} =>
              (Machine!Faults(w, a, b) <=>
                 ~Machine!Inside(Machine!Pointer(w, a), Machine!Width(Machine!Func3(w))))
         /\ Machine!Legal(w) /\ Machine!Opcode(w) \notin {111, 103, 99, 3, 35} =>
              ~Machine!Faults(w, a, b)
BY DEF Machine!Faults

-----------------------------------------------------------------------------
(* The decoded instruction, in the words of the manual. *)

\* The instruction i is the word w at the PC, with the operands a and b.
Means(i, w, a, b) ==
  /\ Executable(i) /\ w \in Words /\ a \in Words /\ b \in Words
  /\ i.opcode = Machine!Opcode(w) /\ i.rd = Machine!Rd(w)
  /\ i.func3 = Machine!Func3(w) /\ i.func7 = Machine!Func7(w)
  /\ i.pc = PC /\ i.rs1Val = a /\ i.rs2Val = b
  /\ i.opcode = 127 => Started /\ T_EXTENSION \in config.extensionSet
  /\ i.opcode \in {103, 3, 19, 15, 115, 127} => i.imm = DecodeI(w)
  /\ i.opcode = 35 => i.imm = DecodeS(w)
  /\ i.opcode = 99 => i.imm = DecodeB(w)
  /\ i.opcode \in {55, 23} => i.imm = DecodeU(w)
  /\ i.opcode = 111 => i.imm = DecodeJ(w)

\* The PC and the memory of an instruction that was fetched.
Here ==
  /\ ConfigType(config) /\ Full
  /\ PC \in Words /\ PC[4] = 0 /\ PC[1] % 4 = 0
  /\ getBytesToULong(PC) + 4 < config.memorySize

\* The registers that the current instruction reads.
FirstOperand  == registers[Field(fetched, 15, 19)]
SecondOperand == registers[Field(fetched, 20, 24)]

LEMMA RunningOutcome ==
  ASSUME stage \in Running
  PROVE  Outcome = "running" /\ Started
<1>1. stage \notin {"start", "load", "refused", "terminated", "exception", "halted"}
  BY DEF Running
<1>2. Outcome = "running"
  BY <1>1, Zenon DEF Outcome
<1> QED BY <1>2 DEF Started

LEMMA InstructionMeans ==
  ASSUME DataInv, stage \in {"execute", "memoryAccess"}
  PROVE  Means(ins, fetched, FirstOperand, SecondOperand)
<1> DEFINE w == fetched
           o == Field(fetched, 0, 6)
           e == config.extensionSet
           t == Opcodes(e)[o]
<1>1. Executable(ins) /\ Decoded /\ Full
  BY InstructionExecutable
<1>2. w \in Words
  BY DEF DataInv, FetchedInv
<1>3. o \in DOMAIN Opcodes(e) /\ Fields(ins, t, w, pc, FirstOperand, SecondOperand)
  BY <1>1 DEF Decoded, FirstOperand, SecondOperand
<1>4. FirstOperand \in Words /\ SecondOperand \in Words
  BY <1>1, <1>2, FieldRanges DEF Full, FirstOperand, SecondOperand
<1>5. PC = pc /\ Started
  BY RunningOutcome DEF PC, Running
<1> HIDE DEF w, o, e, t
<1>6. /\ ins.opcode = o /\ ins.rd = Field(w, 7, 11) /\ ins.func3 = Field(w, 12, 14)
      /\ ins.func7 = Field(w, 25, 31) /\ ins.imm = Immediate(t, w)
      /\ ins.pc = pc /\ ins.rs1Val = FirstOperand /\ ins.rs2Val = SecondOperand
  BY <1>3 DEF Fields, o, w
<1>7. /\ o = Machine!Opcode(w) /\ Field(w, 7, 11) = Machine!Rd(w)
      /\ Field(w, 12, 14) = Machine!Func3(w) /\ Field(w, 25, 31) = Machine!Func7(w)
  BY <1>2, FieldsRead DEF o, w
<1>8. /\ o \in BaseOpcodes \/ (o = 127 /\ T_EXTENSION \in e)
      /\ o \in {55, 23} => t = "U"
      /\ o = 111 => t = "J"
      /\ o = 99 => t = "B"
      /\ o = 35 => t = "S"
      /\ o \in {103, 3, 19, 15, 115, 127} => t = "I"
  BY <1>3, OpcodeFormats DEF t
<1>9. o = 127 => Started /\ T_EXTENSION \in config.extensionSet
  BY <1>5, <1>8 DEF BaseOpcodes, e
<1>10. /\ o \in {103, 3, 19, 15, 115, 127} => Immediate(t, w) = DecodeI(w)
       /\ o = 35 => Immediate(t, w) = DecodeS(w)
       /\ o = 99 => Immediate(t, w) = DecodeB(w)
       /\ o \in {55, 23} => Immediate(t, w) = DecodeU(w)
       /\ o = 111 => Immediate(t, w) = DecodeJ(w)
  BY <1>8, ImmediateCases
<1> QED BY <1>1, <1>2, <1>4, <1>5, <1>6, <1>7, <1>9, <1>10 DEF Means, w

\* The instruction that follows in memory.
LEMMA FollowingInstruction ==
  ASSUME Here, NEW i, NEW w, NEW a, NEW b, Means(i, w, a, b)
  PROVE  /\ IncPC(i) = Machine!Plus(PC, Machine!Four)
         /\ IncPC(i) \in Words /\ IncPC(i)[1] % 4 = 0
         /\ getBytesToULong(IncPC(i)) + 1 <= config.memorySize
<1>1. i.pc = PC
  BY DEF Means
<1>2. IncPC(i) = Machine!Plus(PC, Machine!Four)
  BY <1>1, NextInstruction DEF Here
<1>3. PICK size \in Nat : size = config.memorySize /\ size <= ULongBound
  BY SizeOfMemory DEF Here
<1> QED BY <1>2, <1>3, NextIsInMemory DEF Here

\* Whether the check of a jump or a branch fails.
LEMMA JumpChecked ==
  ASSUME Here, NEW r \in Words, NEW n \in Words
  PROVE  /\ JumpTo(r, n, config.memorySize).fault = "none"
              <=> n[1] % 4 = 0 /\ Machine!Inside(n, 1)
         /\ JumpTo(r, n, config.memorySize).fault \in {"none", "AddressMisaligned", "AddressOutOfMemory"}
         /\ JumpTo(r, n, config.memorySize).fault = "none" =>
              /\ JumpTo(r, n, config.memorySize).result = r
              /\ JumpTo(r, n, config.memorySize).next = n
<1>1. Machine!Inside(n, 1) <=> getBytesToULong(n) + 1 <= config.memorySize
  BY InsideIsBelow DEF Here
<1>2. PICK size \in Nat : size = config.memorySize
  BY SizeOfMemory DEF Here
<1>3. PICK address \in Nat : address = getBytesToULong(n)
  BY ULongOfWord, BoundIsNat
<1>4. getBytesToULong(n) >= config.memorySize <=> ~Machine!Inside(n, 1)
  BY <1>1, <1>2, <1>3
<1>5. CASE n[1] % 4 # 0
  BY <1>5, EffectOfThrow DEF JumpTo
<1>6. CASE n[1] % 4 = 0 /\ ~Machine!Inside(n, 1)
  BY <1>4, <1>6, EffectOfThrow DEF JumpTo
<1>7. CASE n[1] % 4 = 0 /\ Machine!Inside(n, 1)
  BY <1>4, <1>7, EffectOfDone DEF JumpTo
<1> QED BY <1>5, <1>6, <1>7

-----------------------------------------------------------------------------
(* One instruction, in the execute and the memory stage, against one of    *)
(* the manual.                                                             *)

\* What the instruction leaves for rd.
ForRd(i, e) == IF i.opcode = 3 THEN memLoad(i, e.result, memory) ELSE e.result

\* The effect e of the instruction, and its access to memory, are those of the
\* word.
SameEffect(i, w, a, b, e) ==
  /\ ~Machine!Faults(w, a, b)
  /\ e.next = Machine!NextPC(w, a, b)
  /\ Machine!HasResult(w) => ForRd(i, e) = Machine!Value(w, a, b)
  /\ i.opcode = 35 => memStore(i, e.result, memory) = Machine!Stored(w, Machine!Pointer(w, a), b)

Agrees(i, w, a, b, e) ==
  /\ e.fault # "none" => Machine!Faults(w, a, b)
  /\ e.fault = "none" /\ memFault(i, e.result, config.memorySize) # "none" => Machine!Faults(w, a, b)
  /\ e.fault = "none" /\ memFault(i, e.result, config.memorySize) = "none" => SameEffect(i, w, a, b, e)

\* No erratum applies to the instruction.
NoErratum(w, a, b) ==
  IF Machine!Legal(w) THEN ~Machine!Departs(w, a, b) ELSE ~Machine!Reserved(w, a)

\* An instruction that does not touch memory.
LEMMA NoAccess ==
  ASSUME NEW i, i.opcode \notin {3, 35}, NEW v
  PROVE  memFault(i, v, config.memorySize) = "none" /\ \A e : ForRd(i, e) = e.result
BY DEF memFault, ForRd

\* What throws agrees if the word is not legal.
LEMMA ThrowAgrees ==
  ASSUME NEW i, NEW w, NEW a, NEW b, ~Machine!Legal(w), NEW e, e.fault # "none"
  PROVE  Agrees(i, w, a, b, e)
BY FaultCases DEF Agrees

\* What neither jumps nor touches memory agrees if the value does.
LEMMA PlainAgrees ==
  ASSUME Here, NEW i, NEW w, NEW a, NEW b, Means(i, w, a, b),
         i.opcode \notin {111, 103, 99, 3, 35}, Machine!Legal(w),
         NEW r \in Words, Machine!HasResult(w) => r = Machine!Value(w, a, b)
  PROVE  Agrees(i, w, a, b, Done(r, IncPC(i)))
<1>1. i.opcode = Machine!Opcode(w)
  BY DEF Means
<1>2. IncPC(i) = Machine!Plus(PC, Machine!Four) /\ IncPC(i) \in Words
  BY FollowingInstruction
<1>3. ~Machine!Faults(w, a, b) /\ Machine!NextPC(w, a, b) = Machine!Plus(PC, Machine!Four)
  BY <1>1, FaultCases, NextPCCases
<1>4. /\ Done(r, IncPC(i)).fault = "none" /\ Done(r, IncPC(i)).result = r
      /\ Done(r, IncPC(i)).next = IncPC(i)
  BY <1>2, EffectOfDone
<1>5. memFault(i, r, config.memorySize) = "none" /\ ForRd(i, Done(r, IncPC(i))) = r
  BY <1>4, NoAccess
<1>6. i.opcode # 35
  OBVIOUS
<1>7. SameEffect(i, w, a, b, Done(r, IncPC(i)))
  BY <1>2, <1>3, <1>4, <1>5, <1>6 DEF SameEffect
<1> QED BY <1>4, <1>5, <1>7 DEF Agrees

\* A jump or branch to the address of the manual.
LEMMA JumpAgrees ==
  ASSUME Here, NEW i, NEW w, NEW a, NEW b, Means(i, w, a, b),
         i.opcode \in {111, 103, 99}, Machine!Legal(w),
         NEW n \in Words, n = Machine!NextPC(w, a, b),
         NEW r \in Words, Machine!HasResult(w) => r = Machine!Value(w, a, b)
  PROVE  Agrees(i, w, a, b, JumpTo(r, n, config.memorySize))
<1> DEFINE e == JumpTo(r, n, config.memorySize)
<1>1. i.opcode = Machine!Opcode(w)
  BY DEF Means
<1>2. e.fault = "none" <=> n[1] % 4 = 0 /\ Machine!Inside(n, 1)
  BY JumpChecked
<1>3. e.fault = "none" => e.result = r /\ e.next = n
  BY JumpChecked
<1> HIDE DEF e
<1>4. Machine!Faults(w, a, b) <=> n[1] % 4 # 0 \/ ~Machine!Inside(n, 1)
  BY <1>1, FaultCases
<1>5. memFault(i, e.result, config.memorySize) = "none" /\ ForRd(i, e) = e.result
  BY NoAccess
<1>6. i.opcode # 35
  OBVIOUS
<1>7. e.fault = "none" => SameEffect(i, w, a, b, e)
  BY <1>2, <1>3, <1>4, <1>5, <1>6 DEF SameEffect
<1>8. Agrees(i, w, a, b, e)
  BY <1>2, <1>4, <1>5, <1>7 DEF Agrees
<1> QED BY <1>8 DEF e

\* When adding minus one throws, and what it gives if the first byte is zero.
LEMMA AddMinusOneThrows ==
  ASSUME NEW a \in Words
  PROVE  /\ addByteToBytes(a, 255) = <<>>
              <=> a[1] = 0 /\ a[2] # 0 /\ a[3] = 255 /\ a[4] = 255
         /\ addByteToBytes(a, 255) # <<>> /\ a[1] = 0 =>
              addByteToBytes(a, 255)[1] = 255 /\ addByteToBytes(a, 255)[2] = (a[2] + 255) % 256
<1>1. PICK x1 \in 0 .. 255, x2 \in 0 .. 255, x3 \in 0 .. 255, x4 \in 0 .. 255 :
        x1 = a[1] /\ x2 = a[2] /\ x3 = a[3] /\ x4 = a[4]
  BY Zenon, FourNumbers
<1> DEFINE r1 == FirstRest(x1 + Char(255))
           r2 == (x2 + r1) \div 256
           r3 == (x3 + r2) \div 256
           r4 == (x4 + r3) \div 256
           z1 == (x1 + 255) % 256
           z2 == (x2 + r1) % 256
           z3 == (x3 + r2) % 256
           z4 == (x4 + r3) % 256
<1>2. addByteToBytes(a, 255) = IF r4 # 0 THEN <<>> ELSE <<z1, z2, z3, z4>>
  BY <1>1, Rests
<1>3. r1 = (IF x1 = 0 THEN 255 ELSE 0)
  BY DEF FirstRest, Char
<1>4. x1 = 0 => z1 = 255 /\ z2 = (x2 + 255) % 256
  BY <1>3
<1> HIDE DEF r1, z1, z2, z3, z4
<1>5. r2 = IF x1 = 0 /\ x2 # 0 THEN 1 ELSE 0
  BY <1>3
<1> HIDE DEF r2
<1>6. r3 = IF x1 = 0 /\ x2 # 0 /\ x3 = 255 THEN 1 ELSE 0
  BY <1>5
<1> HIDE DEF r3
<1>7. r4 = IF x1 = 0 /\ x2 # 0 /\ x3 = 255 /\ x4 = 255 THEN 1 ELSE 0
  BY <1>6
<1> HIDE DEF r4
<1>8. <<z1, z2, z3, z4>> # <<>>
  OBVIOUS
<1>9. <<z1, z2, z3, z4>>[1] = z1 /\ <<z1, z2, z3, z4>>[2] = z2
  OBVIOUS
<1> DEFINE sum == addByteToBytes(a, 255)
<1>10. /\ sum = <<>> <=> r4 # 0
       /\ sum # <<>> => sum[1] = z1 /\ sum[2] = z2
  BY <1>2, <1>8, <1>9
<1> HIDE DEF sum
<1>11. r4 # 0 <=> x1 = 0 /\ x2 # 0 /\ x3 = 255 /\ x4 = 255
  BY <1>7
<1>12. sum = <<>> <=> a[1] = 0 /\ a[2] # 0 /\ a[3] = 255 /\ a[4] = 255
  BY <1>1, <1>10, <1>11
<1>13. sum # <<>> /\ a[1] = 0 => sum[1] = 255 /\ sum[2] = (a[2] + 255) % 256
  BY <1>1, <1>4, <1>10
<1> QED BY <1>12, <1>13 DEF sum

\* LUI and AUIPC.
LEMMA UpperAgrees ==
  ASSUME Here, NEW i, NEW w, NEW a, NEW b, Means(i, w, a, b), i.opcode \in {55, 23}
  PROVE  Agrees(i, w, a, b, execute(i, config.memorySize))
<1>1. w \in Words /\ i.opcode = Machine!Opcode(w) /\ i.imm = DecodeU(w) /\ i.pc = PC /\ PC \in Words
  BY DEF Means, Here
<1>2. i.imm = Machine!ImmU(w) /\ i.imm \in Words /\ Vector(i.imm) /\ SignExtended(i.imm) = i.imm
  BY <1>1, ImmediateU, WordsAreVectors, ExtendedImmediates
<1>3. Machine!Legal(w)
  BY <1>1, LegalCases
<1>4. CASE i.opcode = 55
  <2>1. execute(i, config.memorySize) = Done(i.imm, IncPC(i))
    BY <1>4, ExecuteCases
  <2>2. i.imm = Machine!Value(w, a, b)
    <3>1. Machine!Opcode(w) = 55
      BY <1>1, <1>4
    <3> QED BY <1>2, <3>1, ValueCases
  <2>3. i.opcode \notin {111, 103, 99, 3, 35}
    BY <1>4
  <2> QED BY <1>2, <1>3, <2>1, <2>2, <2>3, PlainAgrees
<1>5. CASE i.opcode = 23
  <2> DEFINE r == bytesAddSignedToPC(i.pc, i.imm)
  <2>1. execute(i, config.memorySize) = Done(r, IncPC(i))
    BY <1>5, ExecuteCases
  <2>2. r = Machine!Plus(PC, i.imm) /\ r \in Words
    BY <1>1, <1>2, Sums
  <2>3. r = Machine!Value(w, a, b)
    <3>1. Machine!Opcode(w) = 23
      BY <1>1, <1>5
    <3> QED BY <1>2, <2>2, <3>1, ValueCases
  <2>4. i.opcode \notin {111, 103, 99, 3, 35}
    BY <1>5
  <2> HIDE DEF r
  <2> QED BY <1>3, <2>1, <2>2, <2>3, <2>4, PlainAgrees
<1> QED BY <1>4, <1>5

\* JAL.
LEMMA JALAgrees ==
  ASSUME Here, NEW i, NEW w, NEW a, NEW b, Means(i, w, a, b), i.opcode = 111
  PROVE  Agrees(i, w, a, b, execute(i, config.memorySize))
<1> DEFINE n == bytesAddSignedToPC(i.pc, i.imm)
<1>1. w \in Words /\ i.opcode = Machine!Opcode(w) /\ i.imm = DecodeJ(w) /\ i.pc = PC /\ PC \in Words
  BY DEF Means, Here
<1>2. SignExtended(i.imm) = Machine!ImmJ(w) /\ Vector(i.imm)
  BY <1>1, ImmediateJ, ExtendedImmediates
<1>3. n = Machine!Plus(PC, Machine!ImmJ(w)) /\ n \in Words
  BY <1>1, <1>2, Sums
<1>4. IncPC(i) = Machine!Plus(PC, Machine!Four) /\ IncPC(i) \in Words
  BY FollowingInstruction
<1>5. execute(i, config.memorySize) = JumpTo(IncPC(i), n, config.memorySize)
  BY ExecuteCases DEF executeJAL
<1> HIDE DEF n
<1>6. Machine!Legal(w) /\ n = Machine!NextPC(w, a, b) /\ IncPC(i) = Machine!Value(w, a, b)
  BY <1>1, <1>3, <1>4, LegalCases, NextPCCases, ValueCases
<1> QED BY <1>3, <1>4, <1>5, <1>6, JumpAgrees

\* FENCE, ECALL and EBREAK do nothing; a reserved one does nothing as well,
\* which is an erratum.
LEMMA SilentAgrees ==
  ASSUME Here, NEW i, NEW w, NEW a, NEW b, Means(i, w, a, b), i.opcode \in {15, 115},
         NoErratum(w, a, b)
  PROVE  Agrees(i, w, a, b, execute(i, config.memorySize))
<1>1. i.opcode = Machine!Opcode(w)
  BY DEF Means
<1>2. Machine!Legal(w)
  BY <1>1 DEF NoErratum, Machine!Reserved
<1>3. ~Machine!HasResult(w)
  BY <1>1 DEF Machine!HasResult
<1>4. execute(i, config.memorySize) = Done(Zeros(XLEN), IncPC(i))
  BY ExecuteCases
<1>5. Zeros(XLEN) \in Words /\ i.opcode \notin {111, 103, 99, 3, 35}
  BY ZerosAre
<1> QED BY <1>2, <1>3, <1>4, <1>5, PlainAgrees

\* addByteToBytes with the byte one: the word and one, or, for 0xFFFFFFFF alone, a throw.
LEMMA AddOne ==
  ASSUME NEW a \in Words
  PROVE  /\ addByteToBytes(a, 1) = <<>> \/ addByteToBytes(a, 1) = Machine!Plus(a, Single(1))
         /\ addByteToBytes(a, 1) = <<>> => a[4] = 255 /\ a[3] = 255 /\ a[2] = 255 /\ a[1] + 1 >= 256
<1>1. 1 \in 0 .. 127
  OBVIOUS
<1> QED BY <1>1, AddByteIsPlus

\* INC and DEC.
LEMMA CountAgrees ==
  ASSUME Here, NEW i, NEW w, NEW a, NEW b, Means(i, w, a, b), i.opcode = 127,
         NoErratum(w, a, b)
  PROVE  Agrees(i, w, a, b, execute(i, config.memorySize))
<1>1. /\ i.opcode = Machine!Opcode(w) /\ i.func3 = Machine!Func3(w) /\ i.rs1Val = a /\ a \in Words
      /\ Started /\ T_EXTENSION \in config.extensionSet
  BY DEF Means
<1>9. Machine!Opcode(w) = 127
  BY <1>1
<1>2. Machine!Legal(w) <=> i.func3 \in {0, 1}
  BY <1>1, LegalCases
<1>3. execute(i, config.memorySize) = executeT(i)
  BY ExecuteCases
<1>4. CASE i.func3 \notin {0, 1}
  <2>1. executeT(i).fault # "none"
    BY <1>4, EffectOfThrow DEF executeT
  <2> QED BY <1>2, <1>3, <1>4, <2>1, ThrowAgrees
<1>5. i.func3 \in {0, 1} =>
        ~Machine!ByteThrows(w, a) /\ (Machine!HasResult(w) => ~Machine!DecrementBorrows(w, a))
  BY <1>1, <1>2 DEF NoErratum, Machine!Departs, Machine!OtherValue
<1>6. PICK x1 \in 0 .. 255, x2 \in 0 .. 255, x3 \in 0 .. 255, x4 \in 0 .. 255 :
        x1 = a[1] /\ x2 = a[2] /\ x3 = a[3] /\ x4 = a[4]
  <2>1. a \in Words
    BY <1>1
  <2> QED BY Zenon, <2>1, FourNumbers
<1>7. CASE i.func3 = 0
  <2> DEFINE r == addByteToBytes(a, 1)
  <2>1. executeT(i) = IF r = <<>> THEN Throws("pointer") ELSE Done(r, IncPC(i))
    BY <1>1, <1>7 DEF executeT
  <2>2. 1 \in 0 .. 127 /\ Single(1) \in Words
    BY SingleWord
  <2>3. /\ r = <<>> \/ r = Machine!Plus(a, Single(1))
        /\ r = <<>> => a[4] = 255 /\ a[3] = 255 /\ a[2] = 255 /\ a[1] + 1 >= 256
    <3>1. a \in Words
      BY <1>1
    <3> QED BY Zenon, <3>1, AddOne
  <2>4. r # <<>>
    <3>1. SUFFICES ASSUME r = <<>> PROVE FALSE
      OBVIOUS
    <3>2. a[4] = 255 /\ a[3] = 255 /\ a[2] = 255 /\ a[1] = 255
      <4>1. a[4] = 255 /\ a[3] = 255 /\ a[2] = 255 /\ a[1] + 1 >= 256
        BY Zenon, <2>3, <3>1
      <4>2. x1 + 1 >= 256 => x1 = 255
        OBVIOUS
      <4> QED BY <1>6, <4>1, <4>2
    <3> QED BY <1>1, <1>5, <1>7, <3>2 DEF Machine!ByteThrows
  <2> HIDE DEF r
  <2>5. r \in Words /\ r = Machine!Value(w, a, b)
    <3>1. Machine!Func3(w) = 0
      BY <1>1, <1>7
    <3>2. Machine!Value(w, a, b) = Machine!Plus(a, Single(1))
      BY <1>9, <3>1, ValueOfCount
    <3>3. Machine!Plus(a, Single(1)) \in Words
      BY <1>1, <2>2, PlusType
    <3> QED BY <2>3, <2>4, <3>2, <3>3
  <2>6. i.opcode \notin {111, 103, 99, 3, 35} /\ Machine!Legal(w)
    BY <1>2, <1>7
  <2> QED BY <1>3, <2>1, <2>4, <2>5, <2>6, PlainAgrees
<1>8. CASE i.func3 = 1
  <2> DEFINE r == addByteToBytes(a, 255)
  <2>1. executeT(i) = IF r = <<>> THEN Throws("pointer") ELSE Done(r, IncPC(i))
    BY <1>1, <1>8 DEF executeT
  <2>2. r = <<>> \/ r \in Words
    BY <1>1, AddMinusOne
  <2>3. r # <<>>
    <3>1. CASE a[1] # 0
      BY <1>1, <1>6, <3>1, AddMinusOneThrows
    <3>2. CASE a[1] = 0
      <4>1. ~(a[3] = 255 /\ a[4] = 255 /\ a[2] # 0)
        BY <1>1, <1>5, <1>8, <3>2 DEF Machine!ByteThrows
      <4> QED BY <1>1, <3>2, <4>1, AddMinusOneThrows
    <3> QED BY <3>1, <3>2
  <2>4. Machine!HasResult(w) => r = Machine!Value(w, a, b)
    <3>1. SUFFICES ASSUME Machine!HasResult(w) PROVE r = Machine!Value(w, a, b)
      OBVIOUS
    <3>2. a[1] # 0
      BY <1>1, <1>5, <1>8, <3>1 DEF Machine!DecrementBorrows
    <3>3. r = Machine!Minus(a, Single(1))
      BY <1>1, <3>2, AddMinusOne
    <3>4. Machine!Value(w, a, b) = Machine!Minus(a, Single(1))
      <4>1. Machine!Func3(w) = 1
        BY <1>1, <1>8
      <4> QED BY <1>9, <4>1, ValueOfCount
    <3> QED BY <3>3, <3>4
  <2> HIDE DEF r
  <2>5. i.opcode \notin {111, 103, 99, 3, 35} /\ Machine!Legal(w)
    BY <1>2, <1>8
  <2> QED BY <1>3, <2>1, <2>2, <2>3, <2>4, <2>5, PlainAgrees
<1> QED BY <1>4, <1>7, <1>8

\* What is not less is greater or equal.
LEMMA Ordered ==
  ASSUME NEW a \in Words, NEW b \in Words
  PROVE  /\ bytesGreaterOrequalToUnsigned(a, b) <=> ~bytesLessThanBytesUnsigned(a, b)
         /\ bytesGreaterOrequalToSigned(a, b) <=> ~bytesLessThanBytesSigned(a, b)
<1>1. ASSUME NEW v \in [1 .. 4 -> Int], NEW u \in [1 .. 4 -> Int]
      PROVE  Compare(v, u) \in Int
  <2>1. v[4] - u[4] \in Int /\ v[3] - u[3] \in Int /\ v[2] - u[2] \in Int /\ v[1] - u[1] \in Int
    OBVIOUS
  <2> QED BY <2>1, CompareFour
<1>2. Compare(a, b) \in Int
  BY <1>1, WordsAreIntegers
<1>3. Compare(AsSigned(a), AsSigned(b)) \in Int
  BY <1>1, SignedValues
<1>4. \A n \in Int : n >= 0 <=> ~(n < 0)
  OBVIOUS
<1> QED
  BY <1>2, <1>3, <1>4 DEF bytesGreaterOrequalToUnsigned, bytesLessThanBytesUnsigned,
                          bytesGreaterOrequalToSigned, bytesLessThanBytesSigned

LEMMA BranchCases ==
  ASSUME NEW i
  PROVE  /\ i.func3 = 0 => (BranchTaken(i) <=> i.rs1Val = i.rs2Val)
         /\ i.func3 = 1 => (BranchTaken(i) <=> i.rs1Val # i.rs2Val)
         /\ i.func3 = 4 => (BranchTaken(i) <=> bytesLessThanBytesSigned(i.rs1Val, i.rs2Val))
         /\ i.func3 = 5 => (BranchTaken(i) <=> bytesGreaterOrequalToSigned(i.rs1Val, i.rs2Val))
         /\ i.func3 = 6 => (BranchTaken(i) <=> bytesLessThanBytesUnsigned(i.rs1Val, i.rs2Val))
         /\ i.func3 = 7 => (BranchTaken(i) <=> bytesGreaterOrequalToUnsigned(i.rs1Val, i.rs2Val))
<1>1. ASSUME i.func3 = 0 PROVE BranchTaken(i) <=> i.rs1Val = i.rs2Val
  BY <1>1 DEF BranchTaken
<1>2. ASSUME i.func3 = 1 PROVE BranchTaken(i) <=> i.rs1Val # i.rs2Val
  BY <1>2 DEF BranchTaken
<1>3. ASSUME i.func3 = 4 PROVE BranchTaken(i) <=> bytesLessThanBytesSigned(i.rs1Val, i.rs2Val)
  BY <1>3 DEF BranchTaken
<1>4. ASSUME i.func3 = 5 PROVE BranchTaken(i) <=> bytesGreaterOrequalToSigned(i.rs1Val, i.rs2Val)
  BY <1>4 DEF BranchTaken
<1>5. ASSUME i.func3 = 6 PROVE BranchTaken(i) <=> bytesLessThanBytesUnsigned(i.rs1Val, i.rs2Val)
  BY <1>5 DEF BranchTaken
<1>6. ASSUME i.func3 = 7 PROVE BranchTaken(i) <=> bytesGreaterOrequalToUnsigned(i.rs1Val, i.rs2Val)
  BY <1>6 DEF BranchTaken
<1> QED BY <1>1, <1>2, <1>3, <1>4, <1>5, <1>6

LEMMA TakenCases ==
  ASSUME NEW w, NEW a, NEW b
  PROVE  /\ Machine!Func3(w) = 0 => (Machine!Taken(w, a, b) <=> a = b)
         /\ Machine!Func3(w) = 1 => (Machine!Taken(w, a, b) <=> a # b)
         /\ Machine!Func3(w) = 4 => (Machine!Taken(w, a, b) <=> Machine!LessSigned(a, b))
         /\ Machine!Func3(w) = 5 => (Machine!Taken(w, a, b) <=> ~Machine!LessSigned(a, b))
         /\ Machine!Func3(w) = 6 => (Machine!Taken(w, a, b) <=> Machine!LessUnsigned(a, b))
         /\ Machine!Func3(w) = 7 => (Machine!Taken(w, a, b) <=> ~Machine!LessUnsigned(a, b))
<1>1. ASSUME Machine!Func3(w) = 0 PROVE Machine!Taken(w, a, b) <=> a = b
  BY <1>1 DEF Machine!Taken
<1>2. ASSUME Machine!Func3(w) = 1 PROVE Machine!Taken(w, a, b) <=> a # b
  BY <1>2 DEF Machine!Taken
<1>3. ASSUME Machine!Func3(w) = 4 PROVE Machine!Taken(w, a, b) <=> Machine!LessSigned(a, b)
  BY <1>3 DEF Machine!Taken
<1>4. ASSUME Machine!Func3(w) = 5 PROVE Machine!Taken(w, a, b) <=> ~Machine!LessSigned(a, b)
  BY <1>4 DEF Machine!Taken
<1>5. ASSUME Machine!Func3(w) = 6 PROVE Machine!Taken(w, a, b) <=> Machine!LessUnsigned(a, b)
  BY <1>5 DEF Machine!Taken
<1>6. ASSUME Machine!Func3(w) = 7 PROVE Machine!Taken(w, a, b) <=> ~Machine!LessUnsigned(a, b)
  BY <1>6 DEF Machine!Taken
<1> QED BY <1>1, <1>2, <1>3, <1>4, <1>5, <1>6

\* A branch is taken when the manual says so, unless it compares signed numbers
\* byte by byte.
LEMMA BranchIsTaken ==
  ASSUME NEW i, NEW w, NEW a \in Words, NEW b \in Words,
         i.rs1Val = a, i.rs2Val = b, i.func3 = Machine!Func3(w), i.func3 \in {0, 1, 4, 5, 6, 7},
         i.func3 \in {4, 5} => ~Machine!SignedByBytes(a, b)
  PROVE  BranchTaken(i) <=> Machine!Taken(w, a, b)
<1>1. CASE i.func3 = 0 \/ i.func3 = 1
  BY <1>1, BranchCases, TakenCases
<1>2. CASE i.func3 = 4 \/ i.func3 = 5
  <2>1. bytesLessThanBytesSigned(a, b) <=> Machine!LessSigned(a, b)
    BY <1>2, SignedOrder
  <2>2. bytesGreaterOrequalToSigned(a, b) <=> ~Machine!LessSigned(a, b)
    BY <2>1, Ordered
  <2> QED BY <1>2, <2>1, <2>2, BranchCases, TakenCases
<1>3. CASE i.func3 = 6 \/ i.func3 = 7
  <2>1. bytesLessThanBytesUnsigned(a, b) <=> Machine!LessUnsigned(a, b)
    BY UnsignedOrder
  <2>2. bytesGreaterOrequalToUnsigned(a, b) <=> ~Machine!LessUnsigned(a, b)
    BY <2>1, Ordered
  <2> QED BY <1>3, <2>1, <2>2, BranchCases, TakenCases
<1> QED BY <1>1, <1>2, <1>3

\* BEQ, BNE, BLT, BGE, BLTU, BGEU.
LEMMA BranchAgrees ==
  ASSUME Here, NEW i, NEW w, NEW a, NEW b, Means(i, w, a, b), i.opcode = 99,
         NoErratum(w, a, b)
  PROVE  Agrees(i, w, a, b, execute(i, config.memorySize))
<1> DEFINE there == bytesAddSignedToPC(i.pc, i.imm)
           n == IF BranchTaken(i) THEN there ELSE IncPC(i)
<1>1. /\ w \in Words /\ i.opcode = Machine!Opcode(w) /\ i.imm = DecodeB(w) /\ i.pc = PC
      /\ PC \in Words /\ a \in Words /\ b \in Words /\ i.rs1Val = a /\ i.rs2Val = b
      /\ i.func3 = Machine!Func3(w) /\ i.func3 \in 0 .. 7
  BY DEF Means, Here, Executable
<1>2. Machine!Opcode(w) = 99
  BY <1>1
<1>3. SignExtended(i.imm) = Machine!ImmB(w) /\ Vector(i.imm)
  BY <1>1, ImmediateB, ExtendedImmediates
<1>4. there = Machine!Plus(PC, Machine!ImmB(w)) /\ there \in Words
  BY <1>1, <1>3, Sums
<1>5. IncPC(i) = Machine!Plus(PC, Machine!Four) /\ IncPC(i) \in Words
  BY FollowingInstruction
<1>6. Machine!Legal(w) <=> i.func3 \notin {2, 3}
  BY <1>1, <1>2, LegalCases
<1>7. execute(i, config.memorySize) = executeBranch(i, config.memorySize)
  BY ExecuteCases
<1>8. CASE i.func3 \in {2, 3}
  <2>1. executeBranch(i, config.memorySize).fault # "none"
    BY <1>8, EffectOfThrow DEF executeBranch
  <2> QED BY <1>6, <1>7, <1>8, <2>1, ThrowAgrees
<1>9. CASE i.func3 \notin {2, 3}
  <2>1. executeBranch(i, config.memorySize) = JumpTo(n, n, config.memorySize)
    BY <1>9 DEF executeBranch
  <2>2. Machine!NextPC(w, a, b) = IF Machine!Taken(w, a, b) THEN there ELSE IncPC(i)
    BY <1>2, <1>4, <1>5, NextPCCases
  <2>3. i.func3 \in {0, 1, 4, 5, 6, 7}
    BY <1>1, <1>9, EightFunctions
  <2>4. CASE i.func3 \in {4, 5} /\ Machine!SignedByBytes(a, b)
    <3>1. there = IncPC(i)
      BY <1>1, <1>2, <1>4, <1>5, <1>6, <1>9, <2>4 DEF NoErratum, Machine!Departs
    <3>2. n = IncPC(i) /\ n = Machine!NextPC(w, a, b) /\ n \in Words
      BY <1>5, <2>2, <3>1
    <3>3. ~Machine!HasResult(w)
      BY <1>2 DEF Machine!HasResult
    <3> HIDE DEF n
    <3> QED BY <3>2, <3>3, <1>6, <1>7, <1>9, <2>1, JumpAgrees
  <2>5. CASE i.func3 \in {4, 5} => ~Machine!SignedByBytes(a, b)
    <3>1. BranchTaken(i) <=> Machine!Taken(w, a, b)
      BY <1>1, <2>3, <2>5, BranchIsTaken
    <3>2. n = Machine!NextPC(w, a, b) /\ n \in Words
      BY <1>4, <1>5, <2>2, <3>1
    <3>3. ~Machine!HasResult(w)
      BY <1>2 DEF Machine!HasResult
    <3> HIDE DEF n
    <3> QED BY <3>2, <3>3, <1>6, <1>7, <1>9, <2>1, JumpAgrees
  <2> QED BY <2>4, <2>5
<1> QED BY <1>8, <1>9

\* Clearing the lowest bit.
LEMMA EvenIs ==
  ASSUME NEW t \in Words
  PROVE  /\ t[1] % 4 = 0 => Machine!Even(t) = t
         /\ t[1] % 4 = 1 => Machine!Even(t)[1] % 4 = 0
         /\ t[1] % 4 \in {2, 3} => Machine!Even(t)[1] % 4 # 0
         /\ t[1] % 4 \in 0 .. 3
<1>1. PICK x \in 0 .. 255 : x = t[1]
  BY WordNumbers
<1>2. DOMAIN t = 1 .. 4 /\ t = [k \in 1 .. 4 |-> t[k]]
  BY DEF Words
<1>3. Machine!Even(t) = [k \in 1 .. 4 |-> IF k = 1 THEN x - (x % 2) ELSE t[k]]
  BY <1>1, <1>2 DEF Machine!Even
<1>4. Machine!Even(t)[1] = x - (x % 2)
  BY <1>3
<1>5. x % 4 = 0 => x - (x % 2) = x
  OBVIOUS
<1>6. x % 4 = 0 => Machine!Even(t) = t
  BY <1>1, <1>2, <1>3, <1>5
<1>7. /\ x % 4 = 1 => (x - (x % 2)) % 4 = 0
      /\ x % 4 \in {2, 3} => (x - (x % 2)) % 4 # 0
      /\ x % 4 \in 0 .. 3
  OBVIOUS
<1> QED BY <1>1, <1>4, <1>6, <1>7

\* JALR.
LEMMA JALRAgrees ==
  ASSUME Here, NEW i, NEW w, NEW a, NEW b, Means(i, w, a, b), i.opcode = 103,
         NoErratum(w, a, b)
  PROVE  Agrees(i, w, a, b, execute(i, config.memorySize))
<1> DEFINE n == bytesAdditionSigned(i.rs1Val, i.imm)
           e == execute(i, config.memorySize)
<1>1. /\ w \in Words /\ i.opcode = Machine!Opcode(w) /\ i.imm = DecodeI(w)
      /\ a \in Words /\ i.rs1Val = a /\ i.func3 = Machine!Func3(w)
  BY DEF Means
<1>2. Machine!Opcode(w) = 103
  BY <1>1
<1>3. SignExtended(i.imm) = Machine!ImmI(w) /\ Vector(i.imm)
  BY <1>1, ImmediateI, ExtendedImmediates
<1>4. n = Machine!Plus(a, Machine!ImmI(w)) /\ n \in Words
  BY <1>1, <1>3, Sums
<1>5. IncPC(i) = Machine!Plus(PC, Machine!Four) /\ IncPC(i) \in Words
  BY FollowingInstruction
<1>6. e = JumpTo(IncPC(i), n, config.memorySize)
  BY ExecuteCases DEF executeJALR
<1> HIDE DEF n, e
<1>7. e.fault = "none" <=> n[1] % 4 = 0 /\ Machine!Inside(n, 1)
  BY <1>4, <1>5, <1>6, JumpChecked
<1>8. Machine!NextPC(w, a, b) = Machine!Even(n) /\ Machine!Value(w, a, b) = IncPC(i)
  BY <1>2, <1>4, <1>5, NextPCCases, ValueCases
<1>9. CASE ~Machine!Legal(w)
  <2>1. ~(n[1] % 4 = 0 /\ Machine!Inside(n, 1))
    BY <1>2, <1>4, <1>9 DEF NoErratum, Machine!Reserved
  <2> QED BY <1>7, <1>9, <2>1, ThrowAgrees DEF e
<1>10. CASE Machine!Legal(w) /\ n[1] % 4 = 0
  <2>1. n = Machine!NextPC(w, a, b)
    BY <1>4, <1>8, <1>10, EvenIs
  <2> QED BY <1>4, <1>5, <1>6, <1>8, <1>10, <2>1, JumpAgrees DEF e
<1>11. CASE Machine!Legal(w) /\ n[1] % 4 # 0
  <2>1. ~Machine!OddTarget(w, a)
    BY <1>2, <1>11 DEF NoErratum, Machine!Departs
  <2>2. n[1] % 4 = 1 => ~Machine!Inside(Machine!Even(n), 1)
    BY <1>4, <2>1 DEF Machine!OddTarget
  <2>3. Machine!Even(n)[1] % 4 # 0 \/ ~Machine!Inside(Machine!Even(n), 1)
    BY <1>4, <1>11, <2>2, EvenIs
  <2>4. Machine!Faults(w, a, b)
    BY <1>2, <1>8, <1>11, <2>3, FaultCases
  <2>5. e.fault # "none"
    BY <1>7, <1>11
  <2>6. Agrees(i, w, a, b, e)
    BY <2>4, <2>5 DEF Agrees
  <2> QED BY <2>6 DEF e
<1> QED BY <1>9, <1>10, <1>11

\* An access throws if it does not lie in memory or ends at its end.
LEMMA AccessInside ==
  ASSUME Here, NEW p \in Words, NEW width \in {1, 2, 4}
  PROVE  /\ OutOfMemory(config.memorySize, getBytesToULong(p), width)
              <=> ~Machine!Inside(p, IF width = 1 THEN 1 ELSE width + 1)
         /\ getBytesToULong(p) >= config.memorySize <=> ~Machine!Inside(p, 1)
         /\ Machine!Inside(p, width) => Machine!Inside(p, 1)
         /\ Machine!Inside(p, IF width = 1 THEN 1 ELSE width + 1) =>
              Machine!Inside(p, width) /\ getBytesToULong(p) = Machine!Address(p)
<1>1. PICK size \in Nat : size = config.memorySize
  BY SizeOfMemory DEF Here
<1>2. PICK address \in Nat : address = getBytesToULong(p)
  BY ULongOfWord, BoundIsNat
<1>3. ASSUME NEW n \in {1, 2, 3, 4, 5} PROVE Machine!Inside(p, n) <=> address + n <= size
  BY <1>1, <1>2, InsideIsBelow DEF Here
<1>4. ASSUME Machine!Inside(p, 1) PROVE getBytesToULong(p) = Machine!Address(p)
  <2>1. p[4] = 0
    BY <1>4 DEF Machine!Inside
  <2> QED BY <2>1, ULongOfWord
<1>5. address >= size <=> ~Machine!Inside(p, 1)
  BY <1>3
<1>6. CASE width = 1
  BY <1>1, <1>2, <1>4, <1>5, <1>6 DEF OutOfMemory
<1>7. CASE width \in {2, 4}
  <2>1. /\ Machine!Inside(p, width) <=> address + width <= size
        /\ Machine!Inside(p, width + 1) <=> address + width + 1 <= size
        /\ Machine!Inside(p, 1) <=> address + 1 <= size
    BY <1>3, <1>7
  <2>2. OutOfMemory(config.memorySize, getBytesToULong(p), width) <=> address + width >= size
    BY <1>1, <1>2, <1>7 DEF OutOfMemory
  <2>3. address + width >= size <=> ~(address + width + 1 <= size)
    BY <1>7
  <2>4. /\ address + width <= size => address + 1 <= size
        /\ address + width + 1 <= size => address + width <= size /\ address + 1 <= size
    BY <1>7
  <2> QED BY <1>1, <1>2, <1>4, <1>5, <1>7, <2>1, <2>2, <2>3, <2>4
<1> QED BY <1>6, <1>7

\* Loads and stores check the address in the execute stage, and the bytes they
\* access in the memory stage.
LEMMA AccessChecked ==
  ASSUME Here, NEW i, NEW w, NEW a, NEW b, Means(i, w, a, b), i.opcode \in {3, 35}
  PROVE  LET p == bytesAdditionSigned(i.rs1Val, i.imm)
             e == execute(i, config.memorySize)
         IN  /\ p \in Words
             /\ e.fault = "none" <=> Machine!Inside(p, 1)
             /\ e.fault = "none" => e.result = p /\ e.next = Machine!Plus(PC, Machine!Four)
<1> DEFINE p == bytesAdditionSigned(i.rs1Val, i.imm)
           e == execute(i, config.memorySize)
<1>1. i.rs1Val \in Words /\ Vector(i.imm)
  BY DEF Means, Executable
<1>2. p \in Words
  BY <1>1, Sums
<1>3. IncPC(i) = Machine!Plus(PC, Machine!Four) /\ IncPC(i) \in Words
  BY FollowingInstruction
<1>4. e = IF getBytesToULong(p) >= config.memorySize THEN Throws("AddressOutOfMemory")
                                                     ELSE Done(p, IncPC(i))
  BY ExecuteCases DEF executeAccess
<1> HIDE DEF p, e
<1>5. getBytesToULong(p) >= config.memorySize <=> ~Machine!Inside(p, 1)
  BY <1>2, AccessInside
<1>6. CASE Machine!Inside(p, 1)
  <2>1. e = Done(p, IncPC(i))
    BY <1>4, <1>5, <1>6
  <2> QED BY <1>2, <1>3, <1>6, <2>1, EffectOfDone DEF p, e
<1>7. CASE ~Machine!Inside(p, 1)
  <2>1. e = Throws("AddressOutOfMemory")
    BY <1>4, <1>5, <1>7
  <2> QED BY <1>2, <1>7, <2>1, EffectOfThrow DEF p, e
<1> QED BY <1>6, <1>7

\* What a load reads.
LEMMA LoadedBytes ==
  ASSUME Here, NEW i, i.opcode = 3, NEW w, i.func3 = Machine!Func3(w), NEW a,
         NEW p \in Words, p = Machine!Pointer(w, a),
         NEW width \in {1, 2, 4}, width = LoadWidth(i.func3), width = Machine!Width(i.func3),
         Machine!Inside(p, IF width = 1 THEN 1 ELSE width + 1)
  PROVE  memLoad(i, p, memory) = Machine!Loaded(w, a)
<1> DEFINE f == i.func3
<1>1. PICK addr \in Nat : addr = getBytesToULong(p) /\ addr = Machine!Address(p)
  <2>1. getBytesToULong(p) = Machine!Address(p)
    BY AccessInside
  <2>2. getBytesToULong(p) \in Nat
    BY ULongOfWord, BoundIsNat
  <2> QED BY <2>1, <2>2
<1>2. PICK size \in Nat : size = config.memorySize
  BY SizeOfMemory DEF Here
<1>3. PICK mem \in [0 .. size - 1 -> Byte] : mem = memory
  BY <1>2 DEF Here, Full
<1>13. ~OutOfMemory(size, addr, width)
  BY <1>1, <1>2, AccessInside
<1> DEFINE r == Read(mem, addr, width)
<1>4. r \in [1 .. width -> Byte] /\ \A j \in 1 .. width : r[j] = memory[addr + j - 1]
  BY <1>3, <1>13, AccessRead
<1>5. Len(r) = width /\ Last(r) = r[width]
  BY <1>4, PaddedWords DEF Last
<1>6. memLoad(i, p, memory) = IF f \in {4, 5} THEN Resize(r, 4) ELSE copyWithSignExtend(r, 4)
  BY <1>1, <1>3 DEF memLoad, XLEN
<1> HIDE DEF f, r
<1>7. width \in 1 .. width /\ width \in Nat
  OBVIOUS
<1>8. r[width] \in Byte /\ r[width] = memory[addr + width - 1]
  BY <1>4, <1>7
<1> DEFINE top == IF f \in {4, 5} \/ memory[addr + width - 1] < 128 THEN 0 ELSE 255
<1>9. Machine!Loaded(w, a) = [k \in 1 .. 4 |-> IF k <= width THEN memory[addr + k - 1] ELSE top]
  BY <1>1 DEF Machine!Loaded, f
<1>10. r[width] & 128 # 0 <=> ~(memory[addr + width - 1] < 128)
  <2>1. \A c \in Byte : c >= 128 <=> ~(c < 128)
    BY DEF Byte
  <2>2. r[width] & 128 # 0 <=> r[width] >= 128
    BY <1>8, TopBit
  <2> QED BY <1>8, <2>1, <2>2
<1>11. CASE f \in {4, 5}
  <2>1. top = 0
    BY <1>11
  <2>2. Resize(r, 4) = [k \in 1 .. 4 |-> IF k <= width THEN r[k] ELSE 0]
    BY <1>5 DEF Resize
  <2> HIDE DEF top
  <2>3. [k \in 1 .. 4 |-> IF k <= width THEN r[k] ELSE 0]
          = [k \in 1 .. 4 |-> IF k <= width THEN memory[addr + k - 1] ELSE top]
    BY <1>4, <2>1
  <2> QED BY <1>6, <1>9, <1>11, <2>2, <2>3
<1>12. CASE f \notin {4, 5}
  <2>1. top = IF r[width] & 128 # 0 THEN 255 ELSE 0
    BY <1>10, <1>12
  <2>2. copyWithSignExtend(r, 4)
          = [k \in 1 .. 4 |-> IF k <= width THEN r[k] ELSE IF r[width] & 128 # 0 THEN 255 ELSE 0]
    BY <1>5 DEF copyWithSignExtend
  <2> HIDE DEF top
  <2>3. [k \in 1 .. 4 |-> IF k <= width THEN r[k] ELSE top]
          = [k \in 1 .. 4 |-> IF k <= width THEN memory[addr + k - 1] ELSE top]
    BY <1>4
  <2> QED BY <1>6, <1>9, <1>12, <2>1, <2>2, <2>3
<1> QED BY <1>11, <1>12

LEMMA Widths124 ==
  ASSUME NEW f \in 0 .. 7
  PROVE  /\ f \in {0, 1, 2, 4, 5} => LoadWidth(f) = Machine!Width(f) /\ LoadWidth(f) \in {1, 2, 4}
         /\ f \notin {0, 1, 2, 4, 5} => LoadWidth(f) = 0
         /\ f \in {0, 1, 2} => StoreWidth(f) = Machine!Width(f) /\ StoreWidth(f) \in {1, 2, 4}
         /\ f \notin {0, 1, 2} => StoreWidth(f) = 0
BY DEF LoadWidth, StoreWidth, Machine!Width

\* When the memory stage throws.
LEMMA MemoryFaults ==
  ASSUME NEW i, NEW p, NEW size
  PROVE  /\ i.opcode = 3 /\ LoadWidth(i.func3) = 0 => memFault(i, p, size) # "none"
         /\ i.opcode = 3 /\ LoadWidth(i.func3) \in {1, 2, 4} =>
              (memFault(i, p, size) = "none"
                 <=> ~OutOfMemory(size, getBytesToULong(p), LoadWidth(i.func3)))
         /\ i.opcode = 35 /\ StoreWidth(i.func3) \in {1, 2, 4} =>
              (memFault(i, p, size) = "none"
                 <=> ~OutOfMemory(size, getBytesToULong(p), StoreWidth(i.func3)))
BY DEF memFault

\* LB, LH, LW, LBU, LHU.
LEMMA LoadAgrees ==
  ASSUME Here, NEW i, NEW w, NEW a, NEW b, Means(i, w, a, b), i.opcode = 3,
         NoErratum(w, a, b)
  PROVE  Agrees(i, w, a, b, execute(i, config.memorySize))
<1> DEFINE p == bytesAdditionSigned(i.rs1Val, i.imm)
           e == execute(i, config.memorySize)
           f == i.func3
           width == LoadWidth(f)
           need == IF width = 1 THEN 1 ELSE width + 1
<1>1. /\ w \in Words /\ i.opcode = Machine!Opcode(w) /\ i.imm = DecodeI(w)
      /\ a \in Words /\ i.rs1Val = a /\ f = Machine!Func3(w) /\ f \in 0 .. 7
  BY DEF Means, Executable
<1>2. Machine!Opcode(w) = 3
  BY <1>1
<1>3. SignExtended(i.imm) = Machine!ImmI(w) /\ Vector(i.imm)
  BY <1>1, ImmediateI, ExtendedImmediates
<1>4. p = Machine!Plus(a, Machine!ImmI(w))
  BY <1>1, <1>3, Sums
<1>5. /\ p \in Words
      /\ e.fault = "none" <=> Machine!Inside(p, 1)
      /\ e.fault = "none" => e.result = p /\ e.next = Machine!Plus(PC, Machine!Four)
  BY AccessChecked
<1> HIDE DEF p, e
<1>6. p = Machine!Pointer(w, a)
  BY <1>2, <1>4 DEF Machine!Pointer
<1>7. Machine!Legal(w) <=> f \in {0, 1, 2, 4, 5}
  BY <1>1, <1>2, LegalCases
<1>8. CASE ~Machine!Legal(w)
  <2>1. Machine!Faults(w, a, b)
    BY <1>8, FaultCases
  <2>2. memFault(i, p, config.memorySize) # "none"
    BY <1>1, <1>7, <1>8, Widths124, MemoryFaults
  <2>3. Agrees(i, w, a, b, e)
    BY <1>5, <2>1, <2>2 DEF Agrees
  <2> QED BY <2>3 DEF e
<1>9. CASE Machine!Legal(w)
  <2>1. width = Machine!Width(f) /\ width \in {1, 2, 4}
    BY <1>1, <1>7, <1>9, Widths124
  <2>2. memFault(i, p, config.memorySize) = "none" <=> Machine!Inside(p, need)
    <3>1. OutOfMemory(config.memorySize, getBytesToULong(p), width) <=> ~Machine!Inside(p, need)
      BY <1>5, <2>1, AccessInside
    <3> HIDE DEF need
    <3> QED BY <2>1, <3>1, MemoryFaults
  <2>3. Machine!Faults(w, a, b) <=> ~Machine!Inside(p, width)
    BY <1>1, <1>2, <1>6, <1>9, <2>1, FaultCases
  <2>4. Machine!Inside(p, width) => Machine!Inside(p, need)
    <3>1. ~Machine!LoadFromTheEnd(w, a)
      BY <1>2, <1>9 DEF NoErratum, Machine!Departs
    <3>2. Machine!LoadFromTheEnd(w, a) <=> Machine!Inside(p, width) /\ ~Machine!Inside(p, need)
      BY <1>1, <1>6, <2>1 DEF Machine!LoadFromTheEnd, Machine!Fits
    <3> QED BY <3>1, <3>2
  <2>5. /\ Machine!Inside(p, need) => Machine!Inside(p, width)
        /\ Machine!Inside(p, width) => Machine!Inside(p, 1)
    BY <1>5, <2>1, AccessInside
  <2>6. Machine!Inside(p, need) => memLoad(i, p, memory) = Machine!Loaded(w, a)
    BY <1>1, <1>5, <1>6, <2>1, LoadedBytes
  <2> HIDE DEF need, width, f
  <2>7. Machine!Value(w, a, b) = Machine!Loaded(w, a)
        /\ Machine!NextPC(w, a, b) = Machine!Plus(PC, Machine!Four)
    BY <1>2, ValueCases, NextPCCases
  <2>8. e.fault = "none" /\ Machine!Inside(p, need) => SameEffect(i, w, a, b, e)
    BY <1>5, <2>3, <2>5, <2>6, <2>7 DEF SameEffect, ForRd
  <2>9. Agrees(i, w, a, b, e)
    BY <1>5, <2>2, <2>3, <2>4, <2>5, <2>8 DEF Agrees
  <2> QED BY <2>9 DEF e
<1> QED BY <1>8, <1>9

\* What a store writes.
LEMMA StoredBytes ==
  ASSUME Here, NEW i, NEW w, i.func3 = Machine!Func3(w), NEW b \in Words, i.rs2Val = b,
         NEW p \in Words, getBytesToULong(p) = Machine!Address(p),
         NEW width \in {1, 2, 4}, width = StoreWidth(i.func3), width = Machine!Width(i.func3)
  PROVE  memStore(i, p, memory) = Machine!Stored(w, p, b)
<1>1. PICK addr \in Nat : addr = getBytesToULong(p)
  BY ULongOfWord, BoundIsNat
<1> DEFINE val == SubSeq(b, 1, width)
<1>2. b \in Seq(Byte) /\ Len(b) = 4
  BY WordsAreBytes DEF IsBytes, XLEN
<1>3. Len(val) = width /\ \A k \in 1 .. width : val[k] = b[k]
  BY <1>2, SubSeqProperties
<1> HIDE DEF val
<1>4. memStore(i, p, memory) = [x \in DOMAIN memory |->
         IF x \in addr .. addr + Len(val) - 1 THEN val[x - addr + 1] ELSE memory[x]]
  BY <1>1 DEF memStore, Write, val
<1>5. Machine!Stored(w, p, b) = [x \in DOMAIN memory |->
         IF x \in addr .. addr + width - 1 THEN b[x - addr + 1] ELSE memory[x]]
  BY <1>1 DEF Machine!Stored
<1>6. ASSUME NEW x \in addr .. addr + width - 1 PROVE val[x - addr + 1] = b[x - addr + 1]
  <2>1. x - addr + 1 \in 1 .. width
    OBVIOUS
  <2> QED BY <1>3, <2>1
<1> QED BY <1>3, <1>4, <1>5, <1>6

\* SB, SH, SW.
LEMMA StoreAgrees ==
  ASSUME Here, NEW i, NEW w, NEW a, NEW b, Means(i, w, a, b), i.opcode = 35,
         NoErratum(w, a, b)
  PROVE  Agrees(i, w, a, b, execute(i, config.memorySize))
<1> DEFINE p == bytesAdditionSigned(i.rs1Val, i.imm)
           e == execute(i, config.memorySize)
           f == i.func3
           width == StoreWidth(f)
           need == IF width = 1 THEN 1 ELSE width + 1
           there == Machine!Pointer(w, a)
<1>1. /\ w \in Words /\ i.opcode = Machine!Opcode(w) /\ i.imm = DecodeS(w)
      /\ a \in Words /\ i.rs1Val = a /\ f = Machine!Func3(w) /\ f \in 0 .. 7
      /\ b \in Words /\ i.rs2Val = b
  BY DEF Means, Executable
<1>2. Machine!Opcode(w) = 35
  BY <1>1
<1>3. SignExtended(i.imm) = Machine!StoreOffset(w) /\ Vector(i.imm)
  BY <1>1, ImmediateS, ExtendedImmediates
<1>4. p = Machine!Plus(a, Machine!StoreOffset(w))
  BY <1>1, <1>3, Sums
<1>5. /\ p \in Words
      /\ e.fault = "none" <=> Machine!Inside(p, 1)
      /\ e.fault = "none" => e.result = p /\ e.next = Machine!Plus(PC, Machine!Four)
  BY AccessChecked
<1> HIDE DEF p, e
<1>6. p = Machine!StorePointer(w, a)
  BY <1>4 DEF Machine!StorePointer
<1>7. Machine!Legal(w) <=> f \in {0, 1, 2}
  BY <1>1, <1>2, LegalCases
<1>8. CASE ~Machine!Legal(w)
  <2>1. Machine!Faults(w, a, b)
    BY <1>8, FaultCases
  <2>2. ~Machine!Inside(p, 1)
    BY <1>2, <1>6, <1>8 DEF NoErratum, Machine!Reserved
  <2>3. Agrees(i, w, a, b, e)
    BY <1>5, <2>1, <2>2 DEF Agrees
  <2> QED BY <2>3 DEF e
<1>9. CASE Machine!Legal(w)
  <2>1. width = Machine!Width(f) /\ width \in {1, 2, 4}
    BY <1>1, <1>7, <1>9, Widths124
  <2>2. memFault(i, p, config.memorySize) = "none" <=> Machine!Inside(p, need)
    <3>1. OutOfMemory(config.memorySize, getBytesToULong(p), width) <=> ~Machine!Inside(p, need)
      BY <1>5, <2>1, AccessInside
    <3> HIDE DEF need
    <3> QED BY <2>1, <3>1, MemoryFaults
  <2>3. Machine!Faults(w, a, b) <=> ~Machine!Inside(there, width)
    BY <1>1, <1>2, <1>9, <2>1, FaultCases
  <2>4. /\ Machine!Inside(there, width) <=> Machine!Inside(p, need)
        /\ Machine!Inside(p, need) => Machine!Stored(w, p, b) = Machine!Stored(w, there, b)
    <3>1. ~Machine!StoreElsewhere(w, a, b)
      BY <1>2, <1>9 DEF NoErratum, Machine!Departs
    <3>2. Machine!Fits(w, p) <=> Machine!Inside(p, need)
      BY <1>1, <2>1 DEF Machine!Fits
    <3>3. Machine!Width(Machine!Func3(w)) = width
      BY <1>1, <2>1
    <3> HIDE DEF need, width, there, f
    <3> QED BY <1>6, <3>1, <3>2, <3>3 DEF Machine!StoreElsewhere, there
  <2>5. Machine!Inside(p, need) => Machine!Inside(p, 1) /\ getBytesToULong(p) = Machine!Address(p)
    BY <1>5, <2>1, AccessInside
  <2>6. Machine!Inside(p, need) => memStore(i, p, memory) = Machine!Stored(w, p, b)
    BY <1>1, <1>5, <2>1, <2>5, StoredBytes
  <2>7. Machine!NextPC(w, a, b) = Machine!Plus(PC, Machine!Four) /\ ~Machine!HasResult(w)
    BY <1>2, NextPCCases DEF Machine!HasResult
  <2> HIDE DEF need, width, f
  <2>8. e.fault = "none" /\ Machine!Inside(p, need) => SameEffect(i, w, a, b, e)
    BY <1>5, <2>3, <2>4, <2>6, <2>7 DEF SameEffect, there
  <2>9. Agrees(i, w, a, b, e)
    BY <1>5, <2>2, <2>3, <2>4, <2>5, <2>8 DEF Agrees
  <2> QED BY <2>9 DEF e
<1> QED BY <1>8, <1>9

-----------------------------------------------------------------------------
(* The arithmetic instructions. *)

\* The bits of the immediate that tell SRAI from SRLI.
LEMMA Func7OfImmediate ==
  ASSUME NEW w \in Words
  PROVE  getContrainedBits(DecodeI(w), 5, 11)[1] = Machine!Func7(w)
<1>1. PICK p, q : DecodeI(w) = <<p, q>> /\ BytesI(w, p, q)
  BY BytesOfI
<1>2. /\ p \in Byte /\ q \in Byte
      /\ \A j \in 0 .. 7 : Bit(p, j) = IF j <= 3 THEN Bit(w[3], j + 4) ELSE Bit(w[4], j - 4)
      /\ \A j \in 0 .. 7 : Bit(q, j) = IF j < 4 THEN Bit(w[4], j + 4) ELSE Bit(w[4], 7)
  BY <1>1 DEF BytesI
<1>3. getContrainedBits(<<p, q>>, 5, 11)[1] = Splice(p, q, 5, 4, 1)
  BY DEF getContrainedBits, Splice
<1> DEFINE f == Splice(p, q, 5, 4, 1)
<1>4. f \in Byte /\ \A j \in 0 .. 7 : Bit(f, j) = IF j + 5 <= 7 THEN Bit(p, j + 5)
                                                   ELSE IF j + 1 <= 7 THEN Bit(q, j + 5 - 8) ELSE 0
  BY <1>2, Spliced
<1> HIDE DEF f
<1>5. ASSUME NEW j \in 0 .. 7
      PROVE  Bit(f, j) = IF 25 + j <= 31 THEN WordBit(w, 25 + j) ELSE 0
  <2>1. CASE j \in 0 .. 2
    <3>1. j + 5 \in 0 .. 7 /\ j + 5 <= 7 /\ ~(j + 5 <= 3) /\ j + 5 - 4 = 1 + j /\ 25 + j <= 31
          /\ 25 + j = 24 + (1 + j) /\ 1 + j \in 0 .. 7
      BY <2>1
    <3>2. Bit(f, j) = Bit(w[4], 1 + j)
      BY <1>2, <1>4, <3>1
    <3> QED BY <3>1, <3>2, WordBitNumbers
  <2>2. CASE j \in 3 .. 6
    <3>1. j + 5 - 8 \in 0 .. 7 /\ ~(j + 5 <= 7) /\ j + 5 - 8 < 4 /\ j + 5 - 8 + 4 = 1 + j /\ 25 + j <= 31
          /\ 25 + j = 24 + (1 + j) /\ 1 + j \in 0 .. 7 /\ j + 1 <= 7
      BY <2>2
    <3>2. Bit(f, j) = Bit(w[4], 1 + j)
      BY <1>2, <1>4, <3>1
    <3> QED BY <3>1, <3>2, WordBitNumbers
  <2>3. CASE j = 7
    BY <1>4, <2>3
  <2> QED BY <2>1, <2>2, <2>3
<1>6. Slices(w, f, 25, 31)
  BY <1>4, <1>5 DEF Slices
<1>7. f = Machine!Func7(w)
  BY <1>6, SliceIsNumber DEF Machine!Func7
<1> QED BY <1>1, <1>3, <1>7 DEF f

\* The shift amount of SLLI, SRLI and SRAI.
LEMMA AmountOfImmediate ==
  ASSUME NEW w \in Words
  PROVE  /\ DecodeI(w)[1] & 31 = Machine!ImmI(w)[1] % 32
         /\ DecodeI(w)[1] & 31 \in 0 .. 31
         /\ \E p \in Byte, q \in Byte : DecodeI(w) = <<p, q>>
<1>1. PICK p, q : DecodeI(w) = <<p, q>> /\ BytesI(w, p, q)
  BY BytesOfI
<1>2. p \in Byte /\ q \in Byte
  BY <1>1 DEF BytesI
<1>3. Machine!ImmI(w) = copyWithSignExtend(<<p, q>>, 4)
  BY <1>1, ImmediateI DEF SignExtended, XLEN
<1>4. Machine!ImmI(w)[1] = p
  BY <1>2, <1>3, ExtendedTwo
<1>5. DecodeI(w)[1] = p
  BY <1>1
<1> QED BY <1>1, <1>2, <1>4, <1>5, ShiftAmounts

\* The first of the top three bytes that is not zero is 128 or more.
NegativeAbove(a) == \E k \in 2 .. 4 : a[k] >= 128 /\ \A j \in k + 1 .. 4 : a[j] = 0

LEMMA AboveTwo ==
  ASSUME NEW a
  PROVE  NegativeAbove(a) <=> \/ a[4] >= 128
                              \/ a[3] >= 128 /\ a[4] = 0
                              \/ a[2] >= 128 /\ a[3] = 0 /\ a[4] = 0
<1>1. /\ \A j : ~(j \in 4 + 1 .. 4)
      /\ \A j : j \in 3 + 1 .. 4 <=> j = 4
      /\ \A j : j \in 2 + 1 .. 4 <=> j = 3 \/ j = 4
      /\ \A k : k \in 2 .. 4 <=> k = 2 \/ k = 3 \/ k = 4
  OBVIOUS
<1> QED BY <1>1 DEF NegativeAbove

\* A word against two bytes: these do not count.
LEMMA ComparedWithTwo ==
  ASSUME NEW a \in Words, NEW p \in Byte, NEW q \in Byte
  PROVE  /\ bytesLessThanBytesSigned(a, <<p, q>>) <=> NegativeAbove(a)
         /\ ~bytesLessThanBytesUnsigned(a, <<p, q>>)
<1>1. PICK x1 \in 0 .. 255, x2 \in 0 .. 255, x3 \in 0 .. 255, x4 \in 0 .. 255 :
        x1 = a[1] /\ x2 = a[2] /\ x3 = a[3] /\ x4 = a[4]
  BY Zenon, FourNumbers
<1>2. a \in [1 .. 4 -> Int] /\ AsSigned(a) \in [1 .. 4 -> Int]
  BY WordsAreIntegers, SignedValues
<1>3. AsSigned(a)[2] = Char(x2) /\ AsSigned(a)[3] = Char(x3) /\ AsSigned(a)[4] = Char(x4)
  BY <1>1, SignedValues
<1>4. <<p, q>> \in [1 .. 2 -> Int] /\ AsSigned(<<p, q>>) \in [1 .. 2 -> Int]
  <2>1. p \in 0 .. 255 /\ q \in 0 .. 255
    BY DEF Byte
  <2>2. <<p, q>> \in [1 .. 2 -> Int] /\ DOMAIN <<p, q>> = 1 .. 2
        /\ \A k \in 1 .. 2 : <<p, q>>[k] \in 0 .. 255
    BY <2>1
  <2>3. \A k \in 1 .. 2 : Char(<<p, q>>[k]) \in Int
    <3>1. \A n \in 0 .. 255 : Char(n) \in Int
      BY DEF Char
    <3> QED BY <2>2, <3>1
  <2>4. AsSigned(<<p, q>>) = [k \in 1 .. 2 |-> Char(<<p, q>>[k])]
    BY <2>2 DEF AsSigned
  <2> QED BY <2>2, <2>3, <2>4
<1>5. Compare(a, <<p, q>>) = IF x4 # 0 THEN x4 ELSE IF x3 # 0 THEN x3 ELSE x2
  BY <1>1, <1>2, <1>4, CompareTwo
<1>6. Compare(AsSigned(a), AsSigned(<<p, q>>))
        = IF Char(x4) # 0 THEN Char(x4) ELSE IF Char(x3) # 0 THEN Char(x3) ELSE Char(x2)
  BY <1>2, <1>3, <1>4, CompareTwo
<1>7. ~(Compare(a, <<p, q>>) < 0)
  BY <1>5
<1>8. Compare(AsSigned(a), AsSigned(<<p, q>>)) < 0
        <=> IF x4 # 0 THEN x4 >= 128 ELSE IF x3 # 0 THEN x3 >= 128 ELSE x2 >= 128
  <2>1. \A n \in 0 .. 255 : (Char(n) # 0 <=> n # 0) /\ (Char(n) < 0 <=> n >= 128)
    BY DEF Char
  <2> QED BY <1>6, <2>1
<1>9. NegativeAbove(a) <=> \/ x4 >= 128
                           \/ x3 >= 128 /\ x4 = 0
                           \/ x2 >= 128 /\ x3 = 0 /\ x4 = 0
  BY <1>1, Zenon, AboveTwo
<1>10. NegativeAbove(a) <=> IF x4 # 0 THEN x4 >= 128 ELSE IF x3 # 0 THEN x3 >= 128 ELSE x2 >= 128
  BY <1>9
<1> QED BY <1>7, <1>8, <1>10 DEF bytesLessThanBytesSigned, bytesLessThanBytesUnsigned


\* What the manual has the instructions on immediates leave for rd.
OfImmediate(v, f, func7, a, imm) ==
  /\ f = 0 => v = Machine!Plus(a, imm)
  /\ f = 1 => v = Machine!ShiftLeft(a, imm[1] % 32)
  /\ f = 2 => v = Machine!Truth(Machine!LessSigned(a, imm))
  /\ f = 3 => v = Machine!Truth(Machine!LessUnsigned(a, imm))
  /\ f = 4 => v = Machine!Word([k \in 0 .. 31 |-> (Machine!Bits(a)[k] + Machine!Bits(imm)[k]) % 2])
  /\ f = 5 /\ func7 # 32 => v = Machine!ShiftRight(a, imm[1] % 32, 0)
  /\ f = 5 /\ func7 = 32 => v = Machine!ShiftRight(a, imm[1] % 32, Machine!Sign(a))
  /\ f = 6 => v = Machine!Word([k \in 0 .. 31 |->
                                  IF Machine!Bits(a)[k] + Machine!Bits(imm)[k] = 0 THEN 0 ELSE 1])
  /\ f = 7 => v = Machine!Word([k \in 0 .. 31 |-> Machine!Bits(a)[k] * Machine!Bits(imm)[k]])

LEMMA ValueOfImmediate ==
  ASSUME NEW w, NEW a, NEW b, Machine!Opcode(w) = 19
  PROVE  OfImmediate(Machine!Value(w, a, b), Machine!Func3(w), Machine!Func7(w), a, Machine!ImmI(w))
<1> DEFINE alternate == Machine!Func3(w) = 5 /\ Machine!Func7(w) = 32
           v == Machine!Value(w, a, b)
           f == Machine!Func3(w)
           imm == Machine!ImmI(w)
           bits == Machine!Bits(a)
           bitsOf == Machine!Bits(imm)
<1>1. v = Machine!Alu(f, alternate, a, imm)
  BY Zenon, ValueOfBits
<1>2. f # 5 \/ Machine!Func7(w) # 32 <=> ~alternate
  OBVIOUS
<1> HIDE DEF alternate, f, imm, v
<1>3. f = 0 /\ ~alternate => v = Machine!Plus(a, imm)
  BY <1>1 DEF Machine!Alu
<1>4. f = 1 => v = Machine!ShiftLeft(a, imm[1] % 32)
  BY <1>1 DEF Machine!Alu
<1>5. f = 2 => v = Machine!Truth(Machine!LessSigned(a, imm))
  BY <1>1 DEF Machine!Alu
<1>6. f = 3 => v = Machine!Truth(Machine!LessUnsigned(a, imm))
  BY <1>1 DEF Machine!Alu
<1>7. f = 4 => v = Machine!Word([k \in 0 .. 31 |-> (bits[k] + bitsOf[k]) % 2])
  BY <1>1 DEF Machine!Alu
<1>8. f = 5 /\ ~alternate => v = Machine!ShiftRight(a, imm[1] % 32, 0)
  BY <1>1 DEF Machine!Alu
<1>9. f = 5 /\ alternate => v = Machine!ShiftRight(a, imm[1] % 32, Machine!Sign(a))
  BY <1>1 DEF Machine!Alu
<1>10. f = 6 => v = Machine!Word([k \in 0 .. 31 |-> IF bits[k] + bitsOf[k] = 0 THEN 0 ELSE 1])
  BY <1>1 DEF Machine!Alu
<1>11. f = 7 => v = Machine!Word([k \in 0 .. 31 |-> bits[k] * bitsOf[k]])
  BY <1>1 DEF Machine!Alu
<1>12. f = 0 => f # 5
  OBVIOUS
<1>13. f = Machine!Func3(w)
  BY DEF f
<1> QED
  BY <1>2, <1>3, <1>4, <1>5, <1>6, <1>7, <1>8, <1>9, <1>10, <1>11, <1>12, <1>13
  DEF f, imm, v, OfImmediate

\* What those with a function of two registers leave.
OfRegisters(v, f, func7, a, b) ==
  /\ f = 0 /\ func7 # 32 => v = Machine!Plus(a, b)
  /\ f = 0 /\ func7 = 32 => v = Machine!Minus(a, b)
  /\ f = 1 => v = Machine!ShiftLeft(a, b[1] % 32)
  /\ f = 2 => v = Machine!Truth(Machine!LessSigned(a, b))
  /\ f = 3 => v = Machine!Truth(Machine!LessUnsigned(a, b))
  /\ f = 4 => v = Machine!Word([k \in 0 .. 31 |-> (Machine!Bits(a)[k] + Machine!Bits(b)[k]) % 2])
  /\ f = 5 /\ func7 # 32 => v = Machine!ShiftRight(a, b[1] % 32, 0)
  /\ f = 5 /\ func7 = 32 => v = Machine!ShiftRight(a, b[1] % 32, Machine!Sign(a))
  /\ f = 6 => v = Machine!Word([k \in 0 .. 31 |->
                                  IF Machine!Bits(a)[k] + Machine!Bits(b)[k] = 0 THEN 0 ELSE 1])
  /\ f = 7 => v = Machine!Word([k \in 0 .. 31 |-> Machine!Bits(a)[k] * Machine!Bits(b)[k]])

LEMMA ValueOfRegisters ==
  ASSUME NEW w, NEW a, NEW b, Machine!Opcode(w) = 51
  PROVE  OfRegisters(Machine!Value(w, a, b), Machine!Func3(w), Machine!Func7(w), a, b)
<1> DEFINE alternate == Machine!Func7(w) = 32
           v == Machine!Value(w, a, b)
           f == Machine!Func3(w)
           bits == Machine!Bits(a)
           bitsOf == Machine!Bits(b)
<1>1. v = Machine!Alu(f, alternate, a, b)
  BY Zenon, ValueOfTwo
<1>2. Machine!Func7(w) # 32 <=> ~alternate
  OBVIOUS
<1> HIDE DEF alternate, f, v
<1>3. f = 0 /\ ~alternate => v = Machine!Plus(a, b)
  BY <1>1 DEF Machine!Alu
<1>4. f = 1 => v = Machine!ShiftLeft(a, b[1] % 32)
  BY <1>1 DEF Machine!Alu
<1>5. f = 2 => v = Machine!Truth(Machine!LessSigned(a, b))
  BY <1>1 DEF Machine!Alu
<1>6. f = 3 => v = Machine!Truth(Machine!LessUnsigned(a, b))
  BY <1>1 DEF Machine!Alu
<1>7. f = 4 => v = Machine!Word([k \in 0 .. 31 |-> (bits[k] + bitsOf[k]) % 2])
  BY <1>1 DEF Machine!Alu
<1>8. f = 5 /\ ~alternate => v = Machine!ShiftRight(a, b[1] % 32, 0)
  BY <1>1 DEF Machine!Alu
<1>9. f = 5 /\ alternate => v = Machine!ShiftRight(a, b[1] % 32, Machine!Sign(a))
  BY <1>1 DEF Machine!Alu
<1>10. f = 6 => v = Machine!Word([k \in 0 .. 31 |-> IF bits[k] + bitsOf[k] = 0 THEN 0 ELSE 1])
  BY <1>1 DEF Machine!Alu
<1>11. f = 7 => v = Machine!Word([k \in 0 .. 31 |-> bits[k] * bitsOf[k]])
  BY <1>1 DEF Machine!Alu
<1>12. f = 0 /\ alternate => v = Machine!Minus(a, b)
  BY <1>1 DEF Machine!Alu
<1> QED
  BY <1>2, <1>3, <1>4, <1>5, <1>6, <1>7, <1>8, <1>9, <1>10, <1>11, <1>12
  DEF f, v, OfRegisters

\* A routine that throws for an illegal word only, and leaves the value of the
\* manual otherwise.
LEMMA BitsAgreeIf ==
  ASSUME Here, NEW i, NEW w, NEW a, NEW b, Means(i, w, a, b), i.opcode \in {19, 51}, NEW r,
         execute(i, config.memorySize) = executeBits(i, r),
         r = <<>> => ~Machine!Legal(w),
         r # <<>> => /\ r \in Words /\ Machine!Legal(w)
                     /\ Machine!HasResult(w) => r = Machine!Value(w, a, b)
  PROVE  Agrees(i, w, a, b, execute(i, config.memorySize))
<1>1. CASE r = <<>>
  <2>1. execute(i, config.memorySize).fault # "none"
    BY <1>1, EffectOfThrow DEF executeBits
  <2> QED BY <1>1, <2>1, ThrowAgrees
<1>2. CASE r # <<>>
  <2>1. execute(i, config.memorySize) = Done(r, IncPC(i))
    BY <1>2 DEF executeBits
  <2>2. i.opcode \notin {111, 103, 99, 3, 35}
    OBVIOUS
  <2> QED BY <1>2, <2>1, <2>2, PlainAgrees
<1> QED BY <1>1, <1>2

LEMMA WordsAreFull ==
  ASSUME NEW r \in Words
  PROVE  r # <<>>
BY DEF Words

\* Without an erratum the routines on immediates are those of the manual.
LEMMA BitsImmediateAgrees ==
  ASSUME Here, NEW i, NEW w, NEW a, NEW b, Means(i, w, a, b), i.opcode = 19,
         NoErratum(w, a, b)
  PROVE  Agrees(i, w, a, b, execute(i, config.memorySize))
<1> DEFINE r == BitopsImmediate(i)
           v == Machine!Value(w, a, b)
           f == Machine!Func3(w)
           imm == Machine!ImmI(w)
           shift == i.imm[1] & 31
           func7 == getContrainedBits(i.imm, 5, 11)[1]
           Goal == /\ r = <<>> => ~Machine!Legal(w)
                   /\ r # <<>> => /\ r \in Words /\ Machine!Legal(w)
                                  /\ Machine!HasResult(w) => r = v
<1>1. /\ i.opcode = Machine!Opcode(w) /\ i.func3 = f /\ i.rs1Val = a /\ i.imm = DecodeI(w)
      /\ a \in Words /\ w \in Words /\ f \in 0 .. 7 /\ Vector(i.imm)
  BY DEF Means, Executable
<1>2. Machine!Opcode(w) = 19
  BY <1>1
<1>3. /\ shift = imm[1] % 32 /\ shift \in 0 .. 31 /\ func7 = Machine!Func7(w)
      /\ SignExtended(i.imm) = imm /\ imm \in Words
  <2>1. SignExtended(DecodeI(w)) = imm
    BY <1>1, ImmediateI
  <2> QED BY <1>1, <2>1, AmountOfImmediate, Func7OfImmediate DEF Vector
<1>4. PICK p \in Byte, q \in Byte : i.imm = <<p, q>>
  BY <1>1, AmountOfImmediate
<1>5. Machine!Legal(w) <=> (f = 1 => func7 = 0) /\ (f = 5 => func7 \in {0, 32})
  BY <1>2, <1>3, LegalCases
<1>6. Machine!Legal(w) /\ Machine!HasResult(w) => ~Machine!SltiIgnoresImmediate(w, a)
  BY <1>2 DEF NoErratum, Machine!Departs, Machine!OtherValue
<1>7. ~Machine!Legal(w) => f # 1
  BY <1>2 DEF NoErratum, Machine!Reserved
<1>8. execute(i, config.memorySize) = executeBits(i, r)
  BY ExecuteCases
<1>9. ASSUME r \in Words, Machine!Legal(w), Machine!HasResult(w) => r = v
      PROVE  Goal
  BY <1>9, WordsAreFull
<1>20. SUFFICES Goal
  <2>1. SUFFICES ASSUME Goal PROVE Agrees(i, w, a, b, execute(i, config.memorySize))
    OBVIOUS
  <2>2. i.opcode \in {19, 51}
    OBVIOUS
  <2>3. /\ r = <<>> => ~Machine!Legal(w)
        /\ r # <<>> => /\ r \in Words /\ Machine!Legal(w)
                       /\ Machine!HasResult(w) => r = Machine!Value(w, a, b)
    BY <2>1
  <2> HIDE DEF r
  <2> QED BY <1>8, <2>2, <2>3, BitsAgreeIf
<1>21. OfImmediate(v, f, Machine!Func7(w), a, imm)
  BY <1>2, ValueOfImmediate
<1> HIDE DEF r, f, imm, shift, func7, v
<1>10. CASE f = 0
  <2>1. r = bytesAdditionSigned(a, i.imm)
    BY <1>1, <1>10, BitopsImmediateCases DEF r
  <2>2. r = Machine!Plus(a, imm) /\ r \in Words
    BY <1>1, <1>3, <2>1, Sums
  <2>3. v = Machine!Plus(a, imm)
    BY <1>10, <1>21 DEF OfImmediate
  <2> QED BY <1>5, <1>9, <1>10, <2>2, <2>3
<1>11. CASE f = 1
  <2>1. r = LeftBy(a, shift)
    BY <1>1, <1>11, BitopsImmediateCases DEF r, shift
  <2>2. r = Machine!ShiftLeft(a, imm[1] % 32) /\ r \in Words
    BY <1>1, <1>3, <2>1, LeftIsShiftLeft
  <2>3. v = Machine!ShiftLeft(a, imm[1] % 32)
    BY <1>11, <1>21 DEF OfImmediate
  <2> QED BY <1>7, <1>9, <1>11, <2>2, <2>3
<1>12. CASE f = 2
  <2>1. r = Truth(bytesLessThanBytesSigned(a, i.imm))
    BY <1>1, <1>12, BitopsImmediateCases DEF r
  <2>2. bytesLessThanBytesSigned(a, i.imm) <=> NegativeAbove(a)
    BY <1>1, <1>4, ComparedWithTwo
  <2>3. v = Machine!Truth(Machine!LessSigned(a, imm))
    BY <1>12, <1>21 DEF OfImmediate
  <2>4. Machine!Legal(w)
    BY <1>5, <1>12
  <2>5. Machine!HasResult(w) => (NegativeAbove(a) <=> Machine!LessSigned(a, imm))
    <3>1. SUFFICES ASSUME Machine!HasResult(w)
                   PROVE  NegativeAbove(a) <=> Machine!LessSigned(a, imm)
      OBVIOUS
    <3>2. ~Machine!SltiIgnoresImmediate(w, a)
      BY <1>6, <2>4, <3>1
    <3> QED BY <1>12, <3>2, Zenon DEF Machine!SltiIgnoresImmediate, NegativeAbove, f, imm
  <2>6. r \in Words
    BY <2>1, TruthIsWord
  <2>7. Machine!HasResult(w) => r = v
    BY <2>1, <2>2, <2>3, <2>5 DEF Truth, Machine!Truth
  <2> QED BY <1>9, <2>4, <2>6, <2>7
<1>13. CASE f = 3
  <2>1. r = Truth(bytesLessThanBytesUnsigned(a, i.imm))
    BY <1>1, <1>13, BitopsImmediateCases DEF r
  <2>2. ~bytesLessThanBytesUnsigned(a, i.imm)
    BY <1>1, <1>4, ComparedWithTwo
  <2>3. v = Machine!Truth(Machine!LessUnsigned(a, imm))
    BY <1>13, <1>21 DEF OfImmediate
  <2>4. Machine!Legal(w)
    BY <1>5, <1>13
  <2>5. Machine!HasResult(w) => ~Machine!LessUnsigned(a, imm)
    BY <1>6, <1>13, <2>4, Zenon DEF Machine!SltiIgnoresImmediate, f, imm
  <2>6. r \in Words
    BY <2>1, TruthIsWord
  <2>7. Machine!HasResult(w) => r = v
    BY <2>1, <2>2, <2>3, <2>5 DEF Truth, Machine!Truth
  <2> QED BY <1>9, <2>4, <2>6, <2>7
<1>14. imm = copyWithSignExtend(i.imm, 4)
  BY <1>3 DEF SignExtended, XLEN
<1>15. CASE f = 4
  <2>1. r = bytesXOR(a, i.imm)
    BY <1>1, <1>15, BitopsImmediateCases DEF r
  <2>2. /\ r = Machine!Word([k \in 0 .. 31 |-> (Machine!Bits(a)[k] + Machine!Bits(imm)[k]) % 2])
        /\ r \in Words
    BY <1>1, <1>3, <1>14, <2>1, XorOfWords
  <2>3. v = Machine!Word([k \in 0 .. 31 |-> (Machine!Bits(a)[k] + Machine!Bits(imm)[k]) % 2])
    BY <1>15, <1>21 DEF OfImmediate
  <2> QED BY <1>5, <1>9, <1>15, <2>2, <2>3
<1>16. CASE f = 6
  <2>1. r = bytesOR(a, i.imm)
    BY <1>1, <1>16, BitopsImmediateCases DEF r
  <2>2. /\ r = Machine!Word([k \in 0 .. 31 |-> IF Machine!Bits(a)[k] + Machine!Bits(imm)[k] = 0 THEN 0 ELSE 1])
        /\ r \in Words
    BY <1>1, <1>3, <1>14, <2>1, OrOfWords
  <2>3. v = Machine!Word([k \in 0 .. 31 |-> IF Machine!Bits(a)[k] + Machine!Bits(imm)[k] = 0 THEN 0 ELSE 1])
    BY <1>16, <1>21 DEF OfImmediate
  <2> QED BY <1>5, <1>9, <1>16, <2>2, <2>3
<1>17. CASE f = 7
  <2>1. r = bytesAND(a, i.imm)
    BY <1>1, <1>17, BitopsImmediateCases DEF r
  <2>2. /\ r = Machine!Word([k \in 0 .. 31 |-> Machine!Bits(a)[k] * Machine!Bits(imm)[k]])
        /\ r \in Words
    BY <1>1, <1>3, <1>14, <2>1, AndOfWords
  <2>3. v = Machine!Word([k \in 0 .. 31 |-> Machine!Bits(a)[k] * Machine!Bits(imm)[k]])
    BY <1>17, <1>21 DEF OfImmediate
  <2> QED BY <1>5, <1>9, <1>17, <2>2, <2>3
<1>18. CASE f = 5
  <2>1. CASE func7 = 0
    <3>1. r = RightBy(a, shift, 0)
      BY <1>1, <1>18, <2>1, BitopsImmediateCases DEF r, shift, func7
    <3>2. r = Machine!ShiftRight(a, imm[1] % 32, 0) /\ r \in Words
      <4>1. 0 \in {0, 255} /\ 0 \div 255 = 0
        OBVIOUS
      <4> QED BY <1>1, <1>3, <3>1, <4>1, RightIsShiftRight
    <3>3. v = Machine!ShiftRight(a, imm[1] % 32, 0)
      <4>1. Machine!Func7(w) # 32
        BY <1>3, <2>1
      <4> QED BY <1>18, <4>1, <1>21 DEF OfImmediate
    <3> QED BY <1>5, <1>9, <1>18, <2>1, <3>2, <3>3
  <2>2. CASE func7 = 32
    <3>1. r = RightBy(a, shift, SignFill(a))
      BY <1>1, <1>18, <2>2, BitopsImmediateCases DEF r, shift, func7
    <3>2. r = Machine!ShiftRight(a, imm[1] % 32, Machine!Sign(a)) /\ r \in Words
      BY <1>1, <1>3, <3>1, SignFillIsSign, RightIsShiftRight
    <3>3. v = Machine!ShiftRight(a, imm[1] % 32, Machine!Sign(a))
      <4>1. Machine!Func7(w) = 32
        BY <1>3, <2>2
      <4> QED BY <1>18, <4>1, <1>21 DEF OfImmediate
    <3> QED BY <1>5, <1>9, <1>18, <2>2, <3>2, <3>3
  <2>3. CASE func7 # 0 /\ func7 # 32
    <3>1. r = <<>>
      BY <1>1, <1>18, <2>3, BitopsImmediateCases DEF r, func7
    <3>2. ~Machine!Legal(w)
      BY <1>5, <1>18, <2>3
    <3> QED BY <3>1, <3>2
  <2> QED BY <2>1, <2>2, <2>3
<1> QED
  <2>1. f = 0 \/ f = 1 \/ f = 2 \/ f = 3 \/ f = 4 \/ f = 5 \/ f = 6 \/ f = 7
    BY <1>1, EightFunctions
  <2> QED BY <1>10, <1>11, <1>12, <1>13, <1>15, <1>16, <1>17, <1>18, <2>1

\* Without an erratum the amount of a shift is below 32, or its mask does not
\* show.
LEMMA UnmaskedShift ==
  ASSUME NEW w, NEW a \in Words, NEW b \in Words, Machine!Opcode(w) = 51,
         ~Machine!ShiftNotMasked(w, a, b)
  PROVE  ~TooFar(a, b) \/
         Machine!Value(w, a, b) =
           Machine!Word([k \in 0 .. 31 |-> IF Machine!Func7(w) = 32 /\ Machine!Func3(w) = 5
                                             THEN Machine!Sign(a) ELSE 0])
<1> DEFINE filled == Machine!Word([k \in 0 .. 31 |-> IF Machine!Func7(w) = 32 /\ Machine!Func3(w) = 5
                                                       THEN Machine!Sign(a) ELSE 0])
<1>1. Machine!LessUnsigned(b, Single(32))
        \/ Machine!Alu(Machine!Func3(w), Machine!Func7(w) = 32, a, b) = filled
  BY Zenon DEF Machine!ShiftNotMasked, Single
<1>2. Machine!Value(w, a, b) = Machine!Alu(Machine!Func3(w), Machine!Func7(w) = 32, a, b)
  BY Zenon, ValueOfTwo
<1>3. TooFar(a, b) <=> ~Machine!LessUnsigned(b, Single(32))
  BY TooFarIsManyBits
<1> HIDE DEF filled
<1>4. ~TooFar(a, b) \/ Machine!Value(w, a, b) = filled
  BY Zenon, <1>1, <1>2, <1>3
<1> QED BY <1>4 DEF filled

\* Without an erratum the routines on two registers are those of the manual.
LEMMA BitsAgrees ==
  ASSUME Here, NEW i, NEW w, NEW a, NEW b, Means(i, w, a, b), i.opcode = 51,
         NoErratum(w, a, b)
  PROVE  Agrees(i, w, a, b, execute(i, config.memorySize))
<1> DEFINE r == Bitops(i)
           v == Machine!Value(w, a, b)
           f == Machine!Func3(w)
           func7 == Machine!Func7(w)
           result == Machine!HasResult(w)
           Goal == /\ r = <<>> => ~Machine!Legal(w)
                   /\ r # <<>> => /\ r \in Words /\ Machine!Legal(w)
                                  /\ result => r = v
<1>1. /\ i.opcode = Machine!Opcode(w) /\ i.func3 = f /\ i.func7 = func7 /\ i.rs1Val = a
      /\ i.rs2Val = b /\ a \in Words /\ b \in Words /\ w \in Words /\ f \in 0 .. 7
  BY DEF Means, Executable
<1>2. Machine!Opcode(w) = 51
  BY <1>1
<1>3. Vector(b) /\ b = copyWithSignExtend(b, 4)
  BY <1>1, WordsAreVectors DEF SignExtended, XLEN
<1>4. Machine!Legal(w) <=> (func7 = 0 \/ (func7 = 32 /\ f \in {0, 5}))
  BY <1>2, LegalCases
<1>5. Machine!Legal(w) /\ result =>
        /\ f = 0 /\ func7 = 32 => ~Machine!DoubleBorrow(a, b)
        /\ f = 2 => ~Machine!SignedByBytes(a, b)
        /\ f \in {1, 5} => ~Machine!ShiftNotMasked(w, a, b)
  BY <1>2 DEF NoErratum, Machine!Departs, Machine!OtherValue
<1>6. ~Machine!Legal(w) => f = 0 \/ f = 5
  BY <1>2, <1>1 DEF NoErratum, Machine!Reserved
<1>7. execute(i, config.memorySize) = executeBits(i, r)
  BY ExecuteCases
<1>8. ASSUME r \in Words, Machine!Legal(w), result => r = v
      PROVE  Goal
  BY <1>8, WordsAreFull
<1>9. SUFFICES Goal
  <2>1. SUFFICES ASSUME Goal PROVE Agrees(i, w, a, b, execute(i, config.memorySize))
    OBVIOUS
  <2>2. i.opcode \in {19, 51}
    OBVIOUS
  <2>3. /\ r = <<>> => ~Machine!Legal(w)
        /\ r # <<>> => /\ r \in Words /\ Machine!Legal(w)
                       /\ Machine!HasResult(w) => r = Machine!Value(w, a, b)
    BY <2>1
  <2> HIDE DEF r
  <2> QED BY <1>7, <2>2, <2>3, BitsAgreeIf
<1>10. ~TooFar(a, b) \/ (Machine!Legal(w) /\ result /\ f \in {1, 5} =>
          v = Machine!Word([k \in 0 .. 31 |-> IF func7 = 32 /\ f = 5 THEN Machine!Sign(a) ELSE 0]))
  BY <1>1, <1>2, <1>5, UnmaskedShift
<1>11. Machine!Legal(w) /\ f \notin {0, 5} => func7 = 0
  BY <1>4
<1>21. OfRegisters(v, f, func7, a, b)
  BY <1>2, ValueOfRegisters
<1> HIDE DEF r, f, func7, v, result
<1>20. /\ f = 0 /\ func7 # 32 => v = Machine!Plus(a, b)
       /\ f = 0 /\ func7 = 32 => v = Machine!Minus(a, b)
       /\ f = 1 => v = Machine!ShiftLeft(a, b[1] % 32)
       /\ f = 2 => v = Machine!Truth(Machine!LessSigned(a, b))
       /\ f = 3 => v = Machine!Truth(Machine!LessUnsigned(a, b))
       /\ f = 4 => v = Machine!Word([k \in 0 .. 31 |-> (Machine!Bits(a)[k] + Machine!Bits(b)[k]) % 2])
       /\ f = 5 /\ func7 # 32 => v = Machine!ShiftRight(a, b[1] % 32, 0)
       /\ f = 5 /\ func7 = 32 => v = Machine!ShiftRight(a, b[1] % 32, Machine!Sign(a))
       /\ f = 6 => v = Machine!Word([k \in 0 .. 31 |->
                                       IF Machine!Bits(a)[k] + Machine!Bits(b)[k] = 0 THEN 0 ELSE 1])
       /\ f = 7 => v = Machine!Word([k \in 0 .. 31 |-> Machine!Bits(a)[k] * Machine!Bits(b)[k]])
  BY <1>21 DEF OfRegisters
<1>12. CASE f = 0
  <2>1. CASE func7 = 0
    <3>1. r = bytesAdditionUnsigned(a, b)
      BY <1>1, <1>12, <2>1, BitopsCases DEF r
    <3>2. r = Machine!Plus(a, b) /\ r \in Words
      BY <1>1, <3>1, AddBytesIsPlus DEF bytesAdditionUnsigned
    <3>3. v = Machine!Plus(a, b)
      <4>1. func7 # 32
        BY <2>1
      <4> QED BY <1>20, <1>12, <4>1
    <3> QED BY <1>4, <1>8, <2>1, <3>2, <3>3
  <2>2. CASE func7 = 32
    <3>1. r = bytesSubtractionUnsigned(a, b)
      BY <1>1, <1>12, <2>2, BitopsCases DEF r
    <3>2. r \in Words
      BY <1>1, <3>1, SubtractionType
    <3>3. Machine!Legal(w)
      BY <1>4, <1>12, <2>2
    <3>4. result => r = Machine!Minus(a, b)
      <4>1. SUFFICES ASSUME result PROVE r = Machine!Minus(a, b)
        OBVIOUS
      <4>2. ~Machine!DoubleBorrow(a, b)
        BY <1>5, <1>12, <2>2, <3>3, <4>1
      <4> QED BY <1>1, <3>1, <4>2, SubtractionIsMinus
    <3>5. v = Machine!Minus(a, b)
      BY <1>20, <1>12, <2>2
    <3> QED BY <1>8, <3>2, <3>3, <3>4, <3>5
  <2>3. CASE func7 # 0 /\ func7 # 32
    <3>1. r = <<>>
      BY <1>1, <1>12, <2>3, BitopsCases DEF r
    <3>2. ~Machine!Legal(w)
      BY <1>4, <2>3
    <3> QED BY <3>1, <3>2
  <2> QED BY <2>1, <2>2, <2>3
<1>13. CASE f = 1
  <2>1. r = bytesLogicalLeftShift(a, b)
    BY <1>1, <1>13, BitopsCases DEF r
  <2>2. Machine!Legal(w)
    BY <1>6, <1>13
  <2>3. r \in Words
    BY <1>1, <2>1, ShiftLeftByRegister
  <2>4. result => r = v
    <3>1. SUFFICES ASSUME result PROVE r = v
      OBVIOUS
    <3>2. CASE TooFar(a, b)
      <4>1. v = Machine!Word([k \in 0 .. 31 |-> IF func7 = 32 /\ f = 5 THEN Machine!Sign(a) ELSE 0])
        BY <1>10, <1>13, <2>2, <3>1, <3>2
      <4>2. v = Machine!Word([k \in 0 .. 31 |-> 0])
        <5>1. ~(func7 = 32 /\ f = 5)
          BY <1>13
        <5>2. [k \in 0 .. 31 |-> IF func7 = 32 /\ f = 5 THEN Machine!Sign(a) ELSE 0]
                = [k \in 0 .. 31 |-> 0]
          BY <5>1
        <5> QED BY <4>1, <5>2
      <4> QED BY <1>1, <2>1, <3>2, <4>2, ShiftLeftByRegister
    <3>3. CASE ~TooFar(a, b)
      <4>1. r = Machine!ShiftLeft(a, b[1] % 32)
        BY <1>1, <2>1, <3>3, ShiftLeftByRegister
      <4>2. v = Machine!ShiftLeft(a, b[1] % 32)
        BY <1>20, <1>13
      <4> QED BY <4>1, <4>2
    <3> QED BY <3>2, <3>3
  <2> QED BY <1>8, <2>2, <2>3, <2>4
<1>14. CASE f = 2
  <2>1. r = Truth(bytesLessThanBytesSigned(a, b))
    BY <1>1, <1>14, BitopsCases DEF r
  <2>2. v = Machine!Truth(Machine!LessSigned(a, b))
    BY <1>20, <1>14
  <2>3. Machine!Legal(w)
    BY <1>6, <1>14
  <2>4. result => (bytesLessThanBytesSigned(a, b) <=> Machine!LessSigned(a, b))
    <3>1. SUFFICES ASSUME result
                   PROVE  bytesLessThanBytesSigned(a, b) <=> Machine!LessSigned(a, b)
      OBVIOUS
    <3>2. ~Machine!SignedByBytes(a, b)
      BY <1>5, <1>14, <2>3, <3>1
    <3> QED BY <1>1, <3>2, SignedOrder
  <2>5. r \in Words
    BY <2>1, TruthIsWord
  <2>6. result => r = v
    BY <2>1, <2>2, <2>4 DEF Truth, Machine!Truth
  <2> QED BY <1>8, <2>3, <2>5, <2>6
<1>15. CASE f = 3
  <2>1. r = Truth(bytesLessThanBytesUnsigned(a, b))
    BY <1>1, <1>15, BitopsCases DEF r
  <2>2. v = Machine!Truth(Machine!LessUnsigned(a, b))
    BY <1>20, <1>15
  <2>3. bytesLessThanBytesUnsigned(a, b) <=> Machine!LessUnsigned(a, b)
    BY <1>1, UnsignedOrder
  <2>4. r \in Words
    BY <2>1, TruthIsWord
  <2>5. r = v
    BY <2>1, <2>2, <2>3 DEF Truth, Machine!Truth
  <2>6. Machine!Legal(w)
    BY <1>6, <1>15
  <2> QED BY <1>8, <2>4, <2>5, <2>6
<1>16. CASE f = 4
  <2>1. r = bytesXOR(a, b)
    BY <1>1, <1>16, BitopsCases DEF r
  <2>2. /\ r = Machine!Word([k \in 0 .. 31 |-> (Machine!Bits(a)[k] + Machine!Bits(b)[k]) % 2])
        /\ r \in Words
    BY <1>1, <1>3, <2>1, XorOfWords
  <2>3. v = Machine!Word([k \in 0 .. 31 |-> (Machine!Bits(a)[k] + Machine!Bits(b)[k]) % 2])
    BY <1>20, <1>16
  <2>4. Machine!Legal(w)
    BY <1>6, <1>16
  <2> QED BY <1>8, <2>2, <2>3, <2>4
<1>17. CASE f = 6
  <2>1. r = bytesOR(a, b)
    BY <1>1, <1>17, BitopsCases DEF r
  <2>2. /\ r = Machine!Word([k \in 0 .. 31 |-> IF Machine!Bits(a)[k] + Machine!Bits(b)[k] = 0 THEN 0 ELSE 1])
        /\ r \in Words
    BY <1>1, <1>3, <2>1, OrOfWords
  <2>3. v = Machine!Word([k \in 0 .. 31 |-> IF Machine!Bits(a)[k] + Machine!Bits(b)[k] = 0 THEN 0 ELSE 1])
    BY <1>20, <1>17
  <2>4. Machine!Legal(w)
    BY <1>6, <1>17
  <2> QED BY <1>8, <2>2, <2>3, <2>4
<1>18. CASE f = 7
  <2>1. r = bytesAND(a, b)
    BY <1>1, <1>18, BitopsCases DEF r
  <2>2. /\ r = Machine!Word([k \in 0 .. 31 |-> Machine!Bits(a)[k] * Machine!Bits(b)[k]])
        /\ r \in Words
    BY <1>1, <1>3, <2>1, AndOfWords
  <2>3. v = Machine!Word([k \in 0 .. 31 |-> Machine!Bits(a)[k] * Machine!Bits(b)[k]])
    BY <1>20, <1>18
  <2>4. Machine!Legal(w)
    BY <1>6, <1>18
  <2> QED BY <1>8, <2>2, <2>3, <2>4
<1>19. CASE f = 5
  <2>1. ASSUME NEW fill \in {0, 255}, NEW top, top = fill \div 255,
               r = RightShift(a, b, fill), Machine!Legal(w),
               v = Machine!ShiftRight(a, b[1] % 32, top),
               top = IF func7 = 32 /\ f = 5 THEN Machine!Sign(a) ELSE 0
        PROVE  Goal
    <3>1. r \in Words
      BY <1>1, <2>1, ShiftRightByRegister
    <3>2. result => r = v
      <4>1. SUFFICES ASSUME result PROVE r = v
        OBVIOUS
      <4>2. CASE TooFar(a, b)
        <5>1. v = Machine!Word([k \in 0 .. 31 |-> top])
          BY <1>10, <1>19, <2>1, <4>1, <4>2
        <5>2. r = Machine!Word([k \in 0 .. 31 |-> top])
          BY <1>1, <2>1, <4>2, ShiftRightByRegister
        <5> QED BY <5>1, <5>2
      <4>3. CASE ~TooFar(a, b)
        BY <1>1, <2>1, <4>3, ShiftRightByRegister
      <4> QED BY <4>2, <4>3
    <3> QED BY <1>8, <2>1, <3>1, <3>2
  <2>2. CASE func7 = 0
    <3>1. r = RightShift(a, b, 0)
      BY <1>1, <1>19, <2>2, BitopsCases DEF r, bytesLogicalRightShift
    <3>2. v = Machine!ShiftRight(a, b[1] % 32, 0)
      <4>1. func7 # 32
        BY <2>2
      <4> QED BY <1>20, <1>19, <4>1
    <3>3. 0 \in {0, 255} /\ 0 \div 255 = 0
      OBVIOUS
    <3>4. 0 = IF func7 = 32 /\ f = 5 THEN Machine!Sign(a) ELSE 0
      BY <2>2
    <3>5. Machine!Legal(w)
      BY <1>4, <2>2
    <3> QED BY <2>1, <3>1, <3>2, <3>3, <3>4, <3>5
  <2>3. CASE func7 = 32
    <3>1. r = RightShift(a, b, SignFill(a))
      BY <1>1, <1>19, <2>3, BitopsCases DEF r, bytesArithmeticRightShift
    <3>2. v = Machine!ShiftRight(a, b[1] % 32, Machine!Sign(a))
      BY <1>20, <1>19, <2>3
    <3>3. SignFill(a) \in {0, 255} /\ Machine!Sign(a) = SignFill(a) \div 255
      BY <1>1, SignFillIsSign
    <3>4. Machine!Sign(a) = IF func7 = 32 /\ f = 5 THEN Machine!Sign(a) ELSE 0
      BY <1>19, <2>3
    <3>5. Machine!Legal(w)
      BY <1>4, <1>19, <2>3
    <3> QED BY <2>1, <3>1, <3>2, <3>3, <3>4, <3>5
  <2>4. CASE func7 # 0 /\ func7 # 32
    <3>1. r = <<>>
      BY <1>1, <1>19, <2>4, BitopsCases DEF r
    <3>2. ~Machine!Legal(w)
      BY <1>4, <2>4
    <3> QED BY <3>1, <3>2
  <2> QED BY <2>2, <2>3, <2>4
<1> QED
  <2>1. f = 0 \/ f = 1 \/ f = 2 \/ f = 3 \/ f = 4 \/ f = 5 \/ f = 6 \/ f = 7
    BY <1>1, EightFunctions
  <2> QED BY <1>12, <1>13, <1>14, <1>15, <1>16, <1>17, <1>18, <1>19, <2>1

-----------------------------------------------------------------------------
(* Any instruction. *)

\* Whatever is fetched and decoded, the two stages do what the manual says if no
\* erratum applies.
THEOREM InstructionAgrees ==
  ASSUME Here, NEW i, NEW w, NEW a, NEW b, Means(i, w, a, b), NoErratum(w, a, b)
  PROVE  Agrees(i, w, a, b, execute(i, config.memorySize))
<1>1. i.opcode \in BaseOpcodes \cup {127}
  BY DEF Means, Executable
<1>2. CASE i.opcode \in {55, 23}
  BY <1>2, UpperAgrees
<1>3. CASE i.opcode = 111
  BY <1>3, JALAgrees
<1>4. CASE i.opcode \in {15, 115}
  BY <1>4, SilentAgrees
<1>5. CASE i.opcode = 127
  BY <1>5, CountAgrees
<1>6. CASE i.opcode = 99
  BY <1>6, BranchAgrees
<1>7. CASE i.opcode = 103
  BY <1>7, JALRAgrees
<1>8. CASE i.opcode = 3
  BY <1>8, LoadAgrees
<1>9. CASE i.opcode = 35
  BY <1>9, StoreAgrees
<1>10. CASE i.opcode = 19
  BY <1>10, BitsImmediateAgrees
<1>11. CASE i.opcode = 51
  BY <1>11, BitsAgrees
<1> QED
  BY <1>1, <1>2, <1>3, <1>4, <1>5, <1>6, <1>7, <1>8, <1>9, <1>10, <1>11 DEF BaseOpcodes

-----------------------------------------------------------------------------
(* Where the emulator stands between two instructions.                     *)

AtHalt == config.haltAddr # <<>> /\ bytesGreaterOrequalToUnsigned(pc, config.haltAddr)

\* The PC is aligned, and not one to halt at once the instruction is fetched.
PlaceInv ==
  /\ stage \in Loading => pc = Zeros(XLEN)
  /\ pc[1] % 4 = 0
  /\ stage = "writeback" => effect.next[1] % 4 = 0
  /\ stage \in {"decode", "execute", "memoryAccess"} => ~AtHalt
  /\ stage \in Running => config.haltAddr = <<>> \/ config.haltAddr \in Words

\* The inductive invariant: the types and the place.
ManualInv == DataInv /\ PlaceInv

\* What execute lets through goes on at an aligned address.
LEMMA NextIsAligned ==
  ASSUME Here, NEW i, NEW w, NEW a, NEW b, Means(i, w, a, b),
         execute(i, config.memorySize).fault = "none"
  PROVE  execute(i, config.memorySize).next[1] % 4 = 0
<1> DEFINE e == execute(i, config.memorySize)
           size == config.memorySize
<1>1. /\ i.opcode \in BaseOpcodes \cup {127} /\ Vector(i.imm) /\ i.pc \in Words /\ a \in Words
      /\ i.rs1Val = a
  BY DEF Means, Executable
<1>2. IncPC(i) \in Words /\ IncPC(i)[1] % 4 = 0
  BY FollowingInstruction
<1>3. bytesAddSignedToPC(i.pc, i.imm) \in Words /\ bytesAdditionSigned(i.rs1Val, i.imm) \in Words
  BY <1>1, Sums
<1>4. ASSUME NEW r \in Words, NEW n \in Words, e = JumpTo(r, n, size)
      PROVE  e.next[1] % 4 = 0
  BY <1>4, JumpChecked
<1>5. ASSUME NEW r, e = Done(r, IncPC(i))
      PROVE  e.next[1] % 4 = 0
  BY <1>2, <1>5 DEF Done
<1>6. CASE i.opcode = 111
  <2>1. e = JumpTo(IncPC(i), bytesAddSignedToPC(i.pc, i.imm), size)
    BY <1>6, ExecuteCases DEF executeJAL
  <2> QED BY <1>2, <1>3, <1>4, <2>1
<1>7. CASE i.opcode = 103
  <2>1. e = JumpTo(IncPC(i), bytesAdditionSigned(i.rs1Val, i.imm), size)
    BY <1>7, ExecuteCases DEF executeJALR
  <2> QED BY <1>2, <1>3, <1>4, <2>1
<1>8. CASE i.opcode = 99
  <2>1. e = executeBranch(i, size)
    BY <1>8, ExecuteCases
  <2>2. i.func3 \notin {2, 3}
    BY <2>1, EffectOfThrow DEF executeBranch
  <2>3. CASE BranchTaken(i)
    <3>1. e = JumpTo(bytesAddSignedToPC(i.pc, i.imm), bytesAddSignedToPC(i.pc, i.imm), size)
      BY <2>1, <2>2, <2>3 DEF executeBranch
    <3> QED BY <1>3, <1>4, <3>1
  <2>4. CASE ~BranchTaken(i)
    <3>1. e = JumpTo(IncPC(i), IncPC(i), size)
      BY <2>1, <2>2, <2>4 DEF executeBranch
    <3> QED BY <1>2, <1>4, <3>1
  <2> QED BY <2>3, <2>4
<1>9. i.opcode \notin {111, 103, 99} => \E r : e = Done(r, IncPC(i))
  <2>1. i.opcode = 55 => e = Done(i.imm, IncPC(i))
    BY ExecuteCases
  <2>2. i.opcode = 23 => e = Done(bytesAddSignedToPC(i.pc, i.imm), IncPC(i))
    BY ExecuteCases
  <2>3. i.opcode \in {3, 35} => e = Done(bytesAdditionSigned(i.rs1Val, i.imm), IncPC(i))
    BY ExecuteCases, EffectOfThrow DEF executeAccess
  <2>4. i.opcode = 19 => e = Done(BitopsImmediate(i), IncPC(i))
    BY ExecuteCases, EffectOfThrow DEF executeBits
  <2>5. i.opcode = 51 => e = Done(Bitops(i), IncPC(i))
    BY ExecuteCases, EffectOfThrow DEF executeBits
  <2>6. i.opcode = 127 =>
          e = Done(addByteToBytes(i.rs1Val, IF i.func3 = 0 THEN 1 ELSE 255), IncPC(i))
    BY ExecuteCases, EffectOfThrow DEF executeT
  <2>7. i.opcode \in {15, 115} => e = Done(Zeros(XLEN), IncPC(i))
    BY ExecuteCases
  <2> HIDE DEF e
  <2> QED BY <1>1, <2>1, <2>2, <2>3, <2>4, <2>5, <2>6, <2>7 DEF BaseOpcodes
<1> QED BY <1>5, <1>6, <1>7, <1>8, <1>9

\* The current instruction, from its fetch to its effect.
LEMMA AtInstruction ==
  ASSUME DataInv, PlaceInv, stage \in {"decode", "execute", "memoryAccess"}
  PROVE  Here /\ PC = pc /\ Outcome = "running" /\ Started
<1>1. PC = pc /\ stage \in Running
  BY DEF PC, Running
<1>2. ConfigType(config) /\ Full
  BY DEF DataInv, RunInv, MemoryInv, Loading
<1>3. pc \in Words /\ pc[4] = 0 /\ pc[1] % 4 = 0 /\ getBytesToULong(pc) + 4 < config.memorySize
  BY DEF DataInv, WordsInv, FetchedInv, PlaceInv
<1> QED BY <1>1, <1>2, <1>3, RunningOutcome DEF Here

LEMMA InitPlace == Init => PlaceInv
<1> SUFFICES ASSUME Init PROVE PlaceInv
  OBVIOUS
<1>1. pc = Zeros(XLEN) /\ stage = "start"
  BY DEF Init
<1>2. Zeros(XLEN)[1] = 0
  BY ZerosAre
<1> QED BY <1>1, <1>2 DEF PlaceInv, Running

\* A step that leaves the PC and the halt address alone.
LEMMA PlaceStays ==
  ASSUME PlaceInv, pc' = pc, config'.haltAddr = config.haltAddr,
         stage' \in Loading => stage \in Loading,
         stage' # "writeback" \/ (stage = "writeback" /\ effect' = effect),
         stage' \in {"decode", "execute", "memoryAccess"} => ~AtHalt,
         stage' \in Running => stage \in Running
  PROVE  PlaceInv'
BY DEF PlaceInv, AtHalt

LEMMA StepPlace ==
  ASSUME DataInv, PlaceInv, [Next]_vars
  PROVE  PlaceInv'
<1> USE DEF Loading, Running
<1>1. CASE UNCHANGED vars
  BY <1>1, PlaceStays DEF PlaceInv, vars
<1>2. CASE ParseArg
  <2>1. stage = "start" /\ stage' = "start" /\ pc' = pc
    BY <1>2 DEF ParseArg
  <2> QED BY <2>1 DEF PlaceInv
<1>3. CASE ParsedArgs
  <2>1. stage' \in {"load", "refused"} /\ pc' = pc /\ stage = "start"
    BY <1>3 DEF ParsedArgs
  <2> QED BY <2>1 DEF PlaceInv
<1>4. CASE Load
  <2>1. CASE LoadFails(file.contents, config.memorySize)
    <3>1. stage' = "terminated" /\ pc' = pc
      BY <1>4, <2>1 DEF Load
    <3> QED BY <3>1 DEF PlaceInv
  <2>2. CASE ~LoadFails(file.contents, config.memorySize)
    <3>1. stage' = "fetch" /\ pc' = pc
          /\ config' = [config EXCEPT !.haltAddr = IF @ = <<>> THEN @ ELSE Resize(@, XLEN)]
      BY <1>4, <2>2 DEF Load
    <3>2. ConfigType(config)
      BY DEF DataInv, RunInv
    <3>3. config'.haltAddr = <<>> \/ config'.haltAddr \in Words
      BY <3>1, <3>2, ResizedHalt DEF ConfigType
    <3> QED BY <3>1, <3>3 DEF PlaceInv
  <2> QED BY <2>1, <2>2
<1>5. CASE Fetch
  <2>1. stage = "fetch" /\ stage' \in {"halted", "exception", "decode"}
        /\ UNCHANGED <<config, pc, effect>>
    BY <1>5, FetchCases
  <2>2. stage' = "decode" => ~AtHalt
    BY <1>5, Zenon DEF Fetch, AtHalt
  <2> QED BY <2>1, <2>2, PlaceStays
<1>6. CASE Decode
  <2>1. stage = "decode" /\ stage' \in {"exception", "execute"} /\ UNCHANGED <<config, pc, effect>>
    BY <1>6 DEF Decode
  <2> QED BY <2>1, PlaceStays DEF PlaceInv
<1>7. CASE Execute
  <2>1. stage = "execute" /\ UNCHANGED <<config, pc>>
        /\ stage' \in {"memoryAccess", "terminated", "exception"}
    BY <1>7 DEF Execute
  <2> QED BY <2>1, PlaceStays DEF PlaceInv
<1>8. CASE MemoryAccess
  <2>1. stage = "memoryAccess" /\ UNCHANGED <<config, pc>> /\ stage' \in {"exception", "writeback"}
    BY <1>8 DEF MemoryAccess
  <2>2. Here /\ Means(ins, fetched, FirstOperand, SecondOperand)
    BY <2>1, AtInstruction, InstructionMeans
  <2>3. effect = execute(ins, config.memorySize) /\ effect.fault = "none"
    BY <2>1 DEF DataInv, DecodedInv
  <2>4. effect.next[1] % 4 = 0
    BY <2>2, <2>3, NextIsAligned
  <2>5. effect'.next = effect.next \/ stage' = "exception"
    <3>1. effect = [result |-> effect.result, next |-> effect.next, fault |-> effect.fault]
      BY DEF DataInv, WordsInv, Effect
    <3>2. stage' = "writeback" =>
            effect' = IF ins.opcode = 3 THEN [effect EXCEPT !.result = memLoad(ins, @, memory)]
                                        ELSE effect
      BY <1>8 DEF MemoryAccess
    <3> QED BY <2>1, <3>1, <3>2
  <2> QED BY <2>1, <2>4, <2>5 DEF PlaceInv
<1>9. CASE Writeback
  <2>1. stage = "writeback" /\ stage' = "fetch" /\ pc' = effect.next /\ UNCHANGED <<config, effect>>
    BY <1>9 DEF Writeback
  <2> QED BY <2>1 DEF PlaceInv
<1>10. CASE Command
  <2>1. stage = "fetch" /\ stage' = "fetch" /\ UNCHANGED <<config, pc, effect>>
    BY <1>10 DEF Command
  <2> QED BY <2>1, PlaceStays
<1> QED BY <1>1, <1>2, <1>3, <1>4, <1>5, <1>6, <1>7, <1>8, <1>9, <1>10 DEF Next

\* Every state of a run is well typed and stands at an aligned address, which is
\* not one to halt at once an instruction was fetched (Hart::tick, the stages).
THEOREM PlaceIsKept == Spec => []ManualInv
<1>1. Init => ManualInv
  BY InitData, InitPlace DEF ManualInv
<1>2. ManualInv /\ [Next]_vars => ManualInv'
  <2> SUFFICES ASSUME ManualInv, [Next]_vars PROVE ManualInv'
    OBVIOUS
  <2>1. DataInv /\ PlaceInv
    BY DEF ManualInv
  <2>2. DataInv'
    BY <2>1, StutterData, ParseArgData, ParsedArgsData, LoadData, FetchData, DecodeData, ExecuteData,
       MemoryAccessData, WritebackData, CommandData DEF Next
  <2>3. PlaceInv'
    BY <2>1, StepPlace
  <2> QED BY <2>2, <2>3 DEF ManualInv
<1> QED BY <1>1, <1>2, PTL DEF Spec

-----------------------------------------------------------------------------
(* The machine of the manual, seen through the mapping.                    *)

\* The machine halts where the emulator does.
LEMMA HaltIsReached ==
  ASSUME DataInv, PlaceInv, stage \in Running, stage # "writeback"
  PROVE  Machine!HaltReached <=> AtHalt
<1>1. Started /\ PC = pc /\ pc \in Words
  BY RunningOutcome DEF PC, DataInv, WordsInv
<1>2. config.haltAddr = <<>> \/ config.haltAddr \in Words
  BY DEF PlaceInv
<1>3. config.haltAddr \in Words =>
        (bytesGreaterOrequalToUnsigned(pc, config.haltAddr)
           <=> ~Machine!LessUnsigned(pc, config.haltAddr))
  BY <1>1, UnsignedOrder, Ordered
<1> QED BY <1>1, <1>2, <1>3 DEF Machine!HaltReached, AtHalt

\* The word and the operands of the machine are those that were fetched.
LEMMA CurrentIsFetched ==
  ASSUME DataInv, PlaceInv, stage \in {"decode", "execute", "memoryAccess"}
  PROVE  /\ Machine!Current = fetched
         /\ Machine!A = FirstOperand /\ Machine!B = SecondOperand
         /\ Machine!Inside(PC, 4) /\ Machine!Inside(PC, 5)
<1>1. Here /\ PC = pc
  BY AtInstruction
<1>2. fetched \in Words /\ fetched = Read(memory, getBytesToULong(pc), 4)
  BY DEF DataInv, FetchedInv
<1>3. PICK size \in Nat : size = config.memorySize
  BY <1>1, SizeOfMemory DEF Here
<1>4. PICK address \in Nat : address = getBytesToULong(pc) /\ address = Machine!Address(pc)
  BY <1>1, ULongOfWord DEF Here
<1>5. address + 4 < size
  BY <1>1, <1>3, <1>4 DEF Here
<1>6. Machine!Current = fetched
  <2>1. Machine!Current = [k \in 1 .. 4 |-> memory[address + k - 1]]
    BY <1>1, <1>4 DEF Machine!Current
  <2>2. fetched = [k \in 1 .. 4 |-> memory[address + k - 1]]
    BY <1>2, <1>4 DEF Read
  <2> QED BY <2>1, <2>2
<1>7. Machine!A = FirstOperand /\ Machine!B = SecondOperand
  <2>1. Machine!Rs1(fetched) = Field(fetched, 15, 19) /\ Machine!Rs2(fetched) = Field(fetched, 20, 24)
    BY <1>2, FieldsRead
  <2>2. Registers = registers
    BY DEF Registers
  <2> QED BY <1>6, <2>1, <2>2 DEF Machine!A, Machine!B, FirstOperand, SecondOperand
<1>8. Machine!Inside(PC, 4) /\ Machine!Inside(PC, 5)
  <2>1. /\ Machine!Inside(PC, 4) <=> address + 4 <= size
        /\ Machine!Inside(PC, 5) <=> address + 5 <= size
    BY <1>1, <1>3, <1>4, InsideIsBelow DEF Here
  <2> QED BY <1>5, <2>1
<1> QED BY <1>6, <1>7, <1>8

\* An erratum applies, or the machine faults, if the word and its operands have it.
LEMMA CurrentErratum ==
  ASSUME DataInv, PlaceInv, stage \in {"decode", "execute", "memoryAccess"}
  PROVE  /\ Machine!Erratum <=> ~NoErratum(fetched, FirstOperand, SecondOperand)
         /\ Machine!CurrentFaults <=> Machine!Faults(fetched, FirstOperand, SecondOperand)
         /\ ~Machine!HaltReached
<1>1. /\ Machine!Current = fetched
      /\ Machine!A = FirstOperand /\ Machine!B = SecondOperand
      /\ Machine!Inside(PC, 4) /\ Machine!Inside(PC, 5)
  BY CurrentIsFetched
<1>2. ~Machine!HaltReached
  <2>1. stage \in Running /\ stage # "writeback" /\ ~AtHalt
    BY DEF Running, PlaceInv
  <2> QED BY <2>1, HaltIsReached
<1>3. Machine!CurrentFaults <=> Machine!Faults(fetched, FirstOperand, SecondOperand)
  BY <1>1 DEF Machine!CurrentFaults
<1>4. Machine!Erratum <=> ~NoErratum(fetched, FirstOperand, SecondOperand)
  BY <1>1 DEF Machine!Erratum, Machine!LastWord, NoErratum
<1> QED BY <1>2, <1>3, <1>4

-----------------------------------------------------------------------------
(* Steps of the emulator as steps of the machine.                          *)

\* What the machine has come to in each stage.
OutcomeOfStage ==
  /\ stage \in Running => Outcome = "running"
  /\ stage \in {"start", "load"} => Outcome = "loading"
  /\ stage = "refused" => Outcome = "refused"
  /\ stage = "terminated" /\ memory = <<>> => Outcome = "refused"
  /\ stage \in {"exception", "terminated"} /\ memory # <<>> => Outcome = "exception"
  /\ stage = "halted" => Outcome = "halted"

LEMMA OutcomeOf == OutcomeOfStage
<1>1. stage \in Running => Outcome = "running"
  BY RunningOutcome
<1>2. stage \in {"start", "load"} => Outcome = "loading"
  BY Zenon DEF Outcome
<1>3. stage = "refused" => Outcome = "refused"
  BY Zenon DEF Outcome
<1>4. stage = "terminated" /\ memory = <<>> => Outcome = "refused"
  BY Zenon DEF Outcome
<1>5. stage \in {"exception", "terminated"} /\ memory # <<>> => Outcome = "exception"
  BY Zenon DEF Outcome
<1>6. stage = "halted" => Outcome = "halted"
  BY Zenon DEF Outcome
<1> QED BY <1>1, <1>2, <1>3, <1>4, <1>5, <1>6 DEF OutcomeOfStage

\* The same after a step.
LEMMA OutcomeThen ==
  /\ stage' \in Running => Outcome' = "running"
  /\ stage' \in {"start", "load"} => Outcome' = "loading"
  /\ stage' = "refused" => Outcome' = "refused"
  /\ stage' = "terminated" /\ memory' = <<>> => Outcome' = "refused"
  /\ stage' \in {"exception", "terminated"} /\ memory' # <<>> => Outcome' = "exception"
  /\ stage' = "halted" => Outcome' = "halted"
<1>1. OutcomeOfStage'
  BY OutcomeOf, PTL
<1> QED BY <1>1 DEF OutcomeOfStage, Running

\* What is settled when the program starts.
Settled ==
  <<Image, IF Started THEN config.haltAddr ELSE <<>>,
    Started /\ T_EXTENSION \in config.extensionSet>>

LEMMA StaysSettled ==
  ASSUME UNCHANGED <<config, file>>, Started, Started'
  PROVE  Settled' = Settled
BY DEF Settled, Image

\* The machine stutters.
LEMMA Stutters ==
  ASSUME ~Started \/ UNCHANGED <<config, file>>, UNCHANGED <<memory, PC, Registers, Outcome>>
  PROVE  UNCHANGED Machine!machine
<1>1. Started' <=> Started
  BY DEF Started
<1>2. CASE ~Started
  BY <1>1, <1>2 DEF Machine!machine, Image
<1>3. CASE Started
  <2>1. Settled' = Settled
    BY <1>1, <1>3, StaysSettled
  <2> QED BY <2>1 DEF Settled, Machine!machine
<1> QED BY <1>2, <1>3

LEMMA ExceptStep ==
  ASSUME Settled' = Settled, Outcome = "running", ~Machine!HaltReached, Machine!CurrentFaults,
         Outcome' = "exception", UNCHANGED <<Registers, memory>>
  PROVE  Machine!Except
BY DEF Machine!Except, Settled

LEMMA DeviateStep ==
  ASSUME Settled' = Settled, Outcome = "running", ~Machine!HaltReached, Machine!Erratum,
         Outcome' \in {"running", "exception"}
  PROVE  Machine!Deviate
BY DEF Machine!Deviate, Settled

\* A step of the machine, a departure from it, or none.
MachineStep == Machine!Next \/ Machine!Deviate \/ UNCHANGED Machine!machine

LEMMA ParseArgStep ==
  ASSUME ParseArg
  PROVE  MachineStep
<1>1. stage = "start" /\ stage' = "start" /\ UNCHANGED <<memory, pc, registers>>
  BY DEF ParseArg
<1>2. Outcome = "loading" /\ Outcome' = "loading"
  BY <1>1, OutcomeOf, OutcomeThen DEF OutcomeOfStage
<1>3. UNCHANGED <<memory, PC, Registers, Outcome>> /\ ~Started
  BY <1>1, <1>2 DEF PC, Registers, Started
<1> QED BY <1>3, Stutters DEF MachineStep

LEMMA ParsedArgsStep ==
  ASSUME ParsedArgs
  PROVE  MachineStep
<1>1. stage = "start" /\ stage' \in {"load", "refused"} /\ UNCHANGED <<memory, pc, registers>>
  BY DEF ParsedArgs
<1>2. Outcome = "loading"
  BY <1>1, OutcomeOf DEF OutcomeOfStage
<1>3. CASE stage' = "load"
  <2>1. Outcome' = "loading"
    BY <1>3, OutcomeThen
  <2>2. UNCHANGED <<memory, PC, Registers, Outcome>> /\ ~Started
    BY <1>1, <1>2, <2>1 DEF PC, Registers, Started
  <2> QED BY <2>2, Stutters DEF MachineStep
<1>4. CASE stage' = "refused"
  <2>1. Outcome' = "refused"
    BY <1>4, OutcomeThen
  <2> QED BY <1>2, <2>1 DEF MachineStep, Machine!Next, Machine!Refuse
<1> QED BY <1>1, <1>3, <1>4

\* The loaded program is what the machine starts with.
LEMMA LoadStep ==
  ASSUME DataInv, PlaceInv, Load
  PROVE  MachineStep
<1>1. stage = "load" /\ Outcome = "loading" /\ pc' = pc /\ file' = file
  BY OutcomeOf DEF OutcomeOfStage, Load
<1>2. memory = <<>> /\ pc = Zeros(XLEN)
  BY <1>1 DEF DataInv, MemoryInv, Blank, Loading, PlaceInv
<1>3. CASE LoadFails(file.contents, config.memorySize)
  <2>1. stage' = "terminated" /\ memory' = <<>>
    BY <1>2, <1>3 DEF Load
  <2>2. Outcome' = "refused"
    BY <2>1, OutcomeThen
  <2> QED BY <1>1, <2>2 DEF MachineStep, Machine!Next, Machine!Refuse
<1>4. CASE ~LoadFails(file.contents, config.memorySize)
  <2>1. /\ stage' = "fetch"
        /\ memory' = LoadedMemory(file.contents, config.memorySize)
        /\ registers' = [r \in 0 .. 31 |-> Zeros(XLEN)]
        /\ config' = [config EXCEPT !.haltAddr = IF @ = <<>> THEN @ ELSE Resize(@, XLEN)]
    BY <1>4 DEF Load
  <2>2. Outcome' = "running" /\ Started'
    BY <2>1, OutcomeThen DEF Running, Started
  <2>3. PC' = <<0, 0, 0, 0>> /\ Registers' = [r \in 0 .. 31 |-> <<0, 0, 0, 0>>]
    BY <1>1, <1>2, <2>1, ZerosAre DEF PC, Registers
  <2>4. config'.memorySize = config.memorySize
    BY <2>1 DEF DataInv, RunInv, ConfigType
  <2>5. memory' = Image'
    <3>1. PICK size \in Nat : size = config.memorySize
      BY DefaultWidth DEF DataInv, RunInv
    <3>2. file.contents \in Seq(Cell) /\ Len(file.contents) \in Nat
      BY RunFacts, CellIsByte, LenProperties DEF DataInv, RunInv
    <3>3. /\ memory' \in Memories(size) /\ Len(file.contents) < size
          /\ \A x \in 0 .. Len(file.contents) - 1 : memory'[x] = file.contents[x + 1]
          /\ memory'[Len(file.contents)] = EOF
          /\ \A x \in Len(file.contents) + 1 .. size - 1 : memory'[x] = 0
      BY <1>4, <2>1, <3>1, <3>2, BinaryIsLoaded
    <3>4. Image' = [x \in 0 .. size - 1 |->
                      CASE x < Len(file.contents) -> file.contents[x + 1]
                        [] x = Len(file.contents) -> 255
                        [] OTHER -> 0]
      BY <1>1, <2>2, <2>4, <3>1 DEF Image
    <3>5. ASSUME NEW x \in 0 .. size - 1 PROVE memory'[x] = Image'[x]
      BY <3>2, <3>3, <3>4 DEF EOF
    <3>6. memory' \in [0 .. size - 1 -> Cell]
      BY <3>3 DEF Memories
    <3>7. memory' = [x \in 0 .. size - 1 |-> memory'[x]]
      BY <3>6
    <3>8. Image' = [x \in 0 .. size - 1 |-> Image'[x]]
      BY <3>4
    <3> HIDE <3>3, <3>4
    <3> QED BY <3>5, <3>7, <3>8
  <2>6. Machine!Start
    BY <1>1, <2>2, <2>3, <2>5 DEF Machine!Start
  <2> QED BY <2>6 DEF MachineStep, Machine!Next
<1> QED BY <1>3, <1>4

\* The fetch halts where the machine does; what it throws for is a word outside
\* memory, or the last one.
LEMMA FetchStep ==
  ASSUME DataInv, PlaceInv, Fetch
  PROVE  MachineStep
<1>1. /\ stage = "fetch" /\ UNCHANGED <<config, file, memory, pc, registers>>
      /\ stage' \in {"halted", "exception", "decode"}
  BY FetchCases
<1>2. stage \in Running /\ stage # "writeback"
  BY <1>1 DEF Running
<1>3. Outcome = "running" /\ Started /\ (Machine!HaltReached <=> AtHalt)
  BY <1>2, RunningOutcome, HaltIsReached
<1>4. Full /\ memory # <<>>
  BY <1>1, MemoryIsThere DEF Loading
<1>5. UNCHANGED <<PC, Registers>>
  BY <1>1 DEF PC, Registers
<1>6. CASE stage' = "decode"
  <2>1. Outcome' = "running"
    BY <1>6, OutcomeThen DEF Running
  <2> QED BY <1>1, <1>3, <1>5, <2>1, Stutters DEF MachineStep
<1>7. CASE stage' = "halted"
  <2>1. AtHalt
    BY <1>7, Zenon DEF Fetch, AtHalt
  <2>2. Outcome' = "halted" /\ Started'
    BY <1>7, OutcomeThen DEF Started
  <2>3. Settled' = Settled
    BY <1>1, <1>3, <2>2, StaysSettled
  <2>4. Machine!Halt
    BY <1>1, <1>3, <1>5, <2>1, <2>2, <2>3 DEF Machine!Halt, Settled
  <2> QED BY <2>4 DEF MachineStep, Machine!Next
<1>8. CASE stage' = "exception"
  <2>1. ~AtHalt /\ OutOfMemory(config.memorySize, getBytesToULong(pc), 4)
    BY <1>8, Zenon DEF Fetch, AtHalt
  <2>2. Outcome' = "exception" /\ Started'
    BY <1>1, <1>4, <1>8, OutcomeThen DEF Started
  <2>3. Settled' = Settled
    BY <1>1, <1>3, <2>2, StaysSettled
  <2>4. ~Machine!Inside(PC, 5)
    <3>1. PC = pc /\ pc \in Words /\ ConfigType(config)
      BY <1>1 DEF PC, DataInv, WordsInv, RunInv
    <3>2. Machine!Inside(PC, 5) <=> getBytesToULong(pc) + 5 <= config.memorySize
      BY <1>4, <3>1, InsideIsBelow
    <3>3. PICK size \in Nat : size = config.memorySize
      BY <3>1, SizeOfMemory
    <3>4. PICK address \in Nat : address = getBytesToULong(pc)
      BY <3>1, ULongOfWord, BoundIsNat
    <3>5. address + 4 >= size
      BY <2>1, <3>3, <3>4 DEF OutOfMemory
    <3> QED BY <3>2, <3>3, <3>4, <3>5
  <2>5. Machine!CurrentFaults \/ Machine!Erratum
    BY <2>4 DEF Machine!CurrentFaults, Machine!Erratum, Machine!LastWord
  <2>6. CASE Machine!CurrentFaults
    <3>1. Machine!Except
      BY <1>1, <1>3, <1>5, <2>1, <2>2, <2>3, <2>6, ExceptStep
    <3> QED BY <3>1 DEF MachineStep, Machine!Next
  <2>7. CASE Machine!Erratum
    <3>1. Machine!Deviate
      BY <1>3, <2>1, <2>2, <2>3, <2>7, DeviateStep
    <3> QED BY <3>1 DEF MachineStep
  <2> QED BY <2>5, <2>6, <2>7
<1> QED BY <1>1, <1>6, <1>7, <1>8

\* What a step that throws is: an exception of the machine, or a departure.
LEMMA ThrowStep ==
  ASSUME DataInv, PlaceInv, stage \in {"decode", "execute", "memoryAccess"},
         stage' \in {"exception", "terminated"}, UNCHANGED <<config, file, memory, pc, registers>>,
         NoErratum(fetched, FirstOperand, SecondOperand) =>
           Machine!Faults(fetched, FirstOperand, SecondOperand)
  PROVE  MachineStep
<1>1. Outcome = "running" /\ Started
  BY AtInstruction
<1>2. memory # <<>>
  BY MemoryIsThere DEF Loading
<1>3. Outcome' = "exception" /\ Started'
  BY <1>2, OutcomeThen DEF Started
<1>4. Settled' = Settled
  BY <1>1, <1>3, StaysSettled
<1>5. UNCHANGED <<Registers, memory>>
  BY DEF Registers
<1>6. CASE Machine!Faults(fetched, FirstOperand, SecondOperand)
  <2>1. Machine!CurrentFaults /\ ~Machine!HaltReached
    BY <1>6, CurrentErratum
  <2>2. Machine!Except
    BY <1>1, <1>3, <1>4, <1>5, <2>1, ExceptStep
  <2> QED BY <2>2 DEF MachineStep, Machine!Next
<1>7. CASE ~NoErratum(fetched, FirstOperand, SecondOperand)
  <2>1. Machine!Erratum /\ ~Machine!HaltReached
    BY <1>7, CurrentErratum
  <2>2. Machine!Deviate
    BY <1>1, <1>3, <1>4, <2>1, DeviateStep
  <2> QED BY <2>2 DEF MachineStep
<1> QED BY <1>6, <1>7

\* A stage that only hands the instruction on.
LEMMA HandedOn ==
  ASSUME stage \in Running \ {"writeback"}, stage' \in Running \ {"writeback"},
         UNCHANGED <<config, file, memory, pc, registers>>
  PROVE  MachineStep
<1>1. Outcome = "running" /\ Outcome' = "running"
  BY RunningOutcome, OutcomeThen
<1>2. UNCHANGED <<PC, Registers>>
  BY DEF PC, Registers
<1> QED BY <1>1, <1>2, Stutters DEF MachineStep

LEMMA DecodeStep ==
  ASSUME DataInv, PlaceInv, Decode
  PROVE  MachineStep
<1>1. /\ stage = "decode" /\ stage' \in {"exception", "execute"}
      /\ UNCHANGED <<config, file, memory, pc, registers>>
  BY DEF Decode
<1>2. CASE stage' = "execute"
  BY <1>1, <1>2, HandedOn DEF Running
<1>3. CASE stage' = "exception"
  <2>1. fetched[1] & 127 \notin DOMAIN Opcodes(config.extensionSet)
    BY <1>3 DEF Decode
  <2>2. fetched \in Words /\ fetched[1] & 127 = Field(fetched, 0, 6)
    BY <1>1, OpcodeMasked DEF DataInv, FetchedInv
  <2>3. Field(fetched, 0, 6) = Machine!Opcode(fetched)
    BY <2>2, FieldsRead
  <2>4. Machine!Opcode(fetched) \notin BaseOpcodes
        /\ ~(Machine!Opcode(fetched) = 127 /\ T_EXTENSION \in config.extensionSet)
    BY <2>1, <2>2, <2>3 DEF Opcodes
  <2>5. ~Machine!Legal(fetched)
    <3>1. CASE Machine!Opcode(fetched) = 127
      BY <2>4, <3>1, LegalCases
    <3>2. CASE Machine!Opcode(fetched) # 127
      BY <2>4, <3>2, LegalCases
    <3> QED BY <3>1, <3>2
  <2>6. Machine!Faults(fetched, FirstOperand, SecondOperand)
    BY <2>5, FaultCases
  <2> QED BY <1>1, <1>3, <2>6, ThrowStep
<1> QED BY <1>1, <1>2, <1>3

LEMMA ExecuteStep ==
  ASSUME DataInv, PlaceInv, Execute
  PROVE  MachineStep
<1>1. /\ stage = "execute" /\ UNCHANGED <<config, file, memory, pc, registers>>
      /\ effect' = execute(ins, config.memorySize)
      /\ stage' = CASE effect'.fault = "none" -> "memoryAccess"
                    [] effect'.fault = "pointer" -> "terminated"
                    [] OTHER -> "exception"
  BY DEF Execute
<1>2. CASE effect'.fault = "none"
  <2>1. stage' = "memoryAccess"
    BY <1>1, <1>2
  <2> QED BY <1>1, <2>1, HandedOn DEF Running
<1>3. CASE effect'.fault # "none"
  <2>1. stage' \in {"exception", "terminated"}
    BY <1>1, <1>3
  <2>2. Here /\ Means(ins, fetched, FirstOperand, SecondOperand)
    BY <1>1, AtInstruction, InstructionMeans
  <2>3. NoErratum(fetched, FirstOperand, SecondOperand) =>
          Agrees(ins, fetched, FirstOperand, SecondOperand, execute(ins, config.memorySize))
    BY <2>2, InstructionAgrees
  <2>4. NoErratum(fetched, FirstOperand, SecondOperand) =>
          Machine!Faults(fetched, FirstOperand, SecondOperand)
    BY <1>1, <1>3, <2>3 DEF Agrees
  <2> QED BY <1>1, <2>1, <2>4, ThrowStep
<1> QED BY <1>2, <1>3

\* The instruction takes effect.
LEMMA MemoryAccessStep ==
  ASSUME DataInv, PlaceInv, MemoryAccess
  PROVE  MachineStep
<1> DEFINE w == fetched
           a == FirstOperand
           b == SecondOperand
           e == execute(ins, config.memorySize)
<1>1. /\ stage = "memoryAccess" /\ UNCHANGED <<config, file, pc, registers, ins>>
      /\ stage' \in {"exception", "writeback"}
  BY DEF MemoryAccess
<1>2. Here /\ Means(ins, w, a, b) /\ Outcome = "running" /\ Started
  BY <1>1, AtInstruction, InstructionMeans
<1>3. effect = e /\ e.fault = "none"
  BY <1>1 DEF DataInv, DecodedInv
<1>4. NoErratum(w, a, b) => Agrees(ins, w, a, b, e)
  BY <1>2, InstructionAgrees
<1>5. CASE memFault(ins, effect.result, config.memorySize) # "none"
  <2>1. stage' = "exception" /\ memory' = memory
    BY <1>5 DEF MemoryAccess
  <2>2. NoErratum(w, a, b) => Machine!Faults(w, a, b)
    BY <1>3, <1>4, <1>5 DEF Agrees
  <2> QED BY <1>1, <2>1, <2>2, ThrowStep
<1>6. CASE memFault(ins, effect.result, config.memorySize) = "none"
  <2>1. /\ stage' = "writeback"
        /\ effect' = IF ins.opcode = 3 THEN [effect EXCEPT !.result = memLoad(ins, @, memory)]
                                       ELSE effect
        /\ memory' = IF ins.opcode = 35 THEN memStore(ins, effect.result, memory) ELSE memory
    BY <1>6 DEF MemoryAccess
  <2>2. Outcome' = "running" /\ Started'
    BY <2>1, OutcomeThen DEF Running, Started
  <2>3. Settled' = Settled
    BY <1>1, <1>2, <2>2, StaysSettled
  <2>4. ~Machine!HaltReached
    BY <1>1, CurrentErratum
  <2>5. CASE ~NoErratum(w, a, b)
    <3>1. Machine!Erratum
      BY <1>1, <2>5, CurrentErratum
    <3>2. Machine!Deviate
      BY <1>2, <2>2, <2>3, <2>4, <3>1, DeviateStep
    <3> QED BY <3>2 DEF MachineStep
  <2>6. CASE NoErratum(w, a, b)
    <3>1. SameEffect(ins, w, a, b, effect)
      BY <1>3, <1>4, <1>6, <2>6 DEF Agrees
    <3>2. ~Machine!CurrentFaults /\ Machine!Current = w /\ Machine!A = a /\ Machine!B = b
      BY <1>1, <3>1, CurrentErratum, CurrentIsFetched DEF SameEffect
    <3>3. effect'.result = ForRd(ins, effect) /\ effect'.next = effect.next
      <4>1. effect = [result |-> effect.result, next |-> effect.next, fault |-> effect.fault]
        BY DEF DataInv, WordsInv, Effect
      <4> QED BY <2>1, <4>1 DEF ForRd
    <3>4. ins.opcode = Machine!Opcode(w) /\ ins.rd = Machine!Rd(w)
      BY <1>2 DEF Means
    <3>5. PC' = Machine!NextPC(w, a, b)
      BY <2>1, <3>1, <3>3 DEF PC, SameEffect
    <3>6. Registers' = IF Machine!HasResult(w)
                         THEN [Registers EXCEPT ![Machine!Rd(w)] = Machine!Value(w, a, b)]
                         ELSE Registers
      <4>1. Registers' = Written' /\ Registers = registers
        BY <1>1, <2>1 DEF Registers
      <4>2. WritesBack(ins) /\ ins.rd # 0 <=> Machine!HasResult(w)
        BY <3>4 DEF WritesBack, Machine!HasResult
      <4>3. Written' = IF WritesBack(ins) /\ ins.rd # 0
                         THEN [registers EXCEPT ![ins.rd] = effect'.result] ELSE registers
        BY <1>1 DEF Written
      <4>4. Machine!HasResult(w) => effect'.result = Machine!Value(w, a, b)
        BY <3>1, <3>3 DEF SameEffect
      <4> QED BY <3>4, <4>1, <4>2, <4>3, <4>4
    <3>7. memory' = IF Machine!Opcode(w) = 35 THEN Machine!Stored(w, Machine!Pointer(w, a), b) ELSE memory
      BY <2>1, <3>1, <3>4 DEF SameEffect
    <3>8. Machine!Step
      BY <1>2, <2>2, <2>3, <2>4, <3>2, <3>5, <3>6, <3>7 DEF Machine!Step, Settled
    <3> QED BY <3>8 DEF MachineStep, Machine!Next
  <2> QED BY <2>5, <2>6
<1> QED BY <1>5, <1>6

LEMMA WritebackStep ==
  ASSUME DataInv, Writeback
  PROVE  MachineStep
<1>1. /\ stage = "writeback" /\ stage' = "fetch" /\ UNCHANGED <<config, file, memory>>
      /\ pc' = effect.next /\ registers' = Written
  BY DEF Writeback
<1>2. Outcome = "running" /\ Outcome' = "running"
  BY <1>1, RunningOutcome, OutcomeThen DEF Running
<1>3. UNCHANGED <<PC, Registers>>
  BY <1>1 DEF PC, Registers
<1> QED BY <1>1, <1>2, <1>3, Stutters DEF MachineStep

LEMMA OtherSteps ==
  ASSUME Command \/ UNCHANGED vars
  PROVE  MachineStep
<1>1. CASE Command
  BY <1>1, HandedOn DEF Command, Running
<1>2. CASE UNCHANGED vars
  <2>1. UNCHANGED <<config, file, memory, PC, Registers, Outcome>>
    BY <1>2 DEF vars, PC, Registers, Outcome, Written
  <2> QED BY <2>1, Stutters DEF MachineStep
<1> QED BY <1>1, <1>2

\* Whatever the program, the memory and the command line, the emulator does
\* what the manual says of every instruction to which no erratum applies: the
\* decoding, the byte arithmetic, the memory and the order of the stages
\* implement the machine (main.cpp, bytemanip.h, instructions/, hw/Memory.cpp).
THEOREM ManualIsImplemented == Spec => ImplementsManual
<1>1. Init => Machine!Init
  <2> SUFFICES ASSUME Init PROVE Machine!Init
    OBVIOUS
  <2>1. Outcome = "loading"
    BY OutcomeOf DEF OutcomeOfStage, Init
  <2> QED BY <2>1 DEF Machine!Init
<1>2. ManualInv /\ [Next]_vars => [Machine!Next \/ Machine!Deviate]_(Machine!machine)
  <2> SUFFICES ASSUME ManualInv, [Next]_vars
               PROVE  [Machine!Next \/ Machine!Deviate]_(Machine!machine)
    OBVIOUS
  <2>1. DataInv /\ PlaceInv
    BY DEF ManualInv
  <2>2. MachineStep
    BY <2>1, ParseArgStep, ParsedArgsStep, LoadStep, FetchStep, DecodeStep, ExecuteStep,
       MemoryAccessStep, WritebackStep, OtherSteps DEF Next
  <2> QED BY <2>2 DEF MachineStep
<1>3. Spec => []ManualInv
  BY PlaceIsKept
<1> QED BY <1>1, <1>2, <1>3, PTL DEF Spec, ImplementsManual, Machine!SpecWithErrata
=============================================================================
