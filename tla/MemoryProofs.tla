---------------------------- MODULE MemoryProofs -----------------------------
(***************************************************************************)
(* The memory for every size and every content: an access that is not      *)
(* refused stays inside memory and comes back, a region that is shown lies *)
(* in memory, and the loader leaves the binary in it.                      *)
(***************************************************************************)
EXTENDS Memory, SequenceTheorems, TLAPS

Cell == 0 .. 255  \* the values of a byte

LEMMA ZeroAndEOF == 0 \in Cell /\ EOF \in Cell
BY DEF Cell, EOF

Memories(size) == [0 .. size - 1 -> Cell]
Widths == {1, 2, 4, 8, 16}

-----------------------------------------------------------------------------

\* An access that is not refused ends inside memory, whatever its width; of a
\* width over one even before the last byte (the read and write methods of
\* Memory.cpp).
THEOREM AccessInMemory ==
  ASSUME NEW size \in Nat, NEW addr \in Nat, NEW width \in Widths,
         ~OutOfMemory(size, addr, width)
  PROVE  /\ addr .. addr + width - 1 \subseteq 0 .. size - 1
         /\ width > 1 => addr + width - 1 < size - 1
BY DEF OutOfMemory, Widths

LEMMA WriteType ==
  ASSUME NEW size \in Nat, NEW memory \in Memories(size),
         NEW addr \in Nat, NEW val \in Seq(Cell)
  PROVE  Write(memory, addr, val) \in Memories(size)
<1>1. DOMAIN memory = 0 .. size - 1 /\ Len(val) \in Nat
  BY LenProperties DEF Memories
<1>2. ASSUME NEW a \in 0 .. size - 1, a \in addr .. addr + Len(val) - 1
      PROVE  val[a - addr + 1] \in Cell
  <2>1. a - addr + 1 \in 1 .. Len(val)
    BY <1>1, <1>2
  <2> QED
    BY <2>1, ElementOfSeq
<1>3. ASSUME NEW a \in 0 .. size - 1
      PROVE  memory[a] \in Cell
  BY DEF Memories
<1> QED
  BY <1>1, <1>2, <1>3 DEF Write, Memories

\* What is written at an address is read there until it is written again, byte
\* for byte in the order of the vector, and no other byte of memory changes:
\* bytes, half words and words see the same memory (the read and write methods
\* of Memory.cpp).
THEOREM WrittenIsRead ==
  ASSUME NEW size \in Nat, NEW memory \in Memories(size),
         NEW addr \in Nat, NEW val \in Seq(Cell), Len(val) \in Widths,
         ~OutOfMemory(size, addr, Len(val))
  PROVE  /\ Write(memory, addr, val) \in Memories(size)
         /\ Read(Write(memory, addr, val), addr, Len(val)) = val
         /\ \A a \in 0 .. size - 1 :
              a \notin addr .. addr + Len(val) - 1 => Write(memory, addr, val)[a] = memory[a]
<1> DEFINE written == Write(memory, addr, val)
<1>1. DOMAIN memory = 0 .. size - 1 /\ Len(val) \in Nat /\ DOMAIN val = 1 .. Len(val)
  BY LenProperties DEF Memories
<1>2. ASSUME NEW i \in 1 .. Len(val)
      PROVE  written[addr + i - 1] = val[i]
  <2>1. addr + i - 1 \in addr .. addr + Len(val) - 1
    BY <1>1
  <2>2. addr + i - 1 \in DOMAIN memory
    BY <1>1, <2>1, AccessInMemory
  <2>3. (addr + i - 1) - addr + 1 = i
    BY <1>1
  <2> QED
    BY <2>1, <2>2, <2>3 DEF Write
<1>3. ASSUME NEW a \in 0 .. size - 1, a \notin addr .. addr + Len(val) - 1
      PROVE  written[a] = memory[a]
  BY <1>1, <1>3 DEF Write
<1>4. Read(written, addr, Len(val)) = val
  <2>1. Read(written, addr, Len(val)) = [i \in 1 .. Len(val) |-> val[i]]
    BY <1>2 DEF Read
  <2>2. val = [i \in 1 .. Len(val) |-> val[i]]
    BY <1>1
  <2> QED
    BY <2>1, <2>2
<1> QED
  BY <1>3, <1>4, WriteType

-----------------------------------------------------------------------------

\* A binary that loads leaves room for one byte at least; its bytes stand from
\* address 0 on in their order, then the byte that is written when the end of
\* the file has been passed, then zeros (Processor::loadFile).
THEOREM BinaryIsLoaded ==
  ASSUME NEW size \in Nat, NEW file \in Seq(Cell), ~LoadFails(file, size)
  PROVE  /\ LoadedMemory(file, size) \in Memories(size)
         /\ Len(file) < size
         /\ \A a \in 0 .. Len(file) - 1 : LoadedMemory(file, size)[a] = file[a + 1]
         /\ LoadedMemory(file, size)[Len(file)] = EOF
         /\ \A a \in Len(file) + 1 .. size - 1 : LoadedMemory(file, size)[a] = 0
<1> DEFINE bytes == BytesRead(file)
<1>1. /\ Len(file) \in Nat /\ bytes \in Seq(Cell) /\ Len(bytes) = Len(file) + 1
      /\ \A i \in 1 .. Len(file) : bytes[i] = file[i]
      /\ bytes[Len(file) + 1] = EOF
  BY ZeroAndEOF, LenProperties, AppendProperties DEF BytesRead
<1>2. EmptyMemory(size) \in Memories(size) /\ DOMAIN EmptyMemory(size) = 0 .. size - 1
  BY ZeroAndEOF DEF EmptyMemory, Memories
<1>3. Len(bytes) <= size
  BY <1>1 DEF LoadFails
<1>4. ASSUME NEW a \in 0 .. size - 1
      PROVE  /\ a <= Len(file) => LoadedMemory(file, size)[a] = bytes[a + 1]
             /\ a > Len(file)  => LoadedMemory(file, size)[a] = 0
  <2>1. a \in 0 .. 0 + Len(bytes) - 1 <=> a <= Len(file)
    BY <1>1
  <2>2. a - 0 + 1 = a + 1
    OBVIOUS
  <2>3. EmptyMemory(size)[a] = 0
    BY DEF EmptyMemory
  <2> HIDE DEF bytes
  <2>4. LoadedMemory(file, size)[a] =
          IF a \in 0 .. 0 + Len(bytes) - 1 THEN bytes[a - 0 + 1] ELSE EmptyMemory(size)[a]
    BY <1>2 DEF LoadedMemory, Write, bytes
  <2> QED
    BY <1>1, <2>1, <2>2, <2>3, <2>4
<1>5. LoadedMemory(file, size) \in Memories(size)
  BY <1>1, <1>2, WriteType DEF LoadedMemory
<1> HIDE DEF bytes
<1>6. ASSUME NEW a \in 0 .. Len(file) - 1
      PROVE  LoadedMemory(file, size)[a] = file[a + 1]
  <2>1. a \in 0 .. size - 1 /\ a <= Len(file) /\ a + 1 \in 1 .. Len(file)
    BY <1>1, <1>3
  <2> QED
    BY <1>1, <1>4, <2>1
<1>7. LoadedMemory(file, size)[Len(file)] = EOF
  <2>1. Len(file) \in 0 .. size - 1 /\ Len(file) <= Len(file)
    BY <1>1, <1>3
  <2> QED
    BY <1>1, <1>4, <2>1
<1>8. ASSUME NEW a \in Len(file) + 1 .. size - 1
      PROVE  LoadedMemory(file, size)[a] = 0
  <2>1. a \in 0 .. size - 1 /\ a > Len(file)
    BY <1>1
  <2> QED
    BY <1>4, <2>1
<1>9. Len(file) < size
  BY <1>1, <1>3
<1> QED
  BY <1>5, <1>6, <1>7, <1>8, <1>9

-----------------------------------------------------------------------------

\* A region whose two numbers are no negative ones, and whose sum fits a ulong,
\* is shown only if it lies in memory: every byte shown is a byte of memory
\* (Memory::getRegion).
THEOREM RegionInMemory ==
  ASSUME NEW size \in Nat, NEW memory \in Memories(size),
         NEW start \in Nat, NEW count \in Nat, start + count < ULong,
         ~RegionRefused(size, start, count)
  PROVE  /\ start + count <= size
         /\ getRegion(memory, start, count) \in Seq(Cell)
<1>1. ULong \in Nat /\ start < ULong /\ count < ULong /\ start + count \in Nat
  BY MemoryAssumption
<1>2. ASSUME NEW n \in Nat, n < ULong
      PROVE  n % ULong = n
  BY <1>1, <1>2
<1>3. start % ULong = start /\ count % ULong = count /\ (start + count) % ULong = start + count
  BY <1>1, <1>2
<1>4. start + count <= size
  BY <1>1, <1>3 DEF RegionRefused
<1>5. ASSUME NEW i \in 1 .. count
      PROVE  memory[start + i - 1] \in Cell
  <2>1. start + i - 1 \in 0 .. size - 1
    BY <1>4
  <2> QED
    BY <2>1 DEF Memories
<1>6. getRegion(memory, start, count) = [i \in 1 .. count |-> memory[start + i - 1]]
  BY DEF getRegion
<1>7. getRegion(memory, start, count) \in [1 .. count -> Cell]
  BY <1>5, <1>6
<1> QED
  BY <1>4, <1>7

=============================================================================
