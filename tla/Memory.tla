------------------------------- MODULE Memory --------------------------------
(***************************************************************************)
(* The byte-addressed memory (hw/Memory.cpp) and the loader that fills it  *)
(* (Processor::loadFile).  A memory is a function from 0 .. size - 1 to    *)
(* bytes.  What an operation throws is the value "none" if nothing.        *)
(***************************************************************************)
EXTENDS Integers, Sequences

CONSTANT ULong  \* the number of values of a ulong

ASSUME MemoryAssumption == ULong \in Nat \ {0}

EOF == 255  \* what get() returns at the end of a file, as an unsigned char

EmptyMemory(size) == [a \in 0 .. size - 1 |-> 0]

\* An access of width bytes (1, 2, 4, 8 or 16) at addr throws.
OutOfMemory(size, addr, width) ==
  IF width = 1 THEN addr >= size ELSE addr + width >= size

Read(memory, addr, width) == [i \in 1 .. width |-> memory[addr + i - 1]]

Write(memory, addr, val) ==
  [a \in DOMAIN memory |-> IF a \in addr .. addr + Len(val) - 1
                             THEN val[a - addr + 1] ELSE memory[a]]

\* The bytes from start, count of them; start and count are signed numbers of
\* the interface, and become ulongs.
RegionRefused(size, start, count) ==
  \/ (start % ULong) > size
  \/ ((start % ULong) + (count % ULong)) % ULong > size

getRegion(memory, start, count) ==
  [i \in 1 .. (IF count > 0 THEN count ELSE 0) |-> memory[start + i - 1]]

\* loadFile reads until eof() holds, which is after the read that fails: one
\* byte more than the file has is written.
BytesRead(file) == Append(file, EOF)

\* writeByte throws at the first byte past the end; the test for a binary
\* larger than memory comes after that and is never met.
LoadFails(file, size) == Len(BytesRead(file)) > size

LoadedMemory(file, size) == Write(EmptyMemory(size), 0, BytesRead(file))

=============================================================================
