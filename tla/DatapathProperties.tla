-------------------------- MODULE DatapathProperties -------------------------
(***************************************************************************)
(* What makes the byte-level emulator correct, and the refinement mapping  *)
(* to the machine of the manual with its errata.                           *)
(***************************************************************************)
EXTENDS Datapath

IsBytes(val, size) == val \in Seq(Byte) /\ Len(val) = size

\* The type invariant: registers, PC and results have four bytes, every cell of
\* memory has one, and memory keeps the size it was given.
TypeOK ==
  /\ stage \in {"start", "load", "fetch", "decode", "execute", "memoryAccess",
                "writeback"} \cup Ended
  /\ IsBytes(pc, XLEN) /\ IsBytes(effect.result, XLEN) /\ IsBytes(effect.next, XLEN)
  /\ registers = <<>> \/ \A r \in 0 .. 31 : IsBytes(registers[r], XLEN)
  /\ memory = <<>> \/ memory \in [0 .. config.memorySize - 1 -> Byte]
  /\ ins = NoInstruction \/ ins.type \in Types
  /\ executed \in 0 .. MaxInstructions
  /\ \A i \in DOMAIN shown : shown[i] \in Byte

-----------------------------------------------------------------------------
(* The machine of the manual as a function of this one's state.  An        *)
(* instruction takes effect when its memory stage ends.                    *)

Registers == IF stage = "writeback" THEN Written ELSE registers
PC == IF stage = "writeback" THEN effect.next ELSE pc

Outcome ==
  CASE stage \in {"start", "load"} -> "loading"
    [] stage = "refused" \/ (stage = "terminated" /\ memory = <<>>) -> "refused"
    [] stage \in {"exception", "terminated"} /\ memory # <<>> -> "exception"
    [] stage = "halted" -> "halted"
    [] OTHER -> "running"

Started == Outcome \notin {"loading", "refused"}

\* The file, the byte that reading past its end gives, and zeros.
Image ==
  IF ~Started THEN <<>>
  ELSE [a \in 0 .. config.memorySize - 1 |->
          CASE a < Len(file.contents) -> file.contents[a + 1]
            [] a = Len(file.contents) -> 255
            [] OTHER -> 0]

Machine == INSTANCE Errata WITH
  image <- Image, haltAt <- IF Started THEN config.haltAddr ELSE <<>>,
  custom <- Started /\ T_EXTENSION \in config.extensionSet,
  pc <- PC, registers <- Registers, outcome <- Outcome

\* From the loaded file to the halt address or an exception, the decoding, the
\* byte arithmetic and the memory of the emulator do what the manual says of
\* every instruction, unless one of the listed errata applies to it
\* (bytemanip.h, instructions/*Type.cpp, sets/RV32I.cpp, hw/Memory.cpp).
ImplementsManual == Machine!SpecWithErrata

\* The list has no false entry: whenever an erratum applies, what the emulator
\* does is not what the manual says (the lines each erratum names).
ErrataReal == Machine!Real

-----------------------------------------------------------------------------

SignExtended(imm) == copyWithSignExtend(imm, XLEN)

\* Decoding finds every field and every bit of the immediate, whose positions
\* are scattered over the word and sliced by getContrainedBits across byte
\* boundaries; of the offset of a store all but the sign
\* (instructions/*Type.cpp decode).
DecodesWord ==
  stage = "execute" =>
    LET w == fetched
    IN  /\ ins.opcode = Machine!Opcode(w)
        /\ ins.type \notin {"S", "B"} => ins.rd = Machine!Rd(w)
        /\ ins.type \notin {"U", "J"} => ins.func3 = Machine!Func3(w) /\ ins.rs1 = Machine!Rs1(w)
        /\ ins.type \in {"R", "S", "B"} => ins.rs2 = Machine!Rs2(w)
        /\ ins.type = "R" => ins.func7 = Machine!Func7(w)
        /\ CASE ins.type = "I" -> SignExtended(ins.imm) = Machine!ImmI(w)
             [] ins.type = "S" -> SignExtended(ins.imm) = Machine!StoreOffset(w)
             [] ins.type = "B" -> SignExtended(ins.imm) = Machine!ImmB(w)
             [] ins.type = "U" -> ins.imm = Machine!ImmU(w)
             [] ins.type = "J" -> SignExtended(ins.imm) = Machine!ImmJ(w)
             [] OTHER -> TRUE

\* Taking an instruction apart with getImm and building it again gives the
\* same immediate, except that the constructor of stores never extends the sign
\* and the one of LUI and AUIPC extends it into the value
\* (instructions/*Type.cpp getImm and constructors).
ConstructorsAgree ==
  stage = "execute" =>
    LET bits == Machine!Bits(fetched)
    IN  Rebuilt(ins) # ins.imm <=>
          \/ ins.type = "S" /\ \E i \in {26, 27, 29, 30} : bits[i] = 1
          \/ ins.type = "U" /\ bits[31] = 1 /\ \E i \in 12 .. 15 : bits[i] = 0

-----------------------------------------------------------------------------

\* The argument says something of its option: parseArgs passes over the others.
Says(arg) ==
  CASE arg.option = "base-isa"   -> arg.text = "RV32I"
    [] arg.option = "extensions" -> arg.text = "T"
    [] arg.option \in {"memory-size", "hardware-threads", "halt"} -> arg.text # ""
    [] OTHER -> TRUE

\* The places of the arguments that give the option, and the last of them.
Given(option) == {i \in DOMAIN argv : argv[i].option = option /\ Says(argv[i])}
LastGiven(option) == argv[CHOOSE i \in Given(option) : \A j \in Given(option) : j <= i]

\* The argument contains no keyword that parseArgs looks for before its own.
ReadAsMeant(arg) ==
  \E k \in DOMAIN Keywords :
    /\ Keywords[k] = arg.option /\ arg.option \in arg.contains
    /\ \A j \in 1 .. k - 1 : Keywords[j] \notin arg.contains

NumberGiven(option) ==
  IF Given(option) = {} THEN 0 ELSE LastGiven(option).number[1]

Malformed(arg) ==
  \/ arg.option = "help"
  \/ /\ Says(arg)
     /\ \/ arg.option \in {"memory-size", "hardware-threads"} /\ arg.number = <<>>
        \/ arg.option = "halt" /\ (Len(arg.digits) % 2 # 0 \/ Len(arg.digits) > 16)

\* All arguments are read as meant.
Meant == \A i \in DOMAIN argv : ReadAsMeant(argv[i])

\* The emulator starts exactly with what it was asked for: for each option the
\* last argument counts, in any order, whatever the path of the binary
\* contains that comes later in the list of keywords; it does not start with a
\* malformed argument (of a halt address only the length
\* counts), without a needed one, or with a file that does not
\* leave a byte of memory free (parseArgs, main, Processor::loadFile).
StartsAsAsked ==
  (stage \notin {"start", "load"} /\ Meant) =>
    IF Outcome = "refused"
      THEN \/ \E i \in DOMAIN argv : Malformed(argv[i])
           \/ \E option \in {"base-isa", "memory-size", "hardware-threads", "binary"} :
                Given(option) = {}
           \/ LastGiven("binary").text # file.location
           \/ Len(file.contents) >= NumberGiven("memory-size")
           \/ NumberGiven("hardware-threads") % 2^16 = 0
      ELSE /\ \A i \in DOMAIN argv : ~Malformed(argv[i])
           /\ config.memorySize = NumberGiven("memory-size")
           /\ config.numberOfHardwareThreads = NumberGiven("hardware-threads") % 2^16
           /\ config.pauseOnEntry <=> Given("pause") # {}
           /\ T_EXTENSION \in config.extensionSet <=> Given("extensions") # {}
           /\ Len(file.contents) < config.memorySize

\* The emulator halts only if it was asked to, and at the last address given:
\* one of at most four hexadecimal digits is read pair by pair, the lowest byte
\* first; of a longer one only the first byte is sure to be (parseArgs).
HaltAddressRead ==
  (Started /\ Meant) =>
    LET digits == LastGiven("halt").digits
        Pair(k) == IF 2 * k <= Len(digits) THEN 16 * digits[2 * k - 1] + digits[2 * k] ELSE 0
    IN  /\ config.haltAddr = <<>> <=> Given("halt") = {}
        /\ config.haltAddr # <<>> /\ (\A i \in DOMAIN digits : digits[i] # NoDigit) =>
             /\ config.haltAddr[1] = Pair(1)
             /\ Len(digits) <= 4 => \A k \in 1 .. XLEN : config.haltAddr[k] = Pair(k)

\* The region lies in memory, or a negative width leads back into it.
Exists(asked) ==
  /\ asked.start \in 0 .. config.memorySize
  /\ asked.start + asked.count \in 0 .. config.memorySize

\* A number that does not fit an int stands for the one that does and differs
\* from it by a multiple of 2^32.
Truncated(n) == n - UInt * ((2 * n + UInt) \div (2 * UInt))

\* What one input may ask for: what is shown already, or a number of it changed.
Asks == {region} \cup {[region EXCEPT ![field] = Truncated(n)] :
                        n \in Numbers, field \in {"start", "count", "hart"}}

\* The interface shows the HART and the bytes that are asked for, or the first
\* HART and the start of memory if they do not exist, although the ints of
\* main.cpp become unsigned numbers of two widths whose sums wrap around; it
\* never reads outside memory.  A number that fits an int is taken as it is,
\* another one truncated; what is no number changes nothing.  A negative width
\* that leads back into memory shows nothing (parseInputContent, renderUI,
\* Memory::getRegion, Processor::debug).
RegionShown ==
  [][ stage = "fetch" /\ stage' = "fetch" =>
        \E asked \in Asks :
          LET r == IF Exists(asked) THEN asked
                   ELSE [asked EXCEPT !.start = 0, !.count = defaultMemoryWidth]
          IN  /\ region' = [r EXCEPT !.hart = IF @ \in 0 .. config.numberOfHardwareThreads - 1
                                               THEN @ ELSE 0]
              /\ Len(shown') = IF r.count < 0 THEN 0 ELSE r.count
              /\ \A i \in DOMAIN shown' : shown'[i] = memory[r.start + i - 1] ]_vars

=============================================================================
