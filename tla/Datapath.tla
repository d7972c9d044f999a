------------------------------ MODULE Datapath -------------------------------
(***************************************************************************)
(* One run of the emulator on one HART, byte by byte: the command line     *)
(* (main.cpp), the loaded binary (Processor::loadFile), and instruction    *)
(* after instruction the routines that Hart::tick calls for its stages.    *)
(* The stages of one instruction run one after the other here: how they    *)
(* overlap, and that it does not show, is the subject of module Hart.      *)
(***************************************************************************)
EXTENDS RV32IRoutines, Arguments

CONSTANTS Runs,            \* the runs: [argv, location, contents]
          MaxInstructions, \* a bound of the model on the length of a run
          Numbers,         \* what memA, memW and hID may be given
          UInt             \* the number of values of a uint, and of an int

\* A memory has fewer bytes than getBytesToULong and half of a ulong can count;
\* a number of HARTs is a ushort, and counted by half of a uint.
MemorySizes == {n \in 0 .. ULongBound : 2 * n < ULong}
ASSUME DatapathAssumption ==
  /\ MaxInstructions \in Nat \ {0} /\ Numbers \subseteq Int
  /\ UInt \in Nat /\ 2 * 2^16 <= UInt /\ UInt <= ULong
  /\ \A run \in Runs :
       /\ run.argv \in Seq(Argument) /\ run.contents \in Seq(Byte) /\ run.location # ""
       /\ \A i \in DOMAIN run.argv :
            "memory-size" \in run.argv[i].contains =>
              \A k \in DOMAIN run.argv[i].number : run.argv[i].number[k] \in MemorySizes

VARIABLES argv, file,       \* the command line, and the only file there is
          parsed,           \* arguments parseArgs has been through
          config, memory, pc, registers,
          stage,            \* what is done next, or how the run ended
          fetched,          \* fromFetch: the bytes of the instruction
          ins,              \* the decoded instruction
          effect,           \* what execute left of it
          executed,         \* instructions so far
          region,           \* memStartAddr, memSize and hartID of main.cpp
          shown             \* the bytes of memory on the screen

vars == <<argv, file, parsed, config, memory, pc, registers, stage, fetched, ins, effect,
          executed, region, shown>>

NoInstruction == [type |-> "none"]
NoEffect == Throws("none")
Ended == {"refused", "terminated", "exception", "halted"}

defaultMemoryWidth == IF config.memorySize > 128 THEN 128 ELSE config.memorySize

Init ==
  /\ \E run \in Runs :
       /\ argv = run.argv
       /\ file = [location |-> run.location, contents |-> run.contents]
  /\ parsed = 0 /\ config = Config /\ memory = <<>> /\ registers = <<>>
  /\ pc = Zeros(XLEN) /\ fetched = <<>> /\ ins = NoInstruction /\ effect = NoEffect
  /\ stage = "start" /\ executed = 0
  /\ region = [start |-> 0, count |-> 0, hart |-> 0] /\ shown = <<>>

\* One argument, unless one before it made parseArgs return.
ParseArg ==
  /\ stage = "start" /\ parsed < Len(argv) /\ ~config.returned
  /\ parsed' = parsed + 1
  /\ config' = Parse(config, argv[parsed'])
  /\ UNCHANGED <<argv, file, memory, pc, registers, stage, fetched, ins, effect, executed, region, shown>>

\* main: a command line that does not give all it needs, or that names a file
\* that is not there, ends the program.
ParsedArgs ==
  /\ stage = "start" /\ (parsed = Len(argv) \/ config.returned)
  /\ stage' = IF Usable(config) /\ config.fileLocation = file.location
                THEN "load" ELSE "refused"
  /\ UNCHANGED <<argv, file, parsed, config, memory, pc, registers, fetched, ins, effect, executed, region, shown>>

\* Processor::Processor, which main calls outside its try block.
Load ==
  /\ stage = "load"
  /\ IF LoadFails(file.contents, config.memorySize)
       THEN /\ stage' = "terminated"
            /\ UNCHANGED <<config, memory, registers, region>>
       ELSE /\ stage' = "fetch"
            /\ memory' = LoadedMemory(file.contents, config.memorySize)
            /\ registers' = [r \in 0 .. 31 |-> Zeros(XLEN)]
            /\ config' = [config EXCEPT !.haltAddr = IF @ = <<>> THEN @ ELSE Resize(@, XLEN)]
            /\ region' = [region EXCEPT !.count = defaultMemoryWidth]
  /\ UNCHANGED <<argv, file, parsed, pc, fetched, ins, effect, executed, shown>>

\* The HART compares the PC of what it fetched with the halt address even when
\* reading the word has thrown.
Fetch ==
  /\ stage = "fetch" /\ executed < MaxInstructions
  /\ LET addr == getBytesToULong(pc)
     IN  CASE config.haltAddr # <<>> /\ bytesGreaterOrequalToUnsigned(pc, config.haltAddr) ->
                stage' = "halted" /\ UNCHANGED fetched
           [] ~(config.haltAddr # <<>> /\ bytesGreaterOrequalToUnsigned(pc, config.haltAddr))
              /\ OutOfMemory(config.memorySize, addr, 4) ->
                stage' = "exception" /\ UNCHANGED fetched
           [] OTHER ->
                stage' = "decode" /\ fetched' = Read(memory, addr, 4)
  /\ UNCHANGED <<argv, file, parsed, config, memory, pc, registers, ins, effect, executed, region, shown>>

\* The instruction with its PC and the values of its sources.
WithOperands(decoded) ==
  [f \in DOMAIN decoded \cup {"pc", "rs1Val", "rs2Val"} |->
     CASE f = "pc"     -> pc
       [] f = "rs1Val" -> registers[decoded.rs1]
       [] f = "rs2Val" -> registers[decoded.rs2]
       [] OTHER        -> decoded[f]]

Decode ==
  /\ stage = "decode"
  /\ LET opcode == fetched[1] & 127
         routines == Opcodes(config.extensionSet)
     IN  IF opcode \notin DOMAIN routines
           THEN stage' = "exception" /\ UNCHANGED ins
           ELSE stage' = "execute" /\ ins' = WithOperands(decode(routines[opcode], fetched))
  /\ UNCHANGED <<argv, file, parsed, config, memory, pc, registers, fetched, effect, executed, region, shown>>

\* main catches an EmulatorException; one thrown as a pointer ends the process.
Execute ==
  /\ stage = "execute"
  /\ effect' = execute(ins, config.memorySize)
  /\ stage' = CASE effect'.fault = "none" -> "memoryAccess"
                [] effect'.fault = "pointer" -> "terminated"
                [] OTHER -> "exception"
  /\ UNCHANGED <<argv, file, parsed, config, memory, pc, registers, fetched, ins, executed, region, shown>>

MemoryAccess ==
  /\ stage = "memoryAccess"
  /\ IF memFault(ins, effect.result, config.memorySize) # "none"
       THEN stage' = "exception" /\ UNCHANGED <<memory, effect>>
       ELSE /\ stage' = "writeback"
            /\ effect' = IF ins.opcode = 3
                           THEN [effect EXCEPT !.result = memLoad(ins, @, memory)]
                           ELSE effect
            /\ memory' = IF ins.opcode = 35 THEN memStore(ins, effect.result, memory)
                                            ELSE memory
  /\ UNCHANGED <<argv, file, parsed, config, pc, registers, fetched, ins, executed, region, shown>>

\* RegisterFile::write, for the routines that have one.
Written ==
  IF WritesBack(ins) /\ ins.rd # 0 THEN [registers EXCEPT ![ins.rd] = effect.result]
                                   ELSE registers

Writeback ==
  /\ stage = "writeback"
  /\ registers' = Written
  /\ pc' = effect.next
  /\ executed' = executed + 1
  /\ stage' = "fetch"
  /\ UNCHANGED <<argv, file, parsed, config, memory, fetched, ins, effect, region, shown>>

\* renderUI: a HART that is not there (Processor::debug) is replaced by the
\* first, a region that is not in memory by the default one.
Corrected(asked) ==
  LET hart == IF asked.hart % UInt > config.numberOfHardwareThreads - 1 THEN 0 ELSE asked.hart
  IN  IF RegionRefused(config.memorySize, asked.start, asked.count)
        THEN [start |-> 0, count |-> defaultMemoryWidth, hart |-> hart]
        ELSE [asked EXCEPT !.hart = hart]

\* Mutant: the default region is shown, but the refused one stays set.
RenderKeepsRegion(asked) ==
  /\ region' = [asked EXCEPT !.hart = Corrected(asked).hart]
  /\ shown' = getRegion(memory, Corrected(asked).start, Corrected(asked).count)
Render(asked) ==
  /\ region' = Corrected(asked)
  /\ shown' = getRegion(memory, region'.start, region'.count)

\* The int that main.cpp keeps of the long that stol reads.
AsInt(n) == LET u == n % UInt IN IF 2 * u < UInt THEN u ELSE u - UInt

\* The commands memA, memW and hID, before the first instruction (--pause).
\* stol throws at what is no number, and nothing is set.
Command ==
  /\ stage = "fetch" /\ executed = 0 /\ config.pauseOnEntry
  /\ \/ Render(region)
     \/ \E n \in Numbers : \/ Render([region EXCEPT !.start = AsInt(n)])
                           \/ Render([region EXCEPT !.count = AsInt(n)])
                           \/ Render([region EXCEPT !.hart = AsInt(n)])
  /\ UNCHANGED <<argv, file, parsed, config, memory, pc, registers, stage, fetched, ins, effect, executed>>

Next ==
  \/ ParseArg \/ ParsedArgs \/ Load \/ Fetch \/ Decode \/ Execute \/ MemoryAccess \/ Writeback
  \/ Command

Spec == Init /\ [][Next]_vars

=============================================================================
