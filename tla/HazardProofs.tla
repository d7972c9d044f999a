---------------------------- MODULE HazardProofs ----------------------------
(***************************************************************************)
(* The proof that every operand is up to date when it is read              *)
(* (OperandsUpToDate of HartProperties), for every program, memory size,   *)
(* register width and interleaving of the stage threads.                   *)
(***************************************************************************)
EXTENDS HartProofs

\* What the proof asks of the constants beyond their types: an rd that no
\* constructor initialised names no register, and a word that is decoded and
\* executed without any effect names none either.
PlainDestinations ==
  /\ GarbageRD \cap Reg \subseteq {0}
  /\ \A p \in Programs : \A a \in Address : p[a].op \in Silent => p[a].rd = 0

-----------------------------------------------------------------------------
(* The inductive invariant: the places of the hazard queue and the latches *)
(* tell the same story.                                                    *)

Written == Reg \ {0}

\* The entry of the instruction in the latch before a stage: the next bump
\* moves it to the stage's own place.
EntryOf(s) == hazardQueue[IF phase = "tick" THEN s ELSE s + 1]

Done(s) == phase = "tick" /\ thread[s] = "done"

\* The entry has a register as its destination exactly when the instruction has.
Names(entry, ins) ==
  \A r \in Written : entry.rd = r <=> WritesBack(ins) /\ ins.rd = r

SilentOK(word) == word.op \in Silent => word.rd = 0

\* A latch that nothing has reached yet has nothing behind it.
FillOrder ==
  /\ fromFetch = NoWord => /\ toDecode \in {NoWord, NopWord}
                           /\ ~stall /\ ~stallNextTick
  /\ Done("fetch") /\ ~stall /\ ~shouldFlush => fromFetch # NoWord
  /\ toDecode = NoWord => ~stallNextTick /\ fromDecode.op = "empty"
  /\ fromDecode.op = "empty" => toExecute.op = "empty"
  /\ toExecute.op = "empty" => fromExecute.op = "empty"
  /\ fromExecute.op = "empty" => toMem.op = "empty"
  /\ toMem.op = "empty" => fromMem.op = "empty"

\* Neither the program nor what is fetched of it has a plain word that names a
\* register.
SilentInv ==
  /\ \A a \in Address : SilentOK(program[a])
  /\ SilentOK(fromFetch) /\ SilentOK(toDecode)

\* A stage thread runs within a tick, and on an instruction.
ThreadsInv ==
  /\ \A s \in Stages : thread[s] # "done" => phase = "tick"
  /\ thread["decode"] # "done" => toDecode # NoWord
  /\ thread["execute"] # "done" => toExecute.op # "empty"
  /\ thread["memoryAccess"] # "done" => toMem.op # "empty"

\* The places that name a register are within the queue's used size.
SizeInv ==
  /\ phase = "tick" => usedQueueSize >= 1
  /\ \A s \in 0 .. 3 : hazardQueue[s].rd \in Written => usedQueueSize >= 4 - s

DecodeInv ==
  /\ phase = "tick" => hazardQueue[3].RDVal = NoVal
  /\ Done("decode") => Names(hazardQueue[3], fromDecode)

\* A failed prediction leaves in fromExecute what is in the next latch.
ExecuteInv ==
  /\ Names(EntryOf(2), toExecute)
  /\ toExecute.op \in Loads => EntryOf(2).RDVal = NoVal
  /\ phase = "tick" /\ failedPrediction =>
       thread["execute"] = "done" /\ toExecute.op \in Control /\ toExecute.rd = 0
  /\ IF Done("execute") /\ ~failedPrediction /\ toExecute.op # "empty"
       THEN /\ fromExecute.op = toExecute.op /\ fromExecute.rd = toExecute.rd
            /\ WritesBack(toExecute) /\ toExecute.op \notin Loads =>
                 EntryOf(2).RDVal = fromExecute.result
       ELSE fromExecute = toMem

\* The entry names the destination, or the instruction is in the memory stage
\* for the second time, after a failed prediction.
MemoryInv ==
  /\ \A r \in Written : EntryOf(1).rd = r =>
       /\ WritesBack(toMem) /\ toMem.rd = r
       /\ toMem.op \notin Loads => EntryOf(1).RDVal = toMem.result
       /\ toMem.op \in Loads =>
            \/ EntryOf(1).RDVal = NoVal /\ ~Done("memoryAccess")
            \/ MemoryFault(toMem) = "none" /\ EntryOf(1).RDVal = memory[toMem.result]
  /\ WritesBack(toMem) /\ toMem.rd \in Written =>
       \/ EntryOf(1).rd = toMem.rd
       \/ /\ WritesBack(toWB) /\ toWB.rd = toMem.rd
          /\ toWB.result = FinalResult(toMem) /\ MemoryFault(toMem) = "none"
  /\ Done("memoryAccess") /\ toMem.op # "empty" =>
       /\ fromMem.op = toMem.op /\ fromMem.rd = toMem.rd
       /\ fromMem.result = FinalResult(toMem) /\ MemoryFault(toMem) = "none"

\* The entry names the destination, or the register has the value already.
WritebackInv ==
  /\ \A r \in Written : EntryOf(0).rd = r =>
       WritesBack(toWB) /\ toWB.rd = r /\ EntryOf(0).RDVal = toWB.result
  /\ WritesBack(toWB) /\ toWB.rd \in Written =>
       /\ EntryOf(0).rd = toWB.rd \/ registerFile[toWB.rd] = toWB.result
       /\ Done("writeback") => registerFile[toWB.rd] = toWB.result

\* What the decode stage has found not stale stays so until it is read.
CheckedInv ==
  thread["decode"] = "read" =>
    /\ toDecode.op \in Defined
    /\ \A reg \in Sources(toDecode) : ~pipelineController!Stale(reg)

StageInv ==
  /\ FillOrder /\ SilentInv /\ ThreadsInv /\ SizeInv
  /\ DecodeInv /\ ExecuteInv /\ MemoryInv /\ WritebackInv /\ CheckedInv

\* Once a stage has thrown or a link is lost, nothing is claimed.
HazardInv == clean => StageInv

-----------------------------------------------------------------------------
(* The hazard controller's places, and what follows from the types. *)

LEMMA Places ==
  /\ pipelineController!STAGE_DECODE = 3 /\ pipelineController!STAGE_EXECUTE = 2
  /\ pipelineController!STAGE_MEM = 1 /\ pipelineController!STAGE_WB = 0
  /\ pipelineController!NUM_STAGES = 4 /\ pipelineController!Stage = 0 .. 3
BY DEF pipelineController!STAGE_DECODE, pipelineController!STAGE_EXECUTE,
       pipelineController!STAGE_MEM, pipelineController!STAGE_WB,
       pipelineController!NUM_STAGES, pipelineController!Stage

\* The types the steps below need, by themselves.
LEMMA HazardTypes ==
  ASSUME TypeInv
  PROVE  /\ hazardQueue \in [0 .. 3 -> [rd : Nat, RDVal : Value \cup {NoVal}]]
         /\ usedQueueSize \in 0 .. 4 /\ registerFile \in [Reg -> Value]
         /\ thread \in [Stages -> {"done", "run", "read"}]
         /\ memory \in [DataAddress -> Value]
         /\ {fromDecode, fromExecute, fromMem, toExecute, toMem, toWB} \subseteq Instruction
         /\ fromFetch \in Word \cup {NoWord} /\ toDecode \in Word \cup {NoWord}
BY Places DEF TypeInv, HazardOK, pipelineController!HazardTypeOK, pipelineController!Entry,
       TickTypeOK, ProgramTypeOK, LatchOK, LatchTypeOK

LEMMA StagesOK ==
  /\ "fetch" \in Stages /\ "decode" \in Stages /\ "execute" \in Stages
  /\ "memoryAccess" \in Stages /\ "writeback" \in Stages
BY DEF Stages

LEMMA EmptyWritesNothing == ASSUME NEW ins, ins.op \in {"empty", "nop"} PROVE ~WritesBack(ins)
BY DEF WritesBack, Bitops, Loads, Jumps

\* A register is looked up by the place that names it.
LEMMA WritesMeansNames ==
  ASSUME TypeInv, SizeInv, NEW s \in 0 .. 3, NEW r \in Written
  PROVE  pipelineController!Writes(s, r) <=> hazardQueue[s].rd = r
BY HazardTypes, Places DEF SizeInv, pipelineController!Writes

-----------------------------------------------------------------------------

LEMMA HazardInit == PlainDestinations /\ Init => HazardInv
<1> SUFFICES ASSUME PlainDestinations, Init PROVE StageInv
  BY DEF HazardInv
<1>1. TypeInv
  BY InitType
<1>2. hazardQueue = [s \in 0 .. 3 |-> [rd |-> 0, RDVal |-> NoVal]]
  BY Places DEF Init, pipelineController!HazardInit
<1>3. phase = "idle" /\ thread = [s \in Stages |-> "done"]
  BY DEF Init
<1>4. /\ fromFetch = NoWord /\ toDecode = NoWord /\ fromDecode = Default
      /\ fromExecute = Default /\ fromMem = Default
      /\ toExecute = Default /\ toMem = Default /\ toWB = Default
      /\ stall = FALSE /\ stallNextTick = FALSE /\ failedPrediction = FALSE
  BY DEF Init
<1>5. Default.op = "empty" /\ ~WritesBack(Default) /\ NoWord.op = "empty" /\ SilentOK(NoWord)
  BY EmptyWritesNothing DEF Default, NoWord, NopWord, SilentOK, Silent
<1>6. FillOrder /\ ThreadsInv
  BY <1>3, <1>4, <1>5, StagesOK DEF FillOrder, ThreadsInv, Done
<1>7. SizeInv
  BY <1>2, <1>3 DEF SizeInv, Written
<1>8. DecodeInv /\ ExecuteInv
  BY <1>2, <1>3, <1>4, <1>5 DEF DecodeInv, ExecuteInv, Done, EntryOf, Names, Written, Loads
<1>9. MemoryInv /\ WritebackInv
  BY <1>2, <1>3, <1>4, <1>5 DEF MemoryInv, WritebackInv, Done, EntryOf, Written
<1>10. CheckedInv
  BY <1>3, StagesOK DEF CheckedInv
<1>11. SilentInv
  BY <1>4, <1>5 DEF SilentInv, SilentOK, PlainDestinations, Init
<1> QED BY <1>6, <1>7, <1>8, <1>9, <1>10, <1>11 DEF StageInv

\* The property follows.
LEMMA OperandsFollow == TypeInv /\ HazardInv => OperandsUpToDate
<1> SUFFICES ASSUME TypeInv, StageInv, thread["decode"] = "read",
                    NEW reg \in Sources(toDecode) \ {0}
             PROVE  /\ ~(WritesBack(toExecute) /\ toExecute.rd = reg)
                    /\ pipelineController!FetchRegisterValue(reg) = Registers[reg]
  BY DEF HazardInv, OperandsUpToDate
<1>1. reg \in Written
  <2>1. toDecode.rs1 \in Reg /\ toDecode.rs2 \in Reg
    BY HazardTypes, ConstantsOK DEF Word, NoWord, NopWord
  <2> QED BY <2>1 DEF Written, Sources
<1>2. phase = "tick" /\ \A s \in 0 .. 3 : EntryOf(s) = hazardQueue[s]
  BY StagesOK DEF StageInv, ThreadsInv, EntryOf
<1>3. \A s \in 0 .. 3 : pipelineController!Writes(s, reg) <=> hazardQueue[s].rd = reg
  BY <1>1, WritesMeansNames DEF StageInv
<1>4. /\ hazardQueue[2].rd # reg
      /\ hazardQueue[1].rd = reg => hazardQueue[1].RDVal # NoVal
  BY <1>3, Places DEF StageInv, CheckedInv, pipelineController!Stale
<1>5. ~(WritesBack(toExecute) /\ toExecute.rd = reg)
  BY <1>1, <1>2, <1>4 DEF StageInv, ExecuteInv, Names
<1>6. pipelineController!FetchRegisterValue(reg) =
        IF hazardQueue[1].rd = reg THEN hazardQueue[1].RDVal
        ELSE IF hazardQueue[0].rd = reg THEN hazardQueue[0].RDVal
        ELSE registerFile[reg]
  BY <1>3, <1>4, Places DEF pipelineController!FetchRegisterValue
<1>7. Registers[reg] =
        IF MemoryFault(toMem) = "none" /\ WritesBack(toMem) /\ toMem.rd = reg
          THEN FinalResult(toMem)
        ELSE IF WritesBack(toWB) /\ toWB.rd = reg THEN toWB.result
        ELSE registerFile[reg]
  BY <1>1 DEF Registers, Commit, Written
<1>8. CASE hazardQueue[1].rd = reg
  <2>1. WritesBack(toMem) /\ toMem.rd = reg
    BY <1>1, <1>2, <1>8 DEF StageInv, MemoryInv
  <2>2. MemoryFault(toMem) = "none" /\ hazardQueue[1].RDVal = FinalResult(toMem)
    <3>1. CASE toMem.op \in Loads
      BY <1>1, <1>2, <1>4, <1>8, <3>1 DEF StageInv, MemoryInv, FinalResult
    <3>2. CASE toMem.op \notin Loads
      <4>1. toMem.op \notin Stores
        BY <2>1 DEF WritesBack, Bitops, Loads, Jumps, Stores
      <4> QED BY <1>1, <1>2, <1>8, <3>2, <4>1
              DEF StageInv, MemoryInv, FinalResult, MemoryFault
    <3> QED BY <3>1, <3>2
  <2> QED BY <1>5, <1>6, <1>7, <1>8, <2>1, <2>2
<1>9. CASE hazardQueue[1].rd # reg
  <2>1. WritesBack(toMem) /\ toMem.rd = reg =>
          /\ WritesBack(toWB) /\ toWB.rd = reg
          /\ toWB.result = FinalResult(toMem)
    BY <1>1, <1>2, <1>9 DEF StageInv, MemoryInv
  <2>2. hazardQueue[0].rd = reg =>
          WritesBack(toWB) /\ toWB.rd = reg /\ hazardQueue[0].RDVal = toWB.result
    BY <1>1, <1>2 DEF StageInv, WritebackInv
  <2>3. WritesBack(toWB) /\ toWB.rd = reg /\ hazardQueue[0].rd # reg =>
          registerFile[reg] = toWB.result
    BY <1>1, <1>2 DEF StageInv, WritebackInv
  <2> QED BY <1>5, <1>6, <1>7, <1>9, <2>1, <2>2, <2>3
<1> QED BY <1>8, <1>9

-----------------------------------------------------------------------------
(* Every step.  A step that throws makes clean false. *)

LEMMA ThrowsUnclean ==
  FetchRethrow \/ DecodeUndefined \/ DecodeHazard \/ ExecuteThrow \/ MemoryThrow => ~clean'
BY DEF FetchRethrow, DecodeUndefined, DecodeHazard, ExecuteThrow, MemoryThrow, Throw

LEMMA FlushKeeps == ASSUME StageInv, Flush PROVE StageInv'
<1>1. phase = "idle" /\ phase' = phase
  BY DEF Flush
<1>2. /\ UNCHANGED hazardVars /\ UNCHANGED latchVars /\ UNCHANGED resultVars
      /\ UNCHANGED tickVars /\ UNCHANGED <<program, stall, memory>>
  BY DEF Flush
<1>3. FillOrder' /\ SilentInv'
  BY <1>1, <1>2 DEF StageInv, FillOrder, SilentInv, Done, SilentOK,
                    latchVars, resultVars, tickVars
<1>4. ThreadsInv' /\ SizeInv' /\ DecodeInv'
  BY <1>1, <1>2 DEF StageInv, ThreadsInv, SizeInv, DecodeInv, Done, Names,
                    hazardVars, latchVars, resultVars, tickVars
<1>5. ExecuteInv'
  BY <1>1, <1>2 DEF StageInv, ExecuteInv, EntryOf, Done, Names,
                    hazardVars, latchVars, resultVars, tickVars
<1>6. MemoryInv' /\ WritebackInv'
  BY <1>1, <1>2 DEF StageInv, MemoryInv, WritebackInv, EntryOf, Done, FinalResult,
                    hazardVars, latchVars, resultVars, tickVars
<1>7. CheckedInv'
  BY <1>1, <1>2, StagesOK DEF StageInv, CheckedInv, ThreadsInv, tickVars
<1> QED BY <1>3, <1>4, <1>5, <1>6, <1>7 DEF StageInv

\* A tick begins: every entry moves to the place of the stage it is in.
LEMMA TickStartKeeps ==
  ASSUME PlainDestinations, TypeInv, StageInv, TickStart
  PROVE  StageInv'
<1>1. phase = "idle" /\ phase' = "tick"
  BY DEF TickStart
<1>2. /\ UNCHANGED latchVars /\ UNCHANGED resultVars
      /\ UNCHANGED <<program, stall, shouldFlush, memory, registerFile>>
  BY DEF TickStart, pipelineController!Bump
<1>3. /\ thread' = [s \in Stages |-> IF s \in Spawned THEN "run" ELSE "done"]
      /\ stallNextTick' = FALSE /\ failedPrediction' = FALSE
  BY DEF TickStart
<1>4. /\ hazardQueue'[3].rd \notin Written /\ hazardQueue'[3].RDVal = NoVal
      /\ \A s \in 0 .. 2 : hazardQueue'[s] = hazardQueue[s + 1]
      /\ usedQueueSize' = IF usedQueueSize < 4 THEN usedQueueSize + 1 ELSE usedQueueSize
  BY Places DEF TickStart, pipelineController!Bump, PlainDestinations, Written
<1>5. \A s \in 0 .. 2 : EntryOf(s)' = EntryOf(s)
  BY <1>1, <1>4 DEF EntryOf
<1>6. /\ thread'["fetch"] = "done" => stall \/ shouldFlush
      /\ thread'["decode"] = "done" <=> toDecode = NoWord
      /\ thread'["execute"] = "done" <=> toExecute.op = "empty"
      /\ thread'["memoryAccess"] = "done" <=> toMem.op = "empty"
      /\ thread'["writeback"] = "done" <=> toWB.op = "empty"
      /\ thread'["decode"] # "read"
  BY <1>3, StagesOK DEF Spawned
<1>7. FillOrder' /\ SilentInv'
  BY <1>1, <1>2, <1>3, <1>6
     DEF StageInv, FillOrder, SilentInv, Done, SilentOK, latchVars, resultVars
<1>8. ThreadsInv'
  BY <1>1, <1>2, <1>6 DEF ThreadsInv, latchVars
<1>9. SizeInv'
  <2>1. usedQueueSize \in 0 .. 4
    BY HazardTypes
  <2>2. usedQueueSize' >= 1
    BY <1>4, <2>1
  <2>3. ASSUME NEW s \in 0 .. 3, hazardQueue'[s].rd \in Written
        PROVE  usedQueueSize' >= 4 - s
    <3>1. s \in 0 .. 2
      BY <1>4, <2>3
    <3>2. hazardQueue[s + 1].rd \in Written
      BY <1>4, <2>3, <3>1
    <3>3. usedQueueSize >= 4 - (s + 1)
      BY <3>1, <3>2 DEF StageInv, SizeInv
    <3> QED BY <1>4, <2>1, <3>1, <3>3
  <2>4. Written' = Written
    BY DEF Written
  <2> QED BY <2>2, <2>3, <2>4 DEF SizeInv
<1>10. DecodeInv'
  <2>1. fromDecode' = fromDecode /\ (Done("decode")' => fromDecode.op = "empty")
    BY <1>2, <1>6 DEF StageInv, FillOrder, Done, resultVars
  <2>2. Done("decode")' => ~WritesBack(fromDecode')
    BY <2>1, EmptyWritesNothing
  <2> QED BY <1>4, <2>2 DEF DecodeInv, Names, Written
<1>11. ExecuteInv'
  BY <1>1, <1>2, <1>3, <1>5, <1>6
     DEF StageInv, ExecuteInv, Done, Names, Written, latchVars, resultVars
<1>12. MemoryInv'
  BY <1>1, <1>2, <1>5, <1>6
     DEF StageInv, MemoryInv, Done, Written, FinalResult, WritesBack, Bitops, Loads, Jumps,
         latchVars
<1>13. WritebackInv'
  BY <1>1, <1>2, <1>5, <1>6
     DEF StageInv, WritebackInv, Done, Written, WritesBack, Bitops, Loads, Jumps, latchVars
<1>14. CheckedInv'
  BY <1>6 DEF CheckedInv
<1> QED BY <1>7, <1>8, <1>9, <1>10, <1>11, <1>12, <1>13, <1>14 DEF StageInv

LEMMA FetchKeeps ==
  ASSUME TypeInv, StageInv, Fetch, clean'
  PROVE  StageInv'
<1>1. phase' = phase /\ thread' = [thread EXCEPT !["fetch"] = "done"]
  BY DEF Fetch, Finish, controlVars
<1>2. /\ fromFetch' = program[fetchPC'] /\ fetchPC' \in Address
      /\ UNCHANGED hazardVars /\ UNCHANGED latchVars
      /\ UNCHANGED <<program, fromDecode, fromExecute, fromMem, memory, stall,
                     stallNextTick, failedPrediction, shouldFlush>>
  BY GetNextPCType DEF TypeInv, Fetch, Throw, controlVars
<1>3. \A s \in Stages : thread'[s] = IF s = "fetch" THEN "done" ELSE thread[s]
  BY <1>1, HazardTypes
<1>4. fromFetch' # NoWord /\ SilentOK(fromFetch')
  <2>1. program[fetchPC'] \in Word
    BY <1>2 DEF TypeInv, ProgramTypeOK
  <2>2. NoWord \notin Word
    BY DEF NoWord, NopWord, Word, Op, Defined, Control, Branches, Jumps, Loads, Stores,
           Bitops, Silent
  <2> QED BY <1>2, <2>1, <2>2 DEF StageInv, SilentInv
<1>5. FillOrder' /\ SilentInv'
  BY <1>1, <1>2, <1>3, <1>4 DEF StageInv, FillOrder, SilentInv, SilentOK, Done, latchVars
<1>6. ThreadsInv' /\ SizeInv' /\ DecodeInv'
  BY <1>1, <1>2, <1>3, StagesOK
     DEF StageInv, ThreadsInv, SizeInv, DecodeInv, Done, Names, Written, hazardVars, latchVars
<1>7. ExecuteInv'
  BY <1>1, <1>2, <1>3, StagesOK
     DEF StageInv, ExecuteInv, EntryOf, Done, Names, Written, hazardVars, latchVars
<1>8. MemoryInv' /\ WritebackInv'
  BY <1>1, <1>2, <1>3, StagesOK
     DEF StageInv, MemoryInv, WritebackInv, EntryOf, Done, Written, FinalResult,
         hazardVars, latchVars
<1>9. CheckedInv'
  BY <1>1, <1>2, <1>3, StagesOK
     DEF StageInv, CheckedInv, pipelineController!Stale, pipelineController!Writes,
         hazardVars, latchVars
<1> QED BY <1>5, <1>6, <1>7, <1>8, <1>9 DEF StageInv

\* What the decode thread enqueues and hands on keeps the rest as it was.
LEMMA DecodedKeeps ==
  ASSUME TypeInv, StageInv, phase = "tick", UNCHANGED phase,
         thread' = [thread EXCEPT !["decode"] = "done"],
         NEW rd, pipelineController!Enqueue(rd), rd \in Nat,
         Names([rd |-> rd, RDVal |-> NoVal], fromDecode'),
         toDecode # NoWord, fromDecode'.op # "empty",
         stallNextTick' => fromFetch # NoWord,
         UNCHANGED latchVars, UNCHANGED <<fromFetch, fetchPC, fromExecute, fromMem>>,
         UNCHANGED <<program, memory, stall, shouldFlush, failedPrediction>>
  PROVE  StageInv'
<1>1. \A s \in Stages : thread'[s] = IF s = "decode" THEN "done" ELSE thread[s]
  BY HazardTypes
<1>2. /\ \A s \in 0 .. 2 : hazardQueue'[s] = hazardQueue[s]
      /\ hazardQueue'[3].rd = rd /\ hazardQueue'[3].RDVal = hazardQueue[3].RDVal
      /\ UNCHANGED <<usedQueueSize, registerFile>>
  BY HazardTypes, Places DEF pipelineController!Enqueue
<1>3. FillOrder' /\ SilentInv'
  BY <1>1, StagesOK DEF StageInv, FillOrder, SilentInv, SilentOK, Done, latchVars
<1>4. ThreadsInv'
  BY <1>1, StagesOK DEF StageInv, ThreadsInv, latchVars
<1>5. SizeInv'
  BY <1>2 DEF StageInv, SizeInv, Written
<1>6. DecodeInv'
  BY <1>2 DEF StageInv, DecodeInv, Names, Written
<1>7. ExecuteInv'
  BY <1>1, <1>2, StagesOK DEF StageInv, ExecuteInv, EntryOf, Done, Names, Written, latchVars
<1>8. MemoryInv' /\ WritebackInv'
  BY <1>1, <1>2, StagesOK
     DEF StageInv, MemoryInv, WritebackInv, EntryOf, Done, Written, FinalResult, latchVars
<1>9. CheckedInv'
  BY <1>1, StagesOK DEF CheckedInv
<1> QED BY <1>3, <1>4, <1>5, <1>6, <1>7, <1>8, <1>9 DEF StageInv

LEMMA DecodeStallKeeps ==
  ASSUME TypeInv, StageInv, DecodeStall
  PROVE  StageInv'
<1>1. phase = "tick" /\ toDecode # NoWord
  BY StagesOK DEF StageInv, ThreadsInv, DecodeStall
<1>2. fromFetch # NoWord
  <2>1. toDecode # NopWord
    BY DEF DecodeStall, NopWord, Sources, pipelineController!Stale, Branches, Stores
  <2> QED BY <1>1, <2>1 DEF StageInv, FillOrder
<1>3. fromDecode' = NOP /\ NOP.op = "nop"
  BY DEF DecodeStall, NOP, Default
<1>4. Names([rd |-> 0, RDVal |-> NoVal], fromDecode')
  BY <1>3, EmptyWritesNothing DEF Names, Written
<1> QED BY <1>1, <1>2, <1>3, <1>4, DecodedKeeps DEF DecodeStall, Finish, controlVars

LEMMA DecodeReadKeeps ==
  ASSUME PlainDestinations, TypeInv, StageInv, DecodeRead
  PROVE  StageInv'
<1>1. phase = "tick" /\ toDecode # NoWord
  BY StagesOK DEF StageInv, ThreadsInv, DecodeRead
<1>2. PICK rd \in Destinations(toDecode) :
        /\ pipelineController!Enqueue(rd)
        /\ fromDecode' = [op |-> toDecode.op, rd |-> rd, imm |-> toDecode.imm,
                          pc |-> decodePC, v1 |-> Operand(toDecode.rs1),
                          v2 |-> Operand(toDecode.rs2), result |-> 0]
  BY DEF DecodeRead
<1>3. toDecode \in Word
  BY <1>1, HazardTypes
<1>4. rd \in Nat
  BY <1>3, ConstantsOK DEF Destinations, Word
<1>5. Names([rd |-> rd, RDVal |-> NoVal], fromDecode')
  <2>1. fromDecode'.op = toDecode.op /\ fromDecode'.rd = rd
    BY <1>2
  <2>2. ~WritesBack(fromDecode') => rd \notin Written
    <3>1. CASE toDecode.op \in Branches
      BY <3>1 DEF Destinations, PlainDestinations, Written
    <3>2. CASE toDecode.op \in Stores
      BY <3>2 DEF Destinations, Branches, Stores, Written
    <3>3. CASE toDecode.op \in Silent
      BY <3>3 DEF Destinations, Branches, Stores, Silent, StageInv, SilentInv, SilentOK, Written
    <3>4. CASE toDecode.op \in Bitops \cup Loads \cup Jumps
      BY <2>1, <3>4 DEF WritesBack
    <3> QED BY <3>1, <3>2, <3>3, <3>4 DEF DecodeRead, StageInv, CheckedInv, Defined, Control
  <2> QED BY <2>1, <2>2 DEF Names
<1>6. fromDecode'.op # "empty"
  BY <1>2, <1>3 DEF Word, Op, Defined, Control, Branches, Jumps, Loads, Stores, Bitops, Silent
<1>7. stallNextTick' => fromFetch # NoWord
  BY DEF DecodeRead, StageInv, FillOrder
<1> QED BY <1>1, <1>2, <1>4, <1>5, <1>6, <1>7, DecodedKeeps DEF DecodeRead, Finish, controlVars

LEMMA DecodeCheckKeeps ==
  ASSUME TypeInv, StageInv, DecodeCheck
  PROVE  StageInv'
<1>1. phase = "tick" /\ toDecode # NoWord
  BY StagesOK DEF StageInv, ThreadsInv, DecodeCheck
<1>2. /\ thread["decode"] = "run"
      /\ \A s \in Stages : thread'[s] = IF s = "decode" THEN "read" ELSE thread[s]
  BY HazardTypes DEF DecodeCheck
<1>3. /\ UNCHANGED hazardVars /\ UNCHANGED latchVars /\ UNCHANGED resultVars
      /\ UNCHANGED <<program, memory, phase, stall, shouldFlush, stallNextTick, failedPrediction>>
  BY DEF DecodeCheck, controlVars
<1>4. FillOrder' /\ SilentInv' /\ ThreadsInv'
  BY <1>1, <1>2, <1>3, StagesOK
     DEF StageInv, FillOrder, SilentInv, SilentOK, ThreadsInv, Done, latchVars, resultVars
<1>5. SizeInv' /\ DecodeInv'
  BY <1>2, <1>3, StagesOK
     DEF StageInv, SizeInv, DecodeInv, Done, Names, Written, hazardVars, resultVars
<1>6. ExecuteInv'
  BY <1>2, <1>3, StagesOK
     DEF StageInv, ExecuteInv, EntryOf, Done, Names, Written, hazardVars, latchVars, resultVars
<1>7. MemoryInv' /\ WritebackInv'
  BY <1>2, <1>3, StagesOK
     DEF StageInv, MemoryInv, WritebackInv, EntryOf, Done, Written, FinalResult,
         hazardVars, latchVars, resultVars
<1>8. CheckedInv'
  BY <1>3 DEF DecodeCheck, CheckedInv, pipelineController!Stale, pipelineController!Writes,
              hazardVars, latchVars
<1> QED BY <1>4, <1>5, <1>6, <1>7, <1>8 DEF StageInv

\* The execute routine does not throw: its result is posted, for the
\* instructions that post one, and nothing else of the queue changes.
LEMMA PostKeepsPlaces ==
  ASSUME TypeInv, StageInv, ExecuteException = "none", PostResult
  PROVE  /\ \A s \in {0, 1, 3} : hazardQueue'[s] = hazardQueue[s]
         /\ hazardQueue'[2].rd = hazardQueue[2].rd
         /\ hazardQueue'[2].RDVal = IF PostsResult(toExecute) THEN Result(toExecute)
                                                            ELSE hazardQueue[2].RDVal
         /\ UNCHANGED <<usedQueueSize, registerFile>>
<1>1. PostsResult(toExecute) => pipelineController!CanStoreAfterExecution
  BY DEF ExecuteException
<1>2. CASE PostsResult(toExecute)
  BY <1>1, <1>2, HazardTypes, Places
     DEF PostResult, pipelineController!StoreResultAfterExecution
<1>3. CASE ~PostsResult(toExecute)
  BY <1>3 DEF PostResult, hazardVars
<1> QED BY <1>2, <1>3

\* The execute thread ends without an exception: either with its result, or
\* with a failed prediction and fromExecute as it was.
LEMMA ExecutedKeeps ==
  ASSUME TypeInv, StageInv, thread["execute"] = "run", Finish("execute"),
         ExecuteException = "none", PostResult,
         \/ /\ UNCHANGED failedPrediction
            /\ fromExecute' = [toExecute EXCEPT !.result = Result(toExecute)]
         \/ /\ failedPrediction' = TRUE /\ UNCHANGED fromExecute
            /\ toExecute.op \in Control /\ toExecute.rd = 0,
         UNCHANGED latchVars, UNCHANGED <<fromFetch, fetchPC, fromDecode, fromMem>>,
         UNCHANGED <<program, memory, stallNextTick>>, UNCHANGED controlVars
  PROVE  StageInv'
<1>1. /\ phase = "tick" /\ toExecute.op # "empty" /\ phase' = phase
      /\ UNCHANGED <<stall, shouldFlush>>
  BY StagesOK DEF StageInv, ThreadsInv, controlVars
<1>2. \A s \in Stages : thread'[s] = IF s = "execute" THEN "done" ELSE thread[s]
  BY HazardTypes DEF Finish
<1>3. ~failedPrediction /\ fromExecute = toMem
  BY <1>1, StagesOK DEF StageInv, ExecuteInv, Done
<1>4. /\ \A s \in {0, 1, 3} : hazardQueue'[s] = hazardQueue[s]
      /\ hazardQueue'[2].rd = hazardQueue[2].rd
      /\ hazardQueue'[2].RDVal = IF PostsResult(toExecute) THEN Result(toExecute)
                                                         ELSE hazardQueue[2].RDVal
      /\ UNCHANGED <<usedQueueSize, registerFile>>
  BY PostKeepsPlaces
<1>5. FillOrder'
  <2>1. fromExecute'.op = toExecute.op \/ fromExecute' = fromExecute
    BY HazardTypes DEF Instruction
  <2> QED BY <1>1, <1>2, <2>1, StagesOK DEF StageInv, FillOrder, Done, latchVars
<1>6. SilentInv' /\ ThreadsInv' /\ DecodeInv'
  BY <1>1, <1>2, <1>4, StagesOK
     DEF StageInv, SilentInv, SilentOK, ThreadsInv, DecodeInv, Done, Names, Written, latchVars
<1>7. SizeInv'
  <2>1. \A s \in 0 .. 3 : hazardQueue'[s].rd = hazardQueue[s].rd
    BY <1>4
  <2> QED BY <1>1, <1>4, <2>1 DEF StageInv, SizeInv, Written
<1>8. ExecuteInv'
  <2>1. /\ EntryOf(2).rd' = EntryOf(2).rd
        /\ EntryOf(2).RDVal' = IF PostsResult(toExecute) THEN Result(toExecute)
                                                        ELSE EntryOf(2).RDVal
    BY <1>1, <1>4 DEF EntryOf
  <2>2. Names(EntryOf(2), toExecute)'
    BY <2>1 DEF StageInv, ExecuteInv, Names, Written, latchVars
  <2>3. toExecute'.op \in Loads => EntryOf(2).RDVal' = NoVal
    BY <2>1 DEF StageInv, ExecuteInv, latchVars, PostsResult, Bitops, Control, Branches,
                Jumps, Loads
  <2>4. CASE /\ failedPrediction' = TRUE /\ UNCHANGED fromExecute
             /\ toExecute.op \in Control /\ toExecute.rd = 0
    BY <1>1, <1>2, <1>3, <2>2, <2>3, <2>4, StagesOK DEF ExecuteInv, Done, latchVars
  <2>5. CASE /\ UNCHANGED failedPrediction
             /\ fromExecute' = [toExecute EXCEPT !.result = Result(toExecute)]
    <3>1. /\ fromExecute'.op = toExecute.op /\ fromExecute'.rd = toExecute.rd
          /\ fromExecute'.result = Result(toExecute)
      BY <2>5, HazardTypes DEF Instruction
    <3>2. WritesBack(toExecute) /\ toExecute.op \notin Loads => PostsResult(toExecute)
      BY DEF WritesBack, PostsResult, Control
    <3> QED BY <1>1, <1>2, <1>3, <2>1, <2>2, <2>3, <2>5, <3>1, <3>2, StagesOK
            DEF ExecuteInv, Done, latchVars
  <2> QED BY <2>4, <2>5
<1>9. MemoryInv' /\ WritebackInv'
  BY <1>1, <1>2, <1>4, StagesOK
     DEF StageInv, MemoryInv, WritebackInv, EntryOf, Done, Written, FinalResult, latchVars
<1>10. CheckedInv'
  BY <1>1, <1>2, <1>4, StagesOK, Places
     DEF StageInv, CheckedInv, pipelineController!Stale, pipelineController!Writes, latchVars
<1> QED BY <1>5, <1>6, <1>7, <1>8, <1>9, <1>10 DEF StageInv

LEMMA ExecuteStepsKeep ==
  ASSUME TypeInv, StageInv, Execute \/ ExecutePredicted \/ ExecuteMispredicted, clean'
  PROVE  StageInv'
<1>1. CASE Execute
  BY <1>1, ExecutedKeeps DEF Execute
<1>2. CASE ExecutePredicted
  BY <1>2, ExecutedKeeps DEF ExecutePredicted, ExecutesControl, controlVars
<1>3. CASE ExecuteMispredicted
  <2>1. UNCHANGED latchVars /\ UNCHANGED resultVars /\ UNCHANGED controlVars
    BY <1>3 DEF ExecuteMispredicted
  <2> QED BY <1>3, <2>1, ExecutedKeeps DEF ExecuteMispredicted, ExecutesControl, resultVars
<1> QED BY <1>1, <1>2, <1>3

LEMMA MemoryAccessKeeps ==
  ASSUME TypeInv, StageInv, MemoryAccess
  PROVE  StageInv'
<1>1. /\ phase = "tick" /\ toMem.op # "empty" /\ phase' = phase
      /\ UNCHANGED <<stall, shouldFlush>>
  BY StagesOK DEF MemoryAccess, StageInv, ThreadsInv, controlVars
<1>2. \A s \in Stages : thread'[s] = IF s = "memoryAccess" THEN "done" ELSE thread[s]
  BY HazardTypes DEF MemoryAccess, Finish
<1>3. /\ UNCHANGED latchVars
      /\ UNCHANGED <<program, fromFetch, fetchPC, fromDecode, fromExecute, stallNextTick,
                     failedPrediction, usedQueueSize, registerFile>>
  BY DEF MemoryAccess, hazardVars
<1>4. /\ \A s \in {0, 2, 3} : hazardQueue'[s] = hazardQueue[s]
      /\ hazardQueue'[1].rd = hazardQueue[1].rd
      /\ toMem.op \notin Loads => hazardQueue'[1] = hazardQueue[1]
      /\ toMem.op \in Loads =>
           hazardQueue'[1].RDVal = IF usedQueueSize >= 3 THEN memory[toMem.result]
                                                         ELSE hazardQueue[1].RDVal
  <2>1. CASE toMem.op \in Loads
    BY <2>1, HazardTypes, Places
       DEF MemoryAccess, pipelineController!StoreResultAfterMemoryAccess,
           pipelineController!CanStoreAfterMemoryAccess
  <2>2. CASE toMem.op \notin Loads
    BY <2>2 DEF MemoryAccess, hazardVars
  <2> QED BY <2>1, <2>2
<1>5. /\ fromMem'.op = toMem.op /\ fromMem'.rd = toMem.rd
      /\ fromMem'.result = FinalResult(toMem) /\ MemoryFault(toMem) = "none"
  BY HazardTypes DEF MemoryAccess, FinalResult, Instruction
<1>6. /\ toMem.op \in Loads => memory' = memory /\ memory[toMem.result] \in Value
      /\ FinalResult(toMem)' = FinalResult(toMem)
  <2>1. toMem.op \in Loads => memory' = memory /\ memory[toMem.result] \in Value
    BY HazardTypes DEF MemoryAccess, Loads, Stores
  <2> QED BY <1>3, <2>1 DEF FinalResult, latchVars
<1>7. FillOrder' /\ SilentInv' /\ ThreadsInv' /\ DecodeInv'
  BY <1>1, <1>2, <1>3, <1>4, <1>5, StagesOK
     DEF StageInv, FillOrder, SilentInv, SilentOK, ThreadsInv, DecodeInv, Done, Names,
         Written, latchVars
<1>8. SizeInv'
  <2>1. \A s \in 0 .. 3 : hazardQueue'[s].rd = hazardQueue[s].rd
    BY <1>4
  <2> QED BY <1>1, <1>3, <2>1 DEF StageInv, SizeInv, Written
<1>9. ExecuteInv' /\ WritebackInv'
  BY <1>1, <1>2, <1>3, <1>4, StagesOK
     DEF StageInv, ExecuteInv, WritebackInv, EntryOf, Done, Names, Written, latchVars
<1>10. MemoryInv'
  <2>1. EntryOf(1) = hazardQueue[1] /\ EntryOf(1)' = hazardQueue'[1]
    BY <1>1 DEF EntryOf
  <2>2. ASSUME NEW r \in Written, hazardQueue'[1].rd = r
        PROVE  /\ WritesBack(toMem) /\ toMem.rd = r
               /\ toMem.op \notin Loads => hazardQueue'[1].RDVal = toMem.result
               /\ toMem.op \in Loads => hazardQueue'[1].RDVal = memory[toMem.result]
    <3>1. hazardQueue[1].rd \in Written /\ hazardQueue[1].rd = r
      BY <1>4, <2>2
    <3>2. 1 \in 0 .. 3 /\ usedQueueSize >= 4 - 1
      BY <3>1 DEF StageInv, SizeInv
    <3>3. usedQueueSize >= 3
      BY <3>2
    <3> QED BY <1>4, <2>1, <2>2, <3>1, <3>3 DEF StageInv, MemoryInv
  <2>3. WritesBack(toMem) /\ toMem.rd \in Written =>
          \/ hazardQueue'[1].rd = toMem.rd
          \/ /\ WritesBack(toWB) /\ toWB.rd = toMem.rd
             /\ toWB.result = FinalResult(toMem) /\ MemoryFault(toMem) = "none"
    BY <1>4, <2>1 DEF StageInv, MemoryInv
  <2>4. toMem' = toMem /\ toWB' = toWB /\ Written' = Written
    BY <1>3 DEF latchVars, Written
  <2> QED BY <1>5, <1>6, <2>1, <2>2, <2>3, <2>4 DEF MemoryInv
<1>11. CheckedInv'
  <2>1. toMem.op \in Loads => memory[toMem.result] # NoVal
    BY <1>6, ConstantsOK
  <2>2. \A reg : pipelineController!Stale(reg)' => pipelineController!Stale(reg)
    BY <1>3, <1>4, <2>1, Places DEF pipelineController!Stale, pipelineController!Writes
  <2> QED BY <1>2, <1>3, <2>2, StagesOK DEF StageInv, CheckedInv, latchVars
<1> QED BY <1>7, <1>8, <1>9, <1>10, <1>11 DEF StageInv

LEMMA WritebackKeeps ==
  ASSUME TypeInv, StageInv, Writeback
  PROVE  StageInv'
<1>1. \A s \in Stages : thread'[s] = IF s = "writeback" THEN "done" ELSE thread[s]
  BY HazardTypes DEF Writeback, Finish
<1>2. /\ UNCHANGED latchVars /\ UNCHANGED resultVars
      /\ UNCHANGED <<program, memory, phase, stall, shouldFlush, stallNextTick,
                     failedPrediction, hazardQueue, usedQueueSize>>
  BY DEF Writeback, controlVars, hazardVars
<1>3. FillOrder' /\ SilentInv' /\ ThreadsInv' /\ SizeInv' /\ DecodeInv'
  BY <1>1, <1>2, StagesOK
     DEF StageInv, FillOrder, SilentInv, SilentOK, ThreadsInv, SizeInv, DecodeInv, Done,
         Names, Written, latchVars, resultVars
<1>4. ExecuteInv' /\ MemoryInv'
  BY <1>1, <1>2, StagesOK
     DEF StageInv, ExecuteInv, MemoryInv, EntryOf, Done, Names, Written, FinalResult,
         latchVars, resultVars
<1>5. WritebackInv'
  <2>1. WritesBack(toWB) /\ toWB.rd \in Written => registerFile'[toWB.rd] = toWB.result
    BY DEF Writeback, pipelineController!WriteRegister, Written
  <2> QED BY <1>2, <2>1 DEF StageInv, WritebackInv, EntryOf, Written, latchVars
<1>6. CheckedInv'
  BY <1>1, <1>2, StagesOK
     DEF StageInv, CheckedInv, pipelineController!Stale, pipelineController!Writes, latchVars
<1> QED BY <1>3, <1>4, <1>5, <1>6 DEF StageInv

\* The latches move: what every stage leaves corresponds to the entry of its
\* own place, which now is that of the next latch.
LEMMA LatchKeeps ==
  ASSUME TypeInv, StageInv, Joined, Latch, phase' # "tick",
         toDecode' \in {NopWord, IF stallNextTick THEN toDecode ELSE fromFetch},
         toDecode' # NopWord => ~shouldFlush,
         stall' \in {stall, stallNextTick}
  PROVE  StageInv'
<1>1. /\ phase = "tick" /\ \A s \in Stages : thread[s] = "done" /\ Done(s)
      /\ UNCHANGED thread
  BY DEF Joined, Done, Latch, tickVars
<1>2. /\ toWB' = fromMem /\ toMem' = fromExecute
      /\ toExecute' = IF failedPrediction THEN NOP ELSE fromDecode
      /\ UNCHANGED <<program, memory, fromFetch, fromDecode, fromExecute, fromMem,
                     stallNextTick, failedPrediction, usedQueueSize, registerFile>>
  BY DEF Latch, resultVars, tickVars, hazardVars, pipelineController!Enqueue
<1>3. /\ \A s \in 0 .. 2 : hazardQueue'[s] = hazardQueue[s]
      /\ hazardQueue'[3].RDVal = hazardQueue[3].RDVal
      /\ hazardQueue'[3].rd = IF failedPrediction THEN 0 ELSE hazardQueue[3].rd
  BY HazardTypes, Places DEF Latch, hazardVars, pipelineController!Enqueue
<1>4. \A s \in 0 .. 2 : EntryOf(s) = hazardQueue[s] /\ EntryOf(s)' = hazardQueue'[s + 1]
  BY <1>1 DEF EntryOf
<1>5. failedPrediction => toExecute.op \in Control /\ toExecute.rd = 0
  BY <1>1 DEF StageInv, ExecuteInv
<1>6. IF ~failedPrediction /\ toExecute.op # "empty"
        THEN /\ fromExecute.op = toExecute.op /\ fromExecute.rd = toExecute.rd
             /\ WritesBack(toExecute) /\ toExecute.op \notin Loads =>
                  hazardQueue[2].RDVal = fromExecute.result
        ELSE fromExecute = toMem
  BY <1>1, <1>4, StagesOK DEF StageInv, ExecuteInv
<1>7. toMem.op # "empty" =>
        /\ fromMem.op = toMem.op /\ fromMem.rd = toMem.rd
        /\ fromMem.result = FinalResult(toMem) /\ MemoryFault(toMem) = "none"
  BY <1>1, StagesOK DEF StageInv, MemoryInv
<1>8. FillOrder'
  <2>1. fromDecode.op = "empty" => ~failedPrediction /\ toExecute.op = "empty"
    BY <1>5 DEF StageInv, FillOrder, Control, Branches, Jumps
  <2>2. NOP.op # "empty" /\ NopWord # NoWord
    BY DEF NOP, Default, NopWord, NoWord
  <2>3. toDecode' # NoWord
    BY <1>1, <2>2, StagesOK DEF StageInv, FillOrder
  <2>4. fromFetch = NoWord => toDecode' = NopWord /\ ~stall' /\ ~stallNextTick
    BY <1>1, <2>3, StagesOK DEF StageInv, FillOrder
  <2> QED BY <1>2, <2>1, <2>2, <2>3, <2>4 DEF StageInv, FillOrder, Done
<1>9. SilentInv'
  BY <1>2 DEF StageInv, SilentInv, SilentOK, NopWord, Silent
<1>10. ThreadsInv' /\ DecodeInv' /\ CheckedInv'
  BY <1>1, StagesOK DEF ThreadsInv, DecodeInv, CheckedInv, Done
<1>11. SizeInv'
  BY <1>1, <1>2, <1>3 DEF StageInv, SizeInv, Written
<1>12. ExecuteInv'
  <2>1. Names(hazardQueue'[3], toExecute')
    <3>1. CASE failedPrediction
      BY <1>2, <1>3, <3>1, EmptyWritesNothing DEF Names, Written, NOP, Default
    <3>2. CASE ~failedPrediction
      BY <1>1, <1>2, <1>3, <3>2, StagesOK DEF StageInv, DecodeInv, Names
    <3> QED BY <3>1, <3>2
  <2>2. hazardQueue'[3].RDVal = NoVal
    BY <1>1, <1>3 DEF StageInv, DecodeInv
  <2>3. EntryOf(2)' = hazardQueue'[3]
    BY <1>4
  <2> QED BY <1>2, <2>1, <2>2, <2>3 DEF ExecuteInv, Done, Names, Written
<1>13. MemoryInv'
  <2>1. EntryOf(1)' = hazardQueue[2]
    BY <1>3, <1>4
  <2>2. \A r \in Written : hazardQueue[2].rd = r <=> WritesBack(toExecute) /\ toExecute.rd = r
    BY <1>4 DEF StageInv, ExecuteInv, Names
  <2>3. toExecute.op \in Loads => hazardQueue[2].RDVal = NoVal
    BY <1>4 DEF StageInv, ExecuteInv
  <2>4. CASE ~failedPrediction /\ toExecute.op # "empty"
    <3>1. WritesBack(fromExecute) <=> WritesBack(toExecute)
      BY <1>6, <2>4 DEF WritesBack
    <3> QED BY <1>2, <1>6, <2>1, <2>2, <2>3, <2>4, <3>1 DEF MemoryInv, Done, Written
  <2>5. CASE failedPrediction \/ toExecute.op = "empty"
    <3>1. toMem' = toMem
      BY <1>2, <1>6, <2>5
    <3>2. \A r \in Written : hazardQueue[2].rd # r
      BY <1>5, <2>2, <2>5, EmptyWritesNothing DEF Written
    <3>3. WritesBack(toMem) =>
            /\ WritesBack(fromMem) /\ fromMem.rd = toMem.rd
            /\ fromMem.result = FinalResult(toMem) /\ MemoryFault(toMem) = "none"
      <4>1. WritesBack(toMem) => toMem.op # "empty"
        BY EmptyWritesNothing
      <4> QED BY <1>7, <4>1 DEF WritesBack
    <3>4. FinalResult(toMem)' = FinalResult(toMem)
      BY <1>2, <3>1 DEF FinalResult
    <3> QED BY <1>2, <2>1, <3>1, <3>2, <3>3, <3>4 DEF MemoryInv, Done, Written
  <2> QED BY <2>4, <2>5
<1>14. WritebackInv'
  <2>1. EntryOf(0)' = hazardQueue[1]
    BY <1>3, <1>4
  <2>2. ASSUME NEW r \in Written, hazardQueue[1].rd = r
        PROVE  WritesBack(fromMem) /\ fromMem.rd = r /\ hazardQueue[1].RDVal = fromMem.result
    <3>1. /\ WritesBack(toMem) /\ toMem.rd = r
          /\ toMem.op \notin Loads => hazardQueue[1].RDVal = toMem.result
          /\ toMem.op \in Loads => hazardQueue[1].RDVal = memory[toMem.result]
      BY <1>1, <1>4, <2>2, StagesOK DEF StageInv, MemoryInv
    <3>2. toMem.op # "empty"
      BY <3>1, EmptyWritesNothing
    <3> QED BY <1>7, <3>1, <3>2 DEF WritesBack, FinalResult
  <2>3. ASSUME WritesBack(fromMem), fromMem.rd \in Written, hazardQueue[1].rd # fromMem.rd
        PROVE  registerFile[fromMem.rd] = fromMem.result
    <3>1. toMem.op # "empty"
      BY <2>3, EmptyWritesNothing DEF StageInv, FillOrder
    <3>2. /\ WritesBack(toMem) /\ toMem.rd = fromMem.rd
          /\ fromMem.result = FinalResult(toMem)
      BY <1>7, <2>3, <3>1 DEF WritesBack
    <3>3. WritesBack(toWB) /\ toWB.rd = toMem.rd /\ toWB.result = FinalResult(toMem)
      BY <1>4, <2>3, <3>2 DEF StageInv, MemoryInv
    <3>4. registerFile[toWB.rd] = toWB.result
      BY <1>1, <2>3, <3>2, <3>3, StagesOK DEF StageInv, WritebackInv
    <3> QED BY <3>2, <3>3, <3>4
  <2> QED BY <1>2, <2>1, <2>2, <2>3 DEF WritebackInv, Done, Written
<1> QED BY <1>8, <1>9, <1>10, <1>11, <1>12, <1>13, <1>14 DEF StageInv

LEMMA TickEndKeeps ==
  ASSUME TypeInv, StageInv, TickEnd
  PROVE  StageInv'
<1>1. Joined /\ Latch /\ phase' # "tick"
  BY DEF TickEnd, TickHalts, TickTerminates, TickEnds, FlushTickEnds
<1>2. CASE TickHalts
  BY <1>1, <1>2, LatchKeeps DEF TickHalts
<1>3. CASE ~TickHalts
  <2>1. LatchDecode
    BY <1>3 DEF TickEnd, TickTerminates, TickEnds, FlushTickEnds
  <2>2. stall' \in {stall, stallNextTick}
    BY <1>3 DEF TickEnd, TickTerminates, TickEnds, FlushTickEnds
  <2>3. toDecode' \in {NopWord, IF stallNextTick THEN toDecode ELSE fromFetch}
    BY <2>1 DEF LatchDecode
  <2>4. toDecode' # NopWord => ~shouldFlush
    BY <2>1 DEF LatchDecode
  <2> QED BY <1>1, <2>2, <2>3, <2>4, LatchKeeps
<1> QED BY <1>2, <1>3

LEMMA HazardInvStep ==
  ASSUME PlainDestinations
  PROVE  TypeInv /\ HazardInv /\ [Next]_vars => HazardInv'
<1> SUFFICES ASSUME TypeInv, StageInv, [Next]_vars, clean' PROVE StageInv'
  <2>1. [Next]_vars /\ clean' => clean
    BY DEF Next, Tick, Flush, TickStart, StageStep, FetchRethrow, Fetch, DecodeStep,
           DecodeUndefined, DecodeStall, DecodeCheck, DecodeHazard, DecodeRead, ExecuteStep,
           ExecuteThrow, Execute, ExecutePredicted, ExecuteMispredicted, MemoryThrow,
           MemoryAccess, Writeback, Throw, TickEnd, TickHalts, TickTerminates, TickEnds,
           FlushTickEnds, Latch, historyVars, vars
  <2> QED BY <2>1 DEF HazardInv
<1>1. CASE Flush
  BY <1>1, FlushKeeps
<1>2. CASE TickStart
  BY <1>2, TickStartKeeps
<1>3. CASE StageStep
  BY <1>3, ThrowsUnclean, FetchKeeps, DecodeStallKeeps, DecodeCheckKeeps, DecodeReadKeeps,
     ExecuteStepsKeep, MemoryAccessKeeps, WritebackKeeps
     DEF StageStep, DecodeStep, ExecuteStep
<1>4. CASE TickEnd
  BY <1>4, TickEndKeeps
<1>5. CASE UNCHANGED vars
  <2>1. /\ UNCHANGED hazardVars /\ UNCHANGED latchVars /\ UNCHANGED resultVars
        /\ UNCHANGED tickVars
        /\ UNCHANGED <<program, memory, phase, stall, shouldFlush>>
    BY <1>5 DEF vars, controlVars
  <2>2. FillOrder' /\ SilentInv' /\ ThreadsInv'
    BY <2>1 DEF StageInv, FillOrder, SilentInv, SilentOK, ThreadsInv, Done,
                latchVars, resultVars, tickVars
  <2>3. SizeInv' /\ DecodeInv' /\ CheckedInv'
    BY <2>1 DEF StageInv, SizeInv, DecodeInv, CheckedInv, Done, Names, Written,
                pipelineController!Stale, pipelineController!Writes,
                hazardVars, latchVars, resultVars, tickVars
  <2>4. ExecuteInv'
    BY <2>1 DEF StageInv, ExecuteInv, EntryOf, Done, Names, Written,
                hazardVars, latchVars, resultVars, tickVars
  <2>5. MemoryInv' /\ WritebackInv'
    BY <2>1 DEF StageInv, MemoryInv, WritebackInv, EntryOf, Done, Written, FinalResult,
                hazardVars, latchVars, resultVars, tickVars
  <2> QED BY <2>2, <2>3, <2>4, <2>5 DEF StageInv
<1> QED BY <1>1, <1>2, <1>3, <1>4, <1>5 DEF Next, Tick

\* The places of the hazard queue keep telling what is in the latches, as long
\* as no stage has thrown and no jump has lost its link.
THEOREM HazardInvariance == ASSUME PlainDestinations PROVE Spec => []HazardInv
<1>1. Init => HazardInv
  BY HazardInit
<1>2. TypeInv /\ HazardInv /\ [Next]_vars => HazardInv'
  BY HazardInvStep
<1> QED BY <1>1, <1>2, TypeInvariance, PTL DEF Spec

\* However the stage threads interleave, between the hazard check of the decode
\* stage and its reads, each of its source registers has, forwarded or in the
\* register file, the value of its last writer in program order
\* (RV32I::decode*, PipelineHazardController::fetchRegisterValue).
THEOREM OperandsAreUpToDate ==
  ASSUME PlainDestinations PROVE Spec => []OperandsUpToDate
<1>1. TypeInv /\ HazardInv => OperandsUpToDate
  BY OperandsFollow
<1> QED BY <1>1, TypeInvariance, HazardInvariance, PTL

=============================================================================
