-------------------------------- MODULE Hart --------------------------------
(***************************************************************************)
(* One hardware thread (hw/Hart.cpp): a five stage pipeline in which every *)
(* stage of a tick is a C++ thread of its own.  A tick bumps the hazard    *)
(* controller, spawns the threads, joins them all and moves the latches.   *)
(* Between the spawn and the joins the steps of the threads interleave     *)
(* here in every order the locks allow.                                    *)
(*                                                                         *)
(* The program is kept apart from the data memory: code that writes code   *)
(* is not modelled.                                                        *)
(***************************************************************************)
EXTENDS RV32I, Sequences

CONSTANTS Reg, NoVal, GarbageRD, NoPC,
          Programs,    \* the programs to run, functions on Address
          HaltAddrs,   \* the values of --halt to run them with
          DataAddress, \* the words of memory the programs load and store
          FetchFirst,  \* the fetch thread reaches the predictor's mutex
                       \* before the execute thread of the same tick
          FlushedPrograms  \* those the user may enter the flush command in

Value   == 0 .. Width - 1
Address == {a \in 0 .. MemSize - 1 : a % 4 = 0}
Word    == [op : Op, rd : Reg, rs1 : Reg, rs2 : Reg, imm : Int]

ASSUME HartAssumption ==
  /\ Reg \subseteq Nat /\ 0 \in Reg
  /\ NoVal \notin Value
  /\ GarbageRD \subseteq Nat /\ GarbageRD # {}
  /\ NoPC \notin Int
  /\ HaltAddrs \subseteq Address \cup {NoPC}
  /\ DataAddress \subseteq Address
  /\ Programs \subseteq [Address -> Word]
  /\ FetchFirst \in BOOLEAN

VARIABLES
  program, haltAddr,                             \* chosen once, never changed
  hazardQueue, usedQueueSize, registerFile,      \* pipelineController
  PCQueue, predictions, workloopException,       \* branchPredictor
  memory,
  fromFetch, fetchPC, toDecode, decodePC,
  fromDecode, fromExecute, fromMem, toExecute, toMem, toWB,
  stall, stallNextTick, failedPrediction, shouldFlush, willHalt,
  exceptions,  \* fetchException, decodeException, ...: one of every stage
  thread,      \* of every stage: "done", "run", or "read" (decode only)
  phase,       \* "idle", "tick", "stopped" or "terminated"
  flushing,    \* who runs flush(): "none", "user" or "halt"
  flushLeft,   \* the ticks it has still to do
  exception,   \* what the last tick or flush handed to its caller
  haltedAt,    \* history: the decodePC that met haltAddr
  redirect,    \* history: the target of a failed prediction, until decoded
  clean        \* history: no stage threw, no jump lost its link

hazardVars    == <<hazardQueue, usedQueueSize, registerFile>>
predictorVars == <<PCQueue, predictions, workloopException>>
latchVars     == <<toDecode, decodePC, toExecute, toMem, toWB>>
resultVars    == <<fromFetch, fetchPC, fromDecode, fromExecute, fromMem>>
tickVars      == <<stallNextTick, failedPrediction, exceptions, thread>>
controlVars   == <<stall, shouldFlush, willHalt, phase, flushing, flushLeft,
                   exception, haltedAt>>
historyVars   == <<redirect, clean>>
vars == <<program, haltAddr, hazardVars, predictorVars, memory, latchVars,
          resultVars, tickVars, controlVars, historyVars>>

pipelineController == INSTANCE PipelineHazardController
                        WITH executingQueue <- hazardQueue, Val <- Value
branchPredictor    == INSTANCE BranchPredictor

Stages == {"fetch", "decode", "execute", "memoryAccess", "writeback"}

\* NOP_BYTES and bytes of length zero as what the decode stage gets.
NopWord == [op |-> "add", rd |-> 0, rs1 |-> 0, rs2 |-> 0, imm |-> 0]
NoWord  == [NopWord EXCEPT !.op = "empty"]

\* The default AbstractInstruction (XLEN 0, no thread runs for it), and
\* NOP(XLEN), which has no routines.
Default == [op |-> "empty", rd |-> 0, imm |-> 0, pc |-> NoPC,
            v1 |-> 0, v2 |-> 0, result |-> 0]
NOP == [Default EXCEPT !.op = "nop"]

-----------------------------------------------------------------------------

Init ==
  /\ program \in Programs
  /\ haltAddr \in HaltAddrs
  /\ pipelineController!HazardInit
  /\ branchPredictor!PredictorInit
  /\ memory = [a \in DataAddress |-> 0]
  /\ fromFetch = NoWord /\ toDecode = NoWord
  /\ fetchPC = NoPC /\ decodePC = NoPC
  /\ fromDecode = Default /\ fromExecute = Default /\ fromMem = Default
  /\ toExecute = Default /\ toMem = Default /\ toWB = Default
  /\ stall = FALSE /\ stallNextTick = FALSE /\ failedPrediction = FALSE
  /\ shouldFlush = FALSE /\ willHalt = FALSE
  /\ exceptions = [s \in Stages |-> "none"]
  /\ thread = [s \in Stages |-> "done"]
  /\ phase = "idle"
  /\ flushing = "none" /\ flushLeft = 0
  /\ exception = "none"
  /\ haltedAt = NoPC /\ redirect = NoPC /\ clean = TRUE

\* The user enters the flush command while the emulator is paused.
Flush ==
  /\ phase = "idle" /\ flushing = "none" /\ program \in FlushedPrograms
  /\ shouldFlush' = TRUE
  /\ flushing' = "user" /\ flushLeft' = 4
  /\ UNCHANGED <<program, haltAddr, hazardVars, predictorVars, memory, latchVars,
                 resultVars, tickVars, stall, willHalt, phase, exception, haltedAt,
                 historyVars>>

\* The stages that get a thread in this tick.
Spawned ==
  {s \in Stages :
     CASE s = "fetch"        -> ~stall /\ ~shouldFlush
       [] s = "decode"       -> toDecode # NoWord
       [] s = "execute"      -> toExecute.op # "empty"
       [] s = "memoryAccess" -> toMem.op # "empty"
       [] s = "writeback"    -> toWB.op # "empty"}

\* tick() up to the thread constructors; within flush(), its handleFlush too.
TickStart ==
  /\ phase = "idle"
  /\ IF flushing # "none" THEN branchPredictor!HandleFlush
                          ELSE UNCHANGED predictorVars
  /\ pipelineController!Bump
  /\ exceptions' = [s \in Stages |-> "none"]
  /\ stallNextTick' = FALSE /\ failedPrediction' = FALSE
  /\ thread' = [s \in Stages |-> IF s \in Spawned THEN "run" ELSE "done"]
  /\ phase' = "tick" /\ exception' = "none"
  /\ UNCHANGED <<program, haltAddr, memory, latchVars, resultVars,
                 stall, shouldFlush, willHalt, flushing, flushLeft, haltedAt, historyVars>>

-----------------------------------------------------------------------------
(* The stage threads. *)

Finish(s) == thread' = [thread EXCEPT ![s] = "done"]
Throw(s, e) ==
  /\ exceptions' = [exceptions EXCEPT ![s] = e]
  /\ clean' = FALSE
  /\ UNCHANGED redirect

FetchRethrow ==
  /\ thread["fetch"] = "run"
  /\ workloopException
  /\ Finish("fetch") /\ Throw("fetch", "BranchPredictor")
  /\ UNCHANGED <<program, haltAddr, hazardVars, predictorVars, memory, latchVars,
                 resultVars, stallNextTick, failedPrediction, controlVars>>

Fetch ==
  /\ thread["fetch"] = "run"
  /\ branchPredictor!GetNextPC
  /\ fetchPC' = Head(PCQueue)
  /\ IF branchPredictor!Readable(fetchPC')
       THEN fromFetch' = program[fetchPC'] /\ UNCHANGED <<exceptions, historyVars>>
       ELSE Throw("fetch", "AddressOutOfMemory") /\ UNCHANGED fromFetch
  /\ Finish("fetch")
  /\ UNCHANGED <<program, haltAddr, hazardVars, memory, latchVars, fromDecode,
                 fromExecute, fromMem, stallNextTick, failedPrediction, controlVars>>

\* No decode routine for the opcode.
DecodeUndefined ==
  /\ thread["decode"] = "run"
  /\ toDecode.op \notin Defined
  /\ Finish("decode") /\ Throw("decode", "UndefinedInstruction")
  /\ UNCHANGED <<program, haltAddr, hazardVars, predictorVars, memory, latchVars,
                 resultVars, stallNextTick, failedPrediction, controlVars>>

\* checkForStaleRegister of the sources: a register of theirs is not
\* computed yet.
DecodeStall ==
  /\ thread["decode"] = "run"
  /\ toDecode.op \in Defined
  /\ \E reg \in Sources(toDecode) : pipelineController!Stale(reg)
  /\ pipelineController!Enqueue(0)
  /\ fromDecode' = NOP
  /\ stallNextTick' = TRUE
  /\ Finish("decode")
  /\ UNCHANGED <<program, haltAddr, predictorVars, memory, latchVars,
                 fromFetch, fetchPC, fromExecute, fromMem, failedPrediction,
                 exceptions, controlVars, historyVars>>

\* checkForStaleRegister of the sources: none is stale.
DecodeCheck ==
  /\ thread["decode"] = "run"
  /\ toDecode.op \in Defined
  /\ \A reg \in Sources(toDecode) : ~pipelineController!Stale(reg)
  /\ thread' = [thread EXCEPT !["decode"] = "read"]
  /\ UNCHANGED <<program, haltAddr, hazardVars, predictorVars, memory, latchVars,
                 resultVars, stallNextTick, failedPrediction, exceptions, controlVars, historyVars>>

\* fetchRegisterValue throws, nothing is enqueued.
DecodeHazard ==
  /\ thread["decode"] = "read"
  /\ \E reg \in Sources(toDecode) : pipelineController!FetchRegisterValue(reg) = NoVal
  /\ Finish("decode") /\ Throw("decode", "PipelineHazard")
  /\ UNCHANGED <<program, haltAddr, hazardVars, predictorVars, memory, latchVars,
                 resultVars, stallNextTick, failedPrediction, controlVars>>

Operand(reg) ==
  IF reg \in Sources(toDecode) THEN pipelineController!FetchRegisterValue(reg) ELSE 0

\* BTypeInstruction has no rd and does not initialise the one it inherits.
Destinations(word) ==
  CASE word.op \in Branches -> GarbageRD
    [] word.op \in Stores   -> {0}
    [] OTHER                -> {word.rd}

DecodeRead ==
  /\ thread["decode"] = "read"
  /\ \A reg \in Sources(toDecode) : pipelineController!FetchRegisterValue(reg) # NoVal
  /\ \E rd \in Destinations(toDecode) :
       /\ pipelineController!Enqueue(rd)
       /\ fromDecode' = [op |-> toDecode.op, rd |-> rd, imm |-> toDecode.imm,
                         pc |-> decodePC, v1 |-> Operand(toDecode.rs1),
                         v2 |-> Operand(toDecode.rs2), result |-> 0]
  /\ Finish("decode")
  /\ UNCHANGED <<program, haltAddr, predictorVars, memory, latchVars,
                 fromFetch, fetchPC, fromExecute, fromMem, stallNextTick,
                 failedPrediction, exceptions, controlVars, historyVars>>

PostResult ==
  IF PostsResult(toExecute)
    THEN /\ pipelineController!StoreResultAfterExecution(Result(toExecute))
         /\ UNCHANGED <<usedQueueSize, registerFile>>
    ELSE UNCHANGED hazardVars

\* A branch or a jump takes the predictor's mutex in checkPrediction.
ReachesPredictor == FetchFirst => thread["fetch"] = "done"

\* What the execute routine throws; checkPrediction does when nothing is
\* predicted.
ExecuteException ==
  IF PostsResult(toExecute) /\ ~pipelineController!CanStoreAfterExecution
    THEN "PipelineHazard"
  ELSE IF /\ toExecute.op \in Control /\ ExecuteFault(toExecute) = "none"
          /\ ReachesPredictor /\ predictions = <<>>
    THEN "BranchPredictor"
  ELSE ExecuteFault(toExecute)

ExecuteThrow ==
  /\ thread["execute"] = "run"
  /\ ExecuteException # "none"
  /\ PostResult
  /\ Finish("execute") /\ Throw("execute", ExecuteException)
  /\ UNCHANGED <<program, haltAddr, predictorVars, memory, latchVars, resultVars,
                 stallNextTick, failedPrediction, controlVars>>

\* Anything but a branch or a jump.
Execute ==
  /\ thread["execute"] = "run"
  /\ toExecute.op \notin Control /\ ExecuteException = "none"
  /\ PostResult
  /\ fromExecute' = [toExecute EXCEPT !.result = Result(toExecute)]
  /\ Finish("execute")
  /\ UNCHANGED <<program, haltAddr, predictorVars, memory, latchVars,
                 fromFetch, fetchPC, fromDecode, fromMem, stallNextTick,
                 failedPrediction, exceptions, controlVars, historyVars>>

ExecutesControl ==
  /\ thread["execute"] = "run"
  /\ toExecute.op \in Control /\ ExecuteException = "none"
  /\ ReachesPredictor

ExecutePredicted ==
  /\ ExecutesControl
  /\ branchPredictor!CorrectPrediction(NextPC(toExecute))
  /\ PostResult
  /\ fromExecute' = [toExecute EXCEPT !.result = Result(toExecute)]
  /\ Finish("execute")
  /\ UNCHANGED <<program, haltAddr, memory, latchVars, fromFetch, fetchPC,
                 fromDecode, fromMem, stallNextTick, failedPrediction,
                 exceptions, controlVars, historyVars>>

\* FailedBranchPredictionException: fromExecute is left as it was.
ExecuteMispredicted ==
  /\ ExecutesControl
  /\ branchPredictor!FailedPrediction(NextPC(toExecute))
  /\ PostResult
  /\ failedPrediction' = TRUE
  /\ redirect' = NextPC(toExecute)
  /\ clean' = (clean /\ toExecute.rd = 0)
  /\ Finish("execute")
  /\ UNCHANGED <<program, haltAddr, memory, latchVars, resultVars, stallNextTick,
                 exceptions, controlVars>>

MemoryThrow ==
  /\ thread["memoryAccess"] = "run"
  /\ MemoryFault(toMem) # "none"
  /\ Finish("memoryAccess") /\ Throw("memoryAccess", MemoryFault(toMem))
  /\ UNCHANGED <<program, haltAddr, hazardVars, predictorVars, memory, latchVars,
                 resultVars, stallNextTick, failedPrediction, controlVars>>

\* memLoad, which posts what it read; memStore; or no routine.  The model
\* follows a program as long as it accesses no word but those of DataAddress.
MemoryAccess ==
  /\ thread["memoryAccess"] = "run"
  /\ MemoryFault(toMem) = "none"
  /\ toMem.op \in Loads \cup Stores => toMem.result \in DataAddress
  /\ IF toMem.op \in Loads
       THEN /\ fromMem' = [toMem EXCEPT !.result = memory[toMem.result]]
            /\ pipelineController!StoreResultAfterMemoryAccess(memory[toMem.result])
            /\ UNCHANGED <<usedQueueSize, registerFile>>
       ELSE fromMem' = toMem /\ UNCHANGED hazardVars
  /\ memory' = IF toMem.op \in Stores
                 THEN [memory EXCEPT ![toMem.result] = toMem.v2]
                 ELSE memory
  /\ Finish("memoryAccess")
  /\ UNCHANGED <<program, haltAddr, predictorVars, latchVars, fromFetch, fetchPC,
                 fromDecode, fromExecute, stallNextTick, failedPrediction,
                 exceptions, controlVars, historyVars>>

Writeback ==
  /\ thread["writeback"] = "run"
  /\ IF WritesBack(toWB)
       THEN /\ pipelineController!WriteRegister(toWB.rd, toWB.result)
            /\ UNCHANGED <<hazardQueue, usedQueueSize>>
       ELSE UNCHANGED hazardVars
  /\ Finish("writeback")
  /\ UNCHANGED <<program, haltAddr, predictorVars, memory, latchVars, resultVars,
                 stallNextTick, failedPrediction, exceptions, controlVars, historyVars>>

-----------------------------------------------------------------------------
(* tick() from the last join on. *)

Joined == phase = "tick" /\ \A s \in Stages : thread[s] = "done"

\* Mutant: a failed prediction does not drop what was fetched.
NextDecodePCFetched ==
  IF shouldFlush THEN NoPC ELSE IF stallNextTick THEN decodePC ELSE fetchPC

NextDecodePC ==
  IF failedPrediction \/ shouldFlush THEN NoPC
  ELSE IF stallNextTick THEN decodePC
  ELSE fetchPC

\* Mutants of Latch: the squashed instruction goes on; or it stays in the
\* hazard controller.
LatchUnsquashed ==
  /\ toWB' = fromMem /\ toMem' = fromExecute /\ toExecute' = fromDecode
  /\ redirect' = IF NextDecodePC = NoPC THEN redirect ELSE NoPC
  /\ UNCHANGED <<program, haltAddr, hazardVars, predictorVars, memory, resultVars,
                 tickVars, clean>>
LatchUnqueued ==
  /\ toWB' = fromMem /\ toMem' = fromExecute
  /\ toExecute' = IF failedPrediction THEN NOP ELSE fromDecode
  /\ redirect' = IF NextDecodePC = NoPC THEN redirect ELSE NoPC
  /\ UNCHANGED <<program, haltAddr, hazardVars, predictorVars, memory, resultVars,
                 tickVars, clean>>

\* The latches move; a failed prediction and a flush feed NOPs.  The NOP of a
\* failed prediction is enqueued over what the decode stage had enqueued.
Latch ==
  /\ toWB' = fromMem
  /\ toMem' = fromExecute
  /\ toExecute' = IF failedPrediction THEN NOP ELSE fromDecode
  /\ IF failedPrediction THEN pipelineController!Enqueue(0) ELSE UNCHANGED hazardVars
  /\ redirect' = IF NextDecodePC = NoPC THEN redirect ELSE NoPC
  /\ UNCHANGED <<program, haltAddr, predictorVars, memory, resultVars, tickVars,
                 clean>>

LatchDecode ==
  /\ toDecode' = IF failedPrediction \/ shouldFlush THEN NopWord
                 ELSE IF stallNextTick THEN toDecode
                 ELSE fromFetch
  /\ decodePC' = NextDecodePC

\* The exception the caller gets: the one of the last stage that threw.
TickException ==
  IF exceptions["writeback"] # "none" THEN exceptions["writeback"]
  ELSE IF exceptions["memoryAccess"] # "none" THEN exceptions["memoryAccess"]
  ELSE IF exceptions["execute"] # "none" THEN exceptions["execute"]
  ELSE IF exceptions["decode"] # "none" THEN exceptions["decode"]
  ELSE exceptions["fetch"]

\* The tick compares decodePC with haltAddr, by
\* bytesGreaterOrequalToUnsigned, which throws when it gets no bytes.
ChecksHalt == ~willHalt /\ haltAddr # NoPC
MeetsHalt  == ChecksHalt /\ NextDecodePC # NoPC /\ NextDecodePC >= haltAddr
HaltThrows == ChecksHalt /\ NextDecodePC = NoPC

\* haltAddr is met: the tick goes on into flush().  What the stages of this
\* tick threw is never looked at, and stall keeps its value.
TickHalts ==
  /\ Joined /\ MeetsHalt
  /\ Latch
  /\ toDecode' = NopWord /\ decodePC' = NoPC
  /\ haltedAt' = NextDecodePC
  /\ shouldFlush' = TRUE /\ willHalt' = TRUE
  /\ flushing' = "halt" /\ flushLeft' = 4
  /\ phase' = "idle"
  /\ UNCHANGED <<stall, exception>>

\* The comparison throws out of the thread that runs the tick.
TickTerminates ==
  /\ Joined /\ HaltThrows
  /\ Latch /\ LatchDecode
  /\ phase' = "terminated"
  /\ UNCHANGED <<stall, shouldFlush, willHalt, flushing, flushLeft, exception, haltedAt>>

\* A tick outside flush() returns.
TickEnds ==
  /\ Joined /\ flushing = "none" /\ ~MeetsHalt /\ ~HaltThrows
  /\ Latch /\ LatchDecode
  /\ stall' = stallNextTick
  /\ exception' = TickException
  /\ phase' = IF TickException = "none" THEN "idle" ELSE "stopped"
  /\ UNCHANGED <<shouldFlush, willHalt, flushing, flushLeft, haltedAt>>

\* A tick of flush() returns.  An exception leaves the loop before shouldFlush
\* is reset; the flush command prints it and the emulator goes on.  The flush
\* of a halt ends the run, with HaltedProcessor if nothing else was thrown.
FlushTickEnds ==
  /\ Joined /\ flushing # "none" /\ ~MeetsHalt /\ ~HaltThrows
  /\ Latch /\ LatchDecode
  /\ stall' = stallNextTick
  /\ LET over == TickException # "none" \/ flushLeft = 1
     IN  /\ flushLeft' = IF over THEN 0 ELSE flushLeft - 1
         /\ flushing' = IF over THEN "none" ELSE flushing
         /\ shouldFlush' = ~(over /\ TickException = "none")
         /\ phase' = IF over /\ flushing = "halt" THEN "stopped" ELSE "idle"
         /\ exception' = IF over /\ flushing = "halt" /\ TickException = "none"
                           THEN "HaltedProcessor"
                           ELSE TickException
  /\ UNCHANGED <<willHalt, haltedAt>>

-----------------------------------------------------------------------------

DecodeStep  == DecodeUndefined \/ DecodeStall \/ DecodeCheck \/ DecodeHazard \/ DecodeRead
ExecuteStep == ExecuteThrow \/ Execute \/ ExecutePredicted \/ ExecuteMispredicted
StageStep   == \/ FetchRethrow \/ Fetch \/ DecodeStep \/ ExecuteStep
               \/ MemoryThrow \/ MemoryAccess \/ Writeback
TickEnd     == TickHalts \/ TickTerminates \/ TickEnds \/ FlushTickEnds
Tick        == TickStart \/ StageStep \/ TickEnd

Next == Flush \/ Tick

Spec == Init /\ [][Next]_vars

=============================================================================
