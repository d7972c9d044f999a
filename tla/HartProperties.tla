--------------------------- MODULE HartProperties ---------------------------
(***************************************************************************)
(* What makes a HART correct: its type invariant, its safety and liveness  *)
(* properties, and the refinement mapping to module ISA.  Below them are   *)
(* statements of the sources and the README about the HART that do not     *)
(* hold of the code; the README of this directory explains each.           *)
(***************************************************************************)
EXTENDS Hart

Instruction == [op : Op \cup {"empty", "nop"}, rd : Nat, imm : Int,
                pc : Address \cup {NoPC}, v1 : Value, v2 : Value, result : Value]

Exceptions == {"none", "BranchPredictor", "PipelineHazard", "UndefinedInstruction",
               "AddressMisaligned", "AddressOutOfMemory"}

ProgramTypeOK ==
  /\ program \in [Address -> Word] /\ haltAddr \in HaltAddrs
  /\ memory \in [DataAddress -> Value]

PredictorTypeOK ==
  /\ PCQueue \in Seq(Address) /\ predictions \in Seq(Address \cup {NoPC})
  /\ workloopException \in BOOLEAN

LatchTypeOK ==
  /\ fromFetch \in Word \cup {NoWord} /\ fetchPC \in Address \cup {NoPC}
  /\ toDecode \in Word \cup {NoWord} /\ decodePC \in Address \cup {NoPC}
  /\ {fromDecode, fromExecute, fromMem, toExecute, toMem, toWB} \subseteq Instruction

TickTypeOK ==
  /\ stallNextTick \in BOOLEAN /\ failedPrediction \in BOOLEAN
  /\ exceptions \in [Stages -> Exceptions]
  /\ thread \in [Stages -> {"done", "run", "read"}]

ControlTypeOK ==
  /\ stall \in BOOLEAN /\ shouldFlush \in BOOLEAN /\ willHalt \in BOOLEAN
  /\ phase \in {"idle", "tick", "stopped", "terminated"}
  /\ flushing \in {"none", "user", "halt"}
  /\ flushLeft \in IF flushing = "none" THEN {0} ELSE 1 .. 4
  /\ exception \in Exceptions \cup {"HaltedProcessor"}
  /\ haltedAt \in Address \cup {NoPC}

HistoryTypeOK == redirect \in Address \cup {NoPC} /\ clean \in BOOLEAN

\* The type invariant of the HART's fields and of what the model adds.
TypeOK ==
  /\ ProgramTypeOK /\ pipelineController!HazardTypeOK /\ PredictorTypeOK
  /\ LatchTypeOK /\ TickTypeOK /\ ControlTypeOK /\ HistoryTypeOK

-----------------------------------------------------------------------------
(* The state of the machine of the manual, as a function of the HART's: an *)
(* instruction takes effect when the tick that executed it ends, and what  *)
(* it has still to write is in toMem and toWB.                             *)

Commit(registers, ins, result) ==
  [r \in Reg |-> IF WritesBack(ins) /\ r = ins.rd /\ r # 0 THEN result ELSE registers[r]]

\* The result of an instruction past execute, of a load what it reads.
FinalResult(ins) ==
  IF ins.op \in Loads THEN memory[ins.result] ELSE ins.result

\* A load that faults in the memory stage never takes effect.
Registers ==
  LET written == Commit(registerFile, toWB, toWB.result)
  IN  IF MemoryFault(toMem) = "none" THEN Commit(written, toMem, FinalResult(toMem))
                                     ELSE written

Memory ==
  IF toMem.op \in Stores /\ MemoryFault(toMem) = "none"
    THEN [memory EXCEPT ![toMem.result] = toMem.v2]
    ELSE memory

FetchedThisTick ==
  /\ phase = "tick" /\ ~stall /\ ~shouldFlush
  /\ thread["fetch"] = "done" /\ exceptions["fetch"] = "none"

\* The oldest instruction that has not taken effect.
PC ==
  IF MemoryFault(toMem) # "none" THEN toMem.pc
  ELSE IF toExecute.pc # NoPC THEN toExecute.pc
  ELSE IF decodePC # NoPC THEN decodePC
  ELSE IF haltedAt # NoPC THEN haltedAt
  ELSE IF FetchedThisTick THEN fetchPC
  ELSE Head(PCQueue)

Outcome ==
  IF phase = "terminated" THEN "terminated"
  ELSE IF phase # "stopped" THEN "running"
  ELSE IF exception = "HaltedProcessor" THEN "halted"
  ELSE IF \E s \in {"execute", "memoryAccess"} : exceptions[s] # "none" THEN "exception"
  ELSE "abandoned"

Machine == INSTANCE ISA WITH pc <- PC, registers <- Registers,
                             memory <- Memory, outcome <- Outcome

\* The HART implements the machine of the manual: whatever the interleaving
\* of its stage threads, with all stalls, forwarding and predictions, the
\* instructions take effect one at a time and in program order, a run that
\* --halt ends has executed exactly those before the halt address, and one that
\* the execute or the memory stage ends has executed exactly those before an
\* instruction that does fault: squashed ones raise nothing there
\* (Hart::tick; README "The General Design").
ImplementsISA == Machine!Spec

-----------------------------------------------------------------------------

\* From the moment the decode stage has found its sources not stale to the
\* moment it reads them, the hazard controller has for each of them the value
\* of its last writer in program order, wherever in the pipeline that is, and
\* however the execute, memory and writeback threads of the tick run on
\* meanwhile: check and fetch take the controller's mutex separately
\* (RV32I::decode*, PipelineHazardController::fetchRegisterValue).
OperandsUpToDate ==
  clean /\ thread["decode"] = "read" =>
    \A reg \in Sources(toDecode) \ {0} :
      /\ ~(WritesBack(toExecute) /\ toExecute.rd = reg)
      /\ pipelineController!FetchRegisterValue(reg) = Registers[reg]

\* A tick that reports a failed prediction has the wrong instruction behind
\* the branch, and one that reports none has the right one: the executingQueue
\* of the predictor, the HART's latches and the stalls never get out of step
\* (SimpleBranchPredictor::checkPrediction, Hart::tick).
PredictionCheckExact ==
  [][ thread["execute"] = "run" /\ thread'["execute"] = "done"
      /\ toExecute.op \in Control /\ ExecuteFault(toExecute) = "none"
      /\ decodePC # NoPC
      => (failedPrediction' <=> decodePC # NextPC(toExecute)) ]_vars

\* After a failed prediction the next instruction to reach the decode stage
\* is the one at the address the branch goes to: nothing that was fetched on
\* the wrong path is decoded, and the first instruction of the right path is
\* not lost (Hart::tick, "set next to be decoded to NOP").
RedirectTaken ==
  [][ Joined /\ redirect # NoPC /\ NextDecodePC # NoPC => NextDecodePC = redirect ]_vars

\* The HART's caller goes on calling tick, and every thread gets to run.
FairSpec == Spec /\ WF_vars(Tick)

\* No thread blocks a tick, and no dependency, stall or failed prediction keeps
\* the pipeline empty for ever: until the run ends, instructions of the program
\* reach execute again and again (Hart::tick, stall).
KeepsExecuting ==
  \/ <>(phase \in {"stopped", "terminated"})
  \/ []<>(phase = "idle" /\ toExecute.pc # NoPC)

-----------------------------------------------------------------------------
(* Statements of the sources that the code breaks. *)

\* "progressing an instruction in the pipeline by one stage on each call"
\* (README, of Hart::tick): what was executed is in the memory stage next.
ProgressesByOneStage ==
  [][ TickEnds /\ TickException = "none" => toMem'.pc = toExecute.pc ]_vars

\* "Get the first most value in the queue, this should be next instruction to
\* execute as predicted by the bp" (SimpleBranchPredictor::checkPrediction).
FrontIsNextInstruction ==
  [][ thread["execute"] = "run" /\ predictions # <<>> /\ decodePC # NoPC
      /\ (ExecutePredicted \/ ExecuteMispredicted)
      => Head(predictions) = decodePC ]_vars

\* "An address to halt the processor at if reached" (README, --halt): the
\* comparison with the halt address does not end the process.
NeverTerminates == phase # "terminated"

=============================================================================
