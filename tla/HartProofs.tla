----------------------------- MODULE HartProofs -----------------------------
(***************************************************************************)
(* Proofs about module Hart, for every program, memory size, register file *)
(* and register width.                                                     *)
(***************************************************************************)
EXTENDS HartProperties, SequenceTheorems, TLAPS

-----------------------------------------------------------------------------
(* The constants, and the routines of RV32I. *)

\* What the assumptions of the modules say of the constants.
LEMMA ConstantsOK ==
  /\ Width \in Nat /\ Width >= 4 /\ MemSize \in Nat /\ MemSize >= 4 /\ MemSize <= Width
  /\ 0 \in Address /\ 0 \in Value /\ Address \subseteq Value
  /\ Address \subseteq Int /\ Value \subseteq Int
  /\ NoPC \notin Address /\ NoPC \notin Int /\ NoVal \notin Value
  /\ 0 \in Reg /\ Reg \subseteq Nat
  /\ GarbageRD \subseteq Nat /\ GarbageRD # {}
BY RV32IAssumption, HartAssumption DEF RV32IAssumption, HartAssumption, Address, Value

\* Arithmetic modulo the width of a register yields a register value.
LEMMA ModWidth ==
  ASSUME NEW n \in Int
  PROVE  n % Width \in Value
BY ConstantsOK DEF Value

\* The instructions whose routines read the PC.
UsesPC(ins) == ins.op \in Control \cup {"auipc"}

\* The execute stage of an instruction leaves a register value, if the
\* instruction has the PC it needs (the routines of RV32I::execute*).
LEMMA ResultType ==
  ASSUME NEW ins \in Instruction, UsesPC(ins) => ins.pc \in Address
  PROVE  Result(ins) \in Value
<1> USE DEF Instruction
<1>1. ins.imm \in Int /\ ins.v1 \in Int /\ ins.v2 \in Int
  BY ConstantsOK
<1>2. UsesPC(ins) => ins.pc \in Int
  BY ConstantsOK
<1>3. CASE ins.op \in Branches
  <2>1. UsesPC(ins) /\ NextPC(ins) = (IF Taken(ins) THEN ins.pc + ins.imm ELSE ins.pc + 4) % Width
    BY <1>3 DEF UsesPC, NextPC, Control, Branches
  <2>2. NextPC(ins) \in Value
    BY <2>1, <1>1, <1>2, ModWidth
  <2>3. Result(ins) = NextPC(ins) % Width
    BY <1>3 DEF Result, Branches, Jumps
  <2> QED BY <2>2, <2>3, ModWidth, ConstantsOK
<1>4. CASE ins.op \in Jumps
  <2>1. ins.pc + 4 \in Int
    BY <1>2, <1>4 DEF UsesPC, Control
  <2>2. Result(ins) = (ins.pc + 4) % Width
    BY <1>4 DEF Result, Jumps, Branches
  <2> QED BY <2>1, <2>2, ModWidth
<1>5. CASE ins.op = "auipc"
  <2>1. ins.pc + ins.imm \in Int
    BY <1>1, <1>2, <1>5 DEF UsesPC
  <2>2. Result(ins) = (ins.pc + ins.imm) % Width
    BY <1>5 DEF Result, Jumps, Branches
  <2> QED BY <2>1, <2>2, ModWidth
<1>6. CASE ins.op \notin Control \cup {"auipc"}
  BY <1>1, <1>6, ModWidth DEF Result, Control, Branches, Jumps
<1> QED BY <1>3, <1>4, <1>5, <1>6 DEF Control

\* The target of a branch or jump that does not throw is an aligned address in
\* memory (RV32I::executeBranchRoutine and the routines of the jumps).
LEMMA TargetType ==
  ASSUME NEW ins \in Instruction, ins.op \in Control, ins.pc \in Address,
         ExecuteFault(ins) = "none"
  PROVE  NextPC(ins) \in Address
<1>1. ins.imm \in Int /\ ins.v1 \in Int /\ ins.pc \in Int
  BY ConstantsOK DEF Instruction
<1>2. NextPC(ins) \in Value
  <2>1. CASE ins.op \in Branches
    <3>1. NextPC(ins) = (IF Taken(ins) THEN ins.pc + ins.imm ELSE ins.pc + 4) % Width
      BY <2>1 DEF NextPC, Branches
    <3> QED BY <1>1, <3>1, ModWidth
  <2>2. CASE ins.op \in Jumps
    BY <1>1, <2>2, ModWidth DEF NextPC, Jumps, Branches
  <2> QED BY <2>1, <2>2 DEF Control
<1>3. NextPC(ins) % 4 = 0 /\ ~(NextPC(ins) >= MemSize)
  BY DEF ExecuteFault, Control, Loads, Stores, Branches, Jumps
<1> QED BY <1>2, <1>3, ConstantsOK DEF Address, Value

-----------------------------------------------------------------------------
(* The look-ahead of the predictor. *)

\* A prediction that does not fail is an aligned address in memory
\* (SimpleBranchPredictor::predictionWorkloop).
LEMMA PredictedNextType ==
  ASSUME ProgramTypeOK, NEW pc \in Address,
         ~branchPredictor!PredictionFails(pc)
  PROVE  branchPredictor!PredictedNext(pc) \in Address
<1>1. program[pc].imm \in Int /\ pc \in Int
  BY ConstantsOK DEF ProgramTypeOK, Word
<1>2. branchPredictor!PredictedNext(pc) \in Value
  <2>1. (pc + program[pc].imm) % Width \in Value /\ (pc + 4) % Width \in Value
    BY <1>1, ModWidth
  <2> QED BY <2>1 DEF branchPredictor!PredictedNext
<1>3. /\ branchPredictor!PredictedNext(pc) % 4 = 0
      /\ ~(branchPredictor!PredictedNext(pc) >= MemSize)
  BY DEF branchPredictor!PredictionFails
<1> QED BY <1>2, <1>3, ConstantsOK DEF Address, Value

\* A queue of PCs the predictor can be in between two of its turns.
LookAhead(queue) ==
  /\ queue \in Seq(Address)
  /\ Len(queue) >= 1 /\ Len(queue) <= branchPredictor!QueueSize

\* One turn of the loop keeps the queue a queue of addresses within its size
\* (SimpleBranchPredictor::predictionWorkloop).
LEMMA ExtendType ==
  ASSUME ProgramTypeOK, NEW queue, LookAhead(queue)
  PROVE  LookAhead(branchPredictor!Extend[queue])
<1>1. queue \in Seq(Address) /\ queue \in Seq(Int) /\ Len(queue) \in Nat
  <2>1. Seq(Address) \subseteq Seq(Int)
    BY ConstantsOK, SeqMonotonic
  <2> QED BY <2>1 DEF LookAhead
<1>2. branchPredictor!LastPC(queue) \in Address
  BY <1>1 DEF LookAhead, branchPredictor!LastPC
<1> DEFINE last == branchPredictor!LastPC(queue)
<1>3. branchPredictor!Extend[queue] =
        IF Len(queue) < branchPredictor!QueueSize /\ ~branchPredictor!PredictionFails(last)
          THEN Append(queue, branchPredictor!PredictedNext(last))
          ELSE queue
  BY <1>1 DEF branchPredictor!Extend
<1>4. CASE Len(queue) < branchPredictor!QueueSize /\ ~branchPredictor!PredictionFails(last)
  <2>1. branchPredictor!PredictedNext(last) \in Address
    BY <1>2, <1>4, PredictedNextType
  <2>2. branchPredictor!Extend[queue] = Append(queue, branchPredictor!PredictedNext(last))
    BY <1>3, <1>4
  <2> QED BY <1>1, <1>4, <2>1, <2>2 DEF LookAhead, branchPredictor!QueueSize
<1>5. CASE ~(Len(queue) < branchPredictor!QueueSize /\ ~branchPredictor!PredictionFails(last))
  BY <1>3, <1>5
<1> QED BY <1>4, <1>5

\* The queue after the whole loop: unless the loop ended in an exception it is
\* full (SimpleBranchPredictor::predictionWorkloop).
LEMMA FillType ==
  ASSUME ProgramTypeOK, NEW queue, LookAhead(queue)
  PROVE  /\ LookAhead(branchPredictor!Fill(queue))
         /\ branchPredictor!FillFails(queue) \in BOOLEAN
         /\ ~branchPredictor!FillFails(queue) =>
              Len(branchPredictor!Fill(queue)) = branchPredictor!QueueSize
<1>1. LookAhead(branchPredictor!Fill(queue))
  BY ExtendType DEF branchPredictor!Fill
<1>2. /\ Len(branchPredictor!Fill(queue)) \in Nat
      /\ Len(branchPredictor!Fill(queue)) <= 4
  BY <1>1 DEF LookAhead, branchPredictor!QueueSize
<1>3. branchPredictor!FillFails(queue) \in BOOLEAN
  BY DEF branchPredictor!FillFails
<1>4. \A n \in Nat : n <= 4 /\ ~(n < 4) => n = 4
  OBVIOUS
<1>5. ASSUME ~branchPredictor!FillFails(queue)
      PROVE  Len(branchPredictor!Fill(queue)) = branchPredictor!QueueSize
  <2>1. ~(Len(branchPredictor!Fill(queue)) < 4)
    BY <1>5 DEF branchPredictor!FillFails, branchPredictor!QueueSize
  <2>2. Len(branchPredictor!Fill(queue)) = 4
    BY <1>2, <1>4, <2>1, Zenon
  <2> QED BY <2>2 DEF branchPredictor!QueueSize
<1> QED BY <1>1, <1>3, <1>5

-----------------------------------------------------------------------------
(* The operations of the hazard controller and of the predictor keep the   *)
(* types of their state.                                                   *)

HazardOK == pipelineController!HazardTypeOK

\* The queue is full unless the look-ahead met an exception, which every later
\* getNextPC throws: front() is never called on an empty queue.
PredictorOK ==
  /\ PredictorTypeOK
  /\ LookAhead(PCQueue)
  /\ ~workloopException => Len(PCQueue) = branchPredictor!QueueSize

LEMMA HazardUnchanged == HazardOK /\ UNCHANGED hazardVars => HazardOK'
BY DEF HazardOK, hazardVars, pipelineController!HazardTypeOK

LEMMA BumpType == HazardOK /\ pipelineController!Bump => HazardOK'
<1> SUFFICES ASSUME HazardOK, pipelineController!Bump PROVE HazardOK'
  OBVIOUS
<1> USE DEF HazardOK, pipelineController!HazardTypeOK, pipelineController!Entry,
            pipelineController!Stage, pipelineController!NUM_STAGES,
            pipelineController!STAGE_DECODE
<1>1. hazardQueue' \in [pipelineController!Stage -> pipelineController!Entry]
  BY ConstantsOK DEF pipelineController!Bump
<1>2. usedQueueSize' \in 0 .. pipelineController!NUM_STAGES
  BY DEF pipelineController!Bump
<1>3. registerFile' = registerFile
  BY DEF pipelineController!Bump
<1> QED BY <1>1, <1>2, <1>3

LEMMA EnqueueType ==
  ASSUME HazardOK, NEW rd \in Nat, pipelineController!Enqueue(rd)
  PROVE  HazardOK'
BY DEF HazardOK, pipelineController!HazardTypeOK, pipelineController!Entry,
       pipelineController!Stage, pipelineController!Enqueue

LEMMA StoreAfterExecutionType ==
  ASSUME HazardOK, NEW result \in Value, UNCHANGED <<usedQueueSize, registerFile>>,
         pipelineController!StoreResultAfterExecution(result)
  PROVE  HazardOK'
BY DEF HazardOK, pipelineController!HazardTypeOK, pipelineController!Entry,
       pipelineController!Stage, pipelineController!StoreResultAfterExecution

LEMMA StoreAfterMemoryType ==
  ASSUME HazardOK, NEW result \in Value, UNCHANGED <<usedQueueSize, registerFile>>,
         pipelineController!StoreResultAfterMemoryAccess(result)
  PROVE  HazardOK'
BY DEF HazardOK, pipelineController!HazardTypeOK, pipelineController!Entry,
       pipelineController!Stage, pipelineController!StoreResultAfterMemoryAccess

LEMMA WriteRegisterType ==
  ASSUME HazardOK, NEW reg, NEW val \in Value, UNCHANGED <<hazardQueue, usedQueueSize>>,
         pipelineController!WriteRegister(reg, val)
  PROVE  HazardOK'
BY DEF HazardOK, pipelineController!HazardTypeOK, pipelineController!WriteRegister

\* A register that is fetched without an exception has a value.
LEMMA FetchType ==
  ASSUME HazardOK, NEW reg \in Reg,
         pipelineController!FetchRegisterValue(reg) # NoVal
  PROVE  pipelineController!FetchRegisterValue(reg) \in Value
BY ConstantsOK
   DEF HazardOK, pipelineController!HazardTypeOK, pipelineController!Entry,
       pipelineController!Stage, pipelineController!NUM_STAGES, pipelineController!STAGE_MEM,
       pipelineController!STAGE_WB, pipelineController!FetchRegisterValue

LEMMA PredictorUnchanged == PredictorOK /\ UNCHANGED predictorVars => PredictorOK'
BY DEF PredictorOK, PredictorTypeOK, predictorVars, LookAhead, branchPredictor!QueueSize

LEMMA DropOldestType ==
  ASSUME NEW S, NEW queue \in Seq(S)
  PROVE  branchPredictor!DropOldest(queue) \in Seq(S)
BY DEF branchPredictor!DropOldest

LEMMA GetNextPCType ==
  ASSUME ProgramTypeOK, PredictorOK, branchPredictor!GetNextPC
  PROVE  PredictorOK' /\ Head(PCQueue) \in Address
<1>1. /\ PCQueue \in Seq(Address) /\ predictions \in Seq(Address \cup {NoPC})
      /\ Len(PCQueue) = 4
  BY DEF PredictorOK, PredictorTypeOK, branchPredictor!GetNextPC, branchPredictor!QueueSize
<1>2. /\ Head(PCQueue) \in Address /\ PCQueue[2] \in Address
      /\ Tail(PCQueue) \in Seq(Address) /\ Len(Tail(PCQueue)) = 3
  <2>1. PCQueue # <<>>
    <3>1. Len(<<>>) = 0
      BY EmptySeq
    <3> QED BY <1>1, <3>1
  <2>2. 2 \in 1 .. Len(PCQueue)
    BY <1>1
  <2>3. PCQueue[2] \in Address
    BY <1>1, <2>2, ElementOfSeq
  <2>4. /\ Head(PCQueue) \in Address /\ Tail(PCQueue) \in Seq(Address)
        /\ Len(Tail(PCQueue)) = Len(PCQueue) - 1
    BY <1>1, <2>1, HeadTailProperties
  <2> QED BY <1>1, <2>3, <2>4
<1>3. LookAhead(Tail(PCQueue))
  <2>1. \A queue \in Seq(Address) : Len(queue) = 3 => LookAhead(queue)
    BY DEF LookAhead, branchPredictor!QueueSize
  <2> QED BY <1>2, <2>1, Zenon
<1>4. predictions' \in Seq(Address \cup {NoPC})
  <2>1. branchPredictor!DropOldest(predictions) \in Seq(Address \cup {NoPC})
    BY <1>1, DropOldestType
  <2> QED BY <2>1, <1>2 DEF branchPredictor!GetNextPC
<1>5. /\ LookAhead(PCQueue') /\ workloopException' \in BOOLEAN
      /\ ~workloopException' => Len(PCQueue') = branchPredictor!QueueSize
  BY <1>3, FillType DEF branchPredictor!GetNextPC
<1> QED BY <1>2, <1>4, <1>5
        DEF PredictorOK, PredictorTypeOK, LookAhead, branchPredictor!QueueSize

LEMMA CorrectPredictionType ==
  ASSUME PredictorOK, predictions # <<>>, NEW a, branchPredictor!CorrectPrediction(a)
  PROVE  PredictorOK'
<1>1. predictions' \in Seq(Address \cup {NoPC})
  BY DEF PredictorOK, PredictorTypeOK, branchPredictor!CorrectPrediction
<1> QED BY <1>1 DEF PredictorOK, PredictorTypeOK, LookAhead, branchPredictor!QueueSize,
                    branchPredictor!CorrectPrediction

LEMMA FailedPredictionType ==
  ASSUME ProgramTypeOK, PredictorOK, predictions # <<>>,
         NEW a \in Address, branchPredictor!FailedPrediction(a)
  PROVE  PredictorOK'
<1>1. predictions' \in Seq(Address \cup {NoPC})
  BY DEF PredictorOK, PredictorTypeOK, branchPredictor!FailedPrediction
<1>2. LookAhead(<<a>>)
  BY DEF LookAhead, branchPredictor!QueueSize
<1>3. /\ LookAhead(PCQueue') /\ workloopException' \in BOOLEAN
      /\ ~workloopException' => Len(PCQueue') = branchPredictor!QueueSize
  BY <1>2, FillType DEF PredictorOK, PredictorTypeOK, branchPredictor!FailedPrediction
<1> QED BY <1>1, <1>3 DEF PredictorOK, PredictorTypeOK, LookAhead, branchPredictor!QueueSize

LEMMA HandleFlushType == PredictorOK /\ branchPredictor!HandleFlush => PredictorOK'
<1> SUFFICES ASSUME PredictorOK, branchPredictor!HandleFlush PROVE PredictorOK'
  OBVIOUS
<1>1. predictions' \in Seq(Address \cup {NoPC})
  <2>1. branchPredictor!DropOldest(predictions) \in Seq(Address \cup {NoPC})
    BY DropOldestType DEF PredictorOK, PredictorTypeOK
  <2> QED BY <2>1 DEF branchPredictor!HandleFlush
<1> QED BY <1>1 DEF PredictorOK, PredictorTypeOK, LookAhead, branchPredictor!QueueSize,
                    branchPredictor!HandleFlush

-----------------------------------------------------------------------------
(* The inductive invariant behind TypeOK.  Types alone are not inductive: *)
(* an instruction computes with its PC and with the targets the predictor  *)
(* gave it, so what the stages hand on must have a PC where it is used.    *)

\* What the fetch and decode stages hand on has a PC, unless it is a NOP.
PCsOK ==
  /\ decodePC = NoPC => toDecode.op \in {"add", "empty"}
  /\ fetchPC = NoPC => fromFetch.op \in {"add", "empty"}
  /\ UsesPC(fromDecode) => fromDecode.pc \in Address
  /\ UsesPC(toExecute) => toExecute.pc \in Address

LatchOK == LatchTypeOK /\ PCsOK

TypeInv == /\ ProgramTypeOK /\ HazardOK /\ PredictorOK /\ LatchOK
           /\ TickTypeOK /\ ControlTypeOK /\ HistoryTypeOK

LEMMA TypeInvImplies == TypeInv => TypeOK
BY DEF TypeInv, TypeOK, HazardOK, PredictorOK, LatchOK

LEMMA ProgramUnchanged ==
  ProgramTypeOK /\ UNCHANGED <<program, haltAddr, memory>> => ProgramTypeOK'
BY DEF ProgramTypeOK

LEMMA LatchUnchanged == LatchOK /\ UNCHANGED latchVars /\ UNCHANGED resultVars => LatchOK'
BY DEF LatchOK, LatchTypeOK, PCsOK, UsesPC, latchVars, resultVars

LEMMA ControlUnchanged == ControlTypeOK /\ UNCHANGED controlVars => ControlTypeOK'
BY DEF ControlTypeOK, controlVars

LEMMA HistoryUnchanged == HistoryTypeOK /\ UNCHANGED historyVars => HistoryTypeOK'
BY DEF HistoryTypeOK, historyVars

LEMMA TickUnchanged == TickTypeOK /\ UNCHANGED tickVars => TickTypeOK'
BY DEF TickTypeOK, tickVars

\* A thread ends, with or without an exception.
LEMMA FinishType ==
  ASSUME TickTypeOK, NEW s \in Stages, Finish(s),
         stallNextTick' \in BOOLEAN, failedPrediction' \in BOOLEAN,
         UNCHANGED exceptions
  PROVE  TickTypeOK'
BY DEF TickTypeOK, Finish

LEMMA ThrowType ==
  ASSUME TickTypeOK, HistoryTypeOK, NEW s \in Stages, NEW e \in Exceptions,
         Finish(s), Throw(s, e), UNCHANGED <<stallNextTick, failedPrediction>>
  PROVE  TickTypeOK' /\ HistoryTypeOK'
BY DEF TickTypeOK, HistoryTypeOK, Finish, Throw

\* A step of a stage that does nothing but throw.
LEMMA OnlyThrowsType ==
  ASSUME TypeInv, NEW s \in Stages, NEW e \in Exceptions, Finish(s), Throw(s, e),
         UNCHANGED <<program, haltAddr, memory>>, HazardOK',
         UNCHANGED predictorVars, UNCHANGED latchVars, UNCHANGED resultVars,
         UNCHANGED <<stallNextTick, failedPrediction>>, UNCHANGED controlVars
  PROVE  TypeInv'
BY ProgramUnchanged, PredictorUnchanged, LatchUnchanged, ControlUnchanged,
   ThrowType DEF TypeInv

-----------------------------------------------------------------------------
(* The initial state, and every step. *)

LEMMA InitType == Init => TypeInv
<1> SUFFICES ASSUME Init PROVE TypeInv
  OBVIOUS
<1>1. ProgramTypeOK
  <2>1. program \in [Address -> Word] /\ haltAddr \in HaltAddrs
    BY HartAssumption DEF HartAssumption, Init
  <2>2. memory \in [DataAddress -> Value]
    BY ConstantsOK DEF Init
  <2> QED BY <2>1, <2>2 DEF ProgramTypeOK
<1>2. HazardOK
  BY ConstantsOK
     DEF Init, HazardOK, pipelineController!HazardTypeOK, pipelineController!HazardInit,
         pipelineController!Entry, pipelineController!Stage, pipelineController!NUM_STAGES
<1>3. PredictorOK
  <2>1. LookAhead(<<0>>)
    BY ConstantsOK DEF LookAhead, branchPredictor!QueueSize
  <2>2. predictions \in Seq(Address \cup {NoPC})
    BY DEF Init, branchPredictor!PredictorInit
  <2> QED BY <1>1, <2>1, <2>2, FillType
          DEF Init, branchPredictor!PredictorInit, PredictorOK, PredictorTypeOK, LookAhead
<1>4. LatchOK
  <2>1. Default \in Instruction /\ ~UsesPC(Default)
    BY ConstantsOK DEF Default, Instruction, Op, UsesPC, Control, Branches, Jumps
  <2>2. NoWord.op = "empty"
    BY DEF NoWord, NopWord
  <2> QED BY <2>1, <2>2 DEF Init, LatchOK, LatchTypeOK, PCsOK
<1>5. TickTypeOK
  BY DEF Init, TickTypeOK, Exceptions
<1>6. ControlTypeOK
  <2>1. exception \in Exceptions
    BY DEF Init, Exceptions
  <2>2. stall \in BOOLEAN /\ shouldFlush \in BOOLEAN /\ willHalt \in BOOLEAN
    BY DEF Init
  <2> QED BY <2>1, <2>2 DEF Init, ControlTypeOK
<1>7. HistoryTypeOK
  BY DEF Init, HistoryTypeOK
<1> QED BY <1>1, <1>2, <1>3, <1>4, <1>5, <1>6, <1>7 DEF TypeInv

LEMMA FlushType == TypeInv /\ Flush => TypeInv'
<1> SUFFICES ASSUME TypeInv, Flush PROVE TypeInv'
  OBVIOUS
<1>1. ControlTypeOK'
  BY DEF TypeInv, ControlTypeOK, Flush
<1>2. /\ UNCHANGED <<program, haltAddr, memory>> /\ UNCHANGED hazardVars
      /\ UNCHANGED predictorVars /\ UNCHANGED latchVars /\ UNCHANGED resultVars
      /\ UNCHANGED tickVars /\ UNCHANGED historyVars
  BY DEF Flush
<1> QED BY <1>1, <1>2, ProgramUnchanged, HazardUnchanged, PredictorUnchanged,
           LatchUnchanged, TickUnchanged, HistoryUnchanged DEF TypeInv

LEMMA TickStartType == TypeInv /\ TickStart => TypeInv'
<1> SUFFICES ASSUME TypeInv, TickStart PROVE TypeInv'
  OBVIOUS
<1>1. PredictorOK'
  <2>1. CASE flushing # "none"
    BY <2>1, HandleFlushType DEF TypeInv, TickStart
  <2>2. CASE flushing = "none"
    BY <2>2, PredictorUnchanged DEF TypeInv, TickStart
  <2> QED BY <2>1, <2>2
<1>2. HazardOK'
  BY BumpType DEF TypeInv, TickStart
<1>3. TickTypeOK'
  BY DEF TickStart, TickTypeOK, Exceptions
<1>4. ControlTypeOK'
  BY DEF TypeInv, TickStart, ControlTypeOK, Exceptions
<1>5. /\ UNCHANGED <<program, haltAddr, memory>> /\ UNCHANGED latchVars
      /\ UNCHANGED resultVars /\ UNCHANGED historyVars
  BY DEF TickStart
<1> QED BY <1>1, <1>2, <1>3, <1>4, <1>5, ProgramUnchanged, LatchUnchanged,
           HistoryUnchanged DEF TypeInv

\* The rethrow of the fetch stage and the exceptions of the others.
LEMMA ThrowingStepsType ==
  TypeInv /\ (FetchRethrow \/ DecodeUndefined \/ DecodeHazard \/ MemoryThrow) => TypeInv'
<1>1. "fetch" \in Stages /\ "decode" \in Stages /\ "memoryAccess" \in Stages
  BY DEF Stages
<1>2. /\ "BranchPredictor" \in Exceptions /\ "UndefinedInstruction" \in Exceptions
      /\ "PipelineHazard" \in Exceptions
  BY DEF Exceptions
<1>3. ASSUME TypeInv, FetchRethrow PROVE TypeInv'
  <2>1. /\ Finish("fetch") /\ Throw("fetch", "BranchPredictor")
        /\ UNCHANGED <<program, haltAddr, memory>> /\ UNCHANGED hazardVars
        /\ UNCHANGED predictorVars /\ UNCHANGED latchVars /\ UNCHANGED resultVars
        /\ UNCHANGED <<stallNextTick, failedPrediction>> /\ UNCHANGED controlVars
    BY <1>3 DEF FetchRethrow
  <2> QED BY <1>1, <1>2, <1>3, <2>1, HazardUnchanged, OnlyThrowsType DEF TypeInv
<1>4. ASSUME TypeInv, DecodeUndefined PROVE TypeInv'
  <2>1. /\ Finish("decode") /\ Throw("decode", "UndefinedInstruction")
        /\ UNCHANGED <<program, haltAddr, memory>> /\ UNCHANGED hazardVars
        /\ UNCHANGED predictorVars /\ UNCHANGED latchVars /\ UNCHANGED resultVars
        /\ UNCHANGED <<stallNextTick, failedPrediction>> /\ UNCHANGED controlVars
    BY <1>4 DEF DecodeUndefined
  <2> QED BY <1>1, <1>2, <1>4, <2>1, HazardUnchanged, OnlyThrowsType DEF TypeInv
<1>5. ASSUME TypeInv, DecodeHazard PROVE TypeInv'
  <2>1. /\ Finish("decode") /\ Throw("decode", "PipelineHazard")
        /\ UNCHANGED <<program, haltAddr, memory>> /\ UNCHANGED hazardVars
        /\ UNCHANGED predictorVars /\ UNCHANGED latchVars /\ UNCHANGED resultVars
        /\ UNCHANGED <<stallNextTick, failedPrediction>> /\ UNCHANGED controlVars
    BY <1>5 DEF DecodeHazard
  <2> QED BY <1>1, <1>2, <1>5, <2>1, HazardUnchanged, OnlyThrowsType DEF TypeInv
<1>6. ASSUME TypeInv, MemoryThrow PROVE TypeInv'
  <2>1. /\ Finish("memoryAccess") /\ Throw("memoryAccess", MemoryFault(toMem))
        /\ UNCHANGED <<program, haltAddr, memory>> /\ UNCHANGED hazardVars
        /\ UNCHANGED predictorVars /\ UNCHANGED latchVars /\ UNCHANGED resultVars
        /\ UNCHANGED <<stallNextTick, failedPrediction>> /\ UNCHANGED controlVars
    BY <1>6 DEF MemoryThrow
  <2>2. MemoryFault(toMem) \in Exceptions
    BY DEF MemoryFault, Exceptions
  <2> QED BY <1>1, <1>6, <2>1, <2>2, HazardUnchanged, OnlyThrowsType DEF TypeInv
<1> QED BY <1>3, <1>4, <1>5, <1>6

LEMMA FetchStepType == TypeInv /\ Fetch => TypeInv'
<1> SUFFICES ASSUME TypeInv, Fetch PROVE TypeInv'
  OBVIOUS
<1>1. PredictorOK' /\ fetchPC' \in Address
  BY GetNextPCType DEF TypeInv, Fetch
<1>2. fromFetch' \in Word \cup {NoWord}
  <2>1. CASE branchPredictor!Readable(fetchPC')
    <3>1. fromFetch' = program[fetchPC']
      BY <2>1 DEF Fetch
    <3> QED BY <1>1, <3>1 DEF TypeInv, ProgramTypeOK
  <2>2. CASE ~branchPredictor!Readable(fetchPC')
    BY <2>2 DEF Fetch, TypeInv, LatchOK, LatchTypeOK
  <2> QED BY <2>1, <2>2
<1>3. UNCHANGED latchVars /\ UNCHANGED <<fromDecode, fromExecute, fromMem>>
  BY DEF Fetch
<1>4. LatchOK'
  BY <1>1, <1>2, <1>3, ConstantsOK
     DEF TypeInv, LatchOK, LatchTypeOK, PCsOK, UsesPC, latchVars
<1>5. TickTypeOK' /\ HistoryTypeOK'
  <2>1. "fetch" \in Stages /\ "AddressOutOfMemory" \in Exceptions
    BY DEF Stages, Exceptions
  <2>2. CASE branchPredictor!Readable(fetchPC')
    BY <2>1, <2>2, FinishType, HistoryUnchanged DEF TypeInv, TickTypeOK, Fetch
  <2>3. CASE ~branchPredictor!Readable(fetchPC')
    BY <2>1, <2>3, ThrowType DEF TypeInv, Fetch
  <2> QED BY <2>2, <2>3
<1>6. /\ UNCHANGED <<program, haltAddr, memory>> /\ UNCHANGED hazardVars
      /\ UNCHANGED controlVars
  BY DEF Fetch
<1> QED BY <1>1, <1>4, <1>5, <1>6, ProgramUnchanged, HazardUnchanged, ControlUnchanged
        DEF TypeInv

\* The decode stage when it stalls, and when it only looks at its sources.
LEMMA DecodeWaitsType == TypeInv /\ (DecodeStall \/ DecodeCheck) => TypeInv'
<1>1. ASSUME TypeInv, DecodeStall PROVE TypeInv'
  <2>1. HazardOK'
    BY <1>1, EnqueueType DEF TypeInv, DecodeStall
  <2>2. LatchOK'
    <3>1. NOP \in Instruction /\ ~UsesPC(NOP)
      BY ConstantsOK DEF NOP, Default, Instruction, Op, UsesPC, Control, Branches, Jumps
    <3>2. /\ fromDecode' = NOP /\ UNCHANGED latchVars
          /\ UNCHANGED <<fromFetch, fetchPC, fromExecute, fromMem>>
      BY <1>1 DEF DecodeStall
    <3> QED BY <1>1, <3>1, <3>2
            DEF TypeInv, LatchOK, LatchTypeOK, PCsOK, UsesPC, latchVars
  <2>3. TickTypeOK'
    <3>1. "decode" \in Stages
      BY DEF Stages
    <3> QED BY <1>1, <3>1, FinishType DEF TypeInv, TickTypeOK, DecodeStall
  <2>4. /\ UNCHANGED <<program, haltAddr, memory>> /\ UNCHANGED predictorVars
        /\ UNCHANGED controlVars /\ UNCHANGED historyVars
    BY <1>1 DEF DecodeStall
  <2> QED BY <1>1, <2>1, <2>2, <2>3, <2>4, ProgramUnchanged, PredictorUnchanged,
             ControlUnchanged, HistoryUnchanged DEF TypeInv
<1>2. ASSUME TypeInv, DecodeCheck PROVE TypeInv'
  <2>1. TickTypeOK'
    BY <1>2 DEF TypeInv, TickTypeOK, DecodeCheck
  <2>2. /\ UNCHANGED <<program, haltAddr, memory>> /\ UNCHANGED hazardVars
        /\ UNCHANGED predictorVars /\ UNCHANGED latchVars /\ UNCHANGED resultVars
        /\ UNCHANGED controlVars /\ UNCHANGED historyVars
    BY <1>2 DEF DecodeCheck
  <2> QED BY <1>2, <2>1, <2>2, ProgramUnchanged, HazardUnchanged, PredictorUnchanged,
             LatchUnchanged, ControlUnchanged, HistoryUnchanged DEF TypeInv
<1> QED BY <1>1, <1>2

LEMMA DecodeReadType == TypeInv /\ DecodeRead => TypeInv'
<1> SUFFICES ASSUME TypeInv, DecodeRead PROVE TypeInv'
  OBVIOUS
<1>1. toDecode \in Word \cup {NoWord} /\ decodePC \in Address \cup {NoPC}
  BY DEF TypeInv, LatchOK, LatchTypeOK
<1>2. /\ toDecode.op \in Op \cup {"empty"} /\ toDecode.imm \in Int
      /\ toDecode.rd \in Reg /\ toDecode.rs1 \in Reg /\ toDecode.rs2 \in Reg
  BY <1>1, ConstantsOK DEF Word, NoWord, NopWord
<1>3. \A reg \in Reg : Operand(reg) \in Value
  <2> SUFFICES ASSUME NEW reg \in Reg PROVE Operand(reg) \in Value
    OBVIOUS
  <2>1. CASE reg \in Sources(toDecode)
    BY <2>1, FetchType DEF TypeInv, DecodeRead, Operand
  <2>2. CASE reg \notin Sources(toDecode)
    BY <2>2, ConstantsOK DEF Operand
  <2> QED BY <2>1, <2>2
<1>4. PICK rd \in Destinations(toDecode) :
        /\ pipelineController!Enqueue(rd)
        /\ fromDecode' = [op |-> toDecode.op, rd |-> rd, imm |-> toDecode.imm,
                          pc |-> decodePC, v1 |-> Operand(toDecode.rs1),
                          v2 |-> Operand(toDecode.rs2), result |-> 0]
  BY DEF DecodeRead
<1>5. rd \in Nat
  BY <1>2, ConstantsOK DEF Destinations
<1>6. fromDecode' \in Instruction
  BY <1>1, <1>2, <1>3, <1>4, <1>5, ConstantsOK DEF Instruction
<1>7. UsesPC(fromDecode') => fromDecode'.pc \in Address
  BY <1>1, <1>4 DEF TypeInv, LatchOK, PCsOK, UsesPC, Control, Branches, Jumps
<1>8. LatchOK'
  BY <1>6, <1>7
     DEF TypeInv, LatchOK, LatchTypeOK, PCsOK, UsesPC, latchVars, DecodeRead
<1>9. HazardOK'
  BY <1>4, <1>5, EnqueueType DEF TypeInv
<1>10. TickTypeOK'
  <2>1. "decode" \in Stages
    BY DEF Stages
  <2> QED BY <2>1, FinishType DEF TypeInv, TickTypeOK, DecodeRead
<1>11. /\ UNCHANGED <<program, haltAddr, memory>> /\ UNCHANGED predictorVars
       /\ UNCHANGED controlVars /\ UNCHANGED historyVars
  BY DEF DecodeRead
<1> QED BY <1>8, <1>9, <1>10, <1>11, ProgramUnchanged, PredictorUnchanged,
           ControlUnchanged, HistoryUnchanged DEF TypeInv

\* The execute stage posts a register value or nothing.
LEMMA PostResultType == TypeInv /\ PostResult => HazardOK'
<1> SUFFICES ASSUME TypeInv, PostResult PROVE HazardOK'
  OBVIOUS
<1>1. Result(toExecute) \in Value
  BY ResultType DEF TypeInv, LatchOK, LatchTypeOK, PCsOK
<1>2. CASE PostsResult(toExecute)
  BY <1>1, <1>2, StoreAfterExecutionType DEF TypeInv, PostResult
<1>3. CASE ~PostsResult(toExecute)
  BY <1>3, HazardUnchanged DEF TypeInv, PostResult
<1> QED BY <1>2, <1>3

LEMMA ExecuteThrowType == TypeInv /\ ExecuteThrow => TypeInv'
<1> SUFFICES ASSUME TypeInv, ExecuteThrow PROVE TypeInv'
  OBVIOUS
<1>1. "execute" \in Stages /\ ExecuteException \in Exceptions
  BY DEF Stages, ExecuteException, ExecuteFault, Exceptions
<1>2. /\ Finish("execute") /\ Throw("execute", ExecuteException)
      /\ UNCHANGED <<program, haltAddr, memory>> /\ PostResult
      /\ UNCHANGED predictorVars /\ UNCHANGED latchVars /\ UNCHANGED resultVars
      /\ UNCHANGED <<stallNextTick, failedPrediction>> /\ UNCHANGED controlVars
  BY DEF ExecuteThrow
<1> QED BY <1>1, <1>2, PostResultType, OnlyThrowsType

\* What leaves the execute stage.
LEMMA ExecutedType ==
  ASSUME TypeInv,
         fromExecute' = [toExecute EXCEPT !.result = Result(toExecute)],
         UNCHANGED latchVars, UNCHANGED <<fromFetch, fetchPC, fromDecode, fromMem>>
  PROVE  LatchOK'
<1>1. Result(toExecute) \in Value
  BY ResultType DEF TypeInv, LatchOK, LatchTypeOK, PCsOK
<1>2. fromExecute' \in Instruction
  BY <1>1 DEF TypeInv, LatchOK, LatchTypeOK, Instruction
<1> QED BY <1>2 DEF TypeInv, LatchOK, LatchTypeOK, PCsOK, UsesPC, latchVars

LEMMA ExecuteType == TypeInv /\ Execute => TypeInv'
<1> SUFFICES ASSUME TypeInv, Execute PROVE TypeInv'
  OBVIOUS
<1>1. LatchOK'
  BY ExecutedType DEF Execute
<1>2. HazardOK'
  BY PostResultType DEF Execute
<1>3. TickTypeOK'
  <2>1. "execute" \in Stages
    BY DEF Stages
  <2> QED BY <2>1, FinishType DEF TypeInv, TickTypeOK, Execute
<1>4. /\ UNCHANGED <<program, haltAddr, memory>> /\ UNCHANGED predictorVars
      /\ UNCHANGED controlVars /\ UNCHANGED historyVars
  BY DEF Execute
<1> QED BY <1>1, <1>2, <1>3, <1>4, ProgramUnchanged, PredictorUnchanged,
           ControlUnchanged, HistoryUnchanged DEF TypeInv

\* A branch or jump that executes has a prediction to check and a target.
LEMMA ExecutesControlType ==
  ASSUME TypeInv, ExecutesControl
  PROVE  predictions # <<>> /\ NextPC(toExecute) \in Address
<1>1. predictions # <<>> /\ ExecuteFault(toExecute) = "none"
  BY DEF ExecutesControl, ExecuteException
<1>2. toExecute \in Instruction /\ toExecute.op \in Control /\ toExecute.pc \in Address
  BY DEF ExecutesControl, TypeInv, LatchOK, LatchTypeOK, PCsOK, UsesPC
<1> QED BY <1>1, <1>2, TargetType

LEMMA ExecutePredictedType == TypeInv /\ ExecutePredicted => TypeInv'
<1> SUFFICES ASSUME TypeInv, ExecutePredicted PROVE TypeInv'
  OBVIOUS
<1>1. LatchOK'
  BY ExecutedType DEF ExecutePredicted
<1>2. HazardOK'
  BY PostResultType DEF ExecutePredicted
<1>3. PredictorOK'
  BY ExecutesControlType, CorrectPredictionType DEF TypeInv, ExecutePredicted
<1>4. TickTypeOK'
  <2>1. "execute" \in Stages
    BY DEF Stages
  <2> QED BY <2>1, FinishType DEF TypeInv, TickTypeOK, ExecutePredicted
<1>5. /\ UNCHANGED <<program, haltAddr, memory>>
      /\ UNCHANGED controlVars /\ UNCHANGED historyVars
  BY DEF ExecutePredicted
<1> QED BY <1>1, <1>2, <1>3, <1>4, <1>5, ProgramUnchanged,
           ControlUnchanged, HistoryUnchanged DEF TypeInv

LEMMA ExecuteMispredictedType == TypeInv /\ ExecuteMispredicted => TypeInv'
<1> SUFFICES ASSUME TypeInv, ExecuteMispredicted PROVE TypeInv'
  OBVIOUS
<1>1. NextPC(toExecute) \in Address /\ predictions # <<>>
  BY ExecutesControlType DEF ExecuteMispredicted
<1>2. HazardOK'
  BY PostResultType DEF ExecuteMispredicted
<1>3. PredictorOK'
  BY <1>1, FailedPredictionType DEF TypeInv, ExecuteMispredicted
<1>4. TickTypeOK'
  <2>1. "execute" \in Stages
    BY DEF Stages
  <2> QED BY <2>1, FinishType DEF TypeInv, TickTypeOK, ExecuteMispredicted
<1>5. HistoryTypeOK'
  BY <1>1 DEF TypeInv, HistoryTypeOK, ExecuteMispredicted
<1>6. /\ UNCHANGED <<program, haltAddr, memory>> /\ UNCHANGED latchVars
      /\ UNCHANGED resultVars /\ UNCHANGED controlVars
  BY DEF ExecuteMispredicted
<1> QED BY <1>2, <1>3, <1>4, <1>5, <1>6, ProgramUnchanged,
           ControlUnchanged, LatchUnchanged DEF TypeInv

LEMMA MemoryAccessType == TypeInv /\ MemoryAccess => TypeInv'
<1> SUFFICES ASSUME TypeInv, MemoryAccess PROVE TypeInv'
  OBVIOUS
<1>1. toMem \in Instruction /\ fromMem \in Instruction /\ toMem.v2 \in Value
  BY DEF TypeInv, LatchOK, LatchTypeOK, Instruction
<1>2. toMem.op \in Loads => memory[toMem.result] \in Value
  BY DEF MemoryAccess, TypeInv, ProgramTypeOK
<1>3. ProgramTypeOK'
  BY <1>1 DEF MemoryAccess, TypeInv, ProgramTypeOK
<1>4. fromMem' \in Instruction
  <2>1. CASE toMem.op \in Loads
    <3>1. fromMem' = [toMem EXCEPT !.result = memory[toMem.result]]
      BY <2>1 DEF MemoryAccess
    <3> QED BY <1>1, <1>2, <2>1, <3>1 DEF Instruction
  <2>2. CASE toMem.op \notin Loads
    BY <1>1, <2>2 DEF MemoryAccess
  <2> QED BY <2>1, <2>2
<1>5. HazardOK'
  <2>1. CASE toMem.op \in Loads
    BY <1>2, <2>1, StoreAfterMemoryType DEF TypeInv, MemoryAccess
  <2>2. CASE toMem.op \notin Loads
    BY <2>2, HazardUnchanged DEF TypeInv, MemoryAccess
  <2> QED BY <2>1, <2>2
<1>6. LatchOK'
  BY <1>4 DEF TypeInv, LatchOK, LatchTypeOK, PCsOK, UsesPC, latchVars, MemoryAccess
<1>7. TickTypeOK'
  <2>1. "memoryAccess" \in Stages
    BY DEF Stages
  <2> QED BY <2>1, FinishType DEF TypeInv, TickTypeOK, MemoryAccess
<1>8. UNCHANGED predictorVars /\ UNCHANGED controlVars /\ UNCHANGED historyVars
  BY DEF MemoryAccess
<1> QED BY <1>3, <1>5, <1>6, <1>7, <1>8, PredictorUnchanged, ControlUnchanged,
           HistoryUnchanged DEF TypeInv

LEMMA WritebackType == TypeInv /\ Writeback => TypeInv'
<1> SUFFICES ASSUME TypeInv, Writeback PROVE TypeInv'
  OBVIOUS
<1>1. HazardOK'
  <2>1. toWB.result \in Value
    BY DEF TypeInv, LatchOK, LatchTypeOK, Instruction
  <2>2. CASE WritesBack(toWB)
    BY <2>1, <2>2, WriteRegisterType DEF TypeInv, Writeback
  <2>3. CASE ~WritesBack(toWB)
    BY <2>3, HazardUnchanged DEF TypeInv, Writeback
  <2> QED BY <2>2, <2>3
<1>2. TickTypeOK'
  <2>1. "writeback" \in Stages
    BY DEF Stages
  <2> QED BY <2>1, FinishType DEF TypeInv, TickTypeOK, Writeback
<1>3. /\ UNCHANGED <<program, haltAddr, memory>> /\ UNCHANGED predictorVars
      /\ UNCHANGED latchVars /\ UNCHANGED resultVars
      /\ UNCHANGED controlVars /\ UNCHANGED historyVars
  BY DEF Writeback
<1> QED BY <1>1, <1>2, <1>3, ProgramUnchanged, PredictorUnchanged, LatchUnchanged,
           ControlUnchanged, HistoryUnchanged DEF TypeInv

\* The decode latch after a tick.
LEMMA LatchDecodeType ==
  ASSUME TypeInv, LatchDecode
  PROVE  /\ toDecode' \in Word \cup {NoWord} /\ decodePC' \in Address \cup {NoPC}
         /\ decodePC' = NoPC => toDecode'.op \in {"add", "empty"}
<1>1. NopWord \in Word /\ NopWord.op = "add"
  BY ConstantsOK DEF NopWord, Word, Op, Defined, Bitops
<1>2. CASE failedPrediction \/ shouldFlush
  BY <1>1, <1>2 DEF LatchDecode, NextDecodePC
<1>3. CASE ~(failedPrediction \/ shouldFlush) /\ stallNextTick
  BY <1>3 DEF LatchDecode, NextDecodePC, TypeInv, LatchOK, LatchTypeOK, PCsOK
<1>4. CASE ~(failedPrediction \/ shouldFlush) /\ ~stallNextTick
  BY <1>4 DEF LatchDecode, NextDecodePC, TypeInv, LatchOK, LatchTypeOK, PCsOK
<1> QED BY <1>2, <1>3, <1>4

\* The latches after a tick, given what the decode latch holds.
LEMMA LatchType ==
  ASSUME TypeInv, Latch,
         toDecode' \in Word \cup {NoWord}, decodePC' \in Address \cup {NoPC},
         decodePC' = NoPC => toDecode'.op \in {"add", "empty"}
  PROVE  /\ ProgramTypeOK' /\ HazardOK' /\ PredictorOK' /\ LatchOK' /\ TickTypeOK'
         /\ HistoryTypeOK'
<1>1. NOP \in Instruction /\ ~UsesPC(NOP)
  BY ConstantsOK DEF NOP, Default, Instruction, Op, UsesPC, Control, Branches, Jumps
<1>2. HazardOK'
  <2>1. CASE failedPrediction
    BY <2>1, EnqueueType DEF TypeInv, Latch
  <2>2. CASE ~failedPrediction
    BY <2>2, HazardUnchanged DEF TypeInv, Latch
  <2> QED BY <2>1, <2>2
<1>3. LatchOK'
  <2>1. toExecute' \in Instruction /\ (UsesPC(toExecute') => toExecute'.pc \in Address)
    BY <1>1 DEF TypeInv, LatchOK, LatchTypeOK, PCsOK, Latch
  <2> QED BY <2>1 DEF TypeInv, LatchOK, LatchTypeOK, PCsOK, UsesPC, Latch, resultVars
<1>4. HistoryTypeOK'
  BY DEF TypeInv, HistoryTypeOK, Latch
<1>5. /\ UNCHANGED <<program, haltAddr, memory>> /\ UNCHANGED predictorVars
      /\ UNCHANGED tickVars
  BY DEF Latch
<1> QED BY <1>2, <1>3, <1>4, <1>5, ProgramUnchanged, PredictorUnchanged, TickUnchanged
        DEF TypeInv

LEMMA TickHaltsType == TypeInv /\ TickHalts => TypeInv'
<1> SUFFICES ASSUME TypeInv, TickHalts PROVE TypeInv'
  OBVIOUS
<1>1. toDecode' \in Word /\ toDecode'.op = "add" /\ decodePC' = NoPC
  BY ConstantsOK DEF TickHalts, NopWord, Word, Op, Defined, Bitops
<1>2. NextDecodePC \in Address
  BY DEF TickHalts, MeetsHalt, NextDecodePC, TypeInv, LatchOK, LatchTypeOK
<1>3. ControlTypeOK'
  BY <1>2 DEF TypeInv, ControlTypeOK, TickHalts
<1> QED BY <1>1, <1>3, LatchType DEF TypeInv, TickHalts

LEMMA TickTerminatesType == TypeInv /\ TickTerminates => TypeInv'
<1> SUFFICES ASSUME TypeInv, TickTerminates PROVE TypeInv'
  OBVIOUS
<1>1. ControlTypeOK'
  BY DEF TypeInv, ControlTypeOK, TickTerminates
<1> QED BY <1>1, LatchDecodeType, LatchType DEF TypeInv, TickTerminates

\* What the caller of a tick gets is what a stage threw.
LEMMA TickExceptionType == TickTypeOK => TickException \in Exceptions
BY DEF TickTypeOK, TickException, Stages

LEMMA TickEndsType == TypeInv /\ TickEnds => TypeInv'
<1> SUFFICES ASSUME TypeInv, TickEnds PROVE TypeInv'
  OBVIOUS
<1>1. TickException \in Exceptions
  BY TickExceptionType DEF TypeInv
<1>2. ControlTypeOK'
  BY <1>1 DEF TypeInv, ControlTypeOK, TickTypeOK, TickEnds
<1> QED BY <1>2, LatchDecodeType, LatchType DEF TypeInv, TickEnds

LEMMA FlushTickEndsType == TypeInv /\ FlushTickEnds => TypeInv'
<1> SUFFICES ASSUME TypeInv, FlushTickEnds PROVE TypeInv'
  OBVIOUS
<1>1. TickException \in Exceptions
  BY TickExceptionType DEF TypeInv
<1>2. ControlTypeOK'
  BY <1>1 DEF TypeInv, ControlTypeOK, TickTypeOK, FlushTickEnds
<1> QED BY <1>2, LatchDecodeType, LatchType DEF TypeInv, FlushTickEnds

-----------------------------------------------------------------------------

LEMMA TypeInvStep == TypeInv /\ [Next]_vars => TypeInv'
<1> SUFFICES ASSUME TypeInv, [Next]_vars PROVE TypeInv'
  OBVIOUS
<1>1. CASE Flush
  BY <1>1, FlushType
<1>2. CASE TickStart
  BY <1>2, TickStartType
<1>3. CASE StageStep
  BY <1>3, ThrowingStepsType, FetchStepType, DecodeWaitsType, DecodeReadType,
     ExecuteThrowType, ExecuteType, ExecutePredictedType, ExecuteMispredictedType,
     MemoryAccessType, WritebackType
     DEF StageStep, DecodeStep, ExecuteStep
<1>4. CASE TickEnd
  BY <1>4, TickHaltsType, TickTerminatesType, TickEndsType, FlushTickEndsType
     DEF TickEnd
<1>5. CASE UNCHANGED vars
  <2>1. /\ UNCHANGED <<program, haltAddr, memory>> /\ UNCHANGED hazardVars
        /\ UNCHANGED predictorVars /\ UNCHANGED latchVars /\ UNCHANGED resultVars
        /\ UNCHANGED tickVars /\ UNCHANGED controlVars /\ UNCHANGED historyVars
    BY <1>5 DEF vars
  <2> QED BY <2>1, ProgramUnchanged, HazardUnchanged, PredictorUnchanged, LatchUnchanged,
             TickUnchanged, ControlUnchanged, HistoryUnchanged DEF TypeInv
<1> QED BY <1>1, <1>2, <1>3, <1>4, <1>5 DEF Next, Tick

THEOREM TypeInvariance == Spec => []TypeInv
<1>1. Init => TypeInv
  BY InitType
<1>2. TypeInv /\ [Next]_vars => TypeInv'
  BY TypeInvStep
<1> QED BY <1>1, <1>2, PTL DEF Spec

\* The fields of the HART always hold what their types promise: every PC that
\* reaches a latch is an aligned address in memory, no register or operand
\* ever holds an RDVal of no bytes, and no queue is read while it is empty
\* (Hart::tick and the stages, SimpleBranchPredictor::getNextPC).
THEOREM TypeCorrect == Spec => []TypeOK
BY TypeInvariance, TypeInvImplies, PTL

=============================================================================
