-------------------------- MODULE BranchPredictor ---------------------------
(***************************************************************************)
(* What units/SimpleBranchPredictor.cpp promises the HART: every method is *)
(* one step, and the look-ahead that predictionWorkloop computes in a      *)
(* thread of its own is already there when the next method needs it (both  *)
(* getNextPC and checkPrediction join the thread first).  Module           *)
(* SimpleBranchPredictor has the thread, and implements this module.       *)
(***************************************************************************)
EXTENDS RV32I, Sequences

CONSTANT NoPC  \* bytes(0), the PC of a NOP: no integer

VARIABLES program,          \* the instruction at each word-aligned address
          PCQueue,          \* the PCs to fetch next, as far as predicted
          predictions,      \* executingQueue: what follows each fetched PC
          workloopException \* workloopExceptionPtr is set

predictorVars == <<PCQueue, predictions, workloopException>>

QueueSize == 4

\* Memory::readWord refuses a word that ends at the end of memory or beyond.
Readable(pc) == pc + 4 < MemSize

\* predictionWorkloop: the PC predicted to follow the instruction at pc.  A
\* JALR is not looked at, it is predicted like any other instruction.
PredictedNext(pc) ==
  LET word == program[pc]
      target == (pc + word.imm) % Width
  IN  IF \/ word.op = "jal"
         \/ word.op \in Branches /\ word.imm < 0 /\ target % 4 = 0
        THEN target
        ELSE (pc + 4) % Width

\* Mutant: the alignment of the next PC is not looked at.
PredictionFailsUnaligned(pc) ==
  pc % 4 # 0 \/ ~Readable(pc) \/ PredictedNext(pc) >= MemSize

\* The prediction after pc cannot be made: workloopExceptionPtr is set.
PredictionFails(pc) ==
  \/ pc % 4 # 0
  \/ ~Readable(pc)
  \/ PredictedNext(pc) >= MemSize
  \/ PredictedNext(pc) % 4 # 0

LastPC(queue) == queue[Len(queue)]

\* One turn of predictionWorkloop's loop, and the loop: a queue of one PC or
\* more is full after QueueSize - 1 turns.
Extend[queue \in Seq(Int)] ==
  IF Len(queue) < QueueSize /\ ~PredictionFails(LastPC(queue))
    THEN Append(queue, PredictedNext(LastPC(queue)))
    ELSE queue

Fill(queue) == Extend[Extend[Extend[queue]]]

\* The loop over this queue ends in an exception.
FillFails(queue) == Len(Fill(queue)) < QueueSize

\* Mutant: one prediction too many is kept.
DropOldestLate(queue) == IF Len(queue) > 3 THEN Tail(queue) ELSE queue

DropOldest(queue) == IF Len(queue) > 2 THEN Tail(queue) ELSE queue

-----------------------------------------------------------------------------

PredictorInit ==
  /\ PCQueue = Fill(<<0>>)
  /\ predictions = <<>>
  /\ workloopException = FillFails(<<0>>)

\* getNextPC when it does not rethrow; it returns Head(PCQueue).
GetNextPC ==
  /\ ~workloopException
  /\ predictions' = Append(DropOldest(predictions), PCQueue[2])
  /\ PCQueue' = Fill(Tail(PCQueue))
  /\ workloopException' = FillFails(Tail(PCQueue))

\* checkPrediction(pc, address), when predictions is not empty.
CorrectPrediction(address) ==
  /\ Head(predictions) = address
  /\ predictions' = Tail(predictions)
  /\ UNCHANGED <<PCQueue, workloopException>>

\* Mutant: the look-ahead over the wrong path is not thrown away.
FailedPredictionKeeps(address) ==
  /\ Head(predictions) # address
  /\ predictions' = Tail(predictions)
  /\ PCQueue' = Append(PCQueue, address)
  /\ UNCHANGED workloopException

\* An exception the cancelled look-ahead met stays in workloopExceptionPtr.
FailedPrediction(address) ==
  /\ Head(predictions) # address
  /\ predictions' = Tail(predictions)
  /\ PCQueue' = Fill(<<address>>)
  /\ workloopException' = (workloopException \/ FillFails(<<address>>))

\* Mutant: makes room for a NOP and does not push it.
HandleFlushDrops ==
  /\ predictions' = DropOldest(predictions)
  /\ UNCHANGED <<PCQueue, workloopException>>

HandleFlush ==
  /\ predictions' = Append(DropOldest(predictions), NoPC)
  /\ UNCHANGED <<PCQueue, workloopException>>

\* Whatever a HART may ask for.
PredictorNext ==
  \/ GetNextPC
  \/ \E address \in {a \in 0 .. MemSize - 1 : a % 4 = 0} :
       /\ predictions # <<>>
       /\ CorrectPrediction(address) \/ FailedPrediction(address)
  \/ HandleFlush

PredictorSpec ==
  PredictorInit /\ [][PredictorNext /\ UNCHANGED program]_<<program, predictorVars>>

=============================================================================
