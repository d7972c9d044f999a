----------------------- MODULE SimpleBranchPredictor -----------------------
(***************************************************************************)
(* The branch predictor with its look-ahead thread                         *)
(* (units/SimpleBranchPredictor.cpp).  predictionWorkloop runs without the *)
(* lock, from the return of the method that started it until a later call  *)
(* joins it.  The callers are the fetch and the execute thread of a tick;  *)
(* the HART joins both of them before it starts them again, calls          *)
(* handleFlush in between, and deletes the predictor in the end.           *)
(***************************************************************************)
EXTENDS RV32I, Sequences

CONSTANTS NoPC, Programs

Address == {a \in 0 .. MemSize - 1 : a % 4 = 0}
Callers == {"fetch", "execute"} \* of getNextPC, and of checkPrediction

ASSUME SimplePredictorAssumption ==
  /\ NoPC \notin Int
  /\ Programs \subseteq [Address -> [op : Op, imm : Int]]

VARIABLES
  program,
  PCQueue, executingQueue, workloopExceptionPtr,
  isProcessorExceptionGenerated, \* the destructor has begun
  workloop,  \* "none" (not joinable), "start", "loop", "push" or "returned"
  nextPC,    \* what predictionWorkloop has predicted and not yet pushed
  caller,    \* of every caller: "idle", "call", "join" or "body"
  address    \* the argument of checkPrediction

vars == <<program, PCQueue, executingQueue, workloopExceptionPtr,
          isProcessorExceptionGenerated, workloop, nextPC, caller, address>>

predict == INSTANCE BranchPredictor
             WITH predictions <- executingQueue,
                  workloopException <- workloopExceptionPtr

Last(queue) == queue[Len(queue)]

Init ==
  /\ program \in Programs
  /\ PCQueue = <<0>> /\ executingQueue = <<>>
  /\ workloopExceptionPtr = FALSE
  /\ isProcessorExceptionGenerated = FALSE
  /\ workloop = "start"
  /\ nextPC = NoPC
  /\ caller = [c \in Callers |-> "idle"]
  /\ address = NoPC

-----------------------------------------------------------------------------
(* predictionWorkloop. *)

WorkloopThrow ==
  /\ workloopExceptionPtr' = TRUE
  /\ workloop' = "returned"
  /\ UNCHANGED <<program, PCQueue, executingQueue, isProcessorExceptionGenerated,
                 nextPC, caller, address>>

\* The checks before the loop.
WorkloopStart ==
  /\ workloop = "start"
  /\ IF PCQueue = <<>> \/ Last(PCQueue) % 4 # 0
       THEN WorkloopThrow
       ELSE /\ workloop' = "loop"
            /\ UNCHANGED <<program, PCQueue, executingQueue, workloopExceptionPtr,
                           isProcessorExceptionGenerated, nextPC, caller, address>>

\* The condition of the loop, and the prediction.
WorkloopPredict ==
  /\ workloop = "loop"
  /\ ~isProcessorExceptionGenerated /\ Len(PCQueue) < predict!QueueSize
  /\ IF predict!PredictionFails(Last(PCQueue))
       THEN WorkloopThrow
       ELSE /\ nextPC' = predict!PredictedNext(Last(PCQueue))
            /\ workloop' = "push"
            /\ UNCHANGED <<program, PCQueue, executingQueue, workloopExceptionPtr,
                           isProcessorExceptionGenerated, caller, address>>

WorkloopPush ==
  /\ workloop = "push"
  /\ PCQueue' = IF isProcessorExceptionGenerated THEN PCQueue ELSE Append(PCQueue, nextPC)
  /\ workloop' = "loop"
  /\ nextPC' = NoPC
  /\ UNCHANGED <<program, executingQueue, workloopExceptionPtr,
                 isProcessorExceptionGenerated, caller, address>>

WorkloopReturn ==
  /\ workloop = "loop"
  /\ isProcessorExceptionGenerated \/ Len(PCQueue) >= predict!QueueSize
  /\ workloop' = "returned"
  /\ UNCHANGED <<program, PCQueue, executingQueue, workloopExceptionPtr,
                 isProcessorExceptionGenerated, nextPC, caller, address>>

Workloop == WorkloopStart \/ WorkloopPredict \/ WorkloopPush \/ WorkloopReturn

-----------------------------------------------------------------------------
(* The calls. *)

AllIdle == \A c \in Callers : caller[c] = "idle"

\* A tick starts some of the stage threads that call the predictor.
Call ==
  /\ AllIdle /\ ~isProcessorExceptionGenerated
  /\ \E calling \in SUBSET Callers \ {{}} :
       /\ caller' = [c \in Callers |-> IF c \in calling THEN "call" ELSE "idle"]
       /\ address' \in IF "execute" \in calling THEN Address ELSE {NoPC}
  /\ UNCHANGED <<program, PCQueue, executingQueue, workloopExceptionPtr,
                 isProcessorExceptionGenerated, workloop, nextPC>>

\* Mutant: no lock_guard.
LockNothing(c) ==
  /\ caller[c] = "call"
  /\ caller' = [caller EXCEPT ![c] = "join"]
  /\ UNCHANGED <<program, PCQueue, executingQueue, workloopExceptionPtr,
                 isProcessorExceptionGenerated, workloop, nextPC, address>>

\* The lock_guard.
Lock(c) ==
  /\ caller[c] = "call"
  /\ \A other \in Callers : caller[other] \notin {"join", "body"}
  /\ caller' = [caller EXCEPT ![c] = "join"]
  /\ UNCHANGED <<program, PCQueue, executingQueue, workloopExceptionPtr,
                 isProcessorExceptionGenerated, workloop, nextPC, address>>

\* Mutants: waits for a look-ahead to be there; does not wait.
JoinAlways(c) ==
  /\ caller[c] = "join" /\ workloop = "returned"
  /\ workloop' = "none"
  /\ caller' = [caller EXCEPT ![c] = "body"]
  /\ UNCHANGED <<program, PCQueue, executingQueue, workloopExceptionPtr,
                 isProcessorExceptionGenerated, nextPC, address>>
JoinNever(c) ==
  /\ caller[c] = "join"
  /\ caller' = [caller EXCEPT ![c] = "body"]
  /\ UNCHANGED <<program, PCQueue, executingQueue, workloopExceptionPtr,
                 isProcessorExceptionGenerated, workloop, nextPC, address>>

Join(c) ==
  /\ caller[c] = "join"
  /\ workloop \in {"none", "returned"}
  /\ workloop' = "none"
  /\ caller' = [caller EXCEPT ![c] = "body"]
  /\ UNCHANGED <<program, PCQueue, executingQueue, workloopExceptionPtr,
                 isProcessorExceptionGenerated, nextPC, address>>

Return(c) == caller' = [caller EXCEPT ![c] = "idle"]

GetNextPCRethrows ==
  /\ caller["fetch"] = "body"
  /\ workloopExceptionPtr
  /\ Return("fetch")
  /\ UNCHANGED <<program, PCQueue, executingQueue, workloopExceptionPtr,
                 isProcessorExceptionGenerated, workloop, nextPC, address>>

\* The rest of getNextPC: front() of the queue, pop(), front() again.
GetNextPC ==
  /\ caller["fetch"] = "body"
  /\ ~workloopExceptionPtr
  /\ PCQueue' = Tail(PCQueue)
  /\ executingQueue' = Append(predict!DropOldest(executingQueue), Head(PCQueue'))
  /\ workloop' = "start"
  /\ Return("fetch")
  /\ UNCHANGED <<program, workloopExceptionPtr, isProcessorExceptionGenerated,
                 nextPC, address>>

CheckPredictionThrows ==
  /\ caller["execute"] = "body"
  /\ executingQueue = <<>>
  /\ Return("execute") /\ address' = NoPC
  /\ UNCHANGED <<program, PCQueue, executingQueue, workloopExceptionPtr,
                 isProcessorExceptionGenerated, workloop, nextPC>>

\* Mutant: the queue is not emptied.
CheckPredictionKeeps ==
  /\ caller["execute"] = "body"
  /\ executingQueue # <<>>
  /\ executingQueue' = Tail(executingQueue)
  /\ IF Head(executingQueue) = address
       THEN UNCHANGED <<PCQueue, workloop>>
       ELSE PCQueue' = Append(PCQueue, address) /\ workloop' = "start"
  /\ Return("execute") /\ address' = NoPC
  /\ UNCHANGED <<program, workloopExceptionPtr, isProcessorExceptionGenerated, nextPC>>

\* The rest of checkPrediction.  failedPrediction is set and reset while no
\* thread looks at it.
CheckPrediction ==
  /\ caller["execute"] = "body"
  /\ executingQueue # <<>>
  /\ executingQueue' = Tail(executingQueue)
  /\ IF Head(executingQueue) = address
       THEN UNCHANGED <<PCQueue, workloop>>
       ELSE PCQueue' = <<address>> /\ workloop' = "start"
  /\ Return("execute") /\ address' = NoPC
  /\ UNCHANGED <<program, workloopExceptionPtr, isProcessorExceptionGenerated,
                 nextPC>>

\* handleFlush takes no lock and does not join the look-ahead.
HandleFlush ==
  /\ AllIdle /\ ~isProcessorExceptionGenerated
  /\ executingQueue' = Append(predict!DropOldest(executingQueue), NoPC)
  /\ UNCHANGED <<program, PCQueue, workloopExceptionPtr,
                 isProcessorExceptionGenerated, workloop, nextPC, caller, address>>

\* ~SimpleBranchPredictor, up to its join, and the join.
Destroy ==
  /\ AllIdle /\ ~isProcessorExceptionGenerated
  /\ isProcessorExceptionGenerated' = TRUE
  /\ UNCHANGED <<program, PCQueue, executingQueue, workloopExceptionPtr, workloop,
                 nextPC, caller, address>>

DestroyJoin ==
  /\ isProcessorExceptionGenerated
  /\ workloop = "returned"
  /\ workloop' = "none"
  /\ UNCHANGED <<program, PCQueue, executingQueue, workloopExceptionPtr,
                 isProcessorExceptionGenerated, nextPC, caller, address>>

\* The steps a thread takes inside a method.
Step(c) ==
  \/ Lock(c) \/ Join(c)
  \/ c = "fetch" /\ (GetNextPCRethrows \/ GetNextPC)
  \/ c = "execute" /\ (CheckPredictionThrows \/ CheckPrediction)

Next == \/ Workloop \/ Call \/ HandleFlush \/ Destroy \/ DestroyJoin
        \/ \E c \in Callers : Step(c)

Spec == Init /\ [][Next]_vars

\* Every thread gets to run, and the mutex is given to a thread that waits for
\* it and has no competitor: the other one calls once a tick.
FairSpec == /\ Spec
            /\ WF_vars(Workloop) /\ WF_vars(DestroyJoin)
            /\ \A c \in Callers : WF_vars(Step(c))

-----------------------------------------------------------------------------

TypeOK ==
  /\ program \in Programs
  /\ PCQueue \in Seq(Address)
  /\ executingQueue \in Seq(Address \cup {NoPC})
  /\ {workloopExceptionPtr, isProcessorExceptionGenerated} \subseteq BOOLEAN
  /\ workloop \in {"none", "start", "loop", "push", "returned"}
  /\ {nextPC, address} \subseteq Address \cup {NoPC}
  /\ caller \in [Callers -> {"idle", "call", "join", "body"}]

\* A getNextPC that does not rethrow finds the full look-ahead: it has a PC to
\* return and one to predict with, so the empty case its TODO leaves open
\* ("decide what to do here") never occurs and no front() is undefined.
NextPCPredicted ==
  caller["fetch"] = "body" /\ ~workloopExceptionPtr => Len(PCQueue) = predict!QueueSize

\* The look-ahead, which runs without the lock, never shares the queue with a
\* method that changes it, and the queue always holds a chain of predictions:
\* what follows each PC is what is predicted to follow it (getNextPC,
\* checkPrediction and predictionWorkloop).
QueueIsChain ==
  /\ \A c \in Callers : caller[c] = "body" => workloop = "none"
  /\ PCQueue # <<>> /\ Len(PCQueue) <= predict!QueueSize
  /\ \A i \in 1 .. Len(PCQueue) - 1 : PCQueue[i + 1] = predict!PredictedNext(PCQueue[i])

\* Seen from outside, the look-ahead takes no time.
branchPredictor == INSTANCE BranchPredictor
  WITH PCQueue <- predict!Fill(PCQueue),
       predictions <- executingQueue,
       workloopException <- (workloopExceptionPtr \/ predict!FillFails(PCQueue))

\* With its thread and its lock, the predictor does what the HART model takes
\* it to do: each call sees the look-ahead finished (every public method of
\* SimpleBranchPredictor).
ImplementsPredictor == branchPredictor!PredictorSpec

\* Neither the lock nor the joins of the look-ahead block a stage thread or the
\* destructor for ever (getNextPC, checkPrediction, ~SimpleBranchPredictor).
CallsReturn ==
  /\ \A c \in Callers : caller[c] # "idle" ~> caller[c] = "idle"
  /\ isProcessorExceptionGenerated ~> workloop = "none"

=============================================================================
