--------------------------- MODULE PredictorProofs ---------------------------
(***************************************************************************)
(* The branch predictor and its look-ahead thread, for every program and   *)
(* memory size: the lock and the joins keep the look-ahead away from the   *)
(* methods, the queue of PCs stays a chain of predictions, it is full      *)
(* whenever getNextPC takes from it, and the whole implements module       *)
(* BranchPredictor.                                                        *)
(***************************************************************************)
EXTENDS SimpleBranchPredictor, SequenceTheorems, TLAPS

\* At most one caller is past the lock, no look-ahead runs beside its body, and
\* none is left when the destructor runs.
LockInv ==
  /\ caller \in [Callers -> {"idle", "call", "join", "body"}]
  /\ \A c, d \in Callers :
       caller[c] \in {"join", "body"} /\ caller[d] \in {"join", "body"} => c = d
  /\ \A c \in Callers : caller[c] = "body" => workloop = "none"
  /\ isProcessorExceptionGenerated => AllIdle
  /\ caller["execute"] # "idle" => address \in Address

\* A queue of PCs, each the one predicted to follow the one before.
Chained(queue) ==
  /\ queue \in Seq(Address)
  /\ queue # <<>> /\ Len(queue) <= predict!QueueSize
  /\ \A i \in 1 .. Len(queue) - 1 : queue[i + 1] = predict!PredictedNext(queue[i])

\* The queue, what the look-ahead is about to push, and what it leaves when it
\* returns: a full queue, an exception, or the destructor is at work.
QueueInv ==
  /\ Chained(PCQueue)
  /\ workloop = "push" =>
       /\ nextPC \in Address /\ nextPC = predict!PredictedNext(Last(PCQueue))
       /\ ~predict!PredictionFails(Last(PCQueue))
       /\ Len(PCQueue) < predict!QueueSize
  /\ workloop \in {"none", "returned"} =>
       \/ workloopExceptionPtr \/ isProcessorExceptionGenerated
       \/ Len(PCQueue) = predict!QueueSize

-----------------------------------------------------------------------------
(* Queues. *)

LEMMA ConstantsOK ==
  /\ Width \in Nat /\ Width >= 4 /\ MemSize \in Nat /\ MemSize >= 4
  /\ 0 \in Address /\ Address \subseteq Int /\ NoPC \notin Address
BY RV32IAssumption, SimplePredictorAssumption DEF Address

\* A prediction that predictionWorkloop makes is an aligned address in memory.
LEMMA PredictionInMemory ==
  ASSUME program \in Programs, NEW pc \in Address, ~predict!PredictionFails(pc)
  PROVE  predict!PredictedNext(pc) \in Address
<1>1. program[pc].imm \in Int
  BY SimplePredictorAssumption
<1>2. predict!PredictedNext(pc) \in 0 .. Width - 1
  BY <1>1, ConstantsOK DEF predict!PredictedNext, predict!Branches
<1>3. predict!PredictedNext(pc) < MemSize /\ predict!PredictedNext(pc) % 4 = 0
  BY <1>2, ConstantsOK DEF predict!PredictionFails
<1> QED
  BY <1>2, <1>3, ConstantsOK DEF Address

LEMMA AppendChained ==
  ASSUME NEW queue, Chained(queue), Len(queue) < predict!QueueSize,
         NEW pc \in Address, pc = predict!PredictedNext(Last(queue))
  PROVE  Chained(Append(queue, pc))
<1> DEFINE longer == Append(queue, pc)
<1>1. queue \in Seq(Address) /\ Len(queue) \in Nat \ {0}
  BY EmptySeq, LenProperties DEF Chained
<1>2. /\ longer \in Seq(Address) /\ longer # <<>> /\ Len(longer) = Len(queue) + 1
      /\ \A i \in 1 .. Len(queue) : longer[i] = queue[i]
      /\ longer[Len(queue) + 1] = pc
  BY <1>1, AppendProperties
<1>3. ASSUME NEW i \in 1 .. Len(longer) - 1
      PROVE  longer[i + 1] = predict!PredictedNext(longer[i])
  <2>1. CASE i = Len(queue)
    BY <1>1, <1>2, <2>1 DEF Last
  <2>2. CASE i # Len(queue)
    <3>1. i \in 1 .. Len(queue) - 1 /\ i \in 1 .. Len(queue) /\ i + 1 \in 1 .. Len(queue)
      BY <1>1, <1>2, <1>3, <2>2
    <3> QED
      BY <1>2, <3>1 DEF Chained
  <2> QED
    BY <2>1, <2>2
<1> HIDE DEF longer
<1>4. Len(longer) <= predict!QueueSize
  BY <1>1, <1>2 DEF predict!QueueSize
<1>5. Chained(longer)
  BY <1>2, <1>3, <1>4 DEF Chained
<1> QED
  BY <1>5 DEF longer

LEMMA TailChained ==
  ASSUME NEW queue, Chained(queue), Len(queue) = predict!QueueSize
  PROVE  /\ Chained(Tail(queue)) /\ Head(Tail(queue)) \in Address
         /\ Head(Tail(queue)) = queue[2]
<1> DEFINE rest == Tail(queue)
<1>1. queue \in Seq(Address) /\ queue # <<>> /\ Len(queue) = 4
  BY DEF Chained, predict!QueueSize
<1>2. /\ rest \in Seq(Address) /\ Len(rest) = 3
      /\ \A i \in 1 .. 3 : rest[i] = queue[i + 1]
  <2>1. /\ rest \in Seq(Address) /\ Len(rest) = Len(queue) - 1
        /\ \A i \in 1 .. Len(rest) : rest[i] = queue[i + 1]
    BY <1>1, HeadTailProperties, Zenon
  <2> HIDE DEF rest
  <2>2. Len(rest) = 3
    BY <1>1, <2>1
  <2> QED
    BY <2>1, <2>2
<1> HIDE DEF rest
<1>3. rest # <<>> /\ Head(rest) \in Address /\ Head(rest) = queue[2]
  <2>1. rest # <<>>
    BY <1>2
  <2>2. Head(rest) \in Address
    BY <1>2, <2>1, HeadTailProperties
  <2>3. 1 \in 1 .. 3 /\ rest[1] = queue[1 + 1] /\ 1 + 1 = 2
    BY <1>2
  <2>4. Head(rest) = rest[1]
    BY <1>2, <2>1
  <2> QED
    BY <2>1, <2>2, <2>3, <2>4
<1>4. ASSUME NEW i \in 1 .. Len(rest) - 1
      PROVE  rest[i + 1] = predict!PredictedNext(rest[i])
  <2>1. /\ i \in 1 .. 3 /\ i + 1 \in 1 .. 3 /\ i + 1 \in 1 .. Len(queue) - 1
        /\ i \in Int
    BY <1>1, <1>2
  <2>2. queue[(i + 1) + 1] = predict!PredictedNext(queue[i + 1])
    BY <2>1 DEF Chained
  <2> QED
    BY <1>2, <2>1, <2>2
<1>5. Chained(rest)
  BY <1>2, <1>3, <1>4 DEF Chained, predict!QueueSize
<1> QED
  BY <1>3, <1>5 DEF rest

LEMMA OneChained ==
  ASSUME NEW pc \in Address
  PROVE  Chained(<<pc>>) /\ Len(<<pc>>) = 1
BY DEF Chained, predict!QueueSize

\* The program does not change, and with it no prediction does.
LEMMA ChainedPrime ==
  ASSUME UNCHANGED program
  PROVE  /\ Chained(PCQueue') => Chained(PCQueue)'
         /\ \A pc : predict!PredictedNext(pc)' = predict!PredictedNext(pc)
         /\ \A pc : predict!PredictionFails(pc)' <=> predict!PredictionFails(pc)
<1>1. \A pc : predict!PredictedNext(pc)' = predict!PredictedNext(pc)
  BY DEF predict!PredictedNext
<1>2. \A pc : predict!PredictionFails(pc)' <=> predict!PredictionFails(pc)
  BY <1>1 DEF predict!PredictionFails, predict!Readable
<1> QED
  BY <1>1, <1>2 DEF Chained, predict!QueueSize

-----------------------------------------------------------------------------
(* Every step. *)

LEMMA StepLockInv == LockInv /\ [Next]_vars => LockInv'
<1> SUFFICES ASSUME LockInv, [Next]_vars PROVE LockInv'
  OBVIOUS
<1> USE DEF LockInv, AllIdle, Callers
<1>1. CASE Workloop
  BY <1>1
  DEF Workloop, WorkloopStart, WorkloopPredict, WorkloopPush, WorkloopReturn, WorkloopThrow
<1>2. CASE Call
  BY <1>2 DEF Call
<1>3. CASE HandleFlush \/ Destroy \/ DestroyJoin
  BY <1>3 DEF HandleFlush, Destroy, DestroyJoin
<1>4. ASSUME NEW c \in Callers, Lock(c) \/ Join(c)
      PROVE  LockInv'
  <2>1. CASE Lock(c)
    BY <2>1 DEF Lock
  <2>2. CASE Join(c)
    BY <2>2 DEF Join
  <2> QED
    BY <1>4, <2>1, <2>2
<1>5. CASE GetNextPCRethrows \/ GetNextPC
  BY <1>5 DEF GetNextPCRethrows, GetNextPC, Return
<1>6. CASE CheckPredictionThrows \/ CheckPrediction
  BY <1>6 DEF CheckPredictionThrows, CheckPrediction, Return
<1>7. CASE UNCHANGED vars
  BY <1>7 DEF vars
<1> QED
  BY <1>1, <1>2, <1>3, <1>4, <1>5, <1>6, <1>7 DEF Next, Step

LEMMA StepQueueInv ==
  program \in Programs /\ LockInv /\ QueueInv /\ [Next]_vars => QueueInv'
<1> SUFFICES ASSUME program \in Programs, LockInv, QueueInv, [Next]_vars PROVE QueueInv'
  OBVIOUS
<1> USE DEF QueueInv
<1>0. UNCHANGED program
  BY DEF Next, Workloop, WorkloopStart, WorkloopPredict, WorkloopPush, WorkloopReturn,
         WorkloopThrow, Call, HandleFlush, Destroy, DestroyJoin, Step, Lock, Join,
         GetNextPCRethrows, GetNextPC, CheckPredictionThrows, CheckPrediction, vars
\* A step that leaves the queue and the look-ahead alone.
<1>1. ASSUME UNCHANGED <<PCQueue, nextPC>>,
             workloop' = "push" => workloop = "push",
             workloop' \in {"none", "returned"} =>
               \/ workloop \in {"none", "returned"}
               \/ workloopExceptionPtr' \/ isProcessorExceptionGenerated'
               \/ Len(PCQueue) = predict!QueueSize,
             workloopExceptionPtr => workloopExceptionPtr',
             isProcessorExceptionGenerated => isProcessorExceptionGenerated'
      PROVE  QueueInv'
  BY <1>0, <1>1, ChainedPrime DEF predict!QueueSize, Last
\* A new queue, and a look-ahead that starts on it.
<1>2. ASSUME Chained(PCQueue'), workloop' \in {"start", "loop"}
      PROVE  QueueInv'
  BY <1>0, <1>2, ChainedPrime
<1>3. CASE WorkloopStart \/ WorkloopReturn
  <2>1. CASE WorkloopStart /\ (PCQueue = <<>> \/ Last(PCQueue) % 4 # 0)
    BY <1>1, <2>1 DEF WorkloopStart, WorkloopThrow
  <2>2. CASE WorkloopStart /\ ~(PCQueue = <<>> \/ Last(PCQueue) % 4 # 0)
    <3>1. UNCHANGED <<PCQueue, nextPC>> /\ workloop' = "loop"
      BY <2>2 DEF WorkloopStart
    <3> QED
      BY <1>2, <3>1
  <2>3. CASE WorkloopReturn
    <3>1. Len(PCQueue) <= predict!QueueSize /\ Len(PCQueue) \in Nat
      BY LenProperties DEF Chained
    <3>2. ASSUME NEW n \in Nat, n <= 4, n >= 4
          PROVE  n = 4
      BY <3>2
    <3>3. Len(PCQueue) >= predict!QueueSize => Len(PCQueue) = predict!QueueSize
      BY <3>1, <3>2, Zenon DEF predict!QueueSize
    <3> QED
      BY <1>1, <2>3, <3>3 DEF WorkloopReturn
  <2> QED
    BY <1>3, <2>1, <2>2, <2>3
<1>4. CASE WorkloopPredict
  <2>1. CASE predict!PredictionFails(Last(PCQueue))
    BY <1>1, <1>4, <2>1 DEF WorkloopPredict, WorkloopThrow
  <2>2. CASE ~predict!PredictionFails(Last(PCQueue))
    <3>1. /\ nextPC' = predict!PredictedNext(Last(PCQueue)) /\ workloop' = "push"
          /\ Len(PCQueue) < predict!QueueSize /\ PCQueue' = PCQueue
      BY <1>4, <2>2 DEF WorkloopPredict
    <3>2. Last(PCQueue) \in Address
      BY LenProperties DEF Chained, Last
    <3>3. nextPC' \in Address
      BY <2>2, <3>1, <3>2, PredictionInMemory
    <3> QED
      BY <1>0, <2>2, <3>1, <3>3, ChainedPrime DEF predict!QueueSize, Last
  <2> QED
    BY <2>1, <2>2
<1>5. CASE WorkloopPush
  <2>1. Chained(PCQueue')
    BY <1>5, AppendChained DEF WorkloopPush
  <2> QED
    BY <1>2, <1>5, <2>1 DEF WorkloopPush
<1>6. CASE Call \/ HandleFlush \/ Destroy \/ DestroyJoin
  BY <1>1, <1>6 DEF Call, HandleFlush, Destroy, DestroyJoin
<1>7. ASSUME NEW c \in Callers, Lock(c) \/ Join(c)
      PROVE  QueueInv'
  BY <1>1, <1>7 DEF Lock, Join
<1>8. CASE GetNextPCRethrows
  BY <1>1, <1>8 DEF GetNextPCRethrows
<1>9. CASE GetNextPC
  <2>1. ~isProcessorExceptionGenerated /\ workloop = "none"
    BY <1>9 DEF GetNextPC, LockInv, AllIdle, Callers
  <2>2. Len(PCQueue) = predict!QueueSize
    BY <1>9, <2>1 DEF GetNextPC
  <2> QED
    BY <1>2, <1>9, <2>2, TailChained DEF GetNextPC
<1>10. CASE CheckPredictionThrows
  BY <1>1, <1>10 DEF CheckPredictionThrows
<1>11. CASE CheckPrediction
  <2>1. address \in Address
    BY <1>11 DEF CheckPrediction, LockInv
  <2>2. CASE Head(executingQueue) = address
    BY <1>1, <1>11, <2>2 DEF CheckPrediction
  <2>3. CASE Head(executingQueue) # address
    BY <1>2, <1>11, <2>1, <2>3, OneChained DEF CheckPrediction
  <2> QED
    BY <2>2, <2>3
<1>12. CASE UNCHANGED vars
  BY <1>1, <1>12 DEF vars
<1> QED
  BY <1>3, <1>4, <1>5, <1>6, <1>7, <1>8, <1>9, <1>10, <1>11, <1>12 DEF Next, Workloop, Step

Inv == program \in Programs /\ LockInv /\ QueueInv

LEMMA Initially == Init => Inv
<1> SUFFICES ASSUME Init PROVE LockInv /\ QueueInv
  BY DEF Init, Inv
<1>1. LockInv
  BY DEF Init, LockInv, Callers
<1>2. Chained(PCQueue)
  BY ConstantsOK, OneChained DEF Init
<1> QED
  BY <1>1, <1>2 DEF Init, QueueInv

LEMMA Invariance == Spec => []Inv
<1>1. program \in Programs /\ [Next]_vars => program' \in Programs
  BY DEF Next, Workloop, WorkloopStart, WorkloopPredict, WorkloopPush, WorkloopReturn,
         WorkloopThrow, Call, HandleFlush, Destroy, DestroyJoin, Step, Lock, Join,
         GetNextPCRethrows, GetNextPC, CheckPredictionThrows, CheckPrediction, vars
<1>2. Inv /\ [Next]_vars => Inv'
  BY <1>1, StepLockInv, StepQueueInv DEF Inv
<1> QED
  BY <1>2, Initially, PTL DEF Spec

-----------------------------------------------------------------------------

\* The look-ahead never shares the queue with a method that changes it, and the
\* queue of PCs is never empty, never over its size and always a chain of
\* predictions (getNextPC, checkPrediction and predictionWorkloop).
THEOREM QueueStaysChained == Spec => []QueueIsChain
<1>1. Inv => QueueIsChain
  BY DEF Inv, LockInv, QueueInv, Chained, QueueIsChain
<1> QED
  BY <1>1, Invariance, PTL

\* A getNextPC that does not rethrow takes from a full queue: the case of an
\* empty one, left open in the code, is unreachable.
THEOREM NextPCIsPredicted == Spec => []NextPCPredicted
<1>1. Inv => NextPCPredicted
  BY DEF Inv, LockInv, QueueInv, NextPCPredicted, AllIdle, Callers
<1> QED
  BY <1>1, Invariance, PTL

-----------------------------------------------------------------------------

LEMMA DropOldestType ==
  ASSUME NEW S, NEW queue \in Seq(S)
  PROVE  predict!DropOldest(queue) \in Seq(S)
<1>1. queue # <<>> => Tail(queue) \in Seq(S)
  BY HeadTailProperties
<1> QED
  BY <1>1 DEF predict!DropOldest

\* The types of what QueueInv and LockInv do not speak of.
OtherTypes ==
  /\ executingQueue \in Seq(Address \cup {NoPC})
  /\ workloopExceptionPtr \in BOOLEAN
  /\ isProcessorExceptionGenerated \in BOOLEAN
  /\ workloop \in {"none", "start", "loop", "push", "returned"}
  /\ nextPC \in Address \cup {NoPC}
  /\ address \in Address \cup {NoPC}

LEMMA StepOtherTypes == Inv /\ OtherTypes /\ [Next]_vars => OtherTypes'
<1> SUFFICES ASSUME Inv, OtherTypes, [Next]_vars PROVE OtherTypes'
  OBVIOUS
<1> USE DEF OtherTypes
<1>1. CASE Workloop
  <2>1. CASE WorkloopStart \/ WorkloopPush \/ WorkloopReturn
    BY <2>1 DEF WorkloopStart, WorkloopPush, WorkloopReturn, WorkloopThrow
  <2>2. CASE WorkloopPredict
    <3>1. Last(PCQueue) \in Address
      BY LenProperties DEF Inv, QueueInv, Chained, Last
    <3>2. CASE predict!PredictionFails(Last(PCQueue))
      BY <2>2, <3>2 DEF WorkloopPredict, WorkloopThrow
    <3>3. CASE ~predict!PredictionFails(Last(PCQueue))
      <4>1. nextPC' \in Address
        BY <2>2, <3>1, <3>3, PredictionInMemory DEF WorkloopPredict, Inv
      <4> QED
        BY <2>2, <3>3, <4>1 DEF WorkloopPredict
    <3> QED
      BY <3>2, <3>3
  <2> QED
    BY <1>1, <2>1, <2>2 DEF Workloop
<1>2. CASE Call
  BY <1>2 DEF Call
<1>3. CASE HandleFlush
  <2>1. predict!DropOldest(executingQueue) \in Seq(Address \cup {NoPC})
    BY DropOldestType
  <2>2. Append(predict!DropOldest(executingQueue), NoPC) \in Seq(Address \cup {NoPC})
    BY <2>1, AppendProperties
  <2> QED
    BY <1>3, <2>2 DEF HandleFlush
<1>4. CASE Destroy \/ DestroyJoin
  BY <1>4 DEF Destroy, DestroyJoin
<1>5. ASSUME NEW c \in Callers, Lock(c) \/ Join(c)
      PROVE  OtherTypes'
  BY <1>5 DEF Lock, Join
<1>6. CASE GetNextPCRethrows \/ CheckPredictionThrows
  BY <1>6 DEF GetNextPCRethrows, CheckPredictionThrows
<1>7. CASE GetNextPC
  <2>1. ~isProcessorExceptionGenerated /\ workloop = "none"
    BY <1>7 DEF GetNextPC, Inv, LockInv, AllIdle, Callers
  <2>2. Len(PCQueue) = predict!QueueSize /\ Chained(PCQueue)
    BY <1>7, <2>1 DEF GetNextPC, Inv, QueueInv
  <2>3. Head(Tail(PCQueue)) \in Address \cup {NoPC}
    BY <2>2, TailChained
  <2>4. predict!DropOldest(executingQueue) \in Seq(Address \cup {NoPC})
    BY DropOldestType
  <2>5. Append(predict!DropOldest(executingQueue), Head(Tail(PCQueue)))
          \in Seq(Address \cup {NoPC})
    BY <2>3, <2>4, AppendProperties
  <2> QED
    BY <1>7, <2>5 DEF GetNextPC
<1>8. CASE CheckPrediction
  <2>1. executingQueue # <<>> /\ Tail(executingQueue) \in Seq(Address \cup {NoPC})
    BY <1>8, HeadTailProperties DEF CheckPrediction
  <2> QED
    BY <1>8, <2>1 DEF CheckPrediction
<1>9. CASE UNCHANGED vars
  BY <1>9 DEF vars
<1> QED
  BY <1>1, <1>2, <1>3, <1>4, <1>5, <1>6, <1>7, <1>8, <1>9 DEF Next, Step

\* Every variable of the predictor keeps its type: every PC queued or predicted
\* is an aligned address in memory (the whole of SimpleBranchPredictor.cpp).
THEOREM TypeCorrect == Spec => []TypeOK
<1>1. Init => OtherTypes
  <2>1. << >> \in Seq(Address \cup {NoPC})
    BY EmptySeq
  <2> QED
    BY <2>1 DEF Init, OtherTypes
<1>2. Inv /\ OtherTypes => TypeOK
  BY DEF Inv, LockInv, QueueInv, Chained, OtherTypes, TypeOK
<1> QED
  BY <1>1, <1>2, Invariance, StepOtherTypes, PTL DEF Spec

-----------------------------------------------------------------------------
(* The look-ahead thread implements module BranchPredictor: it only ever   *)
(* does what Fill(PCQueue) takes for done.                                 *)

\* One turn of the loop.
LEMMA ExtendChained ==
  ASSUME program \in Programs, NEW queue, Chained(queue)
  PROVE  /\ Chained(predict!Extend[queue])
         /\ predict!Extend[queue] =
              IF Len(queue) < 4 /\ ~predict!PredictionFails(Last(queue))
                THEN Append(queue, predict!PredictedNext(Last(queue)))
                ELSE queue
         /\ \/ predict!Extend[queue] = queue
            \/ Len(queue) < 4 /\ Len(predict!Extend[queue]) = Len(queue) + 1
<1>1. queue \in Seq(Address) /\ Len(queue) \in Nat \ {0}
  BY EmptySeq, LenProperties DEF Chained
<1>2. queue \in Seq(Int)
  BY <1>1, ConstantsOK, SeqMonotonic
<1>3. Last(queue) = predict!LastPC(queue) /\ Last(queue) \in Address
  BY <1>1 DEF Last, predict!LastPC
<1>4. predict!Extend[queue] =
        IF Len(queue) < 4 /\ ~predict!PredictionFails(Last(queue))
          THEN Append(queue, predict!PredictedNext(Last(queue)))
          ELSE queue
  BY <1>2, <1>3 DEF predict!Extend, predict!QueueSize
<1>5. CASE Len(queue) < 4 /\ ~predict!PredictionFails(Last(queue))
  <2>1. predict!PredictedNext(Last(queue)) \in Address
    BY <1>3, <1>5, PredictionInMemory
  <2>2. Chained(Append(queue, predict!PredictedNext(Last(queue))))
    BY <1>5, <2>1, AppendChained DEF predict!QueueSize
  <2>3. Len(Append(queue, predict!PredictedNext(Last(queue)))) = Len(queue) + 1
    BY <1>1, <2>1, AppendProperties
  <2> QED
    BY <1>4, <1>5, <2>2, <2>3
<1>6. CASE ~(Len(queue) < 4 /\ ~predict!PredictionFails(Last(queue)))
  BY <1>4, <1>6
<1> QED
  BY <1>4, <1>5, <1>6

\* After three turns another one changes nothing.
LEMMA FillDone ==
  ASSUME program \in Programs, NEW queue, Chained(queue)
  PROVE  /\ Chained(predict!Fill(queue))
         /\ predict!Extend[predict!Fill(queue)] = predict!Fill(queue)
<1> DEFINE q1 == predict!Extend[queue]
           q2 == predict!Extend[q1]
           q3 == predict!Extend[q2]
           q4 == predict!Extend[q3]
<1>1. predict!Fill(queue) = q3
  BY DEF predict!Fill
<1>2. Chained(q1) /\ (q1 = queue \/ (Len(queue) < 4 /\ Len(q1) = Len(queue) + 1))
  BY ExtendChained
<1>3. Chained(q2) /\ (q2 = q1 \/ (Len(q1) < 4 /\ Len(q2) = Len(q1) + 1))
  BY <1>2, ExtendChained
<1>4. Chained(q3) /\ (q3 = q2 \/ (Len(q2) < 4 /\ Len(q3) = Len(q2) + 1))
  BY <1>3, ExtendChained
<1>5. q4 = q3 \/ Len(q3) < 4
  BY <1>4, ExtendChained
<1>6. Len(queue) \in Nat \ {0}
  BY EmptySeq, LenProperties DEF Chained
<1>7. q1 = queue => q2 = q1
  OBVIOUS
<1>8. q2 = q1 => q3 = q2
  OBVIOUS
<1>9. q3 = q2 => q4 = q3
  OBVIOUS
<1>10. q4 = q3
  <2> HIDE DEF q1, q2, q3, q4
  <2> QED
    BY <1>2, <1>3, <1>4, <1>5, <1>6, <1>7, <1>8, <1>9
<1> QED
  BY <1>1, <1>4, <1>10

\* Pushing a prediction, or finding that none can be made, does not change how
\* the look-ahead ends.
LEMMA PushFills ==
  ASSUME program \in Programs, NEW queue, Chained(queue), Len(queue) < 4,
         ~predict!PredictionFails(Last(queue))
  PROVE  predict!Fill(Append(queue, predict!PredictedNext(Last(queue)))) = predict!Fill(queue)
<1>1. predict!Extend[queue] = Append(queue, predict!PredictedNext(Last(queue)))
  BY ExtendChained
<1>2. predict!Fill(predict!Extend[queue]) = predict!Extend[predict!Fill(queue)]
  BY DEF predict!Fill
<1> QED
  BY <1>1, <1>2, FillDone

LEMMA FullFills ==
  ASSUME program \in Programs, NEW queue, Chained(queue),
         Len(queue) = 4 \/ predict!PredictionFails(Last(queue))
  PROVE  predict!Fill(queue) = queue
<1>1. predict!Extend[queue] =
        IF Len(queue) < 4 /\ ~predict!PredictionFails(Last(queue))
          THEN Append(queue, predict!PredictedNext(Last(queue)))
          ELSE queue
  BY ExtendChained
<1>2. Len(queue) = 4 => ~(Len(queue) < 4)
  OBVIOUS
<1>3. predict!Extend[queue] = queue
  <2>1. CASE Len(queue) = 4
    BY <1>1, <1>2, <2>1
  <2>2. CASE predict!PredictionFails(Last(queue))
    BY <1>1, <2>2, Zenon
  <2> QED
    BY <2>1, <2>2
<1> QED
  BY <1>3 DEF predict!Fill

\* The two instances of BranchPredictor compute the same.
LEMMA SameOperators ==
  /\ \A queue : branchPredictor!Fill(queue) = predict!Fill(queue)
  /\ \A queue : /\ branchPredictor!FillFails(queue) = predict!FillFails(queue)
                  /\ predict!FillFails(queue) \in BOOLEAN
  /\ \A queue : branchPredictor!DropOldest(queue) = predict!DropOldest(queue)
<1>1. branchPredictor!Extend = predict!Extend
  BY DEF branchPredictor!Extend, predict!Extend, branchPredictor!QueueSize,
         predict!QueueSize, branchPredictor!LastPC, predict!LastPC,
         branchPredictor!PredictedNext, predict!PredictedNext,
         branchPredictor!PredictionFails, predict!PredictionFails,
         branchPredictor!Readable, predict!Readable, branchPredictor!Branches, predict!Branches
<1> QED
  BY <1>1 DEF branchPredictor!Fill, predict!Fill, branchPredictor!FillFails,
              predict!FillFails, branchPredictor!DropOldest, predict!DropOldest,
              branchPredictor!QueueSize, predict!QueueSize

\* The predictor as it is seen from outside (the refinement mapping).
seenQueue     == predict!Fill(PCQueue)
seenException == workloopExceptionPtr \/ predict!FillFails(PCQueue)
seen == <<program, seenQueue, executingQueue, seenException>>

\* What is seen after a step.
LEMMA SeenPrime ==
  ASSUME UNCHANGED program
  PROVE  /\ seenQueue' = predict!Fill(PCQueue')
         /\ seenException' <=> workloopExceptionPtr' \/ predict!FillFails(PCQueue')
BY DEF seenQueue, seenException, predict!Fill, predict!FillFails, predict!Extend,
       predict!QueueSize, predict!LastPC, predict!PredictedNext, predict!PredictionFails,
       predict!Readable, predict!Branches

LEMMA SeenStutter ==
  ASSUME UNCHANGED <<program, PCQueue, executingQueue, workloopExceptionPtr>>
  PROVE  UNCHANGED seen
BY SeenPrime DEF seen, seenQueue, seenException

\* The look-ahead is not seen: what it pushes Fill had already, and when it
\* throws FillFails held already.
LEMMA WorkloopUnseen ==
  ASSUME Inv, Workloop
  PROVE  UNCHANGED seen
<1>1. /\ program \in Programs /\ Chained(PCQueue)
      /\ Len(PCQueue) \in Nat \ {0} /\ Last(PCQueue) \in Address
  BY EmptySeq, LenProperties DEF Inv, QueueInv, Chained, Last
<1>2. CASE WorkloopStart
  <2>1. PCQueue # <<>> /\ Last(PCQueue) % 4 = 0
    BY <1>1 DEF Chained, Address
  <2> QED
    BY <1>2, <2>1, SeenStutter DEF WorkloopStart
<1>3. CASE WorkloopPredict
  <2>1. CASE predict!PredictionFails(Last(PCQueue))
    <3>1. predict!Fill(PCQueue) = PCQueue
      BY <1>1, <2>1, FullFills
    <3>2. Len(PCQueue) < predict!QueueSize
      BY <1>3 DEF WorkloopPredict
    <3>3. predict!FillFails(PCQueue)
      BY <3>1, <3>2 DEF predict!FillFails
    <3>4. /\ UNCHANGED <<program, PCQueue, executingQueue>>
          /\ workloopExceptionPtr' = TRUE
      BY <1>3, <2>1 DEF WorkloopPredict, WorkloopThrow
    <3>5. seenQueue' = seenQueue
      BY <3>4, SeenPrime DEF seenQueue
    <3>6. seenException' = seenException
      <4>1. seenException'
        BY <3>4, SeenPrime
      <4>2. seenException
        BY <3>3 DEF seenException
      <4> QED
        BY <4>1, <4>2 DEF seenException
    <3> QED
      BY <3>4, <3>5, <3>6 DEF seen
  <2>2. CASE ~predict!PredictionFails(Last(PCQueue))
    BY <1>3, <2>2, SeenStutter DEF WorkloopPredict
  <2> QED
    BY <2>1, <2>2
<1>4. CASE WorkloopPush
  <2>1. CASE isProcessorExceptionGenerated
    BY <1>4, <2>1, SeenStutter DEF WorkloopPush
  <2>2. CASE ~isProcessorExceptionGenerated
    <3>1. /\ nextPC = predict!PredictedNext(Last(PCQueue)) /\ Len(PCQueue) < 4
          /\ ~predict!PredictionFails(Last(PCQueue))
      BY <1>4 DEF WorkloopPush, Inv, QueueInv, predict!QueueSize
    <3>2. PCQueue' = Append(PCQueue, predict!PredictedNext(Last(PCQueue)))
      BY <1>4, <2>2, <3>1 DEF WorkloopPush
    <3>3. predict!Fill(PCQueue') = predict!Fill(PCQueue)
      BY <1>1, <3>1, <3>2, PushFills
    <3>4. predict!FillFails(PCQueue') <=> predict!FillFails(PCQueue)
      BY <3>3 DEF predict!FillFails
    <3>5. UNCHANGED <<program, executingQueue, workloopExceptionPtr>>
      BY <1>4 DEF WorkloopPush
    <3>6. seenQueue' = seenQueue /\ seenException' = seenException
      BY <3>3, <3>4, <3>5, SeenPrime DEF seenQueue, seenException
    <3> QED
      BY <3>5, <3>6 DEF seen
  <2> QED
    BY <2>1, <2>2
<1>5. CASE WorkloopReturn
  BY <1>5, SeenStutter DEF WorkloopReturn
<1> QED
  BY <1>2, <1>3, <1>4, <1>5 DEF Workloop

\* Between two bodies, with no look-ahead at work, it has ended: what is seen
\* is what is there.
LEMMA BodySees ==
  ASSUME Inv, NEW c \in Callers, caller[c] = "body"
  PROVE  /\ seenException <=> workloopExceptionPtr
         /\ ~workloopExceptionPtr => seenQueue = PCQueue /\ Len(PCQueue) = predict!QueueSize
<1>1. workloop = "none" /\ ~isProcessorExceptionGenerated
  BY DEF Inv, LockInv, AllIdle
<1>2. ~workloopExceptionPtr => Len(PCQueue) = predict!QueueSize /\ Len(PCQueue) = 4
  BY <1>1 DEF Inv, QueueInv, predict!QueueSize
<1>3. ~workloopExceptionPtr => predict!Fill(PCQueue) = PCQueue
  BY <1>2, FullFills DEF Inv, QueueInv
<1>4. ASSUME ~workloopExceptionPtr PROVE ~predict!FillFails(PCQueue)
  <2>1. Len(predict!Fill(PCQueue)) = 4
    BY <1>2, <1>3, <1>4
  <2>2. ~(Len(predict!Fill(PCQueue)) < 4)
    BY <2>1
  <2> QED
    BY <2>2 DEF predict!FillFails, predict!QueueSize
<1> QED
  BY <1>2, <1>3, <1>4 DEF seenQueue, seenException

\* One step of the abstract predictor, or none.
Seen == [branchPredictor!PredictorNext /\ UNCHANGED program]_
          <<program, branchPredictor!predictorVars>>

LEMMA StutterSeen == UNCHANGED seen => Seen
BY SameOperators
DEF seen, seenQueue, seenException, Seen, branchPredictor!predictorVars

\* getNextPC, with the look-ahead it starts.
LEMMA GetNextPCSeen ==
  ASSUME Inv, GetNextPC
  PROVE  branchPredictor!GetNextPC /\ UNCHANGED program
<1>1. /\ caller["fetch"] = "body" /\ ~workloopExceptionPtr
      /\ PCQueue' = Tail(PCQueue) /\ UNCHANGED <<program, workloopExceptionPtr>>
      /\ executingQueue' = Append(predict!DropOldest(executingQueue), Head(Tail(PCQueue)))
  BY DEF GetNextPC
<1>2. ~seenException /\ seenQueue = PCQueue /\ Len(PCQueue) = predict!QueueSize
  BY <1>1, BodySees DEF Callers
<1>3. Head(Tail(PCQueue)) = seenQueue[2]
  BY <1>2, TailChained DEF Inv, QueueInv
<1>4. seenQueue' = predict!Fill(Tail(PCQueue))
  BY <1>1, SeenPrime
<1>5. seenException' = predict!FillFails(Tail(PCQueue))
  BY <1>1, SeenPrime, SameOperators DEF seenException
<1> QED
  BY <1>1, <1>2, <1>3, <1>4, <1>5, SameOperators
  DEF branchPredictor!GetNextPC, seenQueue, seenException

\* checkPrediction, with the look-ahead it starts when the prediction failed.
LEMMA CheckPredictionSeen ==
  ASSUME Inv, CheckPrediction
  PROVE  /\ address \in Address /\ executingQueue # <<>> /\ UNCHANGED program
         /\ \/ branchPredictor!CorrectPrediction(address)
            \/ branchPredictor!FailedPrediction(address)
<1>1. /\ caller["execute"] = "body" /\ executingQueue # <<>>
      /\ executingQueue' = Tail(executingQueue)
      /\ UNCHANGED <<program, workloopExceptionPtr>>
  BY DEF CheckPrediction
<1>2. address \in Address
  BY <1>1 DEF Inv, LockInv
<1>3. CASE Head(executingQueue) = address
  <2>1. PCQueue' = PCQueue
    BY <1>3 DEF CheckPrediction
  <2>2. seenQueue' = seenQueue /\ seenException' = seenException
    BY <1>1, <2>1, SeenPrime DEF seenQueue, seenException
  <2>3. branchPredictor!CorrectPrediction(address)
    BY <1>1, <1>3, <2>2 DEF branchPredictor!CorrectPrediction, seenQueue, seenException
  <2> QED
    BY <1>1, <1>2, <2>3
<1>4. CASE Head(executingQueue) # address
  <2>1. PCQueue' = <<address>>
    BY <1>4 DEF CheckPrediction
  <2>2. seenQueue' = predict!Fill(<<address>>)
    BY <1>1, <2>1, SeenPrime
  <2>3. seenException' = (workloopExceptionPtr \/ predict!FillFails(<<address>>))
    BY <1>1, <2>1, SeenPrime DEF seenException
  <2>4. seenException <=> workloopExceptionPtr
    BY <1>1, BodySees DEF Callers
  <2>5. seenException' = (seenException \/ predict!FillFails(<<address>>))
    BY <2>3, <2>4
  <2>6. branchPredictor!FailedPrediction(address)
    BY <1>1, <1>4, <2>2, <2>5, SameOperators
    DEF branchPredictor!FailedPrediction, seenQueue, seenException
  <2> QED
    BY <1>1, <1>2, <2>6
<1> QED
  BY <1>3, <1>4

LEMMA HandleFlushSeen ==
  ASSUME HandleFlush
  PROVE  branchPredictor!HandleFlush /\ UNCHANGED program
<1>1. /\ UNCHANGED <<program, PCQueue, workloopExceptionPtr>>
      /\ executingQueue' = Append(predict!DropOldest(executingQueue), NoPC)
  BY DEF HandleFlush
<1>2. seenQueue' = seenQueue /\ seenException' = seenException
  BY <1>1, SeenPrime DEF seenQueue, seenException
<1> QED
  BY <1>1, <1>2, SameOperators DEF branchPredictor!HandleFlush, seenQueue, seenException

LEMMA EveryStepSeen == Inv /\ [Next]_vars => Seen
<1> SUFFICES ASSUME Inv, [Next]_vars PROVE Seen
  OBVIOUS
<1>1. CASE Workloop
  BY <1>1, WorkloopUnseen, StutterSeen
<1>2. CASE GetNextPC
  BY <1>2, GetNextPCSeen DEF Seen, branchPredictor!PredictorNext
<1>3. CASE CheckPrediction
  <2>1. address \in {a \in 0 .. MemSize - 1 : a % 4 = 0}
    BY <1>3, CheckPredictionSeen DEF Address
  <2> QED
    BY <1>3, <2>1, CheckPredictionSeen DEF Seen, branchPredictor!PredictorNext
<1>4. CASE HandleFlush
  BY <1>4, HandleFlushSeen DEF Seen, branchPredictor!PredictorNext
<1>5. CASE Call \/ Destroy \/ DestroyJoin \/ GetNextPCRethrows \/ CheckPredictionThrows
  <2>1. UNCHANGED <<program, PCQueue, executingQueue, workloopExceptionPtr>>
    BY <1>5 DEF Call, Destroy, DestroyJoin, GetNextPCRethrows, CheckPredictionThrows
  <2> QED
    BY <2>1, SeenStutter, StutterSeen
<1>6. ASSUME NEW c \in Callers, Lock(c) \/ Join(c)
      PROVE  Seen
  <2>1. UNCHANGED <<program, PCQueue, executingQueue, workloopExceptionPtr>>
    BY <1>6 DEF Lock, Join
  <2> QED
    BY <2>1, SeenStutter, StutterSeen
<1>7. CASE UNCHANGED vars
  <2>1. UNCHANGED <<program, PCQueue, executingQueue, workloopExceptionPtr>>
    BY <1>7 DEF vars
  <2> QED
    BY <2>1, SeenStutter, StutterSeen
<1> QED
  BY <1>1, <1>2, <1>3, <1>4, <1>5, <1>6, <1>7 DEF Next, Step

\* With its thread, its lock and its joins, the predictor does what the HART
\* model takes it to do, a call at a time (every public method of
\* SimpleBranchPredictor): nothing that the look-ahead does on the side can be
\* seen through a method.
THEOREM PredictorIsImplemented == Spec => ImplementsPredictor
<1>1. Init => branchPredictor!PredictorInit
  BY SameOperators DEF Init, branchPredictor!PredictorInit
<1>2. Inv /\ [Next]_vars
        => [branchPredictor!PredictorNext /\ UNCHANGED program]_
             <<program, branchPredictor!predictorVars>>
  BY EveryStepSeen DEF Seen
<1> QED
  BY <1>1, <1>2, Invariance, PTL DEF Spec, ImplementsPredictor, branchPredictor!PredictorSpec

=============================================================================
