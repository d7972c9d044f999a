---------------------- MODULE PipelineHazardController ----------------------
(***************************************************************************)
(* The queue a HART keeps of the instructions that are in its pipeline     *)
(* (units/PipelineHazardController.cpp).  Every method takes the           *)
(* controller's mutex for its whole body, so each is one operator here.    *)
(*                                                                         *)
(* The module is passive: it has no Next of its own, the stage threads of  *)
(* a tick (module Hart) call its operators.  Of the AbstractInstruction an *)
(* entry holds, the controller only ever reads the destination register.   *)
(***************************************************************************)
EXTENDS Naturals

CONSTANTS Reg,      \* the valid register numbers, x0 included: 0..31 or 0..15
          Val,      \* the register values
          NoVal,    \* an RDVal of zero bytes
          GarbageRD \* what an rd no constructor initialised may hold

VARIABLES executingQueue, \* entry of every stage, the vector's positions 0..3
          usedQueueSize,
          registerFile

STAGE_DECODE  == 3
STAGE_EXECUTE == 2
STAGE_MEM     == 1
STAGE_WB      == 0
NUM_STAGES    == 4

Stage == 0 .. NUM_STAGES - 1
Entry == [rd : Nat, RDVal : Val \cup {NoVal}]

HazardTypeOK ==
  /\ executingQueue \in [Stage -> Entry]
  /\ usedQueueSize \in 0 .. NUM_STAGES
  /\ registerFile \in [Reg -> Val]

-----------------------------------------------------------------------------

\* vector<InstructionQueueEntry>(NUM_STAGES) value-initialises its entries.
HazardInit ==
  /\ executingQueue = [s \in Stage |-> [rd |-> 0, RDVal |-> NoVal]]
  /\ usedQueueSize = 0
  /\ registerFile = [r \in Reg |-> 0]

\* Mutant: the queue is never found full.
BumpUnbounded ==
  /\ executingQueue' =
       [s \in Stage |-> IF s = STAGE_DECODE THEN [rd |-> 0, RDVal |-> NoVal]
                                            ELSE executingQueue[s + 1]]
  /\ usedQueueSize' = usedQueueSize + 1
  /\ UNCHANGED registerFile

\* Everything moves one stage on; the entry pushed for the decode stage holds
\* a default AbstractInstruction, whose constructor leaves rd uninitialised.
Bump ==
  /\ \E garbage \in GarbageRD :
       executingQueue' =
         [s \in Stage |-> IF s = STAGE_DECODE
                            THEN [rd |-> garbage, RDVal |-> NoVal]
                            ELSE executingQueue[s + 1]]
  /\ usedQueueSize' = IF usedQueueSize < NUM_STAGES
                        THEN usedQueueSize + 1
                        ELSE usedQueueSize
  /\ UNCHANGED registerFile

Enqueue(rd) ==
  /\ executingQueue' = [executingQueue EXCEPT ![STAGE_DECODE].rd = rd]
  /\ UNCHANGED <<usedQueueSize, registerFile>>

\* The instruction in this stage has reg as its destination.
Writes(stage, reg) ==
  /\ usedQueueSize >= NUM_STAGES - stage
  /\ executingQueue[stage].rd = reg

\* Mutant: x0 is not exempt.
StaleWithX0(reg) ==
  \/ Writes(STAGE_EXECUTE, reg)
  \/ Writes(STAGE_MEM, reg) /\ executingQueue[STAGE_MEM].RDVal = NoVal

\* checkForStaleRegister, for a valid register.
Stale(reg) ==
  /\ reg # 0
  /\ \/ Writes(STAGE_EXECUTE, reg)
     \/ Writes(STAGE_MEM, reg) /\ executingQueue[STAGE_MEM].RDVal = NoVal

\* Mutant: what the memory stage holds is not forwarded.
FetchWithoutMEM(reg) ==
  IF reg = 0 THEN 0
  ELSE IF Writes(STAGE_EXECUTE, reg) THEN NoVal
  ELSE IF Writes(STAGE_WB, reg) THEN executingQueue[STAGE_WB].RDVal
  ELSE registerFile[reg]

\* fetchRegisterValue, for a valid register.  NoVal stands for the
\* PipelineHazardException of the three checks that can fail.
FetchRegisterValue(reg) ==
  IF reg = 0 THEN 0
  ELSE IF Writes(STAGE_EXECUTE, reg) THEN NoVal
  ELSE IF Writes(STAGE_MEM, reg) THEN executingQueue[STAGE_MEM].RDVal
  ELSE IF Writes(STAGE_WB, reg) THEN executingQueue[STAGE_WB].RDVal
  ELSE registerFile[reg]

\* The size checks of storeResultAfterExecution and ...AfterMemoryAccess.
CanStoreAfterExecution    == usedQueueSize >= NUM_STAGES - STAGE_EXECUTE
CanStoreAfterMemoryAccess == usedQueueSize >= NUM_STAGES - STAGE_MEM

StoreResultAfterExecution(result) ==
  executingQueue' = [executingQueue EXCEPT ![STAGE_EXECUTE].RDVal =
                       IF CanStoreAfterExecution THEN result ELSE @]

StoreResultAfterMemoryAccess(result) ==
  executingQueue' = [executingQueue EXCEPT ![STAGE_MEM].RDVal =
                       IF CanStoreAfterMemoryAccess THEN result ELSE @]

\* RegisterFile::write, which ignores x0.
WriteRegister(reg, val) ==
  registerFile' = [r \in Reg |-> IF r = reg /\ r # 0 THEN val ELSE registerFile[r]]

=============================================================================
