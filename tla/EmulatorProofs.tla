--------------------------- MODULE EmulatorProofs ---------------------------
(***************************************************************************)
(* Safety of the emulator's two threads, for any number of HARTs: types,   *)
(* the joining of the HARTs' threads, the interface that is there whenever *)
(* the main thread waits, the pause and the stop after a fault.            *)
(*                                                                         *)
(* The inductive invariant has one part per property.  Each part says      *)
(* where the two threads can be when the flag or the data it is about has  *)
(* a given value.                                                          *)
(***************************************************************************)
EXTENDS Emulator, TLAPS

Rendered == {"render", "joinUI", "draw"}
AtEnd == {"isHalted", "waitHalted", "waitingHalted", "delete", "done"}

\* While a call is active its joining loop has joined the threads before its
\* index and none of the others; afterwards none is left.
Active(c) == IF c = "step" THEN main = "tick" ELSE ui = "flushing"

JoinInv ==
  \A c \in Call, h \in HartID :
    IF Active(c)
    THEN IF h < joined[c] THEN thread[c][h] = "joined"
                          ELSE thread[c][h] \in {"running", "returned"}
    ELSE thread[c][h] \in {"idle", "joined"}

\* The interface is told to quit only for a render, which waits for it to
\* finish, and is missing only before the first render or inside one.
UIInv ==
  /\ quit => main \in {"joinUI", "draw"}
  /\ ui = "finished" => main = "joinUI"
  /\ main = "draw" => ui = "none"
  /\ ui = "none" =>
       /\ ~isHalted
       /\ main \in {"loop", "decide", "render", "draw", "step", "tick", "isHalted",
                    "delete", "done"}
  /\ isHalted => stopProcessing /\ main \in {"loop"} \cup AtEnd
  /\ main \in {"waitHalted", "waitingHalted"} => isHalted

\* After a fault the main thread is on its way out.
FaultInv ==
  \/ NoneThrew("step")
  \/ main \in {"tick", "setHalted", "setStopped"} \cup AtEnd
  \/ main \in Rendered /\ after \in {"setHalted", "setStopped"}
  \/ main = "loop" /\ stopProcessing

\* After a step nobody had asked for, the main thread is on its way to a wait
\* or out.
LateInv ==
  late =>
    /\ ~shouldContinue \/ stopProcessing
    /\ main \notin {"step", "resumed", "updated"}
    /\ main = "decide" => ~shouldContinue
    /\ main \in Rendered => after \notin {"step", "resumed", "updated"}

-----------------------------------------------------------------------------
(* Initial states. *)

LEMMA InitTypeOK == Init => TypeOK
<1> SUFFICES ASSUME Init PROVE TypeOK
  OBVIOUS
<1>1. ProcessorTypeOK
  BY NHartsAssumption
  DEF Init, ProcessorInit, ProcessorTypeOK, HartID, Call, ThreadState, Thrown
<1>2. main \in MainPC /\ after \in Continuation /\ ui \in UIPC
  BY DEF Init, MainPC, Continuation, UIPC
<1>3. /\ quit \in BOOLEAN /\ stopProcessing \in BOOLEAN /\ shouldContinue \in BOOLEAN
      /\ isPaused \in BOOLEAN /\ isHalted \in BOOLEAN /\ updateUI \in BOOLEAN
      /\ runningOutput \in BOOLEAN /\ late \in BOOLEAN
  BY Zenon DEF Init
<1> QED
  BY <1>1, <1>2, <1>3, Zenon DEF TypeOK

LEMMA InitInv == Init => JoinInv /\ UIInv /\ FaultInv /\ LateInv
<1> SUFFICES ASSUME Init PROVE JoinInv /\ UIInv /\ FaultInv /\ LateInv
  OBVIOUS
<1>1. JoinInv
  BY DEF Init, ProcessorInit, JoinInv, Active, Call
<1>2. UIInv
  BY DEF Init, UIInv, AtEnd
<1>3. FaultInv
  BY DEF Init, ProcessorInit, FaultInv, NoneThrew, Call
<1>4. LateInv
  BY Zenon DEF Init, LateInv
<1> QED
  BY <1>1, <1>2, <1>3, <1>4

-----------------------------------------------------------------------------
(* Types. *)

\* What every call and every thread of a HART does to the processor's state.
LEMMA ProcessorTypes ==
  ASSUME ProcessorTypeOK,
         \/ \E c \in Call : Spawn(c)
         \/ \E c \in Call, h \in HartID : HartReturns(c, h) \/ HartTerminates(c, h)
         \/ JoinTick \/ JoinFlush
         \/ UNCHANGED procVars
  PROVE  ProcessorTypeOK'
<1> USE NHartsAssumption
<1>1. CASE \E c \in Call : Spawn(c)
  BY <1>1 DEF ProcessorTypeOK, Spawn, ThreadState, Thrown
<1>2. CASE \E c \in Call, h \in HartID : HartReturns(c, h) \/ HartTerminates(c, h)
  <2>1. CASE \E c \in Call, h \in HartID : HartReturns(c, h)
    BY <2>1 DEF ProcessorTypeOK, HartReturns, ThreadState
  <2>2. CASE \E c \in Call, h \in HartID : HartTerminates(c, h)
    BY <2>2 DEF ProcessorTypeOK, HartTerminates
  <2> QED
    BY <1>2, <2>1, <2>2
<1>3. ASSUME NEW c \in Call, Join(c)
      PROVE  /\ thread' \in [Call -> [HartID -> ThreadState]]
             /\ exceptions' \in [Call -> [HartID -> Thrown]]
             /\ joined' \in [Call -> 0..NHarts]
  <2>1. joined[c] \in HartID /\ joined[c] + 1 \in 0..NHarts
    BY <1>3 DEF Join, ProcessorTypeOK, HartID
  <2> QED
    BY <1>3, <2>1 DEF Join, ProcessorTypeOK, ThreadState
<1>4. CASE JoinTick
  BY <1>3, <1>4 DEF JoinTick, ProcessorTypeOK, Call
<1>5. CASE JoinFlush
  BY <1>3, <1>5 DEF JoinFlush, ProcessorTypeOK, Call
<1>6. CASE UNCHANGED procVars
  BY <1>6 DEF ProcessorTypeOK, procVars
<1> QED
  BY <1>1, <1>2, <1>4, <1>5, <1>6

LEMMA StepTypeOK == TypeOK /\ [Next]_vars => TypeOK'
<1> SUFFICES ASSUME TypeOK, [Next]_vars PROVE TypeOK'
  OBVIOUS
<1>1. ProcessorTypeOK'
  <2>1. CASE MainStep
    BY <2>1, ProcessorTypes
    DEF TypeOK, MainStep, ExitLoop, JoinUI, Draw, Loop, Decide, SetPaused, Wait, Resumed,
        Updated, BeginStep, JoinHart, EndStep, SetStopped, IsHalted, Delete,
        ProcessorTypeOK, procVars, Call
  <2>2. CASE UserEvent
    BY <2>2, ProcessorTypes
    DEF TypeOK, UserEvent, ClickStop, ClickPause, ClickResume, ClickStep, EnterFlush,
        EnterCommand
  <2>3. CASE UIStep
    BY <2>3, ProcessorTypes
    DEF TypeOK, UIStep, Notify, BeginFlush, JoinFlushed, EndFlush, Reply, LeaveLoop, Call
  <2>4. CASE \E c \in Call, h \in HartID : HartStep(c, h)
    BY <2>4, ProcessorTypes DEF TypeOK, HartStep
  <2>5. CASE UNCHANGED vars
    BY <2>5, ProcessorTypes DEF TypeOK, vars
  <2> QED
    BY <2>1, <2>2, <2>3, <2>4, <2>5 DEF Next
<1>2. main' \in MainPC /\ after' \in Continuation /\ ui' \in UIPC
  <2>1. CASE MainStep
    BY <2>1
    DEF TypeOK, MainPC, Continuation, UIPC, MainStep, ExitLoop, JoinUI, Draw, Loop, Decide,
        SetPaused, Wait, Resumed, Updated, BeginStep, JoinHart, EndStep, SetStopped, IsHalted,
        Delete, Rendering
  <2>2. CASE UserEvent
    BY <2>2
    DEF TypeOK, UIPC, UserEvent, ClickStop, ClickPause, ClickResume, ClickStep, EnterFlush,
        EnterCommand, Handled
  <2>3. CASE UIStep
    BY <2>3
    DEF TypeOK, MainPC, Continuation, UIPC, UIStep, Notify, BeginFlush, JoinFlushed, EndFlush,
        Reply, LeaveLoop, Handled, Rendering
  <2>4. CASE \E c \in Call, h \in HartID : HartStep(c, h)
    BY <2>4 DEF TypeOK, HartStep
  <2>5. CASE UNCHANGED vars
    BY <2>5 DEF TypeOK, vars
  <2> QED
    BY <2>1, <2>2, <2>3, <2>4, <2>5 DEF Next
<1>3. /\ quit' \in BOOLEAN /\ stopProcessing' \in BOOLEAN /\ shouldContinue' \in BOOLEAN
      /\ isPaused' \in BOOLEAN /\ isHalted' \in BOOLEAN /\ updateUI' \in BOOLEAN
      /\ runningOutput' \in BOOLEAN /\ late' \in BOOLEAN
  <2>1. CASE MainStep
    BY <2>1
    DEF TypeOK, MainStep, ExitLoop, JoinUI, Draw, Loop, Decide, SetPaused, Wait, Resumed,
        Updated, BeginStep, JoinHart, EndStep, SetStopped, IsHalted, Delete, flags
  <2>2. CASE UserEvent
    BY <2>2
    DEF TypeOK, UserEvent, ClickStop, ClickPause, ClickResume, ClickStep, EnterFlush,
        EnterCommand, flags
  <2>3. CASE UIStep
    BY <2>3
    DEF TypeOK, UIStep, Notify, BeginFlush, JoinFlushed, EndFlush, Reply, LeaveLoop, flags
  <2>4. CASE \E c \in Call, h \in HartID : HartStep(c, h)
    BY <2>4 DEF TypeOK, HartStep, flags
  <2>5. CASE UNCHANGED vars
    BY <2>5 DEF TypeOK, vars, flags
  <2> QED
    BY <2>1, <2>2, <2>3, <2>4, <2>5 DEF Next
<1> QED
  BY <1>1, <1>2, <1>3, Zenon DEF TypeOK

-----------------------------------------------------------------------------
(* The threads of the HARTs are joined. *)

LEMMA StepJoinInv == TypeOK /\ UIInv /\ JoinInv /\ [Next]_vars => JoinInv'
<1> SUFFICES ASSUME TypeOK, UIInv, JoinInv, [Next]_vars PROVE JoinInv'
  OBVIOUS
<1> USE DEF JoinInv, Active, Call
\* Most steps touch neither the threads nor whether a call is active.
<1>1. ASSUME UNCHANGED <<thread, joined>>,
             main' = "tick" <=> main = "tick", ui' = "flushing" <=> ui = "flushing"
      PROVE  JoinInv'
  BY <1>1
<1>2. CASE BeginStep
  BY <1>2 DEF BeginStep, Spawn, TypeOK, ProcessorTypeOK, HartID
<1>3. CASE BeginFlush
  BY <1>3 DEF BeginFlush, Spawn, TypeOK, ProcessorTypeOK, HartID
<1>4. CASE EndStep
  BY <1>4, NHartsAssumption DEF EndStep, Rendering, Returning, HartID, procVars
<1>5. CASE EndFlush
  BY <1>5, NHartsAssumption DEF EndFlush, Returning, HartID, procVars
<1>6. ASSUME NEW c \in Call, Join(c), Active(c), UNCHANGED <<main, ui>>
      PROVE  JoinInv'
  <2> SUFFICES ASSUME NEW d \in Call, NEW h \in HartID
               PROVE  IF Active(d)
                      THEN IF h < joined'[d] THEN thread'[d][h] = "joined"
                                             ELSE thread'[d][h] \in {"running", "returned"}
                      ELSE thread'[d][h] \in {"idle", "joined"}
    BY <1>6
  <2>1. CASE d # c
    BY <1>6, <2>1 DEF Join, TypeOK, ProcessorTypeOK
  <2>2. CASE d = c
    <3>1. joined'[c] = joined[c] + 1 /\ joined[c] \in Nat /\ h \in Nat
      BY <1>6, NHartsAssumption DEF Join, TypeOK, ProcessorTypeOK, HartID
    <3>2. thread'[c][h] = IF h = joined[c] THEN "joined" ELSE thread[c][h]
      BY <1>6 DEF Join, TypeOK, ProcessorTypeOK
    <3> QED
      BY <1>6, <2>2, <3>1, <3>2
  <2> QED
    BY <2>1, <2>2
<1>7. CASE JoinHart
  BY <1>6, <1>7 DEF JoinHart, JoinTick
<1>8. CASE JoinFlushed
  BY <1>6, <1>8 DEF JoinFlushed, JoinFlush
<1>9. CASE \E c \in Call, h \in HartID : HartStep(c, h)
  BY <1>9 DEF HartStep, HartReturns, HartTerminates, TypeOK, ProcessorTypeOK
<1>10. CASE MainStep /\ ~BeginStep /\ ~EndStep /\ ~JoinHart
  <2>1. /\ UNCHANGED <<thread, joined>>
        /\ ui' = "flushing" <=> ui = "flushing"
        /\ main # "tick" /\ main' # "tick"
    BY <1>10
    DEF UIInv, MainStep, ExitLoop, JoinUI, Draw, Loop, Decide, SetPaused, Wait, Resumed, Updated,
        SetStopped, IsHalted, Delete, Rendering, procVars, TypeOK, Continuation
  <2> QED
    BY <1>1, <2>1
<1>11. CASE UserEvent
  BY <1>1, <1>11
  DEF UserEvent, ClickStop, ClickPause, ClickResume, ClickStep, EnterFlush, EnterCommand,
      Handled, procVars
<1>12. CASE UIStep /\ ~BeginFlush /\ ~EndFlush /\ ~JoinFlushed
  BY <1>1, <1>12
  DEF UIStep, Notify, Reply, LeaveLoop, Handled, Rendering, procVars
<1>13. CASE UNCHANGED vars
  BY <1>1, <1>13 DEF vars, procVars
<1> QED
  BY <1>2, <1>3, <1>4, <1>5, <1>7, <1>8, <1>9, <1>10, <1>11, <1>12, <1>13
  DEF Next, MainStep, UIStep

-----------------------------------------------------------------------------
(* The interface is there when the main thread waits. *)

LEMMA StepUIInv == TypeOK /\ UIInv /\ [Next]_vars => UIInv'
<1> SUFFICES ASSUME TypeOK, UIInv, [Next]_vars PROVE UIInv'
  OBVIOUS
<1> USE DEF UIInv, AtEnd
<1>1. CASE MainStep
  BY <1>1
  DEF MainStep, ExitLoop, JoinUI, Draw, Loop, Decide, SetPaused, Wait, Resumed, Updated,
      BeginStep, JoinHart, EndStep, SetStopped, IsHalted, Delete, Rendering, flags,
      TypeOK, Continuation
<1>2. CASE UserEvent
  BY <1>2
  DEF UserEvent, ClickStop, ClickPause, ClickResume, ClickStep, EnterFlush, EnterCommand,
      Handled, flags
<1>3. CASE UIStep
  BY <1>3
  DEF UIStep, Notify, BeginFlush, JoinFlushed, EndFlush, Reply, LeaveLoop, Handled,
      Rendering, flags
<1>4. CASE (\E c \in Call, h \in HartID : HartStep(c, h)) \/ UNCHANGED vars
  BY <1>4 DEF HartStep, vars, flags
<1> QED
  BY <1>1, <1>2, <1>3, <1>4 DEF Next

-----------------------------------------------------------------------------
(* A fault stops the main loop, a pause holds it. *)

LEMMA StepFaultInv == TypeOK /\ JoinInv /\ FaultInv /\ [Next]_vars => FaultInv'
<1> SUFFICES ASSUME TypeOK, JoinInv, FaultInv, [Next]_vars PROVE FaultInv'
  OBVIOUS
<1> USE DEF FaultInv, Rendered, AtEnd
<1>1. CASE MainStep
  <2>1. CASE BeginStep
    BY <2>1 DEF BeginStep
  <2>2. CASE EndStep
    BY <2>2 DEF EndStep, Rendering, NoneThrew, procVars
  <2>3. CASE MainStep /\ ~BeginStep /\ ~EndStep
    BY <2>3
    DEF MainStep, ExitLoop, JoinUI, Draw, Loop, Decide, SetPaused, Wait, Resumed, Updated,
        JoinHart, JoinTick, Join, SetStopped, IsHalted, Delete, Rendering, NoneThrew,
        procVars, flags
  <2> QED
    BY <1>1, <2>1, <2>2, <2>3
<1>2. CASE UserEvent
  BY <1>2
  DEF UserEvent, ClickStop, ClickPause, ClickResume, ClickStep, EnterFlush, EnterCommand,
      NoneThrew, procVars, flags
<1>3. CASE UIStep /\ ~BeginFlush
  BY <1>3
  DEF UIStep, Notify, JoinFlushed, JoinFlush, Join, EndFlush, Reply, LeaveLoop, Rendering,
      NoneThrew, procVars, flags
<1>4. CASE BeginFlush
  BY <1>4 DEF BeginFlush, Spawn, NoneThrew, TypeOK, ProcessorTypeOK, Call, flags
\* Only a tick changes what ticks have thrown, and a tick runs inside step().
<1>5. ASSUME NEW c \in Call, NEW h \in HartID, HartStep(c, h)
      PROVE  FaultInv'
  <2>1. CASE c = "step"
    <3>1. main = "tick"
      BY <1>5, <2>1 DEF HartStep, HartReturns, HartTerminates, JoinInv, Active
    <3> QED
      BY <1>5, <3>1 DEF HartStep
  <2>2. CASE c # "step"
    <3>1. exceptions'["step"] = exceptions["step"]
      BY <1>5, <2>2 DEF HartStep, HartReturns, HartTerminates, TypeOK, ProcessorTypeOK, Call
    <3> QED
      BY <1>5, <3>1 DEF HartStep, NoneThrew, flags
  <2> QED
    BY <2>1, <2>2
<1>6. CASE UNCHANGED vars
  BY <1>6 DEF vars, procVars, flags, NoneThrew
<1> QED
  BY <1>1, <1>2, <1>3, <1>4, <1>5, <1>6 DEF Next, UIStep

LEMMA StepLateInv == TypeOK /\ LateInv /\ [Next]_vars => LateInv'
<1> SUFFICES ASSUME TypeOK, LateInv, [Next]_vars PROVE LateInv'
  OBVIOUS
<1> USE DEF LateInv, Rendered
<1>1. CASE MainStep
  BY <1>1
  DEF MainStep, ExitLoop, JoinUI, Draw, Loop, Decide, SetPaused, Wait, Resumed, Updated,
      BeginStep, JoinHart, EndStep, SetStopped, IsHalted, Delete, Rendering, flags,
      TypeOK, Continuation
<1>2. CASE UserEvent
  BY <1>2
  DEF UserEvent, ClickStop, ClickPause, ClickResume, ClickStep, EnterFlush, EnterCommand,
      flags
<1>3. CASE UIStep
  BY <1>3
  DEF UIStep, Notify, BeginFlush, JoinFlushed, EndFlush, Reply, LeaveLoop, Rendering, flags
<1>4. CASE (\E c \in Call, h \in HartID : HartStep(c, h)) \/ UNCHANGED vars
  BY <1>4 DEF HartStep, vars, flags
<1> QED
  BY <1>1, <1>2, <1>3, <1>4 DEF Next

-----------------------------------------------------------------------------
(* The theorems. *)

Inv == TypeOK /\ UIInv /\ JoinInv /\ FaultInv /\ LateInv

\* The inductive invariant holds in every reachable state of main.cpp's two
\* threads, for any number of HARTs.
THEOREM Invariance == Spec => []Inv
<1>1. Init => Inv
  BY InitTypeOK, InitInv DEF Inv
<1>2. Inv /\ [Next]_vars => Inv'
  BY StepTypeOK, StepUIInv, StepJoinInv, StepFaultInv, StepLateInv DEF Inv
<1> QED
  BY <1>1, <1>2, PTL DEF Spec

\* Every variable keeps its type; in particular the joining loops stay within
\* their vectors of threads (Processor.cpp:59 and 78).
THEOREM TypeCorrect == Spec => []TypeOK
<1>1. Inv => TypeOK
  BY DEF Inv
<1> QED
  BY <1>1, Invariance, PTL

\* No thread of a HART outlives the call that started it, whether that is a step
\* of the main thread or a flush of the interface (Processor.cpp:49-85).
THEOREM HartThreadsAreJoined == Spec => []ThreadsJoined
<1>1. Inv => ThreadsJoined
  BY DEF Inv, JoinInv, Active, Call, ThreadsJoined
<1> QED
  BY <1>1, Invariance, PTL

\* The main thread never waits for a button without an interface that shows it
\* (main.cpp:76-83 and 94-109, screen.cpp:221-262).
THEOREM UserCanReach == Spec => []ReachableByUser
<1>1. Inv => ReachableByUser
  BY DEF Inv, UIInv, Waiting, ReachableByUser
<1> QED
  BY <1>1, Invariance, PTL

\* No HART is ticked again once a tick has thrown (main.cpp:93-103).
THEOREM FaultsStopTheLoop == Spec => FaultStops
<1>1. Inv /\ BeginStep => \A h \in HartID : exceptions["step"][h] = "none"
  BY DEF Inv, FaultInv, BeginStep, NoneThrew, Rendered, AtEnd
<1>2. Inv => [BeginStep => \A h \in HartID : exceptions["step"][h] = "none"]_vars
  BY <1>1
<1> QED
  BY <1>2, Invariance, PTL DEF FaultStops

\* Pause and Stop let at most one step begin that nobody asked for, and so does
\* each notification (main.cpp:74-92 and 253-283).
THEOREM PausesAreHonoured == Spec => PauseHonoured
<1>1. Inv /\ BeginStep => (shouldContinue /\ ~stopProcessing) \/ ~late
  BY DEF Inv, LateInv, BeginStep
<1>2. Inv => [BeginStep => (shouldContinue /\ ~stopProcessing) \/ ~late]_vars
  BY <1>1
<1> QED
  BY <1>2, Invariance, PTL DEF PauseHonoured

=============================================================================
