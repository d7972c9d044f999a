------------------------------ MODULE Emulator ------------------------------
(***************************************************************************)
(* main.cpp and EmulatorScreen::render: the main thread, which steps the   *)
(* processor, and the thread of the user interface, which runs the button  *)
(* callbacks and the commands.  They share the bool globals of main.cpp    *)
(* and one condition variable.  A render by the main thread makes the      *)
(* interface leave its loop, joins its thread and starts a new one.        *)
(*                                                                         *)
(* localMutex is locked by the main thread only.  The callbacks unlock it  *)
(* without holding it; with the mutex of the build that has no effect on   *)
(* any thread, so the mutex is left out.  conditionVariable.wait() returns *)
(* only when notified: a spurious wake-up is not modelled.                 *)
(***************************************************************************)
EXTENDS Processor

VARIABLES
  main,            \* where the main thread is
  after,           \* where it goes on when renderUI() returns
  ui,              \* where the thread of the interface is; "none" before it is started
  quit,            \* quit_ of the ScreenInteractive, set by ExitLoopClosure()
  stopProcessing, shouldContinue, isPaused, isHalted, updateUI,
  runningOutput,   \* --runningOutput, never changed
  late             \* history: a step has begun that the user had not asked for

flags == <<stopProcessing, shouldContinue, isPaused, isHalted, updateUI>>
vars == <<procVars, main, after, ui, quit, flags, runningOutput, late>>

Continuation == {"setPaused", "resumed", "updated", "step", "setHalted", "setStopped"}
MainPC == Continuation \cup
  {"loop", "decide", "render", "joinUI", "draw", "wait", "waiting", "tick",
   "isHalted", "waitHalted", "waitingHalted", "delete", "done"}
UIPC == {"none", "event", "notify", "flush", "flushing", "reply", "finished"}

TypeOK ==
  /\ ProcessorTypeOK
  /\ main \in MainPC /\ after \in Continuation
  /\ ui \in UIPC /\ quit \in BOOLEAN
  /\ stopProcessing \in BOOLEAN /\ shouldContinue \in BOOLEAN
  /\ isPaused \in BOOLEAN /\ isHalted \in BOOLEAN /\ updateUI \in BOOLEAN
  /\ runningOutput \in BOOLEAN /\ late \in BOOLEAN

Init ==
  /\ ProcessorInit
  /\ main = "loop" /\ after = "step"
  /\ ui = "none" /\ quit = FALSE
  /\ shouldContinue \in BOOLEAN                \* !config.pauseOnEntry
  /\ runningOutput \in BOOLEAN
  /\ stopProcessing = FALSE /\ isPaused = FALSE /\ isHalted = FALSE /\ updateUI = FALSE
  /\ late = FALSE

-----------------------------------------------------------------------------
(* renderUI() on the main thread, then on to `next'. *)

Rendering(next) == main' = "render" /\ after' = next

\* if (interactiveController.joinable()) ExitLoopClosure()()
ExitLoop ==
  /\ main = "render"
  /\ main' = IF ui = "none" THEN "draw" ELSE "joinUI"
  /\ quit' = (ui # "none")
  /\ UNCHANGED <<procVars, after, ui, flags, runningOutput, late>>

JoinUI ==
  /\ main = "joinUI" /\ ui = "finished"
  /\ main' = "draw" /\ ui' = "none"
  /\ UNCHANGED <<procVars, after, quit, flags, runningOutput, late>>

\* Mutant: the new thread gets the ScreenInteractive that was told to quit.
DrawSameScreen ==
  /\ main = "draw"
  /\ main' = after
  /\ ui' = "event"
  /\ UNCHANGED <<procVars, after, quit, flags, runningOutput, late>>

\* The screen is printed and a new ScreenInteractive gets a thread.
Draw ==
  /\ main = "draw"
  /\ main' = after
  /\ ui' = "event" /\ quit' = FALSE
  /\ UNCHANGED <<procVars, after, flags, runningOutput, late>>

-----------------------------------------------------------------------------
(* The work loop of main(). *)

\* while (!stopProcessing)
Loop ==
  /\ main = "loop"
  /\ main' = IF stopProcessing THEN "isHalted" ELSE "decide"
  /\ UNCHANGED <<procVars, after, ui, quit, flags, runningOutput, late>>

\* Mutant: the two conditions in the other order.
DecideUpdateFirst ==
  /\ main = "decide"
  /\ IF runningOutput \/ updateUI THEN Rendering("updated")
     ELSE IF ~shouldContinue THEN Rendering("setPaused")
     ELSE main' = "step" /\ UNCHANGED after
  /\ UNCHANGED <<procVars, ui, quit, flags, runningOutput, late>>

\* if (!shouldContinue) ... else if (runningOutput || updateUI)
Decide ==
  /\ main = "decide"
  /\ IF ~shouldContinue THEN Rendering("setPaused")
     ELSE IF runningOutput \/ updateUI THEN Rendering("updated")
     ELSE main' = "step" /\ UNCHANGED after
  /\ UNCHANGED <<procVars, ui, quit, flags, runningOutput, late>>

SetPaused ==
  /\ main = "setPaused"
  /\ isPaused' = TRUE
  /\ main' = "wait"
  /\ UNCHANGED <<procVars, after, ui, quit, stopProcessing, shouldContinue, isHalted,
                 updateUI, runningOutput, late>>

\* conditionVariable.wait(): from here on a notification is not lost.
Wait ==
  /\ \/ main = "wait" /\ main' = "waiting"
     \/ main = "waitHalted" /\ main' = "waitingHalted"
  /\ UNCHANGED <<procVars, after, ui, quit, flags, runningOutput, late>>

Resumed ==
  /\ main = "resumed"
  /\ isPaused' = FALSE
  /\ main' = "step"
  /\ UNCHANGED <<procVars, after, ui, quit, stopProcessing, shouldContinue, isHalted,
                 updateUI, runningOutput, late>>

\* if (updateUI) updateUI = false
Updated ==
  /\ main = "updated"
  /\ updateUI' = FALSE
  /\ main' = "step"
  /\ UNCHANGED <<procVars, after, ui, quit, stopProcessing, shouldContinue, isPaused,
                 isHalted, runningOutput, late>>

BeginStep ==
  /\ main = "step"
  /\ Spawn("step")
  /\ main' = "tick"
  /\ late' = (late \/ ~shouldContinue \/ stopProcessing)
  /\ UNCHANGED <<after, ui, quit, flags, runningOutput>>

JoinHart ==
  /\ main = "tick"
  /\ JoinTick
  /\ UNCHANGED <<main, after, ui, quit, flags, runningOutput, late>>

\* step() returns, or one of the catch clauses renders its message.
EndStep ==
  /\ main = "tick" /\ Returning("step")
  /\ \/ NoneThrew("step") /\ main' = "loop" /\ UNCHANGED after
     \/ \E h \in HartID :
          /\ FirstToThrow("step", h)
          /\ Rendering(IF exceptions["step"][h] = "HaltedProcessor"
                       THEN "setHalted" ELSE "setStopped")
  /\ UNCHANGED <<procVars, ui, quit, flags, runningOutput, late>>

\* stopProcessing = true, and after a halt isHalted = true.
SetStopped ==
  /\ main \in {"setHalted", "setStopped"}
  /\ stopProcessing' = TRUE
  /\ isHalted' = (isHalted \/ main = "setHalted")
  /\ main' = "loop"
  /\ UNCHANGED <<procVars, after, ui, quit, shouldContinue, isPaused, updateUI,
                 runningOutput, late>>

\* if (isHalted) { isPaused = true; ...
IsHalted ==
  /\ main = "isHalted"
  /\ main' = IF isHalted THEN "waitHalted" ELSE "delete"
  /\ isPaused' = (isPaused \/ isHalted)
  /\ UNCHANGED <<procVars, after, ui, quit, stopProcessing, shouldContinue, isHalted,
                 updateUI, runningOutput, late>>

\* delete(processor), and main() returns.
Delete ==
  /\ main = "delete"
  /\ main' = "done"
  /\ process' = "exited"
  /\ UNCHANGED <<thread, exceptions, joined, after, ui, quit, flags, runningOutput, late>>

MainStep ==
  /\ process = "running"
  /\ \/ ExitLoop \/ JoinUI \/ Draw
     \/ Loop \/ Decide \/ SetPaused \/ Wait \/ Resumed \/ Updated
     \/ BeginStep \/ JoinHart \/ EndStep \/ SetStopped \/ IsHalted \/ Delete

-----------------------------------------------------------------------------
(* The callbacks of the buttons and of the command line.  The interface     *)
(* takes the next event unless it has been told to quit; an event it is     *)
(* already receiving is still handled.                                      *)

\* Mutant: quit_ is not looked at after an event.
HandledIgnoresQuit == ui' = "event"

\* A callback returns: ScreenInteractive::Loop looks at quit_.
Handled == ui' = IF quit THEN "finished" ELSE "event"

ClickStop ==
  /\ ui = "event"
  /\ stopProcessing' = TRUE
  /\ ui' = "notify"
  /\ UNCHANGED <<procVars, main, after, quit, shouldContinue, isPaused, isHalted, updateUI,
                 runningOutput, late>>

ClickPause ==
  /\ ui = "event"
  /\ shouldContinue' = (shouldContinue /\ isHalted)
  /\ Handled
  /\ UNCHANGED <<procVars, main, after, quit, stopProcessing, isPaused, isHalted, updateUI,
                 runningOutput, late>>

ClickResume ==
  /\ ui = "event"
  /\ ~isHalted
  /\ shouldContinue' = TRUE
  /\ late' = FALSE
  /\ ui' = "notify"
  /\ UNCHANGED <<procVars, main, after, quit, stopProcessing, isPaused, isHalted, updateUI,
                 runningOutput>>

ClickStep ==
  /\ ui = "event"
  /\ ~isHalted
  /\ ui' = "notify"
  /\ UNCHANGED <<procVars, main, after, quit, flags, runningOutput, late>>

\* conditionVariable.notify_all(): lost unless the main thread waits.
Notify ==
  /\ ui = "notify"
  /\ \/ main = "waiting" /\ Rendering("resumed")
     \/ main = "waitingHalted" /\ main' = "delete" /\ UNCHANGED after
     \/ main \notin {"waiting", "waitingHalted"} /\ UNCHANGED <<main, after>>
  /\ late' = FALSE
  /\ Handled
  /\ UNCHANGED <<procVars, quit, flags, runningOutput>>

\* parseInputContent(): the flush command, or one that only prepares an output.
EnterFlush ==
  /\ ui = "event"
  /\ ui' = IF ~shouldContinue THEN "flush" ELSE "reply"
  /\ UNCHANGED <<procVars, main, after, quit, flags, runningOutput, late>>

EnterCommand ==
  /\ ui = "event"
  /\ ui' = "reply"
  /\ \E upd \in BOOLEAN : updateUI' = (updateUI \/ upd)
  /\ UNCHANGED <<procVars, main, after, quit, stopProcessing, shouldContinue, isPaused,
                 isHalted, runningOutput, late>>

BeginFlush ==
  /\ ui = "flush"
  /\ Spawn("flush")
  /\ ui' = "flushing"
  /\ UNCHANGED <<main, after, quit, flags, runningOutput, late>>

JoinFlushed ==
  /\ ui = "flushing"
  /\ JoinFlush
  /\ UNCHANGED <<main, after, ui, quit, flags, runningOutput, late>>

\* An EmulatorException becomes the output of the command.
EndFlush ==
  /\ ui = "flushing" /\ Returning("flush")
  /\ ui' = "reply"
  /\ UNCHANGED <<procVars, main, after, quit, flags, runningOutput, late>>

\* Mutant: renderUI without its last argument waits for the thread it runs on.
ReplyJoinsItself ==
  /\ ui = "reply" /\ ~isPaused
  /\ updateUI' = TRUE
  /\ Handled
  /\ UNCHANGED <<procVars, main, after, quit, stopProcessing, shouldContinue, isPaused,
                 isHalted, runningOutput, late>>

\* While paused the command draws its output itself, and leaves the thread of
\* the interface, which it runs on, alone.
Reply ==
  /\ ui = "reply"
  /\ updateUI' = (updateUI \/ ~isPaused)
  /\ Handled
  /\ UNCHANGED <<procVars, main, after, quit, stopProcessing, shouldContinue, isPaused,
                 isHalted, runningOutput, late>>

\* The loop ends although no event came.
LeaveLoop ==
  /\ ui = "event" /\ quit
  /\ ui' = "finished"
  /\ UNCHANGED <<procVars, main, after, quit, flags, runningOutput, late>>

UserEvent ==
  /\ process = "running"
  /\ \/ ClickStop \/ ClickPause \/ ClickResume \/ ClickStep
     \/ EnterFlush \/ EnterCommand

UIStep ==
  /\ process = "running"
  /\ Notify \/ BeginFlush \/ JoinFlushed \/ EndFlush \/ Reply \/ LeaveLoop

HartStep(c, h) ==
  /\ process = "running"
  /\ HartReturns(c, h) \/ HartTerminates(c, h)
  /\ UNCHANGED <<main, after, ui, quit, flags, runningOutput, late>>

Next == MainStep \/ UserEvent \/ UIStep \/ \E c \in Call, h \in HartID : HartStep(c, h)

Spec == Init /\ [][Next]_vars

-----------------------------------------------------------------------------
\* Threads that can run do run, and the call of a HART returns; the user need
\* never do anything.
FairSpec ==
  /\ Spec
  /\ WF_vars(MainStep)
  /\ WF_vars(UIStep)
  /\ \A c \in Call, h \in HartID : WF_vars(HartStep(c, h))

-----------------------------------------------------------------------------
(* Properties. *)

Waiting == main \in {"waiting", "waitingHalted"}

\* No thread of a HART outlives the call that started it: outside step() no tick
\* is left running, and outside the flush command no flush (Processor.cpp:59
\* and 78).
ThreadsJoined ==
  \A h \in HartID :
    /\ main # "tick" => thread["step"][h] \in {"idle", "joined"}
    /\ ui # "flushing" => thread["flush"][h] \in {"idle", "joined"}

\* Whenever the main thread waits for a button, the interface that has the
\* buttons is running and has not been told to quit (main.cpp:83, 109 and
\* screen.cpp:221-262).
ReachableByUser ==
  Waiting => ui \notin {"none", "finished"} /\ ~quit

\* A pause or a stop lets at most one step begin that was already decided, and
\* each notification while paused lets one more begin (main.cpp:74-92).
PauseHonoured ==
  [][BeginStep => (shouldContinue /\ ~stopProcessing) \/ ~late]_vars

\* Once the tick of any HART has thrown, no HART is ever ticked again
\* (Processor.cpp:63-67, main.cpp:93-103).
FaultStops ==
  [][BeginStep => \A h \in HartID : exceptions["step"][h] = "none"]_vars

\* A pause takes hold: the main thread comes to wait, unless it is resumed or
\* the process ends.
PauseTakesHold ==
  ~shouldContinue ~> (Waiting \/ shouldContinue \/ process # "running")

\* The process ends if the user clicks Stop again and again whenever the button
\* is there, whatever else is clicked or entered, also after a halt and although
\* a notification can be lost; in particular the button, once shown, does not
\* disappear for good.  (Without --pause and --runningOutput it is first shown
\* when a HART halts or fails.)
GetsOut == SF_vars(ClickStop) /\ <>(ui # "none") => <>(process # "running")

-----------------------------------------------------------------------------
\* main.cpp:381 "Cannot flush while running": a HART is never flushed while it
\* is being ticked.
FlushesAlone ==
  \A h \in HartID : ~(thread["step"][h] = "running" /\ thread["flush"][h] = "running")

\* main.cpp:78-81: the waiting thread "is signaled to start executing once a
\* user clicks resume".
ResumeStarts ==
  shouldContinue ~> (main = "tick" \/ ~shouldContinue \/ stopProcessing
                       \/ process # "running")

=============================================================================
