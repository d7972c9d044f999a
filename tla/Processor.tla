----------------------------- MODULE Processor -----------------------------
(***************************************************************************)
(* hw/Processor.cpp: the HARTs behind one call.  runStep() runs tick() of  *)
(* every HART on a thread of its own and flush() runs their flush(); both  *)
(* wait for the threads and rethrow what a HART threw.  Nothing stops the  *)
(* two calls from being active at the same time, on the emulator's two     *)
(* threads.  What a HART does in its tick is module Hart; here it returns, *)
(* with or without an exception.                                           *)
(***************************************************************************)
EXTENDS Naturals

CONSTANT NHarts     \* config.numberOfHardwareThreads, at least one

ASSUME NHartsAssumption == NHarts \in Nat \ {0}

HartID == 0..(NHarts - 1)

Call == {"step", "flush"}

ThreadState == {"idle", "running", "returned", "joined"}
Thrown == {"none", "EmulatorException", "HaltedProcessor"}

VARIABLES
  thread,       \* threads: the thread of each HART, per call
  exceptions,   \* exceptions: what each HART's thread has thrown, per call
  joined,       \* i of the joining loop, per call
  process       \* whether std::terminate has ended the process

procVars == <<thread, exceptions, joined, process>>

ProcessorTypeOK ==
  /\ thread \in [Call -> [HartID -> ThreadState]]
  /\ exceptions \in [Call -> [HartID -> Thrown]]
  /\ joined \in [Call -> 0..NHarts]
  /\ process \in {"running", "exited", "terminated"}

ProcessorInit ==
  /\ thread = [c \in Call |-> [h \in HartID |-> "idle"]]
  /\ exceptions = [c \in Call |-> [h \in HartID |-> "none"]]
  /\ joined = [c \in Call |-> 0]
  /\ process = "running"

-----------------------------------------------------------------------------
\* Mutant: the joining loop goes on from where it was.
SpawnKeepsIndex(c) ==
  /\ thread' = [thread EXCEPT ![c] = [h \in HartID |-> "running"]]
  /\ exceptions' = [exceptions EXCEPT ![c] = [h \in HartID |-> "none"]]
  /\ UNCHANGED <<joined, process>>

\* The first loop of runStep() and flush(): one thread per HART.
Spawn(c) ==
  /\ thread' = [thread EXCEPT ![c] = [h \in HartID |-> "running"]]
  /\ exceptions' = [exceptions EXCEPT ![c] = [h \in HartID |-> "none"]]
  /\ joined' = [joined EXCEPT ![c] = 0]
  /\ UNCHANGED process

\* tick() or flush() of a HART returns.  By itself a flush does not meet the halt
\* address, but a tick of the same HART may run beside it.
HartReturns(c, h) ==
  /\ thread[c][h] = "running"
  /\ thread' = [thread EXCEPT ![c][h] = "returned"]
  /\ \E e \in Thrown : exceptions' = [exceptions EXCEPT ![c][h] = e]
  /\ UNCHANGED <<joined, process>>

\* The comparison with the halt address throws out of the thread.
HartTerminates(c, h) ==
  /\ thread[c][h] = "running"
  /\ process' = "terminated"
  /\ UNCHANGED <<thread, exceptions, joined>>

\* Mutant: the loop has no bound and its index is not the thread joined.
JoinUnbounded(c) ==
  /\ \E h \in HartID : thread[c][h] = "returned"
  /\ joined' = [joined EXCEPT ![c] = @ + 1]
  /\ UNCHANGED <<thread, exceptions>>

\* threads[i].join()
Join(c) ==
  /\ joined[c] < NHarts
  /\ thread[c][joined[c]] = "returned"
  /\ thread' = [thread EXCEPT ![c][joined[c]] = "joined"]
  /\ joined' = [joined EXCEPT ![c] = @ + 1]
  /\ UNCHANGED exceptions

\* runStep() looks at the exceptions only after its joining loop.
JoinTick == Join("step") /\ UNCHANGED process

\* flush() rethrows in the loop: the threads behind are still joinable when the
\* vector is destroyed, which ends the process.
JoinFlush ==
  LET i == joined["flush"] IN
  /\ Join("flush")
  /\ process' = IF exceptions["flush"][i] # "none" /\ i + 1 < NHarts
                THEN "terminated" ELSE process

Returning(c) == joined[c] = NHarts

\* Mutant: only the first HART is looked at.
NoneThrewFirst(c) == exceptions[c][0] = "none"

NoneThrew(c) == \A h \in HartID : exceptions[c][h] = "none"

\* The HART whose exception the call rethrows.
FirstToThrow(c, h) ==
  exceptions[c][h] # "none" /\ \A g \in HartID : g < h => exceptions[c][g] = "none"

=============================================================================
