# A TLA+ model of the RISC-V emulator

The emulator is a C++ program that runs a flat RV32I binary on simulated
hardware threads (HARTs). Every HART is a five-stage pipeline in which **each
stage of each clock tick is a thread of its own**, with forwarding, stalls and a
branch predictor that looks ahead in yet another thread; a text interface runs
beside the main loop. This directory models the parts in which those threads
meet, and separately the bytes one instruction works on, from the command line and
the loaded file to decoding, arithmetic and memory. TLC checks the models; TLAPS
proves what holds for every size. Paths below are relative to the repository (`src/hw/Hart.cpp`).

Contents: [inventory](#inventory) · [modules](#modules) · [runs](#runs) ·
[what the code does not do](#what-the-code-does-not-do) ·
[proofs](#proofs) · [not modelled](#not-modelled) · [hazards left](#hazards-left)

## Inventory

| Component (files) | State | Operations | Interacts with | Modelled by |
|---|---|---|---|---|
| **Pipeline**, `hw/Hart.cpp` | latches (`fromFetch`, `toDecode`, …, `toWB`), `stall`, `shouldFlush`, `willHalt`, `failedPrediction`, one exception pointer per stage | `tick`, `flush`, the five stage routines | predictor, hazard controller, memory; called by Processor | `Hart`, `HartProperties`; promise: `ISA` |
| **Hazard controller**, `units/PipelineHazardController.cpp` | `executingQueue` (what is in flight), `usedQueueSize`, the register file | `bump`, `enqueue`, `checkForStaleRegister`, `fetchRegisterValue`, `storeResultAfter…` | called by four stage threads under one mutex | `PipelineHazardController` |
| **Branch predictor**, `units/SimpleBranchPredictor.cpp` | `PCQueue`, `executingQueue`, the look-ahead thread and its exception | `getNextPC`, `checkPrediction`, `handleFlush`, `predictionWorkloop`, destructor | fetch and execute threads, HART, memory | `BranchPredictor` (promise), `SimpleBranchPredictor` (threads) |
| **RV32I**, `instructions/sets/RV32I.cpp` | none | a decode, execute, memory and writeback routine per family | hazard controller, memory | control: `RV32I`; bytes: `RV32IRoutines`; promise: `Manual` |
| **T extension**, `sets/extensions/T.cpp` | none | increment, decrement | as RV32I | `RV32IRoutines` |
| **Register file**, `hw/RegisterFile.cpp` | 32 registers | `get`, `write` | hazard controller | in `PipelineHazardController` |
| **Memory**, `hw/Memory.cpp` | bytes | reads and writes of every width, `getRegion` | everything | `Memory`; word accesses also in `RV32I` and `Hart` |
| **Processor**, `hw/Processor.cpp` | the HARTs | `step` and `flush`: a thread per HART, joined, first exception rethrown | main thread, interface thread | `Processor` |
| **Emulator**, `main.cpp`, `screen/screen.cpp` | `stopProcessing`, `shouldContinue`, `isPaused`, `isHalted`, `updateUI`, a condition variable, the interface's thread | work loop, `stop`, `pause`, `resume`, `step`, commands, `renderUI` | Processor, ftxui | `Emulator` |
| **Instruction formats**, `instructions/*Type.cpp` | none | `decode`, `getImm`, the constructor from fields | RV32I | `InstructionFormats` |
| **Byte arithmetic**, `include/bytemanip.h` | none | add, subtract, shift, compare, slice, extend on vectors of bytes | everything | `ByteManip` |
| **Arguments and loading**, `main.cpp`, `Processor.cpp` | the configuration | `parseArgs`, `loadFile` | Processor, Memory | `Arguments`, `Memory`, `Datapath` |
| Exception texts, screen layout, `debug()` | none | formatting | – | no |

What is hard, and what makes each part correct:

- **Pipeline.** The decode thread of a tick checks its sources for hazards and
  reads them under two acquisitions of a mutex, while three other threads post
  results and write registers. Stalls, squashes and flushes meet in one tick.
  Correct: operands are those of program order, and the whole implements the
  one-instruction-at-a-time machine.
- **Predictor.** Its queue of predictions has no tags; that the front belongs to
  the branch in execute rests on an order of calls kept up over ticks, stalls and
  flushes. The look-ahead runs without the lock and is kept apart by joins only.
  Correct: the queue is a chain of predictions, no call blocks, a failed
  prediction is reported exactly when the wrong instruction follows.
- **Processor.** Some HARTs fail and others do not; two calls can overlap.
  Correct: no thread outlives its call and no fault is lost.
- **Emulator.** Two threads share plain `bool`s and a condition variable without
  a predicate, and a render joins the thread the callbacks run on. Correct: a
  pause and a stop take hold, the user can always get the main thread out of a
  wait, the interface is never joined by itself.
- **Bytes.** Values are vectors of bytes with the carries, borrows and signs
  handled by hand; immediates are sliced out of the word across byte boundaries;
  bounds are compared as unsigned numbers that came from signed ones. Correct: every
  instruction does what the manual says of it.
- **Command line.** An option is recognised by the first keyword found anywhere in
  an argument, and an error resets what was read. Correct: the emulator starts exactly
  with what it was asked for.

The hazards are listed in `PROJECT.json` at their lines, with the properties that
watch them.

## Modules

```
RV32I ── ISA                          what the program is promised
  │       ▲  Machine (refinement)
  ├── Hart ── HartProperties ── MCHart, HartProofs ── HazardProofs
  │     ├─ pipelineController : PipelineHazardController
  │     └─ branchPredictor    : BranchPredictor
  │                                 ▲  branchPredictor (refinement)
  └── SimpleBranchPredictor ── MCPredictor, PredictorProofs
Processor ── Emulator ── EmulatorProofs

ByteManip ── InstructionFormats ─┐
Memory ── MemoryProofs           │
  └──────────── RV32IRoutines ───┴── Datapath ── DatapathProperties ── MCDatapath
                Arguments ───────────┘                │  Machine (refinement)
Manual ── Errata  ◄───────────────────────────────────┘
                                     DatapathProperties ── ByteProofs ── DatapathProofs ── ManualProofs
```

**`RV32I`** holds the instruction as a record (`op`, `rd`, sources, `imm`, `pc`,
operand values, `result`) and its effect: `Result`, `NextPC`, `ExecuteFault`,
`MemoryFault`, and which routine posts or writes a result. One or two opcodes
stand for a family whose routines have the same control; values are integers
modulo `Width`, so overflow of addresses wraps as in the code. What the bytes of an
operand are is left to the byte level below: the pipeline never looks at them.

**`PipelineHazardController`** keeps the queue of in-flight destinations
positioned by stage, as the code does, including the youngest-first search and
the cases that throw. Its operators are methods called under its mutex, so each
is one step.

**`BranchPredictor`** is the abstract predictor: every method is one step and the
look-ahead is always finished. **`SimpleBranchPredictor`** is the concrete one:
the look-ahead thread with its loop condition, prediction and push as separate
steps, the mutex, the joins, the callers of one tick, `handleFlush` (no lock, no
join) and the destructor. `ImplementsPredictor` shows that the second implements
the first, so `Hart` may use the first.

**`Hart`** is one HART. `TickStart` is `tick()` up to the thread constructors;
`FetchRethrow`…`Writeback` are the stage threads, in every interleaving (decode
in two steps, hazard check and operand fetch); `TickEnds`, `TickHalts`,
`TickTerminates` and `FlushTickEnds` are the part after the joins, with the
latches, the squash, the halt comparison and the choice of exception. `Flush` is
the user's command. History variables: `haltedAt`, `redirect` (the target of a
failed prediction until it is decoded), `clean` (nothing has thrown and no jump
lost its link).

**`ISA`** is the machine of the RISC-V manual as far as control goes. The refinement
mapping in `HartProperties` lets an instruction take effect when the tick that
executed it ends: registers are the register file with `toWB` and then `toMem`
committed, and the PC is that of the oldest instruction that has not taken effect.
Its ends are precise: `Halt` has executed exactly what comes before the halt address;
`Except` has executed exactly what comes before an instruction that does fault (the
HART maps to it what the execute and the memory stage throw); `Abandon` is the rest,
an exception of the fetch, decode or predictor over an instruction that was perhaps
never going to be executed, and of it only the instructions before it are promised.

**`Processor`** has, for each of `step` and `flush`, the HARTs' threads, what each
has thrown, and the index of the joining loop. `step` looks at the exceptions
after the loop, `flush` inside it, where a rethrow destroys joinable threads.
`HartTerminates` is the comparison with the halt address, which is outside the
`try` of a thread: what it throws ends the process.

**`Emulator`** adds the two threads of `main.cpp` with a program counter each. A
render by the main thread is three steps: tell the interface to quit, join it,
draw and start it again (`screen.cpp:221-262`). Callbacks are split where the other
thread can come in between: the flag and the notification, the test and the
flush. A notification moves the main thread on only if it is in the wait. HARTs
and their threads are those of `Processor`; `ScreenInteractive` is modelled from
its use (it is vendored as headers): a loop that takes an event, handles it and
looks at `quit_`.

### The byte level

**`ByteManip`** is `bytemanip.h`: a vector of bytes is a sequence, and every operation
goes byte by byte with the carries, borrows and shifts of the code.
**`InstructionFormats`** has decoding, `getImm` and the constructors of the six
formats; **`RV32IRoutines`** what every instruction of RV32I and T computes, which
accesses fault and what is written back; **`Memory`** reads, writes, regions and the
loader; **`Arguments`** the command line.

**`Datapath`** puts them together for one HART: `ParseArg` for each argument, `ParsedArgs`
and `Load`, then per
instruction `Fetch`, `Decode`, `Execute`, `MemoryAccess` and `Writeback`, one after the
other (that their overlap in the pipeline does not show is what `Hart` is about), and
`Command` for the interface's `memA`, `memW` and `hID`. An argument is abstracted to
what `parseArgs` looks at: which keywords its text contains and what follows the `=`.

**`Manual`** is the promise, written from the RISC-V manual on bits and on halves of
words, without the code's byte algorithms. **`Errata`** lists where the code departs
from it, each as an exact condition on the instruction and its operands: a wrong value
for `x0`, a wrong decision on a branch to the next instruction, or a store that goes
elsewhere and leaves the same bytes is none.
`ImplementsManual` checks that `Datapath` implements `Manual` outside the errata, and
`ErrataReal` that no entry of the list is vacuous: under it the code's step is *not*
the manual's. An instruction takes effect when its memory stage has ended.

## Runs

| Run | Question | Bounds | Distinct states |
|---|---|---|---|
| `MCHartStraight` | forwarding, stalls, loads, stores, halting, faults, the flush command at any pause | all programs of 4 over 7 instructions, halt at 12 or never; of 3 over 7 that fault; of 3 over 6 to flush | 1.44 M |
| `MCHartControl` | branches and jumps with stalls and squashes | all programs of 4 over two menus of 7 and 6 | 1.25 M |
| `MCHartLive` | does the pipeline ever stay empty? | all programs of 3 over 5, either order of fetch and execute, uninitialised `rd`, halt at 24 or never | 225 k |
| `MCPredictor` | look-ahead thread, lock, joins; implements `BranchPredictor` | 5 words of memory, any two of them out of a menu of 5 | 513 k |
| `MCEmulator` | main thread, interface, two HARTs | 2 HARTs; paused or not on entry, `--runningOutput` or not | 153 k |
| `MCDatapath` | decoding, arithmetic, memory, loading, command line, memory view | 3 instructions; every operation on 12 × 12 operands at byte and sign boundaries, immediates bit by bit, binaries around the size of memory | 122 k |
| `MCHartCall`, `MCHartWrongPath`, `MCHartRace`, `MCHartTerminate`, `MCEmulatorFlush`, `MCEmulatorResume` | statements of the repository that the code breaks | single programs; 1 or 2 HARTs | – |

**What they show.** `ImplementsISA`: instructions take effect one by one in
program order in every interleaving, and a fault or a halt ends the run at the right
one. `OperandsUpToDate`: between the hazard check
and the read nothing gets in between. `PredictionCheckExact` and `RedirectTaken`:
a tick reports a failed prediction exactly when the wrong instruction was
fetched, and the next instruction decoded is the target. `KeepsExecuting`:
stalls end. `NextPCPredicted`, `QueueIsChain`, `CallsReturn`: the predictor's queue
is full when read, is a chain, and nobody waits for ever. `ThreadsJoined`,
`FaultStops`: no thread of a HART outlives its call, and after a fault no HART is
ticked again. `PauseHonoured`, `PauseTakesHold`: after a pause or a stop at most the step
already decided begins, and the main thread does come to rest. `ReachableByUser`, `GetsOut`:
whenever the main thread waits there is an interface, and clicking Stop ends the
process. `ImplementsManual` and `ErrataReal`: see above. `DecodesWord`,
`ConstructorsAgree`: every field and bit of an immediate is found, and building an
instruction from what was taken apart gives it back, with two named exceptions.
`StartsAsAsked`, `HaltAddressRead`: the last argument given for each option counts,
ones that are no number or have a wrong length refuse to start. `RegionShown`: the
interface never reads outside memory or shows a HART that is not there, whatever number
it is given; what fits an `int` is shown as asked or refused, and what does not is truncated first.

**Why the bounds are enough.** An instruction interacts with the four around it:
the hazard queue has five places, the look-ahead four. Programs of three or four
instructions over a menu that has each kind of dependency fill the pipeline with
every combination, and loops (backward branches) run until states repeat.
`MemSize` 48 leaves room behind the program so that the look-ahead works on it
and the end of memory is met; 20 in `MCPredictor` makes the look-ahead run off the
end at once. Two HARTs give a first and a later one, and the Emulator theorems hold for any
number. At the byte level the operands are those at which a carry, a borrow, a byte's
sign or a comparison changes (`Edges` in `MCDatapath`), and three instructions are two
loads of operands and the operation under test. `ULong` = 2^20 stands for 2^64 where
negative numbers become large ones and `UInt` = 2^18 for 2^32; `Numbers` has the values
around `UInt`, which an `int` truncates (`main.cpp:16`). `ULongBound` = 2^24 belongs to the model: TLC's
integers have 32 bits, so `getBytesToULong` of the model saturates there, where the code's
goes on to 2^32, and no memory of the model is larger. A memory size that is negative or larger than the
host's memory is not enumerated: the allocation fails before the emulator does anything.

**Restrictions, all named.** `Programs` (the menus in `MCHart`) leave out what is
known to break (next section): jumps that link and are mispredicted, a load right
before a branch, a fault under a halt or a flush, a dependent instruction under a flush;
`MCHartLive` has the first two and faults. `StraightInit` sets a halt address
for `DataPrograms` only, and `FlushedPrograms` names those in which the user may enter
the flush command. `FetchFirst = TRUE` assumes that the fetch
thread, which is started first, takes the predictor's mutex first; nothing in the
code ensures it and `MCHartRace` shows what follows otherwise. `GarbageRD` is what an
uninitialised `rd` may hold. The runs for safety take `{0}`, which is what memory fresh from the
system gives; with a register's number the code breaks `OperandsUpToDate` (below), so only
`MCHartLive` has one besides. `DataAddress` are the words
that loads and stores may touch; a program that touches another is followed
up to there. Code that writes code is not modelled. `conditionVariable.wait` returns only when notified: the
standard allows spurious wake-ups, line 83 has no predicate, and a
spurious wake-up while paused would execute one step.

**Fairness.** `Hart`: weak fairness of `Tick`, since the main loop calls it as long
as no exception comes and stage threads are runnable. `SimpleBranchPredictor`: weak
fairness of the look-ahead and of each caller. `Emulator`: weak fairness of the
main thread, of the interface's reaction to an event it has taken or to quitting,
and of each HART's return (`CallsReturn` is why a tick returns). The user need
never do anything; `GetsOut` assumes one who clicks Stop again and again
(strong fairness of `ClickStop`, an assumption inside the property). `CHECK_DEADLOCK FALSE`: all the
systems may stop, by exception, halt or exit.

Each property has a mutant in `PROJECT.json`: a definition with a plausible bug
(marked `Mutant:` in the modules) under which TLC finds it violated.

## What the code does not do

Checked by a run that must fail:

1. `MCHartCall` – *a mispredicted jump never writes its link.* `Hart::execute` leaves
   `fromExecute` untouched when the prediction failed (`Hart.cpp:206-208`);
   `README.md:45` says an instruction progresses one stage per tick. A JALR is
   hardly ever predicted, so calls by `jalr` lose `ra`.
2. `MCHartWrongPath` – *a failed prediction in a tick whose decode stalls lets the
   wrong path through.* `stall` stays set, nothing is fetched, and the next latch
   takes the stale `fromFetch` (`Hart.cpp:93-103`).
3. `MCHartRace` – *fetch and execute race for the predictor.* If execute takes the
   mutex first, the front of `executingQueue` is an older prediction
   (`SimpleBranchPredictor.cpp:58-60`, `85-86`), a right prediction is
   reported as failed and executed again from the target.
4. `MCHartTerminate` – *`--halt` ends the process.* The comparison at `Hart.cpp:110`
   throws for the empty `decodePC` of a NOP, out of the tick's thread.
5. `MCEmulatorFlush` – *flush while running.* The test at `main.cpp:374` reads
   `shouldContinue`, which is false during every Step and right after Pause, so
   `Hart::flush` and `Hart::tick` run on the same HART at once.
6. `MCEmulatorResume` – *a lost resume.* `renderUI` starts the interface before the
   main thread waits (`main.cpp:76-83`); a Resume in between is notified to nobody.

Known, and visible in the models, without a run of their own:

- An exception of an instruction that is squashed (decoded on a wrong path) still
  ends the run: `tick` hands on whatever a stage threw (`Hart.cpp:139-154`). This is
  why `Abandon` is an outcome of `ISA`.
- The halt address is compared with a *predicted* PC (`Hart.cpp:110`), although `README.md:28` says
  "if reached": `jalr x0, 0(x0)` at 0 jumps to itself for ever, and `--halt=04` ends it because
  the look-ahead took it to fall through (in `Hart`: the run is halted while `redirect` is below
  `haltAddr`).
- The uninitialised `rd` of a branch is compared with register numbers (`AbstractInstruction.h:59`),
  and `RV32I.cpp:247` posts the next PC as the branch's result: the reader of such a register
  is forwarded that PC or, before it is posted, gets a `PipelineHazardException` or a stall. With
  `GarbageRD = {1}`, TLC finds `OperandsUpToDate` violated by `bne x0, x0, 8; addi x2, x1, 4`.
- A tick that meets the halt address does not look at its stages' exceptions
  (`Hart.cpp:115-135`): a fault of an older instruction becomes a clean halt.
- A flush drops the instruction that is stalled in decode (`Hart.cpp:103-107`).
- An exception inside `flush()` leaves `shouldFlush` set (`Hart.cpp:167-172`); the
  emulator prints it and goes on with a HART that never fetches again.
- `workloopExceptionPtr` is never reset: a look-ahead over a wrong path that met
  an error ends the run at the next fetch, even after the path was abandoned.
- `Processor::flush` rethrows before joining the remaining HARTs
  (`Processor.cpp:78-84`): with two or more, `std::terminate` (see `JoinFlush`).
- Stop executes one more step when it wakes the main thread: `stopProcessing` is only
  read at the head of the loop (`main.cpp:74`).
- `updateUI` set by a command between a render and `main.cpp:88` is cleared unseen.
- `isHalted` is set after the render that says only Stop works (`main.cpp:94-96`):
  Resume or Step clicked in between can pass their check, and if their notification comes after
  line 109 waits, the process ends.
- `delete(processor)` (`main.cpp:113`) can run while a flush command is active on
  the interface's thread.
- Without `--pause` and `--runningOutput` there is no interface, and no Stop button,
  until a HART halts or fails; this is why `GetsOut` has `<>(ui # "none")`.

At the byte level, each with its exact condition in `Errata` (or the property named):

- `SUB` borrows two where a byte of 0 meets 255 and the like (`DoubleBorrow`).
- `BLT`, `BGE`, `SLT` compare each byte with its own sign (`SignedByBytes`).
- `SLTI`, `SLTIU` never look at the immediate, which is two bytes long, and compare
  the upper bytes of `rs1` with zero (`SltiIgnoresImmediate`).
- Shifts by a register use all of it, not its low five bits (`ShiftNotMasked`).
- The sign of a store's offset is taken from bits 26, 27, 29 and 30 of the word and not
  from bit 31 (`StoreElsewhere`).
- The last word and half word of memory cannot be read, written or executed
  (`LoadFromTheEnd`, `StoreElsewhere`, `LastWord`): the bound is `addr + width >= size`.
- `JALR` does not clear the lowest bit of its target (`OddTarget`).
- Reserved encodings are executed as others (`Reserved`); `INC` of the largest value
  throws and `DEC` borrows from one byte only (`ByteThrows`, `DecrementBorrows`).
- The constructor of stores never extends the sign, the one of `LUI` and `AUIPC` extends it
  into the value (`ConstructorsAgree`).
- Of a halt address of more than four digits only the lowest byte is sure to be read
  right: `substr(i, i+2)` takes a length for an end (`HaltAddressRead`).
- Of the text of a halt address only the length is tested (`main.cpp:212-223`), although the message is
  "Halt address not hex encoded": `--halt=zz` starts, with address 0 (`ByteRead`).
- A number given to `memA`, `memW` or `hID` that fits no `int` is truncated (`main.cpp:16`, `330`,
  `343`, `356`): `memA 4294967301` shows memory from 5 on (`AsInt`).
- The loader writes one byte past the binary, 255, because `eof()` holds only after the
  read that fails; the test for a binary that is larger than memory comes too late to be met,
  and a binary that just fits is refused by `writeByte` (`Image`, `StartsAsAsked`).
- The help text offers to detect the halt address "from the final address of the
  binary" (`main.cpp:127`); nothing detects one.

## Proofs

`HartProofs` (767 obligations), for every program, memory size, width, register
set, halt address, uninitialised `rd` and scheduling:

- `TypeCorrect`: `Spec => []TypeOK`. Not a formality: that the hazard queue stays
  indexed by stage and that `PCQueue` holds aligned addresses is what makes the
  indexing in the code defined.
- `TypeInvariance`: the inductive invariant `TypeInv`. `TypeOK` alone is not
  inductive: `getNextPC` takes the second element of `PCQueue`, so the invariant
  adds that the look-ahead is full unless its exception is set; and a
  branch computes its target from its `pc`, so it adds that whatever is past
  decode has one. Lemmas give the types of `Result`, `NextPC`, `Fill` and of the
  hazard controller's operators; one step per action follows.

`HazardProofs` (847 obligations), which extends it, for the same constants and one hypothesis more:

- `OperandsAreUpToDate`: `Spec => []OperandsUpToDate`. The decode thread finds its
  sources not stale and reads them under a second acquisition of the mutex, while the
  execute, memory and writeback threads of the tick run on; the value it reads is
  still that of the last writer in program order.
- `HazardInvariance`: the inductive invariant `HazardInv`, a conjunct per place
  of the hazard queue (`DecodeInv` … `WritebackInv`). The entry of each place names
  the destination of the instruction in the latch it stands for; which entries have a value follows from
  which stage threads of the tick have run (`FillOrder`, `Done`); and after the check
  (`CheckedInv`) no source of the instruction in decode is still to be computed. A value that moves
  from the queue to the register file is the same value at every step, because the
  writeback thread writes the register before the entry is dropped by the next `bump`.
- The hypothesis, `PlainDestinations`, cannot be dropped. A word that never writes
  back must have `rd` = 0 (FENCE and ECALL are decoded with whatever `rd` they carry),
  and an uninitialised `rd` must name no register: the entry of such an instruction is
  never filled, and a later reader of that register waits for a value nobody posts, or
  it is a branch's and filled with its next PC. `MCHartLive` has such programs.
- Like the property, the invariant speaks of runs in which nothing has thrown and no
  jump has lost its link (`clean`).

`EmulatorProofs` (288 obligations), for any number of HARTs:

- `Invariance`: the inductive invariant, with a part per property.
  `JoinInv` ties each thread's state to the joining index of its call while the call
  is active. `UIInv` says where the main thread can be when the interface is missing, finished
  or told to quit. `FaultInv` says that with an exception outstanding the main
  thread is on its way out. `LateInv` says the same of a step nobody had asked for:
  it is on its way to a wait or out.
- `TypeCorrect`, `HartThreadsAreJoined`, `UserCanReach`, `FaultsStopTheLoop` and
  `PausesAreHonoured` follow from it and state properties of `MCEmulator`.
  `HartThreadsAreJoined` holds although `step` and `flush` may overlap.

`PredictorProofs` (682 obligations), for every program and memory size:

- `QueueStaysChained` and `NextPCIsPredicted` state properties of `MCPredictor`, and
  `TypeCorrect` its `TypeOK`. The inductive invariant has two parts. `LockInv`:
  one caller past the lock, no look-ahead beside a body, no caller once
  the destructor runs. `QueueInv`: the queue is chained; the PC to be pushed is the one predicted
  after the *current* last one, which is what unlocked access could break;
  and a look-ahead that is not running has filled the queue, unless it threw or
  the destructor stopped it. The last part is why `getNextPC` never finds its
  empty case.
- `PredictorIsImplemented`: `Spec => ImplementsPredictor`, the refinement. The abstract
  queue is `Fill(PCQueue)` and the abstract exception is set as soon as filling the queue
  must fail. What the look-ahead does is a stutter: a PC it pushes `Fill` had already
  (`PushFills`), and when it throws `FillFails` held already (`WorkloopUnseen`). When a
  method has joined it, `Fill(PCQueue)` is `PCQueue` (`BodySees`), so the method takes from
  the concrete queue what the abstract one gives.

`MemoryProofs` (117 obligations), for every size and content of memory and every binary:

- `AccessInMemory`, `WrittenIsRead`: an access that is not refused lies in memory, and
  what is written is read back and nothing else changes.
- `BinaryIsLoaded`: a binary that loads is smaller than memory and stands in it from
  address 0, followed by the byte 255 and zeros.
- `RegionInMemory`: a region of two non-negative numbers is shown only if it lies in
  memory; the sum must fit a `ulong`, since the code adds before it compares.

`ByteProofs` (3116 obligations), for every word of four bytes:

- The routines of `bytemanip.h` against the integers and bits of `Manual`: `FieldsRead` and
  `ImmediateI` … `ImmediateJ` for decoding, `AddBytesIsPlus` (the carries go through
  all four bytes), `SubtractionIsMinus` (but for the borrow of two, `DoubleBorrow`),
  `AddByteIsPlus`, `UnsignedOrder`, `SignedOrder` (but for `SignedByBytes`),
  `ShiftLeftByRegister` and `ShiftRightByRegister`. On integers a word is
  `b1 + 2^8 b2 + 2^16 b3 + 2^24 b4`; the shifts and slices go through the
  bits of each byte (`ByteOfBits`, `BitValues`), of which a byte is the sum.

`DatapathProofs` (3771 obligations), for every binary, command line, memory size and number
given to the interface:

- `DataIsTyped`: the inductive invariant `DataInv`. `TypeOK` is far from inductive: that a
  load leaves a word needs that the access `execute` let through lies in memory, so the
  invariant keeps, at every stage, what the stages before it established: the word fetched is still in
  memory at the PC (`FetchedInv`), the instruction has the fields of that word and the
  operands of the registers (`Decoded`), and the effect is what `execute` gives (`DecodedInv`).
- `TypesKept`, `WordsDecoded` and `InstructionsRebuilt` follow from it with `ByteProofs`, and state
  properties of `MCDatapath` that the run checks for some words, for all 2^32.
- `CommandLineIsRead`: the inductive invariant `CommandInv`, induction over the
  arguments in the order they are read. `ReadInv` ties each field of the configuration to
  the last of the arguments so far that give its option, and says that a refused
  configuration is one `main` cannot use; `StartInv` says how `main` went on.
  `StartedAsAsked` and `HaltIsRead` follow.
- `RegionIsShown`: `Spec => RegionShown`, for every integer that may be asked for. What `AsInt` keeps of a
  number is the one nearest zero that differs from it by a multiple of `UInt` (`IntOfNumber`); the
  region is then refused exactly if it does not exist, although ints are compared as ulongs whose sum may
  wrap around and the HART's number as a `uint`: this is where `DatapathAssumption` says that
  an `int` is half of a `uint`, and a `uint` no wider than a `ulong`.

`ManualProofs` (2924 obligations), for the same constants, is where the byte level meets its promise:

- `ManualIsImplemented`: `Spec => ImplementsManual`, the refinement. The abstract PC, registers
  and outcome are those once the result of an instruction past its memory stage is written back.
  Loading, decoding, executing and writing back are stutters; `MemoryAccess`, or the stage that
  throws, is the manual's `Step`, `Except` or `Halt`, or `Deviate` under an erratum.
- `InstructionAgrees` is the heart of it, one lemma per family of instructions: if no erratum
  applies to the word and its operands, `execute` and the memory stage throw exactly if the manual's
  instruction faults, and otherwise they leave its value for `rd`, its next PC and its memory.
  The arithmetic is cited from `ByteProofs`; new here are the addresses (the bounds of
  `Memory.cpp`, with sums that wrap around, against those of the manual), the
  bytes that loads extend and stores leave, and the alignment of targets.
- `PlaceIsKept`: the inductive invariant `ManualInv`, which is `DataInv` and `PlaceInv`. The latter says
  that the PC is aligned, although targets come from branch offsets and from registers
  (else a word would be fetched that the manual refuses); that the next PC is, too; and that an instruction
  past fetch is not one to halt at, since the emulator looks at the halt address
  before it fetches and the manual's machine when the instruction takes effect.

Assumptions: `RV32IAssumption`, `HartAssumption`, `SimplePredictorAssumption`,
`MemoryAssumption`, `DatapathAssumption` and `NHartsAssumption`, which the runs evaluate. They say that a
register is at least as wide as an address, that programs are made of instructions, that `NoPC` and
`NoVal` are no numbers, that there is a HART (`main.cpp:29`), and of `Datapath` that binaries are
bytes, that a `uint` is no wider than a `ulong` and counts twice as many HARTs as a `ushort`, and that a
memory has fewer bytes than half of a `ulong` and at most `ULongBound` (2^24, see the bounds above): "every
memory size" of the theorems on `Datapath` means up to there.

Only model-checked:

- `PredictionCheckExact`, `RedirectTaken` and `ImplementsISA`. They hold of the programs
  of the runs and not of every program: `MCHartWrongPath`, `MCHartRace` and `MCHartCall` are
  programs that break them.
- `ErrataReal`, the other direction: that under each erratum the step is *not* the manual's.
  `ManualIsImplemented` shows that the list is complete, TLC that no entry of it is too wide for
  the operands of the run.
- All liveness: `KeepsExecuting`, `CallsReturn`, `PauseTakesHold`, `GetsOut`. Fairness and
  `ENABLED` are beyond the prover.

No proof needs recursion: the look-ahead is unrolled (`Fill`), which its queue of four allows,
and a word is unrolled into its four bytes.

## Not modelled

- The layout of the screen, messages, `debug()`, `peak()` and `getBytesForPrint`: output
  only. The region and the HART that the interface shows are modelled.
- Races on `extraOutput` (a `std::string` shared by both threads) and on what a
  render reads of a HART: not part of the control.
- `Processor::start`, `pause`, `resume`: nothing calls them.
- The choice of base, extensions and predictor by enumeration value: there is one of
  each, but for T, which `Datapath` has.
- Code that writes code: in `Hart` the program is kept apart from the data. `Datapath`
  fetches from the memory it writes.
- ftxui beyond `Loop` and `ExitLoopClosure`; RV64 and RV32E, which `main.cpp` does not instantiate.

## Hazards left

Eight of the hazards in `PROJECT.json` have no property, because the code is wrong there in
a way that the models follow and this page describes: an exception inside
`flush()` or in the tick that meets the halt address, a look-ahead exception of an
abandoned path, `Processor::flush` with a failing HART, `updateUI` cleared unseen,
the processor deleted under a running flush, a Resume or Step accepted after a halt, and a halt at
a predicted address; of a ninth, the uninitialised `rd`, `KeepsExecuting` covers the stall
only. A change to any of these places should come with the property that then holds.
