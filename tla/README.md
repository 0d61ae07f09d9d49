# ztachip: TLA+ models, model checking and proofs

ztachip is a tensor processor (VHDL, `src/HW`) next to a RISC-V host, and the
software that feeds it (C, C++, assembler and a kernel language, `src/SW`).
This directory models the control of that system: queues, the instruction
dispatcher and its data movers, execution graphs, the two host threads, the
ownership and sharing of buffers, and the compiler that turns a kernel into code
for the cores. Source paths below are relative to `src/`.

`tlc -config X.cfg MCX` runs a model, `tlapm X_proofs.tla` checks its proofs.
`PROJECT.json` lists the runs, the source lines of every definition, one mutant
per property of a passing run, the hazards and the theorems.

## 1. The system

```
 host program ── Graph ── NeuralNet, image kernels ── ztalib (two threads)
      │  buffers: TENSOR, shared memory                    │ register writes
      ▼                                                    ▼
 ┌───────────────── tensor processor ─────────────────────────────────────┐
 │ dp_fetch: host write ─► dp_fifo (scfifow + window of 2) ─► dispatcher  │
 │     transfers ─► dp_gen x2 ─► dp_source x3 ─► bus ─► dp_sink x3 ─► bus │
 │     tasks ─► cores (2 processes)      executions ─► fpu                │
 │     indications ─► indication queue ─► host                            │
 └─────────────────────────────────────────────────────────────────────────┘
   buses: register files of the cores, scratch SRAM, DDR (AXI, afifo)
```

| Component | State | Operations | Hard part | What makes it correct |
|---|---|---|---|---|
| `scfifo` (`HW/src/util/fifo.vhd`) | RAM, two write pointers, read pointer, flags, output registers | write, read, flush at a clock edge | the RAM read collides with a write; wrap-around; registered flags | it is a bounded queue with a known latency |
| `scfifow` (`fifow.vhd`) | an scfifo of pieces, cut and gather registers | same, wide words | two counters that must stay in step; words not yet counted | whole words, in order, none stuck |
| `afifo` (`afifo.vhd`) | pointers in two clock domains, Gray code, synchronisers | write clock, read clock | unrelated clocks, metastable bits, stale pointers | a bounded queue, no flag stuck |
| `arbiter` (`arbiter.vhd`) | mask above the last grant | grant | starvation under particular request patterns | bounded overtaking |
| `dp_fifo` (`HW/src/dp/dp_fifo.vhd`) | an scfifow, window of two instructions, full flag | host write, read current, read next | slots move a clock after the read; full flag is late | program order, no overflow, no stuck instruction |
| `dp_fetch` | window, registered instruction, busy flags, waiting task, counters | one clock: choose, issue, launch | every decision uses flags older than the state | a task, an FPU run or a flush never overlaps what it excludes; no deadlock |
| `dp_gen`, `dp_source`, `dp_sink` | engines, reads under way, sink queues, counters | request, answer, write | untagged answers, full flag with a pipeline behind it | words meet their requests, no overflow |
| cores, `fpu`, `ddr_tx` as `dp_fetch` sees them | busy flags | launch, end | end at any time | — |
| `Graph` (`SW/base/graph.cpp`) | slots, last request and response id, position | add, verify, run, clear, destroy | responses of all graphs in one queue, id wrap, host operators | done means answered; every run returns |
| two threads (`SW/base/ztalib.c`, `task.S`, `main.m`) | who runs, task status, image cache, process register | execute, yield, init | the hardware only sees a toggle | instructions carry their process; join is exact |
| `TENSOR`, shared memory (`tensor.cpp`) | pointer and alias flag per tensor | Create, Clone, CreateWithBitmap, Alias, destroy | no reference counts | one owner, no double free |
| network buffers (`nn_util.cpp`, `nn.cpp`) | interval, size, reuse mark per buffer | commit, free all | greedy sharing with state updated in the loop that reads it | sharers never live together, fit, freed once |
| kernel compiler (`SW/compiler`: `gen.cpp`, `instruction.cpp`, `graph.cpp`) | instruction list, jump marks, use counts, registers | generate, a dozen rewriting passes, place | passes rewrite one list in place, repeated until nothing changes; code that comes out wrong still runs | the code does what the kernel says; the compiler ends |

Interactions. The host writes instructions into `dp_fifo` through registers of
`dp_fetch`, which stall the bus when the queue is almost full. `dp_fetch` hands
transfers to engines; an engine's request goes to the destination's sink and, as
a read, to the source's bus, whose answer comes back untagged. A completed job
becomes an indication that the host polls (`ztaReadResponse`), from whichever
`Graph::run` happens to be running. Kernel functions run on two host threads,
one for each process of the cores, so that one can load data while the other
computes; both write the same instruction stream. What a task then executes on the
cores is what the compiler made of the kernel (`*.p` files): its passes see only
the instruction list, and hand it on through it.

## 2. Modules

| Module | Models | Composes |
|---|---|---|
| `FifoOps`, `Fifo` | the abstract queue: values as a sequence, shown after two clocks | |
| `ScFifo`, `ScFifo_proofs` | `scfifo` register by register | refines `Fifo` |
| `ScFifoW` | `scfifow` | the abstract fifo for its inner `scfifo` |
| `AFifo`, `Util_proofs` | `afifo` and `CCD_SYNC` | |
| `Arbiter`, `Util_proofs` | `arbiter` | |
| `DpWindow` | the two-instruction window of `dp_fifo` | |
| `DpFifo`, `DpFifo_proofs` | `dp_fifo` and the host's write path | `ScFifoW`, `DpWindow` |
| `DpMove` | `dp_gen`, `dp_source`, `dp_sink` | |
| `DpFetch`, `DpFetch_proofs` | `dp_fetch` | `DpMove`, `DpWindow` |
| `Graph`, `Graph_proofs` | `Graph`, `NeuralNet::Execute`, the hardware as an ordered answerer | |
| `DualHart`, `DualHart_proofs` | `ztaDualHartExecute`, `_taskYield`, `ztaInitPcore` | |
| `Tensor`, `Tensor_proofs` | `TENSOR` over malloc | |
| `NnBuffers`, `NnBuffers_proofs` | `BufferAllocateCommit`, `BufferFreeAll` | |
| `KernelCode` | instructions and terms (`instruction.h`, `term.h`), and an interpreter for them | |
| `KernelSource` | kernels as written and what they mean: the reference | `KernelCode` |
| `KernelGen` | `cGEN`: statements to instructions | `KernelSource` |
| `KernelOpt` | `cInstruction`'s passes, each a function from code to code | `KernelGen` |
| `KernelColor`, `Util_proofs` | `cGraph`: colouring and registers, given what is alive together | |
| `KernelRegs` | `cGraph`: liveness, the order of colouring, where each variable is | `KernelOpt`, `KernelColor` |
| `Compiler` | `main`, `cInstruction::Optimize`, `cGraph::Build` as a state machine, one step per pass | `KernelRegs` |

Hardware modules take one step per rising clock edge: registers are variables,
combinational signals are operators of the registers and the ports, and all
registers change together. Names are those of the source. `inputs` is the value
of the ports sampled at the last edge. Software modules take one step per
operation, or per stretch of code between two points where something else can
run.

### How state and actions correspond to the code

*ScFifo.* `Clock` is the clocked process of `fifo.vhd`. Callers never read when
empty or write when full; that is the guard, as at the instances in the design.
What a vendor RAM returns for a word read during its write differs between
builds, so `q` is then any value: the design must never show it.

*ScFifoW.* The word `d` is cut into pieces `<<d, k>>`. The inner queue is not the
`scfifo` registers but the operators of `FifoOps`, which `ScFifo` is proved to
implement.

*AFifo.* `WriteEdge` and `ReadEdge` interleave freely. A first-stage flip-flop
clocked during a change of its input takes old or new, each bit by itself; the
`*_old` variables keep the value still being left. Gray code is computed as the
code computes it.

*DpFetch and DpMove.* `Clock(in)` is one edge of the dispatcher and the movers; `in`
is what the parties around them do in that clock: which engines' requests a bus
accepts, which buses answer their oldest read or take a sink's word, whether a
task is launched, tasks and FPU runs end, `ddr_tx` drains, and what the host's
queue delivers. Each may be arbitrarily slow. An instruction is a record: operation, process,
source and destination bus, the set of flush conditions, number of words.
- Words are counted; addresses (`dp_gen_core`) are left out.
- Whether a request carries its own data (`eof`) is chosen for each request.
- Registers of a sink's pipeline are counted as part of its queue `sinkq`.
- The queue in front of the window is `DpFifo`'s subject. Here it delivers at
  once, or (in a workload with `stalls`) may run dry. A delivery at once gives the shortest
  distance between instructions, where late flags hurt most.
- The indication queue is an input that may stall (`stalls` as well).

*Graph.* A graph's program is a sequence of nodes, each a sequence of operators:
one that issues a job, one that issues none (reshape), one that runs at the host
(object detection) or one that fails. A positive timeout and a wait forever
differ only in when `run` returns, which is left open. The programs of the
repository destroy or clear a graph only when it is not running (`SW/src/mpy.cpp`
64-71, `vision_ai.cpp` 343) and run a network with a host operator only with the
others finished; `Overlap` lifts the second restriction.

*DualHart.* `_taskYield` saves registers and switches stacks; with the toggle
before it, it is one step, as nothing runs in between. A kernel function is the
number of yields it makes, up to `MaxYields`, different for each thread.
Arguments of the new thread are passed intact.

*Tensor.* Contents and dimensions are left out. `mine` holds blocks the program
allocated itself and passes in. Camera and display buffers (`Screens`) do not
come from malloc. `malloc` never returns without memory: `_sbrk` ends the program
when the heap is used up (`SW/base/newlib.c` 127-134).

*NnBuffers.* `Init` is every table that `BufferAllocatePrepare` can leave; the
loops advance one index per step. The flat and the interleaved copy of a buffer
have the same interval of use (`nn.cpp` 224-257).

*Compiler.* A state is a kernel, its instruction list, the pass that comes next
(`pc`) and the flag `cont` of the loop it is in. Init chooses the kernel; after that
the compiler is deterministic. An instruction has a float operation (`m_alu1`), an
integer operation (`m_imu`) and a control operation; no opcode in `config.cpp` is
for the second ALU, so `m_alu2` is left out.
- A jump names its destination by an identity that does not change when code is
  inserted or removed, and "goes after" it when `jumpAfter` is set, as in the code,
  where both are pointers into a list.
- The passes are written as the code does them, with their blind spots: operands
  stay in an emptied instruction and still block a move; the use counts of
  `findCommonExpression` are those from before the pass; `RemoveAlias` does not ask
  who reads Y (line 1698).
- The reference, `KernelSource`, is a plain evaluator that shares nothing
  with the compiler but the meaning of `+`, `-` and comparisons.
- Integers are unbounded and floats are integers: widths and rounding do not steer
  the compiler, and no kernel here counts far.
- `Run` starts every cell that holds no variable of the class at 0. A kernel that
  reads a local variable before it sets it has no meaning and is not among the
  kernels. Values that are `spins` on both sides count as equal: a kernel that goes on for
  `Rounds` rounds against code that goes on for `Steps` instructions.

## 3. Runs

| Run | Bounds | Properties and what they show |
|---|---|---|
| `scfifo` | 4 words, 2 values | `FlagsAgreeWithCounts`, `NotEmptyShowsHead`, `RegisteredOutputIsPopped` (a read, and only a read, puts the oldest value in the output register), and `ImplementsFifo`: the registers refine the abstract queue |
| `afifo` | 4 words, 2 synchroniser stages, 2 values | `NotEmptyShowsHead`, `KeepsQueue`, and both flags recover: `WrittenIsSeen`, `EmptiedIsWritable` |
| `dp_fifo` | 4 pieces, 8 words, headroom 4 as in the code, 2 instructions | `WholeWords` (the scfifow never loses step), `WritesFindRoom`, `InnerNeverOverflows`, `KeepsProgramOrder`, `IsOffered` |
| `dp_fetch` | four workloads, below | `TaskAlone`: no task starts with a transfer of its process under way; `AnswersReachTheirSink`, `WordsMeetTheirRequests`: untagged answers are paired right; `SinksNeverOverflow`; `FlushHonoured`, `FpuAlone`: nothing starts before what it waits for is over |
| `dp_live` | programs of 3, mixed, fair | `TaskIsLaunched`, `SomethingStarts`: nobody waits in a circle. Programs end, so that a program without end may keep passing an instruction that waits is outside this run |
| `graph` | 2 slots, 5 ids, 2 jobs and 2 answers under way | `StoppedMeansAnswered`, `HostGetsItsAnswer`, `RunReturns` |
| `graph_overlap` | the same, graphs overlap | *violation* of `HostGetsItsAnswer`, section 6 |
| `dual_hart` | 2 images, up to 4 yields per thread | `InstructionsCarryTheirProcess`, `ReturnsWhenBothHave`, `ConstantsInPlace`, `CallReturns` |
| `tensor` | 3 tensors, 3 blocks, 1 screen, symmetric | `OneOwner`, `NoBadFree` |
| `nn_buffers` | 3 buffers, 3 layers, 2 sizes, 4 ways to be stored | `SharersDisjoint`, `SharersFit`, `FreedOnce`, `AllGetMemory` |
| `compile` | 2949 kernels, below; all inputs of 0 and 1 | `CodeMeansKernel`: after every pass the code leaves in the class's variables what the kernel says; `PlacedCodeMeansKernel`: it still does when variables share registers; `CompileEnds` |
| `compile_else` | 2 kernels | *violation* of `CodeMeansKernel`, section 6 |

Where a run lists `TypeOK` in its cfg, that is the module's type invariant.

The workloads of `dp_fetch` (`MCDpFetch.tla`) are sets of instructions which the
host sends in any order: *Tasks* (programs of 4: transfers to and from the cores,
tasks on both processes), *Traffic* (3 transfers that share buses), *Stream* (3
transfers, longer together than a sink's queue, with a host and an indication
queue that stall), *Flushes* (4: flush conditions and FPU runs). Every invariant is
checked on every workload.

The kernels of `compile` (`MCCompiler.tla`) are families, each every combination of
a few parts: *Loops* (every kind of loop around every selection, with a break, a
continue or a return in its blocks), *Switches* (with fall-through and default
first, last or missing), *Unrolled* (bounds hit, missed or empty, up and down),
*Evaluated* (`++` and `?:` next to what they could disturb), *Straight* and *Joins*
(assignments in any order, alone and around branches and loops), *Parameters*,
*Carried* (a value that lives round a loop) and *Indexed* (more integers alive
together than registers, some of them tied to index registers). Register files are
cut to two integers and three pointers so that all of them run out.

Why the bounds are enough to be of interest. Four RAM words let pointers wrap,
the queue fill up and a write fall on the word being read; theorems cover other
depths, margins, numbers of graphs, tensors and buffers, and longer programs. In `afifo` the pointers have three bits, enough that Gray code differs
from binary and that a pointer may move several times during a crossing; the
third flip-flop of the design only adds delay. In `dp_fifo` eight words leave four
above the headroom, and the pipeline in front of the queue holds two. The
dispatcher has two window slots and two registered stages, so a hazard needs at
most the two instructions in flight, the one that must wait and one more. A sink
of four words with a margin of two keeps the relation of the design between
margin and engine pipeline; the transfers of *Stream* overfill the
sink. In `graph` the ids wrap with answers under way. In `nn_buffers` three
buffers are the smallest number with one that shares what is already shared. In
`compile` every pass looks at one instruction and the ones after it up to a jump or a
destination, and the families are chosen to bring every pass to all of its cases; six rounds and 70
instructions are more than any kernel that ends needs. No kernel uses a float and a
parameter together, so the inputs leave that combination out.

Deadlock is checked in every run but the compiler's, which stops when it is done.

## 4. Fairness

- `DpFifo`: weak fairness of the clock. The clock runs; nothing is assumed of the
  host or of the reader.
- `AFifo`: weak fairness of each clock's edge, for both clocks run.
- `DpFetch`: weak fairness of the clock and of each party on its own: a bus
  accepts, answers and takes words, a task and an FPU run end, `ddr_tx` drains.
  These are the contracts of the memories and of finite kernels. Nothing is
  assumed about which instruction the dispatcher picks.
- `Graph`: weak fairness of the step of a run in progress and of the hardware
  finishing a job. The program need not start anything.
- `Compiler`: it is a program that runs, so a next pass is made (`WF_tick(Runs)`).
  `tick` alternates with each pass: without it a pass that changes nothing, repeated
  for ever, would be a stuttering step and no counterexample to `CompileEnds`.
- `DualHart`: weak fairness of the thread that runs; kernel functions yield a
  finite number of times.

## 5. Proofs

| Theorem | Module | For every |
|---|---|---|
| `TypeCorrect`, `FlagsCorrect`, `HeadShown`, `OutputIsPopped`, `FifoImplemented` | `ScFifo_proofs` | data set, number of words ≥ 4 |
| `NoStarvation` | `Util_proofs` | number of signals > 0 |
| `AFifoShowsHead`, `AFifoKeepsQueue` | `Util_proofs` | data set, depth 2^n with n ≥ 2, synchroniser stages ≥ 1, order of the clocks' edges |
| `NeighboursApart`, `RegistersApart` | `Util_proofs` | graph, order of its variables, sizes of the register files |
| `TypeCorrect`, `TagsCorrect`, `ReturnCorrect`, `ConstantsCorrect` | `DualHart_proofs` | set of images, bound on yields |
| `HostIsHeldBack`, `InnerHasRoom`, `PiecesStayInStep`, `ProgramOrderIsKept` | `DpFifo_proofs` | set of instructions, depth ≥ 2, pieces per word ≥ 2 |
| `TypeCorrect`, `TasksRunAlone`, `FpuRunsAlone`, `FlushesAreHonoured`, `AnswersFindTheirSink`, `WordsArePaired`, `SinksHaveRoom` | `DpFetch_proofs` | set of instructions, length of program, sink depth and margin ≥ 2 |
| `TypeCorrect`, `StoppedIsAnswered`, `HostAnswerIsItsOwn` | `Graph_proofs` | number of graphs, programs, ids, sizes of the queues |
| `OwnershipIsExclusive`, `FreesAreGood` | `Tensor_proofs` | set of tensors, blocks and screens |
| `TypeCorrect`, `SharingIsSafe`, `SharingFits`, `StoredGetsMemory`, `MemoryFreedOnce` | `NnBuffers_proofs` | number of buffers, layers, sizes, storage kinds |

Every safety property of the passing runs is a theorem, those of the compiler
excepted. `Arbiter` is proved and has no run; the same holds for the types of `ScFifo`
and `NnBuffers`, and for the two theorems about the compiler's registers.

Assumptions are only those the modules name, and TLC evaluates them in the runs:
- sizes: `WordsAssumption` (`ScFifo`), `SizesAssumption` (`DpFifo`, `Graph`,
  `NnBuffers`), `AFifoAssumption`, `RegistersAssumption`, `ImagesAssumption`,
  `StorageAssumption`, `ShmAssumption`;
- `DpMoveAssumption`: a sink says full with at least two words left. The code has
  `burstlen_max_c + 16` of them (`dp_sink.vhd:765`); the flag reaches the engines two
  clocks late, and with a margin of one the theorem is false;
- `WorkloadsAssumption`: an instruction has the fields of the record and transfers
  at least one word;
- `IdsAssumption`: fewer jobs fit in the two queues than there are ids (2^24);
- `NoneAssumption` and the like: a value that stands for "nothing" is not another
  value.

Other hypotheses are written in the theorems. `NoStarvation` has `AtLeastOneSignal`.
`StoppedIsAnswered` and `HostAnswerIsItsOwn` have `Overlap = FALSE`, which is how the
repository's programs use graphs; without it the second is false (section 6).
`NeighboursApart` and `RegistersApart` take an order in which each variable appears
once, which the stack of `colorGraph` is. `RegistersApart` also asks that the compiler
reports success, that the class's integers fit in the registers of integers, and that
the index variables fit at the first try; without the last one it is false (section 6).

Proofs about a specification have the same shape: an inductive invariant holds
initially, each action preserves it, it implies the property. TLC checked the
invariants of the modules that have a run before they were proved.

- *ScFifo* (`PointersInStep`, `Flags`, `OutputSettled`): the registered write
  pointer trails the write pointer by at most one word and the reader's distance
  never exceeds the writer's; the flags equal comparisons of pointers; while the
  registered write pointer is ahead of the read pointer, the RAM output equals the
  word at the read pointer. The last part is what the property about the shown
  word rests on: the output was read in a clock in which that word was not being
  written, which only the one-clock lag of `waddr_rr` guarantees. The refinement
  maps the pointers to the sequence of RAM words between them.
- *Arbiter* (`RoundRobin(l)`): the counters alone say nothing of the mask. With `l`
  granted last, the mask is what lies above `l`, and every signal that overtook a
  waiting `i` lies on the cyclic way from `i` to `l`. The next grant lies beyond `l`
  and not beyond `i`, so it is not one of those.
- *AFifo* (`AFifoInv`). A pointer on its way through the synchroniser is a row of codes:
  the counter's own, the one it is leaving, then one per stage. `Crossing` says that each
  is the Gray code of a position the counter has had, that none is ahead of the one in
  front of it, and that the first two differ by at most one step. What the first stage
  catches during a change is then one of the two (`SampleIsOldOrNew`), since Gray codes
  of neighbours differ in one bit (`OneBitChanges`), across the wrap-around as well
  (`GrayWraps`). Each side therefore knows a position the other one has really had, in
  the near past. The rest of the invariant is about distances: with n words between the
  pointers, what the reader knows is at most n behind, and n and the delay of what the
  writer knows are at most the depth together, one less on each side while a flag lets
  a word through. So `full_r` and `avail_r` err towards full and empty only, and the
  `Window` of RAM words between the pointers is the queue. That the comparison of codes in `full_r` tests for a
  distance of exactly the depth, two top bits apart and the rest equal, is
  `OppositeIsHalf`; that equal codes mean equal pointers is `GrayInjective`.
- *Registers* (`Colouring`, `Giving`). `WithColour` looks only at coloured neighbours, so
  the claim is about all variables coloured so far, and that colours have no gap is what
  makes the number of colours the size of the table `allocateGraph` runs through.
  `Giving` says of a call what it gave: distinct registers below its base, none to a
  colour that had one, and, when it succeeds, one to every colour wanted. Three calls
  share two spaces; the second and third are kept apart by the count the second one
  leaves, the first from the others by its base.
- *Induction.* The library's induction theorems cannot be used here, as they have an
  operator as parameter. `SetInduction` is the same for a set instead of a property (a set
  with 0, closed under successor, has all naturals), from the fact that a non-empty set
  of naturals has a least one (`Smallest`). That a recursively defined function
  satisfies its equations is proved the same way (`ColorSteps`, `AllocateSteps`), and
  what `2^n` is, which the prover does not know, comes from the number of subsets of a
  set with n elements.
- *DualHart* (`TagInStep`, `SwitchedInTurn`, `StatusTells`, `ImageLoaded`): process 1
  is selected exactly while the task runs or `ztaInitPcore` has switched by hand;
  the task runs only during an execution and is switched to first; `taskStatus` is
  false only when the task's function has returned; outside the load both processes
  hold the cached image. The property about tags is not inductive: it says nothing
  of where the thread that does not run will continue.
- *NnBuffers* (`InputsSane`, `HomesCover`, `HomesAtHome`, `HomesDisjoint`,
  `LoopsInOrder`, `OwnersAreHomes`): each buffer has a *home*, the buffer whose memory
  it is given or will be given. A home's last use and size cover those of all that
  live in it, a home lives in its own memory, buffers with one home are used one
  after the other, and memory handed out is the home's and large enough. The homes
  are needed because the code compares a buffer with the grown interval of the
  owner and never with the other sharers.
  For who gets memory and who frees it (`OnlyOwn`, `MarksTellSharers`,
  `LoopsComplete`) the invariant also follows how far the loops have come: which
  buffers have a home, which homes have memory, and that a mark is left exactly on
  those that share. `BufferFreeAll` looks at the marks alone.
- *Tensor* (`OwnedIsAllocated`, `OwnedIsNotShared`, `OwnedIsNotMine`, `NothingLeaks`):
  what a tensor would free on destruction is allocated, and neither another tensor
  nor the program would free it. Screens and aliases own nothing. `NoBadFree` alone
  says nothing of the next free.
- *Graph* (`IdsInOrder`, `LastIsRequested`, `StepsInNodes`, `CallRuns`,
  `HostRunsAlone`, `HostWaitsAlone`): `run` decides that it is done
  by comparing two ids (`graph.cpp:113`), and the ids wrap. The
  invariant counts instead: the k-th pending job of a graph has the id that is k after
  the last answer the graph has read, and the last one is the last id it gave out.
  With fewer jobs pending than ids, equal ids then mean that none is pending. A host
  operator's job has an id outside this count, so while it waits it must be the only
  job there is.
- *DpFifo* (`LetThrough`, `OneAtATime`, `StreamIsWords`, `WindowSound`): the full flag
  is two registers away from the queue it speaks of. `LetThrough` follows a word
  through these registers: from the clock in which the flag let it through, the
  fifo has grown only by the pieces cut from that word. `StreamIsWords` puts the
  pieces being gathered, the ones inside and the ones still to be cut in one row and
  says that it is the words, cut; `WindowSound` says when the window's outputs tell
  the truth. Program order is then an equation between two rows of words, before and
  after a clock.
- *DpFetch*. Every decision is made on flags that lag behind, so the invariant says
  for each flag what a low flag promises.
  - `Orderly`: a transfer is in one place of its way from the window to its engine
    (`JustIssued`, `InOnePlace`), and two engines at work share neither source nor
    destination (`Apart`).
  - `Accounted`: the counters equal what they stand for, the reads not yet answered and
    the words not yet written (`PendCounts`, `UnwrittenCounts`); all reads of a bus go to
    one sink (`OneSink`), because `new_cmd_is_safe_r` and an engine at work both imply
    that nothing else is pending (`SafeIsClear`, `UsedIsClear`).
  - `Covered`: for a word anywhere on its way, a source flag, a counter flag or a sink
    flag is up. The one exception is `Overtook`. For a transfer to SRAM
    `dp_fetch.vhd` takes the process from `orec` and not from `instruction_r` (lines 2090
    and 2100; the flag of the cores, above, takes it from `instruction_r`). When the
    transfer has overtaken one of the other process, the flag of its own is low for
    a clock. The proof shows why no harm is done: in that clock the instruction in
    front is the overtaken transfer, which is of the other process and waits for
    that one's flags, and only a transfer without flush conditions may go before it.
  - `SinkRoom`: one more word per clock of delay. `FpuFlagged`: a started FPU run has
    its flag.
  - `Paired`: only one bus has reads under way to a sink, and the words the sink
    has, followed by those still to come, answer its waiting requests one by one.

Only model-checked:
- liveness (`WrittenIsSeen`, `EmptiedIsWritable`, `IsOffered`, `TaskIsLaunched`,
  `SomethingStarts`, `RunReturns`, `CallReturns`, `CompileEnds`), because fairness and
  `ENABLED` are beyond the prover;
- `CodeMeansKernel` and `PlacedCodeMeansKernel`: the kernels, the interpreter and many
  passes are recursive over nested statements and are written with recursive operators,
  which the prover does not take. Of `PlacedCodeMeansKernel` the second half is proved:
  `RegistersApart` starts from the edges, and that there is an edge wherever two variables
  are alive together (`LiveIn`, `EdgesOf`) is only model-checked.

## 6. Where code and comments differ

- `graph_overlap`. `kernel_objdet_exe` (`SW/apps/nn/kernels/objdet.m:131`) waits
  for its response and takes the first one of any kind;
  `NeuralNet::Execute` (`nn.cpp:386`) makes sure only that its own graph has none
  under way. With another graph's job under way, the detection goes on before
  its kernel is done and the other graph loses an answer. `kernel_llm_done`
  (`SW/apps/llm/kernels/llm.m:1651`) compares the id. The programs of the
  repository do not run that combination; the run `graph` shows that the property
  holds without it.
- `compile_else`. `compress_jump` inverts a branch around a jump
  (`SW/compiler/instruction.cpp:1866`) "without changing behaviour" (1779), but asks
  neither that the branch is conditional nor that nobody else goes to that jump. In
  `while(..) {if(c) {S1} else {break;} S2}` the jump over the else block becomes the
  break: after S1 the loop is left, and when c is false S2 is executed.
- "There can only be 1 instruction executed out of order"
  (`HW/src/dp/dp_fifo.vhd:188`). When the next instruction is read ahead its slot is
  filled again and the current one stays (209-213), so the reader may take the new
  one too. No harm comes of it: the pause conditions are evaluated for each
  instruction that starts, which is what `dp_fetch` checks.

Kernels that the compiler gets wrong and that `compile` leaves out. Each of the
first five has a set in `MCCompiler.tla` (`ElseLeaves`, `Exchanges`, `EmptyIfs`,
`PassedBounds`, `ChosenUpdates`), on which `CodeMeansKernel` fails.
- An else block that starts with break or continue, after a block that is not empty.
- `T = A; A = B; B = T`: the test that nothing in between reads the variable
  assigned last calls `getDef` twice instead of `getUse` (`instruction.cpp:1698`).
- An if and an else that are both empty: the two jumps go after each other.
- An unrolled loop whose bound is passed from the start by less than a step: it is
  executed once, as the division rounds to zero (`gen.cpp:2860`).
- `y += c ? u : v`: the value is put in `y` itself and then added to it (`gen.cpp` 327
  and 428).
- The index of an unrolled loop is not set after the loop.
- An empty endless loop, and a float copied to itself: the optimizer's loop does not
  end, for the pass reports a change each time.
- Index variables that do not fit: a failed `allocateGraph` keeps the registers it gave
  but not their count (`graph.cpp:257`). With two or more of them too many, the second
  try (line 715) gives a register again (`MAX_INT_SIZE = 3`). One is enough when the
  integers before them did not all fit in the registers of pointers (671): these then
  count as free, and the class integer that makes room moves to one that is taken
  (`MAX_INT_SIZE = 3`, `MAX_POINTER_SIZE = 1`). `PlacedCodeMeansKernel` fails on kernels of
  *Indexed* with these sizes; `RegistersApart` shows that nothing
  does when the first try succeeds.

## 7. Not modelled

- RISC-V core (generated), vendor RAM, multiplier and clock primitives,
  testbench, FatFs, MicroPython: not this project's code.
- Arithmetic: pixel kernels, quantisation, floating point, `llm`. Data that no
  control depends on.
- Of the compiler: parser and syntax tree (`ast.cpp`, `prune.cpp`), the translation of
  host code (`mcore*.cpp`), which rewrites text, and the binary encoding. Of kernels:
  pointers and arrays (only that an integer is an index), vectors and their masks,
  calls, `goto`, multiply-accumulate fusion (`fm`), multiplication and shifts. A call
  is an instruction whose effect on class variables `getDef` does not see.
- Peripherals, the AXI fabric, `dp_gen_core`, the ALUs, `afifo2`, the inside of
  the cores, the FPU and the DDR burst machines: section 8.
- Host registers that build an instruction, print and log channels, the contents
  of the indication queue.
- Most lines of the repository by count are not its own logic: the flatbuffers
  headers and the generated schema, FatFs, and the VHDL of vendor primitives. They
  carry no behaviour that the parts above depend on beyond their calls.
- Stack depth and the argument registers of a new thread (`task.S`); use of a
  dangling alias, which the code leaves to the program.

## 8. Plan

Order of the work; the first six are done.

1. Queues and arbiter, with the abstract queue they are used as.
2. The instruction queue and the dispatcher with its movers.
3. Graphs, threads, tensors, network buffers.
4. First theorems: `ScFifo`, `Arbiter`, `DualHart`, `NnBuffers`.
5. The kernel compiler: generation, optimizer, registers.
6. Proofs of what the runs check: `Tensor`, `NnBuffers`, `Graph`, `DpFifo` with `ScFifoW`,
   `DpFetch` with `DpMove`, `AFifo`, and the compiler's colouring and registers.
7. `instr_fetch` (`HW/src/pcore/instr_fetch.vhd` 372-405, 465, 575-640): the barrel
   scheduler of the cores' threads, composed with `Arbiter`: no thread issues
   before its last result is written, a task ends when all threads have, each
   thread gets its turn.
8. `dp_core` (414-525): the pipeline that shadows a task; with `instr_fetch` it
   replaces the "cores" of `DpFetch` by an abstraction that is then justified.
9. `ddr_rx`, `ddr_tx`, the AXI merge, split and resize blocks, the APB bridge:
   order of answers, burst counts, write-acknowledge counters (`ddr_tx_busy`);
   shown to implement the bus of `DpMove`.
10. `afifo2`; the indication queue and its stall; the `fpu` sequencer; `camera`, `uart`.
11. The compiler's `fm` fusion, pointers and calls.
