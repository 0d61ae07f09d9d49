------------------------------- MODULE DpFetch ------------------------------
(***************************************************************************)
(* dp_fetch (HW/src/dp/dp_fetch.vhd): the dispatcher of the tensor         *)
(* processor.  At every clock it looks at the window of two instructions,  *)
(* decides from the registered busy flags which of them may start, and     *)
(* hands a transfer to one of two engines, a task to the cores, an         *)
(* execution to the FPU.  The flags are older than the state they stand    *)
(* for, so several clocks of delay have to add up; the engines and buses   *)
(* are those of DpMove, the clock is one action.                           *)
(***************************************************************************)
EXTENDS DpMove

INSTANCE DpWindow

CONSTANT Workloads     \* what the host may send: instr, the instructions it
                       \* uses, in any order; length, the bound on their
                       \* number; stalls, whether the queue may run empty
                       \* and the answers not be read

InstrType ==
  [op : {"transfer", "exec_vm", "fpu_exe", "indication"}, vm : VMs,
   src : Buses, dst : Buses, cond : SUBSET (Buses \cup {"fpu_idle"}),
   count : Nat \ {0}]

Instr == UNION {w.instr : w \in Workloads}

ASSUME WorkloadsAssumption ==
  /\ Instr \subseteq InstrType
  /\ None \notin Instr \cup [which : Engines, rec : Instr] \cup [rec : Instr, clocks : Nat]
  /\ \A w \in Workloads : w.length \in Nat /\ w.stalls \in BOOLEAN

\* The memory spaces with a busy flag: DDR is shared by the processes.
Space(b, v) == IF b = "ddr" THEN <<b, 0>> ELSE <<b, v>>
Spaces == {Space(b, v) : b \in Buses, v \in VMs}

VARIABLES
  workload,           \* chosen once
  fetched,            \* instructions the window has been given
  window,             \* dp_fifo: the instructions in front
  instruction_r, instruction_rr,  \* None, or a transfer and its engine
  safe_r,             \* new_cmd_is_safe_r: source -> destination
  source_busy_r,      \* space -> *_source_busy_r
  counter_busy_r,     \* space -> *_sink_busy_r
  sink_busy_r,        \* space -> sink_*_busy_r
  unwritten,          \* space -> *_sink_counter_r - *_sink_counter_in
  task_r, task_vm_r,  \* a task waiting for its launch
  task_busy,          \* vm -> pcore_busy
  fpu_exe_r, fpu_exe_rr, fpu_busy_vm_r, fpu_idle_r, fpu_busy_vm_in,
  ddr_tx_busy

fetch_vars == <<workload, fetched, window, instruction_r, instruction_rr, safe_r, source_busy_r,
                counter_busy_r, sink_busy_r, unwritten, task_r, task_vm_r,
                task_busy, fpu_exe_r, fpu_exe_rr, fpu_busy_vm_r, fpu_idle_r,
                fpu_busy_vm_in, ddr_tx_busy>>
vars == <<move_vars, fetch_vars>>

NoSpace == [sp \in Spaces |-> FALSE]
NoVM    == [v \in VMs |-> FALSE]

Init ==
  /\ MoveInit
  /\ workload \in Workloads /\ fetched = 0
  /\ window = EmptyWindow
  /\ instruction_r = None /\ instruction_rr = None
  /\ safe_r = [s \in Buses |-> [d \in Buses |-> FALSE]]
  /\ source_busy_r = NoSpace /\ counter_busy_r = NoSpace /\ sink_busy_r = NoSpace
  /\ unwritten = [sp \in Spaces |-> 0]
  /\ task_r = FALSE /\ task_vm_r = 0 /\ task_busy = NoVM
  /\ fpu_exe_r = NoVM /\ fpu_exe_rr = NoVM /\ fpu_busy_vm_r = NoVM
  /\ fpu_idle_r = NoVM /\ fpu_busy_vm_in = NoVM
  /\ ddr_tx_busy = FALSE

-----------------------------------------------------------------------------
\* What an instruction touches.
Touches(i, b, v) == i.op = "transfer" /\ i.vm = v /\ b \in {i.src, i.dst}

\* The transfer an engine has been given and not yet requested in full, whose
\* buses are source_bus_id_r and dest_bus_id_r.
Using(e) ==
  IF instruction_r # None /\ instruction_r.which = e THEN instruction_r.rec
  ELSE IF instruction_rr # None /\ instruction_rr.which = e
    THEN instruction_rr.rec
  ELSE IF gen_ready(e) THEN None ELSE gen[e].rec

avail(e) == Using(e) = None

\* condition_vm0_busy_r, condition_vm1_busy_r.
condition_busy(c, v) ==
  IF c = "fpu_idle" THEN fpu_idle_r[v]
  ELSE source_busy_r[Space(c, v)] \/ sink_busy_r[Space(c, v)]

fpu_busy_vm(v) == fpu_busy_vm_in[v] \/ fpu_busy_vm_r[v]

\* A condition of a transfer is about its own process, the others' about both.
Waits(i) ==
  \E c \in i.cond : \E v \in (IF i.op = "transfer" THEN {i.vm} ELSE VMs) :
     condition_busy(c, v)

TaskBlocks(i) == task_r /\ Touches(i, "register", task_vm_r)

FpuBlocks(i) == fpu_busy_vm(i.vm) /\ Touches(i, "sram", i.vm)

\* Mutant: the FPU waits for reads of SRAM only.
FpuWaitsReads(v) == source_busy_r[Space("sram", v)] \/ fpu_busy_vm(v)

FpuWaits(v) == condition_busy("sram", v) \/ fpu_busy_vm(v)

\* pauses: the instruction may not start yet.
Pauses(i) ==
  CASE i.op = "fpu_exe"  -> FpuWaits(i.vm)
    [] i.op = "transfer" -> \/ Waits(i) \/ TaskBlocks(i) \/ FpuBlocks(i)
                            \/ ~safe_r[i.src][i.dst]
    [] i.op = "exec_vm"  -> Waits(i) \/ task_r
    [] OTHER             -> Waits(i)

\* outOfOrderOk: j may start before i.
OutOfOrderOk(i, j) ==
  /\ i.op = "transfer" /\ j.op = "transfer"
  /\ j.cond = {}
  /\ \/ i.vm # j.vm
     \/ \A b \in i.cond \cap Buses : b \notin {j.src, j.dst}

\* Mutant: the destination of the other engine is not looked at.
FreeSourceOnly(e, i) ==
  avail(e) /\ (avail(1 - e) \/ i.src # Using(1 - e).src)

\* An engine may take a transfer: the other one uses other buses, or is idle.
Free(e, i) ==
  /\ avail(e)
  /\ \/ avail(1 - e)
     \/ i.src # Using(1 - e).src /\ i.dst # Using(1 - e).dst

ready_which(i) == IF Free(0, i) THEN 0 ELSE 1
ready(i) == i.op # "transfer" \/ Free(0, i) \/ Free(1, i)

\* The slot that dp_fetch looks at: the current instruction unless it pauses
\* and the next one may go first.  While indication_full_r everything pauses.
Selects2 ==
  /\ ~(window.out1 /\ ~Pauses(window.slot1))
  /\ window.out2 /\ ~Pauses(window.slot2)
  /\ OutOfOrderOk(window.slot1, window.slot2)

Candidate == IF Selects2 THEN window.slot2
             ELSE IF window.out1 /\ ~Pauses(window.slot1) THEN window.slot1
             ELSE None

\* The instruction that starts in this clock.
Issue(indication_full) ==
  IF ~indication_full /\ Candidate # None /\ ready(Candidate)
  THEN Candidate ELSE None

Starts(i, op) == i # None /\ i.op = op

\* task2: the task is launched.  Mutant: without waiting for the reads.
task2Early == /\ task_r /\ ~sink_busy_r[Space("register", task_vm_r)]

task2 == /\ task_r
         /\ ~source_busy_r[Space("register", task_vm_r)]
         /\ ~sink_busy_r[Space("register", task_vm_r)]

-----------------------------------------------------------------------------
\* The registers that a clock changes.

\* Mutant: the sinks other than the destination are forgotten.
CommandIsSafeSink(s, d) == \A x \in Buses \ {s} : ~any_read_pending(d, x)

CommandIsSafe(s, d) == /\ \A x \in Buses \ {d} : ~any_read_pending(x, s)
                       /\ \A x \in Buses \ {s} : ~any_read_pending(d, x)

ReadsOf(sp, v) ==
  \/ \E d \in Buses \ {"ddr"} : read_pending(d, sp[1], v)
  \/ any_read_pending("ddr", sp[1])

SourceBusy(sp, issued) ==
  \/ Starts(issued, "transfer") /\ Space(issued.src, issued.vm) = sp
  \/ \E e \in Engines : ~avail(e) /\ Space(Using(e).src, Using(e).vm) = sp
  \/ \E v \in VMs : Space(sp[1], v) = sp /\ ReadsOf(sp, v)

\* The transfer in instruction_r goes to this space; its words are counted at
\* the end of this clock.
LatchedInto(sp) ==
  /\ instruction_r # None
  /\ Space(instruction_r.rec.dst, instruction_r.rec.vm) = sp

\* Mutant: the count is compared before it is updated.
CounterBusyLate(sp) == unwritten[sp] # 0

CounterBusy(sp) == LatchedInto(sp) \/ unwritten[sp] # 0

\* The flag of the space, kept up by the issue, the latched instruction and
\* the counter in turn.  For SRAM the process is not that of instruction_r but
\* that of orec; the clock after an issue offers no instruction, and orec is
\* what the current slot holds, which is another instruction if the next one
\* went first.
SinkBusy(sp, issued) ==
  \/ Starts(issued, "transfer") /\ Space(issued.dst, issued.vm) = sp
  \/ /\ instruction_r # None
     /\ sp = IF instruction_r.rec.dst = "sram"
             THEN Space("sram", window.slot1.vm)
             ELSE Space(instruction_r.rec.dst, instruction_r.rec.vm)
  \/ counter_busy_r[sp]
  \/ sp[1] = "ddr" /\ ddr_tx_busy

Written(sp, written) ==
  \E d \in written : Space(d, Head(sinkq[d]).vm) = sp

ClockFlags(issued, written) ==
  /\ safe_r' = [s \in Buses |-> [d \in Buses |-> CommandIsSafe(s, d)]]
  /\ source_busy_r' = [sp \in Spaces |-> SourceBusy(sp, issued)]
  /\ counter_busy_r' = [sp \in Spaces |-> CounterBusy(sp)]
  /\ sink_busy_r' = [sp \in Spaces |-> SinkBusy(sp, issued)]
  /\ unwritten' = [sp \in Spaces |->
         unwritten[sp]
           + (IF LatchedInto(sp) THEN instruction_r.rec.count ELSE 0)
           - (IF Written(sp, written) THEN 1 ELSE 0)]

ClockInstruction(issued) ==
  /\ instruction_r' = IF Starts(issued, "transfer")
                      THEN [which |-> ready_which(issued), rec |-> issued]
                      ELSE None
  /\ instruction_rr' = instruction_r

\* A process is busy from the clock of its launch, before the cores say so,
\* until its task has ended.
Busy(v, launch, ended) == \/ launch /\ task_vm_r = v
                          \/ task_busy[v] /\ v \notin ended

\* launch: the cores are ready; ended: the processes whose tasks have ended.
ClockTask(issued, launch, ended) ==
  /\ launch => task2
  /\ task_r' = IF task_r THEN ~launch ELSE Starts(issued, "exec_vm")
  /\ task_vm_r' = IF task_r THEN task_vm_r
                  ELSE IF Starts(issued, "exec_vm") THEN issued.vm ELSE 0
  /\ task_busy' = [v \in VMs |-> Busy(v, launch, ended)]

ClockFpu(issued, done) ==
  LET fpu_exe_v == [v \in VMs |-> Starts(issued, "fpu_exe") /\ issued.vm = v]
  IN  /\ fpu_exe_r' = fpu_exe_v
      /\ fpu_exe_rr' = fpu_exe_r
      /\ fpu_busy_vm_r' =
           [v \in VMs |-> fpu_exe_v[v] \/ fpu_exe_r[v] \/ fpu_exe_rr[v]]
      /\ fpu_idle_r' = [v \in VMs |-> fpu_busy_vm(v)]
      /\ fpu_busy_vm_in' =
           [v \in VMs |-> fpu_exe_r[v] \/ (fpu_busy_vm_in[v] /\ v \notin done)]

-----------------------------------------------------------------------------
\* The cores let no access of a process through while it runs a task.
PortOpen(b, v) == ~(b = "register" /\ task_busy[v])

Clock(in) ==
  LET issued == Issue(in.indication_full)
  IN  /\ \A e \in in.accepted \ in.eof :
             PortOpen(gen[e].rec.src, gen[e].rec.vm)
      /\ \A d \in in.written : PortOpen(d, Head(sinkq[d]).vm)
      /\ MoveClock(instruction_rr, in.accepted, in.eof, in.answered, in.written)
      /\ workload' = workload
      /\ fetched' = IF in.next = None THEN fetched ELSE fetched + 1
      /\ window' = ClockWindow(window, in.next = None, in.next,
                       issued # None /\ ~Selects2, issued # None /\ Selects2)
      /\ ClockInstruction(issued)
      /\ ClockFlags(issued, in.written)
      /\ ClockTask(issued, in.launch, in.ended)
      /\ ClockFpu(issued, in.fpu_done)
      /\ ddr_tx_busy' = ("ddr" \in in.written \/ (ddr_tx_busy /\ ~in.ddr_done))

\* What the rest of the chip does in a clock.
Inputs ==
  [next : IF Refills(window) /\ fetched < workload.length
          THEN workload.instr \cup (IF workload.stalls THEN {None} ELSE {})
          ELSE {None},
   indication_full : IF Candidate # None /\ workload.stalls
                     THEN BOOLEAN ELSE {FALSE},
   accepted : SUBSET Asking, eof : SUBSET Asking,
   answered : SUBSET {s \in Buses : reads[s] # <<>>},
   written : SUBSET {d \in Buses : CanWrite(d)},
   launch : IF task2 THEN BOOLEAN ELSE {FALSE},
   ended : SUBSET {v \in VMs : task_busy[v]},
   fpu_done : SUBSET {v \in VMs : fpu_busy_vm_in[v]},
   ddr_done : IF ddr_tx_busy THEN BOOLEAN ELSE {FALSE}]

Next == \E in \in Inputs : Clock(in)

\* The clock runs and the rest of the chip answers: a bus accepts a request,
\* returns a word and takes a word in finite time, the cores become ready and
\* end their tasks, the FPU and the DDR writer finish.
Fairness ==
  /\ WF_vars(Next)
  /\ \A e \in Engines : WF_vars(\E in \in Inputs : e \in in.accepted /\ Clock(in))
  /\ \A b \in Buses :
       /\ WF_vars(\E in \in Inputs : b \in in.answered /\ Clock(in))
       /\ WF_vars(\E in \in Inputs : b \in in.written /\ Clock(in))
  /\ WF_vars(\E in \in Inputs : in.launch /\ Clock(in))
  /\ \A v \in VMs :
       /\ WF_vars(\E in \in Inputs : v \in in.ended /\ Clock(in))
       /\ WF_vars(\E in \in Inputs : v \in in.fpu_done /\ Clock(in))
  /\ WF_vars(\E in \in Inputs : in.ddr_done /\ Clock(in))

Spec == Init /\ [][Next]_vars
FairSpec == Spec /\ Fairness

-----------------------------------------------------------------------------
\* A transfer of process v that touches bus b has started there and has not
\* finished: it is on the way to its engine, the engine is making requests,
\* a read is not answered, a word is not written.
InFlight(b, v) ==
  \/ \E x \in {instruction_r, instruction_rr} : x # None /\ Touches(x.rec, b, v)
  \/ \E e \in Engines : gen[e] # None /\ Touches(gen[e].rec, b, v)
  \/ \E k \in DOMAIN reads[b] : reads[b][k].vm = v
  \/ \E k \in DOMAIN sinkq[b] : sinkq[b][k].vm = v
  \/ b = "ddr" /\ ddr_tx_busy

TypeOK ==
  /\ {window.slot1, window.slot2} \subseteq Instr \cup {None}
  /\ \A e \in Engines :
        gen[e] # None => /\ gen[e].rec \in Instr
                         /\ gen[e].clocks < gen[e].rec.count + GenStages
  /\ \A d, s \in Buses, v \in VMs : pend[d][s][v] \in Nat
  /\ unwritten \in [Spaces -> Nat]
  /\ {source_busy_r, counter_busy_r, sink_busy_r} \subseteq [Spaces -> BOOLEAN]
  /\ task_r \in BOOLEAN /\ task_vm_r \in VMs
  /\ {task_busy, fpu_exe_r, fpu_exe_rr, fpu_busy_vm_r, fpu_idle_r, fpu_busy_vm_in}
        \subseteq [VMs -> BOOLEAN]

\* Whenever dp_fetch may launch a task, no transfer of that process to or from
\* the cores is under way, although the busy flags are clocks old.
TaskAlone == task2 => ~InFlight("register", task_vm_r)

\* An instruction with a flush condition starts only when the transfers it
\* waits for are over: those of its process, or of both if it is no transfer.
FlushHonoured ==
  LET i == Issue(FALSE)
  IN  i # None /\ i.op # "fpu_exe" =>
        \A b \in i.cond \cap Buses :
          \A v \in (IF i.op = "transfer" THEN {i.vm} ELSE VMs) : ~InFlight(b, v)

\* The FPU never works for a process while one of its transfers uses SRAM.
FpuAlone ==
  \A v \in VMs : fpu_exe_r[v] \/ fpu_busy_vm_in[v] => ~InFlight("sram", v)

\* The next answer of a bus is taken by the sink that asked for it and by no
\* other: answers carry no tag, so no two sinks may wait for the same bus.
AnswersReachTheirSink ==
  \A s \in Buses : reads[s] # <<>> =>
     /\ Claims(s) = {Head(reads[s]).dst}
     /\ pend[Head(reads[s]).dst][s][Head(reads[s]).vm] > 0

\* A sink pairs the words it gets with its requests by their order only: the
\* k-th word is the answer to the k-th request that waits for one.
WordsMeetTheirRequests ==
  \A d \in Buses : \A k \in DOMAIN sinkdata[d] : \E n \in DOMAIN sinkq[d] :
     /\ sinkq[d][n].data /\ k = Cardinality({m \in 1 .. n : sinkq[d][m].data})
     /\ sinkdata[d][k] = [src |-> sinkq[d][n].src, vm |-> sinkq[d][n].vm, dst |-> d]

\* The sinks have no full check of their own: what is under way when a sink
\* says full still fits.
SinksNeverOverflow == \A d \in Buses : Len(sinkq[d]) <= SinkDepth

\* A task that waits is launched: the transfers it waits for drain, and none
\* that would keep it waiting is let in.
TaskIsLaunched == task_r ~> ~task_r

\* No deadlock: an instruction on offer leads to one being started.
SomethingStarts == window.out1 ~> (window.rdreq1 \/ window.rdreq2)
=============================================================================
