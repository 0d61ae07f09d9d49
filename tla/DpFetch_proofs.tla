---------------------------- MODULE DpFetch_proofs ---------------------------
(***************************************************************************)
(* For every set of instructions and every size of the sinks: whatever the *)
(* clocks between a busy flag and what it stands for, the dispatcher never *)
(* starts a task, an FPU execution or a flushing instruction while a       *)
(* transfer it must wait for is under way, untagged answers find the sink  *)
(* that asked for them, and no sink overflows.                             *)
(***************************************************************************)
EXTENDS DpFetch, FiniteSetTheorems, SequenceTheorems, TLAPS

Transfers == {i \in Instr : i.op = "transfer"}

Cmds     == [which : Engines, rec : Transfers]
Gens     == [rec : Transfers, clocks : Nat]
Reads    == [dst : Buses, vm : VMs]
Requests == [src : Buses, vm : VMs, data : BOOLEAN]
Windows  == [slot1 : Instr \cup {None}, slot2 : Instr \cup {None},
             rdreq1 : BOOLEAN, rdreq2 : BOOLEAN, out1 : BOOLEAN, out2 : BOOLEAN]

Types ==
  /\ workload \in Workloads
  /\ window \in Windows
  /\ instruction_r \in Cmds \cup {None} /\ instruction_rr \in Cmds \cup {None}
  /\ gen \in [Engines -> Gens \cup {None}]
  /\ \A e \in Engines : gen[e] # None => gen[e].clocks < gen[e].rec.count + GenStages
  /\ pend \in [Buses -> [Buses -> [VMs -> Int]]]
  /\ unwritten \in [Spaces -> Int]
  /\ reads \in [Buses -> Seq(Reads)]
  /\ sinkq \in [Buses -> Seq(Requests)]
  /\ wr_full_r \in [Buses -> BOOLEAN] /\ gen_busy_dest_r \in [Buses -> BOOLEAN]
  /\ safe_r \in [Buses -> [Buses -> BOOLEAN]]
  /\ source_busy_r \in [Spaces -> BOOLEAN] /\ counter_busy_r \in [Spaces -> BOOLEAN]
  /\ sink_busy_r \in [Spaces -> BOOLEAN]
  /\ task_r \in BOOLEAN /\ task_vm_r \in VMs /\ task_busy \in [VMs -> BOOLEAN]
  /\ fpu_exe_r \in [VMs -> BOOLEAN] /\ fpu_exe_rr \in [VMs -> BOOLEAN]
  /\ fpu_busy_vm_r \in [VMs -> BOOLEAN] /\ fpu_idle_r \in [VMs -> BOOLEAN]
  /\ fpu_busy_vm_in \in [VMs -> BOOLEAN]
  /\ ddr_tx_busy \in BOOLEAN

-----------------------------------------------------------------------------
(* The parts of the inductive invariant. *)

\* The window's outputs are low while a request is registered.
WindowSound ==
  /\ window.out1 => Valid1(window) /\ ~window.rdreq1 /\ ~window.rdreq2
  /\ window.out2 => /\ Valid1(window) /\ Valid2(window)
                    /\ ~window.rdreq1 /\ ~window.rdreq2

\* The clock after an issue: the window still holds what was issued, or, if the
\* next instruction went first, the transfer it went before.
JustIssued ==
  instruction_r # None =>
    /\ ~window.out1 /\ ~window.out2
    /\ \/ window.rdreq1 /\ window.slot1 = instruction_r.rec
       \/ /\ window.rdreq2 /\ ~window.rdreq1
          /\ Valid1(window) /\ window.slot1.op = "transfer"

\* A transfer is in one place of its way to its engine.
InOnePlace ==
  \A e \in Engines :
    LET first  == instruction_r # None /\ instruction_r.which = e
        second == instruction_rr # None /\ instruction_rr.which = e
    IN  ~(first /\ second) /\ ~(first /\ gen[e] # None) /\ ~(second /\ gen[e] # None)

\* Two transfers that make requests have neither source nor destination in
\* common.
Apart ==
  Using(0) # None /\ Using(1) # None =>
    Using(0).src # Using(1).src /\ Using(0).dst # Using(1).dst

\* No read is pending from s to another sink, nor to d from another source.
Clear(s, d) == \A v \in VMs : /\ \A x \in Buses \ {d} : pend[x][s][v] = 0
                              /\ \A x \in Buses \ {s} : pend[d][x][v] = 0

SafeIsClear == \A s, d \in Buses : safe_r[s][d] => Clear(s, d)

UsedIsClear == \A e \in Engines : Using(e) # None => Clear(Using(e).src, Using(e).dst)

\* How many words of q are in S.
Num(q, S) == Cardinality({k \in 1 .. Len(q) : q[k] \in S})

\* The counters count the reads that are not answered, and these all go to the
\* same sink.
PendCounts ==
  \A d, s \in Buses, v \in VMs : pend[d][s][v] = Num(reads[s], {[dst |-> d, vm |-> v]})

OneSink ==
  \A s \in Buses : \A k, l \in 1 .. Len(reads[s]) : reads[s][k].dst = reads[s][l].dst

\* The words of a transfer that are still to be requested.
Into(rec, sp) == Space(rec.dst, rec.vm) = sp

LatchedWords(x, sp) == IF x # None /\ Into(x.rec, sp) THEN x.rec.count ELSE 0

GenWords(g, sp) ==
  IF g # None /\ Into(g.rec, sp)
  THEN g.rec.count + GenStages - (IF g.clocks >= GenStages THEN g.clocks ELSE GenStages)
  ELSE 0

QueuedWords(q, sp) == Num(q, {x \in Requests : Space(sp[1], x.vm) = sp})

\* The words that have left the counter's transfer register.
OnTheWay(sp) == GenWords(gen[0], sp) + GenWords(gen[1], sp) + QueuedWords(sinkq[sp[1]], sp)

UnwrittenCounts ==
  \A sp \in Spaces : unwritten[sp] = LatchedWords(instruction_rr, sp) + OnTheWay(sp)

\* What the busy flags cover, clocks late as they are.
SourceCovered ==
  /\ \A e \in Engines : Using(e) # None => source_busy_r[Space(Using(e).src, Using(e).vm)]
  /\ \A s \in Buses : \A k \in 1 .. Len(reads[s]) : source_busy_r[Space(s, reads[s][k].vm)]

CounterCovered == \A sp \in Spaces : unwritten[sp] # 0 => counter_busy_r[sp]

\* The clock in which the flag of SRAM is low for a transfer that went before
\* another one, because orec named that one's process.
Overtook(v) ==
  /\ instruction_rr # None /\ instruction_rr.rec.dst = "sram" /\ instruction_rr.rec.vm = v
  /\ Valid1(window) /\ window.slot1.op = "transfer" /\ window.slot1.vm # v

SinkCovered ==
  /\ instruction_r # None =>
       sink_busy_r[Space(instruction_r.rec.dst, instruction_r.rec.vm)]
  /\ instruction_rr # None =>
       \/ sink_busy_r[Space(instruction_rr.rec.dst, instruction_rr.rec.vm)]
       \/ Overtook(instruction_rr.rec.vm) /\ instruction_rr.rec.dst = "sram"
  /\ \A sp \in Spaces : OnTheWay(sp) # 0 => sink_busy_r[sp]
  /\ ddr_tx_busy => sink_busy_r[Space("ddr", 0)]

\* A sink that has not said full has room for what the two clocks of delay let
\* in.
SinkRoom ==
  \A d \in Buses :
    /\ ~wr_full_r[d] => Len(sinkq[d]) <= SinkDepth - SinkMargin
    /\ ~gen_busy_dest_r[d] => Len(sinkq[d]) <= SinkDepth - SinkMargin + 1
    /\ Len(sinkq[d]) <= SinkDepth - SinkMargin + 2

FpuFlagged == \A v \in VMs : fpu_exe_r[v] => fpu_busy_vm_r[v]

\* What a sink has of the words read, and is still to get.
Words == [src : Buses, vm : VMs, dst : Buses]

Tag(s, r) == [k \in 1 .. Len(r) |-> [src |-> s, vm |-> r[k].vm, dst |-> r[k].dst]]

Tagged(r, s, d) == IF r # <<>> /\ Head(r).dst = d THEN Tag(s, r) ELSE <<>>

Toward(s, d) == Tagged(reads[s], s, d)

\* The k-th word of c is the answer to the k-th request of q that waits for one.
Rank(q, n) == Cardinality({m \in 1 .. n : q[m].data})

Matches(q, c, d) ==
  /\ Rank(q, Len(q)) = Len(c)
  /\ \A k \in 1 .. Len(c) : \E n \in 1 .. Len(q) :
       /\ q[n].data /\ k = Rank(q, n)
       /\ c[k] = [src |-> q[n].src, vm |-> q[n].vm, dst |-> d]

\* The reads of one bus only are on their way to a sink, and with the words it
\* has they match its requests.
Paired ==
  /\ sinkdata \in [Buses -> Seq(Words)]
  /\ \A d \in Buses : \E s \in Buses :
       /\ \A t \in Buses \ {s} : Toward(t, d) = <<>>
       /\ Matches(sinkq[d], sinkdata[d] \o Toward(s, d), d)

Orderly == WindowSound /\ JustIssued /\ InOnePlace /\ Apart
Accounted == SafeIsClear /\ UsedIsClear /\ PendCounts /\ OneSink /\ UnwrittenCounts
Covered == SourceCovered /\ CounterCovered /\ SinkCovered
IInv == Types /\ Orderly /\ Accounted /\ Covered /\ SinkRoom /\ FpuFlagged /\ FpuAlone

-----------------------------------------------------------------------------
(* How many words of a sequence are in a set. *)

LEMMA NumBounds ==
  ASSUME NEW T, NEW q \in Seq(T), NEW S
  PROVE  /\ IsFiniteSet({k \in 1 .. Len(q) : q[k] \in S})
         /\ Num(q, S) \in Nat
         /\ Num(q, S) = 0 <=> \A k \in 1 .. Len(q) : q[k] \notin S
  <1> DEFINE P == {k \in 1 .. Len(q) : q[k] \in S}
  <1>0. Len(q) \in Nat BY LenProperties
  <1>1. IsFiniteSet(1 .. Len(q)) BY <1>0, FS_Interval
  <1>2. P \subseteq 1 .. Len(q) OBVIOUS
  <1>3. IsFiniteSet(P) BY <1>1, <1>2, FS_Subset
  <1>4. Cardinality(P) \in Nat BY <1>3, FS_CardinalityType
  <1>5. Cardinality(P) = 0 <=> P = {} BY <1>3, FS_EmptySet
  <1> QED BY <1>3, <1>4, <1>5 DEF Num

LEMMA NumAppend ==
  ASSUME NEW T, NEW q \in Seq(T), NEW x \in T, NEW S
  PROVE  Num(Append(q, x), S) = Num(q, S) + (IF x \in S THEN 1 ELSE 0)
  <1> DEFINE r == Append(q, x)
             P == {k \in 1 .. Len(q) : q[k] \in S}
             R == {k \in 1 .. Len(r) : r[k] \in S}
  <1>0. Len(q) \in Nat BY LenProperties
  <1>1. /\ r \in Seq(T) /\ Len(r) = Len(q) + 1 /\ r[Len(q) + 1] = x
        /\ \A k \in 1 .. Len(q) : r[k] = q[k]
    BY AppendProperties, <1>0
  <1>2. IsFiniteSet(P) /\ Cardinality(P) \in Nat BY NumBounds DEF Num
  <1>3. Len(q) + 1 \notin P BY <1>0
  <1> HIDE DEF r
  <1>4. CASE x \in S
    <2>1. R = P \cup {Len(q) + 1} BY <1>0, <1>1, <1>4
    <2>2. Cardinality(R) = Cardinality(P) + 1 BY <1>2, <1>3, <2>1, FS_AddElement
    <2> QED BY <1>4, <2>2 DEF Num, r
  <1>5. CASE x \notin S
    <2>1. R = P BY <1>0, <1>1, <1>5
    <2> HIDE DEF P, R
    <2>2. Cardinality(R) = Cardinality(P) + 0 BY <1>2, <2>1
    <2> QED BY <1>5, <2>2 DEF Num, r, P, R
  <1> QED BY <1>4, <1>5

LEMMA NumTail ==
  ASSUME NEW T, NEW q \in Seq(T), q # <<>>, NEW S
  PROVE  Num(q, S) = Num(Tail(q), S) + (IF Head(q) \in S THEN 1 ELSE 0)
  <1> DEFINE r == Tail(q)
             P == {k \in 1 .. Len(q) : q[k] \in S}
             R == {k \in 1 .. Len(r) : r[k] \in S}
             f == [l \in R |-> l + 1]
  <1>0. Len(q) \in Nat /\ Len(q) > 0 BY LenProperties, EmptySeq
  <1>1. /\ r \in Seq(T) /\ Len(r) = Len(q) - 1 /\ Head(q) = q[1]
        /\ \A k \in 1 .. Len(r) : r[k] = q[k + 1]
    BY HeadTailProperties, <1>0
  <1>2. IsFiniteSet(P) /\ Cardinality(P) \in Nat BY NumBounds DEF Num
  <1>3. IsFiniteSet(R) /\ Cardinality(R) \in Nat BY <1>1, NumBounds DEF Num
  <1> HIDE DEF r
  <1>4. f \in Bijection(R, P \ {1})
    <2>1. \A l \in R : l + 1 \in P \ {1} BY <1>0, <1>1
    <2>2. \A l \in P \ {1} : l - 1 \in R
      <3> SUFFICES ASSUME NEW l \in P \ {1} PROVE l - 1 \in R OBVIOUS
      <3>1. l - 1 \in 1 .. Len(r) /\ (l - 1) + 1 = l BY <1>0, <1>1
      <3>2. r[l - 1] = q[(l - 1) + 1] BY <1>1, <3>1
      <3> QED BY <3>1, <3>2
    <2>3. f \in [R -> P \ {1}] BY <2>1
    <2>4. \A a, b \in R : f[a] = f[b] => a = b BY <1>0, <1>1
    <2>5. \A l \in P \ {1} : f[l - 1] = l BY <2>2, <1>0
    <2>6. \A l \in P \ {1} : \E a \in R : f[a] = l BY <2>2, <2>5
    <2> HIDE DEF P, R, f
    <2> QED BY <2>3, <2>4, <2>6 DEF Bijection, Injection, Surjection, IsInjective
  <1>5. Cardinality(P \ {1}) = Cardinality(R)
    BY <1>2, <1>3, <1>4, FS_Bijection DEF ExistsBijection
  <1>6. Cardinality(P \ {1}) = IF 1 \in P THEN Cardinality(P) - 1 ELSE Cardinality(P)
    BY <1>2, FS_RemoveElement
  <1>7. 1 \in P <=> Head(q) \in S BY <1>0, <1>1
  <1> HIDE DEF P, R
  <1>8. Cardinality(P) = Cardinality(R) + (IF Head(q) \in S THEN 1 ELSE 0)
    BY <1>2, <1>3, <1>5, <1>6, <1>7
  <1> QED BY <1>8 DEF P, R, Num, r

-----------------------------------------------------------------------------
(* What the types say. *)

LEMMA InstrFacts ==
  ASSUME NEW i \in Instr
  PROVE  /\ i # None /\ i.vm \in VMs /\ i.src \in Buses /\ i.dst \in Buses
         /\ i.count \in Nat /\ i.count > 0
  <1>1. i \in InstrType /\ i # None BY WorkloadsAssumption
  <1> QED BY <1>1 DEF InstrType

LEMMA SpaceFacts ==
  ASSUME NEW b \in Buses, NEW v \in VMs
  PROVE  Space(b, v) \in Spaces /\ Space(b, v)[1] = b
  BY DEF Space, Spaces

LEMMA CmdFacts ==
  ASSUME NEW x \in Cmds
  PROVE  /\ x # None /\ x.which \in Engines
         /\ x.rec \in Instr /\ x.rec \in Transfers /\ x.rec.op = "transfer"
  <1>1. x \in [which : Engines, rec : Instr] BY DEF Cmds, Transfers
  <1> QED BY <1>1, WorkloadsAssumption DEF Cmds, Transfers

LEMMA GenNotNone ==
  ASSUME NEW g \in Gens
  PROVE  g # None
  <1>1. g \in [rec : Instr, clocks : Nat] BY DEF Gens, Transfers
  <1> QED BY <1>1, WorkloadsAssumption

LEMMA GenFacts ==
  ASSUME Types, NEW e \in Engines, gen[e] # None
  PROVE  /\ gen[e] \in Gens /\ gen[e].rec \in Instr /\ gen[e].clocks \in Nat
         /\ gen[e].rec \in Transfers /\ gen[e].rec.op = "transfer"
         /\ gen[e].clocks < gen[e].rec.count + GenStages
  BY DEF Types, Gens, Transfers

LEMMA InputFacts ==
  ASSUME Types, NEW in \in Inputs
  PROVE  /\ in.next \in Instr \cup {None}
         /\ in.accepted \subseteq Asking
         /\ in.answered \subseteq {s \in Buses : reads[s] # <<>>}
         /\ in.written \subseteq {d \in Buses : CanWrite(d)}
         /\ in.launch \in BOOLEAN
  <1>1. workload.instr \subseteq Instr BY DEF Types, Instr
  <1>2. in.next \in IF Refills(window) /\ fetched < workload.length
          THEN workload.instr \cup (IF workload.stalls THEN {None} ELSE {})
          ELSE {None}
    BY Zenon DEF Inputs
  <1>3. in.next \in Instr \cup {None} BY <1>1, <1>2
  <1>4. /\ in.accepted \in SUBSET Asking
        /\ in.answered \in SUBSET {s \in Buses : reads[s] # <<>>}
        /\ in.written \in SUBSET {d \in Buses : CanWrite(d)}
        /\ in.launch \in IF task2 THEN BOOLEAN ELSE {FALSE}
    BY Zenon DEF Inputs
  <1>5. in.launch \in BOOLEAN BY <1>4
  <1> QED BY <1>3, <1>4, <1>5

\* Why a transfer, a task or an FPU execution starts.
Starting(i) ==
  /\ i \in Instr /\ ~Pauses(i) /\ ready(i)
  /\ \/ ~Selects2 /\ window.out1 /\ i = window.slot1
     \/ /\ Selects2 /\ window.out2 /\ i = window.slot2
        /\ OutOfOrderOk(window.slot1, window.slot2)

LEMMA IssueFacts ==
  ASSUME Types, WindowSound, NEW full \in BOOLEAN, Issue(full) # None
  PROVE  Starting(Issue(full))
  <1> DEFINE i == Issue(full)
  <1>1. i = Candidate /\ Candidate # None /\ ready(Candidate) BY DEF Issue
  <1>2. window.slot1 \in Instr \cup {None} /\ window.slot2 \in Instr \cup {None}
    BY DEF Types, Windows
  <1>3. CASE Selects2
    <2>1. Candidate = window.slot2 BY <1>3 DEF Candidate
    <2>2. window.out2 /\ ~Pauses(window.slot2) /\ OutOfOrderOk(window.slot1, window.slot2)
      BY <1>3 DEF Selects2
    <2> HIDE DEF i
    <2> QED BY <1>1, <1>2, <1>3, <2>1, <2>2, Zenon DEF Starting, i
  <1>4. CASE ~Selects2
    <2>1. Candidate = window.slot1 /\ window.out1 /\ ~Pauses(window.slot1)
      BY <1>1, <1>4 DEF Candidate
    <2> HIDE DEF i
    <2> QED BY <1>1, <1>2, <1>4, <2>1, Zenon DEF Starting, i
  <1> QED BY <1>3, <1>4

-----------------------------------------------------------------------------
(* The types are kept. *)

LEMMA GenStep ==
  ASSUME Types, NEW in \in Inputs, Clock(in), NEW e \in Engines
  PROVE  /\ gen'[e] = IF instruction_rr # None /\ instruction_rr.which = e
                      THEN [rec |-> instruction_rr.rec, clocks |-> 0]
                      ELSE IF gen[e] = None \/ (gen_valid(e) /\ e \notin in.accepted)
                      THEN gen[e]
                      ELSE IF LastClock(gen[e]) THEN None
                      ELSE [gen[e] EXCEPT !.clocks = @ + 1]
  BY DEF Clock, MoveClock, ClockGen

LEMMA GenTypes ==
  ASSUME Types, NEW in \in Inputs, Clock(in)
  PROVE  /\ gen' \in [Engines -> Gens \cup {None}]
         /\ \A e \in Engines :
              gen'[e] # None => gen'[e].clocks < gen'[e].rec.count + GenStages
  <1>1. ASSUME NEW e \in Engines
        PROVE  /\ gen'[e] \in Gens \cup {None}
               /\ gen'[e] # None => gen'[e].clocks < gen'[e].rec.count + GenStages
    <2>1. CASE instruction_rr # None /\ instruction_rr.which = e
      <3>1. gen'[e] = [rec |-> instruction_rr.rec, clocks |-> 0] BY <2>1, GenStep
      <3>2. instruction_rr \in Cmds BY <2>1 DEF Types
      <3>3. instruction_rr.rec \in Instr /\ instruction_rr.rec \in Transfers
        BY <3>2, CmdFacts
      <3>4. instruction_rr.rec.count \in Nat /\ instruction_rr.rec.count > 0
        BY <3>3, InstrFacts
      <3> QED BY <3>1, <3>3, <3>4 DEF Gens, GenStages
    <2>2. CASE ~(instruction_rr # None /\ instruction_rr.which = e)
                 /\ (gen[e] = None \/ (gen_valid(e) /\ e \notin in.accepted))
      <3>1. gen'[e] = gen[e] BY <2>2, GenStep
      <3>2. gen[e] \in Gens \cup {None} BY DEF Types
      <3> QED BY <3>1, <3>2, GenFacts
    <2>3. CASE ~(instruction_rr # None /\ instruction_rr.which = e)
                 /\ ~(gen[e] = None \/ (gen_valid(e) /\ e \notin in.accepted))
      <3>1. gen'[e] = IF LastClock(gen[e]) THEN None
                      ELSE [gen[e] EXCEPT !.clocks = @ + 1]
        BY <2>3, GenStep
      <3>2. /\ gen[e] \in Gens /\ gen[e].rec \in Instr /\ gen[e].clocks \in Nat
            /\ gen[e].clocks < gen[e].rec.count + GenStages
        BY <2>3, GenFacts
      <3>3. gen[e].rec.count \in Nat BY <3>2, InstrFacts
      <3>4. CASE LastClock(gen[e]) BY <3>1, <3>4
      <3>5. CASE ~LastClock(gen[e])
        <4>1. gen'[e] = [gen[e] EXCEPT !.clocks = @ + 1] BY <3>1, <3>5
        <4>2. gen'[e] \in Gens /\ gen'[e].rec = gen[e].rec
              /\ gen'[e].clocks = gen[e].clocks + 1
          BY <4>1, <3>2 DEF Gens
        <4>3. gen[e].clocks + 1 < gen[e].rec.count + GenStages
          BY <3>2, <3>3, <3>5 DEF LastClock, GenStages
        <4> QED BY <4>2, <4>3
      <3> QED BY <3>4, <3>5
    <2> QED BY <2>1, <2>2, <2>3
  <1>2. gen' = [e \in Engines |-> gen'[e]] BY DEF Clock, MoveClock, ClockGen
  <1> QED BY <1>1, <1>2

LEMMA WindowTypes ==
  ASSUME Types, NEW in \in Inputs, Clock(in)
  PROVE  window' \in Windows /\ WindowSound'
  <1>1. PICK r1 \in BOOLEAN, r2 \in BOOLEAN :
          window' = ClockWindow(window, in.next = None, in.next, r1, r2)
    BY DEF Clock
  <1>2. in.next \in Instr \cup {None} BY InputFacts
  <1>3. window \in Windows BY DEF Types
  <1>4. window' \in Windows
    BY <1>1, <1>2, <1>3 DEF ClockWindow, Windows, Offers
  <1>5. /\ window'.out1 => window'.slot1 # None /\ ~window'.rdreq1 /\ ~window'.rdreq2
        /\ window'.out2 => /\ window'.slot1 # None /\ window'.slot2 # None
                           /\ ~window'.rdreq1 /\ ~window'.rdreq2
    BY <1>1 DEF ClockWindow, Offers
  <1> QED BY <1>4, <1>5 DEF WindowSound, Valid1, Valid2

LEMMA InstructionTypes ==
  ASSUME Types, WindowSound, NEW in \in Inputs, Clock(in)
  PROVE  instruction_r' \in Cmds \cup {None} /\ instruction_rr' \in Cmds \cup {None}
  <1> DEFINE i == Issue(in.indication_full)
  <1>0. in.indication_full \in BOOLEAN
    <2>1. in.indication_full \in IF Candidate # None /\ workload.stalls
                                 THEN BOOLEAN ELSE {FALSE}
      BY Zenon DEF Inputs
    <2> QED BY <2>1
  <1>1. instruction_r' = (IF Starts(i, "transfer")
                          THEN [which |-> ready_which(i), rec |-> i] ELSE None)
        /\ instruction_rr' = instruction_r
    BY Zenon DEF Clock, ClockInstruction
  <1>2. instruction_r \in Cmds \cup {None} BY DEF Types
  <1>3. i # None => i \in Instr
    <2>1. i # None => Starting(i) BY <1>0, IssueFacts, Zenon
    <2> QED BY <2>1 DEF Starting
  <1>4. ready_which(i) \in Engines BY DEF ready_which, Engines
  <1> HIDE DEF i
  <1> QED BY <1>1, <1>2, <1>3, <1>4 DEF Cmds, Starts, Transfers

\* The queues of a source and of a sink before a request is appended.
ReadsLeft(s, in) == IF s \in in.answered THEN Tail(reads[s]) ELSE reads[s]
QueueLeft(d, in) == IF d \in in.written THEN Tail(sinkq[d]) ELSE sinkq[d]

ReadOf(e) == [dst |-> gen[e].rec.dst, vm |-> gen[e].rec.vm]

LEMMA AcceptedFacts ==
  ASSUME Types, NEW in \in Inputs, NEW e \in in.accepted
  PROVE  /\ e \in Engines /\ gen_valid(e) /\ gen[e] # None
         /\ gen[e].clocks >= GenStages
         /\ ~gen_busy_dest_r[gen[e].rec.dst]
         /\ gen[e].rec \in Instr /\ gen[e].rec.op = "transfer"
         /\ gen[e].rec.src \in Buses /\ gen[e].rec.dst \in Buses /\ gen[e].rec.vm \in VMs
  <1>1. e \in Asking BY InputFacts
  <1>2. /\ e \in Engines /\ gen_valid(e) /\ ~gen_busy_dest_r[gen[e].rec.dst]
        /\ gen[e] # None /\ gen[e].clocks >= GenStages
    BY <1>1 DEF Asking, gen_valid
  <1>3. gen[e].rec \in Instr /\ gen[e].rec.op = "transfer" BY <1>2, GenFacts
  <1> QED BY <1>2, <1>3, InstrFacts

LEMMA ReadsLeftFacts ==
  ASSUME Types, NEW in \in Inputs, NEW s \in Buses
  PROVE  /\ ReadsLeft(s, in) \in Seq(Reads)
         /\ s \in in.answered => reads[s] # <<>> /\ Head(reads[s]) \in Reads
  <1>1. reads[s] \in Seq(Reads) BY DEF Types
  <1>2. s \in in.answered => reads[s] # <<>> BY InputFacts
  <1> QED BY <1>1, <1>2, HeadTailProperties DEF ReadsLeft

LEMMA ReadsStep ==
  ASSUME Types, NEW in \in Inputs, Clock(in), NEW s \in Buses
  PROVE  \/ /\ \A e \in in.accepted \ in.eof : gen[e].rec.src # s
            /\ reads'[s] = ReadsLeft(s, in)
         \/ \E e \in in.accepted \ in.eof :
              gen[e].rec.src = s /\ reads'[s] = Append(ReadsLeft(s, in), ReadOf(e))
  <1> DEFINE asked == {e \in in.accepted \ in.eof : gen[e].rec.src = s}
             rest  == ReadsLeft(s, in)
             c     == CHOOSE e \in asked : TRUE
  <1>1. reads' = [t \in Buses |->
              LET ask == {e \in in.accepted \ in.eof : gen[e].rec.src = t}
                  rst  == IF t \in in.answered THEN Tail(reads[t]) ELSE reads[t]
              IN  IF ask = {} THEN rst
                  ELSE LET r == gen[CHOOSE e \in ask : TRUE].rec
                       IN  Append(rst, [dst |-> r.dst, vm |-> r.vm])]
    BY Zenon DEF Clock, MoveClock, ClockSources
  <1>2. reads'[s] = IF asked = {} THEN rest ELSE Append(rest, ReadOf(c))
    BY <1>1 DEF ReadsLeft, ReadOf
  <1>3. asked # {} => c \in asked OBVIOUS
  <1> HIDE DEF c, rest
  <1> QED BY <1>2, <1>3 DEF rest

LEMMA ReadsTypes ==
  ASSUME Types, NEW in \in Inputs, Clock(in)
  PROVE  reads' \in [Buses -> Seq(Reads)]
  <1>1. ASSUME NEW s \in Buses PROVE reads'[s] \in Seq(Reads)
    <2>1. ReadsLeft(s, in) \in Seq(Reads) BY ReadsLeftFacts
    <2>2. \A e \in in.accepted : ReadOf(e) \in Reads BY AcceptedFacts DEF ReadOf, Reads
    <2> QED BY <2>1, <2>2, ReadsStep, AppendProperties
  <1>2. reads' = [s \in Buses |-> reads'[s]] BY DEF Clock, MoveClock, ClockSources
  <1> QED BY <1>1, <1>2

LEMMA QueueLeftFacts ==
  ASSUME Types, NEW in \in Inputs, NEW d \in Buses
  PROVE  /\ QueueLeft(d, in) \in Seq(Requests) /\ sinkq[d] \in Seq(Requests)
         /\ d \in in.written => sinkq[d] # <<>> /\ Head(sinkq[d]) \in Requests
  <1>1. sinkq[d] \in Seq(Requests) BY DEF Types
  <1>2. d \in in.written => sinkq[d] # <<>> BY InputFacts DEF CanWrite
  <1> QED BY <1>1, <1>2, HeadTailProperties DEF QueueLeft

LEMMA QueueStep ==
  ASSUME Types, NEW in \in Inputs, Clock(in), NEW d \in Buses
  PROVE  \/ /\ \A e \in in.accepted : gen[e].rec.dst # d
            /\ sinkq'[d] = QueueLeft(d, in)
         \/ \E e \in in.accepted :
              gen[e].rec.dst = d /\ sinkq'[d] = Append(QueueLeft(d, in), Entry(e, in.eof))
  <1> DEFINE asked == {e \in in.accepted : gen[e].rec.dst = d}
             rest  == QueueLeft(d, in)
             c     == CHOOSE e \in asked : TRUE
  <1>1. sinkq' = [t \in Buses |->
       LET ask == {e \in in.accepted : gen[e].rec.dst = t}
           rst  == IF t \in in.written THEN Tail(sinkq[t]) ELSE sinkq[t]
       IN  IF ask = {} THEN rst
           ELSE Append(rst, Entry(CHOOSE e \in ask : TRUE, in.eof))]
    BY Zenon DEF Clock, MoveClock, ClockSinks
  <1>2. sinkq'[d] = IF asked = {} THEN rest ELSE Append(rest, Entry(c, in.eof))
    BY <1>1 DEF QueueLeft
  <1>3. asked # {} => c \in asked OBVIOUS
  <1> HIDE DEF c, rest
  <1> QED BY <1>2, <1>3 DEF rest

LEMMA EntryType ==
  ASSUME Types, NEW in \in Inputs, NEW e \in in.accepted
  PROVE  Entry(e, in.eof) \in Requests /\ Entry(e, in.eof).vm = gen[e].rec.vm
  BY AcceptedFacts DEF Entry, Requests

LEMMA QueueTypes ==
  ASSUME Types, NEW in \in Inputs, Clock(in)
  PROVE  sinkq' \in [Buses -> Seq(Requests)]
  <1>1. ASSUME NEW d \in Buses PROVE sinkq'[d] \in Seq(Requests)
    <2>1. QueueLeft(d, in) \in Seq(Requests) BY QueueLeftFacts
    <2>2. \A e \in in.accepted : Entry(e, in.eof) \in Requests BY EntryType
    <2> QED BY <2>1, <2>2, QueueStep, AppendProperties
  <1>2. sinkq' = [d \in Buses |-> sinkq'[d]] BY DEF Clock, MoveClock, ClockSinks
  <1> QED BY <1>1, <1>2

LEMMA CardOfEngines ==
  ASSUME NEW S, S \subseteq Engines
  PROVE  Cardinality(S) \in Nat /\ IsFiniteSet(S)
  <1>1. IsFiniteSet(Engines) BY FS_Interval, FS_Subset DEF Engines
  <1>2. IsFiniteSet(S) BY <1>1, FS_Subset
  <1> QED BY <1>2, FS_CardinalityType

AskedOf(in, d, s, v) == {e \in in.accepted \ in.eof : /\ gen[e].rec.dst = d
                                                 /\ gen[e].rec.src = s
                                                 /\ gen[e].rec.vm = v}

Claimed(in, d, s, v) == s \in in.answered /\ d \in Claims(s) /\ Head(reads[s]).vm = v

LEMMA PendStep ==
  ASSUME Types, NEW in \in Inputs, Clock(in), NEW d \in Buses, NEW s \in Buses, NEW v \in VMs
  PROVE  /\ pend'[d][s][v] = pend[d][s][v] + Cardinality(AskedOf(in, d, s, v))
                               - (IF Claimed(in, d, s, v) THEN 1 ELSE 0)
         /\ pend[d][s][v] \in Int /\ Cardinality(AskedOf(in, d, s, v)) \in Nat
  <1>1. pend' = [x \in Buses |-> [t \in Buses |-> [w \in VMs |->
             pend[x][t][w] + Cardinality(AskedOf(in, x, t, w))
               - IF Claimed(in, x, t, w) THEN 1 ELSE 0]]]
    BY Zenon DEF Clock, MoveClock, ClockCounters, Counted, AskedOf, Claimed
  <1>2. AskedOf(in, d, s, v) \subseteq Engines BY AcceptedFacts DEF AskedOf
  <1>3. Cardinality(AskedOf(in, d, s, v)) \in Nat BY <1>2, CardOfEngines
  <1>4. pend[d][s][v] \in Int BY DEF Types
  <1> QED BY <1>1, <1>3, <1>4

LEMMA PendTypes ==
  ASSUME Types, NEW in \in Inputs, Clock(in)
  PROVE  pend' \in [Buses -> [Buses -> [VMs -> Int]]]
  <1>1. \A d, s \in Buses, v \in VMs : pend'[d][s][v] \in Int BY PendStep
  <1>2. pend' = [d \in Buses |-> [s \in Buses |-> [v \in VMs |-> pend'[d][s][v]]]]
    BY DEF Clock, MoveClock, ClockCounters
  <1> QED BY <1>1, <1>2

LEMMA UnwrittenStep ==
  ASSUME Types, NEW in \in Inputs, Clock(in), NEW sp \in Spaces
  PROVE  /\ unwritten'[sp] = unwritten[sp] + LatchedWords(instruction_r, sp)
                               - (IF Written(sp, in.written) THEN 1 ELSE 0)
         /\ unwritten[sp] \in Int /\ LatchedWords(instruction_r, sp) \in Nat
         /\ LatchedInto(sp) <=> LatchedWords(instruction_r, sp) # 0
  <1>1. unwritten'[sp] = unwritten[sp]
           + (IF LatchedInto(sp) THEN instruction_r.rec.count ELSE 0)
           - (IF Written(sp, in.written) THEN 1 ELSE 0)
    BY DEF Clock, ClockFlags
  <1>2. LatchedWords(instruction_r, sp) =
          IF LatchedInto(sp) THEN instruction_r.rec.count ELSE 0
    BY DEF LatchedWords, LatchedInto, Into
  <1>3. instruction_r # None =>
          instruction_r.rec.count \in Nat /\ instruction_r.rec.count > 0
    BY CmdFacts, InstrFacts DEF Types
  <1>4. unwritten[sp] \in Int BY DEF Types
  <1>5. LatchedInto(sp) => instruction_r # None BY DEF LatchedInto
  <1> QED BY <1>1, <1>2, <1>3, <1>4, <1>5

LEMMA FlagTypes ==
  ASSUME Types, NEW in \in Inputs, Clock(in)
  PROVE  /\ unwritten' \in [Spaces -> Int]
         /\ safe_r' \in [Buses -> [Buses -> BOOLEAN]]
         /\ source_busy_r' \in [Spaces -> BOOLEAN]
         /\ counter_busy_r' \in [Spaces -> BOOLEAN]
         /\ sink_busy_r' \in [Spaces -> BOOLEAN]
         /\ wr_full_r' \in [Buses -> BOOLEAN] /\ gen_busy_dest_r' \in [Buses -> BOOLEAN]
  <1> DEFINE i == Issue(in.indication_full)
  <1>1. \A sp \in Spaces : unwritten'[sp] \in Int BY UnwrittenStep
  <1>2. unwritten' = [sp \in Spaces |-> unwritten'[sp]] BY DEF Clock, ClockFlags
  <1>3. unwritten' \in [Spaces -> Int] BY <1>1, <1>2
  <1>4. \A s, d \in Buses : CommandIsSafe(s, d) \in BOOLEAN BY DEF CommandIsSafe
  <1>5. safe_r' = [s \in Buses |-> [d \in Buses |-> CommandIsSafe(s, d)]]
    BY Zenon DEF Clock, ClockFlags
  <1>6. safe_r' \in [Buses -> [Buses -> BOOLEAN]] BY <1>4, <1>5
  <1>7. source_busy_r' = [sp \in Spaces |-> SourceBusy(sp, i)]
        /\ counter_busy_r' = [sp \in Spaces |-> CounterBusy(sp)]
        /\ sink_busy_r' = [sp \in Spaces |-> SinkBusy(sp, i)]
    BY Zenon DEF Clock, ClockFlags
  <1> HIDE DEF i
  <1>8. \A sp \in Spaces : SourceBusy(sp, i) \in BOOLEAN /\ CounterBusy(sp) \in BOOLEAN
    BY DEF SourceBusy, CounterBusy
  <1>9. \A sp \in Spaces : SinkBusy(sp, i) \in BOOLEAN BY DEF SinkBusy
  <1>10. wr_full_r' = [d \in Buses |-> AlmostFull(sinkq[d])] /\ gen_busy_dest_r' = wr_full_r
    BY Zenon DEF Clock, MoveClock, ClockSinks
  <1>11. \A d \in Buses : AlmostFull(sinkq[d]) \in BOOLEAN BY DEF AlmostFull
  <1>12. gen_busy_dest_r' \in [Buses -> BOOLEAN] BY <1>10 DEF Types
  <1>13. source_busy_r' \in [Spaces -> BOOLEAN] BY <1>7, <1>8
  <1>14. counter_busy_r' \in [Spaces -> BOOLEAN] BY <1>7, <1>8
  <1>15. sink_busy_r' \in [Spaces -> BOOLEAN] BY <1>7, <1>9
  <1>16. wr_full_r' \in [Buses -> BOOLEAN] BY <1>10, <1>11
  <1> QED BY <1>3, <1>6, <1>12, <1>13, <1>14, <1>15, <1>16

LEMMA IssuedFacts ==
  ASSUME Types, WindowSound, NEW in \in Inputs, Issue(in.indication_full) # None
  PROVE  Starting(Issue(in.indication_full))
  <1>1. in.indication_full \in IF Candidate # None /\ workload.stalls
                               THEN BOOLEAN ELSE {FALSE}
    BY Zenon DEF Inputs
  <1>2. in.indication_full \in BOOLEAN BY <1>1
  <1> QED BY <1>2, IssueFacts, Zenon

LEMMA TaskTypes ==
  ASSUME Types, WindowSound, NEW in \in Inputs, Clock(in)
  PROVE  /\ task_r' \in BOOLEAN /\ task_vm_r' \in VMs /\ task_busy' \in [VMs -> BOOLEAN]
         /\ ddr_tx_busy' \in BOOLEAN
  <1> DEFINE i == Issue(in.indication_full)
  <1>1. /\ task_r' = IF task_r THEN ~in.launch ELSE Starts(i, "exec_vm")
        /\ task_vm_r' = IF task_r THEN task_vm_r
                        ELSE IF Starts(i, "exec_vm") THEN i.vm ELSE 0
        /\ task_busy' = [v \in VMs |-> Busy(v, in.launch, in.ended)]
        /\ ddr_tx_busy' = ("ddr" \in in.written \/ (ddr_tx_busy /\ ~in.ddr_done))
    BY Zenon DEF Clock, ClockTask
  <1>2. i # None => i.vm \in VMs BY IssuedFacts, InstrFacts DEF Starting
  <1> HIDE DEF i
  <1>3. Starts(i, "exec_vm") \in BOOLEAN /\ (Starts(i, "exec_vm") => i # None)
    BY DEF Starts
  <1>4. task_r' \in BOOLEAN BY <1>1, <1>3
  <1>5. task_vm_r' \in VMs BY <1>1, <1>2, <1>3 DEF Types, VMs
  <1>6. \A v \in VMs : Busy(v, in.launch, in.ended) \in BOOLEAN BY DEF Busy
  <1>7. task_busy' \in [VMs -> BOOLEAN] BY <1>1, <1>6
  <1> QED BY <1>1, <1>4, <1>5, <1>7

LEMMA FpuStep ==
  ASSUME NEW in \in Inputs, Clock(in)
  PROVE  /\ fpu_exe_r' = [v \in VMs |-> Starts(Issue(in.indication_full), "fpu_exe")
                                        /\ Issue(in.indication_full).vm = v]
         /\ fpu_exe_rr' = fpu_exe_r
         /\ fpu_busy_vm_r' =
              [v \in VMs |-> fpu_exe_r'[v] \/ fpu_exe_r[v] \/ fpu_exe_rr[v]]
         /\ fpu_idle_r' = [v \in VMs |-> fpu_busy_vm(v)]
         /\ fpu_busy_vm_in' =
              [v \in VMs |-> fpu_exe_r[v] \/ (fpu_busy_vm_in[v] /\ v \notin in.fpu_done)]
  BY Zenon DEF Clock, ClockFpu

LEMMA FpuTypes ==
  ASSUME Types, NEW in \in Inputs, Clock(in)
  PROVE  /\ fpu_exe_r' \in [VMs -> BOOLEAN] /\ fpu_exe_rr' \in [VMs -> BOOLEAN]
         /\ fpu_busy_vm_r' \in [VMs -> BOOLEAN] /\ fpu_idle_r' \in [VMs -> BOOLEAN]
         /\ fpu_busy_vm_in' \in [VMs -> BOOLEAN]
  <1>1. fpu_exe_rr' \in [VMs -> BOOLEAN] BY FpuStep DEF Types
  <1>2. \A v \in VMs : fpu_busy_vm(v) \in BOOLEAN BY DEF fpu_busy_vm
  <1>3. fpu_idle_r' \in [VMs -> BOOLEAN] BY <1>2, FpuStep
  <1>4. fpu_exe_r' \in [VMs -> BOOLEAN] BY FpuStep
  <1>5. fpu_busy_vm_r' \in [VMs -> BOOLEAN] BY FpuStep
  <1>6. fpu_busy_vm_in' \in [VMs -> BOOLEAN] BY FpuStep
  <1> QED BY <1>1, <1>3, <1>4, <1>5, <1>6

LEMMA TypesKept ==
  ASSUME Types, WindowSound, NEW in \in Inputs, Clock(in)
  PROVE  Types' /\ WindowSound'
  <1>1. workload' \in Workloads BY DEF Types, Clock
  <1>2. window' \in Windows /\ WindowSound' BY WindowTypes
  <1>3. instruction_r' \in Cmds \cup {None} /\ instruction_rr' \in Cmds \cup {None}
    BY InstructionTypes
  <1> QED BY <1>1, <1>2, <1>3, GenTypes, PendTypes, ReadsTypes, QueueTypes, FlagTypes,
             TaskTypes, FpuTypes, Zenon DEF Types

-----------------------------------------------------------------------------
(* Room in the sinks. *)

LEMMA QueueLength ==
  ASSUME Types, NEW in \in Inputs, Clock(in), NEW d \in Buses
  PROVE  /\ Len(sinkq[d]) \in Nat /\ Len(sinkq'[d]) \in Nat
         /\ Len(sinkq'[d]) <= Len(sinkq[d]) + 1
         /\ gen_busy_dest_r[d] => Len(sinkq'[d]) <= Len(sinkq[d])
  <1> DEFINE q == QueueLeft(d, in)
  <1>1. q \in Seq(Requests) /\ sinkq[d] \in Seq(Requests) BY QueueLeftFacts
  <1>2. Len(q) \in Nat /\ Len(sinkq[d]) \in Nat BY <1>1, LenProperties
  <1>3. Len(q) <= Len(sinkq[d])
    BY <1>1, <1>2, QueueLeftFacts, HeadTailProperties DEF QueueLeft
  <1>4. CASE sinkq'[d] = q BY <1>2, <1>3, <1>4
  <1>5. CASE sinkq'[d] # q
    <2>1. PICK e \in in.accepted :
            gen[e].rec.dst = d /\ sinkq'[d] = Append(q, Entry(e, in.eof))
      BY <1>5, QueueStep
    <2>2. ~gen_busy_dest_r[d] BY <2>1, AcceptedFacts
    <2>3. Entry(e, in.eof) \in Requests BY EntryType
    <2>4. Len(sinkq'[d]) = Len(q) + 1 BY <1>1, <2>1, <2>3, AppendProperties
    <2> QED BY <1>2, <1>3, <2>2, <2>4
  <1> QED BY <1>4, <1>5

LEMMA SinkRoomKept ==
  ASSUME Types, SinkRoom, NEW in \in Inputs, Clock(in)
  PROVE  SinkRoom'
  <1>1. ASSUME NEW d \in Buses
        PROVE  /\ ~wr_full_r'[d] => Len(sinkq'[d]) <= SinkDepth - SinkMargin
               /\ ~gen_busy_dest_r'[d] => Len(sinkq'[d]) <= SinkDepth - SinkMargin + 1
               /\ Len(sinkq'[d]) <= SinkDepth - SinkMargin + 2
    <2>1. wr_full_r'[d] = AlmostFull(sinkq[d]) /\ gen_busy_dest_r' = wr_full_r
      BY DEF Clock, MoveClock, ClockSinks
    <2>2. /\ Len(sinkq[d]) \in Nat /\ Len(sinkq'[d]) \in Nat
          /\ Len(sinkq'[d]) <= Len(sinkq[d]) + 1
          /\ gen_busy_dest_r[d] => Len(sinkq'[d]) <= Len(sinkq[d])
      BY QueueLength
    <2>3. /\ ~wr_full_r[d] => Len(sinkq[d]) <= SinkDepth - SinkMargin
          /\ ~gen_busy_dest_r[d] => Len(sinkq[d]) <= SinkDepth - SinkMargin + 1
          /\ Len(sinkq[d]) <= SinkDepth - SinkMargin + 2
      BY DEF SinkRoom
    <2>4. SinkDepth \in Nat /\ SinkMargin \in Nat BY DpMoveAssumption
    <2>0. ~wr_full_r'[d] => ~(SinkDepth - Len(sinkq[d]) <= SinkMargin)
      BY <2>1, Zenon DEF AlmostFull
    <2>5. ~wr_full_r'[d] => Len(sinkq[d]) < SinkDepth - SinkMargin
      BY <2>0, <2>2, <2>4
    <2> QED BY <2>1, <2>2, <2>3, <2>4, <2>5
  <1> QED BY <1>1 DEF SinkRoom

-----------------------------------------------------------------------------
(* The way of a transfer from the window to its engine. *)

LEMMA WindowStep ==
  ASSUME Types, NEW in \in Inputs, Clock(in), Valid1(window), ~window.rdreq1
  PROVE  window'.slot1 = window.slot1
  BY DEF Clock, ClockWindow, Moves, Valid1

LEMMA InstructionStep ==
  ASSUME Types, WindowSound, NEW in \in Inputs, Clock(in)
  PROVE  /\ instruction_rr' = instruction_r
         /\ instruction_r' # None =>
              \E i \in Instr :
                /\ i = Issue(in.indication_full) /\ i.op = "transfer" /\ Starting(i)
                /\ instruction_r' = [which |-> ready_which(i), rec |-> i]
         /\ instruction_r' = None => ~Starts(Issue(in.indication_full), "transfer")
  <1> DEFINE i == Issue(in.indication_full)
  <1>1. instruction_r' = (IF Starts(i, "transfer")
                          THEN [which |-> ready_which(i), rec |-> i] ELSE None)
        /\ instruction_rr' = instruction_r
    BY Zenon DEF Clock, ClockInstruction
  <1>2. i # None => Starting(i) BY IssuedFacts, Zenon
  <1>3. Starts(i, "transfer") <=> i # None /\ i.op = "transfer" BY DEF Starts
  <1>4. Starting(i) => i \in Instr BY DEF Starting
  <1>5. ready_which(i) \in Engines BY DEF ready_which, Engines
  <1> HIDE DEF i
  <1>6. i \in Transfers => [which |-> ready_which(i), rec |-> i] \in Cmds BY <1>5 DEF Cmds
  <1>7. i \in Instr /\ i.op = "transfer" => [which |-> ready_which(i), rec |-> i] # None
    BY <1>6, CmdFacts DEF Transfers
  <1>8. instruction_r' # None => Starts(i, "transfer") BY <1>1
  <1>9. instruction_r' = None => ~Starts(i, "transfer") BY <1>1, <1>2, <1>3, <1>4, <1>7
  <1>10. instruction_r' # None =>
           i \in Instr /\ i.op = "transfer" /\ Starting(i)
             /\ instruction_r' = [which |-> ready_which(i), rec |-> i]
    BY <1>1, <1>2, <1>3, <1>4, <1>8
  <1> QED BY <1>1, <1>9, <1>10 DEF i

LEMMA StartingIsFree ==
  ASSUME NEW i \in Instr, Starting(i), i.op = "transfer"
  PROVE  ready_which(i) \in Engines /\ Free(ready_which(i), i)
  <1>1. Free(0, i) \/ Free(1, i) BY DEF Starting, ready
  <1> QED BY <1>1 DEF ready_which, Engines

LEMMA JustIssuedKept ==
  ASSUME Types, WindowSound, NEW in \in Inputs, Clock(in)
  PROVE  JustIssued'
  <1> SUFFICES ASSUME instruction_r' # None
               PROVE  /\ ~window'.out1 /\ ~window'.out2
                      /\ \/ window'.rdreq1 /\ window'.slot1 = instruction_r'.rec
                         \/ /\ window'.rdreq2 /\ ~window'.rdreq1
                            /\ window'.slot1 # None /\ window'.slot1.op = "transfer"
    BY DEF JustIssued, Valid1
  <1>1. PICK i \in Instr : /\ i = Issue(in.indication_full) /\ Starting(i)
                           /\ instruction_r' = [which |-> ready_which(i), rec |-> i]
    BY InstructionStep
  <1>2. i # None /\ instruction_r'.rec = i BY <1>1, InstrFacts
  <1>3. window' = ClockWindow(window, in.next = None, in.next,
                              i # None /\ ~Selects2, i # None /\ Selects2)
    BY <1>1, Zenon DEF Clock
  <1>4. Selects2 \in BOOLEAN BY DEF Selects2
  <1>5. /\ window'.rdreq1 = ~Selects2 /\ window'.rdreq2 = Selects2
        /\ window'.out1 = FALSE /\ window'.out2 = FALSE
    BY <1>2, <1>3, <1>4 DEF ClockWindow, Offers
  <1>6. Valid1(window) /\ ~window.rdreq1 BY <1>1 DEF Starting, WindowSound
  <1>7. window'.slot1 = window.slot1 BY <1>6, WindowStep
  <1>8. CASE Selects2
    <2>1. window.slot1.op = "transfer" BY <1>1, <1>8 DEF Starting, OutOfOrderOk
    <2> QED BY <1>5, <1>6, <1>7, <1>8, <2>1 DEF Valid1
  <1>9. CASE ~Selects2
    <2>1. i = window.slot1 BY <1>1, <1>9 DEF Starting
    <2> QED BY <1>2, <1>5, <1>7, <1>9, <2>1
  <1> QED BY <1>8, <1>9

First(e)  == instruction_r # None /\ instruction_r.which = e
Second(e) == instruction_rr # None /\ instruction_rr.which = e

LEMMA UsingFacts ==
  ASSUME Types, NEW e \in Engines
  PROVE  /\ First(e) => Using(e) = instruction_r.rec /\ Using(e) \in Instr
         /\ ~First(e) /\ Second(e) => Using(e) = instruction_rr.rec /\ Using(e) \in Instr
         /\ ~First(e) /\ ~Second(e) /\ gen[e] # None =>
              Using(e) = gen[e].rec /\ Using(e) \in Instr
         /\ ~First(e) /\ ~Second(e) /\ gen[e] = None => Using(e) = None
  <1>1. First(e) => instruction_r.rec \in Instr BY CmdFacts DEF Types, First
  <1>2. Second(e) => instruction_rr.rec \in Instr BY CmdFacts DEF Types, Second
  <1>3. gen[e] # None => gen[e].rec \in Instr BY GenFacts
  <1> QED BY <1>1, <1>2, <1>3 DEF Using, First, Second, gen_ready

LEMMA UsingType ==
  ASSUME Types, NEW e \in Engines
  PROVE  /\ Using(e) \in Instr \cup {None}
         /\ avail(e) => ~First(e) /\ ~Second(e) /\ gen[e] = None
  <1>1. Using(e) \in Instr => Using(e) # None BY InstrFacts
  <1> QED BY <1>1, UsingFacts DEF avail

LEMMA OnePlace ==
  ASSUME InOnePlace, NEW e \in Engines
  PROVE  /\ ~(First(e) /\ Second(e)) /\ ~(First(e) /\ gen[e] # None)
         /\ ~(Second(e) /\ gen[e] # None)
  BY DEF InOnePlace, First, Second

LEMMA GenIsUsing ==
  ASSUME Types, InOnePlace, NEW e \in Engines, gen[e] # None
  PROVE  Using(e) = gen[e].rec /\ Using(e) # None /\ ~avail(e)
  <1>1. ~First(e) /\ ~Second(e) BY OnePlace
  <1>2. Using(e) = gen[e].rec /\ Using(e) \in Instr BY <1>1, UsingFacts
  <1> QED BY <1>2, InstrFacts DEF avail

\* What becomes of each place in a clock.
LEMMA PlacesStep ==
  ASSUME Types, WindowSound, InOnePlace, NEW in \in Inputs, Clock(in), NEW e \in Engines
  PROVE  /\ First(e)' => avail(e)
         /\ Second(e)' <=> First(e)
         /\ Second(e) => gen'[e] # None /\ gen'[e].rec = instruction_rr.rec
         /\ ~Second(e) /\ gen[e] = None => gen'[e] = None
         /\ ~Second(e) /\ gen'[e] # None => gen[e] # None /\ gen'[e].rec = gen[e].rec
  <1>1. First(e)' => avail(e)
    <2> SUFFICES ASSUME First(e)' PROVE avail(e) OBVIOUS
    <2>1. instruction_r' # None /\ instruction_r'.which = e BY DEF First
    <2>2. PICK i \in Instr : /\ i.op = "transfer" /\ Starting(i)
                             /\ instruction_r' = [which |-> ready_which(i), rec |-> i]
      BY <2>1, InstructionStep
    <2>3. Free(e, i) BY <2>1, <2>2, StartingIsFree
    <2> QED BY <2>3 DEF Free
  <1>2. Second(e)' <=> First(e) BY InstructionStep DEF First, Second
  <1>3. Second(e) => gen'[e] = [rec |-> instruction_rr.rec, clocks |-> 0]
    BY GenStep DEF Second
  <1>4. Second(e) => gen'[e] \in Gens
    <2>1. Second(e) => instruction_rr.rec \in Transfers BY CmdFacts DEF Types, Second
    <2> QED BY <1>3, <2>1 DEF Gens
  <1>5. Second(e) => gen'[e] # None /\ gen'[e].rec = instruction_rr.rec
    BY <1>3, <1>4, GenNotNone
  <1>6. ~Second(e) /\ gen[e] = None => gen'[e] = None BY GenStep DEF Second
  <1>7. ~Second(e) /\ gen'[e] # None => gen[e] # None /\ gen'[e].rec = gen[e].rec
    <2> SUFFICES ASSUME ~Second(e), gen'[e] # None, gen[e] # None
                 PROVE  gen'[e].rec = gen[e].rec
      BY <1>6
    <2>1. gen'[e] = gen[e] \/ gen'[e] = [gen[e] EXCEPT !.clocks = @ + 1]
      BY GenStep DEF Second
    <2>2. gen[e] \in Gens BY GenFacts
    <2> QED BY <2>1, <2>2 DEF Gens
  <1> QED BY <1>1, <1>2, <1>5, <1>6, <1>7

LEMMA InOnePlaceKept ==
  ASSUME Types, WindowSound, InOnePlace, NEW in \in Inputs, Clock(in)
  PROVE  InOnePlace'
  <1>1. ASSUME NEW e \in Engines
        PROVE  /\ ~(First(e)' /\ Second(e)') /\ ~(First(e)' /\ gen'[e] # None)
               /\ ~(Second(e)' /\ gen'[e] # None)
    BY PlacesStep, OnePlace, UsingType
  <1> QED BY <1>1 DEF InOnePlace, First, Second

\* An engine keeps its transfer, ends it, or is given the one that starts.
LEMMA UsingStep ==
  ASSUME Types, WindowSound, InOnePlace, NEW in \in Inputs, Clock(in), NEW e \in Engines
  PROVE  \/ Using(e)' = Using(e)
         \/ Using(e)' = None
         \/ \E i \in Instr : /\ i = Issue(in.indication_full) /\ i.op = "transfer"
                             /\ Starting(i) /\ e = ready_which(i) /\ Using(e)' = i
                             /\ Using(e) = None
  <1>0. Types' BY TypesKept
  <1>a. /\ First(e)' => Using(e)' = instruction_r'.rec
        /\ ~First(e)' /\ Second(e)' => Using(e)' = instruction_rr'.rec
        /\ ~First(e)' /\ ~Second(e)' /\ gen'[e] # None => Using(e)' = gen'[e].rec
        /\ ~First(e)' /\ ~Second(e)' /\ gen'[e] = None => Using(e)' = None
    BY Zenon DEF Using, First, Second, gen_ready
  <1>1. CASE First(e)'
    <2>1. instruction_r' # None /\ instruction_r'.which = e BY <1>1 DEF First
    <2>2. PICK i \in Instr : /\ i = Issue(in.indication_full)
                             /\ i.op = "transfer" /\ Starting(i)
                             /\ instruction_r' = [which |-> ready_which(i), rec |-> i]
      BY <2>1, InstructionStep
    <2>3. Using(e) = None BY <1>1, PlacesStep DEF avail
    <2>4. e = ready_which(i) /\ Using(e)' = i BY <1>1, <1>a, <2>1, <2>2
    <2> QED BY <2>2, <2>3, <2>4
  <1>2. CASE ~First(e)' /\ Second(e)'
    <2>1. First(e) BY <1>2, PlacesStep
    <2>2. Using(e)' = instruction_r.rec BY <1>2, <1>a, InstructionStep
    <2> QED BY <2>1, <2>2, UsingFacts
  <1>3. CASE ~First(e)' /\ ~Second(e)' /\ gen'[e] # None
    <2>1. ~First(e) BY <1>3, PlacesStep
    <2>2. CASE Second(e) BY <1>3, <1>a, <2>1, <2>2, PlacesStep, UsingFacts
    <2>3. CASE ~Second(e) BY <1>3, <1>a, <2>1, <2>3, PlacesStep, UsingFacts
    <2> QED BY <2>2, <2>3
  <1> QED BY <1>1, <1>2, <1>3, <1>a

LEMMA ApartKept ==
  ASSUME Types, WindowSound, InOnePlace, Apart, NEW in \in Inputs, Clock(in)
  PROVE  Apart'
  <1> SUFFICES ASSUME Using(0)' # None, Using(1)' # None
               PROVE  Using(0)'.src # Using(1)'.src /\ Using(0)'.dst # Using(1)'.dst
    BY Zenon DEF Apart
  <1>0. 0 \in Engines /\ 1 \in Engines BY DEF Engines
  <1>1. CASE Using(0)' = Using(0) /\ Using(1)' = Using(1) BY <1>1 DEF Apart
  <1>2. CASE Using(0)' # Using(0)
    <2>1. PICK i \in Instr : /\ i = Issue(in.indication_full) /\ i.op = "transfer"
                             /\ Starting(i) /\ 0 = ready_which(i) /\ Using(0)' = i
      BY <1>0, <1>2, UsingStep
    <2>2. Using(1)' = Using(1) BY <1>0, <2>1, UsingStep
    <2>3. Free(0, i) BY <2>1, StartingIsFree
    <2>4. i.src # Using(1).src /\ i.dst # Using(1).dst BY <2>2, <2>3 DEF Free, avail
    <2> QED BY <2>1, <2>2, <2>4
  <1>3. CASE Using(1)' # Using(1)
    <2>1. PICK i \in Instr : /\ i = Issue(in.indication_full) /\ i.op = "transfer"
                             /\ Starting(i) /\ 1 = ready_which(i) /\ Using(1)' = i
      BY <1>0, <1>3, UsingStep
    <2>2. Using(0)' = Using(0) BY <1>0, <2>1, UsingStep
    <2>3. Free(1, i) BY <2>1, StartingIsFree
    <2>4. i.src # Using(0).src /\ i.dst # Using(0).dst BY <2>2, <2>3 DEF Free, avail
    <2> QED BY <2>1, <2>2, <2>4
  <1> QED BY <1>1, <1>2, <1>3

-----------------------------------------------------------------------------
(* The reads that are not answered. *)

LEMMA StaysZero ==
  ASSUME Types, NEW in \in Inputs, Clock(in), NEW d \in Buses, NEW s \in Buses,
         \A v \in VMs : pend[d][s][v] = 0,
         \A e \in in.accepted : ~(gen[e].rec.src = s /\ gen[e].rec.dst = d)
  PROVE  \A v \in VMs : pend'[d][s][v] = 0
  <1> SUFFICES ASSUME NEW v \in VMs PROVE pend'[d][s][v] = 0 OBVIOUS
  <1>1. AskedOf(in, d, s, v) = {} BY DEF AskedOf
  <1>2. Cardinality(AskedOf(in, d, s, v)) = 0 BY <1>1, FS_EmptySet
  <1>3. ~Claimed(in, d, s, v) BY DEF Claimed, Claims
  <1> QED BY <1>2, <1>3, PendStep

LEMMA NotPending ==
  ASSUME Types, NEW in \in Inputs, NEW d \in Buses, NEW s \in Buses, ~any_read_pending(d, s)
  PROVE  /\ \A v \in VMs : pend[d][s][v] = 0
         /\ \A e \in in.accepted : ~(gen[e].rec.src = s /\ gen[e].rec.dst = d)
  <1>1. \A v \in VMs : pend[d][s][v] = 0 /\ ~wr_req_pending(d, s, v)
    BY DEF any_read_pending, read_pending
  <1>2. ASSUME NEW e \in in.accepted, gen[e].rec.src = s, gen[e].rec.dst = d
        PROVE  FALSE
    <2>1. e \in Engines /\ gen_valid(e) /\ gen[e].rec.vm \in VMs BY AcceptedFacts
    <2>2. wr_req_pending(d, s, gen[e].rec.vm) BY <1>2, <2>1 DEF wr_req_pending
    <2> QED BY <1>1, <2>1, <2>2
  <1> QED BY <1>1, <1>2

LEMMA SafeIsClearKept ==
  ASSUME Types, NEW in \in Inputs, Clock(in)
  PROVE  SafeIsClear'
  <1>1. ASSUME NEW s \in Buses, NEW d \in Buses, safe_r'[s][d]
        PROVE  Clear(s, d)'
    <2>1. safe_r' = [t \in Buses |-> [x \in Buses |-> CommandIsSafe(t, x)]]
      BY Zenon DEF Clock, ClockFlags
    <2>2. CommandIsSafe(s, d) BY <1>1, <2>1
    <2>3. ASSUME NEW x \in Buses \ {d} PROVE \A v \in VMs : pend'[x][s][v] = 0
      <3>1. ~any_read_pending(x, s) BY <2>2 DEF CommandIsSafe
      <3> QED BY <3>1, NotPending, StaysZero
    <2>4. ASSUME NEW x \in Buses \ {s} PROVE \A v \in VMs : pend'[d][x][v] = 0
      <3>1. ~any_read_pending(d, x) BY <2>2 DEF CommandIsSafe
      <3> QED BY <3>1, NotPending, StaysZero
    <2> QED BY <2>3, <2>4 DEF Clear
  <1> QED BY <1>1 DEF SafeIsClear

\* Buses s and d stay clear of others when every accepted request that has
\* either of them has both.
LEMMA ClearKept ==
  ASSUME Types, NEW in \in Inputs, Clock(in), NEW s \in Buses, NEW d \in Buses, Clear(s, d),
         \A e \in in.accepted : gen[e].rec.src = s <=> gen[e].rec.dst = d
  PROVE  \A v \in VMs : /\ \A x \in Buses \ {d} : pend'[x][s][v] = 0
                       /\ \A x \in Buses \ {s} : pend'[d][x][v] = 0
  <1>1. ASSUME NEW x \in Buses \ {d} PROVE \A v \in VMs : pend'[x][s][v] = 0
    <2>1. \A v \in VMs : pend[x][s][v] = 0 BY DEF Clear
    <2> QED BY <2>1, StaysZero
  <1>2. ASSUME NEW x \in Buses \ {s} PROVE \A v \in VMs : pend'[d][x][v] = 0
    <2>1. \A v \in VMs : pend[d][x][v] = 0 BY DEF Clear
    <2> QED BY <2>1, StaysZero
  <1> QED BY <1>1, <1>2

LEMMA OtherEngine ==
  ASSUME NEW e \in Engines, NEW f \in Engines, e # f
  PROVE  f = 1 - e
  BY DEF Engines

LEMMA ApartFacts ==
  ASSUME Apart, NEW e \in Engines, NEW f \in Engines, e # f,
         Using(e) # None, Using(f) # None
  PROVE  Using(e).src # Using(f).src /\ Using(e).dst # Using(f).dst
  BY DEF Apart, Engines

LEMMA UsedIsClearKept ==
  ASSUME Types, WindowSound, InOnePlace, Apart, SafeIsClear, UsedIsClear,
         NEW in \in Inputs, Clock(in)
  PROVE  UsedIsClear'
  <1>1. ASSUME NEW e \in Engines, Using(e)' # None
        PROVE  Clear(Using(e).src, Using(e).dst)'
    <2>0. \A f \in in.accepted : f \in Engines /\ Using(f) = gen[f].rec /\ Using(f) # None
      BY AcceptedFacts, GenIsUsing
    <2>1. CASE Using(e)' = Using(e)
      <3> DEFINE s == Using(e).src
                 d == Using(e).dst
      <3>1. Using(e) # None /\ Using(e) \in Instr BY <1>1, <2>1, UsingType
      <3>2. s \in Buses /\ d \in Buses BY <3>1, InstrFacts
      <3>3. Clear(s, d) BY <3>1 DEF UsedIsClear
      <3>4. \A f \in in.accepted : gen[f].rec.src = s <=> gen[f].rec.dst = d
        BY <2>0, <3>1, ApartFacts
      <3>5. Using(e)'.src = s /\ Using(e)'.dst = d BY <2>1
      <3> HIDE DEF s, d
      <3>7. \A v \in VMs : /\ \A x \in Buses \ {d} : pend'[x][s][v] = 0
                           /\ \A x \in Buses \ {s} : pend'[d][x][v] = 0
        BY <3>2, <3>3, <3>4, ClearKept
      <3> QED BY <3>5, <3>7 DEF Clear
    <2>2. CASE Using(e)' # Using(e)
      <3>1. PICK i \in Instr : /\ i.op = "transfer" /\ Starting(i)
                               /\ e = ready_which(i) /\ Using(e)' = i /\ Using(e) = None
        BY <1>1, <2>2, UsingStep
      <3>2. i.src \in Buses /\ i.dst \in Buses BY InstrFacts
      <3>3. safe_r[i.src][i.dst] BY <3>1 DEF Starting, Pauses
      <3>4. Clear(i.src, i.dst) BY <3>2, <3>3 DEF SafeIsClear
      <3>5. Free(e, i) BY <3>1, StartingIsFree
      <3>6. ASSUME NEW f \in in.accepted
            PROVE  gen[f].rec.src # i.src /\ gen[f].rec.dst # i.dst
        <4>1. f # e BY <2>0, <3>1
        <4>2. f = 1 - e BY <2>0, <4>1, OtherEngine
        <4>3. ~avail(f) BY <2>0 DEF avail
        <4> QED BY <2>0, <3>5, <4>2, <4>3 DEF Free
      <3>7. \A v \in VMs : /\ \A x \in Buses \ {i.dst} : pend'[x][i.src][v] = 0
                           /\ \A x \in Buses \ {i.src} : pend'[i.dst][x][v] = 0
        BY <3>2, <3>4, <3>6, ClearKept
      <3> QED BY <3>1, <3>7 DEF Clear
    <2> QED BY <2>1, <2>2
  <1> QED BY <1>1 DEF UsedIsClear

LEMMA PendFacts ==
  ASSUME Types, PendCounts, NEW d \in Buses, NEW s \in Buses, NEW v \in VMs
  PROVE  /\ pend[d][s][v] \in Nat
         /\ pend[d][s][v] = 0 <=>
              \A k \in 1 .. Len(reads[s]) : reads[s][k] # [dst |-> d, vm |-> v]
  <1>1. reads[s] \in Seq(Reads) BY DEF Types
  <1>2. pend[d][s][v] = Num(reads[s], {[dst |-> d, vm |-> v]}) BY DEF PendCounts
  <1> DEFINE S == {[dst |-> d, vm |-> v]}
  <1>3. \A x : x \in S <=> x = [dst |-> d, vm |-> v] OBVIOUS
  <1> HIDE DEF S
  <1>4. /\ Num(reads[s], S) \in Nat
        /\ Num(reads[s], S) = 0 <=> \A k \in 1 .. Len(reads[s]) : reads[s][k] \notin S
    BY <1>1, NumBounds
  <1>5. pend[d][s][v] = Num(reads[s], S) BY <1>2 DEF S
  <1> QED BY <1>3, <1>4, <1>5

LEMMA ReadIsPending ==
  ASSUME Types, PendCounts, NEW s \in Buses, NEW k \in 1 .. Len(reads[s])
  PROVE  /\ reads[s][k] \in Reads /\ reads[s][k].dst \in Buses /\ reads[s][k].vm \in VMs
         /\ pend[reads[s][k].dst][s][reads[s][k].vm] # 0
  <1>1. reads[s] \in Seq(Reads) BY DEF Types
  <1>2. reads[s][k] \in Reads BY <1>1, ElementOfSeq
  <1>3. /\ reads[s][k].dst \in Buses /\ reads[s][k].vm \in VMs
        /\ reads[s][k] = [dst |-> reads[s][k].dst, vm |-> reads[s][k].vm]
    BY <1>2 DEF Reads
  <1> QED BY <1>2, <1>3, PendFacts

LEMMA OneClaim ==
  ASSUME Types, PendCounts, OneSink, NEW s \in Buses, reads[s] # <<>>
  PROVE  /\ Claims(s) = {Head(reads[s]).dst} /\ Head(reads[s]) \in Reads
         /\ pend[Head(reads[s]).dst][s][Head(reads[s]).vm] > 0
  <1>1. reads[s] \in Seq(Reads) BY DEF Types
  <1>2. Len(reads[s]) \in Nat /\ Len(reads[s]) > 0 BY <1>1, LenProperties, EmptySeq
  <1>3. 1 \in 1 .. Len(reads[s]) /\ Head(reads[s]) = reads[s][1]
    BY <1>1, <1>2, HeadTailProperties
  <1> DEFINE h == reads[s][1]
  <1>4. h \in Reads /\ h.dst \in Buses /\ h.vm \in VMs /\ pend[h.dst][s][h.vm] # 0
    BY <1>3, ReadIsPending
  <1>5. pend[h.dst][s][h.vm] > 0
    <2>1. pend[h.dst][s][h.vm] \in Nat BY <1>4, PendFacts
    <2> QED BY <1>4, <2>1
  <1>6. h.dst \in Claims(s) BY <1>4 DEF Claims
  <1>7. ASSUME NEW d \in Claims(s) PROVE d = h.dst
    <2>1. PICK v \in VMs : d \in Buses /\ pend[d][s][v] # 0 BY DEF Claims
    <2>2. PICK k \in 1 .. Len(reads[s]) : reads[s][k] = [dst |-> d, vm |-> v]
      BY <2>1, PendFacts
    <2>3. reads[s][k].dst = h.dst BY <1>3 DEF OneSink
    <2> QED BY <2>2, <2>3
  <1> QED BY <1>3, <1>4, <1>5, <1>6, <1>7

LEMMA OneAsks ==
  ASSUME Types, InOnePlace, Apart, NEW in \in Inputs, NEW e \in in.accepted, NEW f \in in.accepted,
         gen[e].rec.src = gen[f].rec.src \/ gen[e].rec.dst = gen[f].rec.dst
  PROVE  e = f
  <1>1. /\ e \in Engines /\ Using(e) = gen[e].rec /\ Using(e) # None
        /\ f \in Engines /\ Using(f) = gen[f].rec /\ Using(f) # None
    BY AcceptedFacts, GenIsUsing
  <1> QED BY <1>1, ApartFacts

LEMMA PendCountsKept ==
  ASSUME Types, InOnePlace, Apart, PendCounts, OneSink, NEW in \in Inputs, Clock(in)
  PROVE  PendCounts'
  <1>1. ASSUME NEW d \in Buses, NEW s \in Buses, NEW v \in VMs
        PROVE  pend'[d][s][v] = Num(reads'[s], {[dst |-> d, vm |-> v]})
    <2> DEFINE S == {[dst |-> d, vm |-> v]}
               rest == ReadsLeft(s, in)
    <2>1. reads[s] \in Seq(Reads) /\ rest \in Seq(Reads) BY ReadsLeftFacts DEF Types
    <2>2. pend[d][s][v] = Num(reads[s], S) BY DEF PendCounts
    <2>3. Num(reads[s], S) \in Nat /\ Num(rest, S) \in Nat BY <2>1, NumBounds
    <2>4. Num(rest, S) = pend[d][s][v] - (IF Claimed(in, d, s, v) THEN 1 ELSE 0)
      <3>1. CASE s \in in.answered
        <4>1. reads[s] # <<>> BY <3>1, ReadsLeftFacts
        <4>2. rest = Tail(reads[s]) BY <3>1 DEF ReadsLeft
        <4>3. Num(reads[s], S) = Num(rest, S) + (IF Head(reads[s]) \in S THEN 1 ELSE 0)
          BY <2>1, <4>1, <4>2, NumTail
        <4>4. Head(reads[s]) \in Reads /\ Claims(s) = {Head(reads[s]).dst}
          BY <4>1, OneClaim
        <4>5. Head(reads[s]) \in S <=> Claimed(in, d, s, v)
          BY <3>1, <4>4 DEF Claimed, Reads
        <4> HIDE DEF S, rest
        <4> QED BY <2>2, <2>3, <4>3, <4>5
      <3>2. CASE s \notin in.answered
        <4>1. rest = reads[s] /\ ~Claimed(in, d, s, v) BY <3>2 DEF ReadsLeft, Claimed
        <4> HIDE DEF S, rest
        <4> QED BY <2>2, <2>3, <4>1
      <3> QED BY <3>1, <3>2
    <2>5. Num(reads'[s], S) = Num(rest, S) + Cardinality(AskedOf(in, d, s, v))
      <3>1. CASE \A e \in in.accepted \ in.eof : gen[e].rec.src # s
        <4>1. reads'[s] = rest BY <3>1, ReadsStep
        <4>2. AskedOf(in, d, s, v) = {} BY <3>1 DEF AskedOf
        <4>3. Cardinality(AskedOf(in, d, s, v)) = 0 BY <4>2, FS_EmptySet
        <4> HIDE DEF S, rest
        <4> QED BY <2>3, <4>1, <4>3
      <3>2. CASE ~\A e \in in.accepted \ in.eof : gen[e].rec.src # s
        <4>1. PICK e \in in.accepted \ in.eof :
                gen[e].rec.src = s /\ reads'[s] = Append(rest, ReadOf(e))
          BY <3>2, ReadsStep
        <4>2. ReadOf(e) \in Reads BY AcceptedFacts DEF ReadOf, Reads
        <4>3. Num(reads'[s], S) = Num(rest, S) + (IF ReadOf(e) \in S THEN 1 ELSE 0)
          BY <2>1, <4>1, <4>2, NumAppend
        <4>4. \A f \in in.accepted : gen[f].rec.src = s => f = e BY <4>1, OneAsks
        <4>5. CASE ReadOf(e) \in S
          <5>1. gen[e].rec.dst = d /\ gen[e].rec.vm = v BY <4>5 DEF ReadOf
          <5>2. AskedOf(in, d, s, v) = {e} BY <4>1, <4>4, <5>1 DEF AskedOf
          <5>3. Cardinality(AskedOf(in, d, s, v)) = 1 BY <5>2, FS_Singleton
          <5> HIDE DEF S, rest
          <5> QED BY <4>3, <4>5, <5>3
        <4>6. CASE ReadOf(e) \notin S
          <5>1. ~(gen[e].rec.dst = d /\ gen[e].rec.vm = v) BY <4>6 DEF ReadOf
          <5>2. AskedOf(in, d, s, v) = {} BY <4>4, <5>1 DEF AskedOf
          <5>3. Cardinality(AskedOf(in, d, s, v)) = 0 BY <5>2, FS_EmptySet
          <5> HIDE DEF S, rest
          <5> QED BY <4>3, <4>6, <5>3
        <4> QED BY <4>5, <4>6
      <3> QED BY <3>1, <3>2
    <2>6. /\ pend'[d][s][v] = pend[d][s][v] + Cardinality(AskedOf(in, d, s, v))
                               - (IF Claimed(in, d, s, v) THEN 1 ELSE 0)
          /\ pend[d][s][v] \in Int /\ Cardinality(AskedOf(in, d, s, v)) \in Nat
      BY PendStep
    <2> HIDE DEF S, rest
    <2>7. pend'[d][s][v] = Num(reads'[s], S) BY <2>3, <2>4, <2>5, <2>6
    <2> QED BY <2>7 DEF S
  <1> QED BY <1>1 DEF PendCounts

LEMMA OneSinkKept ==
  ASSUME Types, InOnePlace, UsedIsClear, PendCounts, OneSink, NEW in \in Inputs, Clock(in)
  PROVE  OneSink'
  <1>1. ASSUME NEW s \in Buses
        PROVE  \A k, l \in 1 .. Len(reads'[s]) : reads'[s][k].dst = reads'[s][l].dst
    <2> DEFINE rest == ReadsLeft(s, in)
    <2>1. reads[s] \in Seq(Reads) /\ rest \in Seq(Reads)
          /\ (s \in in.answered => reads[s] # <<>>)
      BY ReadsLeftFacts DEF Types
    <2>2. Len(reads[s]) \in Nat /\ Len(rest) \in Nat BY <2>1, LenProperties
    <2>3. \A k \in 1 .. Len(rest) : \E l \in 1 .. Len(reads[s]) : rest[k] = reads[s][l]
      <3>1. CASE s \in in.answered
        <4>1. rest = Tail(reads[s]) BY <3>1 DEF ReadsLeft
        <4>2. Len(rest) = Len(reads[s]) - 1
              /\ \A k \in 1 .. Len(rest) : rest[k] = reads[s][k + 1]
          BY <2>1, <3>1, <4>1, HeadTailProperties
        <4>3. \A k \in 1 .. Len(rest) : k + 1 \in 1 .. Len(reads[s]) BY <2>2, <4>2
        <4> QED BY <4>2, <4>3
      <3>2. CASE s \notin in.answered BY <3>2 DEF ReadsLeft
      <3> QED BY <3>1, <3>2
    <2>4. \A k, l \in 1 .. Len(rest) : rest[k].dst = rest[l].dst BY <2>3, SMTT(30) DEF OneSink
    <2>5. CASE reads'[s] = rest BY <2>4, <2>5
    <2>6. CASE reads'[s] # rest
      <3>1. PICK e \in in.accepted \ in.eof :
              gen[e].rec.src = s /\ reads'[s] = Append(rest, ReadOf(e))
        BY <2>6, ReadsStep
      <3>2. e \in Engines /\ Using(e) = gen[e].rec /\ Using(e) # None
        BY AcceptedFacts, GenIsUsing
      <3>3. ReadOf(e) \in Reads BY AcceptedFacts DEF ReadOf, Reads
      <3>4. /\ Len(reads'[s]) = Len(rest) + 1 /\ reads'[s][Len(rest) + 1] = ReadOf(e)
            /\ \A k \in 1 .. Len(rest) : reads'[s][k] = rest[k]
        BY <2>1, <3>1, <3>3, AppendProperties
      <3>5. Clear(s, ReadOf(e).dst) BY <3>1, <3>2 DEF UsedIsClear, ReadOf
      <3>6. \A l \in 1 .. Len(reads[s]) : reads[s][l].dst = ReadOf(e).dst
        <4> SUFFICES ASSUME NEW l \in 1 .. Len(reads[s]), reads[s][l].dst # ReadOf(e).dst
                     PROVE  FALSE
          OBVIOUS
        <4>1. /\ reads[s][l].dst \in Buses /\ reads[s][l].vm \in VMs
              /\ pend[reads[s][l].dst][s][reads[s][l].vm] # 0
          BY ReadIsPending
        <4> QED BY <3>5, <4>1 DEF Clear
      <3>7. \A k \in 1 .. Len(rest) : rest[k].dst = ReadOf(e).dst BY <2>3, <3>6
      <3> HIDE DEF rest
      <3>8. \A k \in 1 .. Len(reads'[s]) : reads'[s][k].dst = ReadOf(e).dst
        <4> SUFFICES ASSUME NEW k \in 1 .. Len(reads'[s])
                     PROVE  reads'[s][k].dst = ReadOf(e).dst
          OBVIOUS
        <4>1. k \in 1 .. Len(rest) \/ k = Len(rest) + 1 BY <2>2, <3>4
        <4> QED BY <3>4, <3>7, <4>1
      <3> QED BY <3>8
    <2> QED BY <2>5, <2>6
  <1> QED BY <1>1 DEF OneSink

-----------------------------------------------------------------------------
(* The words that are not written. *)

LEMMA SpaceOf ==
  ASSUME NEW sp \in Spaces
  PROVE  /\ sp[1] \in Buses
         /\ \A b \in Buses, v \in VMs : Space(b, v) = sp => b = sp[1]
         /\ \E v \in VMs : sp = Space(sp[1], v)
  <1>1. PICK b \in Buses, v \in VMs : sp = Space(b, v) BY DEF Spaces
  <1>2. sp[1] = b BY <1>1, SpaceFacts
  <1>3. \A c \in Buses, w \in VMs : Space(c, w)[1] = c BY SpaceFacts
  <1> QED BY <1>1, <1>2, <1>3

\* One word of engine e is requested into sp.
Asks(in, e, sp) == IF e \in in.accepted /\ Into(gen[e].rec, sp) THEN 1 ELSE 0

\* Engine e is given a transfer into sp.
Given(e, sp) == IF Second(e) THEN LatchedWords(instruction_rr, sp) ELSE 0

LEMMA LatchedType ==
  ASSUME Types, NEW sp
  PROVE  /\ LatchedWords(instruction_rr, sp) \in Nat
         /\ LatchedWords(instruction_rr, sp) = Given(0, sp) + Given(1, sp)
         /\ Given(0, sp) \in Nat /\ Given(1, sp) \in Nat
         /\ instruction_rr # None /\ Into(instruction_rr.rec, sp) =>
              LatchedWords(instruction_rr, sp) # 0
  <1>1. instruction_rr # None =>
          /\ instruction_rr.rec.count \in Nat /\ instruction_rr.rec.count > 0
          /\ instruction_rr.which \in Engines
    BY CmdFacts, InstrFacts DEF Types
  <1>2. LatchedWords(instruction_rr, sp) \in Nat BY <1>1 DEF LatchedWords
  <1>3. LatchedWords(instruction_rr, sp) = Given(0, sp) + Given(1, sp)
    <2>1. CASE instruction_rr = None BY <2>1 DEF LatchedWords, Given, Second
    <2>2. CASE instruction_rr # None BY <1>1, <1>2, <2>2 DEF Given, Second, Engines
    <2> QED BY <2>1, <2>2
  <1>4. Given(0, sp) \in Nat /\ Given(1, sp) \in Nat BY <1>2 DEF Given
  <1>5. instruction_rr # None /\ Into(instruction_rr.rec, sp) =>
              LatchedWords(instruction_rr, sp) # 0
    BY <1>1 DEF LatchedWords
  <1> QED BY <1>2, <1>3, <1>4, <1>5

LEMMA GenWordsType ==
  ASSUME Types, NEW e \in Engines, NEW sp
  PROVE  /\ GenWords(gen[e], sp) \in Nat
         /\ gen[e] # None /\ Into(gen[e].rec, sp) => GenWords(gen[e], sp) # 0
  <1>1. CASE gen[e] = None BY <1>1 DEF GenWords
  <1>2. CASE gen[e] # None
    <2>1. /\ gen[e].rec \in Instr /\ gen[e].clocks \in Nat
          /\ gen[e].clocks < gen[e].rec.count + GenStages
      BY <1>2, GenFacts
    <2>2. gen[e].rec.count \in Nat /\ gen[e].rec.count > 0 BY <2>1, InstrFacts
    <2> DEFINE n == gen[e].rec.count
               c == gen[e].clocks
    <2>3. n + 3 - (IF c >= 3 THEN c ELSE 3) \in Nat /\ n + 3 - (IF c >= 3 THEN c ELSE 3) # 0
      BY <2>1, <2>2 DEF GenStages
    <2> QED BY <1>2, <2>3 DEF GenWords, GenStages
  <1> QED BY <1>1, <1>2

LEMMA GenWordsStep ==
  ASSUME Types, InOnePlace, NEW in \in Inputs, Clock(in), NEW e \in Engines, NEW sp
  PROVE  GenWords(gen'[e], sp) = GenWords(gen[e], sp) + Given(e, sp) - Asks(in, e, sp)
  <1>0. e \in in.accepted => gen[e] # None /\ gen_valid(e) /\ gen[e].clocks >= GenStages
    BY AcceptedFacts
  <1>1. CASE Second(e)
    <2>1. gen[e] = None BY <1>1, OnePlace
    <2>2. GenWords(gen[e], sp) = 0 /\ Asks(in, e, sp) = 0 BY <1>0, <2>1 DEF GenWords, Asks
    <2>3. gen'[e] = [rec |-> instruction_rr.rec, clocks |-> 0] /\ instruction_rr # None
      BY <1>1, GenStep DEF Second
    <2>4. instruction_rr.rec \in Instr /\ instruction_rr.rec \in Transfers
      BY <2>3, CmdFacts DEF Types
    <2>5. instruction_rr.rec.count \in Nat BY <2>4, InstrFacts
    <2>6. gen'[e] # None
      <3>1. gen'[e] \in Gens BY <2>3, <2>4 DEF Gens
      <3> QED BY <3>1, GenNotNone
    <2>7. GenWords(gen'[e], sp) = LatchedWords(instruction_rr, sp)
      <3>1. gen'[e].rec = instruction_rr.rec /\ gen'[e].clocks = 0 BY <2>3
      <3> HIDE DEF Into
      <3> QED BY <2>3, <2>5, <2>6, <3>1 DEF GenWords, LatchedWords, GenStages
    <2>8. LatchedWords(instruction_rr, sp) \in Nat BY LatchedType
    <2>9. Given(e, sp) = LatchedWords(instruction_rr, sp) BY <1>1 DEF Given
    <2> QED BY <2>2, <2>7, <2>8, <2>9
  <1>2. CASE ~Second(e) /\ (gen[e] = None \/ (gen_valid(e) /\ e \notin in.accepted))
    <2>1. gen'[e] = gen[e] BY <1>2, GenStep DEF Second
    <2>2. Given(e, sp) = 0 /\ Asks(in, e, sp) = 0 BY <1>0, <1>2 DEF Given, Asks
    <2> QED BY <2>1, <2>2, GenWordsType
  <1>3. CASE ~Second(e) /\ ~(gen[e] = None \/ (gen_valid(e) /\ e \notin in.accepted))
    <2>1. gen'[e] = IF LastClock(gen[e]) THEN None ELSE [gen[e] EXCEPT !.clocks = @ + 1]
      BY <1>3, GenStep DEF Second
    <2>2. /\ gen[e] # None /\ gen[e] \in Gens
          /\ gen[e].rec \in Instr /\ gen[e].clocks \in Nat
          /\ gen[e].clocks < gen[e].rec.count + GenStages
      BY <1>3, GenFacts
    <2>3. gen[e].rec.count \in Nat /\ gen[e].rec.count > 0 BY <2>2, InstrFacts
    <2>4. e \in in.accepted <=> gen[e].clocks >= GenStages
      BY <1>0, <1>3 DEF gen_valid
    <2>5. Given(e, sp) = 0 BY <1>3 DEF Given
    <2>6. CASE ~Into(gen[e].rec, sp)
      <3>1. GenWords(gen[e], sp) = 0 /\ Asks(in, e, sp) = 0 BY <2>6 DEF GenWords, Asks
      <3>2. GenWords(gen'[e], sp) = 0
        <4>1. gen'[e] = None \/ gen'[e].rec = gen[e].rec BY <2>1, <2>2 DEF Gens
        <4> QED BY <2>6, <4>1 DEF GenWords
      <3> QED BY <2>5, <3>1, <3>2
    <2>7. CASE Into(gen[e].rec, sp)
      <3> DEFINE n == gen[e].rec.count
                 c == gen[e].clocks
      <3>1. GenWords(gen[e], sp) = n + 3 - (IF c >= 3 THEN c ELSE 3)
        BY <2>2, <2>7 DEF GenWords, GenStages
      <3>2. Asks(in, e, sp) = IF c >= 3 THEN 1 ELSE 0
        BY <2>4, <2>7 DEF Asks, GenStages
      <3>3. CASE LastClock(gen[e])
        <4>1. c + 1 = n + 3 BY <3>3 DEF LastClock, GenStages
        <4>2. GenWords(gen'[e], sp) = 0 BY <2>1, <3>3 DEF GenWords
        <4> HIDE DEF n, c
        <4> QED BY <2>2, <2>3, <2>5, <3>1, <3>2, <4>1, <4>2 DEF n, c
      <3>4. CASE ~LastClock(gen[e])
        <4>1. gen'[e] = [gen[e] EXCEPT !.clocks = @ + 1] BY <2>1, <3>4
        <4>2. gen'[e] \in Gens /\ gen'[e].rec = gen[e].rec /\ gen'[e].clocks = c + 1
          BY <2>2, <4>1 DEF Gens
        <4>3. gen'[e] # None BY <4>2, GenNotNone
        <4>4. GenWords(gen'[e], sp) = n + 3 - (IF c + 1 >= 3 THEN c + 1 ELSE 3)
          BY <2>7, <4>2, <4>3 DEF GenWords, GenStages
        <4>5. n \in Nat /\ c \in Nat BY <2>2, <2>3
        <4> HIDE DEF n, c
        <4> QED BY <2>5, <3>1, <3>2, <4>4, <4>5
      <3> QED BY <3>3, <3>4
    <2> QED BY <2>6, <2>7
  <1> QED BY <1>1, <1>2, <1>3

ForSpace(sp) == {x \in Requests : Space(sp[1], x.vm) = sp}

LEMMA QueuedType ==
  ASSUME Types, NEW sp \in Spaces
  PROVE  /\ QueuedWords(sinkq[sp[1]], sp) \in Nat
         /\ \A k \in 1 .. Len(sinkq[sp[1]]) :
              Space(sp[1], sinkq[sp[1]][k].vm) = sp => QueuedWords(sinkq[sp[1]], sp) # 0
  <1> DEFINE q == sinkq[sp[1]]
  <1>1. q \in Seq(Requests) BY SpaceOf DEF Types
  <1>2. /\ Num(q, ForSpace(sp)) \in Nat
        /\ Num(q, ForSpace(sp)) = 0 <=> \A k \in 1 .. Len(q) : q[k] \notin ForSpace(sp)
    BY <1>1, NumBounds
  <1>3. \A k \in 1 .. Len(q) : q[k] \in Requests BY <1>1, ElementOfSeq
  <1>4. QueuedWords(q, sp) = Num(q, ForSpace(sp)) BY DEF QueuedWords, ForSpace
  <1> QED BY <1>2, <1>3, <1>4 DEF ForSpace

LEMMA WrittenFacts ==
  ASSUME Types, NEW in \in Inputs, NEW sp \in Spaces
  PROVE  Written(sp, in.written) <=>
           sp[1] \in in.written /\ Head(sinkq[sp[1]]) \in ForSpace(sp)
  <1>1. \A d \in in.written : d \in Buses /\ Head(sinkq[d]) \in Requests
    BY InputFacts, QueueLeftFacts
  <1>2. \A d \in in.written : Space(d, Head(sinkq[d]).vm) = sp => d = sp[1]
    BY <1>1, SpaceOf DEF Requests
  <1> QED BY <1>1, <1>2 DEF Written, ForSpace

LEMMA QueuedStep ==
  ASSUME Types, InOnePlace, Apart, NEW in \in Inputs, Clock(in), NEW sp \in Spaces
  PROVE  /\ QueuedWords(sinkq'[sp[1]], sp) =
              QueuedWords(sinkq[sp[1]], sp) + Asks(in, 0, sp) + Asks(in, 1, sp)
                - (IF Written(sp, in.written) THEN 1 ELSE 0)
         /\ Written(sp, in.written) => QueuedWords(sinkq[sp[1]], sp) # 0
  <1> DEFINE d == sp[1]
             F == ForSpace(sp)
             q == sinkq[d]
             rest == QueueLeft(d, in)
  <1>0. d \in Buses BY SpaceOf
  <1>1. q \in Seq(Requests) /\ rest \in Seq(Requests) BY <1>0, QueueLeftFacts
  <1>2. Num(q, F) \in Nat /\ Num(rest, F) \in Nat BY <1>1, NumBounds
  <1>3. /\ Num(rest, F) = Num(q, F) - (IF Written(sp, in.written) THEN 1 ELSE 0)
        /\ Written(sp, in.written) => Num(q, F) # 0
    <2>1. CASE d \in in.written
      <3>1. q # <<>> BY <1>0, <2>1, QueueLeftFacts
      <3>2. rest = Tail(q) BY <2>1 DEF QueueLeft
      <3>3. Num(q, F) = Num(rest, F) + (IF Head(q) \in F THEN 1 ELSE 0)
        BY <1>1, <3>1, <3>2, NumTail
      <3>4. Head(q) \in F <=> Written(sp, in.written) BY <2>1, WrittenFacts
      <3> HIDE DEF F, rest, q
      <3> QED BY <1>2, <3>3, <3>4
    <2>2. CASE d \notin in.written
      <3>1. rest = q /\ ~Written(sp, in.written) BY <2>2, WrittenFacts DEF QueueLeft
      <3> HIDE DEF F, rest, q
      <3> QED BY <1>2, <3>1
    <2> QED BY <2>1, <2>2
  <1>4. \A e \in in.accepted : e \in Engines /\ gen[e].rec.dst \in Buses /\ gen[e].rec.vm \in VMs
    BY AcceptedFacts
  <1>5. \A e \in in.accepted : Into(gen[e].rec, sp) => gen[e].rec.dst = d
    BY <1>4, SpaceOf DEF Into
  <1>6. Num(sinkq'[d], F) = Num(rest, F) + Asks(in, 0, sp) + Asks(in, 1, sp)
    <2>1. CASE \A e \in in.accepted : gen[e].rec.dst # d
      <3>1. sinkq'[d] = rest BY <1>0, <2>1, QueueStep
      <3>2. Asks(in, 0, sp) = 0 /\ Asks(in, 1, sp) = 0 BY <1>5, <2>1 DEF Asks
      <3> HIDE DEF F, rest
      <3> QED BY <1>2, <3>1, <3>2
    <2>2. CASE ~\A e \in in.accepted : gen[e].rec.dst # d
      <3>1. PICK e \in in.accepted :
              gen[e].rec.dst = d /\ sinkq'[d] = Append(rest, Entry(e, in.eof))
        BY <1>0, <2>2, QueueStep
      <3>2. Entry(e, in.eof) \in Requests /\ Entry(e, in.eof).vm = gen[e].rec.vm
        BY EntryType
      <3>3. Num(sinkq'[d], F) = Num(rest, F) + (IF Entry(e, in.eof) \in F THEN 1 ELSE 0)
        BY <1>1, <3>1, <3>2, NumAppend
      <3>4. Entry(e, in.eof) \in F <=> Into(gen[e].rec, sp)
        BY <3>1, <3>2 DEF ForSpace, Into
      <3>5. \A f \in in.accepted : gen[f].rec.dst = d => f = e BY <3>1, OneAsks
      <3>6. \A f \in Engines : f # e => Asks(in, f, sp) = 0 BY <1>5, <3>5 DEF Asks
      <3>7. Asks(in, e, sp) = IF Entry(e, in.eof) \in F THEN 1 ELSE 0 BY <3>4 DEF Asks
      <3>8. e = 0 \/ e = 1 BY <1>4 DEF Engines
      <3> HIDE DEF F, rest
      <3>9. Asks(in, 0, sp) + Asks(in, 1, sp) = IF Entry(e, in.eof) \in F THEN 1 ELSE 0
        BY <3>6, <3>7, <3>8 DEF Engines
      <3>10. Asks(in, 0, sp) \in Nat /\ Asks(in, 1, sp) \in Nat BY DEF Asks
      <3> QED BY <1>2, <3>3, <3>9, <3>10
    <2> QED BY <2>1, <2>2
  <1>7. QueuedWords(q, sp) = Num(q, F) /\ QueuedWords(sinkq'[d], sp) = Num(sinkq'[d], F)
    BY DEF QueuedWords, ForSpace
  <1>8. Asks(in, 0, sp) \in Nat /\ Asks(in, 1, sp) \in Nat BY DEF Asks
  <1> HIDE DEF F, rest, q
  <1>9. QueuedWords(sinkq'[d], sp) = QueuedWords(q, sp) + Asks(in, 0, sp) + Asks(in, 1, sp)
                - (IF Written(sp, in.written) THEN 1 ELSE 0)
    BY <1>2, <1>3, <1>6, <1>7, <1>8
  <1> QED BY <1>3, <1>7, <1>9 DEF q

\* A word leaves the counter's transfer register, an engine, a sink in turn: in
\* a clock only the writes change their sum.
LEMMA OnTheWayStep ==
  ASSUME Types, InOnePlace, Apart, UnwrittenCounts, NEW in \in Inputs, Clock(in), NEW sp \in Spaces
  PROVE  /\ OnTheWay(sp) \in Nat /\ unwritten[sp] \in Nat
         /\ GenWords(gen'[0], sp) + GenWords(gen'[1], sp) + QueuedWords(sinkq'[sp[1]], sp)
              = unwritten[sp] - (IF Written(sp, in.written) THEN 1 ELSE 0)
         /\ Written(sp, in.written) => unwritten[sp] # 0
  <1>0. 0 \in Engines /\ 1 \in Engines BY DEF Engines
  <1> DEFINE g0 == GenWords(gen[0], sp)
             g1 == GenWords(gen[1], sp)
             q  == QueuedWords(sinkq[sp[1]], sp)
             h0 == GenWords(gen'[0], sp)
             h1 == GenWords(gen'[1], sp)
             r  == QueuedWords(sinkq'[sp[1]], sp)
             a0 == Asks(in, 0, sp)
             a1 == Asks(in, 1, sp)
             l  == LatchedWords(instruction_rr, sp)
  <1>1. g0 \in Nat /\ g1 \in Nat BY <1>0, GenWordsType
  <1>2. q \in Nat BY QueuedType
  <1>3. h0 = g0 + Given(0, sp) - a0 /\ h1 = g1 + Given(1, sp) - a1 BY <1>0, GenWordsStep
  <1>4. /\ r = q + a0 + a1 - (IF Written(sp, in.written) THEN 1 ELSE 0)
        /\ Written(sp, in.written) => q # 0
    BY QueuedStep
  <1>5. l = Given(0, sp) + Given(1, sp) /\ Given(0, sp) \in Nat /\ Given(1, sp) \in Nat
    BY LatchedType
  <1>6. unwritten[sp] = l + (g0 + g1 + q) /\ OnTheWay(sp) = g0 + g1 + q
    BY DEF UnwrittenCounts, OnTheWay
  <1>7. a0 \in Nat /\ a1 \in Nat BY DEF Asks
  <1> HIDE DEF g0, g1, q, h0, h1, r, a0, a1, l
  <1>8. h0 + h1 + r = unwritten[sp] - (IF Written(sp, in.written) THEN 1 ELSE 0)
    BY <1>1, <1>2, <1>3, <1>4, <1>5, <1>6, <1>7
  <1>9. OnTheWay(sp) \in Nat /\ unwritten[sp] \in Nat
    BY <1>1, <1>2, <1>5, <1>6
  <1>10. Written(sp, in.written) => unwritten[sp] # 0
    BY <1>1, <1>2, <1>4, <1>5, <1>6
  <1> QED BY <1>8, <1>9, <1>10 DEF h0, h1, r

LEMMA OnTheWayNext ==
  ASSUME Types, InOnePlace, Apart, UnwrittenCounts, NEW in \in Inputs, Clock(in), NEW sp \in Spaces
  PROVE  OnTheWay(sp)' = unwritten[sp] - (IF Written(sp, in.written) THEN 1 ELSE 0)
  BY OnTheWayStep DEF OnTheWay, GenWords, QueuedWords, Num

LEMMA UnwrittenCountsKept ==
  ASSUME Types, InOnePlace, Apart, UnwrittenCounts, NEW in \in Inputs, Clock(in)
  PROVE  UnwrittenCounts'
  <1>1. ASSUME NEW sp \in Spaces
        PROVE  unwritten'[sp] = LatchedWords(instruction_rr', sp) + OnTheWay(sp)'
    <2>1. instruction_rr' = instruction_r BY DEF Clock, ClockInstruction
    <2>2. OnTheWay(sp)' = unwritten[sp] - (IF Written(sp, in.written) THEN 1 ELSE 0)
      BY OnTheWayNext
    <2>3. /\ unwritten'[sp] = unwritten[sp] + LatchedWords(instruction_r, sp)
                               - (IF Written(sp, in.written) THEN 1 ELSE 0)
          /\ unwritten[sp] \in Int /\ LatchedWords(instruction_r, sp) \in Nat
      BY UnwrittenStep
    <2> QED BY <2>1, <2>2, <2>3
  <1> QED BY <1>1 DEF UnwrittenCounts, LatchedWords, Into

-----------------------------------------------------------------------------
(* The busy flags. *)

LEMMA CounterCoveredKept ==
  ASSUME Types, InOnePlace, Apart, UnwrittenCounts, NEW in \in Inputs, Clock(in)
  PROVE  CounterCovered'
  <1>1. ASSUME NEW sp \in Spaces, unwritten'[sp] # 0 PROVE counter_busy_r'[sp]
    <2>1. counter_busy_r'[sp] = CounterBusy(sp) BY DEF Clock, ClockFlags
    <2>2. /\ unwritten'[sp] = unwritten[sp] + LatchedWords(instruction_r, sp)
                               - (IF Written(sp, in.written) THEN 1 ELSE 0)
          /\ unwritten[sp] \in Int /\ LatchedWords(instruction_r, sp) \in Nat
          /\ LatchedInto(sp) <=> LatchedWords(instruction_r, sp) # 0
      BY UnwrittenStep
    <2>3. Written(sp, in.written) => unwritten[sp] # 0 BY OnTheWayStep
    <2>4. unwritten[sp] # 0 \/ LatchedInto(sp) BY <1>1, <2>2, <2>3
    <2> QED BY <2>1, <2>4, Zenon DEF CounterBusy
  <1> QED BY <1>1 DEF CounterCovered

LEMMA SourceCoveredKept ==
  ASSUME Types, WindowSound, InOnePlace, PendCounts, NEW in \in Inputs, Clock(in)
  PROVE  SourceCovered'
  <1> DEFINE i == Issue(in.indication_full)
  <1>0. \A sp \in Spaces : SourceBusy(sp, i) => source_busy_r'[sp]
    <2>1. source_busy_r' = [sp \in Spaces |-> SourceBusy(sp, i)]
      BY Zenon DEF Clock, ClockFlags
    <2> QED BY <2>1, Zenon
  <1>1. ASSUME NEW e \in Engines, Using(e) # None
        PROVE  source_busy_r'[Space(Using(e).src, Using(e).vm)]
    <2>1. Using(e) \in Instr BY <1>1, UsingType
    <2>2. Space(Using(e).src, Using(e).vm) \in Spaces BY <2>1, InstrFacts, SpaceFacts
    <2>3. SourceBusy(Space(Using(e).src, Using(e).vm), i)
      BY <1>1, Zenon DEF SourceBusy, avail
    <2> QED BY <1>0, <2>2, <2>3
  <1>2. ASSUME NEW e \in Engines, Using(e)' # None
        PROVE  source_busy_r'[Space(Using(e)'.src, Using(e)'.vm)]
    <2>1. CASE Using(e)' = Using(e) BY <1>1, <1>2, <2>1
    <2>2. CASE Using(e)' # Using(e)
      <3>1. PICK j \in Instr : j = i /\ j.op = "transfer" /\ Using(e)' = j
        BY <1>2, <2>2, UsingStep
      <3>2. Starts(i, "transfer") BY <3>1, InstrFacts DEF Starts
      <3>3. Space(j.src, j.vm) \in Spaces BY InstrFacts, SpaceFacts
      <3> HIDE DEF i
      <3>4. SourceBusy(Space(j.src, j.vm), i) BY <3>1, <3>2, Zenon DEF SourceBusy
      <3> QED BY <1>0, <3>1, <3>3, <3>4
    <2> QED BY <2>1, <2>2
  <1>3. ASSUME NEW s \in Buses, NEW k \in 1 .. Len(reads[s])
        PROVE  source_busy_r'[Space(s, reads[s][k].vm)]
    <2> DEFINE d == reads[s][k].dst
               v == reads[s][k].vm
               sp == Space(s, v)
    <2>1. d \in Buses /\ v \in VMs /\ pend[d][s][v] # 0 BY ReadIsPending
    <2>2. sp \in Spaces /\ sp[1] = s BY <2>1, SpaceFacts
    <2> HIDE DEF d, v
    <2>3. Space(sp[1], v) = sp BY <2>2
    <2> HIDE DEF sp
    <2>4. read_pending(d, s, v) BY <2>1 DEF read_pending
    <2>5. ReadsOf(sp, v) BY <2>1, <2>2, <2>4 DEF ReadsOf, any_read_pending
    <2>6. SourceBusy(sp, i) BY <2>1, <2>3, <2>5, Zenon DEF SourceBusy
    <2> QED BY <1>0, <2>2, <2>6 DEF sp, v
  <1>4. ASSUME NEW s \in Buses, NEW k \in 1 .. Len(reads'[s])
        PROVE  source_busy_r'[Space(s, reads'[s][k].vm)]
    <2> DEFINE rest == ReadsLeft(s, in)
    <2>1. reads[s] \in Seq(Reads) /\ rest \in Seq(Reads)
          /\ (s \in in.answered => reads[s] # <<>>)
      BY ReadsLeftFacts DEF Types
    <2>2. Len(reads[s]) \in Nat /\ Len(rest) \in Nat BY <2>1, LenProperties
    <2>3. \A l \in 1 .. Len(rest) : source_busy_r'[Space(s, rest[l].vm)]
      <3>1. CASE s \in in.answered
        <4>1. rest = Tail(reads[s]) BY <3>1 DEF ReadsLeft
        <4>2. Len(rest) = Len(reads[s]) - 1
              /\ \A l \in 1 .. Len(rest) : rest[l] = reads[s][l + 1]
          BY <2>1, <3>1, <4>1, HeadTailProperties
        <4>3. \A l \in 1 .. Len(rest) : l + 1 \in 1 .. Len(reads[s]) BY <2>2, <4>2
        <4> HIDE DEF rest
        <4> QED BY <1>3, <4>2, <4>3
      <3>2. CASE s \notin in.answered BY <1>3, <3>2 DEF ReadsLeft
      <3> QED BY <3>1, <3>2
    <2>4. CASE reads'[s] = rest BY <1>4, <2>3, <2>4
    <2>5. CASE reads'[s] # rest
      <3>1. PICK e \in in.accepted \ in.eof :
              gen[e].rec.src = s /\ reads'[s] = Append(rest, ReadOf(e))
        BY <2>5, ReadsStep
      <3>2. e \in Engines /\ Using(e) = gen[e].rec /\ Using(e) # None
        BY AcceptedFacts, GenIsUsing
      <3>3. ReadOf(e) \in Reads BY AcceptedFacts DEF ReadOf, Reads
      <3>4. /\ Len(reads'[s]) = Len(rest) + 1 /\ reads'[s][Len(rest) + 1] = ReadOf(e)
            /\ \A l \in 1 .. Len(rest) : reads'[s][l] = rest[l]
        BY <2>1, <3>1, <3>3, AppendProperties
      <3>5. source_busy_r'[Space(s, ReadOf(e).vm)] BY <1>1, <3>1, <3>2 DEF ReadOf
      <3> HIDE DEF rest
      <3>6. k \in 1 .. Len(rest) \/ k = Len(rest) + 1 BY <2>2, <3>4
      <3> QED BY <2>3, <3>4, <3>5, <3>6
    <2> QED BY <2>4, <2>5
  <1> QED BY <1>2, <1>4 DEF SourceCovered, Space

LEMMA SinkCoveredKept ==
  ASSUME Types, WindowSound, JustIssued, InOnePlace, Apart, UnwrittenCounts, CounterCovered,
         NEW in \in Inputs, Clock(in)
  PROVE  SinkCovered'
  <1> DEFINE i == Issue(in.indication_full)
  <1>0. \A sp \in Spaces : SinkBusy(sp, i) => sink_busy_r'[sp]
    <2>1. sink_busy_r' = [sp \in Spaces |-> SinkBusy(sp, i)]
      BY Zenon DEF Clock, ClockFlags
    <2> QED BY <2>1, Zenon
  <1> HIDE DEF i
  <1>1. \A sp \in Spaces : unwritten[sp] # 0 => sink_busy_r'[sp]
    <2>1. \A sp \in Spaces : unwritten[sp] # 0 => counter_busy_r[sp] BY DEF CounterCovered
    <2>2. \A sp \in Spaces : counter_busy_r[sp] => SinkBusy(sp, i) BY Zenon DEF SinkBusy
    <2> QED BY <1>0, <2>1, <2>2
  <1>2. ASSUME instruction_r' # None
        PROVE  sink_busy_r'[Space(instruction_r'.rec.dst, instruction_r'.rec.vm)]
    <2>1. PICK j \in Instr : j = i /\ j.op = "transfer" /\ instruction_r'.rec = j
      BY <1>2, InstructionStep DEF i
    <2>2. Starts(i, "transfer") BY <2>1, InstrFacts DEF Starts
    <2>3. Space(j.dst, j.vm) \in Spaces BY InstrFacts, SpaceFacts
    <2>4. SinkBusy(Space(j.dst, j.vm), i) BY <2>1, <2>2, Zenon DEF SinkBusy
    <2> QED BY <1>0, <2>1, <2>3, <2>4
  <1>3. ASSUME instruction_rr' # None
        PROVE  \/ sink_busy_r'[Space(instruction_rr'.rec.dst, instruction_rr'.rec.vm)]
               \/ /\ instruction_rr'.rec.dst = "sram"
                  /\ window'.slot1 # None /\ window'.slot1.op = "transfer"
                  /\ window'.slot1.vm # instruction_rr'.rec.vm
    <2>1. instruction_rr' = instruction_r /\ instruction_r # None
      BY <1>3 DEF Clock, ClockInstruction
    <2> DEFINE r == instruction_r.rec
               sp == Space(r.dst, r.vm)
    <2>2. r \in Instr BY <2>1, CmdFacts DEF Types
    <2>3. sp \in Spaces BY <2>2, InstrFacts, SpaceFacts
    <2>4. CASE r.dst # "sram"
      <3>1. SinkBusy(sp, i) BY <2>1, <2>4 DEF SinkBusy
      <3> QED BY <1>0, <2>1, <2>3, <3>1
    <2>5. CASE r.dst = "sram" /\ window.slot1.vm = r.vm
      <3>1. SinkBusy(sp, i) BY <2>1, <2>5 DEF SinkBusy
      <3> QED BY <1>0, <2>1, <2>3, <3>1
    <2>6. CASE r.dst = "sram" /\ window.slot1.vm # r.vm
      <3>1. /\ window.rdreq2 /\ ~window.rdreq1
            /\ Valid1(window) /\ window.slot1.op = "transfer"
        BY <2>1, <2>6 DEF JustIssued
      <3>2. window'.slot1 = window.slot1 BY <3>1, WindowStep
      <3> QED BY <2>1, <2>6, <3>1, <3>2 DEF Valid1
    <2> QED BY <2>4, <2>5, <2>6
  <1>4. ASSUME NEW sp \in Spaces, OnTheWay(sp)' # 0 PROVE sink_busy_r'[sp]
    <2>1. OnTheWay(sp)' = unwritten[sp] - (IF Written(sp, in.written) THEN 1 ELSE 0)
      BY OnTheWayNext
    <2>2. unwritten[sp] # 0 BY <1>4, <2>1, OnTheWayStep
    <2> QED BY <1>1, <2>2
  <1>5. ASSUME ddr_tx_busy' PROVE sink_busy_r'[Space("ddr", 0)]
    <2> DEFINE sp == Space("ddr", 0)
    <2>0. sp \in Spaces /\ sp[1] = "ddr" BY SpaceFacts DEF Buses, VMs
    <2>1. "ddr" \in in.written \/ ddr_tx_busy BY <1>5 DEF Clock
    <2>2. CASE ddr_tx_busy
      <3>1. SinkBusy(sp, i) BY <2>0, <2>2, Zenon DEF SinkBusy
      <3> QED BY <1>0, <2>0, <3>1
    <2>3. CASE "ddr" \in in.written
      <3>1. Space("ddr", Head(sinkq["ddr"]).vm) = sp BY DEF Space
      <3>2. Written(sp, in.written) BY <2>3, <3>1 DEF Written
      <3>3. unwritten[sp] # 0 BY <2>0, <3>2, OnTheWayStep
      <3> QED BY <1>1, <2>0, <3>3
    <2> QED BY <2>1, <2>2, <2>3
  <1>6. (instruction_rr # None =>
          \/ sink_busy_r[Space(instruction_rr.rec.dst, instruction_rr.rec.vm)]
          \/ Overtook(instruction_rr.rec.vm) /\ instruction_rr.rec.dst = "sram")'
    BY <1>3 DEF Overtook, Valid1, Space
  <1> QED BY <1>2, <1>4, <1>5, <1>6 DEF SinkCovered, Space

\* Flags that are low mean that nothing is under way, except in SRAM in the
\* clock after an overtaking.
LEMMA LowMeansIdle ==
  ASSUME Types, InOnePlace, SourceCovered, SinkCovered, NEW b \in Buses, NEW v \in VMs,
         ~source_busy_r[Space(b, v)], ~sink_busy_r[Space(b, v)],
         b = "sram" => ~Overtook(v)
  PROVE  ~InFlight(b, v)
  <1> DEFINE sp == Space(b, v)
  <1>0. sp \in Spaces /\ sp[1] = b BY SpaceFacts
  <1>1. ASSUME NEW e \in Engines, Using(e) # None, Using(e).vm = v PROVE Using(e).src # b
    BY <1>1 DEF SourceCovered
  <1>2. ~(instruction_r # None /\ Touches(instruction_r.rec, b, v))
    <2> SUFFICES ASSUME instruction_r # None, instruction_r.rec.vm = v,
                        b \in {instruction_r.rec.src, instruction_r.rec.dst}
                 PROVE  FALSE
      BY DEF Touches
    <2>1. instruction_r.which \in Engines /\ instruction_r.rec \in Instr
      BY CmdFacts DEF Types
    <2>2. Using(instruction_r.which) = instruction_r.rec BY <2>1, UsingFacts DEF First
    <2>3. instruction_r.rec # None BY <2>1, InstrFacts
    <2>4. instruction_r.rec.src # b BY <1>1, <2>1, <2>2, <2>3
    <2>5. instruction_r.rec.dst = b BY <2>4
    <2> QED BY <2>5 DEF SinkCovered
  <1>3. ~(instruction_rr # None /\ Touches(instruction_rr.rec, b, v))
    <2> SUFFICES ASSUME instruction_rr # None, instruction_rr.rec.vm = v,
                        b \in {instruction_rr.rec.src, instruction_rr.rec.dst}
                 PROVE  FALSE
      BY DEF Touches
    <2>1. instruction_rr.which \in Engines /\ instruction_rr.rec \in Instr
      BY CmdFacts DEF Types
    <2>2. Second(instruction_rr.which) BY DEF Second
    <2>3. Using(instruction_rr.which) = instruction_rr.rec
      BY <2>1, <2>2, UsingFacts, OnePlace
    <2>4. instruction_rr.rec # None BY <2>1, InstrFacts
    <2>5. instruction_rr.rec.src # b BY <1>1, <2>1, <2>3, <2>4
    <2>6. instruction_rr.rec.dst = b BY <2>5
    <2> QED BY <2>6 DEF SinkCovered
  <1>4. OnTheWay(sp) = 0 BY <1>0 DEF SinkCovered
  <1>5. /\ GenWords(gen[0], sp) = 0 /\ GenWords(gen[1], sp) = 0
        /\ QueuedWords(sinkq[b], sp) = 0
    <2>1. GenWords(gen[0], sp) \in Nat /\ GenWords(gen[1], sp) \in Nat
      BY GenWordsType DEF Engines
    <2>2. QueuedWords(sinkq[b], sp) \in Nat BY <1>0, QueuedType
    <2>3. GenWords(gen[0], sp) + GenWords(gen[1], sp) + QueuedWords(sinkq[b], sp) = 0
      BY <1>0, <1>4 DEF OnTheWay
    <2> HIDE DEF sp
    <2> QED BY <2>1, <2>2, <2>3
  <1>6. ASSUME NEW e \in Engines, gen[e] # None PROVE ~Touches(gen[e].rec, b, v)
    <2>1. Using(e) = gen[e].rec /\ Using(e) # None BY <1>6, GenIsUsing
    <2>2. GenWords(gen[e], sp) = 0 BY <1>5 DEF Engines
    <2>3. ~Into(gen[e].rec, sp) BY <1>6, <2>2, GenWordsType
    <2> QED BY <1>1, <2>1, <2>3 DEF Touches, Into
  <1>7. \A k \in 1 .. Len(reads[b]) : reads[b][k].vm # v BY DEF SourceCovered
  <1>8. \A k \in 1 .. Len(sinkq[b]) : sinkq[b][k].vm # v
    BY <1>0, <1>5, QueuedType
  <1>9. b = "ddr" => ~ddr_tx_busy BY DEF SinkCovered, Space
  <1>10. DOMAIN reads[b] = 1 .. Len(reads[b]) /\ DOMAIN sinkq[b] = 1 .. Len(sinkq[b])
    BY LenProperties DEF Types
  <1> HIDE DEF sp
  <1> QED BY <1>2, <1>3, <1>6, <1>7, <1>8, <1>9, <1>10 DEF InFlight

\* Nothing gets into SRAM but by a transfer that starts.
LEMMA FlightStep ==
  ASSUME Types, WindowSound, InOnePlace, NEW in \in Inputs, Clock(in), NEW v \in VMs,
         ~InFlight("sram", v),
         Starts(Issue(in.indication_full), "transfer") =>
           ~Touches(Issue(in.indication_full), "sram", v)
  PROVE  ~InFlight("sram", v)'
  <1> DEFINE b == "sram"
  <1>0. b \in Buses BY DEF Buses
  <1>1. /\ ~(instruction_r # None /\ Touches(instruction_r.rec, b, v))
        /\ ~(instruction_rr # None /\ Touches(instruction_rr.rec, b, v))
        /\ \A e \in Engines : gen[e] # None => ~Touches(gen[e].rec, b, v)
        /\ \A k \in DOMAIN reads[b] : reads[b][k].vm # v
        /\ \A k \in DOMAIN sinkq[b] : sinkq[b][k].vm # v
    BY DEF InFlight
  <1>2. ~(instruction_r' # None /\ Touches(instruction_r'.rec, b, v))
    <2> SUFFICES ASSUME instruction_r' # None PROVE ~Touches(instruction_r'.rec, b, v)
      OBVIOUS
    <2>1. PICK j \in Instr : /\ j = Issue(in.indication_full) /\ j.op = "transfer"
                             /\ instruction_r' = [which |-> ready_which(j), rec |-> j]
      BY InstructionStep
    <2>2. Starts(j, "transfer") BY <2>1, InstrFacts DEF Starts
    <2>3. ~Touches(j, b, v) BY <2>1, <2>2
    <2> QED BY <2>1, <2>3
  <1>3. ~(instruction_rr' # None /\ Touches(instruction_rr'.rec, b, v))
    BY <1>1, InstructionStep
  <1>4. \A e \in Engines : gen'[e] # None => ~Touches(gen'[e].rec, b, v)
    BY <1>1, PlacesStep DEF Second
  <1>5. \A k \in DOMAIN reads'[b] : reads'[b][k].vm # v
    <2> DEFINE rest == ReadsLeft(b, in)
    <2>1. reads[b] \in Seq(Reads) /\ rest \in Seq(Reads)
          /\ (b \in in.answered => reads[b] # <<>>)
      BY <1>0, ReadsLeftFacts DEF Types
    <2>2. /\ Len(reads[b]) \in Nat /\ Len(rest) \in Nat
          /\ DOMAIN reads[b] = 1 .. Len(reads[b]) /\ DOMAIN rest = 1 .. Len(rest)
      BY <2>1, LenProperties
    <2>3. \A l \in 1 .. Len(rest) : rest[l].vm # v
      <3>1. CASE b \in in.answered
        <4>1. rest = Tail(reads[b]) BY <3>1 DEF ReadsLeft
        <4>2. Len(rest) = Len(reads[b]) - 1
              /\ \A l \in 1 .. Len(rest) : rest[l] = reads[b][l + 1]
          BY <2>1, <3>1, <4>1, HeadTailProperties
        <4>3. \A l \in 1 .. Len(rest) : l + 1 \in 1 .. Len(reads[b]) BY <2>2, <4>2
        <4> HIDE DEF rest
        <4> QED BY <1>1, <2>2, <4>2, <4>3
      <3>2. CASE b \notin in.answered BY <1>1, <2>2, <3>2 DEF ReadsLeft
      <3> QED BY <3>1, <3>2
    <2>4. CASE reads'[b] = rest BY <2>2, <2>3, <2>4
    <2>5. CASE reads'[b] # rest
      <3>1. PICK e \in in.accepted \ in.eof :
              gen[e].rec.src = b /\ reads'[b] = Append(rest, ReadOf(e))
        BY <1>0, <2>5, ReadsStep
      <3>2. e \in Engines /\ gen[e] # None /\ ReadOf(e) \in Reads /\ gen[e].rec.op = "transfer"
        BY AcceptedFacts DEF ReadOf, Reads
      <3>3. /\ Len(reads'[b]) = Len(rest) + 1 /\ reads'[b][Len(rest) + 1] = ReadOf(e)
            /\ \A l \in 1 .. Len(rest) : reads'[b][l] = rest[l]
            /\ reads'[b] \in Seq(Reads)
        BY <2>1, <3>1, <3>2, AppendProperties
      <3>4. ReadOf(e).vm # v BY <1>1, <3>1, <3>2 DEF ReadOf, Touches
      <3>5. DOMAIN reads'[b] = 1 .. Len(reads'[b]) BY <3>3, LenProperties
      <3> HIDE DEF rest
      <3>6. \A k \in DOMAIN reads'[b] : k \in 1 .. Len(rest) \/ k = Len(rest) + 1
        BY <2>2, <3>3, <3>5
      <3> QED BY <2>3, <3>3, <3>4, <3>6
    <2> QED BY <2>4, <2>5
  <1>6. \A k \in DOMAIN sinkq'[b] : sinkq'[b][k].vm # v
    <2> DEFINE rest == QueueLeft(b, in)
    <2>1. sinkq[b] \in Seq(Requests) /\ rest \in Seq(Requests)
          /\ (b \in in.written => sinkq[b] # <<>>)
      BY <1>0, QueueLeftFacts
    <2>2. /\ Len(sinkq[b]) \in Nat /\ Len(rest) \in Nat
          /\ DOMAIN sinkq[b] = 1 .. Len(sinkq[b]) /\ DOMAIN rest = 1 .. Len(rest)
      BY <2>1, LenProperties
    <2>3. \A l \in 1 .. Len(rest) : rest[l].vm # v
      <3>1. CASE b \in in.written
        <4>1. rest = Tail(sinkq[b]) BY <3>1 DEF QueueLeft
        <4>2. Len(rest) = Len(sinkq[b]) - 1
              /\ \A l \in 1 .. Len(rest) : rest[l] = sinkq[b][l + 1]
          BY <2>1, <3>1, <4>1, HeadTailProperties, SMTT(30)
        <4>3. \A l \in 1 .. Len(rest) : l + 1 \in 1 .. Len(sinkq[b]) BY <2>2, <4>2
        <4> HIDE DEF rest
        <4> QED BY <1>1, <2>2, <4>2, <4>3
      <3>2. CASE b \notin in.written BY <1>1, <2>2, <3>2 DEF QueueLeft
      <3> QED BY <3>1, <3>2
    <2>4. CASE sinkq'[b] = rest BY <2>2, <2>3, <2>4
    <2>5. CASE sinkq'[b] # rest
      <3>1. PICK e \in in.accepted :
              gen[e].rec.dst = b /\ sinkq'[b] = Append(rest, Entry(e, in.eof))
        BY <1>0, <2>5, QueueStep
      <3>2. /\ e \in Engines /\ gen[e] # None /\ gen[e].rec.op = "transfer"
            /\ Entry(e, in.eof) \in Requests /\ Entry(e, in.eof).vm = gen[e].rec.vm
        BY AcceptedFacts, EntryType
      <3>3. /\ Len(sinkq'[b]) = Len(rest) + 1 /\ sinkq'[b][Len(rest) + 1] = Entry(e, in.eof)
            /\ \A l \in 1 .. Len(rest) : sinkq'[b][l] = rest[l]
            /\ sinkq'[b] \in Seq(Requests)
        BY <2>1, <3>1, <3>2, AppendProperties
      <3>4. Entry(e, in.eof).vm # v BY <1>1, <3>1, <3>2 DEF Touches
      <3>5. DOMAIN sinkq'[b] = 1 .. Len(sinkq'[b]) BY <3>3, LenProperties
      <3> HIDE DEF rest
      <3>6. \A k \in DOMAIN sinkq'[b] : k \in 1 .. Len(rest) \/ k = Len(rest) + 1
        BY <2>2, <3>3, <3>5
      <3> QED BY <2>3, <3>3, <3>4, <3>6
    <2> QED BY <2>4, <2>5
  <1> QED BY <1>2, <1>3, <1>4, <1>5, <1>6 DEF InFlight, Touches

LEMMA FpuKept ==
  ASSUME Types, WindowSound, InOnePlace, SourceCovered, SinkCovered, FpuFlagged, FpuAlone,
         NEW in \in Inputs, Clock(in)
  PROVE  FpuFlagged' /\ FpuAlone'
  <1> DEFINE i == Issue(in.indication_full)
  <1>1. ASSUME NEW v \in VMs, fpu_exe_r'[v] PROVE fpu_busy_vm_r'[v]
    BY <1>1, FpuStep, Zenon
  <1>2. ASSUME NEW v \in VMs, fpu_exe_r'[v] \/ fpu_busy_vm_in'[v]
        PROVE  ~InFlight("sram", v)'
    <2>0. Space("sram", v) \in Spaces BY SpaceFacts DEF Buses
    <2>1. CASE fpu_exe_r'[v]
      <3>1. Starts(i, "fpu_exe") /\ i.vm = v BY <2>1, FpuStep, Zenon
      <3>2. i # None /\ i.op = "fpu_exe" BY <3>1 DEF Starts
      <3>3. Starting(i) BY <3>2, IssuedFacts, Zenon
      <3> HIDE DEF i
      <3>4. ~FpuWaits(v) BY <3>1, <3>2, <3>3 DEF Starting, Pauses
      <3>5. ~source_busy_r[Space("sram", v)] /\ ~sink_busy_r[Space("sram", v)]
        BY <3>4 DEF FpuWaits, condition_busy
      <3>6. i = window.slot1 BY <3>2, <3>3 DEF Starting, OutOfOrderOk
      <3>7. ~Overtook(v) BY <3>2, <3>6 DEF Overtook
      <3>8. ~InFlight("sram", v) BY <3>5, <3>7, LowMeansIdle DEF Buses
      <3>9. ~Starts(i, "transfer") BY <3>2 DEF Starts
      <3> QED BY <3>8, <3>9, FlightStep DEF i
    <2>2. CASE fpu_busy_vm_in'[v]
      <3>1. fpu_exe_r[v] \/ fpu_busy_vm_in[v] BY <2>2, FpuStep, Zenon
      <3>2. ~InFlight("sram", v) BY <3>1 DEF FpuAlone
      <3>3. fpu_busy_vm(v) BY <3>1 DEF FpuFlagged, fpu_busy_vm
      <3>4. Starts(i, "transfer") => ~Touches(i, "sram", v)
        <4> SUFFICES ASSUME Starts(i, "transfer"), Touches(i, "sram", v) PROVE FALSE
          OBVIOUS
        <4>1. i # None /\ i.op = "transfer" BY DEF Starts
        <4>2. Starting(i) BY <4>1, IssuedFacts, Zenon
        <4> HIDE DEF i
        <4>3. ~FpuBlocks(i) BY <4>1, <4>2 DEF Starting, Pauses
        <4>4. i.vm = v BY DEF Touches
        <4> QED BY <3>3, <4>3, <4>4 DEF FpuBlocks
      <3> QED BY <3>2, <3>4, FlightStep
    <2> QED BY <1>2, <2>1, <2>2
  <1> QED BY <1>1, <1>2 DEF FpuFlagged, FpuAlone

-----------------------------------------------------------------------------
(* The invariant holds at first and is kept. *)

LEMMA InitTypes == Init => Types /\ Orderly
  <1> SUFFICES ASSUME Init PROVE Types /\ Orderly OBVIOUS
  <1> USE DEF Init, MoveInit
  <1>1. window \in Windows BY DEF Windows, EmptyWindow
  <1>2. /\ gen \in [Engines -> Gens \cup {None}]
        /\ \A e \in Engines : gen[e] = None
    OBVIOUS
  <1>3. pend \in [Buses -> [Buses -> [VMs -> Int]]] OBVIOUS
  <1>4. reads \in [Buses -> Seq(Reads)] /\ sinkq \in [Buses -> Seq(Requests)]
    BY EmptySeq
  <1>5. /\ wr_full_r \in [Buses -> BOOLEAN] /\ gen_busy_dest_r \in [Buses -> BOOLEAN]
        /\ safe_r \in [Buses -> [Buses -> BOOLEAN]]
    OBVIOUS
  <1>6. /\ source_busy_r \in [Spaces -> BOOLEAN] /\ counter_busy_r \in [Spaces -> BOOLEAN]
        /\ sink_busy_r \in [Spaces -> BOOLEAN] /\ unwritten \in [Spaces -> Int]
    BY DEF NoSpace
  <1>7. /\ task_r \in BOOLEAN /\ task_vm_r \in VMs /\ task_busy \in [VMs -> BOOLEAN]
        /\ ddr_tx_busy \in BOOLEAN
    BY DEF NoVM, VMs
  <1>8. /\ fpu_exe_r \in [VMs -> BOOLEAN] /\ fpu_exe_rr \in [VMs -> BOOLEAN]
        /\ fpu_busy_vm_r \in [VMs -> BOOLEAN] /\ fpu_idle_r \in [VMs -> BOOLEAN]
        /\ fpu_busy_vm_in \in [VMs -> BOOLEAN]
    BY DEF NoVM
  <1>9. Types
    BY <1>1, <1>2, <1>3, <1>4, <1>5, <1>6, <1>7, <1>8, Zenon DEF Types
  <1>10. WindowSound /\ JustIssued BY DEF WindowSound, JustIssued, EmptyWindow
  <1>11. InOnePlace BY DEF InOnePlace
  <1>12. Using(0) = None BY DEF Using, gen_ready, Engines
  <1>13. Apart BY <1>12 DEF Apart
  <1> QED BY <1>9, <1>10, <1>11, <1>13 DEF Orderly

LEMMA InitRest == Init => Accounted /\ Covered /\ SinkRoom /\ FpuFlagged /\ FpuAlone
  <1> SUFFICES ASSUME Init PROVE Accounted /\ Covered /\ SinkRoom /\ FpuFlagged /\ FpuAlone
    OBVIOUS
  <1>1. Types BY InitTypes
  <1>2. /\ instruction_r = None /\ instruction_rr = None
        /\ \A e \in Engines : gen[e] = None /\ Using(e) = None
    BY DEF Init, MoveInit, Using, gen_ready
  <1>3. /\ \A b \in Buses : reads[b] = <<>> /\ sinkq[b] = <<>>
        /\ \A d, s \in Buses : ~safe_r[s][d] /\ \A v \in VMs : pend[d][s][v] = 0
        /\ \A sp \in Spaces : unwritten[sp] = 0
        /\ \A v \in VMs : ~fpu_exe_r[v] /\ ~fpu_busy_vm_in[v]
        /\ ~ddr_tx_busy
    BY DEF Init, MoveInit, NoVM
  <1>4. Len(<<>>) = 0 /\ <<>> \in Seq({}) BY EmptySeq
  <1>5. \A S : Num(<<>>, S) = 0
    <2> TAKE S
    <2>1. Num(<<>>, S) = 0 <=> \A k \in 1 .. Len(<<>>) : <<>>[k] \notin S
      BY <1>4, NumBounds
    <2> QED BY <1>4, <2>1
  <1>6. SafeIsClear /\ UsedIsClear BY <1>2, <1>3 DEF SafeIsClear, UsedIsClear
  <1>7. PendCounts BY <1>3, <1>5 DEF PendCounts
  <1>8. OneSink BY <1>3, <1>4 DEF OneSink
  <1>9. \A sp \in Spaces : OnTheWay(sp) = 0
    BY <1>2, <1>3, <1>5, SpaceOf DEF OnTheWay, GenWords, QueuedWords, Engines
  <1>10. UnwrittenCounts BY <1>2, <1>3, <1>9 DEF UnwrittenCounts, LatchedWords
  <1>11. SourceCovered BY <1>2, <1>3, <1>4 DEF SourceCovered
  <1>12. CounterCovered BY <1>3 DEF CounterCovered
  <1>13. SinkCovered BY <1>2, <1>3, <1>9 DEF SinkCovered
  <1>14. SinkRoom BY <1>3, <1>4, DpMoveAssumption DEF SinkRoom
  <1>15. FpuFlagged /\ FpuAlone BY <1>3 DEF FpuFlagged, FpuAlone
  <1> QED BY <1>6, <1>7, <1>8, <1>10, <1>11, <1>12, <1>13, <1>14, <1>15
          DEF Accounted, Covered

LEMMA ClockKeeps ==
  ASSUME IInv, NEW in \in Inputs, Clock(in)
  PROVE  IInv'
  <1>1. /\ Types /\ WindowSound /\ JustIssued /\ InOnePlace /\ Apart
        /\ SafeIsClear /\ UsedIsClear /\ PendCounts /\ OneSink /\ UnwrittenCounts
        /\ SourceCovered /\ CounterCovered /\ SinkCovered
        /\ SinkRoom /\ FpuFlagged /\ FpuAlone
    BY Zenon DEF IInv, Orderly, Accounted, Covered
  <1>2. Types' /\ WindowSound' BY <1>1, TypesKept
  <1>3. JustIssued' BY <1>1, JustIssuedKept
  <1>4. InOnePlace' BY <1>1, InOnePlaceKept
  <1>5. Apart' BY <1>1, ApartKept
  <1>6. SafeIsClear' BY <1>1, SafeIsClearKept
  <1>7. UsedIsClear' BY <1>1, UsedIsClearKept
  <1>8. PendCounts' BY <1>1, PendCountsKept
  <1>9. OneSink' BY <1>1, OneSinkKept
  <1>10. UnwrittenCounts' BY <1>1, UnwrittenCountsKept
  <1>11. SourceCovered' BY <1>1, SourceCoveredKept
  <1>12. CounterCovered' BY <1>1, CounterCoveredKept
  <1>13. SinkCovered' BY <1>1, SinkCoveredKept
  <1>14. SinkRoom' BY <1>1, SinkRoomKept
  <1>15. FpuFlagged' /\ FpuAlone' BY <1>1, FpuKept
  <1> QED BY <1>2, <1>3, <1>4, <1>5, <1>6, <1>7, <1>8, <1>9, <1>10, <1>11, <1>12, <1>13,
             <1>14, <1>15, Zenon DEF IInv, Orderly, Accounted, Covered

LEMMA StutterKeeps == IInv /\ UNCHANGED vars => IInv'
  <1> SUFFICES ASSUME IInv, UNCHANGED vars PROVE IInv' OBVIOUS
  <1>1. /\ gen' = gen /\ pend' = pend /\ wr_full_r' = wr_full_r
        /\ gen_busy_dest_r' = gen_busy_dest_r /\ reads' = reads /\ sinkq' = sinkq
        /\ workload' = workload /\ window' = window
        /\ instruction_r' = instruction_r /\ instruction_rr' = instruction_rr
        /\ safe_r' = safe_r /\ source_busy_r' = source_busy_r
        /\ counter_busy_r' = counter_busy_r /\ sink_busy_r' = sink_busy_r
        /\ unwritten' = unwritten
    BY DEF vars, move_vars, fetch_vars
  <1>2. /\ task_r' = task_r /\ task_vm_r' = task_vm_r /\ task_busy' = task_busy
        /\ fpu_exe_r' = fpu_exe_r /\ fpu_exe_rr' = fpu_exe_rr
        /\ fpu_busy_vm_r' = fpu_busy_vm_r /\ fpu_idle_r' = fpu_idle_r
        /\ fpu_busy_vm_in' = fpu_busy_vm_in /\ ddr_tx_busy' = ddr_tx_busy
    BY DEF vars, fetch_vars
  <1>3. Types' = Types BY <1>1, <1>2 DEF Types
  <1>4. Orderly' = Orderly
    BY <1>1 DEF Orderly, WindowSound, JustIssued, InOnePlace, Apart, Using, gen_ready
  <1>5. \A sp : OnTheWay(sp)' = OnTheWay(sp) BY <1>1 DEF OnTheWay
  <1>6. Accounted' = Accounted
    <2>1. SafeIsClear' = SafeIsClear BY <1>1, Zenon DEF SafeIsClear, Clear
    <2>0. \A e \in Engines : Using(e)' = Using(e) BY <1>1 DEF Using, gen_ready
    <2>2. UsedIsClear' = UsedIsClear BY <1>1, <2>0 DEF UsedIsClear, Clear
    <2>3. PendCounts' = PendCounts /\ OneSink' = OneSink BY <1>1 DEF PendCounts, OneSink
    <2>4. UnwrittenCounts' = UnwrittenCounts BY <1>1, <1>5 DEF UnwrittenCounts
    <2> QED BY <2>1, <2>2, <2>3, <2>4, Zenon DEF Accounted
  <1>7. Covered' = Covered
    BY <1>1, <1>2, <1>5 DEF Covered, SourceCovered, CounterCovered, SinkCovered, Overtook,
                            Using, gen_ready
  <1>8. SinkRoom' = SinkRoom /\ FpuFlagged' = FpuFlagged
    BY <1>1, <1>2 DEF SinkRoom, FpuFlagged
  <1>9. FpuAlone' = FpuAlone BY <1>1, <1>2 DEF FpuAlone, InFlight
  <1> QED BY <1>3, <1>4, <1>6, <1>7, <1>8, <1>9, Zenon DEF IInv

LEMMA Invariance == Spec => []IInv
  <1>1. Init => IInv BY InitTypes, InitRest DEF IInv
  <1>2. IInv /\ [Next]_vars => IInv'
    <2> SUFFICES ASSUME IInv, [Next]_vars PROVE IInv' OBVIOUS
    <2>1. CASE Next BY <2>1, ClockKeeps DEF Next
    <2>2. CASE UNCHANGED vars BY <2>2, StutterKeeps
    <2> QED BY <2>1, <2>2
  <1> QED BY <1>1, <1>2, PTL DEF Spec

-----------------------------------------------------------------------------
(* The properties. *)

LEMMA InvParts ==
  IInv => /\ Types /\ WindowSound /\ JustIssued /\ InOnePlace /\ Apart
          /\ SafeIsClear /\ UsedIsClear /\ PendCounts /\ OneSink /\ UnwrittenCounts
          /\ SourceCovered /\ CounterCovered /\ SinkCovered
          /\ SinkRoom /\ FpuFlagged /\ FpuAlone
  BY Zenon DEF IInv, Orderly, Accounted, Covered

LEMMA UnwrittenIsNat ==
  ASSUME Types, UnwrittenCounts, NEW sp \in Spaces
  PROVE  unwritten[sp] \in Nat
  <1>1. GenWords(gen[0], sp) \in Nat /\ GenWords(gen[1], sp) \in Nat
    BY GenWordsType DEF Engines
  <1>2. QueuedWords(sinkq[sp[1]], sp) \in Nat BY QueuedType
  <1>3. LatchedWords(instruction_rr, sp) \in Nat BY LatchedType
  <1>4. unwritten[sp] = LatchedWords(instruction_rr, sp) + (GenWords(gen[0], sp)
                          + GenWords(gen[1], sp) + QueuedWords(sinkq[sp[1]], sp))
    BY DEF UnwrittenCounts, OnTheWay
  <1> QED BY <1>1, <1>2, <1>3, <1>4

\* Type correctness, the counters of pending reads and of unwritten words
\* included: dp_source's and dp_fetch's counters never go below zero.
THEOREM TypeCorrect == Spec => []TypeOK
  <1>1. IInv => TypeOK
    <2> SUFFICES ASSUME IInv PROVE TypeOK OBVIOUS
    <2>0. Types /\ PendCounts /\ UnwrittenCounts BY InvParts
    <2>1. {window.slot1, window.slot2} \subseteq Instr \cup {None}
      BY <2>0 DEF Types, Windows
    <2>2. \A e \in Engines :
            gen[e] # None => /\ gen[e].rec \in Instr
                             /\ gen[e].clocks < gen[e].rec.count + GenStages
      BY <2>0, GenFacts
    <2>3. \A d, s \in Buses, v \in VMs : pend[d][s][v] \in Nat BY <2>0, PendFacts
    <2>4. unwritten \in [Spaces -> Nat]
      <3>1. \A sp \in Spaces : unwritten[sp] \in Nat BY <2>0, UnwrittenIsNat
      <3>2. unwritten \in [Spaces -> Int] BY <2>0 DEF Types
      <3> QED BY <3>1, <3>2
    <2>5. /\ {source_busy_r, counter_busy_r, sink_busy_r} \subseteq [Spaces -> BOOLEAN]
          /\ task_r \in BOOLEAN /\ task_vm_r \in VMs
          /\ {task_busy, fpu_exe_r, fpu_exe_rr, fpu_busy_vm_r, fpu_idle_r, fpu_busy_vm_in}
               \subseteq [VMs -> BOOLEAN]
      BY <2>0, Zenon DEF Types
    <2> QED BY <2>1, <2>2, <2>3, <2>4, <2>5, Zenon DEF TypeOK
  <1> QED BY <1>1, Invariance, PTL

\* No sink's fifo overflows: what the two clocks between its full flag and the
\* engines let in still fits, whatever the depth and the margin of two or more.
THEOREM SinksHaveRoom == Spec => []SinksNeverOverflow
  <1>1. IInv => SinksNeverOverflow
    <2> SUFFICES ASSUME IInv, NEW d \in Buses PROVE Len(sinkq[d]) <= SinkDepth
      BY DEF SinksNeverOverflow
    <2>0. Types /\ SinkRoom BY InvParts
    <2>1. Len(sinkq[d]) <= SinkDepth - SinkMargin + 2 BY <2>0 DEF SinkRoom
    <2>2. Len(sinkq[d]) \in Nat BY <2>0, LenProperties DEF Types
    <2> QED BY <2>1, <2>2, DpMoveAssumption
  <1> QED BY <1>1, Invariance, PTL

\* Every answer of a bus is taken by the sink that asked for it and by no
\* other: new_cmd_is_safe keeps all reads of a bus to one sink.
THEOREM AnswersFindTheirSink == Spec => []AnswersReachTheirSink
  <1>1. IInv => AnswersReachTheirSink
    <2> SUFFICES ASSUME IInv, NEW s \in Buses, reads[s] # <<>>
                 PROVE  /\ Claims(s) = {Head(reads[s]).dst}
                        /\ pend[Head(reads[s]).dst][s][Head(reads[s]).vm] > 0
      BY DEF AnswersReachTheirSink
    <2>0. Types /\ PendCounts /\ OneSink BY InvParts
    <2> QED BY <2>0, OneClaim
  <1> QED BY <1>1, Invariance, PTL

\* task2 launches no task while a transfer of its process is on its way to or
\* from the cores.
THEOREM TasksRunAlone == Spec => []TaskAlone
  <1>1. IInv => TaskAlone
    <2> SUFFICES ASSUME IInv, task2 PROVE ~InFlight("register", task_vm_r)
      BY DEF TaskAlone
    <2>0. Types /\ InOnePlace /\ SourceCovered /\ SinkCovered BY InvParts
    <2>1. "register" \in Buses /\ task_vm_r \in VMs BY <2>0 DEF Buses, Types
    <2>2. /\ ~source_busy_r[Space("register", task_vm_r)]
          /\ ~sink_busy_r[Space("register", task_vm_r)]
      BY DEF task2
    <2> QED BY <2>0, <2>1, <2>2, LowMeansIdle
  <1> QED BY <1>1, Invariance, PTL

\* The FPU works for a process only while none of its transfers uses SRAM.
THEOREM FpuRunsAlone == Spec => []FpuAlone
  <1>1. IInv => FpuAlone BY InvParts
  <1> QED BY <1>1, Invariance, PTL

\* An instruction that waits for buses starts when no transfer it waits for is
\* under way: the one clock in which a flag of SRAM is low too early comes
\* after an overtaking, and what may start then does not wait for that flag.
THEOREM FlushesAreHonoured == Spec => []FlushHonoured
  <1>1. IInv => FlushHonoured
    <2> DEFINE i == Issue(FALSE)
               Procs == IF i.op = "transfer" THEN {i.vm} ELSE VMs
    <2> SUFFICES ASSUME IInv, i # None, i.op # "fpu_exe",
                        NEW b \in i.cond \cap Buses, NEW v \in Procs
                 PROVE  ~InFlight(b, v)
      BY Zenon DEF FlushHonoured
    <2>0. Types /\ WindowSound /\ InOnePlace /\ SourceCovered /\ SinkCovered
      BY InvParts
    <2>1. Starting(i) BY <2>0, IssueFacts
    <2> HIDE DEF i
    <2>2. i \in Instr /\ i.vm \in VMs BY <2>1, InstrFacts DEF Starting
    <2>3. v \in VMs BY <2>2
    <2>4. ~Waits(i)
      <3>1. i \in InstrType BY <2>2, WorkloadsAssumption
      <3>2. i.op \in {"transfer", "exec_vm", "indication"} BY <3>1 DEF InstrType
      <3> QED BY <2>1, <3>2 DEF Starting, Pauses
    <2>5. ~condition_busy(b, v) BY <2>4 DEF Waits
    <2>6. b # "fpu_idle" BY DEF Buses
    <2>7. ~source_busy_r[Space(b, v)] /\ ~sink_busy_r[Space(b, v)]
      BY <2>5, <2>6 DEF condition_busy
    <2>8. ~Overtook(v)
      <3> SUFFICES ASSUME Overtook(v) PROVE FALSE OBVIOUS
      <3>1. window.slot1.op = "transfer" /\ window.slot1.vm # v BY DEF Overtook
      <3>2. CASE i = window.slot1
        <4>1. v = i.vm BY <3>1, <3>2
        <4> QED BY <3>1, <3>2, <4>1
      <3>3. CASE i # window.slot1
        <4>1. i.cond = {} BY <2>1, <3>3 DEF Starting, OutOfOrderOk
        <4> QED BY <4>1
      <3> QED BY <3>2, <3>3
    <2> QED BY <2>0, <2>3, <2>7, <2>8, LowMeansIdle
  <1> QED BY <1>1, Invariance, PTL

-----------------------------------------------------------------------------
(* Words meet their requests: the rank of a request among those that wait for *)
(* a word, and how matching is kept at both ends of the queues.               *)

LEMMA RankBounds ==
  ASSUME NEW q, NEW n \in Nat
  PROVE  IsFiniteSet({m \in 1 .. n : q[m].data}) /\ Rank(q, n) \in Nat
  <1>1. IsFiniteSet(1 .. n) BY FS_Interval
  <1>2. {m \in 1 .. n : q[m].data} \subseteq 1 .. n OBVIOUS
  <1>3. IsFiniteSet({m \in 1 .. n : q[m].data}) BY <1>1, <1>2, FS_Subset
  <1> QED BY <1>3, FS_CardinalityType DEF Rank

LEMMA RankNone == ASSUME NEW q PROVE Rank(q, 0) = 0
  <1>1. {m \in 1 .. 0 : q[m].data} = {} OBVIOUS
  <1> QED BY <1>1, FS_EmptySet DEF Rank

LEMMA RankNext ==
  ASSUME NEW q, NEW n \in Nat
  PROVE  Rank(q, n + 1) = Rank(q, n) + (IF q[n + 1].data THEN 1 ELSE 0)
  <1> DEFINE P == {m \in 1 .. n : q[m].data}
             R == {m \in 1 .. n + 1 : q[m].data}
  <1>1. IsFiniteSet(P) /\ Cardinality(P) \in Nat BY RankBounds DEF Rank
  <1>2. n + 1 \notin P OBVIOUS
  <1>3. CASE q[n + 1].data
    <2>1. R = P \cup {n + 1} BY <1>3
    <2>2. Cardinality(R) = Cardinality(P) + 1 BY <1>1, <1>2, <2>1, FS_AddElement
    <2> QED BY <1>3, <2>2 DEF Rank
  <1>4. CASE ~q[n + 1].data
    <2>1. R = P BY <1>4
    <2> HIDE DEF P, R
    <2>2. Cardinality(R) = Cardinality(P) + 0 BY <1>1, <2>1
    <2> QED BY <1>4, <2>2 DEF Rank, P, R
  <1> QED BY <1>3, <1>4

LEMMA RankSame ==
  ASSUME NEW q, NEW r, NEW n \in Nat, \A m \in 1 .. n : q[m] = r[m]
  PROVE  Rank(q, n) = Rank(r, n)
  <1>1. {m \in 1 .. n : q[m].data} = {m \in 1 .. n : r[m].data} OBVIOUS
  <1> QED BY <1>1 DEF Rank

LEMMA RankTail ==
  ASSUME NEW q, NEW r, NEW n \in Nat, \A m \in 1 .. n : r[m] = q[m + 1]
  PROVE  Rank(q, n + 1) = Rank(r, n) + (IF q[1].data THEN 1 ELSE 0)
  <1> DEFINE P == {m \in 1 .. n + 1 : q[m].data}
             R == {m \in 1 .. n : r[m].data}
             f == [m \in R |-> m + 1]
  <1>0. n + 1 \in Nat OBVIOUS
  <1>1. IsFiniteSet(P) /\ Cardinality(P) \in Nat BY <1>0, RankBounds DEF Rank
  <1>2. IsFiniteSet(R) /\ Cardinality(R) \in Nat BY RankBounds DEF Rank
  <1>3. f \in Bijection(R, P \ {1})
    <2>1. \A l \in R : l + 1 \in P \ {1} OBVIOUS
    <2>2. \A l \in P \ {1} : l - 1 \in R
      <3> SUFFICES ASSUME NEW l \in P \ {1} PROVE l - 1 \in R OBVIOUS
      <3>1. l - 1 \in 1 .. n /\ (l - 1) + 1 = l OBVIOUS
      <3>2. r[l - 1] = q[(l - 1) + 1] BY <3>1
      <3> QED BY <3>1, <3>2
    <2>3. f \in [R -> P \ {1}] BY <2>1
    <2>4. \A a, b \in R : f[a] = f[b] => a = b OBVIOUS
    <2>5. \A l \in P \ {1} : f[l - 1] = l BY <2>2
    <2>6. \A l \in P \ {1} : \E a \in R : f[a] = l BY <2>2, <2>5
    <2> HIDE DEF P, R, f
    <2> QED BY <2>3, <2>4, <2>6 DEF Bijection, Injection, Surjection, IsInjective
  <1>4. Cardinality(P \ {1}) = Cardinality(R)
    BY <1>1, <1>2, <1>3, FS_Bijection DEF ExistsBijection
  <1>5. Cardinality(P \ {1}) = IF 1 \in P THEN Cardinality(P) - 1 ELSE Cardinality(P)
    BY <1>1, FS_RemoveElement
  <1>6. 1 \in P <=> q[1].data OBVIOUS
  <1> HIDE DEF P, R
  <1>7. Cardinality(P) = Cardinality(R) + (IF q[1].data THEN 1 ELSE 0)
    BY <1>1, <1>2, <1>4, <1>5, <1>6
  <1> QED BY <1>7 DEF P, R, Rank

WordFor(x, d) == [src |-> x.src, vm |-> x.vm, dst |-> d]

LEMMA MatchesDef ==
  ASSUME NEW q, NEW c, NEW d
  PROVE  Matches(q, c, d) <=>
           /\ Rank(q, Len(q)) = Len(c)
           /\ \A k \in 1 .. Len(c) : \E n \in 1 .. Len(q) :
                q[n].data /\ k = Rank(q, n) /\ c[k] = WordFor(q[n], d)
  BY DEF Matches, WordFor

\* A request that carries its own data is appended to the queue.
LEMMA MatchAppendOther ==
  ASSUME NEW q \in Seq(Requests), NEW c \in Seq(Words), NEW d \in Buses, Matches(q, c, d),
         NEW x \in Requests, ~x.data
  PROVE  Matches(Append(q, x), c, d)
  <1> DEFINE r == Append(q, x)
  <1>0. Len(q) \in Nat BY LenProperties
  <1>1. /\ Len(r) = Len(q) + 1 /\ r[Len(q) + 1] = x
        /\ \A k \in 1 .. Len(q) : r[k] = q[k]
    BY AppendProperties, <1>0
  <1> HIDE DEF r
  <1>2. \A n \in 0 .. Len(q) : Rank(r, n) = Rank(q, n)
    <2> TAKE n \in 0 .. Len(q)
    <2>1. n \in Nat /\ \A m \in 1 .. n : r[m] = q[m] BY <1>0, <1>1
    <2> QED BY <2>1, RankSame
  <1>3. Rank(r, Len(r)) = Rank(q, Len(q))
    <2>1. Rank(r, Len(q) + 1) = Rank(r, Len(q)) + (IF r[Len(q) + 1].data THEN 1 ELSE 0)
      BY <1>0, RankNext
    <2>2. Rank(r, Len(q)) = Rank(q, Len(q)) BY <1>0, <1>2
    <2>3. Rank(q, Len(q)) \in Nat BY <1>0, RankBounds
    <2> QED BY <1>1, <2>1, <2>2, <2>3
  <1>4. ASSUME NEW k \in 1 .. Len(c)
        PROVE  \E n \in 1 .. Len(r) : r[n].data /\ k = Rank(r, n) /\ c[k] = WordFor(r[n], d)
    <2>1. PICK n \in 1 .. Len(q) : q[n].data /\ k = Rank(q, n) /\ c[k] = WordFor(q[n], d)
      BY MatchesDef
    <2>2. n \in 1 .. Len(r) /\ n \in 0 .. Len(q) BY <1>0, <1>1
    <2> QED BY <1>1, <1>2, <2>1, <2>2
  <1>5. Rank(q, Len(q)) = Len(c) BY MatchesDef
  <1>6. Matches(r, c, d) BY <1>3, <1>4, <1>5, MatchesDef
  <1> QED BY <1>6 DEF r

\* A request and its read are appended, each to its queue.
LEMMA MatchAppendData ==
  ASSUME NEW q \in Seq(Requests), NEW c \in Seq(Words), NEW d \in Buses, Matches(q, c, d),
         NEW x \in Requests, x.data, NEW w \in Words, w = WordFor(x, d)
  PROVE  Matches(Append(q, x), Append(c, w), d)
  <1> DEFINE r == Append(q, x)
             e == Append(c, w)
  <1>0. Len(q) \in Nat /\ Len(c) \in Nat BY LenProperties
  <1>1. /\ Len(r) = Len(q) + 1 /\ r[Len(q) + 1] = x
        /\ \A k \in 1 .. Len(q) : r[k] = q[k]
    BY AppendProperties, <1>0
  <1>2. /\ Len(e) = Len(c) + 1 /\ e[Len(c) + 1] = w
        /\ \A k \in 1 .. Len(c) : e[k] = c[k]
    BY AppendProperties, <1>0
  <1> HIDE DEF r, e
  <1>3. \A n \in 0 .. Len(q) : Rank(r, n) = Rank(q, n)
    <2> TAKE n \in 0 .. Len(q)
    <2>1. n \in Nat /\ \A m \in 1 .. n : r[m] = q[m] BY <1>0, <1>1
    <2> QED BY <2>1, RankSame
  <1>4. Rank(q, Len(q)) = Len(c) BY MatchesDef
  <1>5. Rank(r, Len(r)) = Len(e)
    <2>1. Rank(r, Len(q) + 1) = Rank(r, Len(q)) + (IF r[Len(q) + 1].data THEN 1 ELSE 0)
      BY <1>0, RankNext
    <2>2. Rank(r, Len(q)) = Rank(q, Len(q)) BY <1>0, <1>3
    <2> QED BY <1>0, <1>1, <1>2, <1>4, <2>1, <2>2
  <1>6. ASSUME NEW k \in 1 .. Len(e)
        PROVE  \E n \in 1 .. Len(r) : r[n].data /\ k = Rank(r, n) /\ e[k] = WordFor(r[n], d)
    <2>1. CASE k \in 1 .. Len(c)
      <3>1. PICK n \in 1 .. Len(q) : q[n].data /\ k = Rank(q, n) /\ c[k] = WordFor(q[n], d)
        BY <2>1, MatchesDef
      <3>2. n \in 1 .. Len(r) /\ n \in 0 .. Len(q) BY <1>0, <1>1
      <3> QED BY <1>1, <1>2, <1>3, <2>1, <3>1, <3>2
    <2>2. CASE k = Len(c) + 1
      <3>1. Len(r) \in 1 .. Len(r) BY <1>0, <1>1
      <3>2. r[Len(r)] = x BY <1>1
      <3>3. k = Rank(r, Len(r)) BY <1>2, <1>5, <2>2
      <3>4. e[k] = WordFor(r[Len(r)], d) BY <1>2, <2>2, <3>2
      <3> QED BY <3>1, <3>2, <3>3, <3>4
    <2>3. k \in 1 .. Len(c) \/ k = Len(c) + 1 BY <1>0, <1>2
    <2> QED BY <2>1, <2>2, <2>3
  <1>7. Matches(r, e, d) BY <1>5, <1>6, MatchesDef
  <1> QED BY <1>7 DEF r, e

\* The oldest request is written out, with its word if it waits for one.
LEMMA MatchTailOther ==
  ASSUME NEW q \in Seq(Requests), NEW c \in Seq(Words), NEW d \in Buses, Matches(q, c, d),
         q # <<>>, ~Head(q).data
  PROVE  Matches(Tail(q), c, d)
  <1> DEFINE r == Tail(q)
  <1>0. Len(q) \in Nat /\ Len(q) > 0 /\ Len(c) \in Nat BY LenProperties, EmptySeq
  <1>1. /\ Len(r) = Len(q) - 1 /\ Head(q) = q[1]
        /\ \A k \in 1 .. Len(r) : r[k] = q[k + 1]
    BY HeadTailProperties, <1>0
  <1> HIDE DEF r
  <1>2. \A n \in 0 .. Len(r) : Rank(q, n + 1) = Rank(r, n)
    <2> TAKE n \in 0 .. Len(r)
    <2>1. n \in Nat /\ \A m \in 1 .. n : r[m] = q[m + 1] BY <1>0, <1>1
    <2>2. Rank(q, n + 1) = Rank(r, n) + (IF q[1].data THEN 1 ELSE 0) BY <2>1, RankTail
    <2>3. Rank(r, n) \in Nat BY <2>1, RankBounds
    <2> QED BY <1>1, <2>2, <2>3
  <1>3. Rank(r, Len(r)) = Len(c)
    <2>1. Rank(q, Len(q)) = Len(c) BY MatchesDef
    <2>2. Len(r) \in 0 .. Len(r) /\ Len(r) + 1 = Len(q) BY <1>0, <1>1
    <2> QED BY <1>2, <2>1, <2>2
  <1>4. ASSUME NEW k \in 1 .. Len(c)
        PROVE  \E n \in 1 .. Len(r) : r[n].data /\ k = Rank(r, n) /\ c[k] = WordFor(r[n], d)
    <2>1. PICK n \in 1 .. Len(q) : q[n].data /\ k = Rank(q, n) /\ c[k] = WordFor(q[n], d)
      BY MatchesDef
    <2>2. n # 1 BY <1>1, <2>1
    <2>3. n - 1 \in 1 .. Len(r) /\ n - 1 \in 0 .. Len(r) /\ (n - 1) + 1 = n
      BY <1>0, <1>1, <2>2
    <2>4. r[n - 1] = q[n] /\ Rank(r, n - 1) = Rank(q, n) BY <1>1, <1>2, <2>3
    <2> QED BY <2>1, <2>3, <2>4
  <1>5. Matches(r, c, d) BY <1>3, <1>4, MatchesDef
  <1> QED BY <1>5 DEF r

LEMMA MatchTailData ==
  ASSUME NEW q \in Seq(Requests), NEW c \in Seq(Words), NEW d \in Buses, Matches(q, c, d),
         q # <<>>, Head(q).data, c # <<>>
  PROVE  Matches(Tail(q), Tail(c), d)
  <1> DEFINE r == Tail(q)
             e == Tail(c)
  <1>0. Len(q) \in Nat /\ Len(q) > 0 /\ Len(c) \in Nat /\ Len(c) > 0
    BY LenProperties, EmptySeq
  <1>1. /\ Len(r) = Len(q) - 1 /\ Head(q) = q[1]
        /\ \A k \in 1 .. Len(r) : r[k] = q[k + 1]
    BY HeadTailProperties, <1>0
  <1>2. Len(e) = Len(c) - 1 /\ \A k \in 1 .. Len(e) : e[k] = c[k + 1]
    BY HeadTailProperties, <1>0
  <1> HIDE DEF r, e
  <1>3. \A n \in 0 .. Len(r) : Rank(q, n + 1) = Rank(r, n) + 1 /\ Rank(r, n) \in Nat
    <2> TAKE n \in 0 .. Len(r)
    <2>1. n \in Nat /\ \A m \in 1 .. n : r[m] = q[m + 1] BY <1>0, <1>1
    <2>2. Rank(q, n + 1) = Rank(r, n) + (IF q[1].data THEN 1 ELSE 0) BY <2>1, RankTail
    <2>3. Rank(r, n) \in Nat BY <2>1, RankBounds
    <2> QED BY <1>1, <2>2, <2>3
  <1>4. Rank(r, Len(r)) = Len(e)
    <2>1. Rank(q, Len(q)) = Len(c) BY MatchesDef
    <2>2. Len(r) \in 0 .. Len(r) /\ Len(r) + 1 = Len(q) BY <1>0, <1>1
    <2>3. Len(c) = Rank(r, Len(r)) + 1 /\ Rank(r, Len(r)) \in Nat BY <1>3, <2>1, <2>2
    <2> QED BY <1>0, <1>2, <2>3
  <1>5. ASSUME NEW k \in 1 .. Len(e)
        PROVE  \E n \in 1 .. Len(r) : r[n].data /\ k = Rank(r, n) /\ e[k] = WordFor(r[n], d)
    <2>0. k + 1 \in 1 .. Len(c) BY <1>0, <1>2
    <2>1. PICK n \in 1 .. Len(q) :
            q[n].data /\ k + 1 = Rank(q, n) /\ c[k + 1] = WordFor(q[n], d)
      BY <2>0, MatchesDef
    <2>2. n # 1
      <3>1. Rank(q, 0 + 1) = Rank(q, 0) + (IF q[0 + 1].data THEN 1 ELSE 0) BY RankNext
      <3>2. Rank(q, 1) = 1 BY <1>1, <3>1, RankNone
      <3> QED BY <2>1, <3>2
    <2>3. n - 1 \in 1 .. Len(r) /\ n - 1 \in 0 .. Len(r) /\ (n - 1) + 1 = n
      BY <1>0, <1>1, <2>2
    <2>4. /\ r[n - 1] = q[n] /\ Rank(q, n) = Rank(r, n - 1) + 1
          /\ Rank(r, n - 1) \in Nat
      BY <1>1, <1>3, <2>3
    <2>5. k = Rank(r, n - 1) BY <2>1, <2>4
    <2> QED BY <1>2, <2>1, <2>3, <2>4, <2>5
  <1>6. Matches(r, e, d) BY <1>4, <1>5, MatchesDef
  <1> QED BY <1>6 DEF r, e

-----------------------------------------------------------------------------
(* The words a sink is still to get. *)

TagOf(s, x) == [src |-> s, vm |-> x.vm, dst |-> x.dst]

LEMMA TagFacts ==
  ASSUME NEW s \in Buses, NEW r \in Seq(Reads)
  PROVE  /\ Tag(s, r) \in Seq(Words) /\ Len(Tag(s, r)) = Len(r)
         /\ \A k \in 1 .. Len(r) : Tag(s, r)[k] = TagOf(s, r[k])
  <1>1. Len(r) \in Nat BY LenProperties
  <1>2. \A k \in 1 .. Len(r) : TagOf(s, r[k]) \in Words
    <2>1. \A k \in 1 .. Len(r) : r[k] \in Reads BY ElementOfSeq
    <2> QED BY <2>1 DEF TagOf, Reads, Words
  <1>3. Tag(s, r) = [k \in 1 .. Len(r) |-> TagOf(s, r[k])] BY DEF Tag, TagOf
  <1>4. Tag(s, r) \in [1 .. Len(r) -> Words] BY <1>2, <1>3
  <1>5. Tag(s, r) \in Seq(Words) BY <1>1, <1>4, IsASeq
  <1>6. Len(Tag(s, r)) = Len(r) BY <1>1, <1>4, <1>5, LenProperties
  <1> QED BY <1>3, <1>5, <1>6

LEMMA TagAppend ==
  ASSUME NEW s \in Buses, NEW r \in Seq(Reads), NEW x \in Reads
  PROVE  Tag(s, Append(r, x)) = Append(Tag(s, r), TagOf(s, x)) /\ TagOf(s, x) \in Words
  <1> DEFINE a == Append(r, x)
             t == Tag(s, r)
             w == TagOf(s, x)
             u == Append(t, w)
             z == Tag(s, a)
  <1>0. Len(r) \in Nat BY LenProperties
  <1>1. w \in Words BY DEF TagOf, Reads, Words
  <1>2. /\ a \in Seq(Reads) /\ Len(a) = Len(r) + 1 /\ a[Len(r) + 1] = x
        /\ \A k \in 1 .. Len(r) : a[k] = r[k]
    BY AppendProperties, <1>0
  <1>3. t \in Seq(Words) /\ Len(t) = Len(r) /\ \A k \in 1 .. Len(r) : t[k] = TagOf(s, r[k])
    BY TagFacts
  <1> HIDE DEF a
  <1>4. z \in Seq(Words) /\ Len(z) = Len(a) /\ \A k \in 1 .. Len(a) : z[k] = TagOf(s, a[k])
    BY <1>2, TagFacts
  <1> HIDE DEF t, z, w
  <1>5. /\ u \in Seq(Words) /\ Len(u) = Len(t) + 1 /\ u[Len(t) + 1] = w
        /\ \A k \in 1 .. Len(t) : u[k] = t[k]
    BY <1>1, <1>3, AppendProperties
  <1> HIDE DEF u
  <1>6. \A k \in 1 .. Len(z) : z[k] = u[k]
    <2> TAKE k \in 1 .. Len(z)
    <2>1. CASE k \in 1 .. Len(r) BY <1>2, <1>3, <1>4, <1>5, <2>1
    <2>2. CASE k = Len(r) + 1 BY <1>2, <1>3, <1>4, <1>5, <2>2 DEF w
    <2>3. k \in 1 .. Len(r) \/ k = Len(r) + 1 BY <1>0, <1>2, <1>4
    <2> QED BY <2>1, <2>2, <2>3
  <1>7. Len(z) = Len(u) BY <1>2, <1>3, <1>4, <1>5
  <1>8. z = u BY <1>4, <1>5, <1>6, <1>7, SeqEqual
  <1> QED BY <1>1, <1>8 DEF z, u, w, a, t

LEMMA TagTail ==
  ASSUME NEW s \in Buses, NEW r \in Seq(Reads), r # <<>>
  PROVE  /\ Tag(s, r) # <<>> /\ Tag(s, Tail(r)) = Tail(Tag(s, r))
         /\ Head(Tag(s, r)) = TagOf(s, Head(r))
  <1> DEFINE a == Tail(r)
             t == Tag(s, r)
             u == Tail(t)
             z == Tag(s, a)
  <1>0. Len(r) \in Nat /\ Len(r) > 0 BY LenProperties, EmptySeq
  <1>1. /\ a \in Seq(Reads) /\ Len(a) = Len(r) - 1 /\ Head(r) = r[1]
        /\ \A k \in 1 .. Len(a) : a[k] = r[k + 1]
    BY HeadTailProperties, <1>0
  <1>2. t \in Seq(Words) /\ Len(t) = Len(r) /\ \A k \in 1 .. Len(r) : t[k] = TagOf(s, r[k])
    BY TagFacts
  <1> HIDE DEF a
  <1>3. z \in Seq(Words) /\ Len(z) = Len(a) /\ \A k \in 1 .. Len(a) : z[k] = TagOf(s, a[k])
    BY <1>1, TagFacts
  <1> HIDE DEF t, z
  <1>4. t # <<>> BY <1>0, <1>2, EmptySeq
  <1>5. /\ u \in Seq(Words) /\ Len(u) = Len(t) - 1 /\ Head(t) = t[1]
        /\ \A k \in 1 .. Len(u) : u[k] = t[k + 1]
    BY <1>2, <1>4, HeadTailProperties
  <1> HIDE DEF u
  <1>6. \A k \in 1 .. Len(z) : z[k] = u[k]
    <2> TAKE k \in 1 .. Len(z)
    <2>1. k \in 1 .. Len(a) /\ k \in 1 .. Len(u) /\ k + 1 \in 1 .. Len(r)
      BY <1>0, <1>1, <1>2, <1>3, <1>5
    <2> QED BY <1>1, <1>2, <1>3, <1>5, <2>1
  <1>7. Len(z) = Len(u) BY <1>1, <1>2, <1>3, <1>5
  <1>8. z = u BY <1>3, <1>5, <1>6, <1>7, SeqEqual
  <1>9. Head(t) = TagOf(s, Head(r)) BY <1>0, <1>1, <1>2, <1>5
  <1> QED BY <1>4, <1>8, <1>9 DEF z, u, a, t

LEMMA TaggedType ==
  ASSUME NEW s \in Buses, NEW r \in Seq(Reads), NEW d
  PROVE  Tagged(r, s, d) \in Seq(Words) /\ (Tagged(r, s, d) # <<>> <=> r # <<>> /\ Head(r).dst = d)
  BY TagFacts, TagTail, EmptySeq DEF Tagged

\* A read that goes where those before it go.
LEMMA TaggedAppend ==
  ASSUME NEW s \in Buses, NEW r \in Seq(Reads), NEW x \in Reads, NEW d,
         r # <<>> => Head(r).dst = x.dst
  PROVE  /\ Tagged(Append(r, x), s, d) = (IF x.dst = d THEN Append(Tagged(r, s, d), TagOf(s, x))
                                         ELSE Tagged(r, s, d))
         /\ TagOf(s, x) \in Words
  <1>0. Append(r, x) # <<>> /\ Len(r) \in Nat BY AppendProperties, EmptySeq, LenProperties
  <1>1. Tag(s, Append(r, x)) = Append(Tag(s, r), TagOf(s, x)) /\ TagOf(s, x) \in Words
    BY TagAppend
  <1>2. Head(Append(r, x)).dst = x.dst
    <2>1. CASE r = <<>> BY <2>1
    <2>2. CASE r # <<>>
      <3>1. Head(Append(r, x)) = Head(r) BY <2>2, HeadTailAppend
      <3> QED BY <2>2, <3>1
    <2> QED BY <2>1, <2>2
  <1>3. CASE x.dst # d
    <2>1. Tagged(Append(r, x), s, d) = <<>> BY <1>2, <1>3 DEF Tagged
    <2>2. Tagged(r, s, d) = <<>> BY <1>3 DEF Tagged
    <2> QED BY <1>1, <1>3, <2>1, <2>2
  <1>4. CASE x.dst = d
    <2>1. Tagged(Append(r, x), s, d) = Append(Tag(s, r), TagOf(s, x))
      BY <1>0, <1>1, <1>2, <1>4 DEF Tagged
    <2>2. Tagged(r, s, d) = Tag(s, r)
      <3>1. CASE r = <<>>
        <4>1. Len(Tag(s, r)) = 0 /\ Tag(s, r) \in Seq(Words) BY <3>1, TagFacts, EmptySeq
        <4>2. Tag(s, r) = <<>> BY <4>1, EmptySeq
        <4> QED BY <3>1, <4>2 DEF Tagged
      <3>2. CASE r # <<>> BY <1>4, <3>2 DEF Tagged
      <3> QED BY <3>1, <3>2
    <2> QED BY <1>1, <1>4, <2>1, <2>2
  <1> QED BY <1>3, <1>4

WordsLeft(d, in) ==
  IF d \in in.written /\ Head(sinkq[d]).data THEN Tail(sinkdata[d]) ELSE sinkdata[d]

TowardLeft(s, d, in) ==
  IF s \in in.answered /\ Toward(s, d) # <<>> THEN Tail(Toward(s, d)) ELSE Toward(s, d)

LEMMA TowardLeftFacts ==
  ASSUME Types, OneSink, NEW in \in Inputs, NEW s \in Buses, NEW d
  PROVE  Tagged(ReadsLeft(s, in), s, d) = TowardLeft(s, d, in)
  <1> DEFINE r == reads[s]
  <1>0. r \in Seq(Reads) BY DEF Types
  <1>1. CASE s \notin in.answered BY <1>1 DEF ReadsLeft, TowardLeft, Toward
  <1>2. CASE s \in in.answered
    <2>1. r # <<>> /\ ReadsLeft(s, in) = Tail(r) BY <1>2, ReadsLeftFacts DEF ReadsLeft
    <2>2. /\ Len(r) \in Nat /\ Len(r) > 0 /\ Head(r) = r[1] /\ Tail(r) \in Seq(Reads)
          /\ Len(Tail(r)) = Len(r) - 1 /\ \A k \in 1 .. Len(Tail(r)) : Tail(r)[k] = r[k + 1]
      BY <1>0, <2>1, LenProperties, EmptySeq, HeadTailProperties
    <2>3. Tail(r) # <<>> => Head(Tail(r)).dst = Head(r).dst
      <3> SUFFICES ASSUME Tail(r) # <<>> PROVE Head(Tail(r)).dst = Head(r).dst OBVIOUS
      <3>1. Len(Tail(r)) > 0 BY <2>2, EmptySeq
      <3>2. Head(Tail(r)) = r[2] BY <2>2, <3>1, HeadTailProperties
      <3>3. 1 \in 1 .. Len(r) /\ 2 \in 1 .. Len(r) BY <2>2, <3>1
      <3> QED BY <2>2, <3>2, <3>3 DEF OneSink
    <2>4. Tag(s, r) # <<>> /\ Tag(s, Tail(r)) = Tail(Tag(s, r)) BY <1>0, <2>1, TagTail
    <2>5. CASE Head(r).dst # d
      <3>1. Toward(s, d) = <<>> /\ Tagged(Tail(r), s, d) = <<>>
        BY <2>3, <2>5 DEF Toward, Tagged
      <3> QED BY <2>1, <3>1 DEF TowardLeft
    <2>6. CASE Head(r).dst = d
      <3>1. Toward(s, d) = Tag(s, r) BY <2>1, <2>6 DEF Toward, Tagged
      <3>2. TowardLeft(s, d, in) = Tag(s, Tail(r)) BY <1>2, <2>4, <3>1 DEF TowardLeft
      <3>3. CASE Tail(r) = <<>>
        <4>1. Len(Tag(s, Tail(r))) = 0 /\ Tag(s, Tail(r)) \in Seq(Words)
          BY <2>2, <3>3, TagFacts, EmptySeq
        <4>2. Tag(s, Tail(r)) = <<>> BY <4>1, EmptySeq
        <4> QED BY <2>1, <3>2, <3>3, <4>2 DEF Tagged
      <3>4. CASE Tail(r) # <<>> BY <2>1, <2>3, <2>6, <3>2, <3>4 DEF Tagged
      <3> QED BY <3>3, <3>4
    <2> QED BY <2>5, <2>6
  <1> QED BY <1>1, <1>2

\* The reads toward d after a clock.
LEMMA TowardStep ==
  ASSUME Types, WindowSound, InOnePlace, Apart, UsedIsClear, PendCounts, OneSink,
         NEW in \in Inputs, Clock(in), NEW s \in Buses, NEW d \in Buses
  PROVE  /\ (\A e \in in.accepted \ in.eof : ~(gen[e].rec.src = s /\ gen[e].rec.dst = d))
              => Tagged(reads'[s], s, d) = TowardLeft(s, d, in)
         /\ \A e \in in.accepted \ in.eof : gen[e].rec.src = s /\ gen[e].rec.dst = d =>
              /\ Tagged(reads'[s], s, d)
                   = Append(TowardLeft(s, d, in), TagOf(s, ReadOf(e)))
              /\ TagOf(s, ReadOf(e)) \in Words
  <1> DEFINE rest == ReadsLeft(s, in)
  <1>0. rest \in Seq(Reads) /\ Tagged(rest, s, d) = TowardLeft(s, d, in)
    BY ReadsLeftFacts, TowardLeftFacts
  <1>1. CASE \A e \in in.accepted \ in.eof : gen[e].rec.src # s
    <2>1. reads'[s] = rest BY <1>1, ReadsStep
    <2> QED BY <1>0, <1>1, <2>1
  <1>2. CASE ~\A e \in in.accepted \ in.eof : gen[e].rec.src # s
    <2>1. PICK e \in in.accepted \ in.eof :
            gen[e].rec.src = s /\ reads'[s] = Append(rest, ReadOf(e))
      BY <1>2, ReadsStep
    <2>2. ReadOf(e) \in Reads BY AcceptedFacts DEF ReadOf, Reads
    <2>3. rest # <<>> => Head(rest).dst = ReadOf(e).dst
      <3> SUFFICES ASSUME rest # <<>> PROVE Head(rest).dst = ReadOf(e).dst OBVIOUS
      <3>1. Len(rest) \in Nat /\ Len(rest) > 0 /\ Head(rest) = rest[1]
        BY <1>0, LenProperties, EmptySeq, HeadTailProperties
      <3>2. /\ Len(reads'[s]) = Len(rest) + 1 /\ reads'[s][Len(rest) + 1] = ReadOf(e)
            /\ \A k \in 1 .. Len(rest) : reads'[s][k] = rest[k]
        BY <1>0, <2>1, <2>2, AppendProperties
      <3>3. OneSink' BY OneSinkKept
      <3>4. 1 \in 1 .. Len(reads'[s]) /\ Len(rest) + 1 \in 1 .. Len(reads'[s])
            /\ 1 \in 1 .. Len(rest)
        BY <3>1, <3>2
      <3>5. reads'[s][1].dst = reads'[s][Len(rest) + 1].dst BY <3>3, <3>4 DEF OneSink
      <3> QED BY <3>1, <3>2, <3>4, <3>5
    <2>4. /\ Tagged(reads'[s], s, d) = (IF ReadOf(e).dst = d
                                       THEN Append(Tagged(rest, s, d), TagOf(s, ReadOf(e)))
                                       ELSE Tagged(rest, s, d))
          /\ TagOf(s, ReadOf(e)) \in Words
      BY <1>0, <2>1, <2>2, <2>3, TaggedAppend
    <2>5. ReadOf(e).dst = gen[e].rec.dst BY DEF ReadOf
    <2>6. \A f \in in.accepted : gen[f].rec.src = s => f = e BY <2>1, OneAsks
    <2> HIDE DEF rest
    <2> QED BY <1>0, <2>1, <2>4, <2>5, <2>6
  <1> QED BY <1>1, <1>2

\* The words of sink d after a clock, when s is the bus whose reads go to it.
LEMMA SinkdataStep ==
  ASSUME Types, PendCounts, OneSink, NEW in \in Inputs, Clock(in),
         NEW d \in Buses, NEW s \in Buses, \A t \in Buses \ {s} : Toward(t, d) = <<>>
  PROVE  sinkdata'[d] = IF s \in in.answered /\ Toward(s, d) # <<>>
                        THEN Append(WordsLeft(d, in), Head(Toward(s, d)))
                        ELSE WordsLeft(d, in)
  <1> DEFINE from == {t \in in.answered : d \in Claims(t)}
             rest == WordsLeft(d, in)
             c    == CHOOSE t \in from : TRUE
  <1>1. sinkdata' = [x \in Buses |->
       LET frm == {t \in in.answered : x \in Claims(t)}
           rst == IF x \in in.written /\ Head(sinkq[x]).data
                   THEN Tail(sinkdata[x]) ELSE sinkdata[x]
       IN  IF frm = {} THEN rst
           ELSE LET t == CHOOSE t \in frm : TRUE
                IN  Append(rst, [src |-> t, vm |-> Head(reads[t]).vm,
                                 dst |-> Head(reads[t]).dst])]
    BY Zenon DEF Clock, MoveClock, ClockSinks
  <1>2. sinkdata'[d] = IF from = {} THEN rest ELSE Append(rest, TagOf(c, Head(reads[c])))
    BY <1>1 DEF WordsLeft, TagOf
  <1>3. ASSUME NEW t \in in.answered
        PROVE  t \in Buses /\ reads[t] # <<>> /\ (d \in Claims(t) <=> Head(reads[t]).dst = d)
    <2>1. t \in Buses /\ reads[t] # <<>> BY InputFacts
    <2> QED BY <2>1, OneClaim
  <1>4. \A t \in Buses : reads[t] \in Seq(Reads) BY DEF Types
  <1>5. \A t \in in.answered : d \in Claims(t) <=> Toward(t, d) # <<>>
    BY <1>3, <1>4, TaggedType DEF Toward
  <1>6. CASE s \in in.answered /\ Toward(s, d) # <<>>
    <2>1. from = {s} BY <1>3, <1>5, <1>6
    <2>2. c = s BY <2>1
    <2>3. reads[s] # <<>> /\ Head(reads[s]).dst = d BY <1>3, <1>5, <1>6
    <2>4. Toward(s, d) = Tag(s, reads[s]) BY <2>3 DEF Toward, Tagged
    <2>5. Head(Toward(s, d)) = TagOf(s, Head(reads[s])) BY <1>4, <2>3, <2>4, TagTail
    <2> HIDE DEF c, from, rest
    <2>6. sinkdata'[d] = Append(rest, Head(Toward(s, d))) BY <1>2, <2>1, <2>2, <2>5
    <2> QED BY <1>6, <2>6 DEF rest
  <1>7. CASE ~(s \in in.answered /\ Toward(s, d) # <<>>)
    <2>1. from = {} BY <1>3, <1>5, <1>7
    <2> HIDE DEF c, from, rest
    <2>2. sinkdata'[d] = rest BY <1>2, <2>1
    <2> QED BY <1>7, <2>2 DEF rest
  <1> QED BY <1>6, <1>7

LEMMA TailConcat ==
  ASSUME NEW T, NEW a \in Seq(T), NEW b \in Seq(T), a # <<>>
  PROVE  /\ a \o b \in Seq(T) /\ a \o b # <<>> /\ Tail(a \o b) = Tail(a) \o b
  <1> DEFINE c == a \o b
             x == Tail(c)
             t == Tail(a)
             y == t \o b
  <1>0. Len(a) \in Nat /\ Len(b) \in Nat /\ Len(a) > 0 BY LenProperties, EmptySeq
  <1>1. /\ c \in Seq(T) /\ Len(c) = Len(a) + Len(b)
        /\ \A k \in 1 .. Len(a) + Len(b) :
             c[k] = IF k <= Len(a) THEN a[k] ELSE b[k - Len(a)]
    BY ConcatProperties
  <1>2. t \in Seq(T) /\ Len(t) = Len(a) - 1 /\ \A k \in 1 .. Len(t) : t[k] = a[k + 1]
    BY HeadTailProperties
  <1> HIDE DEF c, t
  <1>3. c # <<>> BY <1>0, <1>1, EmptySeq
  <1>4. x \in Seq(T) /\ Len(x) = Len(c) - 1 /\ \A k \in 1 .. Len(x) : x[k] = c[k + 1]
    BY <1>1, <1>3, HeadTailProperties
  <1>5. /\ y \in Seq(T) /\ Len(y) = Len(t) + Len(b)
        /\ \A k \in 1 .. Len(t) + Len(b) :
             y[k] = IF k <= Len(t) THEN t[k] ELSE b[k - Len(t)]
    BY <1>2, ConcatProperties
  <1> HIDE DEF x, y
  <1>6. Len(x) = Len(y) BY <1>0, <1>1, <1>2, <1>4, <1>5
  <1>7. \A k \in 1 .. Len(x) : x[k] = y[k]
    <2> TAKE k \in 1 .. Len(x)
    <2>1. x[k] = c[k + 1] /\ k + 1 \in 1 .. Len(a) + Len(b) BY <1>0, <1>1, <1>4
    <2>2. k \in 1 .. Len(t) + Len(b) BY <1>5, <1>6
    <2>3. CASE k <= Len(t)
      <3>1. k + 1 <= Len(a) /\ k \in 1 .. Len(t) BY <1>0, <1>2, <2>2, <2>3
      <3> QED BY <1>1, <1>2, <1>5, <2>1, <2>2, <2>3, <3>1
    <2>4. CASE ~(k <= Len(t))
      <3>1. ~(k + 1 <= Len(a)) /\ (k + 1) - Len(a) = k - Len(t) BY <1>0, <1>2, <2>4
      <3> QED BY <1>1, <1>5, <2>1, <2>2, <2>4, <3>1
    <2> QED BY <2>3, <2>4
  <1>8. x = y BY <1>4, <1>5, <1>6, <1>7, SeqEqual
  <1> QED BY <1>1, <1>3, <1>8 DEF x, y, c, t

LEMMA MoveHead ==
  ASSUME NEW T, NEW a \in Seq(T), NEW b \in Seq(T), b # <<>>
  PROVE  Append(a, Head(b)) \in Seq(T) /\ Append(a, Head(b)) \o Tail(b) = a \o b
  <1> DEFINE h == Head(b)
             t == Tail(b)
             p == Append(a, h)
             x == p \o t
             y == a \o b
  <1>0. Len(a) \in Nat /\ Len(b) \in Nat /\ Len(b) > 0 BY LenProperties, EmptySeq
  <1>1. /\ t \in Seq(T) /\ Len(t) = Len(b) - 1 /\ \A k \in 1 .. Len(t) : t[k] = b[k + 1]
        /\ h \in T /\ h = b[1]
    BY HeadTailProperties
  <1>2. /\ y \in Seq(T) /\ Len(y) = Len(a) + Len(b)
        /\ \A k \in 1 .. Len(a) + Len(b) :
             y[k] = IF k <= Len(a) THEN a[k] ELSE b[k - Len(a)]
    BY ConcatProperties
  <1> HIDE DEF h, t
  <1>3. /\ p \in Seq(T) /\ Len(p) = Len(a) + 1 /\ p[Len(a) + 1] = h
        /\ \A k \in 1 .. Len(a) : p[k] = a[k]
    BY <1>1, AppendProperties
  <1> HIDE DEF p
  <1>4. /\ x \in Seq(T) /\ Len(x) = Len(p) + Len(t)
        /\ \A k \in 1 .. Len(p) + Len(t) :
             x[k] = IF k <= Len(p) THEN p[k] ELSE t[k - Len(p)]
    BY <1>1, <1>3, ConcatProperties
  <1> HIDE DEF x, y
  <1>5. Len(x) = Len(y) BY <1>0, <1>1, <1>2, <1>3, <1>4
  <1>6. \A k \in 1 .. Len(x) : x[k] = y[k]
    <2> TAKE k \in 1 .. Len(x)
    <2>1. k \in 1 .. Len(a) + Len(b) /\ k \in 1 .. Len(p) + Len(t) BY <1>2, <1>4, <1>5
    <2>2. CASE k <= Len(a)
      <3>1. k <= Len(p) /\ k \in 1 .. Len(a) BY <1>0, <1>3, <2>1, <2>2
      <3> QED BY <1>2, <1>3, <1>4, <2>1, <2>2, <3>1
    <2>3. CASE k = Len(a) + 1
      <3>1. k <= Len(p) /\ ~(k <= Len(a)) /\ k - Len(a) = 1 BY <1>0, <1>3, <2>3
      <3>2. x[k] = p[k] /\ y[k] = b[k - Len(a)] BY <1>2, <1>4, <2>1, <3>1
      <3> QED BY <1>1, <1>3, <2>3, <3>1, <3>2
    <2>4. CASE k > Len(a) + 1
      <3>1. ~(k <= Len(p)) /\ ~(k <= Len(a)) BY <1>0, <1>3, <2>4
      <3>2. x[k] = t[k - Len(p)] /\ y[k] = b[k - Len(a)] BY <1>2, <1>4, <2>1, <3>1
      <3>3. k - Len(p) \in 1 .. Len(t) /\ (k - Len(p)) + 1 = k - Len(a)
        BY <1>0, <1>1, <1>3, <2>1, <2>4
      <3>4. t[k - Len(p)] = b[(k - Len(p)) + 1] BY <1>1, <3>3
      <3> QED BY <3>2, <3>3, <3>4
    <2> QED BY <1>0, <2>1, <2>2, <2>3, <2>4
  <1>7. x = y BY <1>2, <1>4, <1>5, <1>6, SeqEqual
  <1> QED BY <1>3, <1>7 DEF x, y, p, t, h

LEMMA AppendConcat ==
  ASSUME NEW T, NEW a \in Seq(T), NEW b \in Seq(T), NEW w \in T
  PROVE  a \o Append(b, w) = Append(a \o b, w)
  <1> DEFINE p == Append(b, w)
             c == a \o b
             x == a \o p
             y == Append(c, w)
  <1>0. Len(a) \in Nat /\ Len(b) \in Nat BY LenProperties
  <1>1. /\ p \in Seq(T) /\ Len(p) = Len(b) + 1 /\ p[Len(b) + 1] = w
        /\ \A k \in 1 .. Len(b) : p[k] = b[k]
    BY AppendProperties
  <1>2. /\ c \in Seq(T) /\ Len(c) = Len(a) + Len(b)
        /\ \A k \in 1 .. Len(a) + Len(b) :
             c[k] = IF k <= Len(a) THEN a[k] ELSE b[k - Len(a)]
    BY ConcatProperties
  <1> HIDE DEF p, c
  <1>3. /\ x \in Seq(T) /\ Len(x) = Len(a) + Len(p)
        /\ \A k \in 1 .. Len(a) + Len(p) :
             x[k] = IF k <= Len(a) THEN a[k] ELSE p[k - Len(a)]
    BY <1>1, ConcatProperties
  <1>4. /\ y \in Seq(T) /\ Len(y) = Len(c) + 1 /\ y[Len(c) + 1] = w
        /\ \A k \in 1 .. Len(c) : y[k] = c[k]
    <2>1. c \in Seq(T) BY <1>2
    <2> QED BY <2>1, AppendProperties, SMTT(30)
  <1> HIDE DEF x, y
  <1>5. Len(x) = Len(y) BY <1>0, <1>1, <1>2, <1>3, <1>4
  <1>6. \A k \in 1 .. Len(x) : x[k] = y[k]
    <2> TAKE k \in 1 .. Len(x)
    <2>0. k \in 1 .. Len(a) + Len(p) BY <1>3
    <2>1. CASE k <= Len(a)
      <3>1. k \in 1 .. Len(a) + Len(b) /\ k \in 1 .. Len(c) BY <1>0, <1>2, <2>0, <2>1
      <3> QED BY <1>2, <1>3, <1>4, <2>0, <2>1, <3>1
    <2>2. CASE ~(k <= Len(a)) /\ k <= Len(c)
      <3>1. /\ k \in 1 .. Len(a) + Len(b) /\ k \in 1 .. Len(c)
            /\ k - Len(a) \in 1 .. Len(b)
        BY <1>0, <1>2, <2>0, <2>2
      <3> QED BY <1>1, <1>2, <1>3, <1>4, <2>0, <2>2, <3>1
    <2>3. CASE k = Len(c) + 1
      <3>1. ~(k <= Len(a)) /\ k - Len(a) = Len(b) + 1 BY <1>0, <1>2, <2>3
      <3>2. x[k] = p[k - Len(a)] BY <1>3, <2>0, <3>1
      <3> QED BY <1>1, <1>4, <2>3, <3>1, <3>2
    <2> QED BY <1>0, <1>1, <1>2, <2>0, <2>1, <2>2, <2>3
  <1>7. x = y BY <1>3, <1>4, <1>5, <1>6, SeqEqual
  <1> QED BY <1>7 DEF x, y, p, c

\* The bus whose reads go to sink d, that of a new read included.
FeedsAlone(s, d, in) ==
  /\ \A t \in Buses \ {s} : Toward(t, d) = <<>>
  /\ Matches(sinkq[d], sinkdata[d] \o Toward(s, d), d)
  /\ \A e \in in.accepted \ in.eof : gen[e].rec.dst = d => gen[e].rec.src = s

LEMMA FeederExists ==
  ASSUME Types, InOnePlace, Apart, UsedIsClear, PendCounts, Paired, NEW in \in Inputs, NEW d \in Buses
  PROVE  \E s \in Buses : FeedsAlone(s, d, in)
  <1>1. PICK s \in Buses : /\ \A t \in Buses \ {s} : Toward(t, d) = <<>>
                           /\ Matches(sinkq[d], sinkdata[d] \o Toward(s, d), d)
    BY DEF Paired
  <1>2. CASE \A e \in in.accepted \ in.eof : gen[e].rec.dst # d
    BY <1>1, <1>2 DEF FeedsAlone
  <1>3. CASE ~\A e \in in.accepted \ in.eof : gen[e].rec.dst # d
    <2>1. PICK e \in in.accepted \ in.eof : gen[e].rec.dst = d BY <1>3
    <2> DEFINE u == gen[e].rec.src
    <2>2. e \in Engines /\ u \in Buses /\ Using(e) = gen[e].rec /\ Using(e) # None
      BY AcceptedFacts, GenIsUsing
    <2>3. Clear(u, d) BY <2>1, <2>2 DEF UsedIsClear
    <2>4. \A f \in in.accepted \ in.eof : gen[f].rec.dst = d => gen[f].rec.src = u
      BY <2>1, OneAsks
    <2> HIDE DEF u
    <2>5. ASSUME NEW t \in Buses \ {u} PROVE Toward(t, d) = <<>>
      <3> SUFFICES ASSUME Toward(t, d) # <<>> PROVE FALSE OBVIOUS
      <3>1. reads[t] \in Seq(Reads) BY DEF Types
      <3>2. reads[t] # <<>> /\ Head(reads[t]).dst = d BY <3>1, TaggedType DEF Toward
      <3>3. Len(reads[t]) \in Nat /\ Len(reads[t]) > 0 /\ Head(reads[t]) = reads[t][1]
        BY <3>1, <3>2, LenProperties, EmptySeq, HeadTailProperties
      <3>4. 1 \in 1 .. Len(reads[t]) BY <3>3
      <3>5. reads[t][1].vm \in VMs /\ pend[reads[t][1].dst][t][reads[t][1].vm] # 0
        BY <3>4, ReadIsPending
      <3> QED BY <2>3, <3>2, <3>3, <3>5 DEF Clear
    <2>6. Toward(s, d) = Toward(u, d) BY <1>1, <2>2, <2>5
    <2>7. Matches(sinkq[d], sinkdata[d] \o Toward(u, d), d) BY <1>1, <2>6
    <2> QED BY <2>2, <2>4, <2>5, <2>7 DEF FeedsAlone
  <1> QED BY <1>2, <1>3

LEMMA WordsLeftFacts ==
  ASSUME Types, Paired, NEW in \in Inputs, NEW d \in Buses, NEW s \in Buses,
         Matches(sinkq[d], sinkdata[d] \o Toward(s, d), d)
  PROVE  /\ WordsLeft(d, in) \in Seq(Words) /\ Toward(s, d) \in Seq(Words)
         /\ Matches(QueueLeft(d, in), WordsLeft(d, in) \o Toward(s, d), d)
  <1> DEFINE q == sinkq[d]
             w == sinkdata[d]
             T == Toward(s, d)
  <1>0. w \in Seq(Words) BY DEF Paired
  <1>1. T \in Seq(Words) BY TaggedType DEF Toward, Types
  <1>2. /\ q \in Seq(Requests) /\ QueueLeft(d, in) \in Seq(Requests)
        /\ d \in in.written => q # <<>> /\ Head(q) \in Requests
    BY QueueLeftFacts
  <1>3. w \o T \in Seq(Words) BY <1>0, <1>1, ConcatProperties
  <1>4. CASE d \notin in.written BY <1>0, <1>1, <1>4 DEF WordsLeft, QueueLeft
  <1>5. CASE d \in in.written /\ ~Head(q).data
    <2>1. WordsLeft(d, in) = w /\ QueueLeft(d, in) = Tail(q)
      BY <1>5 DEF WordsLeft, QueueLeft
    <2>2. Matches(Tail(q), w \o T, d) BY <1>2, <1>3, <1>5, MatchTailOther
    <2> QED BY <1>0, <1>1, <2>1, <2>2
  <1>6. CASE d \in in.written /\ Head(q).data
    <2>1. WordsLeft(d, in) = Tail(w) /\ QueueLeft(d, in) = Tail(q)
      BY <1>6 DEF WordsLeft, QueueLeft
    <2>2. w # <<>> BY <1>6, InputFacts DEF CanWrite
    <2>3. w \o T # <<>> /\ Tail(w \o T) = Tail(w) \o T BY <1>0, <1>1, <2>2, TailConcat
    <2>4. Matches(Tail(q), Tail(w \o T), d) BY <1>2, <1>3, <1>6, <2>3, MatchTailData
    <2>5. Tail(w) \in Seq(Words) BY <1>0, <2>2, HeadTailProperties
    <2> QED BY <1>1, <2>1, <2>3, <2>4, <2>5
  <1> QED BY <1>4, <1>5, <1>6

LEMMA SinkdataMoves ==
  ASSUME Types, PendCounts, OneSink, Paired, NEW in \in Inputs, Clock(in),
         NEW d \in Buses, NEW s \in Buses, FeedsAlone(s, d, in)
  PROVE  /\ sinkdata'[d] \in Seq(Words) /\ TowardLeft(s, d, in) \in Seq(Words)
         /\ Matches(QueueLeft(d, in), sinkdata'[d] \o TowardLeft(s, d, in), d)
  <1> DEFINE w == WordsLeft(d, in)
             T == Toward(s, d)
  <1>0. /\ \A t \in Buses \ {s} : Toward(t, d) = <<>>
        /\ Matches(sinkq[d], sinkdata[d] \o Toward(s, d), d)
    BY DEF FeedsAlone
  <1>1. w \in Seq(Words) /\ T \in Seq(Words) /\ Matches(QueueLeft(d, in), w \o T, d)
    BY <1>0, WordsLeftFacts
  <1>2. sinkdata'[d] = IF s \in in.answered /\ T # <<>> THEN Append(w, Head(T)) ELSE w
    BY <1>0, SinkdataStep
  <1>3. TowardLeft(s, d, in) = IF s \in in.answered /\ T # <<>> THEN Tail(T) ELSE T
    BY DEF TowardLeft
  <1> HIDE DEF w, T
  <1>4. CASE s \in in.answered /\ T # <<>>
    <2>1. Append(w, Head(T)) \in Seq(Words) /\ Append(w, Head(T)) \o Tail(T) = w \o T
      BY <1>1, <1>4, MoveHead
    <2>2. Tail(T) \in Seq(Words) BY <1>1, <1>4, HeadTailProperties
    <2> QED BY <1>1, <1>2, <1>3, <1>4, <2>1, <2>2
  <1>5. CASE ~(s \in in.answered /\ T # <<>>) BY <1>1, <1>2, <1>3, <1>5
  <1> QED BY <1>4, <1>5

LEMMA PairedKept ==
  ASSUME Types, WindowSound, InOnePlace, Apart, UsedIsClear, PendCounts, OneSink, Paired,
         NEW in \in Inputs, Clock(in)
  PROVE  Paired'
  <1>1. ASSUME NEW d \in Buses
        PROVE  /\ sinkdata'[d] \in Seq(Words)
               /\ \E s \in Buses :
                    /\ \A t \in Buses \ {s} : Tagged(reads'[t], t, d) = <<>>
                    /\ Matches(sinkq'[d], sinkdata'[d] \o Tagged(reads'[s], s, d), d)
    <2>1. PICK s \in Buses : FeedsAlone(s, d, in) BY FeederExists
    <2> DEFINE q == QueueLeft(d, in)
               w == sinkdata'[d]
               T == TowardLeft(s, d, in)
    <2>2. w \in Seq(Words) /\ T \in Seq(Words) /\ Matches(q, w \o T, d)
      BY <2>1, SinkdataMoves
    <2>3. q \in Seq(Requests) BY QueueLeftFacts
    <2>4. w \o T \in Seq(Words) BY <2>2, ConcatProperties
    <2>5. ASSUME NEW t \in Buses \ {s} PROVE Tagged(reads'[t], t, d) = <<>>
      <3>1. TowardLeft(t, d, in) = <<>> BY <2>1 DEF FeedsAlone, TowardLeft
      <3>2. \A e \in in.accepted \ in.eof : ~(gen[e].rec.src = t /\ gen[e].rec.dst = d)
        BY <2>1 DEF FeedsAlone
      <3> QED BY <3>1, <3>2, TowardStep
    <2>6. Matches(sinkq'[d], w \o Tagged(reads'[s], s, d), d)
      <3>1. CASE \A e \in in.accepted : gen[e].rec.dst # d
        <4>1. sinkq'[d] = q BY <3>1, QueueStep
        <4>2. Tagged(reads'[s], s, d) = T BY <3>1, TowardStep
        <4> QED BY <2>2, <4>1, <4>2
      <3>2. CASE ~\A e \in in.accepted : gen[e].rec.dst # d
        <4>1. PICK e \in in.accepted :
                gen[e].rec.dst = d /\ sinkq'[d] = Append(q, Entry(e, in.eof))
          BY <3>2, QueueStep
        <4> DEFINE x == Entry(e, in.eof)
        <4>2. x \in Requests BY EntryType
        <4>3. x.src = gen[e].rec.src /\ x.vm = gen[e].rec.vm /\ x.data = (e \notin in.eof)
          BY DEF Entry
        <4> HIDE DEF x
        <4>4. CASE e \in in.eof
          <5>1. \A f \in in.accepted : gen[f].rec.dst = d => f = e BY <4>1, OneAsks
          <5>2. \A f \in in.accepted \ in.eof : ~(gen[f].rec.src = s /\ gen[f].rec.dst = d)
            BY <4>4, <5>1
          <5>3. Tagged(reads'[s], s, d) = T BY <5>2, TowardStep
          <5>4. ~x.data BY <4>3, <4>4
          <5> HIDE DEF q, w, T
          <5>5. Matches(Append(q, x), w \o T, d)
            BY <2>2, <2>3, <2>4, <4>2, <5>4, MatchAppendOther
          <5> QED BY <4>1, <5>3, <5>5 DEF x
        <4>5. CASE e \notin in.eof
          <5>1. gen[e].rec.src = s BY <2>1, <4>1, <4>5 DEF FeedsAlone
          <5> DEFINE y == TagOf(s, ReadOf(e))
          <5>2. Tagged(reads'[s], s, d) = Append(T, y) /\ y \in Words
            BY <4>1, <4>5, <5>1, TowardStep
          <5>3. x.data BY <4>3, <4>5
          <5>4. y = WordFor(x, d) BY <4>1, <4>3, <5>1 DEF TagOf, ReadOf, WordFor
          <5> HIDE DEF q, w, T, y
          <5>5. Matches(Append(q, x), Append(w \o T, y), d)
            BY <2>2, <2>3, <2>4, <4>2, <5>2, <5>3, <5>4, MatchAppendData
          <5>6. w \o Append(T, y) = Append(w \o T, y) BY <2>2, <5>2, AppendConcat
          <5> QED BY <4>1, <5>2, <5>5, <5>6 DEF x
        <4> QED BY <4>4, <4>5
      <3> QED BY <3>1, <3>2
    <2> QED BY <2>2, <2>5, <2>6
  <1>2. sinkdata' = [d \in Buses |-> sinkdata'[d]] BY DEF Clock, MoveClock, ClockSinks
  <1>3. sinkdata' \in [Buses -> Seq(Words)] BY <1>1, <1>2
  <1>4. \A d \in Buses : \E s \in Buses :
          /\ \A t \in Buses \ {s} : Toward(t, d)' = <<>>
          /\ Matches(sinkq'[d], sinkdata'[d] \o Toward(s, d)', d)
    BY <1>1, Zenon DEF Toward
  <1> QED BY <1>3, <1>4, Zenon DEF Paired

JInv == IInv /\ Paired

LEMMA InitPaired == Init => Paired
  <1> SUFFICES ASSUME Init PROVE Paired OBVIOUS
  <1>1. \A b \in Buses : reads[b] = <<>> /\ sinkq[b] = <<>> /\ sinkdata[b] = <<>>
    BY DEF Init, MoveInit
  <1>2. Len(<<>>) = 0 /\ <<>> \in Seq(Words) BY EmptySeq
  <1>3. sinkdata \in [Buses -> Seq(Words)] BY <1>2 DEF Init, MoveInit
  <1>4. \A s \in Buses, d \in Buses : Toward(s, d) = <<>> BY <1>1 DEF Toward, Tagged
  <1>5. <<>> \o <<>> = <<>> BY <1>2, ConcatEmptySeq
  <1>6. \A d \in Buses : Matches(<<>>, <<>>, d) BY <1>2, RankNone DEF Matches
  <1>7. "ddr" \in Buses BY DEF Buses
  <1>8. \A d \in Buses : Matches(sinkq[d], sinkdata[d] \o Toward("ddr", d), d)
    BY <1>1, <1>4, <1>5, <1>6, <1>7
  <1> QED BY <1>3, <1>4, <1>7, <1>8 DEF Paired

\* The words of a sink are the answers to its oldest requests that wait for
\* one, in their order, although nothing but the order pairs them.
THEOREM WordsArePaired == Spec => []WordsMeetTheirRequests
  <1>1. Init => JInv BY InitTypes, InitRest, InitPaired DEF IInv, JInv
  <1>2. JInv /\ [Next]_vars => JInv'
    <2> SUFFICES ASSUME JInv, [Next]_vars PROVE JInv' OBVIOUS
    <2>0. IInv /\ Paired BY DEF JInv
    <2>1. CASE Next
      <3>1. PICK in \in Inputs : Clock(in) BY <2>1 DEF Next
      <3>2. IInv' BY <2>0, <3>1, ClockKeeps
      <3>3. Paired' BY <2>0, <3>1, InvParts, PairedKept
      <3> QED BY <3>2, <3>3 DEF JInv
    <2>2. CASE UNCHANGED vars
      <3>1. IInv' BY <2>0, <2>2, StutterKeeps
      <3>2. reads' = reads /\ sinkq' = sinkq /\ sinkdata' = sinkdata
        BY <2>2 DEF vars, move_vars
      <3>3. Paired' BY <2>0, <3>2, Zenon DEF Paired, Toward
      <3> QED BY <3>1, <3>3 DEF JInv
    <2> QED BY <2>1, <2>2
  <1>3. JInv => WordsMeetTheirRequests
    <2> SUFFICES ASSUME JInv PROVE WordsMeetTheirRequests OBVIOUS
    <2> USE DEF WordsMeetTheirRequests
    <2> TAKE d \in Buses
    <2> TAKE k \in DOMAIN sinkdata[d]
    <2>0. Types /\ Paired BY InvParts DEF JInv
    <2>1. PICK s \in Buses : Matches(sinkq[d], sinkdata[d] \o Toward(s, d), d)
      BY <2>0 DEF Paired
    <2> DEFINE w == sinkdata[d]
               T == Toward(s, d)
               c == w \o T
    <2>2. w \in Seq(Words) BY <2>0 DEF Paired
    <2>3. T \in Seq(Words) BY <2>0, TaggedType DEF Toward, Types
    <2>4. sinkq[d] \in Seq(Requests) BY <2>0 DEF Types
    <2>5. /\ Len(w) \in Nat /\ Len(T) \in Nat /\ DOMAIN w = 1 .. Len(w)
          /\ DOMAIN sinkq[d] = 1 .. Len(sinkq[d])
      BY <2>2, <2>3, <2>4, LenProperties
    <2>6. /\ Len(c) = Len(w) + Len(T)
          /\ \A i \in 1 .. Len(w) + Len(T) : c[i] = IF i <= Len(w) THEN w[i] ELSE T[i - Len(w)]
      BY <2>2, <2>3, ConcatProperties
    <2>7. Matches(sinkq[d], c, d) BY <2>1
    <2> HIDE DEF T, c
    <2>8. k \in 1 .. Len(c) /\ k \in 1 .. Len(w) + Len(T) /\ k <= Len(w) BY <2>5, <2>6
    <2>9. c[k] = w[k] BY <2>6, <2>8
    <2>10. PICK n \in 1 .. Len(sinkq[d]) :
             /\ sinkq[d][n].data /\ k = Rank(sinkq[d], n)
             /\ c[k] = [src |-> sinkq[d][n].src, vm |-> sinkq[d][n].vm, dst |-> d]
      BY <2>7, <2>8 DEF Matches
    <2> QED BY <2>5, <2>9, <2>10 DEF Rank
  <1> QED BY <1>1, <1>2, <1>3, PTL DEF Spec
=============================================================================
