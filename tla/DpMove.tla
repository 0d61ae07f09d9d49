------------------------------- MODULE DpMove -------------------------------
(***************************************************************************)
(* The data movers of the tensor processor: two transfer engines (dp_gen), *)
(* one source (dp_source) and one sink (dp_sink) for each of the three     *)
(* buses.  An engine makes count requests of a transfer, one per clock, at *)
(* its source; each goes to the fifo of the destination's sink and, unless *)
(* it carries its own data (eof), as a read to the source bus.  The answer *)
(* comes back without a tag: every sink that waits for that bus takes it.  *)
(* Words are counted, not computed: the address generator is left out.     *)
(***************************************************************************)
EXTENDS Integers, Sequences, FiniteSets

CONSTANTS None,        \* no instruction
          SinkDepth,   \* words of a sink's fifo
          SinkMargin   \* free words at which a sink says full

ASSUME DpMoveAssumption ==
  /\ SinkDepth \in Nat /\ SinkMargin \in Nat
  /\ 2 <= SinkMargin /\ SinkMargin < SinkDepth

Buses   == {"register", "sram", "ddr"}    \* dp_bus_id_*_c
VMs     == {0, 1}                         \* the two processes of the cores
Engines == {0, 1}                         \* dp_max_gen_c

\* Pipeline registers of an engine between a word's address and its request.
GenStages == 3

VARIABLES
  gen,          \* engine -> None, or its transfer and the clocks it has run
  pend,         \* sink -> source -> vm -> req_*_r - rsp_*_r
  wr_full_r,    \* sink -> almost full
  gen_busy_dest_r,   \* sink -> wr_full_r as the engines see it
  reads,        \* source -> reads the bus has not answered, oldest first
  sinkq,        \* sink -> dp_sink_fifo_i, requests
  sinkdata      \* sink -> dp_sink_fifo_i2, words read

move_vars == <<gen, pend, wr_full_r, gen_busy_dest_r, reads, sinkq, sinkdata>>

MoveInit ==
  /\ gen = [e \in Engines |-> None]
  /\ pend = [d \in Buses |-> [s \in Buses |-> [v \in VMs |-> 0]]]
  /\ wr_full_r = [d \in Buses |-> FALSE]
  /\ gen_busy_dest_r = [d \in Buses |-> FALSE]
  /\ reads = [s \in Buses |-> <<>>]
  /\ sinkq = [d \in Buses |-> <<>>]
  /\ sinkdata = [d \in Buses |-> <<>>]

-----------------------------------------------------------------------------
\* ready_out of an engine: no word in any stage.
gen_ready(e) == gen[e] = None

\* gen_valid_r: a request stands at the engine's output.
gen_valid(e) == gen[e] # None /\ gen[e].clocks >= GenStages

\* Mutant: a request is announced to dp_fetch only once it is counted.
wr_req_pendingNever(d, s, v) == FALSE

\* wr_req_pending_*_out of a source.
wr_req_pending(d, s, v) ==
  \E e \in Engines : /\ gen_valid(e)
                     /\ gen[e].rec.src = s /\ gen[e].rec.dst = d
                     /\ gen[e].rec.vm = v

\* read_pending_*_out of a sink.
read_pending(d, s, v) == pend[d][s][v] # 0 \/ wr_req_pending(d, s, v)
any_read_pending(d, s) == \E v \in VMs : read_pending(d, s, v)

\* The engines with a request that the destination has room for.  Mutant:
\* gen_busy_dest_in is not looked at.
AskingBlind == {e \in Engines : gen_valid(e)}

Asking == {e \in Engines : gen_valid(e) /\ ~gen_busy_dest_r[gen[e].rec.dst]}

\* wr_req2: the sinks that take an answer of bus s.
Claims(s) == {d \in Buses : \E v \in VMs : pend[d][s][v] # 0}

\* emptyn: a request is written out when its word is there.
CanWrite(d) == sinkq[d] # <<>> /\ (Head(sinkq[d]).data => sinkdata[d] # <<>>)

\* Mutant: the words used are compared instead of the free ones.
AlmostFullUsed(q) == Len(q) <= SinkMargin

AlmostFull(q) == SinkDepth - Len(q) <= SinkMargin

-----------------------------------------------------------------------------
(***************************************************************************)
(* A clock edge.  start is None or a transfer and the engine it goes to;   *)
(* accepted are the engines whose request goes through, the source bus not *)
(* waiting or not being read (eof); the buses of answered return a word;   *)
(* the sinks of written put one out.                                       *)
(***************************************************************************)
Entry(e, eof) == [src |-> gen[e].rec.src, vm |-> gen[e].rec.vm,
                  data |-> e \notin eof]

\* Mutant: done_r comes one word too late.
LastClockLate(g) == g.clocks = g.rec.count + GenStages

\* The last word leaves the engine.
LastClock(g) == g.clocks + 1 = g.rec.count + GenStages

ClockGen(start, accepted) ==
  gen' = [e \in Engines |->
            IF start # None /\ start.which = e
              THEN [rec |-> start.rec, clocks |-> 0]
            ELSE IF gen[e] = None \/ (gen_valid(e) /\ e \notin accepted)
              THEN gen[e]
            ELSE IF LastClock(gen[e]) THEN None
            ELSE [gen[e] EXCEPT !.clocks = @ + 1]]

ClockSources(accepted, eof, answered) ==
  reads' = [s \in Buses |->
              LET asked == {e \in accepted \ eof : gen[e].rec.src = s}
                  rest  == IF s \in answered THEN Tail(reads[s]) ELSE reads[s]
              IN  IF asked = {} THEN rest
                  ELSE LET r == gen[CHOOSE e \in asked : TRUE].rec
                       IN  Append(rest, [dst |-> r.dst, vm |-> r.vm])]

\* Mutant: a request without a read is counted as one with.
CountedAll(accepted, eof) == accepted

Counted(accepted, eof) == accepted \ eof

ClockCounters(accepted, eof, answered) ==
  pend' = [d \in Buses |-> [s \in Buses |-> [v \in VMs |->
             pend[d][s][v]
               + Cardinality({e \in Counted(accepted, eof) :
                     /\ gen[e].rec.dst = d /\ gen[e].rec.src = s
                     /\ gen[e].rec.vm = v})
               - IF s \in answered /\ d \in Claims(s) /\ Head(reads[s]).vm = v
                 THEN 1 ELSE 0]]]

ClockSinks(accepted, eof, answered, written) ==
  /\ sinkq' = [d \in Buses |->
       LET asked == {e \in accepted : gen[e].rec.dst = d}
           rest  == IF d \in written THEN Tail(sinkq[d]) ELSE sinkq[d]
       IN  IF asked = {} THEN rest
           ELSE Append(rest, Entry(CHOOSE e \in asked : TRUE, eof))]
  /\ sinkdata' = [d \in Buses |->
       LET from == {s \in answered : d \in Claims(s)}
           rest == IF d \in written /\ Head(sinkq[d]).data
                   THEN Tail(sinkdata[d]) ELSE sinkdata[d]
       IN  IF from = {} THEN rest
           ELSE LET s == CHOOSE s \in from : TRUE
                IN  Append(rest, [src |-> s, vm |-> Head(reads[s]).vm,
                                  dst |-> Head(reads[s]).dst])]
  /\ wr_full_r' = [d \in Buses |-> AlmostFull(sinkq[d])]
  /\ gen_busy_dest_r' = wr_full_r

MoveClock(start, accepted, eof, answered, written) ==
  /\ accepted \subseteq Asking /\ eof \subseteq accepted
  /\ \A s \in answered : reads[s] # <<>>
  /\ \A d \in written : CanWrite(d)
  /\ ClockGen(start, accepted)
  /\ ClockSources(accepted, eof, answered)
  /\ ClockCounters(accepted, eof, answered)
  /\ ClockSinks(accepted, eof, answered, written)
=============================================================================
