------------------------------- MODULE ScFifo -------------------------------
(***************************************************************************)
(* scfifo (HW/src/util/fifo.vhd): the single-clock queue the other blocks  *)
(* of the chip are built from.  One step of the model is one rising edge   *)
(* of clock_in: registers are variables, combinational signals are         *)
(* operators of the registers and of the inputs sampled at that edge.      *)
(*                                                                         *)
(* The RAM behind it is a vendor primitive.  What it returns when the word *)
(* being read is written at the same edge differs from build to build (new *)
(* data in simulation, old data on Xilinx, DONT_CARE on Altera), so q is   *)
(* any value in that case.                                                 *)
(***************************************************************************)
EXTENDS Naturals, Sequences

CONSTANTS Data,        \* values of data_in
          Words        \* 2**FIFO_DEPTH, the words of the RAM

ASSUME WordsAssumption == Words \in Nat /\ Words >= 4

VARIABLES ram,         \* contents of the DPRAM
          q,           \* its output register
          q_r,         \* the output when LOOKAHEAD is false
          waddr_r, waddr_rr, raddr_r,
          empty_r, full_r,
          inputs       \* the ports sampled at the last edge

vars == <<ram, q, q_r, waddr_r, waddr_rr, raddr_r, empty_r, full_r, inputs>>

Addr == 0..(Words - 1)

Inputs == [read : BOOLEAN, write : BOOLEAN, flush : BOOLEAN, data : Data]

\* Unsigned arithmetic on FIFO_DEPTH bits, for operands at most Words.
Add(a, n) == IF a + n >= Words THEN a + n - Words ELSE a + n
Sub(a, b) == IF a >= b THEN a - b ELSE a + Words - b

ravail == Sub(waddr_rr, raddr_r)
wused == Sub(waddr_r, raddr_r)

Init ==
  /\ ram \in [Addr -> Data]
  /\ q \in Data
  /\ q_r \in Data
  /\ waddr_r = 0
  /\ waddr_rr = 0
  /\ raddr_r = 0
  /\ empty_r = TRUE
  /\ full_r = FALSE
  /\ inputs \in Inputs

\* The combinational read address (111-120).  Mutant: the flush is missing
\* from the multiplexer, as if it only had to stop the write.
raddrNoFlush(read_in, flush_in) ==
  IF read_in THEN Add(raddr_r, 1) ELSE raddr_r

raddr(read_in, flush_in) ==
  IF flush_in THEN waddr_r ELSE IF read_in THEN Add(raddr_r, 1) ELSE raddr_r

\* The DPRAM at a clock edge.
DPRAM(address_a, wren_a, data_a, address_b) ==
  /\ ram' = IF wren_a THEN [ram EXCEPT ![address_a] = data_a] ELSE ram
  /\ q' \in IF wren_a /\ address_a = address_b THEN Data ELSE {ram[address_b]}

\* The next full_r (133-146).  Mutant: the word written at this edge is
\* forgotten.
FullLate(write, rd) == Add(waddr_r, 1) = rd

Full(write, rd) == Add(waddr_r, IF write THEN 2 ELSE 1) = rd

\* The next empty_r (156-160), from the write pointer before this edge.
\* Mutant: from the write pointer after it, while the RAM still writes.
EmptyEager(write, rd) == (IF write THEN Add(waddr_r, 1) ELSE waddr_r) = rd

Empty(write, rd) == waddr_r = rd

\* The next q_r (151-153).  Mutant: loaded at every edge.
OutputAlways(read_in) == q

Output(read_in) == IF read_in THEN q ELSE q_r

\* A clock edge.  The first two conjuncts are the contract of the users:
\* read_in only when not empty_out, write_in only when not full_out.
Clock(p) ==
  LET write == p.write /\ ~p.flush
      rd    == raddr(p.read, p.flush)
  IN /\ p.read => ~empty_r
     /\ p.write => ~full_r
     /\ inputs' = p
     /\ DPRAM(waddr_r, write, p.data, rd)
     /\ waddr_r' = IF write THEN Add(waddr_r, 1) ELSE waddr_r
     /\ full_r' = Full(write, rd)
     /\ waddr_rr' = waddr_r
     /\ q_r' = Output(p.read)
     /\ raddr_r' = rd
     /\ empty_r' = Empty(write, rd)

Next == \E p \in Inputs : Clock(p)

Spec == Init /\ [][Next]_vars

-----------------------------------------------------------------------------
\* The values inside, oldest first.
Contents == [i \in 1..wused |-> ram[Add(raddr_r, i - 1)]]

TypeOK ==
  /\ ram \in [Addr -> Data]
  /\ q \in Data /\ q_r \in Data
  /\ waddr_r \in Addr /\ waddr_rr \in Addr /\ raddr_r \in Addr
  /\ empty_r \in BOOLEAN /\ full_r \in BOOLEAN
  /\ inputs \in Inputs

\* The flags are exact where it is safe and late where it must be: full_r is
\* set exactly when Words-1 values are inside, and empty_r, which trails the
\* write by a clock, is clear exactly when ravail_out, the count users burst
\* by, is not zero; ravail_out never counts a value that is not inside.
FlagsAgreeWithCounts ==
  /\ full_r <=> (wused = Words - 1)
  /\ empty_r <=> (ravail = 0)
  /\ ravail <= wused

\* Whatever the RAM returns for a word read while it is written, a user that
\* sees not empty_out sees the oldest value at q_out (look-ahead output).
NotEmptyShowsHead == ~empty_r => wused > 0 /\ q = Contents[1]

\* The output of a fifo without look-ahead (151-153): a read finds a value, and the
\* oldest one appears at q_out, whatever is written or flushed at the same edge;
\* without a read the output stays.
RegisteredOutputIsPopped ==
  [][IF inputs'.read THEN wused > 0 /\ q_r' = Contents[1] ELSE q_r' = q_r]_vars

\* The fifo implements the abstract queue of Words-1 values, the clock at which
\* each value is shown included.
AsFifo == [words |-> Contents, ravail |-> ravail]
Abstract == INSTANCE Fifo WITH fifo <- AsFifo, Capacity <- Words - 1
ImplementsFifo == Abstract!Spec
=============================================================================
