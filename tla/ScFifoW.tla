------------------------------- MODULE ScFifoW ------------------------------
(***************************************************************************)
(* scfifow (HW/src/util/fifow.vhd): a fifo of wide words kept in a narrow  *)
(* and deep RAM.  A word is cut into Scale pieces that are written to an   *)
(* scfifo one per clock and gathered again one per clock; the piece k of   *)
(* the word d is <<d, k>>.  The inner scfifo is the abstract one that      *)
(* ScFifo implements.                                                      *)
(***************************************************************************)
EXTENDS FifoOps

CONSTANTS Data,        \* wide words
          Scale,       \* scale_c: pieces of a word, 4 in the design
          Depth        \* 2**FIFO_DEPTH: words

VARIABLES inner,                        \* the scfifo of pieces
          write_in_r, data_in_r,        \* a word latched from the ports
          w_avail_r, wpending_r, data_r,\* the word being cut
          q_avail_r, rpending_r, q_r    \* the word being gathered

InnerCapacity == Scale * Depth - 1

Cut(d) == [k \in 1..Scale |-> <<d, k - 1>>]

Init ==
  /\ inner = NoWords
  /\ write_in_r = FALSE /\ w_avail_r = FALSE /\ q_avail_r = FALSE
  /\ wpending_r = 0 /\ rpending_r = 0
  /\ data_in_r \in Data
  /\ data_r = Cut(data_in_r) /\ q_r = Cut(data_in_r)

writeready == ~w_avail_r /\ ~write_in_r

wused_out == Len(inner.words) \div Scale
empty_out == ~q_avail_r
q_out == q_r[1][1]

\* The counters of pieces are scalew_c bits wide.
Succ(n) == (n + 1) % Scale

LastPiece == wpending_r = Scale - 1

\* A piece is taken from the inner fifo whenever it shows one and no whole
\* word waits.  Mutant: without waiting for the word gathered to be read.
readEager == inner.ravail > 0

read == inner.ravail > 0 /\ ~q_avail_r

\* Gathering: the new piece comes in at the top.
Gather ==
  /\ q_r' = IF read THEN Append(Tail(q_r), Head(inner.words)) ELSE q_r
  /\ rpending_r' = IF read THEN Succ(rpending_r) ELSE rpending_r

\* Cutting: the piece at the bottom goes out, the others move down.
CutStep ==
  /\ data_r' = IF w_avail_r
               THEN [k \in 1..Scale |-> IF k < Scale THEN data_r[k + 1]
                                                     ELSE data_r[k]]
               ELSE Cut(data_in_r)
  /\ wpending_r' = IF w_avail_r THEN Succ(wpending_r)
                   ELSE IF write_in_r THEN 0 ELSE wpending_r
  /\ w_avail_r' = IF w_avail_r THEN ~LastPiece ELSE write_in_r

\* A clock edge, whatever the ports.
Registers(p) ==
  /\ inner' = Clocked(inner, Ports(read, w_avail_r, data_r[1]))
  /\ write_in_r' = IF ~w_avail_r /\ write_in_r THEN FALSE
                   ELSE IF writeready THEN p.write ELSE write_in_r
  /\ data_in_r' = IF writeready THEN p.data ELSE data_in_r
  /\ CutStep
  /\ Gather
  /\ q_avail_r' = IF q_avail_r THEN ~p.read
                  ELSE read /\ rpending_r = Scale - 1

-----------------------------------------------------------------------------
\* All pieces inside, in the order they will leave.
Gathered ==
  LET n == IF q_avail_r THEN Scale ELSE rpending_r
  IN  SubSeq(q_r, Scale - n + 1, Scale)

Stream ==
  Gathered \o inner.words
    \o (IF w_avail_r THEN SubSeq(data_r, 1, Scale - wpending_r) ELSE <<>>)
    \o (IF write_in_r THEN Cut(data_in_r) ELSE <<>>)

\* The words they are pieces of.
Words == [i \in 1..(Len(Stream) \div Scale) |-> Stream[Scale * (i - 1) + 1][1]]

\* The inner fifo has no full check: it must never be written when full.
InnerNeverOverflows == w_avail_r => Len(inner.words) < InnerCapacity

\* The pieces inside are whole words in a row: cutting and gathering never
\* lose step with each other.
WholeWords ==
  /\ Len(Stream) % Scale = 0
  /\ \A i \in 1..Len(Words), k \in 1..Scale :
        Stream[Scale * (i - 1) + k] = <<Words[i], k - 1>>
=============================================================================
