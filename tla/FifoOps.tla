------------------------------ MODULE FifoOps -------------------------------
(***************************************************************************)
(* A single-clock fifo as a value: the words inside, oldest first, and     *)
(* ravail, how many of them the reader is shown.  A word is shown from the *)
(* second clock after its write, because the RAM needs one to store it.    *)
(* Modules built from several fifos use these operators for each of them;  *)
(* ScFifo, the registers of the real one, is proved to implement them.     *)
(***************************************************************************)
EXTENDS Naturals, Sequences

NoWords == [words |-> <<>>, ravail |-> 0]

\* What one clock does with the words inside.
After(s, p) ==
  LET rest == IF p.read THEN Tail(s) ELSE s
  IN  IF p.flush THEN <<>> ELSE IF p.write THEN Append(rest, p.data) ELSE rest

\* What one clock shows of the words that were inside before it.
Shown(s, p) ==
  IF p.flush THEN 0 ELSE IF p.read THEN Len(s) - 1 ELSE Len(s)

Clocked(f, p) == [words |-> After(f.words, p), ravail |-> Shown(f.words, p)]

\* The ports of a clock without a flush.
Ports(read, write, d) ==
  [read |-> read, write |-> write, flush |-> FALSE, data |-> d]
=============================================================================
