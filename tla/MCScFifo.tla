------------------------------ MODULE MCScFifo ------------------------------
(***************************************************************************)
(* Smaller than any fifo of the design, whose counters wrap in the same    *)
(* way; two values tell a lost, repeated or swapped word from the right    *)
(* one.                                                                    *)
(***************************************************************************)
EXTENDS ScFifo
=============================================================================
