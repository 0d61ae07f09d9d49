------------------------------ MODULE DpWindow ------------------------------
(***************************************************************************)
(* The window of two instructions at the head of dp_fifo (dp_fifo.vhd): a  *)
(* current and a next instruction.  The reader takes the current one, or   *)
(* the next one ahead of it; the request is registered and the slots move  *)
(* one clock later.  A slot that is not valid holds None.                  *)
(***************************************************************************)
EXTENDS Naturals, Sequences

CONSTANT None          \* no instruction

EmptyWindow == [slot1 |-> None, slot2 |-> None,       \* valid*_r, readdata*_r
                rdreq1 |-> FALSE, rdreq2 |-> FALSE,   \* rdreq*_r
                out1 |-> FALSE, out2 |-> FALSE]       \* readdata*_valid_r

Valid1(w) == w.slot1 # None
Valid2(w) == w.slot2 # None

\* Mutant: the request for the current instruction is missed when the next
\* one is valid too.
MovesLate(w) == Valid2(w) /\ ~Valid1(w) /\ ~w.rdreq2

\* The next instruction becomes the current one.
Moves(w) == Valid2(w) /\ IF Valid1(w) THEN w.rdreq1 ELSE ~w.rdreq2

\* Mutant: only behind a current instruction.
RefillsBehind(w) == Valid1(w) /\ ~(Valid2(w) /\ ~w.rdreq1 /\ ~w.rdreq2)

\* The next slot is loaded from the fifo, if that has a word.
Refills(w) == ~(Valid1(w) /\ Valid2(w) /\ ~w.rdreq1 /\ ~w.rdreq2)

\* rdreq_normal
Fetches(w, empty) == Refills(w) /\ ~empty

\* Mutant: the outputs stay valid in the clock in which the slots move.
OffersDuringMove(slot1, pause) == slot1 # None

\* readdata1_valid_r; with the slot itself, readdata2_valid_r.
Offers(slot1, pause) == slot1 # None /\ ~pause

\* A clock edge: head is the word the fifo shows unless it is empty, r1 and
\* r2 the requests rdreq1_in and rdreq2_in.
ClockWindow(w, empty, head, r1, r2) ==
  LET slot1 == IF Moves(w) THEN w.slot2
               ELSE IF w.rdreq1 THEN None ELSE w.slot1
      slot2 == IF ~Refills(w) THEN w.slot2
               ELSE IF empty THEN None ELSE head
  IN  [slot1 |-> slot1, slot2 |-> slot2, rdreq1 |-> r1, rdreq2 |-> r2,
       out1 |-> Offers(slot1, r1 \/ r2),
       out2 |-> slot2 # None /\ Offers(slot1, r1 \/ r2)]

-----------------------------------------------------------------------------
\* What is still to be read: a slot whose request is registered is gone.
Held(w) == (IF Valid1(w) /\ ~w.rdreq1 THEN <<w.slot1>> ELSE <<>>)
             \o (IF Valid2(w) /\ ~w.rdreq2 THEN <<w.slot2>> ELSE <<>>)
=============================================================================
