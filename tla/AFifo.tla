------------------------------- MODULE AFifo --------------------------------
(***************************************************************************)
(* afifo (HW/src/util/afifo.vhd): the queue between two clock domains.     *)
(* The write pointer and the read pointer are counters of one bit more     *)
(* than an address, each carried to the other domain as Gray code through  *)
(* CCD_SYNC, a chain of Stages flip-flops clocked by the destination.      *)
(* The two clocks are unrelated: their edges interleave in any order.      *)
(*                                                                         *)
(* A flip-flop of the first stage that is clocked while its input changes  *)
(* takes the old or the new value, each bit by itself.  waddr_gray_old and *)
(* raddr_gray_old keep the value before the change that may still be under *)
(* way; they equal the register once the change has settled.               *)
(***************************************************************************)
EXTENDS FifoOps, SequencesExt

CONSTANTS Data,
          FIFO_DEPTH,  \* bits of an address
          Stages       \* flip-flops of CCD_SYNC (3 in the design)

ASSUME AFifoAssumption ==
  /\ FIFO_DEPTH \in Nat /\ FIFO_DEPTH >= 2
  /\ Stages \in Nat \ {0}

VARIABLES
  ram, q,
  waddr_binary_r, waddr_gray_r, waddr_gray_old,   \* write domain
  full_r, raddr_sync, raddr_gray_sync_r,
  raddr_binary_r, raddr_gray_r, raddr_gray_old,   \* read domain
  avail_r, waddr_sync, waddr_gray_sync_r,
  inputs               \* ports sampled at the last edge of either clock

writeVars == <<ram, waddr_binary_r, waddr_gray_r, full_r, raddr_sync,
               raddr_gray_sync_r>>
readVars == <<q, raddr_binary_r, raddr_gray_r, avail_r, waddr_sync,
              waddr_gray_sync_r>>
vars == <<writeVars, readVars, waddr_gray_old, raddr_gray_old, inputs>>

Words == 2^FIFO_DEPTH
Addr == 0..(Words - 1)
Bits == 0..FIFO_DEPTH

Bit(n, i) == (n \div 2^i) % 2 = 1

\* Mutant: the pointers cross the domains in binary.
bin2binary(n) == [i \in Bits |-> Bit(n, i)]

\* (76-81) each bit xor its left neighbour.
bin2gray(n) == [i \in Bits |-> Bit(n, i) # Bit(n, i + 1)]

\* (91, 97).
binary_next(n) == (n + 1) % (2 * Words)

Init ==
  /\ ram \in [Addr -> Data] /\ q \in Data
  /\ waddr_binary_r = 0 /\ raddr_binary_r = 0
  /\ waddr_gray_r = bin2gray(0) /\ raddr_gray_r = bin2gray(0)
  /\ waddr_gray_old = bin2gray(0) /\ raddr_gray_old = bin2gray(0)
  /\ waddr_sync = [s \in 1..Stages |-> bin2gray(0)]
  /\ raddr_sync = [s \in 1..Stages |-> bin2gray(0)]
  /\ waddr_gray_sync_r = bin2gray(0) /\ raddr_gray_sync_r = bin2gray(0)
  /\ avail_r = FALSE /\ full_r = FALSE
  /\ \E d \in Data : inputs = Ports(FALSE, FALSE, d)

\* A clock edge of CCD_SYNC: each bit of the first stage takes the old or the
\* new value of its input, the others shift.
CCD_SYNC(chain, old, new) ==
  \E sample \in [Bits -> BOOLEAN] :
     /\ \A i \in Bits : sample[i] \in {old[i], new[i]}
     /\ chain' = <<sample>> \o Front(chain)

\* Mutant: the wrap bit is left out, so full looks like empty.
SameNoWrap(raddr_gray, waddr_gray) ==
  /\ \A i \in 0..(FIFO_DEPTH - 2) : raddr_gray[i] = waddr_gray[i]
  /\ (raddr_gray[FIFO_DEPTH] # raddr_gray[FIFO_DEPTH - 1])
       = (waddr_gray[FIFO_DEPTH] # waddr_gray[FIFO_DEPTH - 1])

\* (170-172, 178-180) the two Gray pointers are equal.
Same(raddr_gray, waddr_gray) ==
  LET top == FIFO_DEPTH
      nxt == FIFO_DEPTH - 1
  IN /\ raddr_gray[top] = waddr_gray[top]
     /\ \A i \in 0..(FIFO_DEPTH - 2) : raddr_gray[i] = waddr_gray[i]
     /\ (raddr_gray[top] # raddr_gray[nxt]) = (waddr_gray[top] # waddr_gray[nxt])

\* Mutant: only the wrap bit is compared inverted, as for binary pointers.
OppositeBinary(raddr_gray, waddr_gray) ==
  /\ raddr_gray[FIFO_DEPTH] # waddr_gray[FIFO_DEPTH]
  /\ \A i \in 0..(FIFO_DEPTH - 1) : raddr_gray[i] = waddr_gray[i]

\* (207-209, 215-217) the two Gray pointers are Words apart.
Opposite(raddr_gray, waddr_gray) ==
  LET top == FIFO_DEPTH
      nxt == FIFO_DEPTH - 1
  IN /\ raddr_gray[top] # waddr_gray[top]
     /\ \A i \in 0..(FIFO_DEPTH - 2) : raddr_gray[i] = waddr_gray[i]
     /\ (raddr_gray[top] # raddr_gray[nxt]) = (waddr_gray[top] # waddr_gray[nxt])

\* A rising edge of rclock_in; read_in only when not empty_out.
ReadClock(read_in) ==
  LET raddr == IF read_in THEN binary_next(raddr_binary_r) ELSE raddr_binary_r
  IN /\ read_in => avail_r
     /\ q' = ram[raddr % Words]
     /\ CCD_SYNC(waddr_sync, waddr_gray_old, waddr_gray_r)
     /\ waddr_gray_old' = waddr_gray_r
     /\ waddr_gray_sync_r' = Last(waddr_sync)
     /\ raddr_binary_r' = raddr
     /\ raddr_gray_r' = bin2gray(raddr)
     /\ raddr_gray_old' = raddr_gray_r
     /\ avail_r' = ~Same(bin2gray(raddr), waddr_gray_sync_r)
     /\ inputs' = Ports(read_in, FALSE, inputs.data)
     /\ UNCHANGED writeVars

\* Mutant: full_out is not refreshed while nothing is written.
FullOnlyOnWrite(write_in, waddr) ==
  IF write_in THEN Opposite(raddr_gray_sync_r, bin2gray(waddr)) ELSE full_r

\* The next full_r.
Full(write_in, waddr) == Opposite(raddr_gray_sync_r, bin2gray(waddr))

\* A rising edge of wclock_in; write_in only when not full_out.
WriteClock(write_in, data_in) ==
  LET waddr == IF write_in THEN binary_next(waddr_binary_r) ELSE waddr_binary_r
  IN /\ write_in => ~full_r
     /\ ram' = IF write_in
               THEN [ram EXCEPT ![waddr_binary_r % Words] = data_in]
               ELSE ram
     /\ CCD_SYNC(raddr_sync, raddr_gray_old, raddr_gray_r)
     /\ raddr_gray_old' = raddr_gray_r
     /\ raddr_gray_sync_r' = Last(raddr_sync)
     /\ waddr_binary_r' = waddr
     /\ waddr_gray_r' = bin2gray(waddr)
     /\ waddr_gray_old' = waddr_gray_r
     /\ full_r' = Full(write_in, waddr)
     /\ inputs' = Ports(FALSE, write_in, data_in)
     /\ UNCHANGED readVars

ReadEdge == \E read_in \in BOOLEAN : ReadClock(read_in)
WriteEdge == \E write_in \in BOOLEAN, d \in Data : WriteClock(write_in, d)

Next == ReadEdge \/ WriteEdge

\* Both clocks run: an edge that would change something eventually comes.
Spec == Init /\ [][Next]_vars /\ WF_vars(ReadEdge) /\ WF_vars(WriteEdge)

-----------------------------------------------------------------------------
\* How many values are inside, and the values, oldest first.
used == (waddr_binary_r + 2 * Words - raddr_binary_r) % (2 * Words)
Contents == [i \in 1..used |-> ram[(raddr_binary_r + i - 1) % Words]]

\* Whatever bits the synchronisers catch in flight, a reader that sees not
\* empty_out sees the oldest value at q_out.
NotEmptyShowsHead == avail_r => used > 0 /\ q = Contents[1]

\* Late pointers never let the writer overrun the reader, nor the reader pass
\* the writer: at every edge of either clock the words inside change as those
\* of a queue of Words values do.
KeepsQueue == [][/\ inputs'.read => used > 0
                 /\ inputs'.write => used < Words
                 /\ Contents' = After(Contents, inputs')]_vars

\* A value written is shown to the reader, and a fifo that has been emptied
\* accepts writes again: the crossing delays flags, it does not lose them.
WrittenIsSeen == (used > 0) ~> avail_r
EmptiedIsWritable == (used = 0) ~> ~full_r
=============================================================================
