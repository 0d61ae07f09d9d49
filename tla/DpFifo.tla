------------------------------- MODULE DpFifo -------------------------------
(***************************************************************************)
(* dp_fifo (HW/src/dp/dp_fifo.vhd): the queue of tensor instructions that  *)
(* the host writes through a register of dp_fetch and that the dispatcher  *)
(* reads, in order or the second before the first.  It is an scfifow, the  *)
(* window of DpWindow, and the registered flag full_r that holds back the  *)
(* host.  The host's side is the path of a write to register_dp_run in     *)
(* dp_fetch.vhd: checked against full_out in one clock, done in the next.  *)
(***************************************************************************)
EXTENDS DpWindow

CONSTANTS Instr,       \* instructions
          Scale,       \* scale_c of scfifow
          Depth        \* 2**dp_fifo_depth_c

ASSUME NoneAssumption == None \notin Instr
ASSUME SizesAssumption ==
  /\ Scale \in Nat /\ Scale >= 2
  /\ Depth \in Nat /\ Depth >= 2

VARIABLES inner, write_in_r, data_in_r, w_avail_r, wpending_r, data_r,
          q_avail_r, rpending_r, q_r,            \* scfifow
          full_r,                                \* dp_fifo
          window,
          bus_write_r, bus_writedata_r           \* dp_fetch: write in progress

fifo_vars == <<inner, write_in_r, data_in_r, w_avail_r, wpending_r, data_r,
               q_avail_r, rpending_r, q_r>>
vars == <<fifo_vars, full_r, window, bus_write_r, bus_writedata_r>>

fifo_i == INSTANCE ScFifoW WITH Data <- Instr

Headroom == 4

Init ==
  /\ fifo_i!Init
  /\ full_r = FALSE
  /\ window = EmptyWindow
  /\ bus_write_r = FALSE /\ bus_writedata_r = data_in_r

\* Mutant: one word of headroom too few to cover the words in the pipeline.
AlmostFullLate == Depth - 1 - fifo_i!wused_out < 1

AlmostFull == Depth - 1 - fifo_i!wused_out < Headroom

full_out == full_r \/ ~fifo_i!writeready

\* waitrequest of dp_fetch.  Mutant: a write in progress does not count.
waitrequestLate == full_out

waitrequest == full_out \/ bus_write_r

\* A clock edge.  The host writes d or not; the reader takes what is offered,
\* at most one of the two.
Clock(bus_write_in, d, rdreq1_in, rdreq2_in) ==
  /\ rdreq1_in => window.out1
  /\ rdreq2_in => window.out2 /\ ~rdreq1_in
  /\ fifo_i!Registers([read |-> Fetches(window, fifo_i!empty_out),
                       write |-> bus_write_r, data |-> bus_writedata_r])
  /\ window' = ClockWindow(window, fifo_i!empty_out, fifo_i!q_out,
                           rdreq1_in, rdreq2_in)
  /\ full_r' = AlmostFull
  /\ bus_write_r' = (bus_write_in /\ ~waitrequest)
  /\ bus_writedata_r' = IF bus_write_r' THEN d ELSE bus_writedata_r

Next == \E bus_write_in, rdreq1_in, rdreq2_in \in BOOLEAN, d \in Instr :
           Clock(bus_write_in, d, rdreq1_in, rdreq2_in)

\* The clock runs.
Spec == Init /\ [][Next]_vars /\ WF_vars(Next)

-----------------------------------------------------------------------------
\* The instructions inside, in the order the host wrote them.
Program == Held(window) \o fifo_i!Words

\* The host is held back in time: a write let through always finds the fifo
\* ready for it, although full_out is two clocks old when the word arrives
\* and does not count the word that is being cut into pieces.
WritesFindRoom == bus_write_r => fifo_i!writeready /\ fifo_i!wused_out < Depth - 1

\* The scfifo inside the scfifow is never written when it is full.
InnerNeverOverflows == fifo_i!InnerNeverOverflows

\* The pieces inside the scfifow are whole words in a row: cutting and gathering
\* never lose step with each other.
WholeWords == fifo_i!WholeWords

\* The slots offered are the two oldest instructions, and at every clock the
\* instructions inside change only by what the ports say: the first or the
\* second one leaves, a new one goes last.  Nothing is lost, doubled or
\* reordered while the slots move and refill.
ReadOne(s, r1, r2) ==
  IF r1 THEN Tail(s) ELSE IF r2 THEN <<s[1]>> \o Tail(Tail(s)) ELSE s

KeepsProgramOrder ==
  [][/\ window.out1 => Len(Program) >= 1 /\ window.slot1 = Program[1]
     /\ window.out2 => Len(Program) >= 2 /\ window.slot2 = Program[2]
     /\ Program' = ReadOne(Program, window'.rdreq1, window'.rdreq2)
                     \o (IF bus_write_r THEN <<bus_writedata_r>> ELSE <<>>)
    ]_vars

\* An instruction inside leads to a current instruction on offer: the window
\* refills whatever was read from it, and the pieces of a word all arrive.
IsOffered == (Program # <<>>) ~> window.out1
=============================================================================
