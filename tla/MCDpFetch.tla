----------------------------- MODULE MCDpFetch ------------------------------
(***************************************************************************)
(* Small programs for the dispatcher: the instructions that a run may      *)
(* find in the queue, in any order and number.                             *)
(***************************************************************************)
EXTENDS DpFetch

Transfer(v, s, d, c, n) ==
  [op |-> "transfer", vm |-> v, src |-> s, dst |-> d, cond |-> c, count |-> n]

Other(o, v, c) ==
  [op |-> o, vm |-> v, src |-> "ddr", dst |-> "ddr", cond |-> c, count |-> 1]

\* Both processes move data in and out of the cores and start tasks.
Tasks ==
  {Transfer(0, "ddr", "register", {}, 1), Transfer(1, "register", "ddr", {}, 1),
   Other("exec_vm", 0, {}), Other("exec_vm", 1, {})}

\* Transfers of both processes that share sources and destinations.
Traffic ==
  {Transfer(0, "register", "sram", {}, 1), Transfer(1, "register", "ddr", {}, 1),
   Transfer(0, "ddr", "sram", {}, 2), Transfer(1, "sram", "register", {}, 1)}

\* One transfer after the other into the same sink, longer than its fifo.
Stream == {Transfer(0, "ddr", "sram", {}, 3), Transfer(1, "ddr", "sram", {}, 2)}

\* SRAM is flushed before it is read again, the FPU works in it.
Flushes ==
  {Transfer(0, "ddr", "sram", {}, 1), Transfer(1, "register", "sram", {}, 1),
   Transfer(0, "sram", "register", {"sram"}, 1),
   Other("fpu_exe", 0, {}), Other("indication", 0, {"sram", "register", "fpu_idle"})}

\* A little of everything.
Mixed ==
  {Transfer(0, "ddr", "register", {}, 1),
   Transfer(1, "register", "sram", {"ddr"}, 1),
   Other("exec_vm", 1, {"sram"}), Other("fpu_exe", 1, {})}

Load(instr, length, stalls) ==
  [instr |-> instr, length |-> length, stalls |-> stalls]

AllLoads == {Load(Tasks, 4, FALSE), Load(Traffic, 3, FALSE),
             Load(Stream, 3, TRUE), Load(Flushes, 4, FALSE)}

MixedLoad == {Load(Mixed, 3, FALSE)}
=============================================================================
