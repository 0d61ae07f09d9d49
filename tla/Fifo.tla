-------------------------------- MODULE Fifo --------------------------------
(***************************************************************************)
(* What scfifo promises its users: values leave in the order they entered, *)
(* none is lost, none is made up, a flush drops what is inside and what is *)
(* being written, at most Capacity values are inside, and a value is shown *)
(* at q_out from the second clock after its write, not earlier or later.   *)
(* A step is one clock; inputs are the ports sampled at its edge.          *)
(***************************************************************************)
EXTENDS FifoOps

CONSTANTS Data, Capacity

VARIABLES fifo, inputs

Inputs == [read : BOOLEAN, write : BOOLEAN, flush : BOOLEAN, data : Data]

Init == fifo = NoWords /\ inputs \in Inputs

Edge(p) ==
  /\ p.read => fifo.ravail > 0
  /\ p.write => Len(fifo.words) < Capacity
  /\ fifo' = Clocked(fifo, p)
  /\ inputs' = p

Next == \E p \in Inputs : Edge(p)

Spec == Init /\ [][Next]_<<fifo, inputs>>
=============================================================================
