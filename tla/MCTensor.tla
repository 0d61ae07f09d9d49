------------------------------ MODULE MCTensor ------------------------------
(* Three tensors, three blocks and a screen.                               *)
EXTENDS Tensor, TLC

Symmetry == Permutations(Tensors) \cup Permutations(Blocks)
=============================================================================
