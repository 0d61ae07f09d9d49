---------------------------- MODULE MCNnBuffers ----------------------------
(* Three buffers over three layers, two sizes.                             *)
EXTENDS NnBuffers

Stored(flat, interleaved) == [flat |-> flat, interleaved |-> interleaved]

\* One format or both, to be allocated, or held by an application's tensor.
AllStorage == {Stored("own", "absent"), Stored("absent", "own"),
               Stored("own", "own"), Stored("ref", "absent")}
=============================================================================
