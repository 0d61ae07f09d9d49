----------------------------- MODULE MCDualHart -----------------------------
(* Two images and up to four yields per function.                         *)
EXTENDS DualHart
=============================================================================
