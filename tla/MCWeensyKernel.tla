--------------------------- MODULE MCWeensyKernel ---------------------------
(* Instances of WeensyKernel for TLC. *)
EXTENDS WeensyKernel
=============================================================================
