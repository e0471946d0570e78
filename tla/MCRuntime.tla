----------------------------- MODULE MCRuntime ------------------------------
(* Floats with 3 significant bits: 0..8 exactly, then steps of 2 and of 4. *)
(* An interval of 2 is lost in the rounding at a clock of 16.              *)
EXTENDS Runtime
=============================================================================
