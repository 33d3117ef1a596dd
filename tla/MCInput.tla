------------------------------- MODULE MCInput -------------------------------
(* Interrupts on a machine with a short keyboard ring and a narrow tick. *)
EXTENDS Input
=============================================================================
