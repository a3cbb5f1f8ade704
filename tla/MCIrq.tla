------------------------------- MODULE MCIrq -------------------------------
(* Model-checking instance of Irq. *)
EXTENDS Irq
=============================================================================
