------------------------------- MODULE MCEth -------------------------------
(* Model-checking instances of Eth. *)
EXTENDS Eth
=============================================================================
