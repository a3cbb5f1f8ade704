------------------------------- MODULE MCSync -------------------------------
(* Model-checking instance of Sync, and through it of Mutex and Panic. *)
EXTENDS Sync
=============================================================================
