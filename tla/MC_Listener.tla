---------------------------- MODULE MC_Listener -----------------------------
(* Instances of Listener for TLC. *)
EXTENDS Listener
=============================================================================
