----------------------------- MODULE MC_Bridge ------------------------------
(* Instances of Bridge for TLC. *)
EXTENDS Bridge

\* Workers and addresses are interchangeable.
Symmetric == Permutations(Workers) \cup Permutations(Addrs)
=============================================================================
