------------------------------ MODULE MC_Relay ------------------------------
(* Instances of Relay for TLC: what the two peers send. *)
EXTENDS Relay

\* Six bytes from the client, one back.
SixAndOne == <<6, 1>>

\* One direction only.
FourFromClient == <<4, 0>>
=============================================================================
