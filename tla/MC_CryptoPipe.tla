--------------------------- MODULE MC_CryptoPipe ----------------------------
(* Instances of CryptoPipe for TLC: the exact reads of the header. *)
EXTENDS CryptoPipe

\* As in handler_ss::worker, an address type and then the rest.
TwoPieces == <<1, 2>>
=============================================================================
