------------------------------ MODULE MC_Socks -------------------------------
(* Instances of Socks for TLC: chains of every kind of proxy. *)
EXTENDS Socks

OneEach == {<<>>, <<"socks4">>, <<"socks5">>, <<"socks5auth">>, <<"ss", "socks5">>, <<"socks4", "ss">>}
=============================================================================
