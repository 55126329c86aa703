------------------------------ MODULE MCWsHub ------------------------------
(* Small instances of WsHub for TLC. *)
EXTENDS WsHub, TLC

\* Feeds are interchangeable, and so are clients; sound for safety only.
Symmetry == Permutations(Feeds) \cup Permutations(Clients)
=============================================================================
