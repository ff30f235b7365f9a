------------------------------ MODULE MCPubSub ------------------------------
(* An instance of PubSub for TLC. *)
EXTENDS PubSub

CONSTANTS a, b, m1, m2

MCClients == {a, b}
MCNames == {"x", "y"}
MCMessages == {m1, m2}
=============================================================================
