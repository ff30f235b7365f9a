--------------------------- MODULE MCReplication ---------------------------
(* Instances of Replication for TLC. *)
EXTENDS Replication

CONSTANTS c1, c2, v1

MCConns == {c1, c2}
MCValues == {v1}
=============================================================================
