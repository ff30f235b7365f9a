--------------------------- MODULE MCPersistence ---------------------------
(* Instances of Persistence for TLC: one value, with and without a deadline. *)
EXTENDS Persistence

CONSTANTS v1, auto1, auto2, client1, child1

MCValues == {v1}
MCDeadlines == {0, 1}
MCNobody == {}
MCAuto == {auto1}
MCTwoAutos == {auto1, auto2}
MCClient == {client1}
MCChild == {child1}
MCReported == {"open", "write", "rename"}

\* The runs that make no step to a state with two saves under way.
OneSaver == OneAtATime'
=============================================================================
