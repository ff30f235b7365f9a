------------------------------- MODULE MCDict -------------------------------
(* An instance of Dict for TLC: four keys fill the table, which the next     *)
(* dict_add doubles, and its memory limit.                                   *)
EXTENDS Dict

\* Keys are numbers and hash to themselves: collisions come from the mask.
MCKeys == {0, 4, 8, 1}
MCHash == [k \in MCKeys |-> k]

\* Four of the first reach the limit, the last is over it by itself.
MCValues == {"a", "ccc", "eeeee"}
MCSizes == [v \in MCValues |-> CASE v = "a" -> 1 [] v = "ccc" -> 3 [] v = "eeeee" -> 5]

\* Deadlines that are now, passed, none by accident (0), and wrapped to the far future.
MCTTLs == {0, -2}
=============================================================================
