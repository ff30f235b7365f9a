----------------------------- MODULE MCCommands -----------------------------
(* Instances of Commands for TLC.                                           *)
EXTENDS Commands

CONSTANTS c1, c2, k1

MCClients == {c1, c2}
MCKeys == {k1}

Cmd(op, v, exp) == [op |-> op, key |-> k1, val |-> v, expire |-> exp]

\* A write with and without a deadline, one that makes INCR fail, the others.
MCPool == {Cmd("set", 1, "later"), Cmd("set", Text, "never"), Cmd("incr", 0, "never"),
           Cmd("del", 0, "never"), Cmd("expire", 0, "later"), Cmd("bad", 0, "never"), Cmd("get", 0, "never")}

\* For the interleavings of threads.
MCSmallPool == {Cmd("set", 1, "later"), Cmd("incr", 0, "never"), Cmd("bad", 0, "never")}
=============================================================================
