------------------------------ MODULE Keyspace ------------------------------
(***************************************************************************)
(* What the dictionary promises its callers: a map from keys to objects    *)
(* with deadlines.  A key that was stored stays readable, with the object  *)
(* stored last, until a caller removes it, its deadline passes, or - only  *)
(* over a memory limit - it is the least recently used key.  Dict          *)
(* implements this specification.                                          *)
(***************************************************************************)
EXTENDS Integers, FiniteSets

CONSTANTS
  Keys,      \* the keys clients use
  Values,    \* the values they store
  Deadlines, \* the deadlines they give them, in ms since the epoch; 0 for none
  SizeOf,    \* the memory each value takes
  Limit,     \* the memory limit (dict.max_memory), 0 for none
  StartTime, \* the clock when the server starts, in ms
  MaxTime,   \* bound of the model on the clock
  None       \* no object

VARIABLES
  store,     \* the object each key maps to, None if the key is absent
  now        \* the clock, in ms since the epoch

vars == <<store, now>>

-----------------------------------------------------------------------------
\* dict_get, dict_clear_expired and save_rdb_to_file agree: an object is still
\* alive in the very millisecond of its deadline.
Expired(o, t) == o.expire # 0 /\ o.expire < t

Present(s, k) == s[k] # None

\* Key k gets object o, no other key changes.
Becomes(k, o) ==
  /\ store'[k] = o
  /\ store' = [store EXCEPT ![k] = o]
  /\ UNCHANGED now

Init ==
  /\ store = [k \in Keys |-> None]
  /\ now = StartTime

\* The clock; it is bounded by MaxTime in the model only.
Tick ==
  /\ now < MaxTime
  /\ now' = now + 1
  /\ UNCHANGED store

Put(k, v, exp) == Becomes(k, [val |-> v, expire |-> exp, last_access |-> now])

\* Reading an expired key removes it, reading a live one marks it used.
Read(k) ==
  /\ Present(store, k)
  /\ Becomes(k, IF Expired(store[k], now) THEN None ELSE [store[k] EXCEPT !.last_access = now])

SetDeadline(k, exp) ==
  /\ Present(store, k)
  /\ ~Expired(store[k], now)
  /\ Becomes(k, [val |-> store[k].val, expire |-> exp, last_access |-> now])

Remove(k) ==
  /\ Present(store, k)
  /\ Becomes(k, None)

Sweep ==
  /\ store' = [k \in Keys |-> IF Present(store, k) /\ Expired(store[k], now)
                              THEN None ELSE store[k]]
  /\ UNCHANGED now

\* How many bytes the values of a store take together.
Memory(s) ==
  Cardinality(UNION {{k} \X (1 .. SizeOf[s[k].val]) : k \in {j \in Keys : Present(s, j)}})

\* Over the limit a key may be dropped, but never one used later than another.
Drop(k) ==
  /\ Limit # 0 /\ Memory(store) > Limit
  /\ Present(store, k)
  /\ \A j \in Keys : Present(store, j) => store[k].last_access <= store[j].last_access
  /\ Becomes(k, None)

Next ==
  \/ Tick
  \/ Sweep
  \/ \E k \in Keys :
       \/ Read(k)
       \/ Remove(k)
       \/ Drop(k)
       \/ \E exp \in Deadlines : SetDeadline(k, exp)
       \/ \E v \in Values, exp \in Deadlines : Put(k, v, exp)

Spec == Init /\ [][Next]_vars
=============================================================================
