---------------------------- MODULE Replication ----------------------------
(***************************************************************************)
(* replication.c with what main.c and commands.c do with it: a primary     *)
(* keeps the sockets of its replicas in a list, sends its database to a    *)
(* new one and feeds every write to all; a replica runs what it receives,  *)
(* and connects again when the connection is lost.  REPLICAOF, which any   *)
(* client may send to the replica, changes the same fields as its          *)
(* replication_thread.                                                     *)
(* The primary runs the event loop, which answers a request to its end.  A *)
(* step of the replica is what runs between two calls that may block       *)
(* (connect, sleep).  The network may cut a connection at any time; what   *)
(* was in flight is then lost from some point on.                          *)
(***************************************************************************)
EXTENDS Integers, Sequences, FiniteSets, FiniteSetsExt

CONSTANTS
  KeyCount,   \* the keys are numbered in the order sync_replica meets them
  Values,
  Conns,      \* names for connections that exist at the same time
  FdCount,    \* file descriptors of the primary for them
  MaxLines,   \* lines that fit in the buffers of a connection
  MaxEvents,  \* bound of the model on writes, cuts and REPLICAOF commands
  None        \* no object, no connection

Keys == 1 .. KeyCount
Fds == 1 .. FdCount

ASSUME ReplicationAssumption ==
  /\ KeyCount \in Nat
  /\ FdCount \in Nat
  /\ MaxLines \in Nat \ 0 .. KeyCount
  /\ MaxEvents \in Nat
  /\ None \notin Values \cup Conns \cup Nat

\* SET (or DEL, with None) of a key; a reply to REPLCONF or PSYNC, no command
\* to whoever runs it, has no key.
Line == [key : Keys \cup {None}, val : Values \cup {None}]
Command(k, v) == [key |-> k, val |-> v]
Reply == [key |-> None, val |-> None]

\* A connection: its ends at the primary and at the replica, whether the network
\* has cut it, and the lines in flight.
Connection == [here : BOOLEAN, there : BOOLEAN, cut : BOOLEAN, lines : Seq(Line)]
Closed == [here |-> FALSE, there |-> FALSE, cut |-> FALSE, lines |-> <<>>]

VARIABLES
  db,        \* the database of the primary
  sock,      \* the connection of each of its open sockets
  replicas,  \* server_repl.replicas: their sockets, first in the list first
  conn,      \* the connections
  copy,      \* the database of the replica
  role,      \* server_repl.role, of the replica
  state,     \* its server_repl.state
  primary_fd, \* the connection of its server_repl.primary_fd, or None
  half,      \* the buffer holds the start of the line that was cut off on "this"
             \* connection, on an "earlier" one, or "none"
  glued,     \* this connection began with a rest of an earlier one in the buffer
  thread,    \* replication_thread: in its "loop", "sleeping" or "connecting"
  client,    \* the client of REPLICAOF: "idle" or "connecting"
  promoted,  \* the last REPLICAOF was NO ONE, and was answered (of the model)
  events     \* the number of writes, cuts and REPLICAOF commands so far

vars == <<db, sock, replicas, conn, copy, role, state, primary_fd, half, glued,
          thread, client, promoted, events>>

primary == <<db, sock, replicas>>
link == <<role, state, primary_fd, half, glued>>
actors == <<thread, client, promoted>>

-----------------------------------------------------------------------------
(* Connections                                                             *)

Free(c) == ~conn[c].here /\ ~conn[c].there

\* One end is closed; the name is free again when both are.
Hung(r) == IF r.here \/ r.there THEN r ELSE Closed

\* What the primary writes reaches the replica; else the write is lost, or it
\* fails, and SIGPIPE, which nobody handles, kills the primary.
Alive(c) == conn[c].there /\ ~conn[c].cut

\* The sockets of c, of which there is one once it is accepted.
SocketsOf(c) == {f \in Fds : sock[f] = c}

Happens ==
  /\ events < MaxEvents
  /\ events' = events + 1

\* Of the lines in flight to the replica only the first n are received, and
\* perhaps the start of the next one, which then stays in the buffer.  (If it
\* still holds the start of an earlier one, the first line is read before.)
Torn(n) ==
  half' \in IF half = "none" /\ n < Len(conn[primary_fd].lines) THEN {"none", "this"} ELSE {half}

\* The network fails.
Cut(c) ==
  /\ Happens
  /\ ~Free(c) /\ ~conn[c].cut
  /\ \E n \in 0 .. Len(conn[c].lines) :
       /\ conn' = [conn EXCEPT ![c] = [conn[c] EXCEPT !.cut = TRUE, !.lines = SubSeq(conn[c].lines, 1, n)]]
       /\ IF c = primary_fd THEN Torn(n) ELSE UNCHANGED half
  /\ UNCHANGED <<primary, copy, role, state, primary_fd, glued, actors>>

-----------------------------------------------------------------------------
(* The primary                                                             *)

\* The members of S in list l, in their order there: of its first i, and of all.
KeptUpTo(l, S) ==
  LET f[i \in 0 .. Len(l)] ==
        IF i = 0 THEN <<>> ELSE IF l[i] \in S THEN Append(f[i - 1], l[i]) ELSE f[i - 1]
  IN  f
Kept(l, S) == KeptUpTo(l, S)[Len(l)]

\* What sync_replica sends: a SET for each key that is there.
Snapshot == LET present == Kept([k \in Keys |-> k], {k \in Keys : db[k] # None})
            IN  [i \in 1 .. Len(present) |-> Command(present[i], db[present[i]])]

\* The connection is accepted and its REPLCONF read: the socket enters the list at
\* its head, the database is sent, and then the answer to REPLCONF.
add_replica(c) ==
  /\ conn[c].here /\ SocketsOf(c) = {}
  /\ \E f \in Fds : sock[f] = None
  /\ LET fd == Min({f \in Fds : sock[f] = None})
     IN  /\ sock' = [sock EXCEPT ![fd] = c]
         /\ replicas' = <<fd>> \o replicas
  /\ conn' = IF Alive(c) THEN [conn EXCEPT ![c].lines = Append(Snapshot, Reply)] ELSE conn
  /\ UNCHANGED <<db, copy, link, actors, events>>

\* How often a socket of c is in the list.
Times(c) == Cardinality({i \in 1 .. Len(replicas) : sock[replicas[i]] = c})

BugUnlinked == [i \in 1 .. Len(replicas) |-> IF sock[replicas[i]] = None THEN 0 ELSE replicas[i]]
BugRemaining ==
  IF \E i \in 1 .. Len(replicas) : sock[replicas[i]] = None THEN Tail(replicas) ELSE replicas
\* The list after a feed: each entry whose write failed is removed, and a write
\* fails (without a signal) on a number that is closed.
Remaining == Kept(replicas, {f \in Fds : sock[f] # None})

\* A client's SET or DEL: the database changes and each entry is fed, once there
\* is room for it.
write_command(k, v) ==
  /\ Happens
  /\ \A c \in Conns : Alive(c) => Len(conn[c].lines) + Times(c) <= MaxLines
  /\ db' = [db EXCEPT ![k] = v]
  /\ replicas' = Remaining
  /\ conn' = [c \in Conns |-> IF Alive(c)
                             THEN [conn[c] EXCEPT !.lines = @ \o [i \in 1 .. Times(c) |-> Command(k, v)]]
                             ELSE conn[c]]
  /\ UNCHANGED <<sock, copy, link, actors>>

\* SIGPIPE in a feed or in a sync.  The primary starts again, with what dump.rdb
\* has: of each key some earlier value, or none.
killed(c) ==
  /\ Happens
  /\ conn[c].here /\ ~Alive(c)
  /\ db' \in [Keys -> Values \cup {None}]
  /\ sock' = [f \in Fds |-> None]
  /\ replicas' = <<>>
  /\ conn' = [d \in Conns |-> Hung([conn[d] EXCEPT !.here = FALSE])]
  /\ UNCHANGED <<copy, link, actors>>

\* The end of the connection is read: the socket is closed, its entry in the list
\* stays.
hang_up(c) ==
  /\ conn[c].here /\ ~Alive(c)
  /\ sock' = [f \in Fds |-> IF sock[f] = c THEN None ELSE sock[f]]
  /\ conn' = [conn EXCEPT ![c] = Hung([conn[c] EXCEPT !.here = FALSE])]
  /\ UNCHANGED <<db, replicas, copy, link, actors, events>>

-----------------------------------------------------------------------------
(* The replica                                                             *)

\* primary_fd is closed, with what was not read from it.
Hangs ==
  /\ IF primary_fd = None THEN UNCHANGED <<conn, half>>
     ELSE /\ conn' = [conn EXCEPT ![primary_fd] = Hung([conn[primary_fd] EXCEPT !.there = FALSE, !.lines = <<>>])]
          /\ Torn(0)
  /\ primary_fd' = None

\* replication_set_primary up to connect.
set_primary ==
  /\ Hangs
  /\ role' = "replica"
  /\ state' = "connecting"
  /\ UNCHANGED <<primary, copy, glued>>

\* The rest of it: connect gives connection c, and REPLCONF and PSYNC are sent.
connected(c) ==
  /\ Free(c)
  /\ conn' = [conn EXCEPT ![c] = [Closed EXCEPT !.here = TRUE, !.there = TRUE]]
  /\ primary_fd' = c
  /\ state' = "sync"
  /\ half' = IF half = "this" THEN "earlier" ELSE half
  /\ glued' = (half # "none")
  /\ UNCHANGED <<primary, copy, role, promoted, events>>

connect_failed == UNCHANGED <<primary, conn, copy, link, promoted, events>>

\* REPLICAOF host port, which answers when connect returns.
replicaof_command ==
  /\ Happens
  /\ client = "idle" /\ client' = "connecting"
  /\ promoted' = FALSE
  /\ set_primary
  /\ UNCHANGED thread

replicaof_connects(c) == client = "connecting" /\ connected(c) /\ client' = "idle" /\ UNCHANGED thread
replicaof_fails == client = "connecting" /\ connect_failed /\ client' = "idle" /\ UNCHANGED thread

\* REPLICAOF NO ONE, and its answer.
replication_unset_primary ==
  /\ Happens
  /\ client = "idle"
  /\ Hangs
  /\ role' = "primary"
  /\ state' = "none"
  /\ promoted' = TRUE
  /\ UNCHANGED <<primary, copy, glued, thread, client>>

Following == thread = "loop" /\ role = "replica"

\* The databases that running line l can lead to.  Glued to the start of an earlier
\* line it is no command any more, or another one: SET, say, deletes the key after
\* a whole DEL that lacks its end.
Outcomes(l) ==
  IF l.key = None THEN {copy}
  ELSE IF half = "earlier" THEN {copy, [copy EXCEPT ![l.key] = None]}
  ELSE {[copy EXCEPT ![l.key] = l.val]}

\* recv returns a line, which is executed (of several each counts as one).
receive ==
  /\ Following
  /\ state \in {"sync", "connected"}
  /\ conn[primary_fd].lines # <<>>
  /\ conn' = [conn EXCEPT ![primary_fd].lines = Tail(@)]
  /\ copy' \in Outcomes(Head(conn[primary_fd].lines))
  /\ half' = IF half = "earlier" THEN "none" ELSE half
  /\ state' = "connected"
  /\ UNCHANGED <<primary, role, primary_fd, glued, actors, events>>

\* Nothing more will come: the thread closes the connection and sleeps ...
lose ==
  /\ Following
  /\ state \in {"sync", "connected"}
  /\ conn[primary_fd].lines = <<>>
  /\ ~conn[primary_fd].here \/ conn[primary_fd].cut
  /\ Hangs
  /\ state' = "connecting"
  /\ thread' = "sleeping"
  /\ UNCHANGED <<primary, copy, role, glued, client, promoted, events>>

BugReconnect ==
  /\ thread = "sleeping"
  /\ thread' = "connecting"
  /\ set_primary
  /\ UNCHANGED <<client, promoted, events>>
\* ... and then connects again, without another look at the role; or it finds in
\* its loop that the last attempt failed.
reconnect ==
  /\ \/ thread = "sleeping"
     \/ Following /\ state = "connecting" /\ primary_fd = None
  /\ thread' = "connecting"
  /\ set_primary
  /\ UNCHANGED <<client, promoted, events>>

reconnect_connects(c) == thread = "connecting" /\ connected(c) /\ thread' = "loop" /\ UNCHANGED client
reconnect_fails == thread = "connecting" /\ connect_failed /\ thread' = "loop" /\ UNCHANGED client

-----------------------------------------------------------------------------
\* The primary has loaded its database, the replica has nothing yet.
Init ==
  /\ db \in [Keys -> Values]
  /\ sock = [f \in Fds |-> None]
  /\ replicas = <<>>
  /\ conn = [c \in Conns |-> Closed]
  /\ copy = [k \in Keys |-> None]
  /\ role = "primary"
  /\ state = "none"
  /\ primary_fd = None
  /\ half = "none"
  /\ glued = FALSE
  /\ thread = "loop"
  /\ client = "idle"
  /\ promoted = FALSE
  /\ events = 0

PrimaryStep == \E c \in Conns : add_replica(c) \/ hang_up(c)

ThreadStep ==
  \/ receive \/ lose \/ reconnect \/ reconnect_fails
  \/ \E c \in Conns : reconnect_connects(c)

Next ==
  \/ PrimaryStep
  \/ ThreadStep
  \/ \E k \in Keys, v \in Values \cup {None} : write_command(k, v)
  \/ replicaof_command \/ replicaof_fails \/ replication_unset_primary
  \/ \E c \in Conns : replicaof_connects(c) \/ killed(c) \/ Cut(c)

Spec == Init /\ [][Next]_vars

\* The threads of both servers run, a connect returns, and one that is tried again
\* and again succeeds at last.
FairSpec ==
  /\ Spec
  /\ WF_vars(PrimaryStep)
  /\ WF_vars(ThreadStep)
  /\ SF_vars(\E c \in Conns : reconnect_connects(c))
  /\ WF_vars(replicaof_fails \/ \E c \in Conns : replicaof_connects(c))

-----------------------------------------------------------------------------
(* Properties                                                              *)

\* The types; the list holds open or closed descriptors, nothing else.
TypeOK ==
  /\ db \in [Keys -> Values \cup {None}]
  /\ copy \in [Keys -> Values \cup {None}]
  /\ sock \in [Fds -> Conns \cup {None}]
  /\ replicas \in Seq(Fds)
  /\ conn \in [Conns -> Connection]
  /\ role \in {"primary", "replica"}
  /\ state \in {"none", "connecting", "sync", "connected"}
  /\ primary_fd \in Conns \cup {None}
  /\ half \in {"none", "this", "earlier"}
  /\ thread \in {"loop", "sleeping", "connecting"}
  /\ client \in {"idle", "connecting"}
  /\ glued \in BOOLEAN /\ promoted \in BOOLEAN
  /\ events \in Nat

\* The replica has run all the primary sent on a connection that is whole.
InStep ==
  /\ role = "replica" /\ primary_fd # None
  /\ conn[primary_fd].here /\ Alive(primary_fd)
  /\ SocketsOf(primary_fd) # {} /\ conn[primary_fd].lines = <<>>

Missing == {k \in Keys : db[k] # None /\ copy[k] # db[k]}

\* A replica that is in step has every key of the primary with its value, however
\* often the connection was lost, the number of its socket was used again or one
\* of the two was told to change its role; but for one key, when the first line
\* of the connection was glued to the rest of an earlier one.
CaughtUp == InStep => Cardinality(Missing) <= IF glued THEN 1 ELSE 0

\* A resynchronisation is full: a replica in step has the database of the primary.
FullResync == InStep /\ ~glued => copy = db

\* Whose answer to REPLICAOF NO ONE was OK is a primary until told otherwise.
PromotionSticks == promoted => role = "primary"

\* A connection of the replica that its thread does not read.
Leaked == \E c \in Conns : conn[c].there /\ (c # primary_fd \/ role = "primary")

\* A server that stays a replica is in step at last, once writes, cuts and
\* commands pause, unless two who connect at a time left a connection open.
EventuallyInStep == <>[](role = "replica" /\ ~Leaked) => <>[]InStep
=============================================================================
