------------------------------ MODULE Commands ------------------------------
(***************************************************************************)
(* commands.c, transaction.c and the client table of main.c: clients send  *)
(* commands, which run at once, or are queued between MULTI and EXEC; what *)
(* a write does is then counted for auto-saving and fed to the replicas.   *)
(* With Threaded every client has its thread (handle_client), and a step   *)
(* is what one thread does to shared state between two others; without it  *)
(* one thread serves the requests one by one (handle_client_message).      *)
(* A call of the dictionary is one step here: Dict shows what it does.     *)
(***************************************************************************)
EXTENDS Integers, Sequences, FiniteSets

CONSTANTS
  Clients,     \* the connections
  Keys,
  Pool,        \* the commands clients may send besides MULTI, EXEC, DISCARD
  Text,        \* a value that is not an integer
  IntModulus,  \* 2^64, where the long long of INCR wraps around
  Threaded,    \* config.concurrency_model = CONCURRENCY_THREADED
  MaxClients,  \* config.max_clients
  Primary,     \* server_repl.role = ROLE_PRIMARY
  MaxQueue,    \* bound of the model on the commands of one transaction
  MaxChanges,  \* bound of the model on the writes before the clients pause
  None         \* no object, no client, no command

\* A deadline is never, still to come, or in the past.
Deadline == {"never", "later", "passed"}
Object == [val : 0 .. IntModulus - 1 \cup {Text}, expire : Deadline]

\* get stands for GET, EXISTS and TTL; bad for every command that is unknown
\* or has too few or too many arguments.  DEL and EXISTS repeat for each of
\* their keys what they do for one.
Command == [op : {"set", "get", "del", "incr", "expire", "bad"},
            key : Keys, val : 0 .. IntModulus - 1 \cup {Text}, expire : Deadline]

ASSUME CommandsAssumption ==
  /\ Pool \subseteq Command
  /\ IntModulus \in Nat \ {0, 1}
  /\ Threaded \in BOOLEAN
  /\ Primary \in BOOLEAN
  /\ MaxClients \in Nat
  /\ MaxQueue \in Nat
  /\ MaxChanges \in Nat
  /\ Text \notin 0 .. IntModulus - 1
  /\ None \notin Object \cup Clients \cup Command

VARIABLES
  db,        \* server_db: the object of each key, or None
  replay,    \* what a server that started empty with this one makes of the feed
  changes,   \* server_persistence.changes_since_save, never saved here
  conn,      \* "closed", "claiming" a slot of client_list, or "open"
  claim,     \* the slot register_client found free for a claiming client
  slots,     \* client_list
  tx,        \* the transaction fields of each client_t
  todo,      \* the commands the client's current request has still to run
  read,      \* what INCR will store, between its dict_get and its dict_add
  pending,   \* a write that succeeded and is not yet counted and fed
  owed,      \* replies announced to the client minus replies sent, this request
  asked      \* the commands sent since MULTI (of the model, for AllOrNothing)

vars == <<db, replay, changes, conn, claim, slots, tx, todo, read, pending, owed, asked>>

store == <<db, replay, changes>>
table == <<conn, claim, slots>>
running == <<todo, read, pending>>

-----------------------------------------------------------------------------
(* Commands                                                                *)

\* dict_get: an expired object is deleted when it is looked up.
Looked(o) == IF o # None /\ o.expire = "passed" THEN None ELSE o

\* What clients can see of a database.
Live(d) == [k \in Keys |-> Looked(d[k])]

BugIncremented(o) ==
  IF o = None
  THEN [val |-> 1, expire |-> "never"]
  ELSE [val |-> o.val + 1, expire |-> o.expire]
\* value++ on a long long; the deadline is kept.
Incremented(o) ==
  IF o = None
  THEN [val |-> 1 % IntModulus, expire |-> "never"]
  ELSE [val |-> (o.val + 1) % IntModulus, expire |-> o.expire]

\* INCR refuses an object that strtoll does not read to its end.
Refused(c, o) == c.op = "incr" /\ o # None /\ o.val = Text

\* The object command c leaves where it found o.
After(c, o) ==
  CASE c.op = "set" -> [val |-> c.val, expire |-> c.expire]
    [] c.op = "del" -> None
    [] c.op = "get" -> Looked(o)
    [] c.op = "incr" -> IF Refused(c, Looked(o)) THEN Looked(o) ELSE Incremented(Looked(o))
    [] c.op = "expire" -> IF Looked(o) = None THEN None ELSE [o EXCEPT !.expire = c.expire]
    [] OTHER -> o

Apply(d, c) == [d EXCEPT ![c.key] = After(c, @)]

BugIsWrite(c) == c.op \in {"set", "del", "expire"}
\* The commands execute_command counts and propagates when they return CMD_OK.
IsWrite(c) == c.op \in {"set", "del", "expire", "incr"}

Allocates(c) == c.op \in {"set", "incr"}

-----------------------------------------------------------------------------
(* The client table                                                        *)

NoTx == [in |-> FALSE, errors |-> FALSE, queue |-> <<>>]

FreeSlots == {i \in 1 .. MaxClients : slots[i] = None}

\* The slot register_client takes: the first one that is free.
FirstFree == {i \in FreeSlots : \A j \in FreeSlots : i <= j}

\* get_client_by_socket
Known(c) == \E i \in 1 .. MaxClients : slots[i] = c

Idle(c) == todo[c] = <<>> /\ read[c] = None /\ pending[c] = None

\* The event loop finishes a request before it reads another.
HasThread(c) == Threaded \/ \A d \in Clients \ {c} : Idle(d)

\* accept and tx_init, then register_client: a thread looks for a free slot
\* and fills it in two steps, the event loop at once; with no slot left the
\* client goes on without one.
Accept(c) ==
  /\ conn[c] = "closed"
  /\ HasThread(c)
  /\ tx' = [tx EXCEPT ![c] = NoTx]
  /\ asked' = [asked EXCEPT ![c] = 0]
  /\ \/ /\ Threaded
        /\ conn' = [conn EXCEPT ![c] = "claiming"]
        /\ \E i \in FirstFree : claim' = [claim EXCEPT ![c] = i]
        /\ UNCHANGED slots
     \/ /\ ~Threaded
        /\ conn' = [conn EXCEPT ![c] = "open"]
        /\ \E i \in FirstFree : slots' = [slots EXCEPT ![i] = c]
        /\ UNCHANGED claim
     \/ /\ FreeSlots = {}
        /\ conn' = [conn EXCEPT ![c] = "open"]
        /\ UNCHANGED <<slots, claim>>
  /\ UNCHANGED <<store, running, owed>>

register_client(c) ==
  /\ conn[c] = "claiming"
  /\ conn' = [conn EXCEPT ![c] = "open"]
  /\ slots' = [slots EXCEPT ![claim[c]] = c]
  /\ claim' = [claim EXCEPT ![c] = 0]
  /\ UNCHANGED <<store, tx, running, owed, asked>>

BugForget(c) ==
  /\ conn' = [conn EXCEPT ![c] = "closed"]
  /\ tx' = [tx EXCEPT ![c] = NoTx]
  /\ UNCHANGED <<store, slots, claim, running, asked>>
\* unregister_client and tx_cleanup, which only find a client that has a slot.
Forget(c) ==
  /\ conn' = [conn EXCEPT ![c] = "closed"]
  /\ slots' = [i \in DOMAIN slots |-> IF slots[i] = c THEN None ELSE slots[i]]
  /\ tx' = [tx EXCEPT ![c] = IF Known(c) THEN NoTx ELSE @]
  /\ UNCHANGED <<store, claim, running, asked>>

\* The client hangs up between two requests, or the event loop hangs up on one
\* that sends a request and has no slot.
Disconnect(c) ==
  /\ conn[c] = "open"
  /\ Idle(c)
  /\ HasThread(c)
  /\ Forget(c)
  /\ owed' = [owed EXCEPT ![c] = 0]

-----------------------------------------------------------------------------
(* Requests                                                                *)

\* A request of client c is read and looked at.
Ready(c) ==
  /\ conn[c] = "open"
  /\ Idle(c)
  /\ HasThread(c)
  /\ Threaded \/ Known(c)

\* n replies are announced for this request, m of them sent with it.
Replies(c, n, m) == owed' = [owed EXCEPT ![c] = n - m]

\* The request is answered and has no other effect.
Answered(c) ==
  /\ Replies(c, 1, 1)
  /\ UNCHANGED <<store, table, tx, running, asked>>

BugInTransaction(c) == Known(c) /\ tx[c].queue # <<>>
InTransaction(c) == Known(c) /\ tx[c].in

\* tx_queue_command stores the command, or fails for want of memory.
tx_queue_command(c, cmd) ==
  /\ Ready(c)
  /\ InTransaction(c)
  /\ asked[c] < MaxQueue
  /\ changes < MaxChanges
  /\ asked' = [asked EXCEPT ![c] = @ + 1]
  /\ \/ tx' = [tx EXCEPT ![c].queue = Append(@, cmd)]
     \/ tx' = [tx EXCEPT ![c].errors = TRUE]
  /\ Replies(c, 1, 1)
  /\ UNCHANGED <<store, table, running>>

\* Outside of a transaction the command is run.
Request(c, cmd) ==
  /\ Ready(c)
  /\ ~InTransaction(c)
  /\ changes < MaxChanges
  /\ todo' = [todo EXCEPT ![c] = <<cmd>>]
  /\ Replies(c, 1, 0)
  /\ UNCHANGED <<store, table, tx, read, pending, asked>>

multi_command(c) ==
  /\ Ready(c)
  /\ \/ /\ Known(c) /\ ~tx[c].in
        /\ tx' = [tx EXCEPT ![c].in = TRUE, ![c].errors = FALSE]
        /\ asked' = [asked EXCEPT ![c] = 0]
        /\ Replies(c, 1, 1)
        /\ UNCHANGED <<store, table, running>>
     \/ /\ ~Known(c) \/ tx[c].in
        /\ Answered(c)

BugDiscard(c) ==
  /\ Ready(c)
  /\ \/ /\ InTransaction(c)
        /\ tx' = [tx EXCEPT ![c].in = FALSE]
        /\ Replies(c, 1, 2)
        /\ UNCHANGED <<store, table, running, asked>>
     \/ /\ ~InTransaction(c)
        /\ Answered(c)
\* tx_discard_commands replies, and so does discard_command.
discard_command(c) ==
  /\ Ready(c)
  /\ \/ /\ InTransaction(c)
        /\ tx' = [tx EXCEPT ![c] = NoTx]
        /\ Replies(c, 1, 2)
        /\ UNCHANGED <<store, table, running, asked>>
     \/ /\ ~InTransaction(c)
        /\ Answered(c)

BugExec(c) ==
  /\ Ready(c)
  /\ InTransaction(c)
  /\ tx' = [tx EXCEPT ![c] = NoTx]
  /\ todo' = [todo EXCEPT ![c] = tx[c].queue]
  /\ Replies(c, asked[c], 0)
  /\ UNCHANGED <<store, table, read, pending, asked>>
\* tx_execute_commands copies the queue and clears it before it runs the copy;
\* after an error, or without memory for the copy, it only clears it.
exec_command(c) ==
  /\ Ready(c)
  /\ \/ /\ InTransaction(c)
        /\ tx' = [tx EXCEPT ![c] = NoTx]
        /\ \/ /\ ~tx[c].errors
              /\ todo' = [todo EXCEPT ![c] = tx[c].queue]
              /\ Replies(c, Len(tx[c].queue), 0)
           \/ /\ todo' = todo
              /\ Replies(c, 1, 1)
        /\ UNCHANGED <<store, table, read, pending, asked>>
     \/ /\ ~InTransaction(c)
        /\ Answered(c)

-----------------------------------------------------------------------------
(* Running a command                                                       *)

\* The handler of the next command returns, with CMD_OK if ok, after a reply.
Return(c, ok) ==
  /\ pending' = [pending EXCEPT ![c] = IF ok /\ IsWrite(Head(todo[c]))
                                       THEN Head(todo[c]) ELSE None]
  /\ todo' = [todo EXCEPT ![c] = Tail(@)]
  /\ owed' = [owed EXCEPT ![c] = @ - 1]
  /\ UNCHANGED <<replay, changes, table, tx, asked>>

MayRun(c) == todo[c] # <<>> /\ read[c] = None /\ pending[c] = None

\* Every command but INCR.  bad stands for what is refused before a handler.
execute_command(c) ==
  /\ MayRun(c)
  /\ Head(todo[c]).op # "incr"
  /\ db' = Apply(db, Head(todo[c]))
  /\ Return(c, Head(todo[c]).op # "bad")
  /\ UNCHANGED read

\* SET or INCR runs out of memory, after INCR has looked its key up.
OutOfMemory(c) ==
  /\ todo[c] # <<>> /\ pending[c] = None
  /\ Allocates(Head(todo[c]))
  /\ Head(todo[c]).op = "incr" <=> read[c] # None
  /\ Return(c, FALSE)
  /\ read' = [read EXCEPT ![c] = None]
  /\ UNCHANGED db

\* INCR reads the object, and refuses one that is not an integer.
incr_command(c) ==
  /\ MayRun(c)
  /\ LET cmd == Head(todo[c])
         o == Looked(db[cmd.key])
     IN /\ cmd.op = "incr"
        /\ db' = [db EXCEPT ![cmd.key] = o]
        /\ \/ /\ Refused(cmd, o)
              /\ Return(c, FALSE)
              /\ UNCHANGED read
           \/ /\ ~Refused(cmd, o)
              /\ read' = [read EXCEPT ![c] = Incremented(o)]
              /\ UNCHANGED <<replay, changes, table, tx, todo, pending, owed, asked>>

\* INCR stores the object it made of what it read.
incr_store(c) ==
  /\ todo[c] # <<>> /\ read[c] # None
  /\ db' = [db EXCEPT ![Head(todo[c]).key] = read[c]]
  /\ read' = [read EXCEPT ![c] = None]
  /\ Return(c, TRUE)

\* track_command_change and replication_feed_slaves, on the primary.
propagate(c) ==
  /\ pending[c] # None
  /\ changes' = IF Primary THEN changes + 1 ELSE changes
  /\ replay' = IF Primary THEN Apply(replay, pending[c]) ELSE replay
  /\ pending' = [pending EXCEPT ![c] = None]
  /\ UNCHANGED <<db, table, tx, todo, read, owed, asked>>

-----------------------------------------------------------------------------
(* Time                                                                    *)

\* A deadline is reached, here and in the replay; the model lets none fall
\* between a write and its propagation.
DeadlinePasses(k) ==
  /\ \A c \in Clients : read[c] = None /\ pending[c] = None
  /\ db[k] # None /\ db[k].expire = "later"
  /\ LET Pass(o) == IF o # None /\ o.expire = "later" THEN [o EXCEPT !.expire = "passed"] ELSE o
     IN  db' = [db EXCEPT ![k] = Pass(@)] /\ replay' = [replay EXCEPT ![k] = Pass(@)]
  /\ UNCHANGED <<changes, table, tx, running, owed, asked>>

\* The cleanup thread calls dict_clear_expired, beside the event loop too.
cleanup_expired_keys ==
  /\ db' = Live(db)
  /\ UNCHANGED <<replay, changes, table, tx, running, owed, asked>>

-----------------------------------------------------------------------------
Init ==
  /\ db = [k \in Keys |-> None]
  /\ replay = [k \in Keys |-> None]
  /\ changes = 0
  /\ conn = [c \in Clients |-> "closed"]
  /\ claim = [c \in Clients |-> 0]
  /\ slots = [i \in 1 .. MaxClients |-> None]
  /\ tx = [c \in Clients |-> NoTx]
  /\ todo = [c \in Clients |-> <<>>]
  /\ read = [c \in Clients |-> None]
  /\ pending = [c \in Clients |-> None]
  /\ owed = [c \in Clients |-> 0]
  /\ asked = [c \in Clients |-> 0]

Next ==
  \/ \E c \in Clients :
       \/ Accept(c) \/ register_client(c) \/ Disconnect(c)
       \/ \E cmd \in Pool : tx_queue_command(c, cmd) \/ Request(c, cmd)
       \/ multi_command(c) \/ discard_command(c) \/ exec_command(c)
       \/ execute_command(c) \/ OutOfMemory(c)
       \/ incr_command(c) \/ incr_store(c) \/ propagate(c)
  \/ \E k \in Keys : DeadlinePasses(k)
  \/ cleanup_expired_keys

Spec == Init /\ [][Next]_vars

-----------------------------------------------------------------------------
(* Properties                                                              *)

TypeOK ==
  /\ db \in [Keys -> Object \cup {None}]
  /\ replay \in [Keys -> Object \cup {None}]
  /\ changes \in Nat
  /\ conn \in [Clients -> {"closed", "claiming", "open"}]
  /\ claim \in [Clients -> 0 .. MaxClients]
  /\ slots \in [1 .. MaxClients -> Clients \cup {None}]
  /\ tx \in [Clients -> [in : BOOLEAN, errors : BOOLEAN, queue : Seq(Pool)]]
  /\ todo \in [Clients -> Seq(Pool)]
  /\ read \in [Clients -> Object \cup {None}]
  /\ pending \in [Clients -> Pool \cup {None}]
  /\ owed \in [Clients -> Int]
  /\ asked \in [Clients -> Nat]

\* A command sent after MULTI is queued: while its client is in a transaction
\* nothing of it runs, is counted or is fed.
TxQueued == \A c \in Clients : tx[c].in => Idle(c)

\* EXEC, DISCARD, an aborted EXEC and a lost connection all leave nothing that
\* the next transaction on the connection would run or be aborted by.
QueueClean == \A c \in Clients : ~tx[c].in => tx[c] = NoTx

\* A transaction ends with everything the client sent since MULTI about to run,
\* or with nothing: a command that could not be queued is never skipped.
AllOrNothing ==
  [][\A c \in Clients : tx[c].in /\ ~tx'[c].in => Len(todo'[c]) \in {0, asked[c]}]_vars

\* At rest no announced reply is missing: neither the answer of a command nor
\* an element of the array whose length EXEC sent first.
NoReplyMissing == \A c \in Clients : Idle(c) => owed[c] <= 0

\* client_list never holds a client_t that was freed, and holds none twice:
\* execute_command reads through these pointers for every request.
NoDanglingClient ==
  /\ \A i \in 1 .. MaxClients : slots[i] # None => conn[slots[i]] = "open"
  /\ \A i, j \in 1 .. MaxClients : slots[i] = slots[j] /\ slots[i] # None => i = j

\* Between two requests, who replays the feed from the beginning sees what the
\* primary's clients see: what changed is fed once, in order, and what failed
\* or was only queued is not.
ReplayInSync == Primary /\ (\A c \in Clients : Idle(c)) => Live(replay) = Live(db)
=============================================================================
