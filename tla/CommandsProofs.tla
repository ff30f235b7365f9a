--------------------------- MODULE CommandsProofs ---------------------------
(***************************************************************************)
(* For any clients, keys and commands: in either concurrency model         *)
(* transactions leave nothing behind and are all or nothing, no reply that *)
(* was announced is missing and client_list holds no client that is freed; *)
(* and under the event loop, and for threads that register one at a time,  *)
(* no command of a transaction runs early; under the event loop the feed   *)
(* replays to the database.                                                *)
(***************************************************************************)
EXTENDS Commands, TLAPS

Objects == Object \cup {None}

-----------------------------------------------------------------------------
(* Lemmas about commands                                                   *)

\* An object can be told from no object.
LEMMA NoneIsNew == None \notin Object /\ None \notin Pool /\ None \notin Clients
BY CommandsAssumption

\* INCR stores an integer of the width of a long long.
LEMMA IncrementedType ==
  ASSUME NEW o \in Objects, o # None => o.val # Text
  PROVE  Incremented(o) \in Object
<1>1. IntModulus \in Nat /\ IntModulus > 1
  BY CommandsAssumption
<1>2. \A n \in Nat : n % IntModulus \in 0 .. IntModulus - 1
  BY <1>1
<1>3. CASE o = None
  <2>1. 1 % IntModulus \in 0 .. IntModulus - 1
    BY <1>2
  <2> QED
    BY <1>3, <2>1 DEF Incremented, Object, Deadline
<1>4. CASE o # None
  <2>1. o \in Object /\ o.val \in 0 .. IntModulus - 1 /\ o.expire \in Deadline
    BY <1>4 DEF Objects, Object
  <2>2. (o.val + 1) % IntModulus \in 0 .. IntModulus - 1
    BY <1>2, <2>1
  <2> QED
    BY <1>4, <2>1, <2>2 DEF Incremented, Object
<1> QED
  BY <1>3, <1>4

\* A command leaves an object or none.
LEMMA AfterType ==
  ASSUME NEW c \in Pool, NEW o \in Objects
  PROVE  After(c, o) \in Objects
<1>1. c \in Command
  BY CommandsAssumption
<1>2. Looked(o) \in Objects
  BY DEF Looked, Objects
<1>3. CASE c.op = "set"
  BY <1>1, <1>3 DEF After, Objects, Object, Command
<1>4. CASE c.op = "del"
  BY <1>4 DEF After, Objects
<1>5. CASE c.op = "get"
  BY <1>2, <1>5 DEF After
<1>6. CASE c.op = "incr"
  <2>1. CASE Refused(c, Looked(o))
    BY <1>2, <1>6, <2>1 DEF After
  <2>2. CASE ~Refused(c, Looked(o))
    <3>1. Incremented(Looked(o)) \in Object
      BY <1>2, <1>6, <2>2, IncrementedType DEF Refused
    <3> QED
      BY <1>6, <2>2, <3>1 DEF After, Objects
  <2> QED
    BY <2>1, <2>2
<1>7. CASE c.op = "expire"
  <2>1. c.expire \in Deadline
    BY <1>1 DEF Command
  <2>2. CASE Looked(o) = None
    BY <1>7, <2>2 DEF After, Objects
  <2>3. CASE Looked(o) # None
    <3>1. o \in Object
      BY <2>3 DEF Looked, Objects
    <3>2. [o EXCEPT !.expire = c.expire] \in Object
      BY <2>1, <3>1 DEF Object
    <3> QED
      BY <1>7, <2>3, <3>2 DEF After, Objects
  <2> QED
    BY <2>2, <2>3
<1>8. CASE c.op = "bad"
  BY <1>8 DEF After
<1> QED
  BY <1>1, <1>3, <1>4, <1>5, <1>6, <1>7, <1>8 DEF Command

\* Looking a key up twice is looking it up once.
LEMMA LookedTwice == \A o : Looked(Looked(o)) = Looked(o)
BY DEF Looked

\* What a command leaves depends on its object only through a look at it: an
\* expired object that is still in the table makes no difference.
LEMMA AfterLooked ==
  ASSUME NEW c \in Pool, NEW o \in Objects, NEW p \in Objects, Looked(o) = Looked(p)
  PROVE  Looked(After(c, o)) = Looked(After(c, p))
<1>1. c.op \in {"set", "get", "del", "incr", "expire", "bad"}
  BY CommandsAssumption DEF Command
<1>2. CASE c.op = "expire"
  <2>1. Looked(o) # None => Looked(o) = o /\ Looked(p) = p
    BY DEF Looked
  <2> QED
    BY <1>2, <2>1 DEF After
<1>3. CASE c.op \in {"set", "del", "get", "incr"}
  BY <1>3 DEF After
<1>4. CASE c.op = "bad"
  BY <1>4 DEF After
<1> QED
  BY <1>1, <1>2, <1>3, <1>4

\* A command that is not a write shows nothing new.
LEMMA ReadsAreInvisible ==
  ASSUME NEW c \in Pool, NEW o \in Objects, ~IsWrite(c)
  PROVE  Looked(After(c, o)) = Looked(o)
<1>1. c.op \in {"get", "bad"}
  BY CommandsAssumption DEF Command, IsWrite
<1> QED
  BY <1>1, LookedTwice DEF After

-----------------------------------------------------------------------------
(* Types                                                                   *)

\* The record of a client without a transaction.
LEMMA NoTxType == NoTx \in [in : BOOLEAN, errors : BOOLEAN, queue : Seq(Pool)]
BY DEF NoTx

\* Everything starts empty.
LEMMA InitType == Init => TypeOK
<1> SUFFICES ASSUME Init PROVE TypeOK
  OBVIOUS
<1>1. MaxClients \in Nat
  BY CommandsAssumption
<1>2. tx \in [Clients -> [in : BOOLEAN, errors : BOOLEAN, queue : Seq(Pool)]]
  BY NoTxType DEF Init
<1>3. todo \in [Clients -> Seq(Pool)]
  BY DEF Init
<1> QED
  BY <1>1, <1>2, <1>3 DEF Init, TypeOK

\* The type invariant by the variables that change together.
TxRecord == [in : BOOLEAN, errors : BOOLEAN, queue : Seq(Pool)]
StoreType == db \in [Keys -> Objects] /\ replay \in [Keys -> Objects] /\ changes \in Nat
ConnType ==
  /\ conn \in [Clients -> {"closed", "claiming", "open"}]
  /\ claim \in [Clients -> 0 .. MaxClients]
  /\ slots \in [1 .. MaxClients -> Clients \cup {None}]
TxType == tx \in [Clients -> TxRecord]
RunType ==
  /\ todo \in [Clients -> Seq(Pool)]
  /\ read \in [Clients -> Objects]
  /\ pending \in [Clients -> Pool \cup {None}]
CountType == owed \in [Clients -> Int] /\ asked \in [Clients -> Nat]

\* TypeOK is the conjunction of its parts, now and in the next state.
LEMMA TypeParts ==
  /\ TypeOK <=> StoreType /\ ConnType /\ TxType /\ RunType /\ CountType
  /\ TypeOK' <=> StoreType' /\ ConnType' /\ TxType' /\ RunType' /\ CountType'
<1>1. TypeOK <=> StoreType /\ ConnType /\ TxType /\ RunType /\ CountType
  BY DEF TypeOK, StoreType, ConnType, TxType, RunType, CountType, TxRecord, Objects
<1>2. TypeOK' <=> StoreType' /\ ConnType' /\ TxType' /\ RunType' /\ CountType'
  BY DEF TypeOK, StoreType, ConnType, TxType, RunType, CountType, TxRecord, Objects
<1> QED
  BY <1>1, <1>2

\* A part of which no variable changes keeps its type.
LEMMA PartsSame ==
  ASSUME TypeOK
  PROVE  /\ UNCHANGED store => StoreType'
         /\ UNCHANGED table => ConnType'
         /\ UNCHANGED tx => TxType'
         /\ UNCHANGED running => RunType'
<1> USE TypeParts
<1>1. UNCHANGED store => StoreType'
  BY DEF StoreType, store
<1>2. UNCHANGED table => ConnType'
  BY DEF ConnType, table
<1>3. UNCHANGED tx => TxType'
  BY DEF TxType
<1>4. UNCHANGED running => RunType'
  BY DEF RunType, running
<1> QED
  BY <1>1, <1>2, <1>3, <1>4

\* The updates of a transaction record the handlers make.
LEMMA TxUpdates ==
  ASSUME TypeOK, NEW c \in Clients, NEW cmd \in Pool
  PROVE  /\ tx' = [tx EXCEPT ![c] = NoTx] => TxType'
         /\ tx' = [tx EXCEPT ![c].queue = Append(@, cmd)] => TxType'
         /\ tx' = [tx EXCEPT ![c].errors = TRUE] => TxType'
<1>1. tx \in [Clients -> TxRecord] /\ tx[c] \in TxRecord
  BY TypeParts DEF TxType
<1>2. NoTx \in TxRecord
  BY DEF NoTx, TxRecord
<1>3. [tx[c] EXCEPT !.queue = Append(@, cmd)] \in TxRecord
  <2>1. tx[c].queue \in Seq(Pool)
    BY <1>1 DEF TxRecord
  <2>2. Append(tx[c].queue, cmd) \in Seq(Pool)
    BY <2>1
  <2> HIDE DEF TxRecord
  <2>3. ASSUME NEW q \in Seq(Pool)
        PROVE  [tx[c] EXCEPT !.queue = q] \in TxRecord
    BY <1>1 DEF TxRecord
  <2> QED
    BY <2>2, <2>3
<1>4. [tx[c] EXCEPT !.errors = TRUE] \in TxRecord
  BY <1>1 DEF TxRecord
<1>6. ASSUME NEW r \in TxRecord, tx' = [tx EXCEPT ![c] = r]
      PROVE  TxType'
  BY <1>1, <1>6 DEF TxType
<1>7. tx' = [tx EXCEPT ![c].queue = Append(@, cmd)]
        => tx' = [tx EXCEPT ![c] = [tx[c] EXCEPT !.queue = Append(@, cmd)]]
  OBVIOUS
<1>8. tx' = [tx EXCEPT ![c].errors = TRUE]
        => tx' = [tx EXCEPT ![c] = [tx[c] EXCEPT !.errors = TRUE]]
  OBVIOUS
<1> QED
  BY <1>2, <1>3, <1>4, <1>6, <1>7, <1>8

\* A step of one client changes its counters to integers of the right kind.
LEMMA CountUpdates ==
  ASSUME TypeOK, NEW c \in Clients
  PROVE  /\ \A n, m \in Int : Replies(c, n, m) /\ asked' = asked => CountType'
         /\ owed' = owed /\ asked' = asked => CountType'
         /\ owed' = owed /\ asked' = [asked EXCEPT ![c] = 0] => CountType'
         /\ owed' = [owed EXCEPT ![c] = 0] /\ asked' = asked => CountType'
         /\ owed' = [owed EXCEPT ![c] = @ - 1] /\ asked' = asked => CountType'
<1>1. owed \in [Clients -> Int] /\ asked \in [Clients -> Nat]
  BY TypeParts DEF CountType
<1>2. owed[c] - 1 \in Int /\ asked[c] + 1 \in Nat
  BY <1>1
<1>3. \A n, m \in Int : n - m \in Int
  OBVIOUS
<1>4. \A i \in Int : [owed EXCEPT ![c] = i] \in [Clients -> Int]
  BY <1>1
<1>5. \A i \in Nat : [asked EXCEPT ![c] = i] \in [Clients -> Nat]
  BY <1>1
<1> QED
  BY <1>1, <1>2, <1>3, <1>4, <1>5 DEF CountType, Replies

\* The types after a handler has returned.
LEMMA ReturnType ==
  ASSUME TypeOK, NEW c \in Clients, NEW ok \in BOOLEAN, Return(c, ok), todo[c] # <<>>,
         db' \in [Keys -> Objects], read' \in [Clients -> Objects]
  PROVE  TypeOK'
<1> USE TypeParts
<1>1. todo[c] \in Seq(Pool)
  BY DEF RunType
<1>2. Head(todo[c]) \in Pool /\ Tail(todo[c]) \in Seq(Pool)
  BY <1>1
<1>3. StoreType'
  BY DEF StoreType, Return
<1>4. todo' \in [Clients -> Seq(Pool)]
  BY <1>2 DEF RunType, Return
<1>5. pending' \in [Clients -> Pool \cup {None}]
  BY <1>2 DEF RunType, Return
<1>6. ConnType' /\ TxType'
  BY PartsSame DEF Return
<1>7. CountType'
  BY CountUpdates DEF Return
<1> QED
  BY <1>3, <1>4, <1>5, <1>6, <1>7 DEF RunType

\* Every step keeps the types.
LEMMA TypeStep == TypeOK /\ [Next]_vars => TypeOK'
<1> SUFFICES ASSUME TypeOK, [Next]_vars PROVE TypeOK'
  OBVIOUS
<1> USE TypeParts
<1>1. ASSUME NEW c \in Clients, Accept(c)
      PROVE  TypeOK'
  <2>1. TxType'
    BY <1>1, NoTxType DEF Accept, TxType, TxRecord
  <2>2. FirstFree \subseteq 1 .. MaxClients /\ FirstFree \subseteq 0 .. MaxClients
    BY CommandsAssumption DEF FirstFree, FreeSlots
  <2>3. claim' \in [Clients -> 0 .. MaxClients]
    <3>1. CASE \E i \in FirstFree : claim' = [claim EXCEPT ![c] = i]
      BY <2>2, <3>1 DEF ConnType
    <3>2. CASE claim' = claim
      BY <3>2 DEF ConnType
    <3> QED
      BY <1>1, <3>1, <3>2 DEF Accept
  <2>4. slots' \in [1 .. MaxClients -> Clients \cup {None}]
    <3>1. CASE \E i \in FirstFree : slots' = [slots EXCEPT ![i] = c]
      BY <2>2, <3>1 DEF ConnType
    <3>2. CASE slots' = slots
      BY <3>2 DEF ConnType
    <3> QED
      BY <1>1, <3>1, <3>2 DEF Accept
  <2>5. conn' \in [Clients -> {"closed", "claiming", "open"}]
    BY <1>1 DEF Accept, ConnType
  <2>6. StoreType' /\ RunType' /\ CountType'
    BY <1>1, PartsSame, CountUpdates DEF Accept
  <2> QED
    BY <2>1, <2>3, <2>4, <2>5, <2>6 DEF ConnType
<1>2. ASSUME NEW c \in Clients, register_client(c)
      PROVE  TypeOK'
  <2>1. claim' \in [Clients -> 0 .. MaxClients]
    BY <1>2, CommandsAssumption DEF register_client, ConnType
  <2>2. conn' \in [Clients -> {"closed", "claiming", "open"}]
    BY <1>2 DEF register_client, ConnType
  <2>3. slots' \in [1 .. MaxClients -> Clients \cup {None}]
    BY <1>2 DEF register_client, ConnType
  <2>4. StoreType' /\ TxType' /\ RunType' /\ CountType'
    BY <1>2, PartsSame, CountUpdates DEF register_client
  <2> QED
    BY <2>1, <2>2, <2>3, <2>4 DEF ConnType
<1>3. ASSUME NEW c \in Clients, Disconnect(c)
      PROVE  TypeOK'
  <2>1. TxType'
    BY <1>3, NoTxType DEF Disconnect, Forget, TxType, TxRecord
  <2>2. conn' \in [Clients -> {"closed", "claiming", "open"}]
    BY <1>3 DEF Disconnect, Forget, ConnType
  <2>3. slots' \in [1 .. MaxClients -> Clients \cup {None}]
    BY <1>3 DEF Disconnect, Forget, ConnType
  <2>4. StoreType' /\ RunType' /\ CountType' /\ claim' = claim
    BY <1>3, PartsSame, CountUpdates DEF Disconnect, Forget
  <2> QED
    BY <2>1, <2>2, <2>3, <2>4 DEF ConnType
<1>4. ASSUME NEW c \in Clients, NEW cmd \in Pool, tx_queue_command(c, cmd)
      PROVE  TypeOK'
  <2>1. TxType'
    BY <1>4, TxUpdates DEF tx_queue_command
  <2>2. CountType'
    BY <1>4 DEF tx_queue_command, CountType, Replies
  <2>3. StoreType' /\ ConnType' /\ RunType'
    BY <1>4, PartsSame DEF tx_queue_command
  <2> QED
    BY <2>1, <2>2, <2>3
<1>5. ASSUME NEW c \in Clients, NEW cmd \in Pool, Request(c, cmd)
      PROVE  TypeOK'
  <2>1. RunType'
    BY <1>5 DEF Request, RunType
  <2> QED
    BY <1>5, <2>1, PartsSame, CountUpdates DEF Request
<1>6. ASSUME NEW c \in Clients, Answered(c)
      PROVE  TypeOK'
  BY <1>6, PartsSame, CountUpdates DEF Answered
<1>7. ASSUME NEW c \in Clients, multi_command(c)
      PROVE  TypeOK'
  <2>1. CASE tx' = [tx EXCEPT ![c].in = TRUE, ![c].errors = FALSE] /\ UNCHANGED <<store, table, running>>
             /\ Replies(c, 1, 1) /\ asked' = [asked EXCEPT ![c] = 0]
    <3>1. TxType'
      BY <2>1 DEF TxType, TxRecord
    <3>2. CountType'
      BY <2>1 DEF CountType, Replies
    <3>3. StoreType' /\ ConnType' /\ RunType'
      BY <2>1, PartsSame
    <3> QED
      BY <3>1, <3>2, <3>3
  <2> QED
    BY <1>6, <1>7, <2>1 DEF multi_command
<1>8. ASSUME NEW c \in Clients, discard_command(c)
      PROVE  TypeOK'
  <2>1. tx' = [tx EXCEPT ![c] = NoTx] => TxType'
    BY NoTxType DEF TxType, TxRecord
  <2>2. CASE tx' = [tx EXCEPT ![c] = NoTx] /\ UNCHANGED <<store, table, running, asked>>
             /\ Replies(c, 1, 2)
    BY <2>1, <2>2, PartsSame, CountUpdates
  <2> QED
    BY <1>6, <1>8, <2>2 DEF discard_command
<1>9. ASSUME NEW c \in Clients, exec_command(c)
      PROVE  TypeOK'
  <2>1. tx' = [tx EXCEPT ![c] = NoTx] => TxType'
    BY NoTxType DEF TxType, TxRecord
  <2>2. tx[c].queue \in Seq(Pool)
    BY DEF TxType, TxRecord
  <2>3. Len(tx[c].queue) \in Int
    BY <2>2
  <2>4. CASE /\ tx' = [tx EXCEPT ![c] = NoTx]
             /\ \/ todo' = [todo EXCEPT ![c] = tx[c].queue] /\ Replies(c, Len(tx[c].queue), 0)
                \/ todo' = todo /\ Replies(c, 1, 1)
             /\ UNCHANGED <<store, table, read, pending, asked>>
    <3>1. RunType'
      BY <2>2, <2>4 DEF RunType
    <3>2. CountType'
      BY <2>3, <2>4, CountUpdates
    <3> QED
      BY <2>1, <2>4, <3>1, <3>2, PartsSame
  <2> QED
    BY <1>6, <1>9, <2>4 DEF exec_command
<1>10. ASSUME NEW c \in Clients, execute_command(c)
       PROVE  TypeOK'
  <2>1. todo[c] # <<>> /\ Head(todo[c]) \in Pool
    BY <1>10 DEF execute_command, MayRun, RunType
  <2>2. db' \in [Keys -> Objects]
    BY <1>10, <2>1, AfterType DEF execute_command, Apply, StoreType
  <2>3. read' \in [Clients -> Objects]
    BY <1>10 DEF execute_command, RunType
  <2> QED
    BY <1>10, <2>1, <2>2, <2>3, ReturnType DEF execute_command
<1>11. ASSUME NEW c \in Clients, OutOfMemory(c)
       PROVE  TypeOK'
  <2>1. db' \in [Keys -> Objects]
    BY <1>11 DEF OutOfMemory, StoreType
  <2>2. read' \in [Clients -> Objects]
    BY <1>11 DEF OutOfMemory, RunType, Objects
  <2> QED
    BY <1>11, <2>1, <2>2, ReturnType DEF OutOfMemory
<1>12. ASSUME NEW c \in Clients, incr_command(c)
       PROVE  TypeOK'
  <2> DEFINE cmd == Head(todo[c])
             o == Looked(db[cmd.key])
  <2>1. todo[c] # <<>> /\ cmd \in Pool
    BY <1>12 DEF incr_command, MayRun, RunType
  <2>2. cmd.key \in Keys
    BY <2>1, CommandsAssumption DEF Command
  <2>3. o \in Objects
    BY <2>2 DEF Looked, StoreType, Objects
  <2>4. db' \in [Keys -> Objects]
    BY <1>12, <2>3 DEF incr_command, StoreType
  <2>5. CASE Refused(cmd, o) /\ Return(c, FALSE) /\ UNCHANGED read
    BY <2>1, <2>4, <2>5, ReturnType DEF RunType
  <2>6. CASE /\ ~Refused(cmd, o)
             /\ read' = [read EXCEPT ![c] = Incremented(o)]
             /\ UNCHANGED <<replay, changes, table, tx, todo, pending, owed, asked>>
    <3>1. Incremented(o) \in Objects
      BY <1>12, <2>3, <2>6, IncrementedType DEF incr_command, Refused, Objects
    <3>2. RunType'
      BY <2>6, <3>1 DEF RunType
    <3>3. StoreType'
      BY <2>4, <2>6 DEF StoreType
    <3> QED
      BY <2>6, <3>2, <3>3, PartsSame, CountUpdates
  <2> QED
    BY <1>12, <2>5, <2>6 DEF incr_command
<1>13. ASSUME NEW c \in Clients, incr_store(c)
       PROVE  TypeOK'
  <2>1. db' \in [Keys -> Objects]
    BY <1>13 DEF incr_store, StoreType, RunType
  <2>2. read' \in [Clients -> Objects]
    BY <1>13 DEF incr_store, RunType, Objects
  <2> QED
    BY <1>13, <2>1, <2>2, ReturnType DEF incr_store
<1>14. ASSUME NEW c \in Clients, propagate(c)
       PROVE  TypeOK'
  <2>1. pending[c] \in Pool
    BY <1>14 DEF propagate, RunType
  <2>2. StoreType'
    <3>1. pending[c].key \in Keys
      BY <2>1, CommandsAssumption DEF Command
    <3>2. After(pending[c], replay[pending[c].key]) \in Objects
      BY <2>1, <3>1, AfterType DEF StoreType
    <3>3. replay' \in [Keys -> Objects]
      BY <1>14, <3>2 DEF propagate, StoreType, Apply
    <3>4. changes' \in Nat
      BY <1>14 DEF propagate, StoreType
    <3> QED
      BY <1>14, <3>3, <3>4 DEF propagate, StoreType
  <2>3. RunType'
    BY <1>14 DEF propagate, RunType
  <2> QED
    BY <1>14, <2>2, <2>3, PartsSame, CountUpdates DEF propagate
<1>15. ASSUME NEW k \in Keys, DeadlinePasses(k)
       PROVE  TypeOK'
  <2> DEFINE Pass(o) == IF o # None /\ o.expire = "later" THEN [o EXCEPT !.expire = "passed"] ELSE o
  <2>1. \A o \in Objects : Pass(o) \in Objects
    BY DEF Objects, Object, Deadline
  <2>2. db' = [db EXCEPT ![k] = Pass(@)] /\ replay' = [replay EXCEPT ![k] = Pass(@)]
    BY <1>15 DEF DeadlinePasses
  <2>3. UNCHANGED <<changes, table, tx, running, owed, asked>>
    BY <1>15 DEF DeadlinePasses
  <2> HIDE DEF Pass
  <2>4. StoreType'
    BY <2>1, <2>2, <2>3 DEF StoreType
  <2> QED
    BY <2>3, <2>4, PartsSame DEF CountType
<1>16. ASSUME cleanup_expired_keys
       PROVE  TypeOK'
  <2>1. StoreType'
    BY <1>16 DEF cleanup_expired_keys, Live, Looked, StoreType, Objects
  <2> QED
    BY <1>16, <2>1, PartsSame DEF cleanup_expired_keys, CountType
<1>17. ASSUME UNCHANGED vars
       PROVE  TypeOK'
  BY <1>17 DEF vars, TypeOK
<1> QED
  BY <1>1, <1>2, <1>3, <1>4, <1>5, <1>7, <1>8, <1>9, <1>10, <1>11, <1>12, <1>13,
     <1>14, <1>15, <1>16, <1>17 DEF Next

\* The types hold in every reachable state, whatever the concurrency model.
THEOREM TypeCorrect == Spec => []TypeOK
BY InitType, TypeStep, PTL DEF Spec

-----------------------------------------------------------------------------
(* Transactions                                                            *)

\* A step of client c leaves the transactions and the work of the others alone.
Local(c) ==
  \A d \in Clients \ {c} :
    tx'[d] = tx[d] /\ todo'[d] = todo[d] /\ read'[d] = read[d] /\ pending'[d] = pending[d]

\* The steps of one client.
ClientStep(c) ==
  \/ Accept(c) \/ register_client(c) \/ Disconnect(c)
  \/ \E cmd \in Pool : tx_queue_command(c, cmd) \/ Request(c, cmd)
  \/ multi_command(c) \/ discard_command(c) \/ exec_command(c)
  \/ execute_command(c) \/ OutOfMemory(c)
  \/ incr_command(c) \/ incr_store(c) \/ propagate(c)

\* The steps of the clock and of the cleanup thread.
TimeStep == (\E k \in Keys : DeadlinePasses(k)) \/ cleanup_expired_keys

\* Every step is one of these.
LEMMA Steps == [Next]_vars <=> (\E c \in Clients : ClientStep(c)) \/ TimeStep \/ UNCHANGED vars
BY DEF Next, ClientStep, TimeStep

\* The handlers only touch the transaction and the work of their client.
LEMMA StepsAreLocal ==
  ASSUME TypeOK, NEW c \in Clients, ClientStep(c)
  PROVE  Local(c)
<1>1. TxType /\ RunType
  BY TypeParts
<1>2. CASE Accept(c) \/ register_client(c) \/ Disconnect(c)
  BY <1>1, <1>2 DEF Accept, register_client, Disconnect, Forget, Local, TxType, RunType, running
<1>3. CASE \E cmd \in Pool : tx_queue_command(c, cmd) \/ Request(c, cmd)
  BY <1>1, <1>3 DEF tx_queue_command, Request, Local, TxType, RunType, running
<1>4. CASE multi_command(c) \/ discard_command(c) \/ exec_command(c)
  BY <1>1, <1>4 DEF multi_command, discard_command, exec_command, Answered, Local, TxType,
     RunType, running
<1>5. CASE execute_command(c) \/ OutOfMemory(c) \/ incr_command(c) \/ incr_store(c)
  BY <1>1, <1>5 DEF execute_command, OutOfMemory, incr_command, incr_store, Return, Local,
     TxType, RunType, running
<1>6. CASE propagate(c)
  BY <1>1, <1>6 DEF propagate, Local, TxType, RunType
<1> QED
  BY <1>2, <1>3, <1>4, <1>5, <1>6 DEF ClientStep

\* The clock and the cleanup thread touch no transaction and no client's work.
LEMMA TimeIsQuiet == TimeStep \/ UNCHANGED vars => UNCHANGED <<tx, running>>
BY DEF TimeStep, DeadlinePasses, cleanup_expired_keys, vars, running

\* Every way out of a transaction empties it.
LEMMA QueueCleanStep == TypeOK /\ QueueClean /\ [Next]_vars => QueueClean'
<1> SUFFICES ASSUME TypeOK, QueueClean, [Next]_vars PROVE QueueClean'
  OBVIOUS
<1>1. tx \in [Clients -> TxRecord]
  BY TypeParts DEF TxType
<1>2. ASSUME NEW c \in Clients, ClientStep(c)
      PROVE  QueueClean'
  <2>1. Local(c)
    BY <1>2, StepsAreLocal
  <2>2. tx'[c].in \/ tx'[c] = NoTx
    <3>1. CASE Accept(c) \/ register_client(c) \/ Disconnect(c)
      BY <1>1, <3>1 DEF Accept, register_client, Disconnect, Forget, QueueClean
    <3>2. CASE \E cmd \in Pool : tx_queue_command(c, cmd) \/ Request(c, cmd)
      <4>1. CASE \E cmd \in Pool : Request(c, cmd)
        BY <4>1 DEF Request, QueueClean
      <4>2. ASSUME NEW cmd \in Pool, tx_queue_command(c, cmd)
            PROVE  tx'[c].in
        <5>1. tx[c].in /\ tx[c] \in TxRecord
          BY <1>1, <4>2 DEF tx_queue_command, InTransaction
        <5>2. CASE tx' = [tx EXCEPT ![c].queue = Append(@, cmd)]
          BY <1>1, <5>1, <5>2 DEF TxRecord
        <5>3. CASE tx' = [tx EXCEPT ![c].errors = TRUE]
          BY <1>1, <5>1, <5>3 DEF TxRecord
        <5> QED
          BY <4>2, <5>2, <5>3 DEF tx_queue_command
      <4> QED
        BY <3>2, <4>1, <4>2
    <3>3. CASE multi_command(c)
      BY <1>1, <3>3 DEF multi_command, Answered, QueueClean, TxRecord
    <3>4. CASE discard_command(c) \/ exec_command(c)
      BY <1>1, <3>4 DEF discard_command, exec_command, Answered, QueueClean
    <3>5. CASE \/ execute_command(c) \/ OutOfMemory(c) \/ incr_command(c)
               \/ incr_store(c) \/ propagate(c)
      BY <3>5 DEF execute_command, OutOfMemory, incr_command, incr_store, propagate, Return,
         QueueClean
    <3> QED
      BY <1>2, <3>1, <3>2, <3>3, <3>4, <3>5 DEF ClientStep
  <2> QED
    BY <2>1, <2>2 DEF Local, QueueClean
<1>3. CASE TimeStep \/ UNCHANGED vars
  BY <1>3, TimeIsQuiet DEF QueueClean
<1> QED
  BY <1>2, <1>3, Steps

\* In either concurrency model a connection outside a transaction holds nothing
\* of an earlier one: exec_command, discard_command, tx_cleanup leave it clean.
THEOREM QueuesClean == Spec => []QueueClean
<1>1. Init => QueueClean
  BY DEF Init, QueueClean
<1> QED
  BY <1>1, TypeCorrect, QueueCleanStep, PTL DEF Spec

\* Under the event loop nothing of a transaction runs before EXEC.
LEMMA TxQueuedStep ==
  ASSUME ~Threaded
  PROVE  TypeOK /\ TxQueued /\ [Next]_vars => TxQueued'
<1> SUFFICES ASSUME TypeOK, TxQueued, [Next]_vars PROVE TxQueued'
  OBVIOUS
<1>1. TxType /\ RunType
  BY TypeParts
<1>2. ASSUME NEW c \in Clients, ClientStep(c)
      PROVE  TxQueued'
  <2>1. Local(c)
    BY <1>2, StepsAreLocal
  <2>2. tx'[c].in => Idle(c)'
    <3>1. CASE Accept(c) \/ register_client(c) \/ Disconnect(c)
      BY <1>1, <3>1 DEF Accept, register_client, Disconnect, Forget, running, Idle, TxQueued,
         TxType, NoTx
    <3>2. CASE \E cmd \in Pool : tx_queue_command(c, cmd)
      BY <3>2 DEF tx_queue_command, Ready, running, Idle
    <3>3. CASE \E cmd \in Pool : Request(c, cmd)
      BY <3>3 DEF Request, Ready, InTransaction
    <3>4. CASE multi_command(c)
      BY <3>4 DEF multi_command, Answered, Ready, running, Idle
    <3>5. CASE discard_command(c) \/ exec_command(c)
      BY <1>1, <3>5 DEF discard_command, exec_command, Answered, Ready, running, Idle, TxType,
         NoTx
    <3>6. CASE \/ execute_command(c) \/ OutOfMemory(c) \/ incr_command(c)
               \/ incr_store(c) \/ propagate(c)
      BY <3>6 DEF execute_command, OutOfMemory, incr_command, incr_store, propagate, MayRun,
         Return, Idle, TxQueued
    <3> QED
      BY <1>2, <3>1, <3>2, <3>3, <3>4, <3>5, <3>6 DEF ClientStep
  <2> QED
    BY <2>1, <2>2 DEF Local, TxQueued, Idle
<1>3. CASE TimeStep \/ UNCHANGED vars
  BY <1>3, TimeIsQuiet DEF TxQueued, Idle, running
<1> QED
  BY <1>2, <1>3, Steps

\* Under the event loop a command sent after MULTI is queued, for any number of
\* clients and whatever they send (execute_command and tx_queue_command).
THEOREM TransactionsQueue ==
  ASSUME ~Threaded
  PROVE  Spec => []TxQueued
<1>1. Init => TxQueued
  BY DEF Init, TxQueued, NoTx
<1> QED
  BY <1>1, TypeCorrect, TxQueuedStep, PTL DEF Spec

-----------------------------------------------------------------------------
(* The feed                                                                *)

\* The event loop serves one client at a time.
Serial == \A c, d \in Clients : ~Idle(c) /\ ~Idle(d) => c = d

\* Between a write and its propagation the feed is short of just that write.
FeedBehindByOne ==
  /\ (\A c \in Clients : pending[c] = None) => Live(replay) = Live(db)
  /\ \A c \in Clients : pending[c] # None => Live(Apply(replay, pending[c])) = Live(db)

\* What INCR is about to store is still right for the object in the dictionary.
ReadIsCurrent ==
  \A c \in Clients : read[c] # None =>
    /\ todo[c] # <<>> /\ pending[c] = None
    /\ Head(todo[c]).op = "incr"
    /\ LET o == Looked(db[Head(todo[c]).key])
       IN  ~Refused(Head(todo[c]), o) /\ read[c] = Incremented(o)

LoopInv == TypeOK /\ Serial /\ FeedBehindByOne /\ ReadIsCurrent

\* No other client than c is being served.
Alone(c) == \A d \in Clients \ {c} : Idle(d)

\* A command that is applied to two databases clients cannot tell apart leaves
\* two they cannot tell apart.
LEMMA AppliedAlike ==
  ASSUME NEW c \in Pool, NEW d \in [Keys -> Objects], NEW e \in [Keys -> Objects],
         Live(d) = Live(e)
  PROVE  Live(Apply(d, c)) = Live(Apply(e, c))
<1>1. c.key \in Keys
  BY CommandsAssumption DEF Command
<1>2. \A k \in Keys : Looked(d[k]) = Looked(e[k])
  BY DEF Live
<1>3. Looked(After(c, d[c.key])) = Looked(After(c, e[c.key]))
  BY <1>1, <1>2, AfterLooked
<1>4. \A k \in Keys : Looked(Apply(d, c)[k]) = Looked(Apply(e, c)[k])
  BY <1>1, <1>2, <1>3 DEF Apply
<1> QED
  BY <1>4 DEF Live

\* A command that is not a write changes nothing clients can see.
LEMMA ReadsShowNothing ==
  ASSUME NEW c \in Pool, NEW d \in [Keys -> Objects], ~IsWrite(c)
  PROVE  Live(Apply(d, c)) = Live(d)
<1>1. c.key \in Keys
  BY CommandsAssumption DEF Command
<1>2. Looked(After(c, d[c.key])) = Looked(d[c.key])
  BY <1>1, ReadsAreInvisible
<1>3. \A k \in Keys : Looked(Apply(d, c)[k]) = Looked(d[k])
  BY <1>1, <1>2 DEF Apply
<1> QED
  BY <1>3 DEF Live

\* Looking up one key, or all of them, changes nothing clients can see.
LEMMA LooksShowNothing ==
  ASSUME NEW d \in [Keys -> Objects]
  PROVE  /\ Live(Live(d)) = Live(d)
         /\ \A k \in Keys : Live([d EXCEPT ![k] = Looked(d[k])]) = Live(d)
<1>1. \A k \in Keys : Looked(Live(d)[k]) = Looked(d[k])
  BY LookedTwice DEF Live
<1>2. Live(Live(d)) = Live(d)
  BY <1>1 DEF Live
<1>3. ASSUME NEW k \in Keys
      PROVE  Live([d EXCEPT ![k] = Looked(d[k])]) = Live(d)
  <2>1. \A j \in Keys : Looked([d EXCEPT ![k] = Looked(d[k])][j]) = Looked(d[j])
    BY LookedTwice
  <2> QED
    BY <2>1 DEF Live
<1> QED
  BY <1>2, <1>3

\* What the next state's databases show.
LEMMA Primed ==
  /\ Live(replay)' = Live(replay')
  /\ Live(db)' = Live(db')
  /\ \A d \in Clients : Live(Apply(replay, pending[d]))' = Live(Apply(replay', pending'[d]))
BY DEF Live, Apply, After, Looked, Incremented, Refused

\* While c alone is served, and only c's state changes, it stays alone and the
\* loop's invariants are about c only.
LEMMA StaysAlone ==
  ASSUME NEW c \in Clients, Local(c), Alone(c)
  PROVE  /\ Alone(c)'
         /\ Serial'
         /\ FeedBehindByOne => (pending[c] = None => Live(replay) = Live(db))
         /\ /\ pending'[c] = None => Live(replay') = Live(db')
            /\ pending'[c] # None => Live(Apply(replay', pending'[c])) = Live(db')
            => FeedBehindByOne'
         /\ read'[c] = None => ReadIsCurrent'
<1>1. \A d \in Clients \ {c} : Idle(d)'
  BY DEF Local, Alone, Idle
<1>2. Alone(c)'
  BY <1>1 DEF Alone
<1>3. Serial'
  BY <1>1 DEF Serial
<1>4. \A d \in Clients \ {c} : pending[d] = None /\ pending'[d] = None /\ read'[d] = None
  BY <1>1 DEF Alone, Idle
<1>5. FeedBehindByOne => (pending[c] = None => Live(replay) = Live(db))
  BY <1>4 DEF FeedBehindByOne
<1>6. /\ pending'[c] = None => Live(replay') = Live(db')
      /\ pending'[c] # None => Live(Apply(replay', pending'[c])) = Live(db')
      => FeedBehindByOne'
  <2> SUFFICES ASSUME pending'[c] = None => Live(replay') = Live(db'),
                      pending'[c] # None => Live(Apply(replay', pending'[c])) = Live(db')
               PROVE  FeedBehindByOne'
    OBVIOUS
  <2>1. (\A d \in Clients : pending'[d] = None) => Live(replay') = Live(db')
    OBVIOUS
  <2>2. ASSUME NEW d \in Clients, pending'[d] # None
        PROVE  Live(Apply(replay', pending'[d])) = Live(db')
    BY <1>4, <2>2
  <2> QED
    BY <2>1, <2>2, Primed DEF FeedBehindByOne
<1>7. read'[c] = None => ReadIsCurrent'
  BY <1>4 DEF ReadIsCurrent
<1> QED
  BY <1>2, <1>3, <1>5, <1>6, <1>7

\* Steps that touch neither the data nor the work of any client.
LEMMA QuietStep ==
  ASSUME Serial, FeedBehindByOne, ReadIsCurrent, UNCHANGED <<store, running>>
  PROVE  Serial' /\ FeedBehindByOne' /\ ReadIsCurrent'
<1>1. db' = db /\ replay' = replay /\ todo' = todo /\ read' = read /\ pending' = pending
  BY DEF store, running
<1>2. Serial'
  BY <1>1 DEF Serial, Idle
<1>3. FeedBehindByOne'
  BY <1>1, Primed, SMTT(30) DEF FeedBehindByOne
<1>4. ReadIsCurrent'
  BY <1>1 DEF ReadIsCurrent, Looked, Incremented, Refused
<1> QED
  BY <1>2, <1>3, <1>4

\* A client begins a request: nobody is being served, and no data changes.
LEMMA BeginStep ==
  ASSUME ~Threaded, LoopInv, NEW c \in Clients, Local(c), Ready(c),
         UNCHANGED <<store, read, pending>>
  PROVE  Serial' /\ FeedBehindByOne' /\ ReadIsCurrent'
<1>1. Alone(c) /\ Idle(c)
  BY DEF Ready, HasThread, Alone
<1>2. Live(replay) = Live(db) /\ pending'[c] = None /\ read'[c] = None
  BY <1>1, StaysAlone DEF LoopInv, Idle
<1>3. replay' = replay /\ db' = db
  BY DEF store
<1> QED
  BY <1>1, <1>2, <1>3, StaysAlone

\* Every step of the event loop keeps its invariants.
LEMMA LoopStep ==
  ASSUME ~Threaded, Primary
  PROVE  LoopInv /\ [Next]_vars => LoopInv'
<1> SUFFICES ASSUME LoopInv, [Next]_vars PROVE LoopInv'
  OBVIOUS
<1>1. TypeOK /\ TypeOK'
  BY TypeStep DEF LoopInv
<1>2. StoreType /\ TxType /\ RunType /\ StoreType' /\ RunType'
  BY <1>1, TypeParts
<1>3. ASSUME NEW c \in Clients, ClientStep(c)
      PROVE  Serial' /\ FeedBehindByOne' /\ ReadIsCurrent'
  <2>1. Local(c)
    BY <1>1, <1>3, StepsAreLocal
  <2>2. CASE UNCHANGED <<store, running>>
    BY <2>2, QuietStep DEF LoopInv
  <2>3. CASE Accept(c) \/ register_client(c) \/ Disconnect(c) \/ multi_command(c)
             \/ discard_command(c) \/ \E cmd \in Pool : tx_queue_command(c, cmd)
    BY <2>2, <2>3 DEF Accept, register_client, Disconnect, Forget, multi_command,
       discard_command, tx_queue_command, Answered
  <2>4. CASE exec_command(c) \/ \E cmd \in Pool : Request(c, cmd)
    <3>1. Ready(c)
      BY <2>4 DEF exec_command, Request
    <3>2. UNCHANGED <<store, read, pending>>
      BY <2>4 DEF exec_command, Request, Answered, running
    <3> QED
      BY <2>1, <3>1, <3>2, BeginStep
  <2>5. CASE execute_command(c)
    <3> DEFINE cmd == Head(todo[c])
    <3>1. ~Idle(c) /\ todo[c] # <<>> /\ cmd \in Pool
      BY <1>2, <2>5 DEF execute_command, MayRun, RunType, Idle
    <3>2. Alone(c)
      BY <3>1 DEF Alone, LoopInv, Serial
    <3>3. pending[c] = None /\ read'[c] = None /\ replay' = replay /\ db' = Apply(db, cmd)
      BY <2>5 DEF execute_command, MayRun, Return
    <3>4. Live(replay) = Live(db)
      BY <2>1, <3>2, <3>3, StaysAlone DEF LoopInv
    <3>5. pending'[c] = IF cmd.op # "bad" /\ IsWrite(cmd) THEN cmd ELSE None
      BY <1>2, <2>5 DEF execute_command, Return, RunType
    <3>6. CASE IsWrite(cmd)
      <4>1. pending'[c] = cmd
        BY <3>5, <3>6 DEF IsWrite
      <4>2. Live(Apply(replay, cmd)) = Live(Apply(db, cmd))
        BY <1>2, <3>1, <3>4, AppliedAlike DEF StoreType
      <4>3. cmd # None
        BY <3>1, NoneIsNew
      <4> QED
        BY <2>1, <3>2, <3>3, <4>1, <4>2, <4>3, StaysAlone
    <3>7. CASE ~IsWrite(cmd)
      <4>1. pending'[c] = None
        BY <3>5, <3>7
      <4>2. Live(Apply(db, cmd)) = Live(db)
        BY <1>2, <3>1, <3>7, ReadsShowNothing DEF StoreType
      <4> QED
        BY <2>1, <3>2, <3>3, <3>4, <4>1, <4>2, StaysAlone
    <3> QED
      BY <3>6, <3>7
  <2>6. CASE OutOfMemory(c)
    <3>1. ~Idle(c) /\ pending[c] = None /\ replay' = replay /\ db' = db
      BY <2>6 DEF OutOfMemory, Return, Idle
    <3>2. Alone(c)
      BY <3>1 DEF Alone, LoopInv, Serial
    <3>3. pending'[c] = None /\ read'[c] = None
      BY <1>2, <2>6 DEF OutOfMemory, Return, RunType
    <3> QED
      BY <2>1, <3>1, <3>2, <3>3, StaysAlone DEF LoopInv
  <2>7. CASE incr_command(c)
    <3> DEFINE cmd == Head(todo[c])
               o == Looked(db[cmd.key])
    <3>1. ~Idle(c) /\ todo[c] # <<>> /\ cmd \in Pool /\ cmd.op = "incr" /\ pending[c] = None
      BY <1>2, <2>7 DEF incr_command, MayRun, RunType, Idle
    <3>2. Alone(c)
      BY <3>1 DEF Alone, LoopInv, Serial
    <3>3. cmd.key \in Keys
      BY <3>1, CommandsAssumption DEF Command
    <3>4. db' = [db EXCEPT ![cmd.key] = o] /\ replay' = replay /\ pending'[c] = None
      BY <1>2, <2>7, <3>1 DEF incr_command, Return, RunType
    <3>5. Live(db') = Live(db)
      BY <1>2, <3>3, <3>4, LooksShowNothing DEF StoreType
    <3>6. FeedBehindByOne' /\ Serial'
      BY <2>1, <3>1, <3>2, <3>4, <3>5, StaysAlone DEF LoopInv
    <3>7. CASE read' = read
      <4>1. read'[c] = None
        BY <2>7, <3>7 DEF incr_command, MayRun
      <4> QED
        BY <2>1, <3>2, <3>6, <4>1, StaysAlone
    <3>8. CASE ~Refused(cmd, o) /\ read' = [read EXCEPT ![c] = Incremented(o)] /\ todo' = todo
      <4>1. read'[c] = Incremented(o)
        BY <1>2, <3>8 DEF RunType
      <4>2. db'[cmd.key] = o
        BY <1>2, <3>3, <3>4 DEF StoreType
      <4>3. Looked(db'[cmd.key]) = o
        BY <4>2, LookedTwice
      <4>4. \A d \in Clients \ {c} : read'[d] = None
        BY <2>1, <3>2, SMTT(40) DEF Local, Alone, Idle
      <4>5. ReadIsCurrent'
        BY <3>1, <3>4, <3>8, <4>1, <4>3, <4>4, ZenonT(40) DEF ReadIsCurrent, Refused, Looked, Incremented
      <4> QED
        BY <3>6, <4>5
    <3> QED
      BY <2>7, <3>7, <3>8 DEF incr_command
  <2>8. CASE incr_store(c)
    <3> DEFINE cmd == Head(todo[c])
    <3>1. ~Idle(c) /\ todo[c] # <<>> /\ cmd \in Pool /\ read[c] # None
      BY <1>2, <2>8 DEF incr_store, RunType, Idle
    <3>2. Alone(c)
      BY <3>1 DEF Alone, LoopInv, Serial
    <3>3. pending[c] = None /\ cmd.op = "incr" /\ ~Refused(cmd, Looked(db[cmd.key]))
          /\ read[c] = Incremented(Looked(db[cmd.key]))
      BY <3>1 DEF LoopInv, ReadIsCurrent
    <3>4. cmd.key \in Keys /\ cmd # None
      BY <3>1, NoneIsNew, CommandsAssumption DEF Command
    <3>5. db' = Apply(db, cmd) /\ replay' = replay /\ read'[c] = None
      BY <1>2, <2>8, <3>3, <3>4 DEF incr_store, Return, Apply, After, RunType, StoreType
    <3>6. pending'[c] = cmd
      BY <1>2, <2>8, <3>3 DEF incr_store, Return, RunType, IsWrite
    <3>7. Live(replay) = Live(db)
      BY <2>1, <3>2, <3>3, StaysAlone DEF LoopInv
    <3>8. Live(Apply(replay, cmd)) = Live(Apply(db, cmd))
      BY <1>2, <3>1, <3>7, AppliedAlike DEF StoreType
    <3> QED
      BY <2>1, <3>2, <3>4, <3>5, <3>6, <3>8, StaysAlone
  <2>9. CASE propagate(c)
    <3>1. ~Idle(c) /\ pending[c] # None
      BY <2>9 DEF propagate, Idle
    <3>2. Alone(c)
      BY <3>1 DEF Alone, LoopInv, Serial
    <3>3. read'[c] = None
      BY <2>9, <3>1 DEF propagate, LoopInv, ReadIsCurrent
    <3>4. pending'[c] = None /\ db' = db /\ replay' = Apply(replay, pending[c])
      BY <1>2, <2>9 DEF propagate, RunType
    <3>5. Live(Apply(replay, pending[c])) = Live(db)
      BY <3>1 DEF LoopInv, FeedBehindByOne
    <3> QED
      BY <2>1, <3>2, <3>3, <3>4, <3>5, StaysAlone
  <2> QED
    BY <1>3, <2>3, <2>4, <2>5, <2>6, <2>7, <2>8, <2>9 DEF ClientStep
<1>4. CASE UNCHANGED vars
  BY <1>1, <1>4, QuietStep DEF LoopInv, vars, store, running
<1>5. ASSUME NEW k \in Keys, DeadlinePasses(k)
      PROVE  Serial' /\ FeedBehindByOne' /\ ReadIsCurrent'
  <2> DEFINE Pass(o) == IF o # None /\ o.expire = "later" THEN [o EXCEPT !.expire = "passed"] ELSE o
  <2>1. \A c \in Clients : read[c] = None /\ pending[c] = None
    BY <1>5 DEF DeadlinePasses
  <2>2. UNCHANGED running /\ db' = [db EXCEPT ![k] = Pass(@)] /\ replay' = [replay EXCEPT ![k] = Pass(@)]
    BY <1>5 DEF DeadlinePasses
  <2>3. \A j \in Keys : Looked(replay[j]) = Looked(db[j])
    BY <2>1 DEF LoopInv, FeedBehindByOne, Live
  <2>4. Looked(Pass(db[k])) = Looked(Pass(replay[k]))
    BY <2>3 DEF Looked
  <2> HIDE DEF Pass
  <2>5. \A j \in Keys : Looked(replay'[j]) = Looked(db'[j])
    BY <1>2, <2>2, <2>3, <2>4 DEF StoreType
  <2>6. Live(replay)' = Live(db)'
    BY <2>5 DEF Live, Looked
  <2> QED
    BY <2>1, <2>2, <2>6 DEF running, LoopInv, Serial, Idle, FeedBehindByOne, ReadIsCurrent
<1>6. CASE cleanup_expired_keys
  <2>1. db' = Live(db) /\ replay' = replay /\ UNCHANGED running
    BY <1>6 DEF cleanup_expired_keys
  <2>2. Live(db') = Live(db)
    BY <1>2, <2>1, LooksShowNothing DEF StoreType
  <2>3. \A c \in Clients : read[c] # None =>
          Looked(db'[Head(todo[c]).key]) = Looked(db[Head(todo[c]).key])
    <3> SUFFICES ASSUME NEW c \in Clients, read[c] # None
                 PROVE  Looked(db'[Head(todo[c]).key]) = Looked(db[Head(todo[c]).key])
      OBVIOUS
    <3>1. todo[c] # <<>>
      BY DEF LoopInv, ReadIsCurrent
    <3>2. Head(todo[c]) \in Pool
      BY <1>2, <3>1 DEF RunType
    <3>3. Head(todo[c]).key \in Keys
      BY <3>2, CommandsAssumption DEF Command
    <3> QED
      BY <2>1, <3>3, LookedTwice DEF Live
  <2>4. Serial'
    BY <2>1 DEF LoopInv, Serial, Idle, running
  <2>5. FeedBehindByOne'
    BY <2>1, <2>2, Primed, SMTT(30) DEF LoopInv, FeedBehindByOne, running
  <2>6. ReadIsCurrent'
    BY <2>1, <2>3, SMTT(30) DEF LoopInv, ReadIsCurrent, running, Looked, Incremented, Refused
  <2> QED
    BY <1>1, <2>4, <2>5, <2>6 DEF LoopInv
<1> QED
  BY <1>1, <1>3, <1>4, <1>5, <1>6, Steps DEF LoopInv, TimeStep

\* Between two requests of the event loop the feed replays to the database: the
\* primary feeds every write once, in order, and nothing that failed or is only
\* queued (execute_command, incr_command, replication_feed_slaves).
THEOREM FeedInSync ==
  ASSUME ~Threaded, Primary
  PROVE  Spec => []ReplayInSync
<1>1. Init => LoopInv
  <2>1. Init => Serial /\ FeedBehindByOne /\ ReadIsCurrent
    BY DEF Init, Serial, Idle, FeedBehindByOne, ReadIsCurrent
  <2> QED
    BY <2>1, InitType DEF LoopInv
<1>2. LoopInv => ReplayInSync
  BY DEF LoopInv, FeedBehindByOne, ReplayInSync, Idle
<1> QED
  BY <1>1, <1>2, LoopStep, PTL DEF Spec

-----------------------------------------------------------------------------
(* The client table                                                        *)

\* A thread that fills a slot it found free may take it from another client, but
\* never leaves a client that is gone in the table, or one that is there twice.
LEMMA TableStep == TypeOK /\ NoDanglingClient /\ [Next]_vars => NoDanglingClient'
<1> SUFFICES ASSUME TypeOK, NoDanglingClient, [Next]_vars PROVE NoDanglingClient'
  OBVIOUS
<1>1. /\ conn \in [Clients -> {"closed", "claiming", "open"}]
      /\ slots \in [1 .. MaxClients -> Clients \cup {None}]
  BY TypeParts DEF ConnType
<1>2. /\ \A i \in 1 .. MaxClients : slots[i] # None => conn[slots[i]] = "open"
      /\ \A i, j \in 1 .. MaxClients : slots[i] = slots[j] /\ slots[i] # None => i = j
  BY DEF NoDanglingClient
<1>3. CASE UNCHANGED <<conn, slots>>
  BY <1>2, <1>3 DEF NoDanglingClient
\* A client that was not in the table comes in, at one place or at none.
<1>4. ASSUME NEW c \in Clients, conn[c] # "open", conn'[c] = "open",
             \A d \in Clients \ {c} : conn'[d] = conn[d],
             slots' = slots \/ \E i : slots' = [slots EXCEPT ![i] = c]
      PROVE  NoDanglingClient'
  <2>1. \A i \in 1 .. MaxClients : slots[i] # c
    BY <1>2, <1>4, NoneIsNew
  <2>2. CASE slots' = slots
    BY <1>1, <1>2, <1>4, <2>1, <2>2 DEF NoDanglingClient
  <2>3. ASSUME NEW k, slots' = [slots EXCEPT ![k] = c]
        PROVE  NoDanglingClient'
    <3>1. \A i \in 1 .. MaxClients : slots'[i] = IF i = k THEN c ELSE slots[i]
      BY <1>1, <2>3
    <3> QED
      BY <1>1, <1>2, <1>4, <2>1, <3>1 DEF NoDanglingClient
  <2> QED
    BY <1>4, <2>2, <2>3
<1>5. ASSUME NEW c \in Clients, Accept(c)
      PROVE  NoDanglingClient'
  <2>1. conn[c] = "closed"
    BY <1>5 DEF Accept
  <2>2. CASE conn' = [conn EXCEPT ![c] = "claiming"] /\ UNCHANGED slots
    BY <1>1, <1>2, <2>1, <2>2 DEF NoDanglingClient
  <2>3. CASE conn' = [conn EXCEPT ![c] = "open"]
    <3>1. slots' = slots \/ \E i : slots' = [slots EXCEPT ![i] = c]
      BY <1>5, <2>2 DEF Accept
    <3> QED
      BY <1>1, <1>4, <2>1, <2>3, <3>1
  <2> QED
    BY <1>5, <2>2, <2>3 DEF Accept
<1>6. ASSUME NEW c \in Clients, register_client(c)
      PROVE  NoDanglingClient'
  BY <1>1, <1>4, <1>6 DEF register_client
\* A client that goes leaves every slot it has.
<1>7. ASSUME NEW c \in Clients, Disconnect(c)
      PROVE  NoDanglingClient'
  <2>1. /\ conn' = [conn EXCEPT ![c] = "closed"]
        /\ slots' = [i \in DOMAIN slots |-> IF slots[i] = c THEN None ELSE slots[i]]
    BY <1>7 DEF Disconnect, Forget
  <2>2. \A i \in 1 .. MaxClients : slots'[i] = IF slots[i] = c THEN None ELSE slots[i]
    BY <1>1, <2>1
  <2> QED
    BY <1>1, <1>2, <2>1, <2>2 DEF NoDanglingClient
<1> QED
  BY <1>3, <1>5, <1>6, <1>7
     DEF Next, vars, table, tx_queue_command, Request, multi_command, discard_command, exec_command,
         Answered, execute_command, OutOfMemory, incr_command, incr_store, Return, propagate,
         DeadlinePasses, cleanup_expired_keys

\* In either concurrency model client_list holds no client_t that was freed and
\* none twice, though threads fill its slots without a lock (register_client,
\* unregister_client).
THEOREM NobodyDangles == Spec => []NoDanglingClient
<1>1. Init => NoDanglingClient
  BY DEF Init, NoDanglingClient
<1> QED
  BY <1>1, TypeCorrect, TableStep, PTL DEF Spec

-----------------------------------------------------------------------------
(* Replies                                                                 *)

\* A step of client c leaves the counters and the connection of the others alone.
LEMMA CountsAreLocal ==
  ASSUME TypeOK, NEW c \in Clients, ClientStep(c)
  PROVE  \A d \in Clients \ {c} :
           owed'[d] = owed[d] /\ asked'[d] = asked[d] /\ conn'[d] = conn[d]
<1>1. CountType /\ ConnType
  BY TypeParts
<1>2. CASE Accept(c) \/ register_client(c) \/ Disconnect(c)
  BY <1>1, <1>2 DEF Accept, register_client, Disconnect, Forget, CountType, ConnType
<1>3. CASE \E cmd \in Pool : tx_queue_command(c, cmd) \/ Request(c, cmd)
  BY <1>1, <1>3 DEF tx_queue_command, Request, Replies, CountType, table
<1>4. CASE multi_command(c) \/ discard_command(c) \/ exec_command(c)
  BY <1>1, <1>4 DEF multi_command, discard_command, exec_command, Answered, Replies, CountType, table
<1>5. CASE \/ execute_command(c) \/ OutOfMemory(c) \/ incr_command(c) \/ incr_store(c)
           \/ propagate(c)
  BY <1>1, <1>5 DEF execute_command, OutOfMemory, incr_command, incr_store, propagate, Return,
     CountType, table
<1> QED
  BY <1>2, <1>3, <1>4, <1>5 DEF ClientStep

\* Every reply that was announced is one a command still to run will send.
RepliesCovered == \A c \in Clients : owed[c] <= Len(todo[c])

LEMMA RepliesStep == TypeOK /\ RepliesCovered /\ [Next]_vars => RepliesCovered'
<1> SUFFICES ASSUME TypeOK, RepliesCovered, [Next]_vars PROVE RepliesCovered'
  OBVIOUS
<1>1. /\ owed \in [Clients -> Int] /\ todo \in [Clients -> Seq(Pool)]
      /\ tx \in [Clients -> TxRecord]
      /\ \A c \in Clients : tx[c].queue \in Seq(Pool) /\ owed[c] \in Int /\ todo[c] \in Seq(Pool)
  BY TypeParts DEF CountType, RunType, TxType, TxRecord
<1>2. ASSUME NEW c \in Clients, ClientStep(c)
      PROVE  RepliesCovered'
  <2>1. \A d \in Clients \ {c} : owed'[d] = owed[d] /\ todo'[d] = todo[d]
    BY <1>2, StepsAreLocal, CountsAreLocal DEF Local
  <2>2. owed'[c] <= Len(todo'[c])
    <3>1. owed[c] <= Len(todo[c])
      BY DEF RepliesCovered
    <3>2. CASE UNCHANGED <<owed, todo>>
      BY <3>1, <3>2
    <3>3. CASE owed'[c] = 0 /\ todo' = todo
      BY <1>1, <3>3
    <3>4. CASE owed'[c] = 1 /\ Len(todo'[c]) = 1
      BY <3>4
    <3>5. CASE owed'[c] = Len(tx[c].queue) - 0 /\ todo'[c] = tx[c].queue
      BY <1>1, <3>5
    <3>6. CASE todo[c] # <<>> /\ owed'[c] = owed[c] - 1 /\ todo'[c] = Tail(todo[c])
      BY <1>1, <3>1, <3>6
    <3>7. CASE owed'[c] = 0 - 1 /\ todo' = todo
      BY <1>1, <3>7
    <3>8. CASE Accept(c) \/ register_client(c) \/ Disconnect(c)
      BY <1>1, <3>2, <3>3, <3>8 DEF Accept, register_client, Disconnect, Forget, running
    <3>9. CASE \E cmd \in Pool : tx_queue_command(c, cmd) \/ Request(c, cmd)
      BY <1>1, <3>3, <3>4, <3>9 DEF tx_queue_command, Request, Replies, running
    <3>10. CASE multi_command(c) \/ discard_command(c) \/ exec_command(c)
      BY <1>1, <3>3, <3>5, <3>7, <3>10
         DEF multi_command, discard_command, exec_command, Answered, Replies, running
    <3>11. CASE \/ execute_command(c) \/ OutOfMemory(c) \/ incr_command(c) \/ incr_store(c)
                \/ propagate(c)
      BY <1>1, <3>2, <3>6, <3>11
         DEF execute_command, OutOfMemory, incr_command, incr_store, propagate, Return, MayRun
    <3> QED
      BY <1>2, <3>8, <3>9, <3>10, <3>11 DEF ClientStep
  <2> QED
    BY <2>1, <2>2 DEF RepliesCovered
<1>3. CASE TimeStep \/ UNCHANGED vars
  BY <1>3 DEF TimeStep, DeadlinePasses, cleanup_expired_keys, vars, running, RepliesCovered
<1> QED
  BY <1>2, <1>3, Steps

\* When a request is done, in either concurrency model, the client has every reply
\* that was announced to it: the answer of its command, or all elements of the array
\* EXEC began (execute_command, tx_execute_commands).
THEOREM RepliesComplete == Spec => []NoReplyMissing
<1>1. Init => RepliesCovered
  BY DEF Init, RepliesCovered
<1>2. RepliesCovered => NoReplyMissing
  BY DEF RepliesCovered, NoReplyMissing, Idle
<1> QED
  BY <1>1, <1>2, TypeCorrect, RepliesStep, PTL DEF Spec

-----------------------------------------------------------------------------
(* All or nothing                                                          *)

\* A transaction without an error has queued all it was sent, and a connection
\* that is not open has nothing to run.
AllQueued ==
  \A c \in Clients :
    /\ tx[c].in /\ ~tx[c].errors => Len(tx[c].queue) = asked[c]
    /\ conn[c] # "open" => todo[c] = <<>>

LEMMA AllQueuedStep == TypeOK /\ QueueClean /\ AllQueued /\ [Next]_vars => AllQueued'
<1> SUFFICES ASSUME TypeOK, QueueClean, AllQueued, [Next]_vars PROVE AllQueued'
  OBVIOUS
<1>1. /\ tx \in [Clients -> TxRecord] /\ asked \in [Clients -> Nat]
      /\ todo \in [Clients -> Seq(Pool)]
      /\ conn \in [Clients -> {"closed", "claiming", "open"}]
  BY TypeParts DEF CountType, RunType, TxType, ConnType
<1>2. ASSUME NEW c \in Clients, ClientStep(c)
      PROVE  AllQueued'
  <2>1. \A d \in Clients \ {c} :
          tx'[d] = tx[d] /\ todo'[d] = todo[d] /\ asked'[d] = asked[d] /\ conn'[d] = conn[d]
    BY <1>2, StepsAreLocal, CountsAreLocal DEF Local
  <2>2. /\ tx[c] \in TxRecord /\ tx[c].queue \in Seq(Pool) /\ asked[c] \in Nat
        /\ todo[c] \in Seq(Pool)
        /\ tx[c].in /\ ~tx[c].errors => Len(tx[c].queue) = asked[c]
        /\ conn[c] # "open" => todo[c] = <<>>
        /\ ~tx[c].in => tx[c].queue = <<>>
        /\ NoTx.in = FALSE
    BY <1>1 DEF AllQueued, QueueClean, TxRecord, NoTx
  <2>3. tx'[c].in /\ ~tx'[c].errors => Len(tx'[c].queue) = asked'[c]
    <3>1. CASE Accept(c) \/ register_client(c) \/ Disconnect(c)
      BY <1>1, <2>2, <3>1 DEF Accept, register_client, Disconnect, Forget
    <3>2. ASSUME NEW cmd \in Pool, tx_queue_command(c, cmd)
          PROVE  tx'[c].in /\ ~tx'[c].errors => Len(tx'[c].queue) = asked'[c]
      <4>1. tx[c].in /\ asked'[c] = asked[c] + 1
        BY <1>1, <3>2 DEF tx_queue_command, InTransaction
      <4>2. CASE tx' = [tx EXCEPT ![c].queue = Append(@, cmd)]
        <5>1. tx'[c].queue = Append(tx[c].queue, cmd) /\ tx'[c].errors = tx[c].errors
          BY <1>1, <2>2, <4>2 DEF TxRecord
        <5>2. Len(Append(tx[c].queue, cmd)) = Len(tx[c].queue) + 1
          BY <2>2
        <5> QED
          BY <2>2, <4>1, <5>1, <5>2
      <4>3. CASE tx' = [tx EXCEPT ![c].errors = TRUE]
        BY <1>1, <2>2, <4>3 DEF TxRecord
      <4> QED
        BY <3>2, <4>2, <4>3 DEF tx_queue_command
    <3>3. CASE \E cmd \in Pool : Request(c, cmd)
      BY <2>2, <3>3 DEF Request
    <3>4. CASE multi_command(c)
      <4>1. CASE ~tx[c].in /\ tx' = [tx EXCEPT ![c].in = TRUE, ![c].errors = FALSE]
                 /\ asked' = [asked EXCEPT ![c] = 0]
        BY <1>1, <2>2, <4>1 DEF TxRecord
      <4>2. CASE Answered(c)
        BY <2>2, <4>2 DEF Answered
      <4> QED
        BY <3>4, <4>1, <4>2 DEF multi_command
    <3>5. CASE discard_command(c) \/ exec_command(c)
      BY <1>1, <2>2, <3>5 DEF discard_command, exec_command, Answered
    <3>6. CASE \/ execute_command(c) \/ OutOfMemory(c) \/ incr_command(c) \/ incr_store(c)
               \/ propagate(c)
      BY <2>2, <3>6 DEF execute_command, OutOfMemory, incr_command, incr_store, propagate, Return
    <3> QED
      BY <1>2, <3>1, <3>2, <3>3, <3>4, <3>5, <3>6 DEF ClientStep
  <2>4. conn'[c] # "open" => todo'[c] = <<>>
    <3>1. CASE Accept(c) \/ register_client(c) \/ Disconnect(c)
      BY <1>1, <2>2, <3>1 DEF Accept, register_client, Disconnect, Forget, running, Idle
    <3>2. CASE \/ \E cmd \in Pool : tx_queue_command(c, cmd) \/ Request(c, cmd)
               \/ multi_command(c) \/ discard_command(c) \/ exec_command(c)
      BY <3>2 DEF tx_queue_command, Request, multi_command, discard_command, exec_command,
         Answered, Ready, table
    <3>3. CASE execute_command(c) \/ OutOfMemory(c) \/ incr_command(c) \/ incr_store(c)
      BY <2>2, <3>3 DEF execute_command, OutOfMemory, incr_command, incr_store, MayRun, Return, table
    <3>4. CASE propagate(c)
      BY <2>2, <3>4 DEF propagate, table
    <3> QED
      BY <1>2, <3>1, <3>2, <3>3, <3>4 DEF ClientStep
  <2> QED
    BY <2>1, <2>3, <2>4 DEF AllQueued
<1>3. CASE TimeStep \/ UNCHANGED vars
  BY <1>3 DEF TimeStep, DeadlinePasses, cleanup_expired_keys, vars, running, table, AllQueued
<1> QED
  BY <1>2, <1>3, Steps

\* The step that ends a transaction.
LEMMA EndsWhole ==
  ASSUME TypeOK, AllQueued, [Next]_vars, NEW c \in Clients, tx[c].in, ~tx'[c].in
  PROVE  Len(todo'[c]) \in {0, asked[c]}
<1>1. tx \in [Clients -> TxRecord] /\ todo \in [Clients -> Seq(Pool)]
  BY TypeParts DEF TxType, RunType
<1>2. /\ ~tx[c].errors => Len(tx[c].queue) = asked[c]
      /\ conn[c] # "open" => todo[c] = <<>>
      /\ Len(<<>>) = 0
  BY DEF AllQueued
<1>3. ClientStep(c)
  <2>1. ASSUME NEW d \in Clients, ClientStep(d), d # c
        PROVE  FALSE
    BY <2>1, StepsAreLocal DEF Local
  <2>2. ~(TimeStep \/ UNCHANGED vars)
    BY TimeIsQuiet
  <2> QED
    BY <2>1, <2>2, Steps
<1>4. CASE Accept(c) \/ register_client(c) \/ Disconnect(c)
  BY <1>2, <1>4 DEF Accept, register_client, Disconnect, Forget, running, Idle
<1>5. CASE discard_command(c) \/ exec_command(c)
  BY <1>1, <1>2, <1>5 DEF discard_command, exec_command, Answered, Ready, Idle, running
<1>6. CASE \E cmd \in Pool : tx_queue_command(c, cmd)
  BY <1>1, <1>6 DEF tx_queue_command, TxRecord
<1>7. CASE multi_command(c)
  BY <1>1, <1>7 DEF multi_command, Answered, TxRecord
<1>8. CASE \/ \E cmd \in Pool : Request(c, cmd)
           \/ execute_command(c) \/ OutOfMemory(c) \/ incr_command(c) \/ incr_store(c)
           \/ propagate(c)
  BY <1>8 DEF Request, execute_command, OutOfMemory, incr_command, incr_store, propagate, Return
<1> QED
  BY <1>3, <1>4, <1>5, <1>6, <1>7, <1>8 DEF ClientStep

\* In either concurrency model EXEC runs everything its client sent since MULTI or
\* nothing, and so do DISCARD, a lost connection and a new one on the same client_t
\* (tx_queue_command, tx_execute_commands, tx_cleanup).
THEOREM TransactionsWhole == Spec => AllOrNothing
<1>1. Init => AllQueued
  BY DEF Init, AllQueued, NoTx
<1>2. TypeOK /\ AllQueued /\ [Next]_vars
      => [\A c \in Clients : tx[c].in /\ ~tx'[c].in => Len(todo'[c]) \in {0, asked[c]}]_vars
  BY EndsWhole
<1> QED
  BY <1>1, <1>2, TypeCorrect, QueuesClean, AllQueuedStep, PTL DEF Spec, AllOrNothing


-----------------------------------------------------------------------------
(* Transactions of threads                                                 *)

\* No two threads are in register_client at a time.
ClaimsApart == \A c, d \in Clients : conn[c] = "claiming" /\ conn[d] = "claiming" => c = d

\* A slot that was found free is still free.
Promised == \A c \in Clients : conn[c] = "claiming" => claim[c] \in 1 .. MaxClients /\ slots[claim[c]] = None

\* A client that is in a transaction has a slot, so its commands find the transaction.
Placed == \A c \in Clients : tx[c].in => conn[c] = "open" /\ Known(c)

\* The commands that leave the table alone.
LEMMA PlacedWhileOpen ==
  ASSUME TypeOK, Placed, UNCHANGED table, NEW c \in Clients, Local(c),
         tx'[c].in => tx[c].in \/ (conn[c] = "open" /\ Known(c))
  PROVE  Placed'
<1>1. \A d \in Clients : Known(d)' <=> Known(d)
  BY DEF Known, table
<1> QED
  BY <1>1 DEF Placed, Local, table

\* A transaction begins for a client that has a slot, or goes on.
LEMMA EntersPlaced ==
  ASSUME TypeOK, NEW c \in Clients,
         \/ \E cmd \in Pool : tx_queue_command(c, cmd) \/ Request(c, cmd)
         \/ multi_command(c) \/ discard_command(c) \/ exec_command(c)
         \/ execute_command(c) \/ OutOfMemory(c)
         \/ incr_command(c) \/ incr_store(c) \/ propagate(c)
  PROVE  UNCHANGED table /\ (tx'[c].in => tx[c].in \/ (conn[c] = "open" /\ Known(c)))
<1>1. tx \in [Clients -> TxRecord]
  BY TypeParts DEF TxType
<1>2. ASSUME NEW cmd \in Pool, tx_queue_command(c, cmd)
      PROVE  UNCHANGED table /\ conn[c] = "open" /\ Known(c)
  BY <1>2 DEF tx_queue_command, Ready, InTransaction
<1>3. ASSUME NEW cmd \in Pool, Request(c, cmd) PROVE UNCHANGED <<table, tx>>
  BY <1>3 DEF Request
<1>4. CASE multi_command(c)
  BY <1>4 DEF multi_command, Ready, Answered
<1>5. CASE discard_command(c) \/ exec_command(c)
  BY <1>1, <1>5 DEF discard_command, exec_command, Answered, NoTx
<1>6. CASE execute_command(c) \/ OutOfMemory(c) \/ incr_command(c) \/ incr_store(c) \/ propagate(c)
  BY <1>6 DEF execute_command, OutOfMemory, incr_command, incr_store, Return, propagate
<1> QED
  BY <1>2, <1>3, <1>4, <1>5, <1>6

LEMMA PlacedStep ==
  ASSUME Threaded
  PROVE  TypeOK /\ ClaimsApart /\ Promised /\ Placed /\ [Next]_vars => Promised' /\ Placed'
<1> SUFFICES ASSUME TypeOK, ClaimsApart, Promised, Placed, [Next]_vars PROVE Promised' /\ Placed'
  OBVIOUS
<1>1. /\ conn \in [Clients -> {"closed", "claiming", "open"}] /\ claim \in [Clients -> 0 .. MaxClients]
      /\ slots \in [1 .. MaxClients -> Clients \cup {None}] /\ tx \in [Clients -> TxRecord]
  BY TypeParts DEF ConnType, TxType
<1>2. ASSUME UNCHANGED table PROVE Promised'
  BY <1>2 DEF Promised, table
<1>3. ASSUME NEW c \in Clients, Accept(c)
      PROVE  Promised' /\ Placed'
  <2>1. /\ conn[c] = "closed" /\ slots' = slots /\ ~tx'[c].in
        /\ \A d \in Clients \ {c} : conn'[d] = conn[d] /\ claim'[d] = claim[d] /\ tx'[d] = tx[d]
    BY <1>1, <1>3 DEF Accept, NoTx
  <2>2. conn'[c] = "claiming" => claim'[c] \in FirstFree
    BY <1>1, <1>3 DEF Accept
  <2>3. Promised'
    BY <2>1, <2>2 DEF Promised, FirstFree, FreeSlots
  <2>4. \A d \in Clients : Known(d)' <=> Known(d)
    BY <2>1 DEF Known
  <2> QED
    BY <2>1, <2>3, <2>4 DEF Placed
<1>4. ASSUME NEW c \in Clients, register_client(c)
      PROVE  Promised' /\ Placed'
  <2>1. /\ conn[c] = "claiming" /\ conn'[c] = "open" /\ UNCHANGED tx
        /\ \A d \in Clients \ {c} : conn'[d] = conn[d]
        /\ slots' = [slots EXCEPT ![claim[c]] = c]
    BY <1>1, <1>4 DEF register_client
  <2>2. claim[c] \in 1 .. MaxClients /\ slots[claim[c]] = None
    BY <2>1 DEF Promised
  <2>3. \A d \in Clients : conn'[d] # "claiming"
    BY <2>1 DEF ClaimsApart
  <2>4. \A d \in Clients : Known(d) => Known(d)'
    <3> TAKE d \in Clients
    <3>1. \A i \in 1 .. MaxClients : slots[i] = d => slots'[i] = d
      BY <1>1, <2>1, <2>2, NoneIsNew
    <3> QED
      BY <3>1 DEF Known
  <2> QED
    BY <2>1, <2>3, <2>4 DEF Promised, Placed
<1>5. ASSUME NEW c \in Clients, Disconnect(c)
      PROVE  Promised' /\ Placed'
  <2>1. /\ conn' = [conn EXCEPT ![c] = "closed"] /\ claim' = claim
        /\ slots' = [i \in DOMAIN slots |-> IF slots[i] = c THEN None ELSE slots[i]]
        /\ tx' = [tx EXCEPT ![c] = IF Known(c) THEN NoTx ELSE tx[c]]
    BY <1>5 DEF Disconnect, Forget
  <2>2. \A i \in 1 .. MaxClients : slots'[i] = IF slots[i] = c THEN None ELSE slots[i]
    BY <1>1, <2>1
  <2>3. \A d \in Clients \ {c} : conn'[d] = conn[d] /\ tx'[d] = tx[d] /\ (Known(d) => Known(d)')
    BY <1>1, <2>1, <2>2 DEF Known
  <2>4. conn'[c] = "closed" /\ ~tx'[c].in
    BY <1>1, <2>1 DEF Placed, NoTx
  <2>5. Promised'
    BY <2>1, <2>2, <2>3, <2>4 DEF Promised
  <2> QED
    BY <2>3, <2>4, <2>5 DEF Placed
<1>6. ASSUME NEW c \in Clients, ClientStep(c), ~Accept(c), ~register_client(c), ~Disconnect(c)
      PROVE  Promised' /\ Placed'
  <2>1. UNCHANGED table /\ (tx'[c].in => tx[c].in \/ (conn[c] = "open" /\ Known(c)))
    BY <1>6, EntersPlaced DEF ClientStep
  <2> QED
    BY <1>2, <1>6, <2>1, StepsAreLocal, PlacedWhileOpen
<1>7. CASE TimeStep \/ UNCHANGED vars
  <2>1. UNCHANGED <<table, tx>>
    BY <1>7 DEF TimeStep, DeadlinePasses, cleanup_expired_keys, vars, table
  <2> QED
    BY <1>2, <2>1 DEF Placed, Known, table
<1> QED
  BY <1>3, <1>4, <1>5, <1>6, <1>7, Steps

\* A step of a thread, as in the event loop.
LEMMA TxQueuedApart ==
  TypeOK /\ Placed /\ TxQueued /\ [Next]_vars => TxQueued'
<1> SUFFICES ASSUME TypeOK, Placed, TxQueued, [Next]_vars PROVE TxQueued'
  OBVIOUS
<1>1. TxType /\ RunType
  BY TypeParts
<1>2. ASSUME NEW c \in Clients, ClientStep(c)
      PROVE  TxQueued'
  <2>1. Local(c)
    BY <1>2, StepsAreLocal
  <2>2. tx'[c].in => Idle(c)'
    <3>1. CASE Accept(c) \/ register_client(c) \/ Disconnect(c)
      BY <1>1, <3>1 DEF Accept, register_client, Disconnect, Forget, running, Idle, TxQueued,
         TxType, NoTx
    <3>2. CASE \E cmd \in Pool : tx_queue_command(c, cmd)
      BY <3>2 DEF tx_queue_command, Ready, running, Idle
    <3>3. CASE \E cmd \in Pool : Request(c, cmd)
      BY <3>3 DEF Request, InTransaction, Placed
    <3>4. CASE multi_command(c)
      BY <3>4 DEF multi_command, Answered, Ready, running, Idle
    <3>5. CASE discard_command(c) \/ exec_command(c)
      BY <1>1, <3>5 DEF discard_command, exec_command, Answered, Ready, running, Idle, TxType,
         NoTx
    <3>6. CASE \/ execute_command(c) \/ OutOfMemory(c) \/ incr_command(c)
               \/ incr_store(c) \/ propagate(c)
      BY <3>6 DEF execute_command, OutOfMemory, incr_command, incr_store, propagate, MayRun,
         Return, Idle, TxQueued
    <3> QED
      BY <1>2, <3>1, <3>2, <3>3, <3>4, <3>5, <3>6 DEF ClientStep
  <2> QED
    BY <2>1, <2>2 DEF Local, TxQueued, Idle
<1>3. CASE TimeStep \/ UNCHANGED vars
  BY <1>3, TimeIsQuiet DEF TxQueued, Idle, running
<1> QED
  BY <1>2, <1>3, Steps

\* With a thread for each client, the only way a command sent after MULTI runs before
\* EXEC is through two threads that are in register_client at a time: while no two are,
\* a client in a transaction keeps its slot, and all it sends is queued.
THEOREM ThreadsQueue ==
  ASSUME Threaded
  PROVE  Spec /\ []ClaimsApart => []TxQueued
<1>1. Init => TxQueued /\ Promised /\ Placed
  BY DEF Init, TxQueued, Promised, Placed, NoTx
<1>2. TypeOK /\ ClaimsApart /\ Promised /\ Placed /\ [Next]_vars => Promised' /\ Placed'
  BY PlacedStep
<1> QED
  BY <1>1, <1>2, TypeCorrect, TxQueuedApart, PTL DEF Spec

=============================================================================
