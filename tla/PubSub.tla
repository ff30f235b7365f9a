------------------------------- MODULE PubSub -------------------------------
(***************************************************************************)
(* pubsub.c and its commands in commands.c: each channel has a list of the *)
(* clients subscribed to it, under one mutex.  PUBLISH writes to their     *)
(* sockets while it holds the mutex, and a write waits for room in the     *)
(* socket; SUBSCRIBE and UNSUBSCRIBE write their confirmations after they  *)
(* have given it back, but for UNSUBSCRIBE without a channel.              *)
(* Every client has a thread (handle_client); what the event loop does,    *)
(* one request after the other, is one behaviour of this.  A server that   *)
(* SIGPIPE kills at a write just stops.                                    *)
(***************************************************************************)
EXTENDS Integers, Sequences, FiniteSets, SequencesExt

CONSTANTS
  Clients,   \* client_t structures, which are freed and allocated again
  Names,     \* names of channels
  Messages,
  Room,      \* messages and replies that fit into a socket
  None       \* no client, no message

ASSUME PubSubAssumption ==
  /\ IsFiniteSet(Clients) /\ IsFiniteSet(Names)
  /\ Room \in Nat \ {0}
  /\ None \notin Clients \cup Messages

VARIABLES
  subscribers, \* the list of each channel; one nobody ever named has an empty one
  mutex,       \* the client whose thread holds server_pubsub.mutex, or None
  peer,        \* of each client: "free" memory, "open", or "gone" (closed by it)
  request,     \* what its thread is doing
  socket       \* what was written to it and not yet read by it

vars == <<subscribers, mutex, peer, request, socket>>

\* Of a request: the command ("none" while the thread waits for one, "reply" when
\* all that is left of it is to be written), the channels it still has to treat,
\* whether a confirmation or reply is to be written first; of PUBLISH the message
\* and the subscribers it has not come to; how many it has reached, or left.
Idle == [op |-> "none", names |-> {}, owed |-> FALSE, msg |-> None, rest |-> <<>>, count |-> 0]

Doing(c, op) == request[c].op = op /\ ~request[c].owed

\* The socket takes one thing more; one whose reader is gone swallows it.
Takes(c) == peer[c] = "gone" \/ Len(socket[c]) < Room
Written(c, x) == IF peer[c] = "gone" THEN socket[c] ELSE Append(socket[c], x)

IsIn(c, n) == \E i \in 1 .. Len(subscribers[n]) : subscribers[n][i] = c

BugUnlinked(l, c) == [i \in 1 .. Len(l) |-> IF l[i] = c THEN None ELSE l[i]]
\* The list without the first node of c: every search for one stops there.
Unlinked(l, c) == RemoveFirst(l, c)

-----------------------------------------------------------------------------
(* Connections                                                             *)

Init ==
  /\ subscribers = [n \in Names |-> <<>>]
  /\ mutex = None
  /\ peer = [c \in Clients |-> "free"]
  /\ request = [c \in Clients |-> Idle]
  /\ socket = [c \in Clients |-> <<>>]

\* accept and malloc of a client_t
handle_client(c) ==
  /\ peer[c] = "free"
  /\ peer' = [peer EXCEPT ![c] = "open"]
  /\ UNCHANGED <<subscribers, mutex, request, socket>>

\* The other side reads ...
Read(c) ==
  /\ socket[c] # <<>>
  /\ socket' = [socket EXCEPT ![c] = Tail(@)]
  /\ UNCHANGED <<subscribers, mutex, peer, request>>

\* ... or closes its socket, at any time.
Close(c) ==
  /\ peer[c] = "open"
  /\ peer' = [peer EXCEPT ![c] = "gone"]
  /\ socket' = [socket EXCEPT ![c] = <<>>]
  /\ UNCHANGED <<subscribers, mutex, request>>

BugRemoveClient(c) ==
  /\ peer[c] = "gone" /\ request[c] = Idle
  /\ mutex = None
  /\ \E n \in Names :
       /\ IsIn(c, n) \/ \A k \in Names : ~IsIn(c, k)
       /\ subscribers' = [subscribers EXCEPT ![n] = Unlinked(@, c)]
  /\ peer' = [peer EXCEPT ![c] = "free"]
  /\ UNCHANGED <<mutex, request, socket>>
\* The end of the connection is read: the client is removed from every channel, and
\* then freed.
pubsub_remove_client(c) ==
  /\ peer[c] = "gone" /\ request[c] = Idle
  /\ mutex = None
  /\ subscribers' = [n \in Names |-> Unlinked(subscribers[n], c)]
  /\ peer' = [peer EXCEPT ![c] = "free"]
  /\ UNCHANGED <<mutex, request, socket>>

-----------------------------------------------------------------------------
(* Commands                                                                *)

Begin(c, r) ==
  /\ peer[c] # "free" /\ request[c] = Idle
  /\ request' = [request EXCEPT ![c] = r]

\* SUBSCRIBE or UNSUBSCRIBE of some channels, in any order.
subscribe_command(c, ns) ==
  /\ Begin(c, [Idle EXCEPT !.op = "subscribe", !.names = ns])
  /\ UNCHANGED <<subscribers, mutex, peer, socket>>

unsubscribe_command(c, ns) ==
  /\ Begin(c, [Idle EXCEPT !.op = "unsubscribe", !.names = ns])
  /\ UNCHANGED <<subscribers, mutex, peer, socket>>

\* The thread has treated n, and owes a confirmation.
After(c, n, owed) ==
  request' = [request EXCEPT ![c] = [request[c] EXCEPT !.names = @ \ {n}, !.owed = owed]]

BugSubscribe(c, n) ==
  /\ Doing(c, "subscribe") /\ n \in request[c].names
  /\ mutex = None
  /\ subscribers' = [subscribers EXCEPT ![n] = <<c>> \o @]
  /\ After(c, n, TRUE)
  /\ UNCHANGED <<mutex, peer, socket>>
\* A client not yet in the list enters it at its head, if there is memory; there is
\* a confirmation, or an error, for every channel.
subscribe_to_channel(c, n) ==
  /\ Doing(c, "subscribe") /\ n \in request[c].names
  /\ mutex = None
  /\ \/ ~IsIn(c, n) /\ subscribers' = [subscribers EXCEPT ![n] = <<c>> \o @]
     \/ UNCHANGED subscribers
  /\ After(c, n, TRUE)
  /\ UNCHANGED <<mutex, peer, socket>>

\* There is no answer for a channel the client is not in.
unsubscribe_from_channel(c, n) ==
  /\ Doing(c, "unsubscribe") /\ n \in request[c].names
  /\ mutex = None
  /\ subscribers' = [subscribers EXCEPT ![n] = Unlinked(@, c)]
  /\ After(c, n, IsIn(c, n))
  /\ UNCHANGED <<mutex, peer, socket>>

\* What is owed is written, without the mutex.
reply(c) ==
  /\ request[c].owed
  /\ Takes(c)
  /\ socket' = [socket EXCEPT ![c] = Written(c, None)]
  /\ request' = [request EXCEPT ![c] = [request[c] EXCEPT !.owed = FALSE]]
  /\ UNCHANGED <<subscribers, mutex, peer>>

\* The handler returns.
return(c) ==
  /\ request[c].op \in {"subscribe", "unsubscribe", "reply"}
  /\ ~request[c].owed /\ request[c].names = {}
  /\ request' = [request EXCEPT ![c] = Idle]
  /\ UNCHANGED <<subscribers, mutex, peer, socket>>

\* UNSUBSCRIBE without a channel walks them all under the mutex, and writes what
\* it confirms while it holds it.
unsubscribe_all(c) ==
  /\ mutex = None
  /\ mutex' = c
  /\ Begin(c, [Idle EXCEPT !.op = "unsubscribe_all", !.names = {n \in Names : IsIn(c, n)}])
  /\ UNCHANGED <<subscribers, peer, socket>>

unsubscribe_next(c, n) ==
  /\ Doing(c, "unsubscribe_all") /\ n \in request[c].names
  /\ Takes(c)
  /\ subscribers' = [subscribers EXCEPT ![n] = Unlinked(@, c)]
  /\ socket' = [socket EXCEPT ![c] = Written(c, None)]
  /\ request' = [request EXCEPT ![c] = [request[c] EXCEPT !.names = @ \ {n}, !.count = @ + 1]]
  /\ UNCHANGED <<mutex, peer>>

\* The mutex is given back; a client that was in no channel is told so then.
unsubscribe_all_done(c) ==
  /\ Doing(c, "unsubscribe_all") /\ request[c].names = {}
  /\ mutex' = None
  /\ request' = [request EXCEPT ![c] = [Idle EXCEPT !.op = "reply", !.owed = (request[c].count = 0)]]
  /\ UNCHANGED <<subscribers, peer, socket>>

\* PUBLISH takes the mutex and finds the list, ...
publish_command(c, n, m) ==
  /\ mutex = None
  /\ mutex' = c
  /\ Begin(c, [Idle EXCEPT !.op = "publish", !.msg = m, !.rest = subscribers[n]])
  /\ UNCHANGED <<subscribers, peer, socket>>

\* ... writes to one after the other, ...
deliver(c) ==
  /\ Doing(c, "publish") /\ request[c].rest # <<>>
  /\ LET d == Head(request[c].rest)
     IN  /\ Takes(d)
         /\ socket' = [socket EXCEPT ![d] = Written(d, request[c].msg)]
  /\ request' = [request EXCEPT ![c] = [request[c] EXCEPT !.rest = Tail(@), !.count = @ + 1]]
  /\ UNCHANGED <<subscribers, mutex, peer>>

BugPublishDone(c) ==
  /\ Doing(c, "publish") /\ request[c].rest = <<>>
  /\ request' = [request EXCEPT ![c] = [Idle EXCEPT !.op = "reply", !.owed = TRUE]]
  /\ mutex' = IF request[c].count = 0 THEN mutex ELSE None
  /\ UNCHANGED <<subscribers, peer, socket>>
\* ... and gives the mutex back before it answers.
publish_done(c) ==
  /\ Doing(c, "publish") /\ request[c].rest = <<>>
  /\ mutex' = None
  /\ request' = [request EXCEPT ![c] = [Idle EXCEPT !.op = "reply", !.owed = TRUE]]
  /\ UNCHANGED <<subscribers, peer, socket>>

-----------------------------------------------------------------------------
\* What the thread of c does without a new request.
Step(c) ==
  \/ reply(c) \/ return(c) \/ deliver(c) \/ publish_done(c) \/ unsubscribe_all_done(c)
  \/ \E n \in Names :
       subscribe_to_channel(c, n) \/ unsubscribe_from_channel(c, n) \/ unsubscribe_next(c, n)

Next ==
  \E c \in Clients :
    \/ handle_client(c) \/ Read(c) \/ Close(c) \/ pubsub_remove_client(c)
    \/ \E ns \in SUBSET Names \ {{}} : subscribe_command(c, ns) \/ unsubscribe_command(c, ns)
    \/ unsubscribe_all(c)
    \/ \E n \in Names, m \in Messages : publish_command(c, n, m)
    \/ Step(c)

Spec == Init /\ [][Next]_vars

\* Clients read what is sent to them, threads run, and one of those that wait for
\* room in a socket, which the kernel serves in turn, gets it at last.
FairSpec == Spec /\ \A c \in Clients : WF_vars(Read(c)) /\ SF_vars(Step(c))

-----------------------------------------------------------------------------
(* Properties                                                              *)

Requests ==
  [op : {"none", "reply", "subscribe", "unsubscribe", "unsubscribe_all", "publish"},
   names : SUBSET Names, owed : BOOLEAN, msg : Messages \cup {None},
   rest : Seq(Clients), count : Nat]

\* The types; a list, and what PUBLISH has left of it, holds clients only.
TypeOK ==
  /\ subscribers \in [Names -> Seq(Clients)]
  /\ mutex \in Clients \cup {None}
  /\ peer \in [Clients -> {"free", "open", "gone"}]
  /\ request \in [Clients -> Requests]
  /\ socket \in [Clients -> Seq(Messages \cup {None})]

\* No list, and no PUBLISH under way, has a client whose memory was freed (and may
\* belong to another one by now).
NoDanglingSubscriber ==
  \A c \in Clients : peer[c] = "free" =>
    /\ \A n \in Names : ~IsIn(c, n)
    /\ \A d \in Clients : c \notin Range(request[d].rest)

\* The messages in what was written to a socket, the replies left out: of its
\* first i things, and of all.
KeptUpTo(s) ==
  LET f[i \in 0 .. Len(s)] ==
        IF i = 0 THEN <<>> ELSE IF s[i] = None THEN f[i - 1] ELSE Append(f[i - 1], s[i])
  IN  f
Kept(s) == KeptUpTo(s)[Len(s)]

\* What PUBLISH has still to write to c.
Coming(c) ==
  IF peer[c] = "open" /\ \E p \in Clients : c \in Range(request[p].rest)
  THEN <<request[CHOOSE p \in Clients : c \in Range(request[p].rest)].msg>>
  ELSE <<>>

\* What Channels has for the lists, the connections and the sockets.
Members == [n \in Names |-> Range(subscribers[n])]
Up == {c \in Clients : peer[c] = "open"}
Mailboxes == [c \in Clients |-> Kept(socket[c]) \o Coming(c)]

CH == INSTANCE Channels WITH members <- Members, up <- Up, mailbox <- Mailboxes

\* Seen by its subscribers PUBLISH is one step, whatever others do while it writes
\* to them one by one: each gets the message once, in the order all others get it
\* in, and nobody who has left does.
RefinesChannels == CH!Spec

\* Who holds the mutex gives it back: everybody who waits for it depends on that.
MutexReleased == \A c \in Clients : mutex = c ~> mutex # c
=============================================================================
