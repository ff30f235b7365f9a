------------------------------ MODULE Channels ------------------------------
(***************************************************************************)
(* What publish/subscribe promises: a message reaches, once and at one     *)
(* moment, everybody who is a member of its channel then and whose         *)
(* connection is up; so all who get two messages get them in one order,    *)
(* and nobody gets one after leaving.  PubSub implements it.               *)
(***************************************************************************)
EXTENDS Sequences

CONSTANTS Clients, Names, Messages

VARIABLES
  members,  \* the clients subscribed to each channel
  up,       \* the clients whose connection is up
  mailbox   \* the messages on their way to each client

vars == <<members, up, mailbox>>

-----------------------------------------------------------------------------
Init ==
  /\ members = [n \in Names |-> {}]
  /\ up = {}
  /\ mailbox = [c \in Clients |-> <<>>]

Arrive(c) ==
  /\ c \notin up /\ \A n \in Names : c \notin members[n]
  /\ up' = up \cup {c}
  /\ UNCHANGED <<members, mailbox>>

Join(c, n) ==
  /\ members' = [members EXCEPT ![n] = @ \cup {c}]
  /\ UNCHANGED <<up, mailbox>>

Leave(c, n) ==
  /\ members' = [members EXCEPT ![n] = @ \ {c}]
  /\ UNCHANGED <<up, mailbox>>

Publish(n, m) ==
  /\ mailbox' = [c \in Clients |-> IF c \in members[n] \cap up THEN Append(mailbox[c], m) ELSE mailbox[c]]
  /\ UNCHANGED <<members, up>>

Receive(c) ==
  /\ mailbox[c] # <<>>
  /\ mailbox' = [mailbox EXCEPT ![c] = Tail(@)]
  /\ UNCHANGED <<members, up>>

\* The connection breaks, with what was on its way ...
Break(c) ==
  /\ up' = up \ {c}
  /\ mailbox' = [mailbox EXCEPT ![c] = <<>>]
  /\ UNCHANGED members

\* ... and the server notices.
Forget(c) ==
  /\ c \notin up
  /\ members' = [n \in Names |-> members[n] \ {c}]
  /\ UNCHANGED <<up, mailbox>>

Next ==
  \/ \E c \in Clients : Arrive(c) \/ Receive(c) \/ Break(c) \/ Forget(c)
  \/ \E c \in Clients, n \in Names : Join(c, n) \/ Leave(c, n)
  \/ \E n \in Names, m \in Messages : Publish(n, m)

Spec == Init /\ [][Next]_vars
=============================================================================
