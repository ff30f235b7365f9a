------------------------ MODULE PubSubRefinementProofs ------------------------
(***************************************************************************)
(* PubSub implements Channels: to its subscribers PUBLISH is one step.     *)
(***************************************************************************)
EXTENDS PubSubProofs

\* What is written to a client that closed its socket is lost.
GoneIsSilent == \A c \in Clients : peer[c] # "open" => socket[c] = <<>>

\* The invariant the mapping rests on.
RInv == PInv /\ GoneIsSilent

-----------------------------------------------------------------------------
(* Lemmas about Kept                                                       *)

\* g is the recursive function of KeptUpTo, for the first n things of s.
KeptBy(s, n, g) ==
  g = [i \in 0 .. n |->
         IF i = 0 THEN <<>> ELSE IF s[i] = None THEN g[i - 1] ELSE Append(g[i - 1], s[i])]

\* There is such a function, and it depends on the first n things only.
LEMMA KeptExists ==
  ASSUME NEW s, NEW n \in Nat
  PROVE  \E g : KeptBy(s, n, g)
<1> DEFINE T == {k \in Nat : ~\E g : KeptBy(s, k, g)}
<1> SUFFICES ASSUME n \in T PROVE FALSE
  OBVIOUS
<1>1. PICK k \in T : \A m \in T : k <= m
  BY LeastExists
<1>2. k \in Nat /\ ~\E g : KeptBy(s, k, g)
  OBVIOUS
<1>3. CASE k = 0
  <2>1. KeptBy(s, 0, [i \in 0 .. 0 |-> <<>>])
    BY DEF KeptBy
  <2> QED
    BY <1>2, <1>3, <2>1
<1>4. CASE k # 0
  <2>1. k - 1 \in Nat /\ ~(k <= k - 1)
    BY <1>2, <1>4
  <2>2. PICK g : KeptBy(s, k - 1, g)
    BY <1>1, <2>1
  <2> DEFINE x == IF s[k] = None THEN g[k - 1] ELSE Append(g[k - 1], s[k])
             h == [i \in 0 .. k |-> IF i = k THEN x ELSE g[i]]
  <2>3. \A i \in 0 .. k - 1 :
          g[i] = IF i = 0 THEN <<>> ELSE IF s[i] = None THEN g[i - 1] ELSE Append(g[i - 1], s[i])
    BY <2>2 DEF KeptBy
  <2>4. \A i \in 0 .. k : i # k => i \in 0 .. k - 1
    BY <1>2
  <2>5. \A i \in 0 .. k : i # 0 => i - 1 \in 0 .. k /\ i - 1 # k
    BY <1>2
  <2>6. \A i \in 0 .. k : i # 0 => h[i - 1] = g[i - 1]
    BY <2>5
  <2>7. \A i \in 0 .. k :
          h[i] = IF i = 0 THEN <<>> ELSE IF s[i] = None THEN h[i - 1] ELSE Append(h[i - 1], s[i])
    BY <1>4, <2>3, <2>4, <2>6
  <2>8. KeptBy(s, k, h)
    BY <2>7 DEF KeptBy
  <2> QED
    BY <1>2, <2>8
<1> QED
  BY <1>3, <1>4

LEMMA KeptAgrees ==
  ASSUME NEW s, NEW t, NEW n \in Nat, NEW m \in Nat, NEW g, NEW h,
         KeptBy(s, n, g), KeptBy(t, m, h),
         NEW k \in Nat, k <= n, k <= m, \A i \in 1 .. k : s[i] = t[i]
  PROVE  g[k] = h[k]
<1> DEFINE T == {i \in 0 .. k : g[i] # h[i]}
<1> SUFFICES ASSUME T # {} PROVE FALSE
  OBVIOUS
<1>0. T \subseteq Nat
  OBVIOUS
<1>1. PICK j \in T : \A i \in T : j <= i
  <2> HIDE DEF T
  <2> QED
    BY <1>0, LeastExists
<1>2. j \in 0 .. k /\ g[j] # h[j]
  OBVIOUS
<1>3. j \in 0 .. n /\ j \in 0 .. m
  BY <1>2
<1>4. /\ g[j] = IF j = 0 THEN <<>> ELSE IF s[j] = None THEN g[j - 1] ELSE Append(g[j - 1], s[j])
      /\ h[j] = IF j = 0 THEN <<>> ELSE IF t[j] = None THEN h[j - 1] ELSE Append(h[j - 1], t[j])
  BY <1>3 DEF KeptBy
<1>5. j # 0
  BY <1>2, <1>4
<1>6. j - 1 \in 0 .. k /\ ~(j <= j - 1) /\ s[j] = t[j]
  BY <1>2, <1>5
<1>7. g[j - 1] = h[j - 1]
  BY <1>1, <1>6
<1> QED
  BY <1>2, <1>4, <1>6, <1>7

\* KeptUpTo is this function.
LEMMA KeptIs ==
  ASSUME NEW S, NEW s \in Seq(S)
  PROVE  /\ KeptBy(s, Len(s), KeptUpTo(s))
         /\ KeptUpTo(s)[0] = <<>>
         /\ \A i \in 1 .. Len(s) :
              KeptUpTo(s)[i] = IF s[i] = None THEN KeptUpTo(s)[i - 1]
                                              ELSE Append(KeptUpTo(s)[i - 1], s[i])
<1>1. Len(s) \in Nat
  OBVIOUS
<1>2. \E g : KeptBy(s, Len(s), g)
  BY <1>1, KeptExists
<1>3. KeptUpTo(s) = CHOOSE g : KeptBy(s, Len(s), g)
  BY DEF KeptUpTo, KeptBy
<1>4. KeptBy(s, Len(s), KeptUpTo(s))
  BY <1>2, <1>3
<1> DEFINE f == KeptUpTo(s)
<1>5. f = [i \in 0 .. Len(s) |->
             IF i = 0 THEN <<>> ELSE IF s[i] = None THEN f[i - 1] ELSE Append(f[i - 1], s[i])]
  BY <1>4 DEF KeptBy
<1> HIDE DEF f
<1>6. /\ 0 \in 0 .. Len(s)
      /\ \A i \in 1 .. Len(s) : i \in 0 .. Len(s) /\ i # 0
  BY <1>1
<1>7. f[0] = <<>>
  BY <1>5, <1>6
<1>8. \A i \in 1 .. Len(s) : f[i] = IF s[i] = None THEN f[i - 1] ELSE Append(f[i - 1], s[i])
  BY <1>5, <1>6
<1> QED
  BY <1>4, <1>7, <1>8 DEF f

LEMMA KeptOfNothing == Kept(<<>>) = <<>>
<1>1. <<>> \in Seq({}) /\ Len(<<>>) = 0
  OBVIOUS
<1> QED
  BY <1>1, KeptIs DEF Kept

\* What is written last is kept last, if it is a message.
LEMMA KeptAppend ==
  ASSUME NEW S, NEW s \in Seq(S), NEW x \in S
  PROVE  Kept(Append(s, x)) = IF x = None THEN Kept(s) ELSE Append(Kept(s), x)
<1> DEFINE t == Append(s, x)
<1>1. PICK n \in Nat : n = Len(s)
  OBVIOUS
<1>2. /\ t \in Seq(S) /\ Len(t) = n + 1 /\ t[n + 1] = x
      /\ \A i \in 1 .. n : t[i] = s[i]
  BY <1>1
<1> HIDE DEF t
<1>3. KeptBy(s, n, KeptUpTo(s)) /\ KeptBy(t, n + 1, KeptUpTo(t))
  BY <1>1, <1>2, KeptIs
<1>4. KeptUpTo(t)[n] = KeptUpTo(s)[n]
  BY <1>2, <1>3, KeptAgrees
<1>5. n + 1 \in 1 .. Len(t) /\ (n + 1) - 1 = n
  BY <1>2
<1>6. KeptUpTo(t)[n + 1] = IF x = None THEN KeptUpTo(t)[n] ELSE Append(KeptUpTo(t)[n], x)
  BY <1>2, <1>5, KeptIs
<1> QED
  BY <1>1, <1>2, <1>4, <1>6 DEF Kept, t

\* It is a list of messages.
LEMMA KeptType ==
  ASSUME NEW s \in Seq(Messages \cup {None})
  PROVE  \A i \in 0 .. Len(s) : KeptUpTo(s)[i] \in Seq(Messages)
<1> DEFINE f == KeptUpTo(s)
           T == {i \in 0 .. Len(s) : f[i] \notin Seq(Messages)}
<1> SUFFICES ASSUME T # {} PROVE FALSE
  OBVIOUS
<1>1. Len(s) \in Nat /\ T \subseteq Nat
  OBVIOUS
<1>2. PICK j \in T : \A i \in T : j <= i
  <2> HIDE DEF T
  <2> QED
    BY <1>1, LeastExists
<1>3. /\ f[0] = <<>>
      /\ \A i \in 1 .. Len(s) : f[i] = IF s[i] = None THEN f[i - 1] ELSE Append(f[i - 1], s[i])
  BY KeptIs
<1> HIDE DEF f
<1>4. j \in 0 .. Len(s) /\ f[j] \notin Seq(Messages)
  OBVIOUS
<1> HIDE DEF T
<1>5. <<>> \in Seq(Messages) /\ j # 0
  <2>1. <<>> \in Seq(Messages)
    OBVIOUS
  <2> QED
    BY <1>3, <1>4, <2>1
<1>6. j \in 1 .. Len(s) /\ j - 1 \in 0 .. Len(s) /\ ~(j <= j - 1)
  BY <1>1, <1>4, <1>5
<1>7. f[j - 1] \in Seq(Messages)
  BY <1>2, <1>6 DEF T
<1>8. s[j] \in Messages \cup {None}
  BY <1>6
<1>9. f[j] = IF s[j] = None THEN f[j - 1] ELSE Append(f[j - 1], s[j])
  BY <1>3, <1>6
<1>10. s[j] # None => Append(f[j - 1], s[j]) \in Seq(Messages)
  BY <1>7, <1>8
<1> QED
  BY <1>4, <1>7, <1>9, <1>10

\* What is written first is kept first.
LEMMA KeptTail ==
  ASSUME NEW s \in Seq(Messages \cup {None}), s # <<>>
  PROVE  Kept(s) = IF Head(s) = None THEN Kept(Tail(s)) ELSE <<Head(s)>> \o Kept(Tail(s))
<1> DEFINE t == Tail(s)
           p == IF Head(s) = None THEN <<>> ELSE <<Head(s)>>
           f == KeptUpTo(s)
           g == KeptUpTo(t)
           T == {i \in 0 .. Len(t) : f[i + 1] # p \o g[i]}
<1>1. Len(s) \in Nat \ {0} /\ Head(s) = s[1] /\ s[1] \in Messages \cup {None}
  OBVIOUS
<1>2. PICK n \in Nat : n = Len(t)
  OBVIOUS
<1>3. /\ t \in Seq(Messages \cup {None}) /\ Len(s) = n + 1
      /\ \A i \in 1 .. n : t[i] = s[i + 1]
  BY <1>1, <1>2
<1>4. p \in Seq(Messages)
  BY <1>1
<1> HIDE DEF t
<1>5. /\ f[0] = <<>>
      /\ \A i \in 1 .. n + 1 : f[i] = IF s[i] = None THEN f[i - 1] ELSE Append(f[i - 1], s[i])
  BY <1>3, KeptIs
<1>6. /\ g[0] = <<>>
      /\ \A i \in 1 .. n : g[i] = IF t[i] = None THEN g[i - 1] ELSE Append(g[i - 1], t[i])
  BY <1>2, <1>3, KeptIs
<1>7. \A i \in 0 .. n : g[i] \in Seq(Messages)
  BY <1>2, <1>3, KeptType
<1>8. f[1] = p
  <2>1. f[1] = IF s[1] = None THEN f[0] ELSE Append(f[0], s[1])
    <3>1. 1 \in 1 .. n + 1 /\ 1 - 1 = 0
      OBVIOUS
    <3> QED
      BY <1>5, <3>1
  <2>2. Append(<<>>, s[1]) = <<s[1]>>
    OBVIOUS
  <2> QED
    BY <1>1, <1>5, <2>1, <2>2
<1> HIDE DEF p, f, g
<1>8a. ASSUME NEW b \in Seq(Messages), NEW x \in Messages
       PROVE  Append(p \o b, x) = p \o Append(b, x)
  <2>1. /\ <<x>> \in Seq(Messages) /\ p \o b \in Seq(Messages)
        /\ Append(p \o b, x) = (p \o b) \o <<x>>
        /\ Append(b, x) = b \o <<x>>
    BY <1>4, AppendIsConcat
  <2> QED
    BY <1>4, <2>1, ConcatAssociative
<1>9. T = {}
  <2> SUFFICES ASSUME T # {} PROVE FALSE
    OBVIOUS
  <2>1. T \subseteq Nat
    BY <1>2
  <2>2. PICK j \in T : \A i \in T : j <= i
    <3> HIDE DEF T
    <3> QED
      BY <2>1, LeastExists
  <2>3. j \in 0 .. n /\ f[j + 1] # p \o g[j]
    BY <1>2
  <2>4. p \o <<>> = p
    BY <1>4
  <2>5. j # 0
    <3>1. ASSUME j = 0 PROVE FALSE
      <4>1. f[j + 1] = f[1] /\ g[j] = <<>>
        BY <1>6, <3>1
      <4> QED
        BY <1>8, <2>3, <2>4, <4>1
    <3> QED
      BY <3>1
  <2>6. /\ j \in 1 .. n /\ j - 1 \in 0 .. n /\ ~(j <= j - 1) /\ (j - 1) + 1 = j
        /\ j + 1 \in 1 .. n + 1 /\ (j + 1) - 1 = j
    BY <1>2, <2>3, <2>5
  <2>7. f[j] = p \o g[j - 1]
    BY <1>2, <2>2, <2>6
  <2>8. g[j - 1] \in Seq(Messages)
    BY <1>7, <2>6
  <2>9. s[j + 1] = t[j] /\ t[j] \in Messages \cup {None}
    BY <1>2, <1>3, <2>6
  <2>10. f[j + 1] = IF t[j] = None THEN p \o g[j - 1] ELSE Append(p \o g[j - 1], t[j])
    BY <1>5, <2>6, <2>7, <2>9
  <2>11. g[j] = IF t[j] = None THEN g[j - 1] ELSE Append(g[j - 1], t[j])
    BY <1>6, <2>6
  <2>12. CASE t[j] = None
    BY <2>3, <2>10, <2>11, <2>12
  <2>13. CASE t[j] # None
    <3>1. t[j] \in Messages
      BY <2>9, <2>13
    <3>2. Append(p \o g[j - 1], t[j]) = p \o Append(g[j - 1], t[j])
      BY <1>8a, <2>8, <3>1
    <3> QED
      BY <2>3, <2>10, <2>11, <2>13, <3>2
  <2> QED
    BY <2>12, <2>13
<1>10. f[n + 1] = p \o g[n]
  BY <1>2, <1>9, SMTT(60)
<1>11. Kept(s) = p \o Kept(t)
  BY <1>2, <1>3, <1>10 DEF Kept, f, g
<1>12. Kept(t) \in Seq(Messages)
  BY <1>2, <1>3, <1>7 DEF Kept, g
<1>13. <<>> \o Kept(t) = Kept(t)
  BY <1>12
<1> QED
  BY <1>11, <1>13 DEF p, t

\* A write: a reply is not kept, and nothing is written to who is gone.
LEMMA KeptWritten ==
  ASSUME NEW c \in Clients, socket[c] \in Seq(Messages \cup {None}), NEW x \in Messages \cup {None}
  PROVE  Kept(Written(c, x)) = IF peer[c] = "gone" \/ x = None THEN Kept(socket[c])
                                                             ELSE Append(Kept(socket[c]), x)
<1>1. Kept(Append(socket[c], x)) = IF x = None THEN Kept(socket[c]) ELSE Append(Kept(socket[c]), x)
  BY KeptAppend
<1> QED
  BY <1>1 DEF Written

-----------------------------------------------------------------------------
(* The invariant                                                           *)

LEMMA InitRInv == Init => RInv
<1>1. Init => GoneIsSilent
  BY DEF Init, GoneIsSilent
<1> QED
  BY <1>1, InitPInv DEF RInv

LEMMA StepRInv == RInv /\ [Next]_vars => RInv'
<1> SUFFICES ASSUME RInv, [Next]_vars PROVE GoneIsSilent'
  BY StepPInv DEF RInv
<1>1. /\ peer \in [Clients -> {"free", "open", "gone"}]
      /\ \A d \in Clients : peer[d] # "open" => socket[d] = <<>>
      /\ socket \in [Clients -> Seq(Messages \cup {None})]
  BY DEF RInv, PInv, TypeOK, GoneIsSilent
<1>2. CASE UNCHANGED <<peer, socket>>
  BY <1>1, <1>2 DEF GoneIsSilent
<1>3. ASSUME NEW c \in Clients, handle_client(c) \/ pubsub_remove_client(c) \/ Close(c)
      PROVE  GoneIsSilent'
  BY <1>1, <1>3 DEF handle_client, pubsub_remove_client, Close, GoneIsSilent
<1>4. ASSUME NEW c \in Clients, Read(c)
      PROVE  GoneIsSilent'
  BY <1>1, <1>4 DEF Read, GoneIsSilent
\* A thread writes to its own client, or to one in a list.
<1>5. ASSUME NEW d \in Clients, NEW x, peer[d] # "free", peer' = peer,
             socket' = [socket EXCEPT ![d] = Written(d, x)]
      PROVE  GoneIsSilent'
  BY <1>1, <1>5 DEF Written, GoneIsSilent
<1>6. ASSUME NEW c \in Clients, Step(c)
      PROVE  GoneIsSilent'
  <2>1. request[c].owed \/ request[c].op = "unsubscribe_all" => peer[c] # "free"
    BY DEF RInv, PInv, FreeIsUnused, Idle
  <2>2. CASE reply(c)
    BY <1>5, <2>1, <2>2 DEF reply
  <2>3. CASE \E n \in Names : unsubscribe_next(c, n)
    BY <1>5, <2>1, <2>3 DEF unsubscribe_next, Doing
  <2>4. CASE deliver(c)
    <3> DEFINE d == Head(request[c].rest)
    <3>1. /\ request[c].rest # <<>> /\ peer' = peer
          /\ socket' = [socket EXCEPT ![d] = Written(d, request[c].msg)]
      BY <2>4 DEF deliver
    <3>2. request[c].rest \in Seq(Clients)
      BY DEF RInv, PInv, TypeOK, Requests
    <3>3. d \in Clients /\ d \in Range(request[c].rest)
      BY <3>1, <3>2, WalkOn DEF RInv, PInv, WalksList
    <3>4. peer[d] # "free"
      BY <3>1, <3>3 DEF RInv, PInv, WalksList, FreeIsUnused
    <3> HIDE DEF d
    <3> QED
      BY <1>5, <3>1, <3>3, <3>4
  <2> QED
    BY <1>2, <1>6, <2>2, <2>3, <2>4
       DEF Step, return, publish_done, unsubscribe_all_done, subscribe_to_channel,
           unsubscribe_from_channel
<1> QED
  BY <1>2, <1>3, <1>4, <1>6
     DEF Next, vars, subscribe_command, unsubscribe_command, unsubscribe_all, publish_command

-----------------------------------------------------------------------------
(* What the mapping makes of a state                                       *)

\* Only one thread publishes, and what is coming to a client is its message.
ComingShows ==
  \A c \in Clients :
    /\ peer[c] # "open" => Coming(c) = <<>>
    /\ (\A p \in Clients : c \notin Range(request[p].rest)) => Coming(c) = <<>>
    /\ \A p \in Clients :
         peer[c] = "open" /\ c \in Range(request[p].rest) => Coming(c) = <<request[p].msg>>

LEMMA WhatIsComing == PInv => ComingShows
<1> SUFFICES ASSUME PInv, NEW c \in Clients
             PROVE  /\ peer[c] # "open" => Coming(c) = <<>>
                    /\ (\A p \in Clients : c \notin Range(request[p].rest)) => Coming(c) = <<>>
                    /\ \A p \in Clients :
                         peer[c] = "open" /\ c \in Range(request[p].rest)
                         => Coming(c) = <<request[p].msg>>
  BY DEF ComingShows
<1>1. peer[c] # "open" => Coming(c) = <<>>
  BY DEF Coming
<1>2. (\A p \in Clients : c \notin Range(request[p].rest)) => Coming(c) = <<>>
  BY DEF Coming
<1>3. ASSUME NEW p \in Clients, peer[c] = "open", c \in Range(request[p].rest)
      PROVE  Coming(c) = <<request[p].msg>>
  <2> DEFINE q == CHOOSE q \in Clients : c \in Range(request[q].rest)
  <2>1. q \in Clients /\ c \in Range(request[q].rest)
    BY <1>3
  <2>2. Coming(c) = <<request[q].msg>>
    BY <1>3 DEF Coming
  <2> HIDE DEF q
  <2>3. request[p].rest # <<>> /\ request[q].rest # <<>>
    BY <1>3, <2>1 DEF Range
  <2>4. mutex = p /\ mutex = q
    BY <2>1, <2>3 DEF PInv, WalksList, HoldsMutex
  <2> QED
    BY <2>2, <2>4
<1> QED
  BY <1>1, <1>2, <1>3

LEMMA MailTypes ==
  ASSUME PInv, NEW c \in Clients
  PROVE  /\ socket[c] \in Seq(Messages \cup {None})
         /\ Kept(socket[c]) \in Seq(Messages)
         /\ Kept(socket[c]) \o <<>> = Kept(socket[c])
<1>1. socket[c] \in Seq(Messages \cup {None})
  BY DEF PInv, TypeOK
<1>2. Len(socket[c]) \in 0 .. Len(socket[c])
  BY <1>1
<1>3. Kept(socket[c]) \in Seq(Messages)
  BY <1>1, <1>2, KeptType DEF Kept
<1> QED
  BY <1>1, <1>3

\* A thread that does not walk a list, and writes replies only: nothing changes for
\* who waits for messages.
LEMMA QuietStep ==
  ASSUME PInv, PInv', peer' = peer, NEW c \in Clients, NEW r,
         request' = [request EXCEPT ![c] = r],
         r.rest = request[c].rest, r.rest # <<>> => r.msg = request[c].msg,
         \A d \in Clients : Kept(socket'[d]) = Kept(socket[d])
  PROVE  Mailboxes' = Mailboxes /\ Up' = Up
<1>1. \A d \in Clients : /\ request'[d].rest = request[d].rest
                         /\ request[d].rest # <<>> => request'[d].msg = request[d].msg
  BY DEF PInv, TypeOK
<1>2. ComingShows /\ ComingShows'
  BY WhatIsComing, PTL
<1>3. ASSUME NEW d \in Clients
      PROVE  Coming(d)' = Coming(d)
  <2>1. CASE peer[d] # "open" \/ \A p \in Clients : d \notin Range(request[p].rest)
    BY <1>1, <1>2, <2>1 DEF ComingShows
  <2>2. ASSUME NEW p \in Clients, peer[d] = "open", d \in Range(request[p].rest)
        PROVE  Coming(d)' = Coming(d)
    <3>1. request[p].rest # <<>>
      BY <2>2 DEF Range
    <3>2. Coming(d) = <<request[p].msg>> /\ Coming(d)' = <<request'[p].msg>>
      BY <1>1, <1>2, <2>2 DEF ComingShows
    <3> QED
      BY <1>1, <3>1, <3>2
  <2> QED
    BY <2>1, <2>2
<1> QED
  BY <1>3 DEF Mailboxes, Up

\* Leaving the list of a channel.
LEMMA LeaveShows ==
  ASSUME PInv, NEW c \in Clients, NEW n \in Names,
         subscribers' = [subscribers EXCEPT ![n] = Unlinked(@, c)],
         Mailboxes' = Mailboxes, Up' = Up
  PROVE  CH!Next
<1>1. subscribers \in [Names -> Seq(Clients)] /\ IsInjective(subscribers[n])
  BY DEF PInv, TypeOK, OnceEach
<1>2. Range(Unlinked(subscribers[n], c)) = Range(subscribers[n]) \ {c}
  BY <1>1, UnlinkedList
<1>3. Members' = [Members EXCEPT ![n] = @ \ {c}]
  BY <1>1, <1>2 DEF Members
<1>4. CH!Leave(c, n)
  BY <1>3 DEF CH!Leave
<1> QED
  BY <1>4 DEF CH!Next

\* Who enters a list joins the channel, unless there was no memory.
LEMMA SubscribeShows ==
  ASSUME PInv, PInv', NEW c \in Clients, NEW n \in Names, subscribe_to_channel(c, n)
  PROVE  [CH!Next]_(CH!vars)
<1> DEFINE r == [request[c] EXCEPT !.names = @ \ {n}, !.owed = TRUE]
<1>1. /\ request' = [request EXCEPT ![c] = r] /\ peer' = peer /\ socket' = socket
  BY DEF subscribe_to_channel, After
<1>2. request[c] \in Requests
  BY DEF PInv, TypeOK
<1>3. r.rest = request[c].rest /\ r.msg = request[c].msg
  BY <1>2 DEF Requests
<1> HIDE DEF r
<1>4. Mailboxes' = Mailboxes /\ Up' = Up
  BY <1>1, <1>3, QuietStep
<1>5. CASE UNCHANGED subscribers
  BY <1>4, <1>5 DEF CH!vars, Members
<1>6. CASE ~IsIn(c, n) /\ subscribers' = [subscribers EXCEPT ![n] = <<c>> \o @]
  <2>1. subscribers \in [Names -> Seq(Clients)] /\ IsInjective(subscribers[n])
    BY DEF PInv, TypeOK, OnceEach
  <2>2. c \notin Range(subscribers[n])
    BY <1>6, <2>1, ByPlace DEF IsIn
  <2>3. Range(<<c>> \o subscribers[n]) = Range(subscribers[n]) \cup {c}
    BY <2>1, <2>2, Prepended
  <2>4. Members' = [Members EXCEPT ![n] = @ \cup {c}]
    BY <1>6, <2>1, <2>3 DEF Members
  <2>5. CH!Join(c, n)
    BY <1>4, <2>4 DEF CH!Join
  <2> QED
    BY <2>5 DEF CH!Next
<1> QED
  BY <1>5, <1>6 DEF subscribe_to_channel

\* UNSUBSCRIBE leaves one channel, and writes a reply before it goes on, or later.
LEMMA UnsubscribeShows ==
  ASSUME PInv, PInv', NEW c \in Clients, NEW n \in Names,
         unsubscribe_from_channel(c, n) \/ unsubscribe_next(c, n)
  PROVE  CH!Next
<1>1. request[c] \in Requests /\ socket \in [Clients -> Seq(Messages \cup {None})]
  BY DEF PInv, TypeOK
<1>2. ASSUME unsubscribe_from_channel(c, n)
      PROVE  Mailboxes' = Mailboxes /\ Up' = Up
  <2> DEFINE r == [request[c] EXCEPT !.names = @ \ {n}, !.owed = IsIn(c, n)]
  <2>1. /\ request' = [request EXCEPT ![c] = r] /\ peer' = peer /\ socket' = socket
    BY <1>2 DEF unsubscribe_from_channel, After
  <2>2. r.rest = request[c].rest /\ r.msg = request[c].msg
    BY <1>1 DEF Requests
  <2> HIDE DEF r
  <2> QED
    BY <2>1, <2>2, QuietStep
<1>3. ASSUME unsubscribe_next(c, n)
      PROVE  Mailboxes' = Mailboxes /\ Up' = Up
  <2> DEFINE r == [request[c] EXCEPT !.names = @ \ {n}, !.count = @ + 1]
  <2>1. /\ request' = [request EXCEPT ![c] = r] /\ peer' = peer
        /\ socket' = [socket EXCEPT ![c] = Written(c, None)]
    BY <1>3 DEF unsubscribe_next
  <2>2. r.rest = request[c].rest /\ r.msg = request[c].msg
    BY <1>1 DEF Requests
  <2>3. Kept(Written(c, None)) = Kept(socket[c])
    BY <1>1, KeptWritten
  <2> HIDE DEF r
  <2>4. \A d \in Clients : Kept(socket'[d]) = Kept(socket[d])
    BY <1>1, <2>1, <2>3
  <2> QED
    BY <2>1, <2>2, <2>4, QuietStep
<1>4. subscribers' = [subscribers EXCEPT ![n] = Unlinked(@, c)]
  BY DEF unsubscribe_from_channel, unsubscribe_next
<1> QED
  BY <1>2, <1>3, <1>4, LeaveShows

\* PUBLISH happens when it takes the mutex: from then on the message is coming to
\* everybody in the list, and to nobody else.
LEMMA PublishShows ==
  ASSUME PInv, PInv', NEW c \in Clients, NEW n \in Names, NEW m \in Messages,
         publish_command(c, n, m)
  PROVE  CH!Next
<1> DEFINE r == [Idle EXCEPT !.op = "publish", !.msg = m, !.rest = subscribers[n]]
<1>1. r.rest = subscribers[n] /\ r.msg = m
  BY DEF Idle
<1>2. /\ mutex = None /\ request[c] = Idle
      /\ request' = [request EXCEPT ![c] = r] /\ UNCHANGED <<subscribers, peer, socket>>
  BY DEF publish_command, Begin
<1> HIDE DEF r
<1>3. /\ request'[c] = r /\ \A p \in Clients : p # c => request'[p] = request[p]
  BY <1>2 DEF PInv, TypeOK
<1>4. \A p \in Clients : request[p].rest = <<>>
  BY <1>2, PubSubAssumption DEF PInv, WalksList, HoldsMutex
<1>5. \A p, d \in Clients : d \notin Range(request[p].rest)
  BY <1>4 DEF Range
<1>6. ComingShows /\ ComingShows'
  BY WhatIsComing, PTL
<1>7. ASSUME NEW d \in Clients
      PROVE  Mailboxes'[d] = IF d \in Members[n] \cap Up THEN Append(Mailboxes[d], m)
                                                        ELSE Mailboxes[d]
  <2>1. Kept(socket[d]) \in Seq(Messages) /\ Kept(socket[d]) \o <<>> = Kept(socket[d])
    BY MailTypes
  <2>2. Coming(d) = <<>> /\ Mailboxes[d] = Kept(socket[d])
    BY <1>5, <1>6, <2>1 DEF ComingShows, Mailboxes
  <2>3. CASE d \in Members[n] /\ d \in Up
    <3>1. Coming(d)' = <<m>>
      BY <1>1, <1>2, <1>3, <1>6, <2>3 DEF ComingShows, Members, Up
    <3>2. Append(Kept(socket[d]), m) = Kept(socket[d]) \o <<m>>
      BY <2>1, AppendIsConcat
    <3> QED
      BY <1>2, <2>2, <2>3, <3>1, <3>2 DEF Mailboxes
  <2>4. CASE ~(d \in Members[n] /\ d \in Up)
    <3>1. Coming(d)' = <<>>
      BY <1>1, <1>2, <1>3, <1>5, <1>6, <2>4 DEF ComingShows, Members, Up
    <3> QED
      BY <1>2, <2>1, <2>2, <2>4, <3>1 DEF Mailboxes
  <2> QED
    BY <2>3, <2>4
<1>8. Mailboxes' = [d \in Clients |-> IF d \in Members[n] \cap Up THEN Append(Mailboxes[d], m)
                                                                ELSE Mailboxes[d]]
  BY <1>7 DEF Mailboxes
<1>9. Members' = Members /\ Up' = Up
  BY <1>2 DEF Members, Up
<1>10. CH!Publish(n, m)
  BY <1>8, <1>9 DEF CH!Publish
<1> QED
  BY <1>10 DEF CH!Next

\* A message that is written was coming already: writing it to one subscriber after
\* the other is nothing new to any of them.
LEMMA DeliverShows ==
  ASSUME RInv, PInv', NEW c \in Clients, deliver(c)
  PROVE  UNCHANGED CH!vars
<1>a. request[c].rest \in Seq(Clients) /\ request[c].rest # <<>>
  BY DEF deliver, RInv, PInv, TypeOK, Requests
<1>d. PICK d \in Clients : d = Head(request[c].rest)
  BY <1>a
<1>m. PICK m : m = request[c].msg
  OBVIOUS
<1>1. /\ request[c].rest # <<>> /\ UNCHANGED <<subscribers, mutex, peer>>
      /\ socket' = [socket EXCEPT ![d] = Written(d, m)]
      /\ request' = [request EXCEPT ![c] = [request[c] EXCEPT !.rest = Tail(@), !.count = @ + 1]]
  BY <1>d, <1>m DEF deliver
<1>2. /\ PInv /\ request \in [Clients -> Requests] /\ request[c].rest \in Seq(Clients)
      /\ socket \in [Clients -> Seq(Messages \cup {None})]
  BY DEF RInv, PInv, TypeOK, Requests
<1>3. request'[c].rest = Tail(request[c].rest) /\ request'[c].msg = m
  BY <1>1, <1>2, <1>m DEF Requests
<1>4. \A p \in Clients : p # c => request'[p] = request[p]
  BY <1>1, <1>2
<1>5. m \in Messages /\ IsInjective(request[c].rest)
  BY <1>1, <1>2, <1>m DEF PInv, WalksList
<1>6. /\ d \in Range(request[c].rest)
      /\ Range(Tail(request[c].rest)) = Range(request[c].rest) \ {d}
  BY <1>1, <1>2, <1>5, <1>d, WalkOn
<1>7. \A p \in Clients : p # c => request[p].rest = <<>>
  BY <1>1, <1>2 DEF PInv, WalksList, HoldsMutex
<1>8. \A p, e \in Clients : p # c => e \notin Range(request[p].rest)
  BY <1>7 DEF Range
<1>9. ComingShows /\ ComingShows'
  BY <1>2, WhatIsComing, PTL
<1>10. m # None
  BY <1>5, PubSubAssumption
<1>11. ASSUME NEW e \in Clients
       PROVE  Kept(socket'[e]) \o Coming(e)' = Kept(socket[e]) \o Coming(e)
  <2>1. Kept(socket[e]) \in Seq(Messages)
    BY <1>2, MailTypes
  <2>2. CASE e # d
    <3>1. socket'[e] = socket[e]
      BY <1>1, <1>2, <2>2
    <3>2. \A p \in Clients : e \in Range(request'[p].rest) <=> e \in Range(request[p].rest)
      BY <1>3, <1>4, <1>6, <2>2
    <3>3. Coming(e)' = Coming(e)
      <4>1. CASE peer[e] # "open" \/ e \notin Range(request[c].rest)
        BY <1>1, <1>8, <1>9, <3>2, <4>1 DEF ComingShows
      <4>2. CASE peer[e] = "open" /\ e \in Range(request[c].rest)
        BY <1>1, <1>3, <1>9, <1>m, <3>2, <4>2 DEF ComingShows
      <4> QED
        BY <4>1, <4>2
    <3> QED
      BY <3>1, <3>3
  <2>3. CASE e = d /\ peer[d] = "open"
    <3>1. Coming(d) = <<m>>
      BY <1>6, <1>9, <1>m, <2>3 DEF ComingShows
    <3>2. Coming(d)' = <<>>
      <4>1. \A p \in Clients : d \notin Range(request'[p].rest)
        BY <1>3, <1>4, <1>6, <1>8
      <4> QED
        BY <1>6, <1>9, <4>1 DEF ComingShows
    <3>3. Kept(socket'[d]) = Append(Kept(socket[d]), m)
      BY <1>1, <1>2, <1>5, <1>6, <1>10, <2>3, KeptWritten
    <3>4. Append(Kept(socket[d]), m) = Kept(socket[d]) \o <<m>>
      BY <1>5, <2>1, <2>3, AppendIsConcat
    <3>5. Append(Kept(socket[d]), m) \o <<>> = Append(Kept(socket[d]), m)
      BY <1>5, <2>1, <2>3
    <3> QED
      BY <2>3, <3>1, <3>2, <3>3, <3>4, <3>5
  <2>4. CASE e = d /\ peer[d] # "open"
    <3>1. Coming(d) = <<>> /\ Coming(d)' = <<>>
      BY <1>1, <1>6, <1>9, <2>4 DEF ComingShows
    <3>2. peer[d] = "gone"
      <4>1. PICK n \in Names : Range(request[c].rest) \subseteq Range(subscribers[n])
        BY <1>1, <1>2 DEF PInv, WalksList
      <4>2. peer[d] # "free"
        BY <1>2, <1>6, <4>1 DEF PInv, FreeIsUnused
      <4> QED
        BY <1>2, <2>4, <4>2 DEF PInv, TypeOK
    <3>3. Kept(socket'[d]) = Kept(socket[d])
      BY <1>1, <1>2, <1>5, <1>6, <3>2, KeptWritten
    <3> QED
      BY <2>4, <3>1, <3>3
  <2> QED
    BY <2>2, <2>3, <2>4
<1>12. Mailboxes' = Mailboxes
  BY <1>11 DEF Mailboxes
<1> QED
  BY <1>1, <1>12 DEF CH!vars, Members, Up

\* What a thread does without a new request.
LEMMA ThreadShows ==
  ASSUME RInv, PInv', NEW c \in Clients, Step(c)
  PROVE  [CH!Next]_(CH!vars)
<1>1. /\ PInv /\ request \in [Clients -> Requests] /\ request[c] \in Requests
      /\ socket \in [Clients -> Seq(Messages \cup {None})]
  BY DEF RInv, PInv, TypeOK
<1>2. Idle.rest = <<>> /\ (request[c].op # "publish" => request[c].rest = <<>>)
  BY <1>1 DEF Idle, PInv, WalksList
<1>3. ASSUME NEW r, request' = [request EXCEPT ![c] = r],
             r.rest = request[c].rest, r.rest # <<>> => r.msg = request[c].msg,
             UNCHANGED <<subscribers, peer>>, \A d \in Clients : Kept(socket'[d]) = Kept(socket[d])
      PROVE  UNCHANGED CH!vars
  <2>1. Mailboxes' = Mailboxes /\ Up' = Up
    BY <1>1, <1>3, QuietStep
  <2> QED
    BY <1>3, <2>1 DEF CH!vars, Members
<1>4. ASSUME reply(c)
      PROVE  UNCHANGED CH!vars
  <2> DEFINE r == [request[c] EXCEPT !.owed = FALSE]
  <2>1. /\ request' = [request EXCEPT ![c] = r] /\ UNCHANGED <<subscribers, peer>>
        /\ socket' = [socket EXCEPT ![c] = Written(c, None)]
    BY <1>4 DEF reply
  <2>2. r.rest = request[c].rest /\ r.msg = request[c].msg
    BY <1>1 DEF Requests
  <2> HIDE DEF r
  <2>3. Kept(Written(c, None)) = Kept(socket[c])
    BY <1>1, KeptWritten
  <2>4. \A d \in Clients : Kept(socket'[d]) = Kept(socket[d])
    BY <1>1, <2>1, <2>3
  <2> QED
    BY <1>3, <2>1, <2>2, <2>4
<1>5. ASSUME return(c)
      PROVE  UNCHANGED CH!vars
  BY <1>2, <1>3, <1>5 DEF return
<1>6. ASSUME publish_done(c) \/ unsubscribe_all_done(c)
      PROVE  UNCHANGED CH!vars
  <2>1. PICK o \in BOOLEAN :
          request' = [request EXCEPT ![c] = [Idle EXCEPT !.op = "reply", !.owed = o]]
    BY <1>6 DEF publish_done, unsubscribe_all_done
  <2> DEFINE r == [Idle EXCEPT !.op = "reply", !.owed = o]
  <2>2. r.rest = <<>> /\ request' = [request EXCEPT ![c] = r]
    BY <2>1 DEF Idle
  <2> HIDE DEF r
  <2>3. request[c].rest = <<>> /\ UNCHANGED <<subscribers, peer, socket>>
    BY <1>2, <1>6 DEF publish_done, unsubscribe_all_done, Doing
  <2> QED
    BY <1>3, <2>2, <2>3
<1>7. ASSUME deliver(c)
      PROVE  UNCHANGED CH!vars
  BY <1>7, DeliverShows
<1>8. ASSUME NEW n \in Names,
             \/ subscribe_to_channel(c, n) \/ unsubscribe_from_channel(c, n)
             \/ unsubscribe_next(c, n)
      PROVE  [CH!Next]_(CH!vars)
  BY <1>1, <1>8, SubscribeShows, UnsubscribeShows
<1> QED
  BY <1>4, <1>5, <1>6, <1>7, <1>8 DEF Step

\* Clients come, read, close and are forgotten.
LEMMA ConnectionShows ==
  ASSUME RInv, RInv', NEW c \in Clients,
         handle_client(c) \/ Read(c) \/ Close(c) \/ pubsub_remove_client(c)
  PROVE  [CH!Next]_(CH!vars)
<1>1. /\ PInv /\ PInv' /\ peer \in [Clients -> {"free", "open", "gone"}]
      /\ subscribers \in [Names -> Seq(Clients)]
      /\ socket \in [Clients -> Seq(Messages \cup {None})]
  BY DEF RInv, PInv, TypeOK
<1>2. ComingShows /\ ComingShows' /\ request' = request
  <2>1. ComingShows /\ ComingShows'
    BY <1>1, WhatIsComing, PTL
  <2> QED
    BY <2>1 DEF handle_client, Read, Close, pubsub_remove_client
\* What is coming to a client depends on its own connection only.
<1>3. ASSUME NEW d \in Clients, peer'[d] = "open" <=> peer[d] = "open"
      PROVE  Coming(d)' = Coming(d)
  <2>1. CASE peer[d] # "open" \/ \A p \in Clients : d \notin Range(request[p].rest)
    BY <1>2, <1>3, <2>1 DEF ComingShows
  <2>2. CASE peer[d] = "open" /\ \E p \in Clients : d \in Range(request[p].rest)
    BY <1>2, <1>3, <2>2 DEF ComingShows
  <2> QED
    BY <2>1, <2>2
<1>4. CASE handle_client(c)
  <2>1. /\ peer[c] = "free" /\ peer' = [peer EXCEPT ![c] = "open"]
        /\ UNCHANGED <<subscribers, mutex, request, socket>>
    BY <1>4 DEF handle_client
  <2>2. \A n \in Names : c \notin Members[n]
    BY <1>1, <2>1 DEF PInv, FreeIsUnused, Members
  <2>3. Coming(c) = <<>> /\ Coming(c)' = <<>>
    <3>1. ASSUME NEW p \in Clients, c \in Range(request[p].rest)
          PROVE  FALSE
      <4>1. request[p].rest # <<>>
        BY <3>1 DEF Range
      <4> QED
        BY <1>1, <2>1, <3>1, <4>1 DEF PInv, WalksList, FreeIsUnused
    <3> QED
      BY <1>2, <3>1 DEF ComingShows
  <2>4. \A d \in Clients : Coming(d)' = Coming(d)
    BY <1>1, <1>3, <2>1, <2>3
  <2>5. Mailboxes' = Mailboxes /\ Members' = Members
    BY <2>1, <2>4 DEF Mailboxes, Members
  <2>6. c \notin Up /\ Up' = Up \cup {c}
    BY <1>1, <2>1 DEF Up
  <2>7. CH!Arrive(c)
    BY <2>2, <2>5, <2>6 DEF CH!Arrive
  <2> QED
    BY <2>7 DEF CH!Next
<1>5. CASE Read(c)
  <2>1. /\ socket[c] # <<>> /\ socket' = [socket EXCEPT ![c] = Tail(socket[c])]
        /\ UNCHANGED <<subscribers, mutex, peer, request>>
    BY <1>5 DEF Read
  <2>2. /\ Members' = Members /\ Up' = Up
        /\ \A d \in Clients : Coming(d)' = Coming(d)
    BY <1>3, <2>1 DEF Members, Up
  <2>3. socket[c] \in Seq(Messages \cup {None})
    BY <1>1
  <2>4. CASE Head(socket[c]) = None
    <3>1. Kept(Tail(socket[c])) = Kept(socket[c])
      BY <2>1, <2>3, <2>4, KeptTail
    <3>2. Mailboxes' = Mailboxes
      BY <1>1, <2>1, <2>2, <3>1 DEF Mailboxes
    <3> QED
      BY <2>2, <3>2 DEF CH!vars
  <2>5. CASE Head(socket[c]) # None
    <3> DEFINE h == Head(socket[c])
               k == Kept(Tail(socket[c]))
    <3>1. h \in Messages /\ Tail(socket[c]) \in Seq(Messages \cup {None})
      BY <2>1, <2>3, <2>5
    <3>2. Kept(socket[c]) = <<h>> \o k
      BY <2>1, <2>3, <2>5, KeptTail
    <3>3. Len(Tail(socket[c])) \in 0 .. Len(Tail(socket[c]))
      BY <3>1
    <3>4. k \in Seq(Messages)
      BY <3>1, <3>3, KeptType DEF Kept
    <3>5. Coming(c) \in Seq(Messages)
      <4>1. \A p \in Clients : c \in Range(request[p].rest) => request[p].msg \in Messages
        BY <1>1 DEF PInv, WalksList, Range
      <4>2. CASE \A p \in Clients : c \notin Range(request[p].rest)
        <5>1. Coming(c) = <<>>
          BY <1>2, <4>2 DEF ComingShows
        <5> QED
          BY <5>1
      <4>3. ASSUME NEW p \in Clients, c \in Range(request[p].rest)
            PROVE  Coming(c) \in Seq(Messages)
        <5>1. Coming(c) = <<>> \/ Coming(c) = <<request[p].msg>>
          BY <1>2, <4>3 DEF ComingShows
        <5>2. request[p].msg \in Messages
          BY <4>1, <4>3
        <5>3. CASE Coming(c) = <<>>
          BY <5>3
        <5>4. CASE Coming(c) = <<request[p].msg>>
          <6> DEFINE m == request[p].msg
          <6>1. m \in Messages
            BY <5>2
          <6> HIDE DEF m
          <6>2. <<m>> \in Seq(Messages)
            BY <6>1
          <6> QED
            BY <5>4, <6>2 DEF m
        <5> QED
          BY <5>1, <5>3, <5>4
      <4> QED
        BY <4>2, <4>3
    <3> HIDE DEF h, k
    <3>6. (<<h>> \o k) \o Coming(c) = <<h>> \o (k \o Coming(c))
      BY <3>1, <3>4, <3>5, ConcatAssociative
    <3>7. /\ k \o Coming(c) \in Seq(Messages)
          /\ <<h>> \o (k \o Coming(c)) # <<>>
          /\ Tail(<<h>> \o (k \o Coming(c))) = k \o Coming(c)
      BY <3>1, <3>4, <3>5
    <3>8. Mailboxes[c] # <<>> /\ Mailboxes'[c] = Tail(Mailboxes[c])
      BY <1>1, <2>1, <2>2, <3>2, <3>6, <3>7 DEF Mailboxes, k
    <3>9. Mailboxes' = [Mailboxes EXCEPT ![c] = Tail(@)]
      BY <1>1, <2>1, <2>2, <3>8 DEF Mailboxes
    <3>10. CH!Receive(c)
      BY <2>2, <3>8, <3>9 DEF CH!Receive
    <3> QED
      BY <3>10 DEF CH!Next
  <2> QED
    BY <2>4, <2>5
<1>6. CASE Close(c)
  <2>1. /\ peer[c] = "open" /\ peer' = [peer EXCEPT ![c] = "gone"]
        /\ socket' = [socket EXCEPT ![c] = <<>>] /\ subscribers' = subscribers
    BY <1>6 DEF Close
  <2>2. Members' = Members /\ Up' = Up \ {c}
    BY <1>1, <2>1 DEF Members, Up
  <2>3. Coming(c)' = <<>> /\ \A d \in Clients : d # c => Coming(d)' = Coming(d)
    BY <1>1, <1>2, <1>3, <2>1 DEF ComingShows
  <2>4. Kept(<<>>) \o <<>> = <<>>
    BY KeptOfNothing
  <2>5. Mailboxes' = [Mailboxes EXCEPT ![c] = <<>>]
    BY <1>1, <2>1, <2>3, <2>4 DEF Mailboxes
  <2>6. CH!Break(c)
    BY <2>2, <2>5 DEF CH!Break
  <2> QED
    BY <2>6 DEF CH!Next
<1>7. CASE pubsub_remove_client(c)
  <2>1. /\ peer[c] = "gone" /\ peer' = [peer EXCEPT ![c] = "free"] /\ socket' = socket
        /\ subscribers' = [n \in Names |-> Unlinked(subscribers[n], c)]
    BY <1>7 DEF pubsub_remove_client
  <2>2. \A n \in Names : Range(Unlinked(subscribers[n], c)) = Range(subscribers[n]) \ {c}
    BY <1>1, UnlinkedList DEF PInv, OnceEach
  <2>3. Members' = [n \in Names |-> Members[n] \ {c}]
    BY <2>1, <2>2 DEF Members
  <2>4. c \notin Up /\ Up' = Up
    BY <1>1, <2>1 DEF Up
  <2>5. \A d \in Clients : Coming(d)' = Coming(d)
    BY <1>1, <1>3, <2>1
  <2>6. Mailboxes' = Mailboxes
    BY <2>1, <2>5 DEF Mailboxes
  <2>7. CH!Forget(c)
    BY <2>3, <2>4, <2>6 DEF CH!Forget
  <2> QED
    BY <2>7 DEF CH!Next
<1> QED
  BY <1>4, <1>5, <1>6, <1>7

\* Every step of PubSub is one of Channels, or nothing its subscribers see.
LEMMA StepShows == RInv /\ RInv' /\ [Next]_vars => [CH!Next]_(CH!vars)
<1> SUFFICES ASSUME RInv, RInv', [Next]_vars PROVE [CH!Next]_(CH!vars)
  OBVIOUS
<1>1. PInv /\ PInv' /\ request \in [Clients -> Requests] /\ Idle.rest = <<>>
  BY DEF RInv, PInv, TypeOK, Idle
<1>2. CASE UNCHANGED vars
  BY <1>2 DEF vars, CH!vars, Members, Up, Mailboxes, Coming
<1>3. ASSUME NEW c \in Clients, NEW r, r.rest = <<>>, request' = [request EXCEPT ![c] = r],
             request[c] = Idle, UNCHANGED <<subscribers, peer, socket>>
      PROVE  UNCHANGED CH!vars
  <2>1. Mailboxes' = Mailboxes /\ Up' = Up
    BY <1>1, <1>3, QuietStep
  <2> QED
    BY <1>3, <2>1 DEF CH!vars, Members
<1>4. ASSUME NEW c \in Clients, NEW ns,
             subscribe_command(c, ns) \/ unsubscribe_command(c, ns) \/ unsubscribe_all(c)
      PROVE  UNCHANGED CH!vars
  <2>1. PICK o, xs : request' = [request EXCEPT ![c] = [Idle EXCEPT !.op = o, !.names = xs]]
    BY <1>4 DEF subscribe_command, unsubscribe_command, unsubscribe_all, Begin
  <2> DEFINE r == [Idle EXCEPT !.op = o, !.names = xs]
  <2>2. r.rest = <<>> /\ request' = [request EXCEPT ![c] = r]
    BY <2>1 DEF Idle
  <2> HIDE DEF r
  <2>3. request[c] = Idle /\ UNCHANGED <<subscribers, peer, socket>>
    BY <1>4 DEF subscribe_command, unsubscribe_command, unsubscribe_all, Begin
  <2> QED
    BY <1>3, <2>2, <2>3
<1> QED
  BY <1>1, <1>2, <1>4, ConnectionShows, PublishShows, ThreadShows DEF Next

LEMMA InitShows == Init => CH!Init
<1> SUFFICES ASSUME Init PROVE CH!Init
  OBVIOUS
<1>1. ComingShows
  BY InitPInv, WhatIsComing
<1>2. Members = [n \in Names |-> {}] /\ Up = {}
  BY DEF Init, Members, Up, Range
<1>3. ASSUME NEW c \in Clients
      PROVE  Kept(socket[c]) \o Coming(c) = <<>>
  BY <1>1, <1>3, KeptOfNothing DEF Init, ComingShows
<1>4. Mailboxes = [c \in Clients |-> <<>>]
  BY <1>3 DEF Mailboxes
<1> QED
  BY <1>2, <1>4 DEF CH!Init

THEOREM RInvariance == Spec => []RInv
<1> QED
  BY InitRInv, StepRInv, PTL DEF Spec

\* For its subscribers PUBLISH is one step, whatever other threads do while it
\* writes to them one after the other: everybody gets a channel's messages once, in
\* the order everybody else does, and nobody who left gets one.
THEOREM ImplementsChannels == Spec => RefinesChannels
<1> QED
  BY InitShows, StepShows, RInvariance, PTL DEF Spec, RefinesChannels, CH!Spec
=============================================================================
