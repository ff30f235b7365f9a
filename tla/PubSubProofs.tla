----------------------------- MODULE PubSubProofs -----------------------------
(***************************************************************************)
(* For any number of clients, channels and messages: no list and no        *)
(* PUBLISH under way has a client whose memory was freed.                  *)
(***************************************************************************)
EXTENDS PubSub, FiniteSetTheorems, SequenceTheorems, TLAPS

\* A list has a client once: it is checked when one enters, and what unlinks a
\* client from a list only unlinks the first node it finds.
OnceEach == \A n \in Names : IsInjective(subscribers[n])

\* Who publishes or leaves all channels holds the mutex.
HoldsMutex == \A c \in Clients : request[c].op \in {"publish", "unsubscribe_all"} => mutex = c

\* Only PUBLISH walks a list, one that stays what it is: each client on the way is
\* met once, and is in the list of a channel still.
WalksList ==
  \A c \in Clients : request[c].rest # <<>> =>
    /\ request[c].op = "publish"
    /\ request[c].msg \in Messages
    /\ IsInjective(request[c].rest)
    /\ \E n \in Names : Range(request[c].rest) \subseteq Range(subscribers[n])

\* Free memory is nobody's: no thread serves it and no list has it.
FreeIsUnused ==
  \A c \in Clients : peer[c] = "free" =>
    /\ request[c] = Idle
    /\ \A n \in Names : c \notin Range(subscribers[n])

\* The inductive invariant.
PInv ==
  /\ TypeOK
  /\ OnceEach
  /\ HoldsMutex
  /\ WalksList
  /\ FreeIsUnused

-----------------------------------------------------------------------------
(* Lemmas about lists                                                      *)

\* Natural numbers have a least element.
LEMMA LeastExists ==
  ASSUME NEW T, T \subseteq Nat, T # {}
  PROVE  \E n \in T : \A m \in T : n <= m
<1> DEFINE Less == {p \in Nat \X Nat : p[1] < p[2]}
<1>1. IsWellFoundedOn(Less, Nat)
  BY NatLessThanWellFounded DEF OpToRel
<1> HIDE DEF Less
<1>2. PICK n \in T : \A m \in T : ~(<<m, n>> \in Less)
  BY <1>1, WFMin
<1>3. ASSUME NEW m \in T PROVE n <= m
  <2>1. m \in Nat /\ n \in Nat
    OBVIOUS
  <2>2. ~(m < n)
    BY <1>2, <2>1 DEF Less
  <2> QED
    BY <2>1, <2>2
<1> QED
  BY <1>3

\* Lists by the places of their nodes.
LEMMA ByPlace ==
  ASSUME NEW S, NEW l \in Seq(S)
  PROVE  /\ \A d : d \in Range(l) <=> \E i \in 1 .. Len(l) : l[i] = d
         /\ IsInjective(l) <=> \A i, j \in 1 .. Len(l) : l[i] = l[j] => i = j
<1>1. DOMAIN l = 1 .. Len(l)
  OBVIOUS
<1> QED
  BY <1>1 DEF Range, IsInjective

\* A list without its node at place i.
LEMMA WithoutPlace ==
  ASSUME NEW S, NEW l \in Seq(S), NEW i \in 1 .. Len(l)
  PROVE  /\ RemoveAt(l, i) \in Seq(S)
         /\ Len(RemoveAt(l, i)) = Len(l) - 1
         /\ \A j \in 1 .. Len(l) - 1 : RemoveAt(l, i)[j] = IF j < i THEN l[j] ELSE l[j + 1]
<1> DEFINE a == SubSeq(l, 1, i - 1)
           b == SubSeq(l, i + 1, Len(l))
<1>1. Len(l) \in Nat /\ i \in Nat
  OBVIOUS
<1>2. /\ a \in Seq(S) /\ Len(a) = i - 1
      /\ \A j \in 1 .. i - 1 : a[j] = l[j]
  BY <1>1, SubSeqProperties
<1>3. /\ b \in Seq(S) /\ Len(b) = Len(l) - i
      /\ \A j \in 1 .. Len(l) - i : b[j] = l[i + j]
  BY <1>1, SubSeqProperties
<1>4. RemoveAt(l, i) = a \o b
  BY DEF RemoveAt
<1> HIDE DEF a, b
<1>5. /\ a \o b \in Seq(S) /\ Len(a \o b) = Len(l) - 1
      /\ \A j \in 1 .. Len(l) - 1 : (a \o b)[j] = IF j <= i - 1 THEN a[j] ELSE b[j - (i - 1)]
  <2>1. Len(a) + Len(b) = Len(l) - 1
    BY <1>1, <1>2, <1>3
  <2>2. /\ a \o b \in Seq(S) /\ Len(a \o b) = Len(a) + Len(b)
        /\ \A j \in 1 .. Len(a) + Len(b) :
             (a \o b)[j] = IF j <= Len(a) THEN a[j] ELSE b[j - Len(a)]
    BY <1>2, <1>3, ConcatProperties
  <2> QED
    BY <1>2, <2>1, <2>2
<1>6. ASSUME NEW j \in 1 .. Len(l) - 1
      PROVE  (a \o b)[j] = IF j < i THEN l[j] ELSE l[j + 1]
  <2>1. CASE j < i
    BY <1>1, <1>2, <1>5, <2>1
  <2>2. CASE ~(j < i)
    <3>1. j - (i - 1) \in 1 .. Len(l) - i /\ i + (j - (i - 1)) = j + 1
      BY <1>1, <2>2
    <3>2. (a \o b)[j] = b[j - (i - 1)]
      BY <1>1, <1>5, <2>2
    <3> QED
      BY <1>3, <2>2, <3>1, <3>2
  <2> QED
    BY <2>1, <2>2
<1> QED
  BY <1>4, <1>5, <1>6

\* Unlinking a client from a list it is in removes one of its nodes.
LEMMA UnlinkedAt ==
  ASSUME NEW l \in Seq(Clients), NEW c \in Range(l)
  PROVE  \E i \in 1 .. Len(l) : l[i] = c /\ Unlinked(l, c) = RemoveAt(l, i)
<1> DEFINE I == {i \in 1 .. Len(l) : l[i] = c}
           i == Min(I)
<1>1. \E j \in 1 .. Len(l) : l[j] = c
  BY ByPlace
<1>2. I \subseteq Nat /\ I # {}
  BY <1>1
<1>3. \E j \in I : \A m \in I : j <= m
  BY <1>2, LeastExists
<1>4. i \in I
  BY <1>3 DEF Min
<1>5. SelectInSeq(l, LAMBDA v : v = c) = i
  BY <1>2 DEF SelectInSeq
<1>6. Unlinked(l, c) = RemoveAt(l, i)
  BY <1>1, <1>5 DEF Unlinked, RemoveFirst
<1> QED
  BY <1>4, <1>6

\* The other clients stay in the list; c does not, if it was in it once.
LEMMA UnlinkedList ==
  ASSUME NEW l \in Seq(Clients), IsInjective(l), NEW c \in Clients
  PROVE  /\ Unlinked(l, c) \in Seq(Clients)
         /\ IsInjective(Unlinked(l, c))
         /\ Range(Unlinked(l, c)) = Range(l) \ {c}
<1> DEFINE u == Unlinked(l, c)
<1>1. CASE c \notin Range(l)
  <2>1. ~\E i \in 1 .. Len(l) : l[i] = c
    BY <1>1, ByPlace
  <2>2. u = l
    BY <2>1 DEF Unlinked, RemoveFirst
  <2> QED
    BY <1>1, <2>2
<1>2. CASE c \in Range(l)
  <2>1. PICK i \in 1 .. Len(l) : l[i] = c /\ u = RemoveAt(l, i)
    BY <1>2, UnlinkedAt
  <2> HIDE DEF u
  <2>2. Len(l) \in Nat /\ i \in Nat
    OBVIOUS
  <2>3. PICK n \in Nat : n = Len(l) - 1
    BY <2>2
  <2>4. /\ u \in Seq(Clients) /\ Len(u) = n
        /\ \A j \in 1 .. n : u[j] = IF j < i THEN l[j] ELSE l[j + 1]
    BY <2>1, <2>3, WithoutPlace
  <2>5. \A j, k \in 1 .. Len(l) : l[j] = l[k] => j = k
    BY ByPlace
  <2>6. \A j \in 1 .. n : \E k \in 1 .. Len(l) : k # i /\ u[j] = l[k] /\ k = IF j < i THEN j ELSE j + 1
    BY <2>2, <2>3, <2>4
  <2>7. \A j, k \in 1 .. n : u[j] = u[k] => j = k
    BY <2>2, <2>3, <2>5, <2>6
  <2>8. ASSUME NEW k \in 1 .. Len(l), k # i
        PROVE  \E j \in 1 .. n : u[j] = l[k]
    <3>1. CASE k < i
      BY <2>2, <2>3, <2>4, <3>1
    <3>2. CASE i < k
      <4>1. k - 1 \in 1 .. n /\ ~(k - 1 < i) /\ (k - 1) + 1 = k
        BY <2>2, <2>3, <3>2
      <4>2. u[k - 1] = l[k]
        BY <2>4, <4>1
      <4> QED
        BY <4>1, <4>2
    <3> QED
      BY <2>2, <2>8, <3>1, <3>2
  <2>9. IsInjective(u)
    BY <2>4, <2>7, ByPlace
  <2>10. \A d : d \in Range(u) <=> \E j \in 1 .. n : u[j] = d
    BY <2>4, ByPlace, ZenonT(40)
  <2>11. \A d : d \in Range(l) <=> \E j \in 1 .. Len(l) : l[j] = d
    BY ByPlace
  <2>12. ASSUME NEW d PROVE d \in Range(u) => d \in Range(l) /\ d # c
    BY <2>1, <2>5, <2>6, <2>10, <2>11
  <2>13. ASSUME NEW d PROVE d \in Range(l) /\ d # c => d \in Range(u)
    BY <2>1, <2>8, <2>10, <2>11
  <2> QED
    BY <2>4, <2>9, <2>12, <2>13 DEF u
<1> QED
  BY <1>1, <1>2

\* A client that was not in a list enters it at its head.
LEMMA Prepended ==
  ASSUME NEW l \in Seq(Clients), IsInjective(l), NEW c \in Clients, c \notin Range(l)
  PROVE  /\ <<c>> \o l \in Seq(Clients)
         /\ IsInjective(<<c>> \o l)
         /\ Range(<<c>> \o l) = Range(l) \cup {c}
<1> DEFINE u == <<c>> \o l
<1>1. Len(l) \in Nat
  OBVIOUS
<1>2. PICK n \in Nat : n = Len(l) + 1
  BY <1>1
<1>3. u \in Seq(Clients) /\ Len(u) = n
  BY <1>1, <1>2
<1>4. u[1] = c /\ \A j \in 2 .. n : j - 1 \in 1 .. Len(l) /\ u[j] = l[j - 1]
  BY <1>1, <1>2
<1> HIDE DEF u
<1>5. \A j, k \in 1 .. Len(l) : l[j] = l[k] => j = k
  BY ByPlace
<1>6. \A k \in 1 .. Len(l) : l[k] # c
  BY ByPlace
<1>7. ASSUME NEW j \in 1 .. n, NEW k \in 1 .. n, u[j] = u[k]
      PROVE  j = k
  <2>1. CASE j = 1 \/ k = 1
    BY <1>4, <1>6, <1>7, <2>1
  <2>2. CASE j \in 2 .. n /\ k \in 2 .. n
    <3>1. j - 1 = k - 1
      BY <1>4, <1>5, <1>7, <2>2
    <3> QED
      BY <3>1, <2>2
  <2> QED
    BY <2>1, <2>2
<1>8. \A j \in 1 .. n : u[j] = c \/ \E k \in 1 .. Len(l) : u[j] = l[k]
  BY <1>4
<1>9. ASSUME NEW k \in 1 .. Len(l)
      PROVE  \E j \in 1 .. n : u[j] = l[k]
  <2>1. k + 1 \in 2 .. n /\ (k + 1) - 1 = k
    BY <1>1, <1>2
  <2>2. u[k + 1] = l[k]
    BY <1>4, <2>1
  <2> QED
    BY <2>1, <2>2
<1>10. \E j \in 1 .. n : u[j] = c
  BY <1>1, <1>2, <1>4
<1>11. IsInjective(u)
  BY <1>3, <1>7, ByPlace
<1>12. \A d : d \in Range(u) <=> \E j \in 1 .. n : u[j] = d
  BY <1>3, ByPlace
<1>13. \A d : d \in Range(l) <=> \E j \in 1 .. Len(l) : l[j] = d
  BY ByPlace
<1>14. \A d : d \in Range(u) <=> d \in Range(l) \/ d = c
  BY <1>8, <1>9, <1>10, <1>12, <1>13
<1> QED
  BY <1>3, <1>11, <1>14 DEF u

\* The rest of a walk through a list.
LEMMA WalkOn ==
  ASSUME NEW l \in Seq(Clients), l # <<>>, IsInjective(l)
  PROVE  /\ Head(l) \in Range(l)
         /\ Tail(l) \in Seq(Clients)
         /\ IsInjective(Tail(l))
         /\ Range(Tail(l)) = Range(l) \ {Head(l)}
<1> DEFINE u == Tail(l)
<1>1. Len(l) \in Nat \ {0} /\ Head(l) = l[1]
  OBVIOUS
<1>2. PICK n \in Nat : n = Len(l) - 1
  BY <1>1
<1>3. u \in Seq(Clients) /\ Len(u) = n
  BY <1>1, <1>2
<1>4. \A j \in 1 .. n : j + 1 \in 2 .. Len(l) /\ u[j] = l[j + 1]
  BY <1>1, <1>2
<1> HIDE DEF u
<1>5. \A j, k \in 1 .. Len(l) : l[j] = l[k] => j = k
  BY ByPlace
<1>6. \A j, k \in 1 .. n : u[j] = u[k] => j = k
  BY <1>1, <1>2, <1>4, <1>5
<1>7. \A j \in 1 .. n : u[j] # l[1] /\ \E k \in 1 .. Len(l) : u[j] = l[k]
  BY <1>1, <1>2, <1>4, <1>5
<1>8. ASSUME NEW k \in 1 .. Len(l), l[k] # l[1]
      PROVE  \E j \in 1 .. n : u[j] = l[k]
  <2>1. k - 1 \in 1 .. n /\ u[k - 1] = l[k]
    BY <1>1, <1>2, <1>4, <1>8
  <2> QED
    BY <2>1
<1>9. IsInjective(u)
  BY <1>3, <1>6, ByPlace
<1>10. \A d : d \in Range(u) <=> \E j \in 1 .. n : u[j] = d
  BY <1>3, ByPlace
<1>11. \A d : d \in Range(l) <=> \E j \in 1 .. Len(l) : l[j] = d
  BY ByPlace
<1>12. \A d : d \in Range(u) <=> d \in Range(l) /\ d # l[1]
  BY <1>7, <1>8, <1>10, <1>11, ZenonT(60)
<1>13. Head(l) \in Range(l)
  BY <1>1, <1>11
<1> QED
  BY <1>1, <1>3, <1>9, <1>12, <1>13 DEF u

-----------------------------------------------------------------------------
(* The invariant is inductive                                              *)

LEMMA InitPInv == Init => PInv
<1> SUFFICES ASSUME Init PROVE PInv
  OBVIOUS
<1>1. Idle \in Requests
  BY DEF Idle, Requests
<1>2. TypeOK
  BY <1>1 DEF Init, TypeOK
<1>3. ASSUME NEW n \in Names
      PROVE  IsInjective(subscribers[n]) /\ Range(subscribers[n]) = {}
  <2>1. subscribers[n] = <<>> /\ DOMAIN subscribers[n] = {}
    BY DEF Init
  <2> QED
    BY <2>1 DEF Range, IsInjective
<1>4. \A c \in Clients : request[c].op = "none" /\ request[c].rest = <<>>
  BY DEF Init, Idle
<1> QED
  BY <1>2, <1>3, <1>4 DEF Init, PInv, OnceEach, HoldsMutex, WalksList, FreeIsUnused

\* The mutex, by what the threads that do not have it may rely on: a thread in a
\* request changes its own request, and the lists and the mutex only if nobody
\* else holds it; the lists gain no client but its own.
LEMMA RequestStep ==
  ASSUME PInv, NEW c \in Clients, peer[c] # "free", UNCHANGED peer,
         NEW r \in Requests, request' = [request EXCEPT ![c] = r],
         UNCHANGED <<mutex, subscribers>> \/ mutex \in {None, c},
         mutex' \in Clients \cup {None},
         r.op \in {"publish", "unsubscribe_all"} => mutex' = c,
         r.rest # <<>> => /\ r.op = "publish" /\ r.msg \in Messages
                          /\ IsInjective(r.rest)
                          /\ \E n \in Names : Range(r.rest) \subseteq Range(subscribers'[n]),
         subscribers' \in [Names -> Seq(Clients)],
         \A n \in Names : /\ IsInjective(subscribers'[n])
                          /\ Range(subscribers'[n]) \subseteq Range(subscribers[n]) \cup {c},
         socket' \in [Clients -> Seq(Messages \cup {None})]
  PROVE  PInv'
<1>1. /\ request'[c] = r
      /\ \A d \in Clients : d # c => request'[d] = request[d]
      /\ request' \in [Clients -> Requests]
  BY DEF PInv, TypeOK
<1>2. TypeOK'
  BY <1>1 DEF PInv, TypeOK
<1>3. OnceEach'
  BY DEF OnceEach
<1>4. None \notin Clients
  BY PubSubAssumption
<1>5. HoldsMutex'
  BY <1>1, <1>4 DEF PInv, HoldsMutex
<1>6. WalksList'
  <2> SUFFICES ASSUME NEW d \in Clients, request'[d].rest # <<>>
               PROVE  /\ request'[d].op = "publish"
                      /\ request'[d].msg \in Messages
                      /\ IsInjective(request'[d].rest)
                      /\ \E n \in Names : Range(request'[d].rest) \subseteq Range(subscribers'[n])
    BY DEF WalksList
  <2>1. CASE d = c
    BY <1>1, <2>1
  <2>2. CASE d # c
    <3>1. request'[d] = request[d]
      BY <1>1, <2>2
    <3>2. request[d].op = "publish" /\ mutex = d
      BY <3>1 DEF PInv, WalksList, HoldsMutex
    <3>3. subscribers' = subscribers
      BY <1>4, <2>2, <3>2
    <3> QED
      BY <3>1, <3>3 DEF PInv, WalksList
  <2> QED
    BY <2>1, <2>2
<1>7. FreeIsUnused'
  BY <1>1 DEF PInv, FreeIsUnused
<1> QED
  BY <1>2, <1>3, <1>5, <1>6, <1>7 DEF PInv

\* What a thread does without a new request: every action of Step(c).
LEMMA StepOfThread ==
  ASSUME PInv, NEW c \in Clients, Step(c)
  PROVE  PInv'
<1> USE PubSubAssumption
<1>1. /\ subscribers \in [Names -> Seq(Clients)]
      /\ mutex \in Clients \cup {None}
      /\ peer \in [Clients -> {"free", "open", "gone"}]
      /\ request \in [Clients -> Requests]
      /\ socket \in [Clients -> Seq(Messages \cup {None})]
      /\ \A n \in Names : IsInjective(subscribers[n])
  BY DEF PInv, TypeOK, OnceEach
<1>2. /\ request[c] \in Requests
      /\ request[c].op \in {"none", "reply", "subscribe", "unsubscribe", "unsubscribe_all", "publish"}
      /\ request[c].names \in SUBSET Names /\ request[c].owed \in BOOLEAN
      /\ request[c].msg \in Messages \cup {None} /\ request[c].rest \in Seq(Clients)
      /\ request[c].count \in Nat
  BY <1>1 DEF Requests
<1>3. request[c] # Idle => peer[c] # "free"
  BY DEF PInv, FreeIsUnused
<1>4. /\ request[c].op # "publish" => request[c].rest = <<>>
      /\ request[c].op \in {"publish", "unsubscribe_all"} => mutex = c
  BY DEF PInv, WalksList, HoldsMutex
<1>5. Idle \in Requests /\ Idle.op = "none" /\ Idle.owed = FALSE /\ Idle.rest = <<>>
  BY DEF Idle, Requests
\* A client leaves a list.
<1>6. ASSUME NEW n \in Names, subscribers' = [subscribers EXCEPT ![n] = Unlinked(@, c)]
      PROVE  /\ subscribers' \in [Names -> Seq(Clients)]
             /\ \A k \in Names : /\ IsInjective(subscribers'[k])
                                 /\ Range(subscribers'[k]) \subseteq Range(subscribers[k]) \cup {c}
  <2>1. /\ Unlinked(subscribers[n], c) \in Seq(Clients)
        /\ IsInjective(Unlinked(subscribers[n], c))
        /\ Range(Unlinked(subscribers[n], c)) = Range(subscribers[n]) \ {c}
    BY <1>1, UnlinkedList
  <2> QED
    BY <1>1, <1>6, <2>1
<1>7. ASSUME reply(c)
      PROVE  PInv'
  <2> DEFINE r == [request[c] EXCEPT !.owed = FALSE]
  <2>1. /\ r \in Requests /\ r.op = request[c].op /\ r.msg = request[c].msg
        /\ r.rest = request[c].rest
    BY <1>2 DEF Requests
  <2>2. request' = [request EXCEPT ![c] = r]
    BY <1>7 DEF reply
  <2> HIDE DEF r
  <2>3. peer[c] # "free" /\ UNCHANGED <<subscribers, mutex, peer>>
    BY <1>3, <1>5, <1>7 DEF reply
  <2>4. socket' \in [Clients -> Seq(Messages \cup {None})]
    BY <1>1, <1>7 DEF reply, Written
  <2>5. r.rest # <<>> => /\ r.op = "publish" /\ r.msg \in Messages /\ IsInjective(r.rest)
                         /\ \E n \in Names : Range(r.rest) \subseteq Range(subscribers'[n])
    BY <2>1, <2>3 DEF PInv, WalksList
  <2> QED
    BY <1>1, <1>4, <2>1, <2>2, <2>3, <2>4, <2>5, RequestStep
<1>8. ASSUME return(c)
      PROVE  PInv'
  <2>1. peer[c] # "free" /\ UNCHANGED <<subscribers, mutex, peer, socket>>
    BY <1>3, <1>5, <1>8 DEF return
  <2>2. request' = [request EXCEPT ![c] = Idle]
    BY <1>8 DEF return
  <2> QED
    BY <1>1, <1>5, <2>1, <2>2, RequestStep
<1>9. ASSUME deliver(c)
      PROVE  PInv'
  <2> DEFINE k == request[c].count + 1
             t == Tail(request[c].rest)
             r == [request[c] EXCEPT !.rest = t, !.count = k]
             d == Head(request[c].rest)
  <2>1. /\ request[c].rest # <<>> /\ request[c].op = "publish"
        /\ UNCHANGED <<subscribers, mutex, peer>>
        /\ request' = [request EXCEPT ![c] = r]
        /\ socket' = [socket EXCEPT ![d] = Written(d, request[c].msg)]
    BY <1>9 DEF deliver, Doing
  <2>2. /\ IsInjective(request[c].rest) /\ request[c].msg \in Messages
        /\ \E n \in Names : Range(request[c].rest) \subseteq Range(subscribers[n])
    BY <2>1 DEF PInv, WalksList
  <2>3. /\ d \in Range(request[c].rest) /\ t \in Seq(Clients) /\ IsInjective(t)
        /\ Range(t) = Range(request[c].rest) \ {d}
    BY <1>2, <2>1, <2>2, WalkOn
  <2>5. d \in Clients /\ k \in Nat
    BY <1>2, <2>1
  <2> HIDE DEF d, k, t
  <2>4. r \in Requests /\ r.op = "publish" /\ r.msg = request[c].msg /\ r.rest = t
    BY <1>2, <2>1, <2>3, <2>5 DEF Requests
  <2> HIDE DEF r
  <2>6. socket' \in [Clients -> Seq(Messages \cup {None})]
    BY <1>1, <1>2, <2>1, <2>5 DEF Written
  <2>7. peer[c] # "free"
    BY <1>3, <1>5, <2>1
  <2> QED
    BY <1>1, <1>4, <2>1, <2>2, <2>3, <2>4, <2>6, <2>7, RequestStep
<1>10. ASSUME publish_done(c) \/ unsubscribe_all_done(c)
       PROVE  PInv'
  <2>1. PICK o \in BOOLEAN :
          request' = [request EXCEPT ![c] = [Idle EXCEPT !.op = "reply", !.owed = o]]
    BY <1>10 DEF publish_done, unsubscribe_all_done
  <2> DEFINE r == [Idle EXCEPT !.op = "reply", !.owed = o]
  <2>2. r \in Requests /\ r.op = "reply" /\ r.rest = <<>>
    BY <1>5, <2>1 DEF Requests
  <2>3. request' = [request EXCEPT ![c] = r]
    BY <2>1
  <2> HIDE DEF r
  <2>4. /\ request[c].op \in {"publish", "unsubscribe_all"} /\ mutex' = None
        /\ UNCHANGED <<subscribers, peer, socket>>
    BY <1>10 DEF publish_done, unsubscribe_all_done, Doing
  <2> QED
    BY <1>1, <1>3, <1>4, <1>5, <2>2, <2>3, <2>4, RequestStep
<1>11. ASSUME NEW n \in Names, subscribe_to_channel(c, n)
       PROVE  PInv'
  <2> DEFINE r == [request[c] EXCEPT !.names = @ \ {n}, !.owed = TRUE]
  <2>1. /\ r \in Requests /\ r.op = "subscribe" /\ r.rest = <<>>
    BY <1>2, <1>4, <1>11 DEF Requests, subscribe_to_channel, Doing
  <2>2. request' = [request EXCEPT ![c] = r]
    BY <1>11 DEF subscribe_to_channel, After
  <2> HIDE DEF r
  <2>3. peer[c] # "free" /\ mutex = None /\ UNCHANGED <<mutex, peer, socket>>
    BY <1>3, <1>5, <1>11 DEF subscribe_to_channel, Doing
  <2>4. /\ subscribers' \in [Names -> Seq(Clients)]
        /\ \A k \in Names : /\ IsInjective(subscribers'[k])
                            /\ Range(subscribers'[k]) \subseteq Range(subscribers[k]) \cup {c}
    <3>1. CASE UNCHANGED subscribers
      BY <1>1, <3>1
    <3>2. CASE ~IsIn(c, n) /\ subscribers' = [subscribers EXCEPT ![n] = <<c>> \o @]
      <4>1. c \notin Range(subscribers[n])
        BY <1>1, <3>2, ByPlace DEF IsIn
      <4>2. /\ <<c>> \o subscribers[n] \in Seq(Clients)
            /\ IsInjective(<<c>> \o subscribers[n])
            /\ Range(<<c>> \o subscribers[n]) = Range(subscribers[n]) \cup {c}
        BY <1>1, <4>1, Prepended
      <4> QED
        BY <1>1, <3>2, <4>2
    <3> QED
      BY <1>11, <3>1, <3>2 DEF subscribe_to_channel
  <2> QED
    BY <1>1, <2>1, <2>2, <2>3, <2>4, RequestStep
<1>12. ASSUME NEW n \in Names, unsubscribe_from_channel(c, n)
       PROVE  PInv'
  <2> DEFINE r == [request[c] EXCEPT !.names = @ \ {n}, !.owed = IsIn(c, n)]
  <2>1. IsIn(c, n) \in BOOLEAN
    BY DEF IsIn
  <2>2. /\ r \in Requests /\ r.op = "unsubscribe" /\ r.rest = <<>>
    BY <1>2, <1>4, <1>12, <2>1 DEF Requests, unsubscribe_from_channel, Doing
  <2>3. request' = [request EXCEPT ![c] = r]
    BY <1>12 DEF unsubscribe_from_channel, After
  <2> HIDE DEF r
  <2>4. /\ peer[c] # "free" /\ mutex = None /\ UNCHANGED <<mutex, peer, socket>>
        /\ subscribers' = [subscribers EXCEPT ![n] = Unlinked(@, c)]
    BY <1>3, <1>5, <1>12 DEF unsubscribe_from_channel, Doing
  <2> QED
    BY <1>1, <1>6, <2>2, <2>3, <2>4, RequestStep
<1>13. ASSUME NEW n \in Names, unsubscribe_next(c, n)
       PROVE  PInv'
  <2> DEFINE k == request[c].count + 1
             r == [request[c] EXCEPT !.names = @ \ {n}, !.count = k]
  <2>2. request' = [request EXCEPT ![c] = r]
    BY <1>13 DEF unsubscribe_next
  <2>5. k \in Nat
    BY <1>2
  <2> HIDE DEF k
  <2>1. /\ r \in Requests /\ r.op = "unsubscribe_all" /\ r.rest = <<>>
    BY <1>2, <1>4, <1>13, <2>5 DEF Requests, unsubscribe_next, Doing
  <2> HIDE DEF r
  <2>3. /\ peer[c] # "free" /\ mutex = c /\ UNCHANGED <<mutex, peer>>
        /\ subscribers' = [subscribers EXCEPT ![n] = Unlinked(@, c)]
    BY <1>3, <1>4, <1>5, <1>13 DEF unsubscribe_next, Doing
  <2>4. socket' \in [Clients -> Seq(Messages \cup {None})]
    BY <1>1, <1>13 DEF unsubscribe_next, Written
  <2> QED
    BY <1>1, <1>6, <2>1, <2>2, <2>3, <2>4, RequestStep
<1> QED
  BY <1>7, <1>8, <1>9, <1>10, <1>11, <1>12, <1>13 DEF Step

\* Every step keeps the invariant.
LEMMA StepPInv == PInv /\ [Next]_vars => PInv'
<1> SUFFICES ASSUME PInv, [Next]_vars PROVE PInv'
  OBVIOUS
<1> USE PubSubAssumption
<1>1. /\ subscribers \in [Names -> Seq(Clients)]
      /\ mutex \in Clients \cup {None}
      /\ peer \in [Clients -> {"free", "open", "gone"}]
      /\ request \in [Clients -> Requests]
      /\ socket \in [Clients -> Seq(Messages \cup {None})]
  BY DEF PInv, TypeOK
<1>2. CASE UNCHANGED vars
  BY <1>2 DEF vars, PInv, TypeOK, OnceEach, HoldsMutex, WalksList, FreeIsUnused
<1>3. ASSUME NEW c \in Clients, handle_client(c)
      PROVE  PInv'
  <2>1. /\ peer' \in [Clients -> {"free", "open", "gone"}]
        /\ \A d \in Clients : peer'[d] = "free" => peer[d] = "free"
    BY <1>1, <1>3 DEF handle_client
  <2> QED
    BY <1>3, <2>1 DEF handle_client, PInv, TypeOK, OnceEach, HoldsMutex, WalksList, FreeIsUnused
<1>4. ASSUME NEW c \in Clients, Read(c)
      PROVE  PInv'
  <2>1. Tail(socket[c]) \in Seq(Messages \cup {None})
    BY <1>1, <1>4 DEF Read
  <2>2. socket' \in [Clients -> Seq(Messages \cup {None})]
    BY <1>1, <1>4, <2>1 DEF Read
  <2> QED
    BY <1>4, <2>2 DEF Read, PInv, TypeOK, OnceEach, HoldsMutex, WalksList, FreeIsUnused
<1>5. ASSUME NEW c \in Clients, Close(c)
      PROVE  PInv'
  <2>1. /\ peer' \in [Clients -> {"free", "open", "gone"}]
        /\ \A d \in Clients : peer'[d] = "free" => peer[d] = "free"
        /\ socket' \in [Clients -> Seq(Messages \cup {None})]
    BY <1>1, <1>5, SMTT(40) DEF Close
  <2> QED
    BY <1>5, <2>1 DEF Close, PInv, TypeOK, OnceEach, HoldsMutex, WalksList, FreeIsUnused
<1>6. ASSUME NEW c \in Clients, pubsub_remove_client(c)
      PROVE  PInv'
  <2>1. ASSUME NEW n \in Names
        PROVE  /\ subscribers'[n] \in Seq(Clients)
               /\ IsInjective(subscribers'[n])
               /\ Range(subscribers'[n]) = Range(subscribers[n]) \ {c}
    <3>1. subscribers[n] \in Seq(Clients) /\ IsInjective(subscribers[n])
      BY <1>1 DEF PInv, OnceEach
    <3> QED
      BY <1>6, <3>1, UnlinkedList DEF pubsub_remove_client
  <2>2. TypeOK'
    BY <1>1, <1>6, <2>1 DEF pubsub_remove_client, TypeOK
  <2>3. WalksList'
    \* Nobody publishes, for nobody holds the mutex.
    BY <1>6 DEF pubsub_remove_client, PInv, WalksList, HoldsMutex
  <2>4. FreeIsUnused'
    <3> SUFFICES ASSUME NEW d \in Clients, peer'[d] = "free"
                 PROVE  request'[d] = Idle /\ \A n \in Names : d \notin Range(subscribers'[n])
      BY DEF FreeIsUnused
    <3> QED
      BY <1>1, <1>6, <2>1 DEF pubsub_remove_client, PInv, FreeIsUnused
  <2> QED
    BY <1>6, <2>1, <2>2, <2>3, <2>4 DEF pubsub_remove_client, PInv, OnceEach, HoldsMutex
<1>7. /\ \A n \in Names : IsInjective(subscribers[n])
      /\ \A c \in Clients : request[c] \in Requests
  BY <1>1 DEF PInv, OnceEach
<1>7a. Idle \in Requests /\ Idle.rest = <<>>
  BY DEF Idle, Requests
<1>8. ASSUME NEW c \in Clients, NEW ns \in SUBSET Names,
             subscribe_command(c, ns) \/ unsubscribe_command(c, ns)
      PROVE  PInv'
  <2>1. PICK o \in {"subscribe", "unsubscribe"} :
          request' = [request EXCEPT ![c] = [Idle EXCEPT !.op = o, !.names = ns]]
    BY <1>8 DEF subscribe_command, unsubscribe_command, Begin
  <2> DEFINE r == [Idle EXCEPT !.op = o, !.names = ns]
  <2>2. r \in Requests /\ r.op = o /\ r.rest = <<>>
    BY <1>7a, <2>1 DEF Requests
  <2> HIDE DEF r
  <2>3. /\ peer[c] # "free" /\ UNCHANGED <<subscribers, mutex, peer, socket>>
        /\ request' = [request EXCEPT ![c] = r]
    BY <1>8, <2>1 DEF subscribe_command, unsubscribe_command, Begin, r
  <2> QED
    BY <1>1, <1>7, <2>2, <2>3, RequestStep
<1>9. ASSUME NEW c \in Clients, unsubscribe_all(c)
      PROVE  PInv'
  <2> DEFINE ns == {n \in Names : IsIn(c, n)}
             r == [Idle EXCEPT !.op = "unsubscribe_all", !.names = ns]
  <2>1. request' = [request EXCEPT ![c] = r]
    BY <1>9 DEF unsubscribe_all, Begin
  <2>2. ns \in SUBSET Names
    OBVIOUS
  <2> HIDE DEF ns
  <2>3. r \in Requests /\ r.op = "unsubscribe_all" /\ r.rest = <<>>
    BY <1>7a, <2>2 DEF Requests
  <2> HIDE DEF r
  <2>4. /\ peer[c] # "free" /\ mutex = None /\ mutex' = c
        /\ UNCHANGED <<subscribers, peer, socket>>
    BY <1>9 DEF unsubscribe_all, Begin
  <2> QED
    BY <1>1, <1>7, <2>1, <2>3, <2>4, RequestStep
<1>10. ASSUME NEW c \in Clients, NEW n \in Names, NEW m \in Messages, publish_command(c, n, m)
      PROVE  PInv'
  <2> DEFINE r == [Idle EXCEPT !.op = "publish", !.msg = m, !.rest = subscribers[n]]
  <2>1. /\ r \in Requests /\ r.op = "publish" /\ r.msg = m /\ r.rest = subscribers[n]
    BY <1>1, <1>7a DEF Requests
  <2>2. request' = [request EXCEPT ![c] = r]
    BY <1>10 DEF publish_command, Begin
  <2> HIDE DEF r
  <2>3. /\ peer[c] # "free" /\ mutex = None /\ mutex' = c
        /\ UNCHANGED <<subscribers, peer, socket>>
    BY <1>10 DEF publish_command, Begin
  <2> QED
    BY <1>1, <1>7, <2>1, <2>2, <2>3, RequestStep
<1>11. ASSUME NEW c \in Clients, Step(c)
       PROVE  PInv'
  BY <1>11, StepOfThread
<1> QED
  BY <1>2, <1>3, <1>4, <1>5, <1>6, <1>8, <1>9, <1>10, <1>11 DEF Next

-----------------------------------------------------------------------------
(* The theorems                                                            *)

\* The inductive invariant holds always.
THEOREM PInvariance == Spec => []PInv
<1> QED
  BY InitPInv, StepPInv, PTL DEF Spec

\* The types are what TypeOK says.
THEOREM TypeCorrect == Spec => []TypeOK
<1>1. PInv => TypeOK
  BY DEF PInv
<1> QED
  BY <1>1, PInvariance, PTL

\* No subscriber list, and no PUBLISH under way, has a client that
\* pubsub_remove_client left and handle_client freed.
THEOREM NobodyDangles == Spec => []NoDanglingSubscriber
<1>1. PInv => NoDanglingSubscriber
  <2> SUFFICES ASSUME PInv, NEW c \in Clients, peer[c] = "free"
               PROVE  /\ \A n \in Names : ~IsIn(c, n)
                      /\ \A d \in Clients : c \notin Range(request[d].rest)
    BY DEF NoDanglingSubscriber
  <2>1. \A n \in Names : subscribers[n] \in Seq(Clients) /\ c \notin Range(subscribers[n])
    BY DEF PInv, TypeOK, FreeIsUnused
  <2>2. \A n \in Names : ~IsIn(c, n)
    BY <2>1, ByPlace DEF IsIn
  <2>3. ASSUME NEW d \in Clients, c \in Range(request[d].rest)
        PROVE  FALSE
    <3>1. request[d].rest # <<>>
      BY <2>3 DEF Range
    <3> QED
      BY <2>1, <2>3, <3>1 DEF PInv, WalksList
  <2> QED
    BY <2>2, <2>3
<1> QED
  BY <1>1, PInvariance, PTL
=============================================================================
