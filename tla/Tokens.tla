------------------------------- MODULE Tokens -------------------------------
(***************************************************************************)
(* The way of a SET from a client to the replicas, as text: what one read  *)
(* returned is taken for one command (tokenize_command) and then fed as it *)
(* was (replication_feed_slaves); a replica cuts what it receives into     *)
(* lines and takes each for a command (replication_thread); a replica that *)
(* connects later gets the value in a new SET (sync_replica).  The request *)
(* is "SET k " and any text; what was there before the text is a prefix,   *)
(* whose two tokens are taken as found.  Memory for tokens does not fail.  *)
(***************************************************************************)
EXTENDS Integers, Sequences, FiniteSets, FiniteSetsExt, SequencesExt

CONSTANTS
  MaxLength  \* bound of the model on the text of a request

\* One character of each kind the code tells apart; space stands for tab too.
Chars == {"letter", "space", "quote", "backslash", "cr", "lf"}

ASSUME TokensAssumption == MaxLength \in Nat

VARIABLES
  input,   \* the text of the request, as it was read
  stage,   \* who scans: the primary the "request", a replica the "feed" or the
           \* "sync"; or nobody, "done"
  lines,   \* the lines the replica has not come to
  text,    \* what is being scanned: *input of tokenize_command
  p,       \* the next character of it
  state,   \* of the scanner: 0 between tokens, 1 in one, 2 in quotes
  start,   \* where the token starts
  argv,    \* the tokens so far
  ran,     \* the command the primary executed
  fed,     \* the commands a replica executed for it
  synced   \* the commands a replica that connects later executes

vars == <<input, stage, lines, text, p, state, start, argv, ran, fed, synced>>

-----------------------------------------------------------------------------
(* Text                                                                    *)

CRLF == <<"cr", "lf">>
Prefix == <<<<"SET">>, <<"k">>>>

BugIsSpace(c) == c = "space"
IsSpace(c) == c \in {"space", "cr", "lf"}

Has(s, c) == \E i \in 1 .. Len(s) : s[i] = c

EndsLine(s) == Len(s) >= 2 /\ SubSeq(s, Len(s) - 1, Len(s)) = CRLF

\* tokenize_command removes the end of a line, once.
Stripped(s) ==
  IF EndsLine(s) THEN SubSeq(s, 1, Len(s) - 2)
  ELSE IF Len(s) > 0 /\ s[Len(s)] = "lf" THEN SubSeq(s, 1, Len(s) - 1)
  ELSE s

BugTerminated(s) == IF EndsLine(s) THEN s ELSE SubSeq(s, 1, Len(s) - 1) \o CRLF
\* The feed adds the end of a line where there is none.
Terminated(s) == IF EndsLine(s) THEN s ELSE s \o CRLF

\* Where s is cut by strstr: after each of its line ends.
Ends(s) == {i \in 1 .. Len(s) - 1 : s[i] = "cr" /\ s[i + 1] = "lf"}

\* The n-th member of a set of numbers, the least one first.
Nth(S, n) == CHOOSE i \in S : Cardinality({j \in S : j <= i}) = n

\* The lines of s, without their ends; what follows the last end waits for more.
Lines(s) ==
  [n \in 1 .. Cardinality(Ends(s)) |->
     LET to == Nth(Ends(s), n)
         before == {j \in Ends(s) : j < to}
     IN  SubSeq(s, IF before = {} THEN 1 ELSE Max(before) + 2, to - 1)]

BugQuoted(v) == v
\* sync_replica puts a value into quotes if it sees a reason to.
Quoted(v) == IF Has(v, "space") \/ Has(v, "quote") THEN <<"quote">> \o v \o <<"quote">> ELSE v

-----------------------------------------------------------------------------
(* The scanner                                                             *)

\* Scan s; the first line of a stream has the prefix.
Scan(s, prefixed) ==
  /\ text' = Stripped(s)
  /\ p' = 1
  /\ state' = 0
  /\ start' = 1
  /\ argv' = IF prefixed THEN Prefix ELSE <<>>

c == text[p]
Token == SubSeq(text, start, p - 1)
More == stage # "done" /\ p <= Len(text)

Advance ==
  /\ p' = p + 1
  /\ UNCHANGED <<input, stage, lines, text, ran, fed, synced>>

BugFirst == IF c = "quote" THEN p + 2 ELSE p
\* A token starts here, or behind the quote.
First == IF c = "quote" THEN p + 1 ELSE p

skip_spaces ==
  /\ More /\ state = 0
  /\ state' = IF IsSpace(c) THEN 0 ELSE IF c = "quote" THEN 2 ELSE 1
  /\ start' = IF IsSpace(c) THEN start ELSE First
  /\ UNCHANGED argv
  /\ Advance

in_token ==
  /\ More /\ state = 1
  /\ state' = IF IsSpace(c) THEN 0 ELSE 1
  /\ argv' = IF IsSpace(c) THEN Append(argv, Token) ELSE argv
  /\ UNCHANGED start
  /\ Advance

BugClosesQuote == c = "quote"
ClosesQuote == c = "quote" /\ text[p - 1] # "backslash"

in_quoted_token ==
  /\ More /\ state = 2
  /\ state' = IF ClosesQuote THEN 0 ELSE 2
  /\ argv' = IF ClosesQuote THEN Append(argv, Token) ELSE argv
  /\ UNCHANGED start
  /\ Advance

\* The text is at its end; quotes that are still open are forgotten.
Found == IF state = 1 THEN Append(argv, Token) ELSE argv
AtEnd(s) == stage = s /\ p > Len(text)

-----------------------------------------------------------------------------
(* Commands                                                                *)

Init ==
  /\ input \in UNION {[1 .. n -> Chars] : n \in 0 .. MaxLength}
  /\ stage = "request"
  /\ lines = <<>>
  /\ text = Stripped(input)
  /\ p = 1
  /\ state = 0
  /\ start = 1
  /\ argv = Prefix
  /\ ran = <<>>
  /\ fed = <<>>
  /\ synced = <<>>

\* A replica starts with the first line of s, which a stream always has.
Receives(s) ==
  /\ lines' = Tail(Lines(s))
  /\ Scan(Head(Lines(s)), TRUE)

\* The primary executes the request and feeds it; with too few arguments it does not.
execute_command ==
  /\ AtEnd("request")
  /\ ran' = Found
  /\ IF Len(Found) >= 3
     THEN stage' = "feed" /\ Receives(Terminated(input))
     ELSE stage' = "done" /\ UNCHANGED <<lines, text, p, state, start, argv>>
  /\ UNCHANGED <<input, fed, synced>>

\* A replica goes on to its next line, or is done with what it received.
NextLine(next) ==
  IF lines # <<>>
  THEN /\ Scan(Head(lines), FALSE)
       /\ lines' = Tail(lines)
       /\ UNCHANGED stage
  ELSE next

\* The replica executes a line, if there is anything in it.
execute_fed ==
  /\ AtEnd("feed")
  /\ fed' = IF Found = <<>> THEN fed ELSE Append(fed, Found)
  /\ NextLine(stage' = "sync" /\ Receives(Quoted(ran[3]) \o CRLF))
  /\ UNCHANGED <<input, ran, synced>>

execute_synced ==
  /\ AtEnd("sync")
  /\ synced' = IF Found = <<>> THEN synced ELSE Append(synced, Found)
  /\ NextLine(stage' = "done" /\ UNCHANGED <<lines, text, p, state, start, argv>>)
  /\ UNCHANGED <<input, ran, fed>>

Next ==
  \/ skip_spaces \/ in_token \/ in_quoted_token
  \/ execute_command \/ execute_fed \/ execute_synced

Spec == Init /\ [][Next]_vars

-----------------------------------------------------------------------------
(* What it promises                                                        *)

\* The scanner never points outside the text, nor behind the token it is in:
\* what strdup copies is a part of the text.
TypeOK ==
  /\ stage \in {"request", "feed", "sync", "done"}
  /\ \A s \in {input, text} \cup Range(lines) : Range(s) \subseteq Chars /\ Len(s) <= MaxLength + 4
  /\ p \in 1 .. Len(text) + 1
  /\ start \in 1 .. Len(text) + 1
  /\ state \in 0 .. 2
  /\ state # 0 => start <= p
  /\ \A argvs \in {argv, ran} \cup Range(fed) \cup Range(synced) : \A t \in Range(argvs) :
       Range(t) \subseteq Chars \cup {"SET", "k"}

\* The words of s: its longest stretches without a space, in order.
Inside(s, i) == i \in 1 .. Len(s) /\ ~IsSpace(s[i])
WordStarts(s) == {i \in 1 .. Len(s) : Inside(s, i) /\ ~Inside(s, i - 1)}
WordFrom(s, i) == SubSeq(s, i, Min({j \in i .. Len(s) : ~Inside(s, j + 1)}))
Words(s) == [n \in 1 .. Cardinality(WordStarts(s)) |-> WordFrom(s, Nth(WordStarts(s), n))]

\* A request without quotes is its words, whatever stands between, before and
\* after them, an end of line too: none is lost, split, empty or joined.
WordsSplit == ran # <<>> /\ ~Has(input, "quote") => ran = Prefix \o Words(input)

\* Inside quotes v can be read again: each quote in it has a backslash before
\* it, and no backslash stands before the closing one.
Quotable(v) ==
  /\ \A i \in 1 .. Len(v) : v[i] = "quote" => i > 1 /\ v[i - 1] = "backslash"
  /\ v # <<>> => v[Len(v)] # "backslash"

\* A quoted value reaches the handler as it is, with all its spaces, ends of
\* lines and backslashes.
QuotedKept ==
  \A n \in 2 .. Len(input) :
    LET v == SubSeq(input, 2, n - 1)
    IN  /\ ran # <<>>
        /\ input[1] = "quote" /\ input[n] = "quote" /\ Quotable(v)
        => ran[3] = v

\* A replica executes just the command the primary did if no end of a line is
\* inside the request; whether one is at its end, or a lone line feed, is all the same.
FeedSame ==
  /\ stage \in {"sync", "done"} /\ Len(ran) >= 3
  /\ Ends(input) \subseteq {Len(input) - 1}
  => fed = <<ran>>

\* The values sync_replica can transfer; the others reach a replica that
\* connects later cut, or as another command, or not at all.
Transferable(v) ==
  /\ v # <<>> /\ Ends(v) = {}
  /\ IF Has(v, "space") \/ Has(v, "quote") THEN Quotable(v) ELSE ~Has(v, "cr") /\ ~Has(v, "lf")

\* A replica that connects later gets the value the primary has, when it can be
\* transferred at all, and only then.
SyncSame ==
  stage = "done" /\ Len(ran) >= 3
  => (synced = <<SubSeq(ran, 1, 3)>> <=> Transferable(ran[3]))
=============================================================================
