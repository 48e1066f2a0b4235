------------------------- MODULE ProxyChainProperties -------------------------
(***************************************************************************)
(* What a client gets through a chain of proxies.                          *)
(***************************************************************************)
EXTENDS ProxyChain

\* The path elements of a request name, one by one, the proxies on its way.
\* At[k] is the server after k of them; it stays where no proxy is named.
Element(path, k) == IF k + 2 <= Len(path) THEN path[k + 2] ELSE Blank
Named(n, path, k) == <<Blank, Element(path, k)>>
IsProxy(n, path, k) ==
  /\ Named(n, path, k) \in DOMAIN Route[n]
  /\ Route[n][Named(n, path, k)] # Local

At(r) ==
  LET at[k \in 0..MaxHops] ==
        IF k = 0 THEN r.node
        ELSE IF IsProxy(at[k - 1], r.path, k - 1)
             THEN Route[at[k - 1]][Named(at[k - 1], r.path, k - 1)]
             ELSE at[k - 1]
  IN  at

Remaining(path, k) ==
  <<Blank>> \o (IF k + 2 <= Len(path) THEN SubSeq(path, k + 2, Len(path)) ELSE <<Blank>>)

\* The answers of the server where the proxies named end.
AnswersTo(r) ==
  LET at == At(r)
      last == {k \in 0..MaxHops : ~IsProxy(at[k], r.path, k)}
      Final(k) == at[k]
  IN  IF last = {} THEN {}
      ELSE LET k == CHOOSE k \in last : \A j \in last : k <= j
               n == Final(k)
           IN  IF Named(n, r.path, k) \in DOMAIN Route[n]
               THEN {AnswerOf(n, Remaining(r.path, k))} ELSE {NotFoundOf(n)}

IsPrefixOf(s, t) == Len(s) <= Len(t) /\ s = SubSeq(t, 1, Len(s))

\* What a client reads is always a beginning of the answer of the one server
\* its path leads to, through whatever proxies, stopped servers and resets.
NothingInvented ==
  \A c \in Client :
    got[c] # <<>> => \E a \in AnswersTo(request[c]) : IsPrefixOf(got[c], a)

\* Everything the chain of c will ever give its client has been given.
Done(c) == chain[c] # <<>> /\ Over(chain[c][1]) /\ chain[c][1].out = <<>>

\* An answer ends, for a client and for each proxy, where the connection does:
\* as long as the servers on its way run and none resets the client's own
\* connection, it is whole, or there is none.
WholeOrNothing ==
  \A c \in Client :
    (/\ Done(c) /\ chain[c][1].end = "fin"
     /\ \A i \in DOMAIN chain[c] : chain[c][i].node \in alive) =>
       got[c] = <<>> \/ got[c] \in AnswersTo(request[c])

\* Servers that are upstream of each other send a request on only as long as
\* its last header has colons, and, but for a proxy under "/", no longer than
\* its path has elements.
ChainBounded ==
  \A c \in Client :
    /\ Len(chain[c]) <= request[c].colons + 1
    /\ (\A n \in Node : <<Blank, Blank>> \in DOMAIN Route[n] =>
                          Route[n][<<Blank, Blank>>] = Local) =>
         Len(chain[c]) <= Len(request[c].path)

\* Each session of a chain ends, although each waits for the next, possibly one
\* of its own server: a connection gets a thread or ends the server, it never
\* waits for one.
ChainEnds == \A c \in Client : chain[c] # <<>> ~> Done(c)
=============================================================================
