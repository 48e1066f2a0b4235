------------------------------ MODULE ProxyChain ------------------------------
(***************************************************************************)
(* Several servers whose ProxyHandlers have one another, or themselves, as *)
(* upstream. The request of a client runs through a chain of sessions,     *)
(* each blocked in the read loop of ProxyHandler::HandleRequest until the  *)
(* next one closes. Inside, a session is that of Server; here its steps    *)
(* are the ones its neighbours see.                                        *)
(***************************************************************************)
EXTENDS RequestHandler, FiniteSets

CONSTANTS
  Node,        \* servers
  Client,      \* clients, each with one request
  Request,     \* what they may ask: [node, path, colons]
  Route,       \* Route[n]: the handler map of server n, to an upstream or Local
  Local,       \* any handler but a proxy
  MaxThreads,  \* session threads each system grants
  Buffer       \* parts of an answer that a socket holds unread

ASSUME RouteAssumption ==
  /\ Local \notin Node
  /\ \A n \in Node : \A k \in DOMAIN Route[n] :
       StartsWithSlash(k) /\ Route[n][k] \in Node \cup {Local}
ASSUME RequestAssumption ==
  /\ IsFiniteSet(Client) /\ IsFiniteSet(Request) /\ Request # {}
  /\ Request \subseteq [node : Node, path : {p \in Path : StartsWithSlash(p)}, colons : Nat]
ASSUME LimitAssumption == {MaxThreads, Buffer} \subseteq Nat \ {0}

VARIABLES
  alive,    \* servers whose process runs
  request,  \* what each client asks
  chain,    \* the sessions of each client's request, each the upstream of the last
  got       \* what each client has read

vars == <<alive, request, chain, got>>

Over(s) == s.pc = "ended"

\* A session: its server, its request (path, and the colons left in its last
\* header), its control, what it has still to write; and its socket: what it
\* wrote that was not read yet, and how it was closed.
NewSession(n, path, colons) ==
  [node |-> n, path |-> path, colons |-> colons, pc |-> "backlog",
   response |-> <<>>, out |-> <<>>, end |-> "open"]

Init ==
  /\ alive = Node
  /\ request \in [Client -> Request]
  /\ chain = [c \in Client |-> <<>>]
  /\ got = [c \in Client |-> <<>>]

-----------------------------------------------------------------------------
(* What a session does. *)

Become(c, s) == chain' = [chain EXCEPT ![c] = s]
Update(c, i, s) == Become(c, [chain[c] EXCEPT ![i] = s])
Goto(c, i, label) == Update(c, i, [chain[c][i] EXCEPT !.pc = label])

\* The end of a session closes its socket; a reset, which loses what was not
\* read, follows when the session had not read all it was sent.
Closed(s, how) ==
  [s EXCEPT !.pc = "ended", !.response = <<>>, !.end = how,
            !.out = IF how = "rst" THEN <<>> ELSE @]
EndSession(c, i) ==
  \E how \in {"fin", "rst"} : Update(c, i, Closed(chain[c][i], how))

\* The process ends; the kernel closes its sockets and resets its backlog.
Die(n) ==
  /\ alive' = alive \ {n}
  /\ \E how \in {"fin", "rst"} :
       chain' = [c \in Client |-> [i \in DOMAIN chain[c] |->
         LET s == chain[c][i]
         IN  IF s.node # n \/ Over(s) THEN s
             ELSE Closed(s, IF s.pc = "backlog" THEN "rst" ELSE how)]]

Threads(n) ==
  {x \in UNION {{c} \X DOMAIN chain[c] : c \in Client} :
     LET s == chain[x[1]][x[2]] IN s.node = n /\ s.pc \notin {"backlog", "ended"}}

\* An accept loop that waits for a thread to become free.
Accept_waiting(c, i) ==
  /\ chain[c][i].pc = "backlog"
  /\ Cardinality(Threads(chain[c][i].node)) < MaxThreads
  /\ Goto(c, i, "parsing") /\ UNCHANGED <<alive, request, got>>

\* Without a thread for it run throws, and the server ends.
Accept(c, i) ==
  LET n == chain[c][i].node
  IN  /\ chain[c][i].pc = "backlog"
      /\ \/ /\ Cardinality(Threads(n)) < MaxThreads
            /\ Goto(c, i, "parsing") /\ UNCHANGED alive
         \/ Cardinality(Threads(n)) >= MaxThreads /\ Die(n)
      /\ UNCHANGED <<request, got>>

\* parseRequest (see RequestStream): the loop goes on for ever without a colon
\* to find; the uninitialized length may throw. Bodies are left out: one that has
\* a CR can lend a request without colons a header, see ColonPerServer.
Parse(c, i) ==
  /\ chain[c][i].pc = "parsing"
  /\ \/ chain[c][i].colons = 0 /\ Goto(c, i, "looping")
     \/ chain[c][i].colons > 0 /\ (Goto(c, i, "dispatch") \/ EndSession(c, i))
  /\ UNCHANGED <<alive, request, got>>

\* The headers outgrow the memory.
RunOut(c, i) ==
  /\ chain[c][i].pc = "looping"
  /\ \/ EndSession(c, i) /\ UNCHANGED alive
     \/ Die(chain[c][i].node)
  /\ UNCHANGED <<request, got>>

\* An answer comes in two parts, a 404 in one.
AnswerOf(n, path) == [k \in 1..2 |-> [from |-> n, path |-> path, part |-> k]]
NotFoundOf(n) == <<[from |-> n, path |-> <<>>, part |-> 1]>>

Dispatch(c, i) ==
  LET s == chain[c][i]
      prefix == get_prefix(s.path)
      Respond(r) == Update(c, i, [s EXCEPT !.pc = "writing", !.response = r])
  IN  /\ s.pc = "dispatch"
      /\ \/ prefix \notin DOMAIN Route[s.node] /\ Respond(NotFoundOf(s.node))
         \/ /\ prefix \in DOMAIN Route[s.node]
            /\ IF Route[s.node][prefix] = Local
               THEN Respond(AnswerOf(s.node, s.path))
               ELSE Goto(c, i, "connecting")
      /\ UNCHANGED <<alive, request, got>>

\* What the headers ProxyHandler writes have left (see RequestStream).
ColonsLeft_kept(colons) == colons
ColonsLeft(colons) == colons - 1

\* Resolving or connecting may fail, and does when the upstream is down.
ConnectUpstream(c, i) ==
  LET s == chain[c][i]
      upstream == Route[s.node][get_prefix(s.path)]
  IN  /\ s.pc = "connecting"
      /\ \/ EndSession(c, i)
         \/ /\ upstream \in alive
            /\ Become(c, Append([chain[c] EXCEPT ![i].pc = "relaying"],
                 NewSession(upstream, UpstreamPath(s.path), ColonsLeft(s.colons))))
      /\ UNCHANGED <<alive, request, got>>

\* error == boost::asio::error::eof
IsEof_any(end) == end # "open"
IsEof(end) == end = "fin"

append_front(response, part) == <<part>> \o response
append(response, part) == Append(response, part)

\* One pass of the read loop: a part, the end of the answer, or an error.
Relay(c, i) ==
  /\ chain[c][i].pc = "relaying"
  /\ LET upstream == chain[c][i + 1]
     IN  \/ /\ upstream.out # <<>>
            /\ Become(c, [chain[c] EXCEPT
                 ![i].response = append(@, Head(upstream.out)),
                 ![i + 1].out = Tail(@)])
         \/ upstream.out = <<>> /\ IsEof(upstream.end) /\ Goto(c, i, "writing")
         \/ upstream.out = <<>> /\ upstream.end # "open" /\ ~IsEof(upstream.end)
              /\ EndSession(c, i)
  /\ UNCHANGED <<alive, request, got>>

\* write puts out what the socket holds, waits for its reader, and throws when
\* the reader is gone.
Write(c, i) ==
  LET s == chain[c][i]
      readerGone == i > 1 /\ Over(chain[c][i - 1])
  IN  /\ s.pc = "writing"
      /\ \/ (s.response = <<>> \/ readerGone) /\ EndSession(c, i)
         \/ /\ s.response # <<>> /\ ~readerGone /\ Len(s.out) < Buffer
            /\ Update(c, i, [s EXCEPT !.out = Append(@, Head(s.response)),
                                      !.response = Tail(@)])
      /\ UNCHANGED <<alive, request, got>>

Session(c, i) ==
  /\ i \in DOMAIN chain[c]
  /\ \/ Accept(c, i) \/ Parse(c, i) \/ RunOut(c, i) \/ Dispatch(c, i)
     \/ ConnectUpstream(c, i) \/ Relay(c, i) \/ Write(c, i)

-----------------------------------------------------------------------------
(* Clients; and servers that stop, by "q" for one. *)

Ask(c) ==
  LET r == request[c]
  IN  /\ chain[c] = <<>> /\ r.node \in alive
      /\ Become(c, <<NewSession(r.node, r.path, r.colons)>>)
      /\ UNCHANGED <<alive, request, got>>

Read(c) ==
  /\ chain[c] # <<>> /\ chain[c][1].out # <<>>
  /\ got' = [got EXCEPT ![c] = Append(@, Head(chain[c][1].out))]
  /\ Become(c, [chain[c] EXCEPT ![1].out = Tail(@)])
  /\ UNCHANGED <<alive, request>>

Quit(n) == n \in alive /\ Die(n) /\ UNCHANGED <<request, got>>

\* Each server on the way takes a colon.
MaxHops == LET all == {r.colons : r \in Request}
           IN  1 + CHOOSE m \in all : \A x \in all : x <= m

Next ==
  \/ \E c \in Client : Ask(c) \/ Read(c) \/ \E i \in 1..MaxHops : Session(c, i)
  \/ \E n \in Node : Quit(n)

Spec == Init /\ [][Next]_vars

\* Threads are scheduled and clients read; no server need stop.
FairSpec ==
  /\ Spec
  /\ \A c \in Client :
       WF_vars(Read(c)) /\ \A i \in 1..MaxHops : WF_vars(Session(c, i))
=============================================================================
