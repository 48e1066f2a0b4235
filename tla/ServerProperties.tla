-------------------------- MODULE ServerProperties --------------------------
(***************************************************************************)
(* What the server must keep true, and the service it implements.          *)
(***************************************************************************)
EXTENDS Server

FdKind == {"sock", "aux"} \cup Private

\* Every variable has its type: control states of the threads, descriptors by
\* owner, and requests and responses as the handlers take and return them.
TypeOK ==
  /\ process \in {"up", "returned", "crashed", "aborted", "killed"}
  /\ main \in {"accepting", "spawning", "unwinding", "destroyed"}
  /\ handlers \in [DOMAIN HandlerMap -> Handler]
  /\ mime_types \in [DOMAIN MimeMap -> Text]
  /\ fd \subseteq FdKind \X Conn
  /\ quit \in Text /\ typed \in Seq(Text)
  /\ message \in [Conn -> Message]
  /\ sent \in [Conn -> Nat]
  /\ \A c \in Conn : sent[c] <= Len(Items(message[c]))
  /\ client \in [Conn -> {"live", "stalled", "closed"}]
  /\ pc \in [Conn -> {"idle", "backlog", "ended"} \cup Live]
  /\ stream \in [Conn -> Seq(Text)]
  /\ headers \in [Conn -> Seq(Seq(Text))]
  /\ body \in [Conn -> Seq(Text)]
  /\ response \in [Conn -> Response]

-----------------------------------------------------------------------------
(* Safety. *)

Answered(c) == pc[c] = "ended" /\ response[c] # NoResponse

\* What the control of a session says it has open.
Accounted(c) ==
  /\ <<"sock", c>> \in fd <=> pc[c] \in Live
  /\ <<"aux", c>> \in fd <=> pc[c] \in {"slurping", "relaying"}
  /\ \A kind \in Private :
       <<kind, c>> \in fd => pc[c] \in {"connecting", "relaying"}

\* The process has open exactly the sockets of its sessions and the file or
\* upstream of the handlers that run, and what asio opened for a proxy only as
\* long as that runs: none leaks on an exception, an early return or a failure
\* to start a thread, and none is closed under a session.
DescriptorsAccounted == IF Up THEN \A c \in Conn : Accounted(c) ELSE fd = {}

\* The request of c is parsed, and its answer not sent.
Handled(c) == pc[c] \in Running \ {"reading", "parsing"}

\* A handler gets every header that was sent, in order (the name of the first
\* with the LF that the request line leaves before it). Of a request without
\* headers nothing is said: it gets what precedes the colons of the body.
HeadersInOrder ==
  \A c \in Conn : Handled(c) /\ message[c].headers # <<>> =>
    /\ Len(headers[c]) = Len(message[c].headers)
    /\ \A i \in 1..Len(headers[c]) :
         headers[c][i][Len(headers[c][i])] = message[c].headers[i]

\* How many items the one read of the socket returns.
ReadCount(c) == IF sent[c] < MaxLength THEN sent[c] ELSE MaxLength

\* The head of the request of c: its headers, none after the first a
\* Content-Length, and their empty line; or, where it has no headers, what
\* parseRequest takes to be some, up to an empty line of the body that follows
\* one with a colon.
HeadArrived(c) ==
  LET hs == message[c].headers
      items == Items(message[c])
  IN  IF hs # <<>>
      THEN /\ \A i \in 2..Len(hs) : hs[i] # "Content-Length"
           /\ Len(hs) + 2 <= ReadCount(c)
      ELSE \E i \in 4..ReadCount(c) :
             /\ i <= Len(items) /\ items[i] = "CRLF" /\ HasColon(items[i - 1])

\* No answer is given on a part of a head: all of it was returned by the one
\* read. The body may be cut anywhere, see BodyAsArrived.
OnlyWholeHeadsAnswered == \A c \in Conn : Answered(c) => HeadArrived(c)

\* Whatever length the uninitialized content_length gives the body, it is what
\* the read returned after the empty line, and zeroes where that ends: a handler
\* gets no line of the headers in it, and none of the body moved or left out.
BodyAsArrived ==
  \A c \in Conn : Handled(c) /\ message[c].headers # <<>> =>
    LET first == Len(message[c].headers) + 2
    IN  \A i \in 1..Len(body[c]) :
          body[c][i] = IF first + i <= ReadCount(c)
                       THEN Items(message[c])[first + i] ELSE "NUL"

\* A session's socket, its file or upstream, and what asio opens for a proxy.
PerConnection == Cardinality(Private) + 2

\* With what each connection but the one being accepted may hold, and one
\* descriptor more, and a thread for each, accept and thread creation never
\* fail: the server stops only by "q" or when memory runs out, and no session
\* outlives the Server.
CapacitySuffices ==
  (/\ MaxFds >= PerConnection * (Cardinality(Conn) - 1) + 1
   /\ MaxThreads >= Cardinality(Conn)) =>
     /\ main \in {"accepting", "spawning"}
     /\ process \in {"up", "aborted", "killed"}

NotFoundIsTrue(c) ==
  LET path == message[c].path
      prefix == get_prefix(path)
  IN  response[c] = NotFound =>
        \/ prefix \notin DOMAIN HandlerMap
        \/ /\ HandlerMap[prefix].type = "static"
           /\ <<HandlerMap[prefix].root, get_file_path(path)>> \notin Files

\* With one descriptor more, a 404 says that no handler has the prefix of the
\* path or that the file is not there, never that it could not be opened.
NotFoundMeansMissing ==
  MaxFds >= PerConnection * (Cardinality(Conn) - 1) + 2 =>
    \A c \in Conn : NotFoundIsTrue(c)

\* A session that has nothing left to extract and is not at the empty line.
Spinning(c) == pc[c] = "parsing" /\ stream[c] = <<>>

\* A session that makes an answer as long as a body, a file or what an upstream
\* sends.
BuildsAnswer(c) == pc[c] \in {"dispatch", "slurping", "relaying"}

\* When the heap holds the items of all the requests and a body of any length
\* the uninitialized content_length may have for each, memory runs out only by
\* a session looping at the end of its stream or by the length of an answer:
\* the header loop takes no more than it was sent before the stream is empty.
MemoryExhaustedByLoopOrAnswer ==
  (\A m \in Message, length \in Garbage \cup {0} :
     (Len(Items(m)) + length) * Cardinality(Conn) <= MaxHeap) =>
    (process = "killed" => \E c \in Conn : Spinning(c) \/ BuildsAnswer(c))

-----------------------------------------------------------------------------
(* Action properties. *)

\* Sessions read the dispatch map and the MIME table without a lock, which is
\* sound because no operator[] of theirs ever inserts.
SharedMapsReadOnly == [][UNCHANGED mapVars]_mapVars

-----------------------------------------------------------------------------
(* Liveness. *)

Accepting == Up /\ main \in {"accepting", "spawning"}

\* A connection is accepted however many sessions are blocked or looping,
\* unless the server stops.
ConnectionAccepted ==
  \A c \in Conn : pc[c] = "backlog" ~> (pc[c] # "backlog" \/ ~Accepting)

\* A session that has read something ends, unless it waits for its upstream
\* (which may neither read nor send, and no timeout is set) or for a client that
\* does not read. Other sessions cannot hold it up.
RequestEnds ==
  \A c \in Conn : pc[c] = "parsing" ~>
    \/ ~Up \/ pc[c] \in {"ended", "relaying"}
    \/ pc[c] = "writing" /\ client[c] = "stalled"

\* A "q" on standard input stops the process, whatever was typed before it.
QuitHonoured == (\E i \in 1..Len(typed) : typed[i] = "q") ~> ~Up

-----------------------------------------------------------------------------
(* What a comment of the source says and the code does not do.             *)

\* Server.cpp:117 "Throws an ExitErrorException which should be caught to quit
\* all server threads": the exception of Server::end never ends the process
\* by std::terminate.
QuitIsCaught == process # "aborted"

-----------------------------------------------------------------------------
(* Refinement. *)

\* The handlers registered under the first path element (request_handler.h).
Matching(path) ==
  {k \in DOMAIN HandlerMap : \E element \in {path[i] : i \in 2..Len(path)} :
     k = <<path[1], element>> /\ path[2] = element}

Answer(kind, path) == [kind |-> kind, path |-> path]

AnswersOf(type, path) ==
  CASE type = "echo" -> {Answer("echo", path)}
    [] type = "static" ->
         {Answer("file", get_file_path(path)), Answer("not_found", <<>>)}
    [] type = "proxy" -> {Answer("upstream", UpstreamPath(path))}

PermittedAnswers ==
  [m \in Message |->
     IF Matching(m.path) = {} THEN {Answer("not_found", <<>>)}
     ELSE UNION {AnswersOf(HandlerMap[k].type, m.path) : k \in Matching(m.path)}]

\* Threads, descriptors and parsing are hidden: a connection waits from
\* connect until its session ends or the process stops.
Service == INSTANCE HttpService WITH
  Permitted <- PermittedAnswers,
  up <- Up,
  phase <- [c \in Conn |->
    IF pc[c] = "idle" THEN "away"
    ELSE IF Answered(c) THEN "answered"
    ELSE IF Up /\ pc[c] # "ended" THEN "waiting" ELSE "refused"],
  answer <- [c \in Conn |->
    IF Answered(c) THEN {Answer(response[c].kind, response[c].path)} ELSE {}]

\* Every behaviour of the server is one of the HTTP service: at most one answer
\* per connection, of the handler its path names, and none after the end.
ImplementsService == Service!Spec
=============================================================================
