-------------------------------- MODULE Server --------------------------------
(***************************************************************************)
(* The running server: the thread of Server::run that accepts connections, *)
(* one detached thread per connection in Server::session, the thread of    *)
(* Server::end that waits for "q", and what they share: the dispatch map,  *)
(* the table of MIME types, the heap and the process's descriptors.        *)
(*                                                                         *)
(* What a client sends is a sequence of items: a request line, a header    *)
(* line per header, the empty line that ends them, and the body. An item   *)
(* of the body is a line with a colon, an empty line, or text without a    *)
(* colon: nothing in the stream says where the headers end and it begins.  *)
(***************************************************************************)
EXTENDS RequestHandler, FiniteSets

CONSTANTS
  Conn,         \* the connections clients may make
  Message,      \* what a client may send: [path, headers, body]
  HandlerMap,   \* what Config::get_handlers returns
  MimeMap,      \* the initial value of mime_types
  Files,        \* <<root, path>> that open; not changed while the server runs
  Colonless,    \* the items that have no colon
  Private,      \* descriptors that asio opens for a ProxyHandler besides the
                \* upstream socket: getaddrinfo's, epoll, timerfd, eventfd
  Garbage,      \* values an uninitialized int may hold
  MaxLength,    \* items that fit the read buffer (max_length)
  MaxHeap,      \* header entries and items of bodies that fit the heap
  MaxFds,       \* descriptors left to connections by the process's limit
  MaxThreads,   \* session threads the system grants
  MaxWords,     \* words of standard input waiting to be read
  Departures    \* how clients may leave: "stalled", "closed"

Handler == [type : {"static", "echo", "proxy", "null"}, root : Text]
NullHandler == [type |-> "null", root |-> ""]

ASSUME ConnAssumption == IsFiniteSet(Conn)
ASSUME PrivateAssumption == IsFiniteSet(Private) /\ {"sock", "aux"} \cap Private = {}
\* "LF" and "CRLF" stand for ends of lines; a header is a line with a colon.
ASSUME MessageAssumption ==
  /\ {"request-line", "LF", "CRLF"} \subseteq Colonless
  /\ Message \subseteq [path : Path \ {<<>>}, headers : Seq(Text \ Colonless),
                       body : Seq(Text)]
\* Handlers are registered under paths that start with "/", as in
\* default_config; get_handlers makes no null one.
ASSUME HandlerAssumption ==
  /\ HandlerMap \in [DOMAIN HandlerMap -> {h \in Handler : h.type # "null"}]
  /\ \A k \in DOMAIN HandlerMap : k \in Path /\ StartsWithSlash(k)
ASSUME MimeAssumption == MimeMap \in [DOMAIN MimeMap -> Text]
ASSUME GarbageAssumption == Garbage \subseteq Int
ASSUME BoundAssumption ==
  /\ {MaxLength, MaxHeap, MaxFds, MaxThreads} \subseteq Nat \ {0}
  /\ MaxWords \in Nat /\ Departures \subseteq {"stalled", "closed"}

VARIABLES
  process,     \* "up", or how it stopped
  main,        \* control of the main thread
  handlers,    \* Server::handlers_
  mime_types,  \* the global of StaticHandler.cpp
  fd,          \* open descriptors: <<"sock", c>>, <<"aux", c>>, and private ones
  quit,        \* the local of Server::end
  typed,       \* words of standard input not read yet
  message,     \* what each client sends
  sent,        \* how many items of it have arrived
  client,      \* "live", "stalled" (neither sends nor reads) or "closed"
  pc,          \* control of each session
  stream,      \* items each session has still to extract
  headers,     \* HTTPRequest::headers
  body,        \* HTTPRequest::request_body
  response     \* what HandleRequest returned

requestVars == <<stream, headers, body>>
sessionVars == <<pc, requestVars, response>>
clientVars == <<message, sent, client>>
endVars == <<quit, typed>>
mapVars == <<handlers, mime_types>>
vars == <<process, main, mapVars, fd, endVars, clientVars, sessionVars>>

Up == process = "up"

\* Sessions with a thread, and connections whose socket the process holds.
Running == {"reading", "parsing", "dispatch", "opening", "slurping",
            "connecting", "relaying", "writing"}
Live == Running \cup {"accepted"}
Threads == {c \in Conn : pc[c] \in Running}

Init ==
  /\ process = "up" /\ main = "accepting"
  /\ handlers = HandlerMap /\ mime_types = MimeMap
  /\ fd = {} /\ quit = "" /\ typed = <<>>
  /\ message \in [Conn -> Message]
  /\ sent = [c \in Conn |-> 0] /\ client = [c \in Conn |-> "live"]
  /\ pc = [c \in Conn |-> "idle"]
  /\ stream = [c \in Conn |-> <<>>] /\ headers = [c \in Conn |-> <<>>]
  /\ body = [c \in Conn |-> <<>>]
  /\ response = [c \in Conn |-> NoResponse]

-----------------------------------------------------------------------------
(* Resources. *)

\* A limit hit one descriptor early.
FdsFull_early == Cardinality(fd) + 1 >= MaxFds
FdsFull == Cardinality(fd) >= MaxFds

\* What the requests being parsed or handled hold of the heap.
HeapEntries == UNION {{c} \X (1..(Len(headers[c]) + Len(body[c]))) : c \in Conn}
HeapHas(n) == Cardinality(HeapEntries) + n <= MaxHeap

\* std::map::count, and operator[] which inserts a key it does not find.
count_ignored(map, key) == TRUE
count(map, key) == key \in DOMAIN map
Subscript(map, key, default) ==
  [k \in DOMAIN map \cup {key} |-> IF k \in DOMAIN map THEN map[k] ELSE default]

\* The descriptors that a handler's locals close: a file, or the upstream socket
\* and what its io_service and resolver had open.
HandlerFds(c) == ({"aux"} \cup Private) \X {c}

\* The descriptors that leave with a session: the client's socket, and those of
\* the handler it is in.
Descriptors_leaky(c) == {<<"sock", c>>}
Descriptors(c) == {<<"sock", c>>} \cup HandlerFds(c)

\* The process ends; the kernel closes what it had open.
Stop(how) ==
  /\ process' = how /\ fd' = {}
  /\ UNCHANGED <<main, mapVars, endVars, clientVars, sessionVars>>

\* A session returns: its locals and its reference to the socket go.
EndSession(c) ==
  /\ pc' = [pc EXCEPT ![c] = "ended"]
  /\ fd' = fd \ Descriptors(c)
  /\ stream' = [stream EXCEPT ![c] = <<>>]
  /\ headers' = [headers EXCEPT ![c] = <<>>]
  /\ body' = [body EXCEPT ![c] = <<>>]

\* An exception that reaches the catch of Server::session.
Throw(c) ==
  /\ EndSession(c)
  /\ response' = [response EXCEPT ![c] = NoResponse]

\* An allocation that fails: bad_alloc, or the system kills the process.
OutOfMemory(c) ==
  \/ Throw(c) /\ UNCHANGED process
  \/ process' = "killed" /\ fd' = {} /\ UNCHANGED sessionVars

Goto(c, label) == pc' = [pc EXCEPT ![c] = label]

Respond(c, r) == response' = [response EXCEPT ![c] = r] /\ Goto(c, "writing")

-----------------------------------------------------------------------------
(* Server::run *)

Accept(c) ==
  /\ Up /\ main = "accepting" /\ pc[c] = "backlog"
  /\ \/ /\ ~FdsFull
        /\ fd' = fd \cup {<<"sock", c>>} /\ Goto(c, "accepted")
        /\ main' = "spawning"
     \/ /\ FdsFull     \* accept throws out of run
        /\ main' = "unwinding" /\ UNCHANGED <<fd, pc>>
  /\ UNCHANGED <<process, mapVars, endVars, clientVars, requestVars, response>>

\* The accept loop joins the session it started.
Spawn_join(c) ==
  /\ Up /\ main = "spawning"
  /\ \/ pc[c] = "accepted" /\ Goto(c, "reading") /\ UNCHANGED main
     \/ pc[c] = "ended" /\ main' = "accepting" /\ UNCHANGED pc
  /\ UNCHANGED <<process, fd, mapVars, endVars, clientVars, requestVars, response>>

Spawn(c) ==
  /\ Up /\ main = "spawning" /\ pc[c] = "accepted"
  /\ \/ /\ Cardinality(Threads) < MaxThreads
        /\ Goto(c, "reading") /\ main' = "accepting" /\ UNCHANGED <<fd, requestVars>>
     \/ /\ Cardinality(Threads) >= MaxThreads     \* boost::thread throws
        /\ EndSession(c) /\ main' = "unwinding"
  /\ UNCHANGED <<process, mapVars, endVars, clientVars, response>>

\* run and main unwind: the Server and the io_service are destroyed while the
\* detached threads still run; then main returns.
Unwind ==
  /\ Up /\ main = "unwinding" /\ main' = "destroyed"
  /\ UNCHANGED <<process, mapVars, fd, endVars, clientVars, sessionVars>>

Return == Up /\ main = "destroyed" /\ Stop("returned")

\* A session then uses the Server, or the service of its socket: undefined
\* behaviour, of which a crash is the outcome told apart here.
UseDestroyed ==
  /\ Up /\ main = "destroyed" /\ Threads # {} /\ Stop("crashed")

Run == Unwind \/ Return \/ \E c \in Conn : Accept(c) \/ Spawn(c)

-----------------------------------------------------------------------------
(* Server::parseRequest *)

Items(m) == <<"request-line">> \o m.headers \o <<"CRLF">> \o m.body

\* session: read_some returns what has arrived, cut at the buffer's size.
\* parseRequest: the request line is extracted up to its CR, LF stays.
ReadSome(c) ==
  /\ Up /\ pc[c] = "reading"
  /\ \/ /\ sent[c] > 0
        /\ LET n == IF sent[c] < MaxLength THEN sent[c] ELSE MaxLength
           IN  stream' = [stream EXCEPT
                            ![c] = <<"LF">> \o SubSeq(Items(message[c]), 2, n)]
        /\ Goto(c, "parsing")
        /\ UNCHANGED <<fd, headers, body, response>>
     \/ client[c] = "closed" /\ Throw(c)     \* end of file, or a reset
  /\ UNCHANGED <<process, main, mapVars, endVars, clientVars>>

\* stream.peek() == 13
AtCarriageReturn_orLf(st) == st # <<>> /\ Head(st) \in {"CRLF", "LF"}
AtCarriageReturn(st) == st # <<>> /\ Head(st) = "CRLF"

push_front(hs, h) == <<h>> \o hs
push_none(hs, h) == hs
push_back(hs, h) == Append(hs, h)

HasColon(item) == item \notin Colonless

\* How many items getline(stream, header.first, ':') goes through: up to the
\* first with a colon, of a header or of the body, or all there are.
Passed(st) ==
  IF \E i \in 1..Len(st) : HasColon(st[i])
  THEN CHOOSE n \in 1..Len(st) :
         HasColon(st[n]) /\ \A i \in 1..(n - 1) : ~HasColon(st[i])
  ELSE Len(st)

\* The stream when the value has been extracted as well; looked at only.
Rest_peeked(st, n) == st
Rest(st, n) == SubSeq(st, n + 1, Len(st))

\* One pass of the header loop: the name is all that precedes the colon. At the
\* end of the stream it takes nothing and the loop goes on. A Content-Length
\* throws, as stoi is given an empty string.
ParseHeader(c) ==
  LET st == stream[c]
      name == SubSeq(st, 1, Passed(st))
  IN  /\ Up /\ pc[c] = "parsing" /\ ~AtCarriageReturn(st)
      /\ \/ name = <<"Content-Length">> /\ Throw(c) /\ UNCHANGED process
         \/ /\ name # <<"Content-Length">> /\ HeapHas(1)
            /\ headers' = [headers EXCEPT ![c] = push_back(@, name)]
            /\ stream' = [stream EXCEPT ![c] = Rest(st, Passed(st))]
            /\ UNCHANGED <<process, fd, pc, body, response>>
         \/ name # <<"Content-Length">> /\ ~HeapHas(1) /\ OutOfMemory(c)
      /\ UNCHANGED <<main, mapVars, endVars, clientVars>>

\* read overwrites as much of the zero-filled string as there is; the empty
\* line is taken for a part of the body.
Filled_early(rest, length) ==
  [i \in 1..length |-> IF i = 1 THEN "CRLF"
                       ELSE IF i - 1 <= Len(rest) THEN rest[i - 1] ELSE "NUL"]
Filled(rest, length) ==
  [i \in 1..length |-> IF i <= Len(rest) THEN rest[i] ELSE "NUL"]

\* After the loop: content_length was never assigned. resize throws on a
\* negative size, and when there is no memory for the size it is given.
ParseBody(c) ==
  /\ Up /\ pc[c] = "parsing" /\ AtCarriageReturn(stream[c])
  /\ \E content_length \in Garbage :
       \/ content_length < 0 /\ Throw(c) /\ UNCHANGED process
       \/ /\ content_length >= 0 /\ HeapHas(content_length)
          /\ body' = [body EXCEPT ![c] = Filled(Tail(stream[c]), content_length)]
          /\ stream' = [stream EXCEPT ![c] = <<>>]
          /\ Goto(c, "dispatch")
          /\ UNCHANGED <<process, fd, headers, response>>
       \/ content_length >= 0 /\ ~HeapHas(content_length) /\ OutOfMemory(c)
  /\ UNCHANGED <<main, mapVars, endVars, clientVars>>

-----------------------------------------------------------------------------
(* Server::session: dispatch, the handlers, the write *)

\* handlers_[prefix]->HandleRequest(request); EchoHandler's, which copies the
\* request, is done at once.
Invoke(c, h) ==
  \/ h.type = "echo" /\ Respond(c, EchoResponse(message[c].path, body[c]))
  \/ h.type = "static" /\ Goto(c, "opening") /\ UNCHANGED response
  \/ h.type = "proxy" /\ Goto(c, "connecting") /\ UNCHANGED response

Dispatch(c) ==
  LET prefix == get_prefix(message[c].path)
  IN  /\ Up /\ pc[c] = "dispatch"
      /\ \/ /\ ~count(handlers, prefix)
            /\ Respond(c, NotFound)
            /\ UNCHANGED <<process, handlers, fd, requestVars>>
         \/ /\ count(handlers, prefix)
            /\ handlers' = Subscript(handlers, prefix, NullHandler)
            /\ \/ /\ Invoke(c, handlers'[prefix])
                  /\ UNCHANGED <<process, fd, requestVars>>
               \/ handlers'[prefix].type = "echo" /\ OutOfMemory(c)
      /\ UNCHANGED <<main, mime_types, endVars, clientVars>>

\* StaticHandler::HandleRequest up to the open.
OpenFile(c) ==
  LET path == message[c].path
      file == <<handlers[get_prefix(path)].root, get_file_path(path)>>
      ext == extension(path)
  IN  /\ Up /\ pc[c] = "opening"
      /\ mime_types' = IF count(mime_types, ext)
                       THEN Subscript(mime_types, ext, "") ELSE mime_types
      /\ \/ ~HasFilePath(path) /\ Throw(c)     \* substr: out of range
         \/ /\ HasFilePath(path)
            /\ file \notin Files \/ FdsFull
            /\ Respond(c, NotFound) /\ UNCHANGED <<fd, requestVars>>
         \/ /\ HasFilePath(path) /\ file \in Files /\ ~FdsFull
            /\ fd' = fd \cup {<<"aux", c>>} /\ Goto(c, "slurping")
            /\ response' = [response EXCEPT ![c] = FileResponse(file[2],
                 IF count(mime_types, ext) THEN mime_types'[ext] ELSE "text/plain")]
            /\ UNCHANGED requestVars
      /\ UNCHANGED <<process, main, handlers, endVars, clientVars>>

\* StaticHandler::HandleRequest reads the file, and returning closes it.
SlurpFile(c) ==
  /\ Up /\ pc[c] = "slurping"
  /\ \/ /\ fd' = fd \ {<<"aux", c>>} /\ Goto(c, "writing")
        /\ UNCHANGED <<process, requestVars, response>>
     \/ OutOfMemory(c)     \* the file is as long as it likes
  /\ UNCHANGED <<main, mapVars, endVars, clientVars>>

\* ProxyHandler::HandleRequest up to the connection: getaddrinfo, the io_service
\* and the socket's reactor open and close descriptors of their own.
UsePrivate(c) ==
  /\ Up /\ pc[c] = "connecting"
  /\ \E kind \in Private :
       \/ <<kind, c>> \notin fd /\ ~FdsFull /\ fd' = fd \cup {<<kind, c>>}
       \/ <<kind, c>> \in fd /\ fd' = fd \ {<<kind, c>>}
  /\ UNCHANGED <<process, main, mapVars, endVars, clientVars, sessionVars>>

\* It connects, or throws: not resolved, refused, or no descriptor left.
ConnectUpstream(c) ==
  /\ Up /\ pc[c] = "connecting"
  /\ \/ Throw(c)
     \/ /\ ~FdsFull
        /\ fd' = fd \cup {<<"aux", c>>} /\ Goto(c, "relaying")
        /\ UNCHANGED <<requestVars, response>>
  /\ UNCHANGED <<process, main, mapVars, endVars, clientVars>>

\* It writes its request, which waits for the upstream to read; an error of
\* that write is left for read_some to meet. The read loop ends when the
\* upstream closes, throws on another error, and gathers all that comes.
Relay(c) ==
  /\ Up /\ pc[c] = "relaying"
  /\ \/ /\ Respond(c, UpstreamResponse(UpstreamPath(message[c].path)))
        /\ fd' = fd \ HandlerFds(c) /\ UNCHANGED <<process, requestVars>>
     \/ Throw(c) /\ UNCHANGED process
     \/ OutOfMemory(c)
  /\ UNCHANGED <<main, mapVars, endVars, clientVars>>

\* Any other answer may outgrow the socket's buffer and wait for the client to
\* read it: a file, an upstream's, an echo of a body of any length.
Fits(r) == r.kind = "not_found"

Write(c) ==
  /\ Up /\ pc[c] = "writing"
  /\ \/ /\ client[c] = "stalled" => Fits(response[c])
        /\ EndSession(c) /\ UNCHANGED response
     \/ client[c] = "closed" /\ Throw(c)
  /\ UNCHANGED <<process, main, mapVars, endVars, clientVars>>

\* What a session does by itself; Relay waits for the upstream, and what
\* UsePrivate does is not its concern.
Session(c) ==
  \/ ReadSome(c) \/ ParseHeader(c) \/ ParseBody(c) \/ Dispatch(c)
  \/ OpenFile(c) \/ SlurpFile(c) \/ ConnectUpstream(c) \/ Write(c)

-----------------------------------------------------------------------------
(* Server::end *)

IsQuit_prefix(word) == word = "quit"
IsQuit(word) == word = "q"

ReadQuit ==
  /\ Up /\ ~IsQuit(quit) /\ typed # <<>>
  /\ quit' = Head(typed) /\ typed' = Tail(typed)
  /\ UNCHANGED <<process, main, mapVars, fd, clientVars, sessionVars>>

\* ExitServerException leaves the thread's function: std::terminate.
ThrowExit == Up /\ IsQuit(quit) /\ Stop("aborted")

End == ReadQuit \/ ThrowExit

-----------------------------------------------------------------------------
(* The environment: clients and the keyboard. *)

Connect(c) ==
  /\ Up /\ main # "destroyed" /\ pc[c] = "idle" /\ Goto(c, "backlog")
  /\ UNCHANGED <<process, main, mapVars, fd, endVars, clientVars, requestVars, response>>

\* What arrives after the one read of the socket is never looked at.
Send(c) ==
  /\ Up /\ pc[c] \in {"backlog", "accepted", "reading"} /\ client[c] = "live"
  /\ sent[c] < Len(Items(message[c]))
  /\ sent' = [sent EXCEPT ![c] = @ + 1]
  /\ UNCHANGED <<process, main, mapVars, fd, endVars, message, client, sessionVars>>

Leave(c) ==
  /\ Up /\ pc[c] \notin {"idle", "ended"} /\ client[c] = "live"
  /\ \E how \in Departures : client' = [client EXCEPT ![c] = how]
  /\ UNCHANGED <<process, main, mapVars, fd, endVars, message, sent, sessionVars>>

Word == {"q", "w"}

Type(word) ==
  /\ Up /\ Len(typed) < MaxWords /\ typed' = Append(typed, word)
  /\ UNCHANGED <<process, main, mapVars, fd, quit, clientVars, sessionVars>>

Environment ==
  \/ \E c \in Conn : Connect(c) \/ Send(c) \/ Leave(c) \/ UsePrivate(c) \/ Relay(c)
  \/ \E word \in Word : Type(word)

-----------------------------------------------------------------------------
Next == Run \/ UseDestroyed \/ End \/ Environment \/ \E c \in Conn : Session(c)

Spec == Init /\ [][Next]_vars

\* Each thread is scheduled; clients, upstreams and the keyboard owe nothing.
Fairness == WF_vars(Run) /\ WF_vars(End) /\ \A c \in Conn : WF_vars(Session(c))

FairSpec == Spec /\ Fairness
=============================================================================
