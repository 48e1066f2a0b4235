# A TLA+ model of WeServd

WeServd is a small multi-threaded HTTP server in C++ on Boost.Asio. It reads a
configuration file in the style of nginx, listens on one port, starts a detached
thread for every connection, reads one request from it, dispatches on the first
element of the path to a handler (static files, echo, proxy), writes the answer
and closes. These modules model it, `tlc` checks them on small instances, and
`tlapm` proves for every instance what matters most of it: of the server and of the
requests it parses, of chains of proxies, of the parser of the configuration and of
startup.

## 1. Inventory

| component | state | operations | interacts with |
|---|---|---|---|
| `Server` (`server/Server.cpp`) | `handlers_`, `port_`; per session the locals of `session` and `parseRequest`; `quit` of `end` | `run`, `session`, `parseRequest`, `get_prefix`, `end` | handlers by virtual call; clients by sockets; sessions among themselves by the shared maps, the heap and the process's limits |
| `StaticHandler`, `EchoHandler`, `ProxyHandler` | `root_`, `host`, `port`; the global `mime_types` | `Configure` at startup, `HandleRequest` from any session | files; an upstream server |
| `NginxConfigParser` (`parser/ConfigParser.cpp`) | the stream, the token being read, `config_stack`, `last_token_type`, the tree it builds | `ParseToken`, `Parse`, `ToString` | its tree is read by `Config` and `ParserProcessor` |
| `Config` (`server/config.cpp`) | a pointer to the tree | `get_port`, `get_handlers` | the constructor of `Server` |
| `main` (`webserver.cpp`) | the control of startup | parse, configure, run, and what is left after an exception | all of the above |
| `ParserProcessor` | a copy of the tree | `get_port`, `get_static_handlers`, `get_echo_handlers`, `get_helloworld_handlers`, `values_like_key` | compiled, used by its tests only |
| `NotFoundHandler`, `reply`, `header.h` | | | not in the build, or not used |
| `clientserver.cpp` | the line typed, the bytes read | write the line, read as many bytes | a program of its own; connects to a server |

What is hard here:

* **Concurrency.** Sessions, the accept loop and the quit thread run at the same
  time; sessions share two maps without a lock and outlive the `Server` when
  `run` throws; any of them may hit a limit of the process.
* **Partial input.** One `read_some` is taken for a request. The parser of
  requests does not notice the end of its stream and loops; nothing tells it where
  the headers end and the body begins but a CR behind a header.
* **Limits.** An uninitialized length sizes the body, an upstream's answer is as
  long as it likes, and a proxy session holds the descriptors of an `io_service` of
  its own, of which the code says nothing.
* **Failure.** A session may end by an exception at nearly every call, holding a
  socket and a file or upstream connection; the quit thread ends by an exception
  that nothing catches.
* **Servers in a row.** A proxy's upstream may be another WeServd, or itself. Each
  waits for the next one with a thread in its hand, takes the end of a connection
  for the end of an answer, and rewrites the request so that the next server
  reads another one.
* **Sequences of tokens.** `Parse` keeps a stack of pointers into a tree under
  construction, and trusts the last token to say what the stack holds.
* **Two readers** of the same configuration, by different algorithms.

`PROJECT.json` lists each hazard at its line with the properties that would show it.

What makes each part correct:

* Server: exactly the due descriptors are open; the shared maps are only read; a
  connection is accepted and its request ends whatever others do; an answer is
  that of the handler its path names; a 404 is true; a request is answered only when
  its head was read to the end; the handler gets the headers in order, and of the body
  what was read; memory runs out only by a lost stream or a long answer; "q" stops the
  process.
* Parser: what `ParseToken` delivers are the tokens of the file; the blocks form a
  tree; the stack is a path of it; every statement has a token; the tree has the words
  delivered in their places, also after a failure; no valid file is rejected (but one
  with nothing in a block, or in itself); `ToString` and `Parse` are inverse.
* Config and startup: the server that serves has the port and the handlers its
  configuration says; undefined reads come from malformed statements alone.
* ParserProcessor: on plain configurations it finds what Config finds.
* Proxy chains: what a client gets is a beginning of the answer of the server its
  path leads to, all of it when nothing stopped on the way; every chain ends.

## 2. Modules

| module | models |
|---|---|
| `RequestHandler` | paths and answers: `get_prefix`, `get_file_path`, the extension, the path asked of an upstream, what each handler returns. Pure operators. |
| `Server` | the threads: `Accept`, `Spawn` (`Server::run`), `Unwind`, `Return`, `UseDestroyed` (`main` after an exception), `ReadSome`, `ParseHeader`, `ParseBody`, `Dispatch`, `OpenFile`, `SlurpFile`, `UsePrivate`, `ConnectUpstream`, `Relay`, `Write` (a session), `ReadQuit`, `ThrowExit` (`Server::end`), and the environment `Connect`, `Send`, `Leave`, `Type`. |
| `HttpService` | the abstract service: each connection waits, then gets one permitted answer or none. |
| `ServerProperties` | properties of `Server`, and the refinement mapping to `HttpService`. |
| `ServerProofs`, `ParsingProofs`, `ServiceProofs` | theorems about `Server`: its threads and resources; what its sessions parse; that it implements `HttpService`. |
| `RequestStream` | `parseRequest` on its `istream`, lexeme by lexeme, with the two programs that write what it reads: `ProxyHandler` and `clientserver`. Properties included. |
| `RequestStreamProofs`, `RelayProofs` | theorems about `RequestStream`: what a parse keeps of a text; requests that proxies send on. |
| `ProxyChain`, `ProxyChainProperties` | several servers that are upstream of each other or of themselves; a session as its neighbours see it. |
| `ProxyChainProofs` | theorems about `ProxyChain`. |
| `ConfigParser` | `ParseToken` by character, `Parse` by token, a file that does not open. `configs` is the heap of `NginxConfig` objects, a pointer is an index. |
| `ConfigParserProperties`, `ConfigOutline` | its properties; `ConfigOutline` says where in the tree each word of the text belongs. |
| `ConfigParserProofs` | theorems about `ConfigParser`. |
| `ConfigText` | the text that `ParseToken` reads, and the same text cut into tokens at once. |
| `ConfigRoundTrip` | `ToString`, and a second parser that reads what it wrote (blanks and newlines included). |
| `Configuration` | the tree as its readers see it, `Configure` of each handler. |
| `Startup`, `StartupProperties` | `main`'s argument and `get_config`, `Config::get_port`, `Config::get_handlers` a pass at a time, then the acceptor; checked against a reading of the whole configuration at once. |
| `StartupProofs` | theorems about `Startup`. |
| `ParserProcessor`, `ParserProcessorProperties` | its operations; the public ones checked against the same reading. |
| `MC*` | the instances. |

Operators whose name ends in `_early`, `_lost`, `_none`... are faulty variants of
the definition that follows them. No specification uses them: each property was
shown to fail when the faulty variant takes the place of the original.

### Server: state and code

`pc[c]` is where the thread of connection `c` is; `stream[c]`, `headers[c]`,
`body[c]` are the locals of `parseRequest`, `response[c]` what `HandleRequest`
returned. `main` is where the main thread is; `process` how the process ended.
`fd` holds `<<"sock", c>>` for the socket of a session, `<<"aux", c>>` for the
file or upstream socket of its handler, and `<<kind, c>>` for what asio has open for a
`ProxyHandler` besides: its `io_service` and its resolver are locals, so each proxy session
has a reactor of its own (on Linux an epoll, a timerfd and an eventfd) and, while it
resolves, a socket of `getaddrinfo`. How many these are is asio's affair: `Private` is any
finite set, and `UsePrivate` opens and closes them in any order until the upstream is
connected. `PerConnection` counts them: a limit that is enough must have room for them.

What a client sends is a sequence of *items*: the request line, one item per
header (its name), the empty line, the items of the body: lines with a colon, empty
lines, text without a colon (`Colonless`). A read is cut between items, which
is where the code can tell a cut: inside an item the rest is read as a shorter
name or value. An "LF" left over by `ignore(1)` is an item too, so that the model
shows where it ends up. A header name is all that precedes the next colon (`Passed`),
be it one of the body, as `getline` knows no empty line: a request without headers
whose body has a colon, and an empty line after it, is parsed and answered, with a
header made of its body. Text is a parameter: proofs hold for any set of strings
that has the few the code writes; TLC uses `STRING`.

Failures are actions of the code: `accept` and `boost::thread` throw at the
limits `MaxFds` and `MaxThreads`; at `MaxHeap` an allocation throws or the kernel kills
the process: `push_back` of a header, `resize` of the body, the copy of an echo, the
string that a file or an upstream's answer is gathered in; a read or write fails when the
client has left; resolve, connect and the upstream's read may throw at any time.
`MaxHeap` counts header entries and items of bodies; answers are as long as they like, so
to build one may use up the memory at any time. `content_length` is
uninitialized: any value of `Garbage`, and the body has that many items, what is left of
the stream and zeroes ("NUL") after it. The use of a destroyed `Server` is
undefined; of its outcomes the model tells apart a crash. When `main` returns
first the process just ends.

A header stands for one with a value that is not empty; what becomes of other ones
is in `RequestStream`.

### RequestStream: state and code

`got` is what `read_some` returned, `stream` the position in it, 0 once a read has
met the end: from then on no `istream` operation does anything and `peek` is not
13. `ReadSome`, `ParseLine`, `ParseHeader`, `ParseBody` are the statements of
`parseRequest` in order; `ignore`, `getline` and `>>` are as in the C++ standard
(libstdc++ before 8.5, 9.4, 10.2 and 11 dropped a delimiter more in `ignore`, bug
94749; that is not modelled). A word stands for one character where a single one
may be dropped. `Forward` makes what `ProxyHandler` writes the text of the next
server; `Read` is the read of `clientserver`, whose getline took the line without
its end.

It supports the two abstractions of the others. `HeadersAsSent`: Server may count
headers as items. `ColonPerServer` and `LoopsOnlyWhenUsedUp`: ProxyChain may keep, of a
request, how many colons its last header has left. It leaves out bodies: one with a CR
can lend a server a header when the colons are used up, as the browser's bodies of this
module do, and the request then goes on. Both directions are needed: a
request with a colon for each server gets through, one without loops.

### ProxyChain: state and code

`chain[c]` are the sessions that client `c`'s request runs through, in order. Of each:
its server, its path, the colons left, `pc`, the part of the `response` it has
still to write, the parts in its socket (`out`) and how the socket was closed
(`end`: "fin", or "rst" when the session had not read all that was sent). `Relay`
is a pass of the read loop, `Die` the end of a process with all its sessions: by
`Quit`, by a thread that does not start, or by a header loop that used up the
memory.

### Parser: state and code

`result` is "running" until `Parse` returns; "undefined" stands for `top` or
`pop` on an empty `std::stack`. A character put back by `unget` is in `unread`.
The file grows as it is read, so one run covers every file up to `MaxLength`
characters. `tokens` is a history variable, and so is `text` of `ConfigText`, the
characters of the file that were read.

What the tokens are and what `Parse` makes of them are two questions. `TreeFollowsTokens`
compares the tree with the tokens that `ParseToken` delivered; `TokensFollowFile`
compares those, and what is still to be read, with the text, cut into tokens at once by
`Cut`, at every moment, of the first file and of the one `ToString` writes: so a
delimiter that is not put back, or put back twice, shows. Together: the tree follows the
file. At the end of the file a word without a delimiter is in neither, as `Cut`
takes a word for a token when its end is there; a file may still end in one, and is accepted
without it.

`WellFormed` is the grammar of the files, stated of the tokens by what may follow each
type; a block may be empty in it, and so may a file. `Parse` rejects both: `OnlyEmptyRejected`
says that it rejects no other, `ValidAccepted` is the claim of the header file, which the
empty block refutes (`default_config:11` calls it a bug).

Two leniencies of the parser are kept and are not findings, as its tests expect
them: a file may end with blocks still open (NestedConfig3) and with one "}" too
many (NestedConfig).

### Startup and ParserProcessor: state and code

`i` is the loop variable. "undefined" stands for a read past `tokens_` or through
a null `child_block_`; "exited" for an exception that `main` prints. `Number` is
what `stoi` reads. The default configuration is of this kind: a listen statement
and handler statements with blocks. The result of `Parse` is ignored by `main`,
so `Config` ranges over malformed configurations too.

## 3. Runs

| run | instance | shows |
|---|---|---|
| `MCServer_requests` | 2 connections, 12 requests: every path through dispatch and the handlers, with and without headers, with colons and an empty line in the body; cut anywhere; clients may close; buffer of 4 items, heap of 14, content lengths -1, 0 and 2, 6 descriptors with 2 private ones for each proxy session | `TypeOK`, `NotFoundMeansMissing`, `SharedMapsReadOnly`, `ImplementsService`, `HeadersInOrder`, `OnlyWholeHeadsAnswered`, `BodyAsArrived`, `MemoryExhaustedByLoopOrAnswer` |
| `MCServer_scarce` | 2 connections, 3 descriptors, 1 private one for each proxy session, 1 thread, "q" | `DescriptorsAccounted` on every failure path |
| `MCServer_live` | 2 connections, 4 descriptors, 1 private one for each proxy session, 2 threads, heap of 2, clients that stop reading, a keyboard, fair threads | `CapacitySuffices` at its very bound, `ConnectionAccepted`, `RequestEnds`, `QuitHonoured` |
| `MCRequestStream_text` | up to 2 headers with 0 to 3 colons, values with and without a blank, or empty; a body with a colon, and one that looks like a header; read cut anywhere; 4 proxies; all typed lines of 3 lexemes, and a request line | `HeadersAsSent`, `PathPresent`, `ColonPerServer`, `LoopsOnlyWhenUsedUp`, `LineNeverAnswered`, `ClientEnds` |
| `MCProxyChain_cycle` | 2 servers with routes to each other and themselves, 2 clients, 5 requests, 2 threads, a socket that holds one part | `NothingInvented`, `WholeOrNothing`, `ChainBounded`, `ChainEnds` |
| `MCConfigParser_grammar` | all files of up to 8 characters over `a`, a newline, `;`, `{`, `}`, `#`, `'` | `StackIsPath`, `OpenStatement`, `StatementsHaveTokens`, `BlocksFormTree`, `TreeFollowsTokens`, `OnlyEmptyRejected`, `TypeOK` |
| `MCConfigRoundTrip_all` | all files of up to 7 characters over the same and a carriage return | `TokensFollowFile`, `RoundTrip` |
| `MCStartup_config` | all configurations of 3 of 15 statements | `ServesAsConfigured`, `MalformedNeverServed`, `TypeOK` |
| `MCParserProcessor_plain` | all configurations of 3 of 14 statements | `SamePort`, `SameStaticHandlers`, `SameEchoHandlers`, `LikeKeysFound` |

Why the bounds are enough. Two connections make every pair of sessions
interleave. A connection holds up to `PerConnection` descriptors: its socket, a file or
upstream socket, the private ones. `MCServer_live` has as many as n-1 connections hold,
and one more, so one is left for `accept` at the tightest point; `MCServer_requests` one
more again, so one is left for a file; when the limit is met one earlier
(`FdsFull_early`) `accept` fails, or a file that is there is answered 404.
`MCServer_requests` has two private ones; on Linux there are three, and the theorems hold for
any number. `MaxWords`
bounds the words waiting, not those typed in all. A buffer of
four items cuts a request with two headers before, at and after its empty line, and
reads all of the head that a request without headers gets from its body.
A heap of 14 has room for the five items of each request and a body of two, the greatest
length there is, and so is the smallest one of which `MemoryExhaustedByLoopOrAnswer` speaks:
one session spins while the other parses. Bodies of two items are cut by the read, end with
it, or have zeroes after it. Seven characters of `MCConfigRoundTrip_all` hold a word, a quote
and a comment with what ends them. Eight characters hold a block with a
nested block, or a block and what follows it, with a quote or a comment; each
further level repeats the same tokens, since `Parse` looks at one token and the
last one. Three statements give duplicate paths with
another statement between or around them.

Three colons and four proxies: the colons are used up before the proxies are. Two
headers show one merged into the next. `HeadersAsSent` leaves out requests without
headers and headers with an empty value, where the parser reads the body, or the next
line, as part of a header; `ColonPerServer` leaves out bodies with a CR, which can
lend the last server a header. `LoopsOnlyWhenUsedUp` excepts requests with more headers
than the memory holds, which no instance has. In the chain, one request goes A, B, A and
so needs two threads of A: with two clients A runs out. One asks a server that is
its own upstream under "/", where only the colons, or the threads, end the chain. A
socket that holds one part makes each writer wait for its reader.

Deadlock is not checked in any run: the process stops, clients need not connect,
and a parser ends with its file.

**Fairness.** `FairSpec` has weak fairness of the accept loop, of the quit thread
and of each session: they are operating-system threads, and none waits on a lock.
`Relay` is not fair, as it waits for an upstream; nor are clients and the
keyboard. So `RequestEnds` excepts a session that waits for its upstream or for a
client that does not read. A session that loops at the end of its stream ends
only because the heap does. In `RequestStream` and `ProxyChain` likewise each session is a
thread that is scheduled and each client reads; no server need stop, no request
need be sent on.

### Where the code does not do what its comments say

Each of these runs checks one such comment, and finds it violated.

| run | what happens |
|---|---|
| `MCServer_claim_quit` | the exception of `Server::end` leaves its thread and aborts the process |
| `MCConfigParser_claim_answers` | `a;}` and then a word or another "}" uses an empty stack |
| `MCConfigParser_claim_valid` | a block with nothing in it (`''{}`) makes `Parse` reject the file and read no more of it; `default_config:11` has a keyword to fill such blocks and calls it a bug |

The models show more, which no run is spent on:

* `Server.cpp:68`: a Content-Length after the first header ends the session, as `stoi` is
  given a string nothing assigns; see `ParseHeader`, and `HeadArrived`.
* `StaticHandler.cpp:38`: "/images" without a second slash ends the session without a
  response, where `request_handler.h:68` has one returned; see `OpenFile`.
* `Server.cpp:64`: "ignore whitespace" drops a character of any kind: the first one of a
  value that follows its colon directly, and the CR of an empty value, which swallows the
  next line; see `AfterName`.
* `ProxyHandler.cpp:52`: the request line is followed by an empty line, so to any other
  server the headers are a body; the colon of a header is lost; see `Proxied`.
* `clientserver.cpp:34`: the client sends its line without the end of it: the server never
  answers, see `LineNeverAnswered`.
* `ParserProcessor.cpp:230`: a block without a key deletes the results its caller still uses;
  see `LikeKeysFound`. Nothing in the repository calls `values_like_key`.
* `config.cpp:48`: a handler under a path of two elements is never called, see the last one
  of `MCHandlers`.
* `Server.cpp:86`: the first segment of a request is parsed as all of it ("Read
  request into buffer"): with a whole head it is answered, on a part of its body; see
  `ReadSome`.
* `Server.cpp:63`: a request without headers loops, or has headers made of its body; see
  `ParseHeader`, and `HeadArrived`.
* `Server.cpp:60`: the first header name has a leading LF, so a first Content-Length
  is never recognised; see `ParseHeader`.
* `Server.cpp:52`, `73`: the body has the length of an uninitialized variable, up to
  2 GiB of zeroes for each session; see `ParseBody`, and `BodyAsArrived` for what is in it.
* `StaticHandler.cpp:58`: with no descriptor left a file that is there is answered 404;
  see `OpenFile`, and `NotFoundMeansMissing` for when it cannot happen.
* `ConfigParser.cpp:150`: `a;b` is accepted without its last word, where
  `ConfigParserTests.cpp:48` has "foo bar" rejected; see `Finish`.
* `config.cpp:45`: `handler helloworld` of the default configuration gets no handler,
  where `request_handler.h:14` has one for each path; see `GetHandlers`.
* `ParserProcessor.cpp:34`: 65536 passes the range check and is returned as 0; see
  `GetPort`.

## 4. Proofs

Each theorem holds for all values of the constants that the assumptions of its module
allow. An invariant is proved from a stronger one that is inductive; those that go
beyond the types were first checked by TLC.

**The server** (`ServerProofs`): every finite set of connections, set of messages,
handler map with keys that start with "/", value of an uninitialized int, and limit.

* `TypeCorrect`: `[]TypeOK`. Inductive as it stands, by one lemma for each
  group of actions. It needs that a session has sent no more items than its
  request has (a conjunct of `TypeOK`) and, for `Dispatch`, that a key `count`
  finds is in the map, so that `operator[]` inserts nothing; for `ParseHeader`, that a name
  takes at least one item and no more than there are (`PassedBounds`).
* `DescriptorsCorrect`: `[]DescriptorsAccounted`. Inductive given `TypeOK`: each step
  changes the control of one session, and opens and closes what that change owes
  (`OneSessionMoves`).
* `CapacityCorrect`: `[]CapacitySuffices`, for any finite set of private descriptors. By
  the former: the sessions other than the one being accepted hold at most
  `PerConnection` descriptors each (`SomeEach`), so `accept` has one left
  (`RoomToAccept`); the accepted session has no thread yet, so one is left for it
  (`RoomToSpawn`); the accept loop never unwinds, so the `Server` is never destroyed
  under a session.
* `MapsReadOnly`: `SharedMapsReadOnly`, an action property, by the domains in `TypeOK`.
* `NotFoundCorrect`: `[]NotFoundMeansMissing`, with `handlers = HandlerMap`
  (`MapsConfigured`) and room for a file (`RoomToOpen`), strengthened by `Dispatched`:
  a session that has come to open a file was dispatched to a static handler.

**What sessions parse** (`ParsingProofs`).

* `HeadersCorrect`: `[]HeadersInOrder`, `WholeHeadsCorrect`: `[]OnlyWholeHeadsAnswered`,
  and `BodyCorrect`: `[]BodyAsArrived`. None says what is left in the stream, so none is
  inductive. `Parsed` does, for requests with headers and without: as long as the stream
  is not at its end it is what `Unread` gives, all that was not extracted; the last item
  extracted had a colon and, where there are headers, was the last header taken
  (`AtBoundary`); so the parser meets an empty line only behind a colon, and with
  headers only behind all of them (`BodyReached`). A session that left the parser has what
  `GotAll` says: its head had arrived, and its body is what follows in what was read.
* `MemoryCorrect`: `[]MemoryExhaustedByLoopOrAnswer`, for every set of values that
  `content_length` may have and a heap with room for all requests with a body of any of
  them. A session that still has a stream has fewer headers than its request has items
  (`Used`), and one that has left the parser no more, and a body of one of the lengths
  (`HeapShare`); so a session that has a stream finds room for one more header and for
  its body (`RoomToParse`), and only a loop or an answer can find none.

**Refinement** (`ServiceProofs`).

* `ServerImplementsService`: `Spec => ImplementsService`, the whole safety specification
  of `HttpService` under the mapping of `ServerProperties`: the initial states map to
  initial states (`ServiceInit`) and each step to a step or a stutter, action by action.
  It needs `Earned`: a session in a handler was dispatched to that handler, and a
  response it holds is one its request permits; so that `Write`, which looks at neither
  map nor path, answers only what is permitted.

**Requests as text** (`RequestStreamProofs`): every text, cut and chain of proxies.

* `LineCorrect`: `[]LineNeverAnswered`. `LineInv`: no text of a `clientserver` has a CR,
  so `peek` never finds one and the parser never ends.
* `PathCorrect`: `[]PathPresent`. `PathInv`: when a position is left after the request
  line, its three words were there.
* `SentHeadersCorrect`: `[]HeadersAsSent`. `HeaderInv`: a stream that has a position is
  right behind the last header read, and those read are as expected. Where a header ends
  in the text is a sum of lengths, `Layout`; that such sums exist, for a list of headers
  of any length, is `LayoutExists`.

**Requests sent on** (`RelayProofs`): the same, behind any number of proxies.

* `ColonsCorrect`: `[]ColonPerServer`, and `LoopsCorrect`: `[]LoopsOnlyWhenUsedUp`. Neither
  says what a proxy sends, which depends on what it could read. `RelayInv` does: what is
  sent is a request line, *pieces*, an empty line and a body (`Shape`), where a piece ends
  with CR LF and is what one pass of the header loop reads; and the colons of its last
  piece plus the proxies passed are those of the last header of the first request (`Left`).
  A stream that has a position is between two pieces, and the headers read are pieces again,
  the last one with a colon less (`Copies`). `PassIs` is the half about what a pass
  reads, from several lines when the first has no colon left; `ShapeOf` that about what a
  proxy writes. All this holds only while the body has no CR, or every read was whole and
  colons are left (`Live`): otherwise headers are made of what is behind them.
  The attempt at the proof showed that `LoopsOnlyWhenUsedUp` had left out requests
  whose headers do not fit in the memory.

**Chains of proxies** (`ProxyChainProofs`): every set of servers, routes between them,
clients and requests.

* `ChainsAreBounded`: `[]ChainBounded`. `ChainInv`: session i has i - 1 colons and, with no
  proxy under "/", i - 1 path elements less than the request (`LeftAt`), and only the
  last session has not been sent on (`PlaceOf`).
* `NothingIsInvented`: `[]NothingInvented`, and `AnswersWholeOrNone`: `[]WholeOrNothing`.
  Two more invariants. `WayInv`: session i is at the server the path names after
  i - 1 elements, and every one but the last was a proxy, so what the last answers is the
  answer (`OwnAnswer`). `FlowInv`: what a session's reader took of it, with what is in its
  socket and what it has still to write, is a beginning of the answer, and all of it
  if the session writes or closed its socket in order while all servers of the chain run.
  For a proxy that relays the reader's part is its `response`: so a proxy that meets the end of
  its upstream has the whole answer. `FlowInv` says this only of a session whose reader
  still reads: a proxy that ended leaves its upstream with part of an answer.

**The configuration's parser** (`ConfigParserProofs`): every set of characters and
length of file.

* `ParserTypes`, `TokensEverywhere`, `StackCorrect`, `BackHasStatement`: `[]TypeOK`,
  `[]StatementsHaveTokens`, `[]StackIsPath`, `[]OpenStatement`. None is
  inductive alone: that a word goes on a statement that exists needs
  `OpenStatement`, and a block changed at the top of the stack must not be one
  further down, which `StackAscends` says (a block is opened after those around
  it). `ParseInv` is their conjunction, kept by each kind of token; `LexTypes` is
  what `ParseToken` keeps.
* `TreeCorrect`: `[]BlocksFormTree`. `TreeInv` adds that children exist, and that the
  statement which may get a block next has none: else the block it had would lose its owner.
* `TreeHasTokens`: `[]TreeFollowsTokens`, of the tokens delivered (`TokensFollowFile` is
  the other half). Where a word belongs is defined without recursion, by counting: its
  block is the last one opened one level up (`BlockOf`), its statement the number of those
  begun in that block (`StatementOf`), its place the words in a row up to it
  (`PositionOf`). `PlaceInv` adds what the next token needs (`Current`): each block on the
  stack is the one that `BlockAt` finds in the tokens at its depth, each block has as many
  statements as were begun in it, and the last statement as many tokens as there are words
  in a row. A "{" changes the child of one statement: that no earlier one is meant is
  `EarlierStatement`.
* `OnlyEmptyFilesRejected`: `[]OnlyEmptyRejected`. `ReadInv`: the last token's type and the
  height of the stack are those the text so far has, so a token that `Parse` refuses is one
  that no well-formed text goes on with (`Refuted`), but for the "}" of an empty block
  (`EmptyBlockRead`) and the end of an empty file (`EmptyFileRead`). What follows an empty
  block is never read: nothing is said of it.

**Startup** (`StartupProofs`): every configuration.

* `StartupTypes`, `ServesItsConfiguration`, `MalformedStops`: `[]TypeOK`,
  `[]ServesAsConfigured`, `[]MalformedNeverServed`. `StartInv` says what is read at each
  pass: no statement before i listens, then the port is that of the first that does
  (`PortRead`), then the map has, for each path, the last handler before i (`MapRead`),
  and no handler statement before i is malformed.

The assumptions are those of the modules, as weak as the code allows: finitely many
connections and clients (`ConnAssumption`, `RequestAssumption`), paths and map keys that start
with "/" (`MessageAssumption`, `HandlerAssumption`, `RouteAssumption`), numbers that are
numbers (`CharAssumption`, `BoundAssumption`, `GarbageAssumption`, `LimitAssumption`,
`NumberAssumption`), the kinds of strings and statements (`TextAssumption`,
`MimeAssumption`, `ConfigAssumption`), finitely many private descriptors of a proxy
(`PrivateAssumption`). TLC evaluates each of them in a run.

The provers do no induction. Where a proof needs it over a number (a recursive function
such as `At`, or the one in `FlattenSeq`, is defined for every length), it takes the smallest
counterexample (`Smallest`, from the well-foundedness of `<`) and shows there is a smaller one.

Only model-checked:

* Liveness: `ConnectionAccepted`, `RequestEnds`, `QuitHonoured`, `ClientEnds`, `ChainEnds`.
  Fairness is out of the prover's reach.
* `TokensFollowFile`, `RoundTrip` and the properties of `ParserProcessor`: what recursive
  operators compute for every text or tree cannot be proved.

## 5. Not modelled

* The bytes of requests, answers and files; the method and the version. That a
  directory opens as a file (`StaticHandler.cpp:56`) and is answered without content
  makes no difference to the control.
* Small allocations (the locals of a session, the line of a 404, an `io_service`): taken
  to succeed. Those that grow with what is read or sent may fail.
* The descriptors of `main`'s own `io_service` and acceptor, which are open before the
  first connection and as long as the server: `MaxFds` is what is left to connections.
* What is right for a handler of unknown type (`config.cpp:45`) and for a port beyond 16
  bits (`config.cpp:23`, `ParserProcessor.cpp:34`): nothing in the repository says, so
  `ServesAsConfigured` and `SamePort` take for right what both readers do. A key without
  a value at the end of a statement is outside what `Plain` calls plain.
* Why an upstream does not answer: `Relay` may wait for ever, in its write as in its read.
* The printing of `debug`.
* The end of standard input, at which `Server::end` loops for ever, and the time it
  sleeps: the loop prints, and changes nothing another part could see.
* `clientserver`'s arguments and the resolving of its host.
* `NotFoundHandler`: it is not in the Makefile and nothing creates it; its
  `HandleRequest` returns the constant that `Server::session` writes itself.
* `reply.cpp`, `reply.h`: not in the Makefile, and `reply.cpp` cannot be compiled;
  `header.h` is included and nothing of it used.
* gtest, which is vendored and most of the repository by lines; the tests; the files
  served. The program itself has about 1300 lines, and the models stand for the part
  of them that does anything: all operations of the server, the handlers, the
  configuration, startup, both readers of it and the client.

## 6. Plan

Order of the work: the server first, as it is where threads meet; then what gives
it its configuration, from the text to the handler map; then the proofs; then what
surrounds a server: other servers and a client.

Done: all the modules above and the theorems of section 4.

Left: `SamePort` and `SameStaticHandlers` of `ParserProcessor`, of which no theorem speaks.
Its recursion over the tree would have to be a function over a set of blocks, and that such
a function exists be proved by hand.
