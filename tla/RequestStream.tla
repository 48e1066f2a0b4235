---------------------------- MODULE RequestStream ----------------------------
(***************************************************************************)
(* Server::parseRequest on the istream it reads, and the two programs of   *)
(* the repository that write what it reads: ProxyHandler::HandleRequest,   *)
(* whose upstream may be another WeServd, and clientserver.                *)
(*                                                                         *)
(* A text is a sequence of lexemes: "CR", "LF", ":", " " and words. A word *)
(* stands for one character wherever a single one may be dropped. Where    *)
(* Server counts items, this module shows what becomes of the characters.  *)
(***************************************************************************)
EXTENDS Integers, SequencesExt

CONSTANTS
  Lexeme,       \* the lexemes of texts
  HeaderLists,  \* what a browser may send: sequences of [name, value]
  Bodies,       \* and after them
  Lines,        \* what may be typed into clientserver: no CR, no LF
  Garbage,      \* values an uninitialized int may hold
  MaxHeaders,   \* headers that fit the memory
  MaxHops       \* servers a request is proxied through

\* A header is a line with a colon; getline and the terminal leave no line end
\* in what is typed.
ASSUME TextAssumption ==
  /\ {"CR", "LF", ":", " ", "GET", "/p", "HTTP/1.1", "NUL"} \subseteq Lexeme
  /\ HeaderLists \subseteq Seq([name : Seq(Lexeme \ {":", "CR", "LF"}),
                                value : Seq(Lexeme \ {"CR", "LF"})])
  /\ Bodies \subseteq Seq(Lexeme) /\ Lines \subseteq Seq(Lexeme \ {"CR", "LF"})
ASSUME LimitAssumption == Garbage \subseteq Int /\ {MaxHeaders, MaxHops} \subseteq Nat

Origin ==
  [program : {"browser"}, headers : HeaderLists, body : Bodies] \cup
  [program : {"clientserver"}, line : Lines]

VARIABLES
  origin,   \* what the first client sends
  text,     \* what is sent to the server that parses now
  cut,      \* some read_some returned less than was sent
  hop,      \* proxies passed so far
  got,      \* what read_some returned
  stream,   \* the stringstream over it: a position
  path,     \* HTTPRequest::path
  headers,  \* HTTPRequest::headers, pairs [first, second]
  body,     \* HTTPRequest::request_body
  pc,       \* control of the session
  client    \* clientserver: "reading", "printed", "failed"; else "browser"

vars == <<origin, text, cut, hop, got, stream, path, headers, body, pc, client>>

-----------------------------------------------------------------------------
(* std::istream over what was read. A position is where the next character *)
(* is; it is 0 once a read has met the end, from when on nothing is read.  *)

Find(at, stops) ==
  IF at = 0 THEN 0 ELSE SelectInSubSeq(got, at, Len(got), LAMBDA x : x \in stops)

\* The characters from a position up to another one, or to the end.
Upto(at, end) ==
  IF at = 0 THEN <<>> ELSE SubSeq(got, at, IF end = 0 THEN Len(got) ELSE end - 1)

\* getline(stream, s, delimiter): what s gets, and the position then.
Line(at, delimiter) == Upto(at, Find(at, {delimiter}))
GetLine(at, delimiter) ==
  LET i == Find(at, {delimiter}) IN IF i = 0 THEN 0 ELSE i + 1

\* stream.ignore(n, delimiter) drops n characters of any kind, fewer only
\* when it has dropped the delimiter or the text ends.
Ignore(at, n, delimiter) ==
  LET i == Find(at, {delimiter})
      next == IF i # 0 /\ i < at + n THEN i + 1 ELSE at + n
  IN  IF at # 0 /\ next <= Len(got) + 1 THEN next ELSE 0

\* stream >> s: white space is skipped, line ends included.
Space == {" ", "CR", "LF"}
SkipSpace(at) ==
  IF at = 0 THEN 0 ELSE SelectInSubSeq(got, at, Len(got), LAMBDA x : x \notin Space)
Extract(at) == Find(SkipSpace(at), Space)
Word(at) == Upto(SkipSpace(at), Extract(at))

\* stream.peek() == 13
AtCarriageReturn_orEof(at) == IF at \in 1..Len(got) THEN got[at] = "CR" ELSE TRUE
AtCarriageReturn(at) == at \in 1..Len(got) /\ got[at] = "CR"

-----------------------------------------------------------------------------
(* What is sent. *)

RequestLine == <<"GET", " ", "/p", " ", "HTTP/1.1", "CR", "LF">>
Written(h) == h.name \o <<":">> \o h.value \o <<"CR", "LF">>

Wire(o) ==
  IF o.program = "clientserver" THEN o.line
  ELSE RequestLine \o FlattenSeq([i \in 1..Len(o.headers) |-> Written(o.headers[i])])
         \o <<"CR", "LF">> \o o.body

\* The request ProxyHandler writes: an empty line after the request line, no
\* colon in the headers. RequestHandler says which path it asks for.
Proxied(hs, content) ==
  RequestLine \o <<"CR", "LF">>
    \o FlattenSeq([i \in 1..Len(hs) |->
                     hs[i].first \o <<" ">> \o hs[i].second \o <<"CR", "LF">>])
    \o <<"CR", "LF">> \o content

Init ==
  /\ origin \in Origin /\ text = Wire(origin)
  /\ cut = FALSE /\ hop = 0
  /\ got = <<>> /\ stream = 0 /\ path = <<>> /\ headers = <<>> /\ body = <<>>
  /\ pc = "reading"
  /\ client = IF origin.program = "clientserver" THEN "reading" ELSE "browser"

-----------------------------------------------------------------------------
(* Server::session and parseRequest *)

\* read_some returns any part of what was sent; it fails at the end of file,
\* which a clientserver that has nothing to send and nothing to read causes.
ReadSome ==
  /\ pc = "reading"
  /\ \/ \E n \in 1..Len(text) :
          /\ got' = SubSeq(text, 1, n) /\ stream' = 1
          /\ cut' = (cut \/ n < Len(text)) /\ pc' = "line"
     \/ text = <<>> /\ client = "printed" /\ pc' = "thrown" /\ UNCHANGED <<got, stream, cut>>
  /\ UNCHANGED <<origin, text, hop, path, headers, body, client>>

\* Method, path and version; then "don't care about newlines".
ParseLine ==
  /\ pc = "line" /\ pc' = "headers"
  /\ \E at \in {Extract(stream)} :
       /\ path' = Word(at)
       /\ \E version \in {Extract(at)} :
            stream' = Ignore(Extract(version), 1, "LF")
  /\ UNCHANGED <<origin, text, cut, hop, got, headers, body, client>>

\* After the name: "ignore whitespace". After the value: "don't care about
\* newlines".
AfterName_bare(at) == GetLine(at, ":")
AfterName(at) == Ignore(GetLine(at, ":"), 1, " ")
AfterValue_bare(at) == GetLine(at, "CR")
AfterValue(at) == Ignore(GetLine(at, "CR"), 1, "LF")

push_none(hs, h) == hs
push_back(hs, h) == Append(hs, h)

\* One pass of the loop: stoi of an empty string throws, push_back may.
ParseHeader ==
  LET first == Line(stream, ":")
  IN  /\ pc = "headers" /\ ~AtCarriageReturn(stream)
      /\ \/ first = <<"Content-Length">> /\ pc' = "thrown" /\ UNCHANGED <<stream, headers>>
         \/ /\ first # <<"Content-Length">> /\ Len(headers) < MaxHeaders
            /\ \E at \in {AfterName(stream)} :
                 /\ headers' = push_back(headers,
                                 [first |-> first, second |-> Line(at, "CR")])
                 /\ stream' = AfterValue(at)
            /\ UNCHANGED pc
         \/ /\ first # <<"Content-Length">> /\ Len(headers) = MaxHeaders
            /\ pc' = "exhausted" /\ UNCHANGED <<stream, headers>>
      /\ UNCHANGED <<origin, text, cut, hop, got, path, body, client>>

\* resize to the uninitialized length, then read what there is.
ParseBody ==
  /\ pc = "headers" /\ AtCarriageReturn(stream)
  /\ \E content_length \in Garbage :
       \/ content_length < 0 /\ pc' = "thrown" /\ UNCHANGED body
       \/ /\ content_length >= 0 /\ pc' = "parsed"
          /\ LET rest == Upto(Ignore(stream, 2, "LF"), 0)
             IN  body' = [i \in 1..content_length |->
                            IF i <= Len(rest) THEN rest[i] ELSE "NUL"]
  /\ UNCHANGED <<origin, text, cut, hop, got, stream, path, headers, client>>

\* ProxyHandler::HandleRequest sends the request on to another WeServd.
Forward ==
  /\ pc = "parsed" /\ hop < MaxHops
  /\ text' = Proxied(headers, body) /\ hop' = hop + 1
  /\ headers' = <<>> /\ path' = <<>> /\ body' = <<>> /\ pc' = "reading"
  /\ UNCHANGED <<origin, cut, got, stream, client>>

\* Any other handler, or none: an answer is written.
Answer ==
  /\ pc = "parsed" /\ pc' = "answered"
  /\ UNCHANGED <<origin, text, cut, hop, got, stream, path, headers, body, client>>

Session == ReadSome \/ ParseLine \/ ParseHeader \/ ParseBody \/ Answer

-----------------------------------------------------------------------------
(* clientserver *)

\* After its write it reads as many bytes as it wrote. None are there at once;
\* otherwise it waits until an answer has them, or the connection ends.
Read ==
  /\ client = "reading"
  /\ \/ origin.line = <<>> /\ client' = "printed"
     \/ /\ origin.line # <<>> /\ pc \in {"answered", "thrown", "exhausted"}
        /\ client' = IF pc = "answered" THEN "printed" ELSE "failed"
  /\ UNCHANGED <<origin, text, cut, hop, got, stream, path, headers, body, pc>>

Next == Session \/ Forward \/ Read

Spec == Init /\ [][Next]_vars

\* The session's thread and the client's process are scheduled; a request need
\* not be sent on.
FairSpec == Spec /\ WF_vars(Session) /\ WF_vars(Read)

-----------------------------------------------------------------------------
(* Properties. *)

WithValues(hs) == hs # <<>> /\ \A i \in 1..Len(hs) : hs[i].value # <<>>

\* A handler of the first server gets every header that was sent, however the
\* text was cut: the name as it was, the first with the LF that is left of the
\* request line, the value without the character after the colon. A header
\* with an empty value swallows the line after it (Server.cpp:64), and without
\* headers the body is read as some.
HeadersAsSent ==
  (pc = "parsed" /\ hop = 0 /\ origin.program = "browser" /\ WithValues(origin.headers)) =>
    headers = [i \in 1..Len(origin.headers) |->
      [first |-> (IF i = 1 THEN <<"LF">> ELSE <<>>) \o origin.headers[i].name,
       second |-> Tail(origin.headers[i].value)]]

\* get_prefix is given a path with a character to look at.
PathPresent == pc = "parsed" => path # <<>>

\* No colon is followed by another or by the end of its header.
Apart(hs) ==
  \A i \in 1..Len(hs) : \A j \in 1..Len(hs[i].value) + 1 :
    LET line == <<":">> \o hs[i].value \o <<"CR">>
    IN  line[j] = ":" => line[j + 1] \notin {":", "CR"}

\* The places of the colons in a line.
ColonsIn(line) == {j \in DOMAIN line : line[j] = ":"}

Colons(hs) == IF hs = <<>> THEN 0 ELSE Cardinality(ColonsIn(Written(Last(hs))))

\* Each proxy writes headers without their colon, and the next server takes the
\* next colon it finds for one: only a request whose last header has a colon
\* for every server gets through them, or one whose body looks like a header.
ColonPerServer ==
  (/\ pc = "parsed" /\ origin.program = "browser" /\ Apart(origin.headers)
   /\ \A i \in DOMAIN origin.body : origin.body[i] # "CR") =>
     Colons(origin.headers) > hop

\* Conversely the header loop fills the memory only when a read was short, the
\* colons of the last header are used up, some are not apart, or there are more
\* headers than fit.
LoopsOnlyWhenUsedUp ==
  (pc = "exhausted" /\ origin.program = "browser") =>
    \/ cut \/ ~Apart(origin.headers) \/ Colons(origin.headers) <= hop
    \/ Len(origin.headers) > MaxHeaders

\* The client of the repository never shows an answer of the server: its line
\* ends without CR LF, so the server never takes it for a request.
LineNeverAnswered ==
  origin.program = "clientserver" =>
    pc # "answered" /\ (client = "printed" => origin.line = <<>>)

\* Yet neither waits for the other for ever: the server loops until its memory
\* ends, which ends the connection and with it the client's read.
ClientEnds == client = "reading" ~> client # "reading"
=============================================================================
