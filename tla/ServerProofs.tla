----------------------------- MODULE ServerProofs -----------------------------
(***************************************************************************)
(* Proofs, for every set of connections, messages, handlers and every      *)
(* limit, of the type invariant of the server and of its use of            *)
(* descriptors, threads and the shared maps.                               *)
(***************************************************************************)
EXTENDS ServerProperties, SequenceTheorems, FiniteSetTheorems,
        WellFoundedInduction, TLAPS

(***************************************************************************)
(* What the pure operators return.                                         *)
(***************************************************************************)

\* A set of natural numbers has a smallest one.
LEMMA Smallest ==
  ASSUME NEW T, T \subseteq Nat, T # {}
  PROVE  \E x \in T : \A y \in T : x <= y
<1>1. PICK x \in T : \A y \in T : ~(<<y, x>> \in OpToRel(<, Nat))
  BY NatLessThanWellFounded, WFMin
<1>2. \A y \in T : ~(y < x)
  BY <1>1 DEF OpToRel
<1> QED
  BY <1>2

\* A tuple of one element is a sequence.
LEMMA OneElement == \A S : \A x \in S : <<x>> \in Seq(S) /\ Len(<<x>>) = 1
OBVIOUS

\* The strings the code itself writes.
LEMMA Literals ==
  /\ "" \in Text /\ "text/plain" \in Text /\ "request-line" \in Text
  /\ "LF" \in Text /\ "CRLF" \in Text /\ "NUL" \in Text
  /\ "q" \in Text /\ "w" \in Text
BY TextAssumption

\* The fields of a message.
LEMMA MessageFields ==
  ASSUME NEW m \in Message
  PROVE  /\ m.path \in Path /\ m.path # <<>>
         /\ m.headers \in Seq(Text) /\ Len(m.headers) \in Nat
         /\ m.body \in Seq(Text) /\ Len(m.body) \in Nat
<1>1. /\ m.path \in Path /\ m.path # <<>>
      /\ m.headers \in Seq(Text \ Colonless) /\ m.body \in Seq(Text)
  BY MessageAssumption
<1>2. m.headers \in Seq(Text)
  BY <1>1, SeqMonotonic
<1> QED
  BY <1>1, <1>2, LenProperties

\* What a client sends is a sequence of items.
LEMMA ItemsOf ==
  ASSUME NEW hs \in Seq(Text), NEW bytes \in Seq(Text)
  PROVE  LET items == <<"request-line">> \o hs \o <<"CRLF">> \o bytes
         IN  /\ items \in Seq(Text)
             /\ Len(items) = Len(hs) + Len(bytes) + 2
             /\ Len(items) \in Nat
<1> DEFINE line == <<"request-line">>
           upTo == line \o hs
           empty == <<"CRLF">>
           before == upTo \o empty
<1>1. line \in Seq(Text) /\ Len(line) = 1
  BY Literals, OneElement
<1>2. empty \in Seq(Text) /\ Len(empty) = 1
  BY Literals, OneElement
<1>3. upTo \in Seq(Text) /\ Len(upTo) = 1 + Len(hs)
  BY <1>1, ConcatProperties
<1>4. Len(hs) \in Nat /\ Len(bytes) \in Nat
  BY LenProperties
<1> HIDE DEF upTo, empty
<1>5. before \in Seq(Text) /\ Len(before) = Len(hs) + 2
  BY <1>2, <1>3, <1>4, ConcatProperties
<1> HIDE DEF before
<1>6. /\ before \o bytes \in Seq(Text)
      /\ Len(before \o bytes) = Len(before) + Len(bytes)
  BY <1>5, ConcatProperties
<1>7. Len(before \o bytes) = Len(hs) + Len(bytes) + 2
  BY <1>4, <1>5, <1>6
<1> QED
  BY <1>4, <1>6, <1>7 DEF before, upTo, empty

\* What a session has still to extract is a sequence of texts.
LEMMA ItemsType ==
  ASSUME NEW m \in Message
  PROVE  /\ Items(m) \in Seq(Text)
         /\ Len(Items(m)) = Len(m.headers) + Len(m.body) + 2
         /\ Len(Items(m)) \in Nat
BY MessageFields, ItemsOf DEF Items

\* The paths derived from the path of a message.
LEMMA PathTypes ==
  ASSUME NEW p \in Path, p # <<>>
  PROVE  get_file_path(p) \in Path /\ UpstreamPath(p) \in Path
<1>1. p \in Seq(Seq(Text)) /\ Len(p) \in Nat \ {0}
  BY EmptySeq DEF Path
<1>2. Blank \in Seq(Text)
  BY Literals, OneElement DEF Blank
<1>3. <<Blank>> \in Path /\ <<Blank, Blank>> \in Path
  BY <1>2 DEF Path
<1>4. \A k \in {2, 3} : SubSeq(p, k, Len(p)) \in Path
  BY <1>1, SubSeqProperties, ElementOfSeq DEF Path
<1>5. get_file_path(p) \in Path
  BY <1>3, <1>4, ConcatProperties DEF get_file_path, Path
<1>6. UpstreamPath(p) \in Path
  BY <1>3, <1>4, ConcatProperties DEF UpstreamPath, Path
<1> QED
  BY <1>5, <1>6

\* The responses the handlers build are responses.
LEMMA ResponseTypes ==
  /\ NoResponse \in Response /\ NotFound \in Response
  /\ \A p \in Path, b \in Seq(Text) : EchoResponse(p, b) \in Response
  /\ \A p \in Path, mime \in Text : FileResponse(p, mime) \in Response
  /\ \A p \in Path : UpstreamResponse(p) \in Response
<1>1. <<>> \in Path /\ <<>> \in Seq(Text)
  BY EmptySeq DEF Path
<1>2. \A kind \in {"none", "not_found", "echo", "file", "upstream"} :
        \A p \in Path, mime \in Text, b \in Seq(Text) :
          Plain(kind, p, mime, b) \in Response
  BY DEF Plain, Response
<1> QED
  BY <1>1, <1>2, Literals
     DEF NoResponse, NotFound, EchoResponse, FileResponse, UpstreamResponse

-----------------------------------------------------------------------------
(***************************************************************************)
(* Type correctness: one lemma per group of actions.                       *)
(***************************************************************************)

\* The initial state has the types of TypeOK.
LEMMA TypeInit == Init => TypeOK
<1> SUFFICES ASSUME Init PROVE TypeOK
  OBVIOUS
<1>1. handlers \in [DOMAIN HandlerMap -> Handler] /\ mime_types \in [DOMAIN MimeMap -> Text]
  BY HandlerAssumption, MimeAssumption DEF Init
<1>2. \A S : <<>> \in Seq(S)
  BY EmptySeq
<1>3. ASSUME NEW c \in Conn PROVE sent[c] <= Len(Items(message[c]))
  <2>1. message[c] \in Message /\ sent[c] = 0
    BY DEF Init
  <2>2. Len(Items(message[c])) \in Nat
    BY <2>1, ItemsType
  <2> QED
    BY <2>1, <2>2
<1>4. quit \in Text
  BY Literals DEF Init
<1> QED
  BY <1>1, <1>2, <1>3, <1>4, ResponseTypes DEF Init, TypeOK

\* The parts of TypeOK that an exception or a return of a session touches.
LEMMA TypeEndSession ==
  ASSUME NEW c \in Conn, TypeOK, EndSession(c)
  PROVE  /\ fd' \subseteq FdKind \X Conn
         /\ pc' \in [Conn -> {"idle", "backlog", "ended"} \cup Live]
         /\ stream' \in [Conn -> Seq(Text)]
         /\ headers' \in [Conn -> Seq(Seq(Text))]
         /\ body' \in [Conn -> Seq(Text)]
<1>1. \A S : <<>> \in Seq(S)
  BY EmptySeq
<1> QED
  BY <1>1 DEF TypeOK, EndSession

\* An exception caught in Server::session leaves no response.
LEMMA TypeThrow ==
  ASSUME NEW c \in Conn, TypeOK, Throw(c)
  PROVE  /\ fd' \subseteq FdKind \X Conn
         /\ pc' \in [Conn -> {"idle", "backlog", "ended"} \cup Live]
         /\ stream' \in [Conn -> Seq(Text)]
         /\ headers' \in [Conn -> Seq(Seq(Text))]
         /\ body' \in [Conn -> Seq(Text)]
         /\ response' \in [Conn -> Response]
BY TypeEndSession, ResponseTypes DEF TypeOK, Throw

\* An allocation that fails throws, or ends the process with all it has open.
LEMMA TypeOutOfMemory ==
  ASSUME NEW c \in Conn, TypeOK, OutOfMemory(c)
  PROVE  /\ process' \in {"up", "returned", "crashed", "aborted", "killed"}
         /\ fd' \subseteq FdKind \X Conn
         /\ pc' \in [Conn -> {"idle", "backlog", "ended"} \cup Live]
         /\ stream' \in [Conn -> Seq(Text)]
         /\ headers' \in [Conn -> Seq(Seq(Text))]
         /\ body' \in [Conn -> Seq(Text)]
         /\ response' \in [Conn -> Response]
<1>1. CASE Throw(c) /\ UNCHANGED process
  BY <1>1, TypeThrow DEF TypeOK
<1>2. CASE process' = "killed" /\ fd' = {} /\ UNCHANGED sessionVars
  BY <1>2 DEF TypeOK, sessionVars, requestVars
<1> QED
  BY <1>1, <1>2 DEF OutOfMemory

\* Server::run, what follows it in main, and the use of what it destroyed.
LEMMA TypeRun == TypeOK /\ (Run \/ UseDestroyed) => TypeOK'
<1> SUFFICES ASSUME TypeOK, Run \/ UseDestroyed PROVE TypeOK'
  OBVIOUS
<1>1. CASE Unwind
  BY <1>1 DEF Unwind, TypeOK, mapVars, endVars, clientVars, sessionVars, requestVars
<1>2. CASE Return \/ UseDestroyed
  BY <1>2 DEF Return, UseDestroyed, Stop, TypeOK, mapVars, endVars, clientVars,
              sessionVars, requestVars
<1>3. ASSUME NEW c \in Conn, Accept(c) PROVE TypeOK'
  <2>1. fd' \subseteq FdKind \X Conn
    BY <1>3 DEF Accept, TypeOK, FdKind
  <2>2. pc' \in [Conn -> {"idle", "backlog", "ended"} \cup Live]
    BY <1>3 DEF Accept, Goto, TypeOK, Live
  <2>3. main' \in {"accepting", "spawning", "unwinding", "destroyed"}
    BY <1>3 DEF Accept, TypeOK
  <2> QED
    BY <1>3, <2>1, <2>2, <2>3 DEF Accept, TypeOK, mapVars, endVars, clientVars, requestVars
<1>4. ASSUME NEW c \in Conn, Spawn(c) PROVE TypeOK'
  <2>1. /\ fd' \subseteq FdKind \X Conn
        /\ pc' \in [Conn -> {"idle", "backlog", "ended"} \cup Live]
        /\ stream' \in [Conn -> Seq(Text)]
        /\ headers' \in [Conn -> Seq(Seq(Text))]
        /\ body' \in [Conn -> Seq(Text)]
    BY <1>4, TypeEndSession
       DEF Spawn, Goto, TypeOK, Live, Running, requestVars
  <2>2. main' \in {"accepting", "spawning", "unwinding", "destroyed"}
    BY <1>4 DEF Spawn
  <2>3. UNCHANGED <<process, handlers, mime_types, quit, typed, message, sent, client, response>>
    BY <1>4 DEF Spawn, mapVars, endVars, clientVars
  <2> QED
    BY <2>1, <2>2, <2>3 DEF TypeOK
<1> QED
  BY <1>1, <1>2, <1>3, <1>4 DEF Run

\* Server::end.
LEMMA TypeEnd == TypeOK /\ End => TypeOK'
<1> SUFFICES ASSUME TypeOK, End PROVE TypeOK'
  OBVIOUS
<1>1. CASE ReadQuit
  <2>1. quit' \in Text /\ typed' \in Seq(Text)
    BY <1>1, HeadTailProperties DEF ReadQuit, TypeOK
  <2> QED
    BY <1>1, <2>1 DEF ReadQuit, TypeOK, mapVars, clientVars, sessionVars, requestVars
<1>2. CASE ThrowExit
  BY <1>2 DEF ThrowExit, Stop, TypeOK, mapVars, endVars, clientVars,
              sessionVars, requestVars
<1> QED
  BY <1>1, <1>2 DEF End

\* Clients, upstreams and the keyboard.
LEMMA TypeEnvironment == TypeOK /\ Environment => TypeOK'
<1> SUFFICES ASSUME TypeOK, Environment PROVE TypeOK'
  OBVIOUS
<1>1. ASSUME NEW c \in Conn, Connect(c) PROVE TypeOK'
  BY <1>1 DEF Connect, Goto, TypeOK, mapVars, endVars, clientVars, requestVars
<1>2. ASSUME NEW c \in Conn, Send(c) PROVE TypeOK'
  <2>1. sent' \in [Conn -> Nat] /\ \A d \in Conn : sent'[d] <= Len(Items(message[d]))
    <3>1. \A d \in Conn : Len(Items(message[d])) \in Nat
      BY ItemsType DEF TypeOK
    <3> QED
      BY <1>2, <3>1 DEF Send, TypeOK
  <2> QED
    BY <1>2, <2>1 DEF Send, TypeOK, mapVars, endVars, sessionVars, requestVars
<1>3. ASSUME NEW c \in Conn, Leave(c) PROVE TypeOK'
  <2>1. client' \in [Conn -> {"live", "stalled", "closed"}]
    BY <1>3, BoundAssumption DEF Leave, TypeOK
  <2> QED
    BY <1>3, <2>1 DEF Leave, TypeOK, mapVars, endVars, sessionVars, requestVars
<1>4. ASSUME NEW c \in Conn, Relay(c) PROVE TypeOK'
  <2>1. UpstreamPath(message[c].path) \in Path
    BY MessageFields, PathTypes DEF TypeOK
  <2>2. /\ process' \in {"up", "returned", "crashed", "aborted", "killed"}
        /\ fd' \subseteq FdKind \X Conn
        /\ pc' \in [Conn -> {"idle", "backlog", "ended"} \cup Live]
        /\ stream' \in [Conn -> Seq(Text)]
        /\ headers' \in [Conn -> Seq(Seq(Text))]
        /\ body' \in [Conn -> Seq(Text)]
        /\ response' \in [Conn -> Response]
    <3>1. CASE /\ Respond(c, UpstreamResponse(UpstreamPath(message[c].path)))
               /\ fd' = fd \ HandlerFds(c) /\ UNCHANGED <<process, requestVars>>
      BY <2>1, <3>1, ResponseTypes
         DEF Respond, Goto, TypeOK, Live, Running, requestVars
    <3>2. CASE Throw(c) /\ UNCHANGED process
      BY <3>2, TypeThrow DEF TypeOK
    <3>3. CASE OutOfMemory(c)
      BY <3>3, TypeOutOfMemory
    <3> QED
      BY <1>4, <3>1, <3>2, <3>3 DEF Relay
  <2> QED
    BY <1>4, <2>2 DEF Relay, TypeOK, mapVars, endVars, clientVars
<1>6. ASSUME NEW c \in Conn, UsePrivate(c) PROVE TypeOK'
  <2>1. fd' \subseteq FdKind \X Conn
    BY <1>6 DEF UsePrivate, TypeOK, FdKind
  <2> QED
    BY <1>6, <2>1
       DEF UsePrivate, TypeOK, mapVars, endVars, clientVars, sessionVars, requestVars
<1>5. ASSUME NEW word \in Word, Type(word) PROVE TypeOK'
  <2>1. typed' \in Seq(Text)
    BY <1>5, Literals, AppendProperties DEF Type, Word, TypeOK
  <2> QED
    BY <1>5, <2>1 DEF Type, TypeOK, mapVars, clientVars, sessionVars, requestVars
<1> QED
  BY <1>1, <1>2, <1>3, <1>4, <1>5, <1>6 DEF Environment

\* A pass of the header loop takes at least one item of a stream that has any,
\* and no more than there are.
LEMMA PassedBounds ==
  ASSUME NEW st \in Seq(Text)
  PROVE  /\ Passed(st) \in 0..Len(st) /\ Len(st) \in Nat
         /\ st # <<>> => Passed(st) >= 1
<1>1. Len(st) \in Nat /\ (st # <<>> => Len(st) >= 1)
  BY LenProperties, EmptySeq
<1>2. CASE \E i \in 1..Len(st) : HasColon(st[i])
  <2> DEFINE first(n) == HasColon(st[n]) /\ \A i \in 1..(n - 1) : ~HasColon(st[i])
             T == {n \in 1..Len(st) : HasColon(st[n])}
  <2>1. T \subseteq Nat /\ T # {}
    BY <1>1, <1>2
  <2>2. PICK n \in T : \A k \in T : n <= k
    BY <2>1, Smallest
  <2>3. n \in 1..Len(st) /\ first(n)
    BY <1>1, <2>2
  <2> HIDE DEF first
  <2>4. (CHOOSE k \in 1..Len(st) : first(k)) \in 1..Len(st)
    BY <2>3
  <2>5. Passed(st) = CHOOSE k \in 1..Len(st) : first(k)
    BY <1>2 DEF Passed, first
  <2> QED
    BY <1>1, <2>4, <2>5
<1>3. CASE ~\E i \in 1..Len(st) : HasColon(st[i])
  BY <1>1, <1>3 DEF Passed
<1> QED
  BY <1>2, <1>3

\* Where it ends: at the first item with a colon, or where the stream does.
LEMMA PassedIsFirst ==
  ASSUME NEW st \in Seq(Text), st # <<>>
  PROVE  /\ Passed(st) \in 1..Len(st) /\ Passed(st) \in Nat /\ Len(st) \in Nat
         /\ Passed(st) < Len(st) => HasColon(st[Passed(st)])
         /\ \A i \in 1..(Passed(st) - 1) : ~HasColon(st[i])
<1>1. Passed(st) \in 1..Len(st) /\ Len(st) \in Nat
  BY PassedBounds
<1> DEFINE first(n) == HasColon(st[n]) /\ \A i \in 1..(n - 1) : ~HasColon(st[i])
<1>2. CASE \E i \in 1..Len(st) : HasColon(st[i])
  <2>1. Passed(st) = CHOOSE k \in 1..Len(st) : first(k)
    BY <1>2 DEF Passed
  <2> DEFINE T == {n \in 1..Len(st) : HasColon(st[n])}
  <2>2. T \subseteq Nat /\ T # {}
    BY <1>1, <1>2
  <2>3. PICK n \in T : \A k \in T : n <= k
    BY <2>2, Smallest
  <2>4. n \in 1..Len(st) /\ first(n)
    BY <1>1, <2>3
  <2> HIDE DEF first
  <2>5. first(Passed(st))
    BY <2>1, <2>4
  <2> QED
    BY <1>1, <2>5 DEF first
<1>3. CASE ~\E i \in 1..Len(st) : HasColon(st[i])
  <2>1. Passed(st) = Len(st)
    BY <1>3 DEF Passed
  <2>2. \A i \in 1..(Len(st) - 1) : i \in 1..Len(st)
    BY <1>1
  <2> QED
    BY <1>1, <1>3, <2>1, <2>2
<1> QED
  BY <1>2, <1>3

\* What it takes and what it leaves are sequences of texts.
LEMMA PassedTypes ==
  ASSUME NEW st \in Seq(Text)
  PROVE  /\ SubSeq(st, 1, Passed(st)) \in Seq(Text)
         /\ Rest(st, Passed(st)) \in Seq(Text)
<1>1. Passed(st) \in 0..Len(st) /\ Len(st) \in Nat
  BY PassedBounds
<1>2. \A i \in 1..Len(st) : st[i] \in Text
  BY ElementOfSeq
<1>3. SubSeq(st, 1, Passed(st)) \in Seq(Text)
  BY <1>1, <1>2, SubSeqProperties
<1>4. SubSeq(st, Passed(st) + 1, Len(st)) \in Seq(Text)
  BY <1>1, <1>2, SubSeqProperties
<1> QED
  BY <1>3, <1>4 DEF Rest

\* A body of any length is a sequence of texts of that length.
LEMMA FilledTypes ==
  ASSUME NEW rest \in Seq(Text), NEW length \in Nat
  PROVE  Filled(rest, length) \in Seq(Text) /\ Len(Filled(rest, length)) = length
<1>1. ASSUME NEW i \in 1..length
      PROVE  (IF i <= Len(rest) THEN rest[i] ELSE "NUL") \in Text
  <2>1. CASE i <= Len(rest)
    <3>1. i \in 1..Len(rest)
      BY <2>1, LenProperties
    <3> QED
      BY <2>1, <3>1, ElementOfSeq
  <2>2. CASE ~(i <= Len(rest))
    BY <2>2, Literals
  <2> QED
    BY <2>1, <2>2
<1>2. Filled(rest, length) \in [1..length -> Text]
  BY <1>1 DEF Filled
<1> QED
  BY <1>2, SeqDef, LenProperties

\* Parsing: what a session has still to extract stays a sequence of items.
LEMMA TypeParse ==
  ASSUME NEW c \in Conn, TypeOK, ReadSome(c) \/ ParseHeader(c) \/ ParseBody(c)
  PROVE  TypeOK'
<1>1. CASE ReadSome(c)
  <2>1. ASSUME NEW n \in Nat, n <= sent[c]
        PROVE  <<"LF">> \o SubSeq(Items(message[c]), 2, n) \in Seq(Text)
    <3> DEFINE items == Items(message[c])
    <3>0. message[c] \in Message /\ sent[c] \in Nat /\ sent[c] <= Len(items)
      BY DEF TypeOK
    <3>1. items \in Seq(Text) /\ Len(items) \in Nat
      BY <3>0, ItemsType
    <3>5. n <= Len(items)
      BY <2>1, <3>0, <3>1
    <3>2. \A i \in 2..n : items[i] \in Text
      BY <3>1, <3>5, ElementOfSeq
    <3>3. SubSeq(items, 2, n) \in Seq(Text)
      BY <3>2, SubSeqProperties
    <3>4. <<"LF">> \in Seq(Text)
      BY Literals, OneElement
    <3> QED
      BY <3>3, <3>4, ConcatProperties
  <2>2. ASSUME sent[c] > 0,
               LET n == IF sent[c] < MaxLength THEN sent[c] ELSE MaxLength
               IN  stream' = [stream EXCEPT
                                ![c] = <<"LF">> \o SubSeq(Items(message[c]), 2, n)]
        PROVE  stream' \in [Conn -> Seq(Text)]
    BY <2>1, <2>2, BoundAssumption DEF TypeOK
  <2>3. /\ fd' \subseteq FdKind \X Conn
        /\ pc' \in [Conn -> {"idle", "backlog", "ended"} \cup Live]
        /\ stream' \in [Conn -> Seq(Text)]
        /\ headers' \in [Conn -> Seq(Seq(Text))]
        /\ body' \in [Conn -> Seq(Text)]
        /\ response' \in [Conn -> Response]
    <3>1. CASE Throw(c)
      BY <3>1, TypeThrow
    <3>2. CASE ~Throw(c)
      BY <1>1, <2>2, <3>2 DEF ReadSome, Goto, TypeOK, Live, Running
    <3> QED
      BY <3>1, <3>2
  <2> QED
    BY <1>1, <2>3 DEF ReadSome, TypeOK, mapVars, endVars, clientVars
<1>2. CASE ParseHeader(c)
  <2> DEFINE st == stream[c]
             name == SubSeq(st, 1, Passed(st))
             left == Rest(st, Passed(st))
  <2>1. name \in Seq(Text) /\ left \in Seq(Text)
    BY PassedTypes DEF TypeOK
  <2>2. push_back(headers[c], name) \in Seq(Seq(Text))
    BY <2>1, AppendProperties DEF push_back, TypeOK
  <2>3. \/ Throw(c) /\ UNCHANGED process
        \/ /\ headers' = [headers EXCEPT ![c] = push_back(@, name)]
           /\ stream' = [stream EXCEPT ![c] = left]
           /\ UNCHANGED <<process, fd, pc, body, response>>
        \/ OutOfMemory(c)
    BY <1>2 DEF ParseHeader
  <2> HIDE DEF name, left
  <2>4. /\ process' \in {"up", "returned", "crashed", "aborted", "killed"}
        /\ fd' \subseteq FdKind \X Conn
        /\ pc' \in [Conn -> {"idle", "backlog", "ended"} \cup Live]
        /\ stream' \in [Conn -> Seq(Text)]
        /\ headers' \in [Conn -> Seq(Seq(Text))]
        /\ body' \in [Conn -> Seq(Text)]
        /\ response' \in [Conn -> Response]
    <3>1. CASE Throw(c) /\ UNCHANGED process
      BY <3>1, TypeThrow DEF TypeOK
    <3>2. CASE /\ headers' = [headers EXCEPT ![c] = push_back(@, name)]
               /\ stream' = [stream EXCEPT ![c] = left]
               /\ UNCHANGED <<process, fd, pc, body, response>>
      BY <2>1, <2>2, <3>2 DEF TypeOK
    <3>3. CASE OutOfMemory(c)
      BY <3>3, TypeOutOfMemory
    <3> QED
      BY <2>3, <3>1, <3>2, <3>3
  <2> QED
    BY <1>2, <2>4 DEF ParseHeader, TypeOK, mapVars, endVars, clientVars
<1>3. CASE ParseBody(c)
  <2> PICK content_length \in Garbage :
        \/ content_length < 0 /\ Throw(c) /\ UNCHANGED process
        \/ /\ content_length >= 0 /\ HeapHas(content_length)
           /\ body' = [body EXCEPT ![c] = Filled(Tail(stream[c]), content_length)]
           /\ stream' = [stream EXCEPT ![c] = <<>>]
           /\ Goto(c, "dispatch")
           /\ UNCHANGED <<process, fd, headers, response>>
        \/ content_length >= 0 /\ ~HeapHas(content_length) /\ OutOfMemory(c)
    BY <1>3 DEF ParseBody
  <2> DEFINE filled == Filled(Tail(stream[c]), content_length)
  <2>1. Tail(stream[c]) \in Seq(Text)
    <3>1. stream[c] \in Seq(Text) /\ stream[c] # <<>>
      BY <1>3 DEF ParseBody, AtCarriageReturn, TypeOK
    <3> QED
      BY <3>1, HeadTailProperties
  <2>2. content_length >= 0 => filled \in Seq(Text)
    <3>1. content_length >= 0 => content_length \in Nat
      BY GarbageAssumption
    <3>2. \A rest \in Seq(Text), length \in Nat : Filled(rest, length) \in Seq(Text)
      BY FilledTypes
    <3> QED
      BY <2>1, <3>1, <3>2
  <2> HIDE DEF filled
  <2>3. /\ process' \in {"up", "returned", "crashed", "aborted", "killed"}
        /\ fd' \subseteq FdKind \X Conn
        /\ pc' \in [Conn -> {"idle", "backlog", "ended"} \cup Live]
        /\ stream' \in [Conn -> Seq(Text)]
        /\ headers' \in [Conn -> Seq(Seq(Text))]
        /\ body' \in [Conn -> Seq(Text)]
        /\ response' \in [Conn -> Response]
    <3>1. CASE Throw(c) /\ UNCHANGED process
      BY <3>1, TypeThrow DEF TypeOK
    <3>2. CASE OutOfMemory(c)
      BY <3>2, TypeOutOfMemory
    <3>3. CASE /\ content_length >= 0 /\ body' = [body EXCEPT ![c] = filled]
               /\ stream' = [stream EXCEPT ![c] = <<>>]
               /\ Goto(c, "dispatch") /\ UNCHANGED <<process, fd, headers, response>>
      <4>1. <<>> \in Seq(Text)
        BY EmptySeq
      <4> QED
        BY <2>2, <3>3, <4>1 DEF Goto, TypeOK, Live, Running
    <3> QED
      BY <3>1, <3>2, <3>3 DEF filled
  <2> QED
    BY <1>3, <2>3 DEF ParseBody, TypeOK, mapVars, endVars, clientVars
<1> QED
  BY <1>1, <1>2, <1>3

\* operator[] on a key that count found leaves the map as it is.
LEMMA SubscriptReads ==
  ASSUME NEW S, NEW T, NEW map \in [S -> T], NEW key, count(map, key), NEW default
  PROVE  Subscript(map, key, default) = map
BY DEF count, Subscript

\* The handlers: dispatch, the answers, and the write that ends the session.
LEMMA TypeHandle ==
  ASSUME NEW c \in Conn, TypeOK,
         Dispatch(c) \/ OpenFile(c) \/ SlurpFile(c) \/ ConnectUpstream(c) \/ Write(c)
  PROVE  TypeOK'
<1> DEFINE path == message[c].path
           prefix == get_prefix(path)
           ext == extension(path)
<1>1. path \in Path /\ get_file_path(path) \in Path
  BY MessageFields, PathTypes DEF TypeOK
<1>2. CASE Dispatch(c)
  <2>1. handlers' = handlers
    BY <1>2, SubscriptReads DEF Dispatch, TypeOK
  <2>2. EchoResponse(path, body[c]) \in Response /\ NotFound \in Response
    BY <1>1, ResponseTypes DEF TypeOK
  <2>3. \/ /\ \E r \in {NotFound, EchoResponse(path, body[c])} : Respond(c, r)
           /\ UNCHANGED <<process, fd, requestVars>>
        \/ /\ (Goto(c, "opening") \/ Goto(c, "connecting")) /\ response' = response
           /\ UNCHANGED <<process, fd, requestVars>>
        \/ OutOfMemory(c)
    BY <1>2 DEF Dispatch, Invoke
  <2>4. /\ process' \in {"up", "returned", "crashed", "aborted", "killed"}
        /\ fd' \subseteq FdKind \X Conn
        /\ pc' \in [Conn -> {"idle", "backlog", "ended"} \cup Live]
        /\ stream' \in [Conn -> Seq(Text)]
        /\ headers' \in [Conn -> Seq(Seq(Text))]
        /\ body' \in [Conn -> Seq(Text)]
        /\ response' \in [Conn -> Response]
    <3>1. ASSUME NEW r \in Response, Respond(c, r), UNCHANGED <<process, fd, requestVars>>
          PROVE  <2>4
      BY <3>1 DEF Respond, Goto, TypeOK, Live, Running, requestVars
    <3>2. CASE /\ (Goto(c, "opening") \/ Goto(c, "connecting")) /\ response' = response
               /\ UNCHANGED <<process, fd, requestVars>>
      BY <3>2 DEF Goto, TypeOK, Live, Running, requestVars
    <3>3. CASE OutOfMemory(c)
      BY <3>3, TypeOutOfMemory
    <3> QED
      BY <2>2, <2>3, <3>1, <3>2, <3>3
  <2> QED
    BY <1>2, <2>1, <2>4 DEF Dispatch, TypeOK, endVars, clientVars
<1>3. CASE OpenFile(c)
  <2>1. mime_types' = mime_types
    BY <1>3, SubscriptReads DEF OpenFile, TypeOK
  <2>2. (IF count(mime_types, ext) THEN mime_types'[ext] ELSE "text/plain") \in Text
    BY <2>1, Literals DEF TypeOK, count
  <2>3. /\ NotFound \in Response
        /\ FileResponse(get_file_path(path),
             IF count(mime_types, ext) THEN mime_types'[ext] ELSE "text/plain") \in Response
    BY <1>1, <2>2, ResponseTypes
  <2>4. /\ fd' \subseteq FdKind \X Conn
        /\ pc' \in [Conn -> {"idle", "backlog", "ended"} \cup Live]
        /\ stream' \in [Conn -> Seq(Text)]
        /\ headers' \in [Conn -> Seq(Seq(Text))]
        /\ body' \in [Conn -> Seq(Text)]
        /\ response' \in [Conn -> Response]
    <3>1. CASE Throw(c)
      BY <3>1, TypeThrow
    <3>2. CASE Respond(c, NotFound) /\ UNCHANGED <<fd, requestVars>>
      BY <2>3, <3>2 DEF Respond, Goto, TypeOK, Live, Running, requestVars
    <3> DEFINE mime == IF count(mime_types, ext) THEN mime_types'[ext] ELSE "text/plain"
               opened == FileResponse(get_file_path(path), mime)
    <3>3. CASE /\ fd' = fd \cup {<<"aux", c>>} /\ Goto(c, "slurping")
               /\ response' = [response EXCEPT ![c] = opened]
               /\ UNCHANGED requestVars
      <4>1. opened \in Response
        BY <2>3
      <4> HIDE DEF opened
      <4> QED
        BY <3>3, <4>1 DEF Goto, TypeOK, Live, Running, requestVars, FdKind
    <3> QED
      BY <1>3, <3>1, <3>2, <3>3 DEF OpenFile
  <2> QED
    BY <1>3, <2>1, <2>4 DEF OpenFile, TypeOK, endVars, clientVars
<1>4. CASE SlurpFile(c)
  <2>1. /\ process' \in {"up", "returned", "crashed", "aborted", "killed"}
        /\ fd' \subseteq FdKind \X Conn
        /\ pc' \in [Conn -> {"idle", "backlog", "ended"} \cup Live]
        /\ stream' \in [Conn -> Seq(Text)]
        /\ headers' \in [Conn -> Seq(Seq(Text))]
        /\ body' \in [Conn -> Seq(Text)]
        /\ response' \in [Conn -> Response]
    <3>1. CASE /\ fd' = fd \ {<<"aux", c>>} /\ Goto(c, "writing")
               /\ UNCHANGED <<process, requestVars, response>>
      BY <3>1 DEF Goto, TypeOK, Live, Running, requestVars
    <3>2. CASE OutOfMemory(c)
      BY <3>2, TypeOutOfMemory
    <3> QED
      BY <1>4, <3>1, <3>2 DEF SlurpFile
  <2> QED
    BY <1>4, <2>1 DEF SlurpFile, TypeOK, mapVars, endVars, clientVars
<1>5. CASE ConnectUpstream(c)
  <2>1. /\ fd' \subseteq FdKind \X Conn
        /\ pc' \in [Conn -> {"idle", "backlog", "ended"} \cup Live]
        /\ stream' \in [Conn -> Seq(Text)]
        /\ headers' \in [Conn -> Seq(Seq(Text))]
        /\ body' \in [Conn -> Seq(Text)]
        /\ response' \in [Conn -> Response]
    <3>1. CASE Throw(c)
      BY <3>1, TypeThrow
    <3>2. CASE /\ fd' = fd \cup {<<"aux", c>>} /\ Goto(c, "relaying")
               /\ UNCHANGED <<requestVars, response>>
      BY <3>2 DEF Goto, TypeOK, Live, Running, requestVars, FdKind
    <3> QED
      BY <1>5, <3>1, <3>2 DEF ConnectUpstream
  <2> QED
    BY <1>5, <2>1 DEF ConnectUpstream, TypeOK, mapVars, endVars, clientVars
<1>6. CASE Write(c)
  <2>1. /\ fd' \subseteq FdKind \X Conn
        /\ pc' \in [Conn -> {"idle", "backlog", "ended"} \cup Live]
        /\ stream' \in [Conn -> Seq(Text)]
        /\ headers' \in [Conn -> Seq(Seq(Text))]
        /\ body' \in [Conn -> Seq(Text)]
        /\ response' \in [Conn -> Response]
    BY <1>6, TypeEndSession, TypeThrow DEF Write, TypeOK
  <2> QED
    BY <1>6, <2>1 DEF Write, TypeOK, mapVars, endVars, clientVars
<1> QED
  BY <1>2, <1>3, <1>4, <1>5, <1>6

\* Every step keeps the types.
LEMMA TypeNext == TypeOK /\ [Next]_vars => TypeOK'
<1> SUFFICES ASSUME TypeOK, [Next]_vars PROVE TypeOK'
  OBVIOUS
<1>1. CASE Run \/ UseDestroyed
  BY <1>1, TypeRun
<1>2. CASE End
  BY <1>2, TypeEnd
<1>3. CASE Environment
  BY <1>3, TypeEnvironment
<1>4. ASSUME NEW c \in Conn, Session(c) PROVE TypeOK'
  BY <1>4, TypeParse, TypeHandle DEF Session
<1>5. CASE UNCHANGED vars
  BY <1>5 DEF vars, mapVars, endVars, clientVars, sessionVars, requestVars, TypeOK
<1> QED
  BY <1>1, <1>2, <1>3, <1>4, <1>5 DEF Next

\* The variables of the server always have their types: responses, headers and
\* paths stay what the handlers take and return, whatever is sent.
THEOREM TypeCorrect == Spec => []TypeOK
<1>1. Init => TypeOK
  BY TypeInit
<1>2. TypeOK /\ [Next]_vars => TypeOK'
  BY TypeNext
<1> QED
  BY <1>1, <1>2, PTL DEF Spec

-----------------------------------------------------------------------------
(***************************************************************************)
(* Descriptors. The invariant is inductive by itself: each action opens    *)
(* and closes what its change of control owes.                             *)
(***************************************************************************)

\* The three sorts of descriptors are apart.
LEMMA Kinds == "sock" # "aux" /\ "sock" \notin Private /\ "aux" \notin Private
BY PrivateAssumption

\* A step that moves one session and opens and closes its descriptors only.
LEMMA OneSessionMoves ==
  ASSUME TypeOK, \A d \in Conn : Accounted(d), NEW c \in Conn, NEW label,
         Goto(c, label),
         \A d \in Conn \ {c}, kind \in FdKind : <<kind, d>> \in fd' <=> <<kind, d>> \in fd,
         <<"sock", c>> \in fd' <=> label \in Live,
         <<"aux", c>> \in fd' <=> label \in {"slurping", "relaying"},
         \A kind \in Private : <<kind, c>> \in fd' => label \in {"connecting", "relaying"}
  PROVE  \A d \in Conn : Accounted(d)'
<1> TAKE d \in Conn
<1>1. pc'[d] = IF d = c THEN label ELSE pc[d]
  BY DEF Goto, TypeOK
<1>2. CASE d = c
  BY <1>1, <1>2 DEF Accounted
<1>3. CASE d # c
  <2>1. \A kind \in FdKind : <<kind, d>> \in fd' <=> <<kind, d>> \in fd
    BY <1>3
  <2>2. pc'[d] = pc[d] /\ Accounted(d)
    BY <1>1, <1>3
  <2> QED
    BY <2>1, <2>2 DEF Accounted, FdKind
<1> QED
  BY <1>2, <1>3

\* A session that ends closes what it had open, and nothing else.
LEMMA DescriptorsEnd ==
  ASSUME TypeOK, \A d \in Conn : Accounted(d), NEW c \in Conn, EndSession(c)
  PROVE  \A d \in Conn : Accounted(d)'
<1>1. Goto(c, "ended") /\ fd' = fd \ Descriptors(c)
  BY DEF EndSession, Goto
<1>2. \A d \in Conn \ {c}, kind \in FdKind : <<kind, d>> \in fd' <=> <<kind, d>> \in fd
  BY <1>1 DEF Descriptors, HandlerFds
<1>3. \A kind \in FdKind : <<kind, c>> \notin fd'
  BY <1>1 DEF Descriptors, HandlerFds, FdKind
<1>4. <<"sock", c>> \notin fd' /\ <<"aux", c>> \notin fd'
  BY <1>3 DEF FdKind
<1>5. \A kind \in Private : <<kind, c>> \notin fd'
  BY <1>3 DEF FdKind
<1> QED
  BY <1>1, <1>2, <1>4, <1>5, OneSessionMoves DEF Live, Running

\* Every step keeps the descriptors accounted for.
LEMMA DescriptorsNext ==
  TypeOK /\ DescriptorsAccounted /\ [Next]_vars => DescriptorsAccounted'
<1> SUFFICES ASSUME TypeOK, DescriptorsAccounted, [Next]_vars
             PROVE  DescriptorsAccounted'
  OBVIOUS
<1>1. CASE UNCHANGED <<process, fd, pc>>
  BY <1>1 DEF DescriptorsAccounted, Accounted, Up
<1>2. ASSUME NEW how \in {"returned", "crashed", "aborted", "killed"},
             process' = how, fd' = {}
      PROVE  DescriptorsAccounted'
  BY <1>2 DEF DescriptorsAccounted, Up
<1>3. Up => \A c \in Conn : Accounted(c)
  BY DEF DescriptorsAccounted
<1>4. ASSUME Up, UNCHANGED process, \A c \in Conn : Accounted(c)'
      PROVE  DescriptorsAccounted'
  BY <1>4 DEF DescriptorsAccounted, Up
<1>5. ASSUME NEW c \in Conn, Up, UNCHANGED process, Throw(c)
      PROVE  DescriptorsAccounted'
  BY <1>3, <1>4, <1>5, DescriptorsEnd DEF Throw
<1>20. ASSUME NEW c \in Conn, Up, OutOfMemory(c) PROVE DescriptorsAccounted'
  BY <1>2, <1>5, <1>20 DEF OutOfMemory
<1>6. ASSUME NEW c \in Conn, NEW label, Up, UNCHANGED <<process, fd>>, Goto(c, label),
             pc[c] \in Live <=> label \in Live,
             pc[c] \notin {"slurping", "relaying", "connecting"},
             label \notin {"slurping", "relaying"}
      PROVE  DescriptorsAccounted'
  <2>1. Accounted(c) /\ \A d \in Conn : Accounted(d)
    BY <1>3, <1>6
  <2>2. \A d \in Conn : Accounted(d)'
    <3>1. /\ <<"sock", c>> \in fd' <=> label \in Live
          /\ <<"aux", c>> \in fd' <=> label \in {"slurping", "relaying"}
          /\ \A kind \in Private : <<kind, c>> \in fd' => label \in {"connecting", "relaying"}
      BY <1>6, <2>1 DEF Accounted
    <3>2. \A d \in Conn \ {c}, kind \in FdKind : <<kind, d>> \in fd' <=> <<kind, d>> \in fd
      BY <1>6
    <3> QED
      BY <1>6, <2>1, <3>1, <3>2, OneSessionMoves
  <2> QED
    BY <1>4, <1>6, <2>2
<1>7. ASSUME NEW c \in Conn, Accept(c) PROVE DescriptorsAccounted'
  <2>1. CASE UNCHANGED <<fd, pc>>
    BY <1>1, <1>7, <2>1 DEF Accept
  <2>2. CASE fd' = fd \cup {<<"sock", c>>} /\ Goto(c, "accepted")
    <3>1. Up /\ UNCHANGED process /\ pc[c] = "backlog" /\ Accounted(c)
      BY <1>3, <1>7 DEF Accept
    <3>2. /\ <<"sock", c>> \in fd'
          /\ <<"aux", c>> \notin fd'
          /\ \A kind \in Private : <<kind, c>> \notin fd'
      BY <2>2, <3>1, Kinds DEF Accounted
    <3>3. \A d \in Conn \ {c}, kind \in FdKind : <<kind, d>> \in fd' <=> <<kind, d>> \in fd
      BY <2>2
    <3>4. \A d \in Conn : Accounted(d)'
      BY <1>3, <2>2, <3>1, <3>2, <3>3, OneSessionMoves DEF Live, Running
    <3> QED
      BY <1>4, <3>1, <3>4
  <2> QED
    BY <1>7, <2>1, <2>2 DEF Accept
<1>8. ASSUME NEW c \in Conn, Spawn(c) PROVE DescriptorsAccounted'
  <2>1. Up /\ UNCHANGED process /\ pc[c] = "accepted"
    BY <1>8 DEF Spawn
  <2>2. CASE EndSession(c)
    BY <1>3, <1>4, <2>1, <2>2, DescriptorsEnd
  <2>3. CASE Goto(c, "reading") /\ UNCHANGED fd
    BY <1>6, <2>1, <2>3 DEF Live, Running
  <2> QED
    BY <1>8, <2>2, <2>3 DEF Spawn
<1>9. CASE Unwind
  BY <1>1, <1>9 DEF Unwind, sessionVars
<1>10. CASE Return \/ UseDestroyed \/ ThrowExit
  BY <1>2, <1>10 DEF Return, UseDestroyed, ThrowExit, Stop
<1>11. CASE ReadQuit
  BY <1>1, <1>11 DEF ReadQuit, sessionVars
<1>12. ASSUME NEW c \in Conn, Connect(c) PROVE DescriptorsAccounted'
  BY <1>6, <1>12 DEF Connect, Live, Running
<1>13. ASSUME NEW c \in Conn, Send(c) \/ Leave(c) PROVE DescriptorsAccounted'
  BY <1>1, <1>13 DEF Send, Leave, sessionVars
<1>14. ASSUME NEW word, Type(word) PROVE DescriptorsAccounted'
  BY <1>1, <1>14 DEF Type, sessionVars
<1>15. ASSUME NEW c \in Conn, ReadSome(c) PROVE DescriptorsAccounted'
  <2>1. \/ Up /\ UNCHANGED process /\ Throw(c)
        \/ Up /\ pc[c] = "reading" /\ Goto(c, "parsing") /\ UNCHANGED <<process, fd>>
    BY <1>15 DEF ReadSome
  <2> QED
    BY <1>5, <1>6, <2>1 DEF Live, Running
<1>16. ASSUME NEW c \in Conn, ParseHeader(c) PROVE DescriptorsAccounted'
  <2>1. \/ Up /\ UNCHANGED process /\ Throw(c)
        \/ UNCHANGED <<process, fd, pc>>
        \/ Up /\ OutOfMemory(c)
    BY <1>16 DEF ParseHeader
  <2> QED
    BY <1>1, <1>5, <1>20, <2>1
<1>17. ASSUME NEW c \in Conn, ParseBody(c) PROVE DescriptorsAccounted'
  <2>1. \/ Up /\ UNCHANGED process /\ Throw(c)
        \/ /\ Up /\ pc[c] = "parsing" /\ Goto(c, "dispatch")
           /\ UNCHANGED <<process, fd>>
        \/ Up /\ OutOfMemory(c)
    BY <1>17 DEF ParseBody
  <2> QED
    BY <1>5, <1>6, <1>20, <2>1 DEF Live, Running
<1>18. ASSUME NEW c \in Conn, Dispatch(c) PROVE DescriptorsAccounted'
  <2>1. \/ /\ Up /\ pc[c] = "dispatch" /\ UNCHANGED <<process, fd>>
           /\ \E label \in {"writing", "opening", "connecting"} : Goto(c, label)
        \/ Up /\ OutOfMemory(c)
    BY <1>18 DEF Dispatch, Invoke, Respond
  <2> QED
    BY <1>6, <1>20, <2>1 DEF Live, Running
<1>21. ASSUME NEW c \in Conn, UsePrivate(c) PROVE DescriptorsAccounted'
  <2>1. /\ Up /\ UNCHANGED <<process, pc>> /\ pc[c] = "connecting"
        /\ \E kind \in Private : fd' = fd \cup {<<kind, c>>} \/ fd' = fd \ {<<kind, c>>}
    BY <1>21 DEF UsePrivate, sessionVars
  <2>2. PICK kind \in Private : fd' = fd \cup {<<kind, c>>} \/ fd' = fd \ {<<kind, c>>}
    BY <2>1
  <2>3. ASSUME NEW d \in Conn PROVE Accounted(d)'
    <3>1. Accounted(d)
      BY <1>3, <2>1
    <3>2. /\ <<"sock", d>> \in fd' <=> <<"sock", d>> \in fd
          /\ <<"aux", d>> \in fd' <=> <<"aux", d>> \in fd
      BY <2>2, Kinds
    <3>3. \A k \in Private : <<k, d>> \in fd' => <<k, d>> \in fd \/ d = c
      BY <2>2
    <3> QED
      BY <2>1, <3>1, <3>2, <3>3 DEF Accounted
  <2> QED
    BY <1>4, <2>1, <2>3
<1>19. ASSUME NEW c \in Conn, OpenFile(c) \/ ConnectUpstream(c) \/ SlurpFile(c)
                              \/ Relay(c) \/ Write(c)
       PROVE  DescriptorsAccounted'
  <2>1. Up /\ pc[c] \in Running
    BY <1>19 DEF OpenFile, ConnectUpstream, SlurpFile, Relay, Write, Running
  <2>9. Accounted(c) /\ \A d \in Conn : Accounted(d)
    BY <1>3, <2>1
  <2>2. CASE Throw(c) /\ UNCHANGED process
    BY <1>5, <2>1, <2>2
  <2>3. CASE EndSession(c) /\ UNCHANGED process
    BY <1>3, <1>4, <2>1, <2>3, DescriptorsEnd
  <2>4. CASE pc[c] = "opening" /\ Goto(c, "writing") /\ UNCHANGED <<process, fd>>
    BY <1>6, <2>1, <2>4 DEF Live, Running
  <2>5. CASE /\ fd' = fd \cup {<<"aux", c>>} /\ UNCHANGED process
             /\ \/ pc[c] = "opening" /\ Goto(c, "slurping")
                \/ pc[c] = "connecting" /\ Goto(c, "relaying")
    <3>1. /\ <<"sock", c>> \in fd' /\ <<"aux", c>> \in fd'
          /\ pc[c] = "opening" => \A kind \in Private : <<kind, c>> \notin fd'
      BY <2>1, <2>5, <2>9, Kinds DEF Accounted, Live
    <3>2. \A d \in Conn \ {c}, kind \in FdKind : <<kind, d>> \in fd' <=> <<kind, d>> \in fd
      BY <2>5
    <3>3. CASE pc[c] = "opening" /\ Goto(c, "slurping")
      <4>1. \A d \in Conn : Accounted(d)'
        BY <2>9, <3>1, <3>2, <3>3, OneSessionMoves DEF Live, Running
      <4> QED
        BY <1>4, <2>1, <2>5, <4>1
    <3>4. CASE pc[c] = "connecting" /\ Goto(c, "relaying")
      <4>1. \A d \in Conn : Accounted(d)'
        BY <2>9, <3>1, <3>2, <3>4, OneSessionMoves DEF Live, Running
      <4> QED
        BY <1>4, <2>1, <2>5, <4>1
    <3> QED
      BY <2>5, <3>3, <3>4
  <2>6. CASE /\ Goto(c, "writing") /\ UNCHANGED process
             /\ \/ pc[c] = "slurping" /\ fd' = fd \ {<<"aux", c>>}
                \/ fd' = fd \ HandlerFds(c)
    <3>1. /\ <<"sock", c>> \in fd' /\ <<"aux", c>> \notin fd'
          /\ \A kind \in Private : <<kind, c>> \notin fd'
      BY <2>1, <2>6, <2>9, Kinds DEF Accounted, Live, HandlerFds
    <3>2. \A d \in Conn \ {c}, kind \in FdKind : <<kind, d>> \in fd' <=> <<kind, d>> \in fd
      BY <2>6 DEF HandlerFds
    <3>3. \A d \in Conn : Accounted(d)'
      BY <2>6, <2>9, <3>1, <3>2, OneSessionMoves DEF Live, Running
    <3> QED
      BY <1>4, <2>1, <2>6, <3>3
  <2>7. CASE OutOfMemory(c)
    BY <1>20, <2>1, <2>7
  <2> QED
    BY <1>19, <2>2, <2>3, <2>4, <2>5, <2>6, <2>7
       DEF OpenFile, ConnectUpstream, SlurpFile, Relay, Write, Respond
<1> QED
  <2>1. CASE UNCHANGED vars
    BY <1>1, <2>1 DEF vars, sessionVars
  <2>2. CASE Next
    BY <2>2, <1>7, <1>8, <1>9, <1>10, <1>11, <1>12, <1>13, <1>14, <1>15, <1>16,
       <1>17, <1>18, <1>19, <1>21 DEF Next, Run, End, Environment, Session
  <2> QED
    BY <2>1, <2>2

\* No descriptor leaks and none is closed under its session, whichever way
\* Server::session ends and whatever fails on the way.
THEOREM DescriptorsCorrect == Spec => []DescriptorsAccounted
<1>1. Init => DescriptorsAccounted
  BY DEF Init, DescriptorsAccounted, Accounted, Up, Live, Running
<1>2. TypeOK /\ DescriptorsAccounted /\ [Next]_vars => DescriptorsAccounted'
  BY DescriptorsNext
<1> QED
  BY <1>1, <1>2, TypeCorrect, PTL DEF Spec

-----------------------------------------------------------------------------
(***************************************************************************)
(* Capacity. The connection being accepted holds no descriptor and runs no *)
(* thread yet: the others hold at most PerConnection descriptors and one   *)
(* thread each.                                                            *)
(***************************************************************************)

\* What a connection may hold is a number.
LEMMA PerConnectionKinds ==
  /\ IsFiniteSet(FdKind) /\ Cardinality(FdKind) = PerConnection
  /\ PerConnection \in Nat
<1>1. IsFiniteSet(Private) /\ Cardinality(Private) \in Nat
  BY PrivateAssumption, FS_CardinalityType
<1>2. /\ IsFiniteSet(Private \cup {"aux"})
      /\ Cardinality(Private \cup {"aux"}) = Cardinality(Private) + 1
  BY <1>1, Kinds, FS_AddElement
<1>3. "sock" \notin Private \cup {"aux"}
  BY Kinds
<1>4. /\ IsFiniteSet((Private \cup {"aux"}) \cup {"sock"})
      /\ Cardinality((Private \cup {"aux"}) \cup {"sock"})
           = Cardinality(Private \cup {"aux"}) + 1
  BY <1>2, <1>3, FS_AddElement
<1>5. (Private \cup {"aux"}) \cup {"sock"} = FdKind
  BY DEF FdKind
<1> QED
  BY <1>1, <1>2, <1>4, <1>5 DEF PerConnection

\* What the connections of S hold is at most that for each.
LEMMA SomeEach ==
  ASSUME NEW S, IsFiniteSet(S), NEW F \in SUBSET (FdKind \X S)
  PROVE  /\ IsFiniteSet(F) /\ Cardinality(F) \in Nat
         /\ Cardinality(F) <= PerConnection * Cardinality(S)
<1>1. /\ IsFiniteSet(FdKind \X S)
      /\ Cardinality(FdKind \X S) = Cardinality(FdKind) * Cardinality(S)
  BY PerConnectionKinds, FS_Product
<1>2. IsFiniteSet(F) /\ Cardinality(F) <= Cardinality(FdKind \X S)
  BY <1>1, FS_Subset
<1>3. Cardinality(F) \in Nat
  BY <1>2, FS_CardinalityType
<1>4. Cardinality(FdKind \X S) = PerConnection * Cardinality(S)
  BY <1>1, PerConnectionKinds
<1> QED
  BY <1>2, <1>3, <1>4

\* A connection that waits to be accepted leaves its share of descriptors free.
LEMMA RoomToAccept ==
  ASSUME TypeOK, \A d \in Conn : Accounted(d), NEW c \in Conn, pc[c] = "backlog",
         MaxFds >= PerConnection * (Cardinality(Conn) - 1) + 1
  PROVE  ~FdsFull
<1> DEFINE others == Conn \ {c}
<1>1. /\ IsFiniteSet(others) /\ Cardinality(others) = Cardinality(Conn) - 1
      /\ Cardinality(Conn) \in Nat
  BY ConnAssumption, FS_RemoveElement, FS_CardinalityType
<1>2. fd \in SUBSET (FdKind \X others)
  <2>1. \A kind \in FdKind : <<kind, c>> \notin fd
    BY DEF Accounted, Live, Running, FdKind
  <2>2. fd \subseteq FdKind \X Conn
    BY DEF TypeOK
  <2> QED
    BY <2>1, <2>2
<1> HIDE DEF others
<1>3. /\ Cardinality(fd) \in Nat
      /\ Cardinality(fd) <= PerConnection * Cardinality(others)
  BY <1>1, <1>2, SomeEach
<1>4. Cardinality(fd) <= PerConnection * (Cardinality(Conn) - 1)
  BY <1>1, <1>3
<1> DEFINE held == PerConnection * (Cardinality(Conn) - 1)
<1>5. held \in Int /\ MaxFds \in Nat
  BY <1>1, PerConnectionKinds, BoundAssumption
<1>6. Cardinality(fd) <= held /\ MaxFds >= held + 1
  BY <1>4
<1> HIDE DEF held
<1> QED
  BY <1>3, <1>5, <1>6 DEF FdsFull

\* An accepted connection has a thread left to run on.
LEMMA RoomToSpawn ==
  ASSUME NEW c \in Conn, pc[c] = "accepted", MaxThreads >= Cardinality(Conn)
  PROVE  ~(Cardinality(Threads) >= MaxThreads)
<1> DEFINE others == Conn \ {c}
<1>1. /\ IsFiniteSet(others) /\ Cardinality(others) = Cardinality(Conn) - 1
      /\ Cardinality(Conn) \in Nat
  BY ConnAssumption, FS_RemoveElement, FS_CardinalityType
<1>2. Threads \in SUBSET others
  BY DEF Threads, Running
<1>3. IsFiniteSet(Threads) /\ Cardinality(Threads) <= Cardinality(others)
  BY <1>1, <1>2, FS_Subset
<1>4. Cardinality(Threads) \in Nat /\ MaxThreads \in Nat
  BY <1>3, FS_CardinalityType, BoundAssumption
<1> QED
  BY <1>1, <1>3, <1>4

\* The accept loop never fails, so nothing after it is reached.
Serving ==
  main \in {"accepting", "spawning"} /\ process \in {"up", "aborted", "killed"}

\* Every step keeps the accept loop going when there is room.
LEMMA CapacityNext ==
  ASSUME TypeOK, DescriptorsAccounted, Serving, [Next]_vars,
         MaxFds >= PerConnection * (Cardinality(Conn) - 1) + 1,
         MaxThreads >= Cardinality(Conn)
  PROVE  Serving'
<1>1. Up => \A d \in Conn : Accounted(d)
  BY DEF DescriptorsAccounted
<1>2. ASSUME NEW c \in Conn, Accept(c) PROVE Serving'
  BY <1>1, <1>2, RoomToAccept DEF Accept, Serving
<1>3. ASSUME NEW c \in Conn, Spawn(c) PROVE Serving'
  BY <1>3, RoomToSpawn DEF Spawn, Serving
<1>4. CASE Unwind \/ Return \/ UseDestroyed
  BY <1>4 DEF Unwind, Return, UseDestroyed, Serving
<1>5. CASE End
  BY <1>5 DEF End, ReadQuit, ThrowExit, Stop, Serving
<1>10. ASSUME NEW c \in Conn, OutOfMemory(c), UNCHANGED main PROVE Serving'
  BY <1>10 DEF OutOfMemory, Serving
<1>6. CASE Environment
  BY <1>6, <1>10
     DEF Environment, Connect, Send, Leave, UsePrivate, Relay, Type, Serving
<1>7. ASSUME NEW c \in Conn, ParseHeader(c) \/ ParseBody(c) PROVE Serving'
  BY <1>7, <1>10 DEF ParseHeader, ParseBody, Serving
<1>8. ASSUME NEW c \in Conn, Session(c), ~ParseHeader(c), ~ParseBody(c) PROVE Serving'
  BY <1>8, <1>10 DEF Session, ReadSome, Dispatch, OpenFile, SlurpFile,
                     ConnectUpstream, Write, Serving
<1>9. CASE UNCHANGED vars
  BY <1>9 DEF vars, Serving
<1> QED
  BY <1>2, <1>3, <1>4, <1>5, <1>6, <1>7, <1>8, <1>9 DEF Next, Run

\* With what each connection but one may hold (its socket, its handler's file or
\* upstream, what asio opens for a proxy), one descriptor more, and a thread for
\* each, the accept loop of Server::run never throws, and the Server is never destroyed
\* under a running session.
THEOREM CapacityCorrect == Spec => []CapacitySuffices
<1>1. Init => CapacitySuffices
  BY DEF Init, CapacitySuffices
<1>2. TypeOK /\ DescriptorsAccounted /\ CapacitySuffices /\ [Next]_vars
        => CapacitySuffices'
  BY CapacityNext DEF CapacitySuffices, Serving
<1> QED
  BY <1>1, <1>2, TypeCorrect, DescriptorsCorrect, PTL DEF Spec

-----------------------------------------------------------------------------
(***************************************************************************)
(* The shared maps, and what a 404 says.                                   *)
(***************************************************************************)

\* The sessions leave the maps as configured.
Maps == handlers = HandlerMap /\ mime_types = MimeMap

\* No step of the server writes to either map.
LEMMA MapsNext == TypeOK /\ [Next]_vars => UNCHANGED mapVars
<1> SUFFICES ASSUME TypeOK, [Next]_vars PROVE UNCHANGED mapVars
  OBVIOUS
<1>1. ASSUME NEW c \in Conn, Dispatch(c) PROVE UNCHANGED mapVars
  BY <1>1, SubscriptReads DEF Dispatch, TypeOK, mapVars
<1>2. ASSUME NEW c \in Conn, OpenFile(c) PROVE UNCHANGED mapVars
  BY <1>2, SubscriptReads DEF OpenFile, TypeOK, mapVars
<1>3. ASSUME NEW c \in Conn, Session(c), ~Dispatch(c), ~OpenFile(c)
      PROVE  UNCHANGED mapVars
  BY <1>3 DEF Session, ReadSome, ParseHeader, ParseBody, SlurpFile,
              ConnectUpstream, Write
<1>4. CASE Run \/ UseDestroyed \/ End
  BY <1>4 DEF Run, Accept, Spawn, Unwind, Return, UseDestroyed, End, ReadQuit,
              ThrowExit, Stop
<1>5. CASE Environment
  BY <1>5 DEF Environment, Connect, Send, Leave, UsePrivate, Relay, Type
<1>6. CASE UNCHANGED vars
  BY <1>6 DEF vars
<1> QED
  BY <1>1, <1>2, <1>3, <1>4, <1>5, <1>6 DEF Next

\* No session ever inserts into the dispatch map or the MIME table: the reads
\* the threads make without a lock do not race.
THEOREM MapsReadOnly == Spec => SharedMapsReadOnly
<1>1. TypeOK /\ [Next]_vars => [UNCHANGED mapVars]_mapVars
  BY MapsNext
<1> QED
  BY <1>1, TypeCorrect, PTL DEF Spec, SharedMapsReadOnly

\* The maps are those the server was started with.
LEMMA MapsConfigured == Spec => []Maps
<1>1. Init => Maps
  BY DEF Init, Maps
<1>2. TypeOK /\ Maps /\ [Next]_vars => Maps'
  BY MapsNext DEF Maps, mapVars
<1> QED
  BY <1>1, <1>2, TypeCorrect, PTL DEF Spec

\* What a session's control and answer say of its request.
Dispatched(c) ==
  LET prefix == get_prefix(message[c].path)
  IN  /\ pc[c] = "opening" =>
           prefix \in DOMAIN HandlerMap /\ HandlerMap[prefix].type = "static"
      /\ NotFoundIsTrue(c)

\* With that and one descriptor more there is one left to open a file.
LEMMA RoomToOpen ==
  ASSUME TypeOK, \A d \in Conn : Accounted(d), NEW c \in Conn, pc[c] = "opening",
         MaxFds >= PerConnection * (Cardinality(Conn) - 1) + 2
  PROVE  ~FdsFull
<1> DEFINE others == Conn \ {c}
           rest == fd \ {<<"sock", c>>}
<1>1. /\ IsFiniteSet(others) /\ Cardinality(others) = Cardinality(Conn) - 1
      /\ Cardinality(Conn) \in Nat
  BY ConnAssumption, FS_RemoveElement, FS_CardinalityType
<1>2. rest \in SUBSET (FdKind \X others)
  <2>1. \A kind \in FdKind : <<kind, c>> \in fd => kind = "sock"
    BY DEF Accounted, FdKind
  <2>2. fd \subseteq FdKind \X Conn
    BY DEF TypeOK
  <2> QED
    BY <2>1, <2>2
<1>3. IsFiniteSet(fd) /\ Cardinality(fd) \in Nat
  BY ConnAssumption, SomeEach DEF TypeOK
<1>4. <<"sock", c>> \in fd
  BY DEF Accounted, Live, Running
<1>5. Cardinality(rest) = Cardinality(fd) - 1
  BY <1>3, <1>4, FS_RemoveElement
<1> HIDE DEF others, rest
<1>6. Cardinality(rest) <= PerConnection * Cardinality(others)
  BY <1>1, <1>2, SomeEach
<1>7. Cardinality(rest) <= PerConnection * (Cardinality(Conn) - 1)
  BY <1>1, <1>6
<1> DEFINE held == PerConnection * (Cardinality(Conn) - 1)
<1>8. held \in Int /\ MaxFds \in Nat
  BY <1>1, PerConnectionKinds, BoundAssumption
<1>9. Cardinality(rest) <= held /\ MaxFds >= held + 2
  BY <1>7
<1> HIDE DEF held
<1> QED
  BY <1>3, <1>5, <1>8, <1>9 DEF FdsFull

\* No other answer is taken for a 404.
LEMMA OtherAnswers ==
  /\ NoResponse # NotFound
  /\ \A q, b : EchoResponse(q, b) # NotFound
  /\ \A q, mime : FileResponse(q, mime) # NotFound
  /\ \A q : UpstreamResponse(q) # NotFound
<1>1. \A kind, q, mime, b : Plain(kind, q, mime, b).kind = kind
  BY DEF Plain
<1>2. NotFound.kind = "not_found" /\ NoResponse.kind = "none"
  BY <1>1 DEF NotFound, NoResponse
<1>3. \A q, b : EchoResponse(q, b).kind = "echo"
  BY <1>1 DEF EchoResponse
<1>4. \A q, mime : FileResponse(q, mime).kind = "file"
  BY <1>1 DEF FileResponse
<1>5. \A q : UpstreamResponse(q).kind = "upstream"
  BY <1>1 DEF UpstreamResponse
<1> QED
  BY <1>2, <1>3, <1>4, <1>5

\* Every step keeps each 404 true when there is room.
LEMMA NotFoundNext ==
  ASSUME TypeOK, DescriptorsAccounted, Maps, [Next]_vars,
         MaxFds >= PerConnection * (Cardinality(Conn) - 1) + 2,
         \A c \in Conn : Dispatched(c)
  PROVE  \A c \in Conn : Dispatched(c)'
<1> USE DEF Dispatched, NotFoundIsTrue
<1>1. CASE UNCHANGED <<message, pc, response>>
  BY <1>1
<1>2. ASSUME NEW c \in Conn, NEW label, label # "opening",
             Goto(c, label), UNCHANGED <<message, response>>
      PROVE  \A d \in Conn : Dispatched(d)'
  BY <1>2 DEF Goto, TypeOK
<1>3. ASSUME NEW c \in Conn, NEW label, label # "opening",
             NEW r, r # NotFound,
             Goto(c, label), response' = [response EXCEPT ![c] = r], UNCHANGED message
      PROVE  \A d \in Conn : Dispatched(d)'
  BY <1>3 DEF Goto, TypeOK
<1>5. /\ NoResponse # NotFound
      /\ \A q, b : EchoResponse(q, b) # NotFound
      /\ \A q, mime : FileResponse(q, mime) # NotFound
      /\ \A q : UpstreamResponse(q) # NotFound
  BY OtherAnswers
<1>6. ASSUME NEW c \in Conn, Throw(c), UNCHANGED message
      PROVE  \A d \in Conn : Dispatched(d)'
  BY <1>3, <1>5, <1>6 DEF Throw, EndSession, Goto
<1>17. ASSUME NEW c \in Conn, OutOfMemory(c), UNCHANGED message
       PROVE  \A d \in Conn : Dispatched(d)'
  BY <1>1, <1>6, <1>17 DEF OutOfMemory, sessionVars
<1>7. ASSUME NEW c \in Conn, Dispatch(c) PROVE \A d \in Conn : Dispatched(d)'
  <2> DEFINE prefix == get_prefix(message[c].path)
  <2>1. UNCHANGED message /\ handlers = HandlerMap
    BY <1>7 DEF Dispatch, clientVars, Maps
  <2>2. CASE ~count(handlers, prefix)
    <3>1. /\ Goto(c, "writing") /\ response' = [response EXCEPT ![c] = NotFound]
          /\ prefix \notin DOMAIN HandlerMap
      BY <1>7, <2>1, <2>2 DEF Dispatch, Respond, count
    <3> QED
      BY <2>1, <3>1 DEF Goto, TypeOK
  <2>3. CASE count(handlers, prefix)
    <3>1. /\ Invoke(c, HandlerMap[prefix]) \/ OutOfMemory(c)
          /\ prefix \in DOMAIN HandlerMap
      BY <1>7, <2>1, <2>3, SubscriptReads DEF Dispatch, TypeOK, count
    <3>2. CASE HandlerMap[prefix].type = "static" /\ Goto(c, "opening") /\ UNCHANGED response
      BY <2>1, <3>1, <3>2 DEF Goto, TypeOK
    <3>3. CASE Goto(c, "connecting") /\ UNCHANGED response
      BY <1>2, <2>1, <3>3
    <3>4. CASE Respond(c, EchoResponse(message[c].path, body[c]))
      BY <1>3, <1>5, <2>1, <3>4 DEF Respond
    <3>5. CASE OutOfMemory(c)
      BY <1>17, <2>1, <3>5
    <3> QED
      BY <3>1, <3>2, <3>3, <3>4, <3>5 DEF Invoke
  <2> QED
    BY <2>2, <2>3
<1>8. ASSUME NEW c \in Conn, OpenFile(c) PROVE \A d \in Conn : Dispatched(d)'
  <2> DEFINE path == message[c].path
             prefix == get_prefix(path)
             file == <<HandlerMap[prefix].root, get_file_path(path)>>
  <2>1. /\ UNCHANGED message /\ handlers = HandlerMap
        /\ pc[c] = "opening" /\ Up
    BY <1>8 DEF OpenFile, clientVars, Maps
  <2>2. prefix \in DOMAIN HandlerMap /\ HandlerMap[prefix].type = "static"
    BY <2>1
  <2>3. ~FdsFull
    BY <2>1, RoomToOpen DEF DescriptorsAccounted
  <2>4. CASE Throw(c)
    BY <1>6, <2>1, <2>4
  <2>5. CASE file \notin Files /\ Respond(c, NotFound)
    BY <2>1, <2>2, <2>5 DEF Respond, Goto, TypeOK
  <2>6. ASSUME NEW mime, Goto(c, "slurping"),
               response' = [response EXCEPT ![c] = FileResponse(file[2], mime)]
        PROVE  \A d \in Conn : Dispatched(d)'
    <3>1. FileResponse(file[2], mime) # NotFound
      BY OtherAnswers
    <3> QED
      BY <1>3, <2>1, <2>6, <3>1
  <2> QED
    BY <1>8, <2>1, <2>3, <2>4, <2>5, <2>6 DEF OpenFile
<1>9. ASSUME NEW c \in Conn, Spawn(c) PROVE \A d \in Conn : Dispatched(d)'
  BY <1>2, <1>9 DEF Spawn, EndSession, Goto, clientVars
<1>10. ASSUME NEW c \in Conn, Relay(c) PROVE \A d \in Conn : Dispatched(d)'
  BY <1>3, <1>5, <1>6, <1>10, <1>17 DEF Relay, Respond, clientVars
<1>11. ASSUME NEW c \in Conn, Write(c) PROVE \A d \in Conn : Dispatched(d)'
  BY <1>2, <1>6, <1>11 DEF Write, EndSession, Goto, clientVars
<1>12. ASSUME NEW c \in Conn, Accept(c) \/ Connect(c) \/ SlurpFile(c)
       PROVE  \A d \in Conn : Dispatched(d)'
  BY <1>1, <1>2, <1>12, <1>17 DEF Accept, Connect, SlurpFile, clientVars
<1>13. ASSUME NEW c \in Conn,
              ReadSome(c) \/ ParseHeader(c) \/ ParseBody(c) \/ ConnectUpstream(c)
       PROVE  \A d \in Conn : Dispatched(d)'
  <2>1. UNCHANGED message
    BY <1>13 DEF ReadSome, ParseHeader, ParseBody, ConnectUpstream, clientVars
  <2>2. \/ Throw(c)
        \/ OutOfMemory(c)
        \/ UNCHANGED <<pc, response>>
        \/ /\ \E label \in {"parsing", "dispatch", "relaying"} : Goto(c, label)
           /\ UNCHANGED response
    BY <1>13 DEF ReadSome, ParseHeader, ParseBody, ConnectUpstream, sessionVars
  <2> QED
    BY <1>1, <1>2, <1>6, <1>17, <2>1, <2>2
<1>14. CASE Unwind \/ Return \/ UseDestroyed \/ End
  BY <1>1, <1>14 DEF Unwind, Return, UseDestroyed, End, ReadQuit, ThrowExit, Stop,
                     clientVars, sessionVars
<1>15. CASE \/ \E c \in Conn : Send(c) \/ Leave(c) \/ UsePrivate(c)
            \/ \E word \in Word : Type(word)
  BY <1>1, <1>15 DEF Send, Leave, UsePrivate, Type, clientVars, sessionVars
<1>16. CASE UNCHANGED vars
  BY <1>1, <1>16 DEF vars, clientVars, sessionVars
<1> QED
  BY <1>7, <1>8, <1>9, <1>10, <1>11, <1>12, <1>13, <1>14, <1>15, <1>16
     DEF Next, Run, Environment, Session

\* With one descriptor more than CapacityCorrect asks for, a 404 is only ever sent when no
\* handler has the prefix of the path or the file is not there.
THEOREM NotFoundCorrect == Spec => []NotFoundMeansMissing
<1> DEFINE Enough == MaxFds >= PerConnection * (Cardinality(Conn) - 1) + 2
           Inv == Enough => \A c \in Conn : Dispatched(c)
<1>1. Init => Inv
  BY OtherAnswers DEF Init, Dispatched, NotFoundIsTrue
<1>2. TypeOK /\ DescriptorsAccounted /\ Maps /\ Inv /\ [Next]_vars => Inv'
  BY NotFoundNext
<1>3. Inv => NotFoundMeansMissing
  BY DEF Dispatched, NotFoundMeansMissing
<1> QED
  BY <1>1, <1>2, <1>3, TypeCorrect, DescriptorsCorrect, MapsConfigured, PTL DEF Spec
=============================================================================
