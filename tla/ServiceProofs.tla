----------------------------- MODULE ServiceProofs -----------------------------
(***************************************************************************)
(* Proof that the server implements the HTTP service it promises, for      *)
(* every set of connections, messages, handlers and every limit: every     *)
(* step of its threads is a step of HttpService or leaves it as it is.     *)
(***************************************************************************)
EXTENDS ServerProofs

(***************************************************************************)
(* The answers a request may get.                                          *)
(***************************************************************************)

\* A sequence of two elements is the pair of them.
LEMMA Pair ==
  ASSUME NEW S, NEW s \in Seq(S), Len(s) = 2
  PROVE  s = <<s[1], s[2]>>
<1>1. s[1] \in S /\ s[2] \in S
  BY ElementOfSeq
<1>2. <<s[1], s[2]>> \in Seq(S) /\ Len(<<s[1], s[2]>>) = 2
  BY <1>1
<1>3. \A i \in 1..2 : <<s[1], s[2]>>[i] = s[i]
  OBVIOUS
<1> QED
  BY <1>2, <1>3, SeqEqual

\* The first two pieces of a path, when it starts with "/".
LEMMA PrefixOf ==
  ASSUME NEW p \in Path, p # <<>>
  PROVE  /\ StartsWithSlash(p) => get_prefix(p) = <<p[1], p[2]>>
         /\ ~StartsWithSlash(p) => get_prefix(p) = p
<1> DEFINE n == Len(p)
<1>1. p \in Seq(Seq(Text)) /\ n \in Nat
  BY LenProperties DEF Path
<1>2. StartsWithSlash(p) => n > 1
  BY DEF StartsWithSlash
<1>3. ASSUME StartsWithSlash(p), n > 2 PROVE get_prefix(p) = <<p[1], p[2]>>
  <2>1. get_prefix(p) = SubSeq(p, 1, 2)
    BY <1>3 DEF get_prefix
  <2>2. \A i \in 1..2 : p[i] \in Seq(Text)
    <3> HIDE DEF n
    <3>1. \A i \in 1..2 : i \in 1..n
      BY <1>1, <1>3
    <3> QED
      BY <1>1, <3>1, ElementOfSeq DEF n
  <2>3. /\ SubSeq(p, 1, 2) \in Seq(Seq(Text)) /\ Len(SubSeq(p, 1, 2)) = 2
        /\ SubSeq(p, 1, 2)[1] = p[1] /\ SubSeq(p, 1, 2)[2] = p[2]
    <3>1. /\ SubSeq(p, 1, 2) \in Seq(Seq(Text))
          /\ Len(SubSeq(p, 1, 2)) = IF 1 <= 2 THEN 2 - 1 + 1 ELSE 0
          /\ \A i \in 1..2 - 1 + 1 : SubSeq(p, 1, 2)[i] = p[1 + i - 1]
      BY <2>2, SubSeqProperties
    <3> QED
      BY <3>1
  <2> QED
    BY <2>1, <2>2, <2>3, Pair
<1>4. ASSUME StartsWithSlash(p), ~(n > 2) PROVE get_prefix(p) = <<p[1], p[2]>>
  <2>1. get_prefix(p) = p
    BY <1>4 DEF get_prefix
  <2>2. n = 2
    <3> HIDE DEF n
    <3> QED
      BY <1>1, <1>2, <1>4
  <2> QED
    BY <1>1, <2>1, <2>2, Pair
<1>5. ~StartsWithSlash(p) => get_prefix(p) = p
  BY DEF get_prefix
<1> QED
  BY <1>3, <1>4, <1>5

\* The handlers of the dispatch rule are the one registered under the prefix
\* the server cuts off the path.
LEMMA MatchingIsPrefix ==
  ASSUME NEW p \in Path, p # <<>>
  PROVE  Matching(p) = {get_prefix(p)} \cap DOMAIN HandlerMap
<1>1. CASE StartsWithSlash(p)
  <2>1. get_prefix(p) = <<p[1], p[2]>>
    BY <1>1, PrefixOf
  <2>2. 2 \in 2..Len(p)
    BY <1>1, LenProperties DEF StartsWithSlash, Path
  <2>3. ASSUME NEW k \in Matching(p) PROVE k = <<p[1], p[2]>>
    BY <2>3 DEF Matching
  <2>4. <<p[1], p[2]>> \in DOMAIN HandlerMap => <<p[1], p[2]>> \in Matching(p)
    BY <2>2 DEF Matching
  <2> QED
    BY <2>1, <2>3, <2>4 DEF Matching
<1>2. CASE ~StartsWithSlash(p)
  <2>1. get_prefix(p) \notin DOMAIN HandlerMap
    BY <1>2, PrefixOf, HandlerAssumption
  <2>2. ASSUME NEW k \in Matching(p) PROVE FALSE
    <3>1. PICK i \in 2..Len(p) : k = <<p[1], p[i]>>
      BY <2>2 DEF Matching
    <3>2. k[1] = Blank
      BY <2>2, HandlerAssumption DEF Matching, StartsWithSlash
    <3>3. p[1] = Blank
      BY <3>1, <3>2
    <3>4. Len(p) > 1
      BY <3>1, LenProperties DEF Path
    <3> QED
      BY <1>2, <3>3, <3>4 DEF StartsWithSlash
  <2> QED
    BY <2>1, <2>2
<1> QED
  BY <1>1, <1>2

\* What the service permits, in terms of the handler of the prefix.
LEMMA PermittedByPrefix ==
  ASSUME NEW m \in Message
  PROVE  LET prefix == get_prefix(m.path)
         IN  PermittedAnswers[m] =
               IF prefix \in DOMAIN HandlerMap
               THEN AnswersOf(HandlerMap[prefix].type, m.path)
               ELSE {Answer("not_found", <<>>)}
<1> DEFINE prefix == get_prefix(m.path)
<1>1. Matching(m.path) = {prefix} \cap DOMAIN HandlerMap
  BY MessageFields, MatchingIsPrefix
<1> HIDE DEF prefix
<1>2. CASE prefix \in DOMAIN HandlerMap
  <2>1. Matching(m.path) = {prefix}
    BY <1>1, <1>2
  <2>2. PermittedAnswers[m] =
          UNION {AnswersOf(HandlerMap[k].type, m.path) : k \in {prefix}}
    BY <2>1 DEF PermittedAnswers
  <2> QED
    BY <1>2, <2>2 DEF prefix
<1>3. CASE prefix \notin DOMAIN HandlerMap
  <2>1. Matching(m.path) = {}
    BY <1>1, <1>3
  <2> QED
    BY <1>3, <2>1 DEF PermittedAnswers, prefix
<1> QED
  BY <1>2, <1>3

-----------------------------------------------------------------------------
(***************************************************************************)
(* A response is one its request may get.                                  *)
(***************************************************************************)

\* The handler type under the prefix of a request's path.
HandledBy(c, type) ==
  LET prefix == get_prefix(message[c].path)
  IN  prefix \in DOMAIN HandlerMap /\ HandlerMap[prefix].type = type

Permits(c, r) == Answer(r.kind, r.path) \in PermittedAnswers[message[c]]

\* A session is in the handler its path names, and what it has to answer is
\* there only once a handler has made it.
Earned(c) ==
  /\ pc[c] = "opening" => HandledBy(c, "static")
  /\ pc[c] \in {"connecting", "relaying"} => HandledBy(c, "proxy")
  /\ response[c] # NoResponse =>
       pc[c] \in {"slurping", "writing", "ended"} /\ Permits(c, response[c])

\* The responses each handler builds are permitted.
LEMMA ResponsesPermitted ==
  ASSUME NEW c \in Conn, message[c] \in Message
  PROVE  LET path == message[c].path
         IN  /\ get_prefix(path) \notin DOMAIN HandlerMap => Permits(c, NotFound)
             /\ HandledBy(c, "echo") =>
                  \A b : Permits(c, EchoResponse(path, b))
             /\ HandledBy(c, "static") =>
                  /\ Permits(c, NotFound)
                  /\ \A mime : Permits(c, FileResponse(get_file_path(path), mime))
             /\ HandledBy(c, "proxy") =>
                  Permits(c, UpstreamResponse(UpstreamPath(path)))
<1> DEFINE path == message[c].path
           prefix == get_prefix(path)
           permitted == PermittedAnswers[message[c]]
<1>1. permitted = IF prefix \in DOMAIN HandlerMap
                  THEN AnswersOf(HandlerMap[prefix].type, path)
                  ELSE {Answer("not_found", <<>>)}
  BY PermittedByPrefix
<1> HIDE DEF permitted
<1>2. /\ NotFound.kind = "not_found" /\ NotFound.path = <<>>
      /\ \A q, b : EchoResponse(q, b).kind = "echo" /\ EchoResponse(q, b).path = q
      /\ \A q, t : FileResponse(q, t).kind = "file" /\ FileResponse(q, t).path = q
      /\ \A q : UpstreamResponse(q).kind = "upstream" /\ UpstreamResponse(q).path = q
  BY DEF NotFound, EchoResponse, FileResponse, UpstreamResponse, Plain
<1>3. prefix \notin DOMAIN HandlerMap => Answer("not_found", <<>>) \in permitted
  BY <1>1
<1>4. HandledBy(c, "echo") => Answer("echo", path) \in permitted
  BY <1>1 DEF HandledBy, AnswersOf
<1>5. HandledBy(c, "static") => /\ Answer("not_found", <<>>) \in permitted
                               /\ Answer("file", get_file_path(path)) \in permitted
  BY <1>1 DEF HandledBy, AnswersOf
<1>6. HandledBy(c, "proxy") => Answer("upstream", UpstreamPath(path)) \in permitted
  BY <1>1 DEF HandledBy, AnswersOf
<1> QED
  BY <1>2, <1>3, <1>4, <1>5, <1>6 DEF Permits, permitted

\* Every step keeps the responses earned.
LEMMA EarnedNext ==
  ASSUME TypeOK, Maps, [Next]_vars, \A c \in Conn : Earned(c)
  PROVE  \A c \in Conn : Earned(c)'
<1> USE DEF Earned, HandledBy, Permits
<1>1. CASE UNCHANGED <<message, pc, response>>
  BY <1>1
<1>2. ASSUME NEW c \in Conn, NEW label, Goto(c, label), UNCHANGED <<message, response>>,
             label = "opening" => HandledBy(c, "static"),
             label \in {"connecting", "relaying"} => HandledBy(c, "proxy"),
             response[c] # NoResponse => label \in {"slurping", "writing", "ended"}
      PROVE  \A d \in Conn : Earned(d)'
  BY <1>2 DEF Goto, TypeOK
<1>3. ASSUME NEW c \in Conn, NEW label \in {"slurping", "writing", "ended"},
             NEW r, r = NoResponse \/ Permits(c, r),
             Goto(c, label), response' = [response EXCEPT ![c] = r], UNCHANGED message
      PROVE  \A d \in Conn : Earned(d)'
  BY <1>3 DEF Goto, TypeOK
<1>4. ASSUME NEW c \in Conn, Throw(c), UNCHANGED message
      PROVE  \A d \in Conn : Earned(d)'
  <2>1. Goto(c, "ended") /\ response' = [response EXCEPT ![c] = NoResponse]
    BY <1>4 DEF Throw, EndSession, Goto
  <2> QED
    BY <1>3, <1>4, <2>1
<1>6. ASSUME NEW c \in Conn, OutOfMemory(c), UNCHANGED message
      PROVE  \A d \in Conn : Earned(d)'
  BY <1>1, <1>4, <1>6 DEF OutOfMemory, sessionVars
<1>5. ASSUME NEW c \in Conn
      PROVE  message[c] \in Message
  BY <1>5 DEF TypeOK
<1>7. ASSUME NEW c \in Conn, Dispatch(c) PROVE \A d \in Conn : Earned(d)'
  <2> DEFINE prefix == get_prefix(message[c].path)
  <2>1. UNCHANGED message /\ handlers = HandlerMap /\ pc[c] = "dispatch"
    BY <1>7 DEF Dispatch, clientVars, Maps
  <2>2. response[c] = NoResponse
    BY <2>1
  <2>3. CASE ~count(handlers, prefix)
    <3>1. /\ Goto(c, "writing") /\ response' = [response EXCEPT ![c] = NotFound]
          /\ prefix \notin DOMAIN HandlerMap
      BY <1>7, <2>1, <2>3 DEF Dispatch, Respond, count
    <3>2. Permits(c, NotFound)
      BY <1>5, <3>1, ResponsesPermitted
    <3> QED
      BY <1>3, <2>1, <3>1, <3>2
  <2>4. CASE count(handlers, prefix)
    <3>0. Subscript(handlers, prefix, NullHandler) = handlers
      <4>1. handlers \in [DOMAIN HandlerMap -> Handler]
        BY DEF TypeOK
      <4> QED
        BY <2>4, <4>1, SubscriptReads
    <3>1. /\ Invoke(c, HandlerMap[prefix]) \/ OutOfMemory(c)
          /\ prefix \in DOMAIN HandlerMap
      BY <1>7, <2>1, <2>4, <3>0 DEF Dispatch, count
    <3>2. CASE /\ HandlerMap[prefix].type = "static" /\ Goto(c, "opening")
               /\ UNCHANGED response
      BY <1>2, <2>1, <2>2, <3>1, <3>2
    <3>3. CASE /\ HandlerMap[prefix].type = "proxy" /\ Goto(c, "connecting")
               /\ UNCHANGED response
      BY <1>2, <2>1, <2>2, <3>1, <3>3
    <3>4. CASE /\ HandlerMap[prefix].type = "echo"
               /\ Respond(c, EchoResponse(message[c].path, body[c]))
      <4>1. Permits(c, EchoResponse(message[c].path, body[c]))
        BY <1>5, <3>1, <3>4, ResponsesPermitted
      <4> QED
        BY <1>3, <2>1, <3>4, <4>1 DEF Respond
    <3>5. CASE OutOfMemory(c)
      BY <1>6, <2>1, <3>5
    <3> QED
      BY <3>1, <3>2, <3>3, <3>4, <3>5 DEF Invoke
  <2> QED
    BY <2>3, <2>4
<1>8. ASSUME NEW c \in Conn, OpenFile(c) PROVE \A d \in Conn : Earned(d)'
  <2> DEFINE path == message[c].path
  <2>1. UNCHANGED message /\ HandledBy(c, "static")
    BY <1>8 DEF OpenFile, clientVars
  <2>2. /\ Permits(c, NotFound)
        /\ \A mime : Permits(c, FileResponse(get_file_path(path), mime))
    BY <1>5, <2>1, ResponsesPermitted
  <2>3. \/ Throw(c)
        \/ Respond(c, NotFound)
        \/ /\ Goto(c, "slurping")
           /\ \E mime : response' =
                [response EXCEPT ![c] = FileResponse(get_file_path(path), mime)]
    BY <1>8 DEF OpenFile
  <2> QED
    BY <1>3, <1>4, <2>1, <2>2, <2>3 DEF Respond
<1>9. ASSUME NEW c \in Conn, Relay(c) PROVE \A d \in Conn : Earned(d)'
  <2> DEFINE r == UpstreamResponse(UpstreamPath(message[c].path))
  <2>1. UNCHANGED message /\ HandledBy(c, "proxy")
    BY <1>9 DEF Relay, clientVars
  <2>2. Permits(c, r)
    BY <1>5, <2>1, ResponsesPermitted
  <2>3. Throw(c) \/ OutOfMemory(c) \/ Respond(c, r)
    BY <1>9 DEF Relay
  <2> HIDE DEF r
  <2> QED
    BY <1>3, <1>4, <1>6, <2>1, <2>2, <2>3 DEF Respond
<1>10. ASSUME NEW c \in Conn, Spawn(c) PROVE \A d \in Conn : Earned(d)'
  BY <1>2, <1>10 DEF Spawn, EndSession, Goto, clientVars
<1>11. ASSUME NEW c \in Conn, Write(c) PROVE \A d \in Conn : Earned(d)'
  BY <1>2, <1>4, <1>11 DEF Write, EndSession, Goto, clientVars
<1>12. ASSUME NEW c \in Conn, Accept(c) PROVE \A d \in Conn : Earned(d)'
  BY <1>1, <1>2, <1>12 DEF Accept, clientVars
<1>13. ASSUME NEW c \in Conn, Connect(c) PROVE \A d \in Conn : Earned(d)'
  BY <1>2, <1>13 DEF Connect, clientVars
<1>14. ASSUME NEW c \in Conn, SlurpFile(c) PROVE \A d \in Conn : Earned(d)'
  <2>1. /\ UNCHANGED message /\ pc[c] = "slurping"
        /\ OutOfMemory(c) \/ (Goto(c, "writing") /\ UNCHANGED response)
    BY <1>14 DEF SlurpFile, clientVars
  <2> QED
    BY <1>2, <1>6, <2>1
<1>15. ASSUME NEW c \in Conn,
              ReadSome(c) \/ ParseHeader(c) \/ ParseBody(c) \/ ConnectUpstream(c)
       PROVE  \A d \in Conn : Earned(d)'
  <2>1. UNCHANGED message
    BY <1>15 DEF ReadSome, ParseHeader, ParseBody, ConnectUpstream, clientVars
  <2>2. \/ Throw(c)
        \/ OutOfMemory(c)
        \/ UNCHANGED <<pc, response>>
        \/ /\ pc[c] \in {"reading", "parsing"} /\ UNCHANGED response
           /\ \E label \in {"parsing", "dispatch"} : Goto(c, label)
        \/ pc[c] = "connecting" /\ Goto(c, "relaying") /\ UNCHANGED response
    BY <1>15 DEF ReadSome, ParseHeader, ParseBody, ConnectUpstream, sessionVars
  <2> QED
    BY <1>1, <1>2, <1>4, <1>6, <2>1, <2>2
<1>16. CASE Unwind \/ Return \/ UseDestroyed \/ End
  BY <1>1, <1>16 DEF Unwind, Return, UseDestroyed, End, ReadQuit, ThrowExit, Stop,
                     clientVars, sessionVars
<1>17. CASE \/ \E c \in Conn : Send(c) \/ Leave(c) \/ UsePrivate(c)
            \/ \E word \in Word : Type(word)
  BY <1>1, <1>17 DEF Send, Leave, UsePrivate, Type, clientVars, sessionVars
<1>18. CASE UNCHANGED vars
  BY <1>1, <1>18 DEF vars, clientVars, sessionVars
<1> QED
  BY <1>7, <1>8, <1>9, <1>10, <1>11, <1>12, <1>13, <1>14, <1>15, <1>16, <1>17, <1>18
     DEF Next, Run, Environment, Session

\* Every response is one the dispatch rule permits for its request.
LEMMA EarnedAlways == Spec => [](\A c \in Conn : Earned(c))
<1> DEFINE Inv == \A c \in Conn : Earned(c)
<1>1. Init => Inv
  BY DEF Init, Earned
<1>2. TypeOK /\ Maps /\ Inv /\ [Next]_vars => Inv'
  BY EarnedNext
<1> QED
  BY <1>1, <1>2, TypeCorrect, MapsConfigured, PTL DEF Spec

-----------------------------------------------------------------------------
(***************************************************************************)
(* The refinement: every step of the server is a step of the service.      *)
(***************************************************************************)

\* What the refinement mapping makes of a connection.
Phase(c) ==
  IF pc[c] = "idle" THEN "away"
  ELSE IF Answered(c) THEN "answered"
  ELSE IF Up /\ pc[c] # "ended" THEN "waiting" ELSE "refused"

AnswerOn(c) ==
  IF Answered(c) THEN {Answer(response[c].kind, response[c].path)} ELSE {}

Phases == [c \in Conn |-> Phase(c)]
Answers == [c \in Conn |-> AnswerOn(c)]

\* The variables and actions of the service under the mapping.
LEMMA ServiceMapped ==
  /\ UNCHANGED Service!vars <=> UNCHANGED <<Up, message, Phases, Answers>>
  /\ \A c \in Conn : Service!Connect(c) <=>
       /\ Up /\ Phases[c] = "away" /\ Phases' = [Phases EXCEPT ![c] = "waiting"]
       /\ UNCHANGED <<Up, message, Answers>>
  /\ \A c \in Conn : Service!Reply(c) <=>
       /\ Up /\ Phases[c] = "waiting"
       /\ \E a \in PermittedAnswers[message[c]] : Answers' = [Answers EXCEPT ![c] = {a}]
       /\ Phases' = [Phases EXCEPT ![c] = "answered"]
       /\ UNCHANGED <<Up, message>>
  /\ \A c \in Conn : Service!Refuse(c) <=>
       /\ Up /\ Phases[c] = "waiting" /\ Phases' = [Phases EXCEPT ![c] = "refused"]
       /\ UNCHANGED <<Up, message, Answers>>
  /\ Service!Stop <=>
       /\ Up /\ Up' = FALSE
       /\ Phases' = [c \in Conn |->
            IF Phases[c] = "waiting" THEN "refused" ELSE Phases[c]]
       /\ UNCHANGED <<message, Answers>>
BY DEF Service!vars, Service!Connect, Service!Reply, Service!Refuse, Service!Stop,
       Phases, Answers, Phase, AnswerOn

\* Initially no connection is made and none is answered.
LEMMA ServiceInit == Init => Service!Init
<1> SUFFICES ASSUME Init PROVE Service!Init
  OBVIOUS
<1>1. Up /\ message \in [Conn -> Message]
  BY DEF Init, Up
<1>2. \A c \in Conn : pc[c] = "idle" /\ ~Answered(c)
  BY DEF Init, Answered
<1> QED
  BY <1>1, <1>2 DEF Service!Init

\* The phases and answers after a step in which one connection changes.
LEMMA OneMoves ==
  ASSUME TypeOK, NEW c \in Conn, Up, Up',
         \A d \in Conn : d # c => pc'[d] = pc[d] /\ response'[d] = response[d]
  PROVE  /\ Phases' = [Phases EXCEPT ![c] = Phase(c)']
         /\ Answers' = [Answers EXCEPT ![c] = AnswerOn(c)']
<1>1. ASSUME NEW d \in Conn, d # c
      PROVE  Phase(d)' = Phase(d) /\ AnswerOn(d)' = AnswerOn(d)
  BY <1>1 DEF Phase, AnswerOn, Answered, Up
<1> QED
  BY <1>1 DEF Phases, Answers

\* A session that goes on, in a state it is not yet answered in, is hidden.
LEMMA GoesOn ==
  ASSUME TypeOK, NEW c \in Conn, NEW label, Up, Goto(c, label),
         pc[c] \notin {"idle", "ended"}, label \notin {"idle", "ended"},
         \A d \in Conn : d # c => response'[d] = response[d],
         UNCHANGED <<process, message>>
  PROVE  UNCHANGED Service!vars
<1>1. Up' /\ Up' = Up
  BY DEF Up
<1>2. pc'[c] = label /\ \A d \in Conn : d # c => pc'[d] = pc[d]
  BY DEF Goto, TypeOK
<1>3. Phase(c)' = Phase(c) /\ AnswerOn(c)' = AnswerOn(c)
  BY <1>1, <1>2 DEF Phase, AnswerOn, Answered
<1>4. /\ Phases' = [Phases EXCEPT ![c] = Phase(c)]
      /\ Answers' = [Answers EXCEPT ![c] = AnswerOn(c)]
  BY <1>1, <1>2, <1>3, OneMoves
<1>5. Phases' = Phases /\ Answers' = Answers
  BY <1>4 DEF Phases, Answers
<1> QED
  BY <1>1, <1>5, ServiceMapped

\* A session that ends without a response refuses its connection; one that
\* ends with a response replies with it.
LEMMA Finishes ==
  ASSUME TypeOK, NEW c \in Conn, Earned(c), Up, Goto(c, "ended"),
         pc[c] \notin {"idle", "ended"},
         \/ response' = [response EXCEPT ![c] = NoResponse]
         \/ UNCHANGED response,
         UNCHANGED <<process, message>>
  PROVE  Service!Reply(c) \/ Service!Refuse(c)
<1>1. Up' /\ Up' = Up
  BY DEF Up
<1>2. pc'[c] = "ended" /\ \A d \in Conn : d # c => pc'[d] = pc[d]
  BY DEF Goto, TypeOK
<1>3. response'[c] \in {NoResponse, response[c]}
      /\ \A d \in Conn : d # c => response'[d] = response[d]
  BY DEF TypeOK
<1>4. /\ Phases' = [Phases EXCEPT ![c] = Phase(c)']
      /\ Answers' = [Answers EXCEPT ![c] = AnswerOn(c)']
  BY <1>1, <1>2, <1>3, OneMoves
<1>5. Phases[c] = "waiting" /\ Answers[c] = {}
  BY DEF Phases, Phase, Answers, AnswerOn, Answered
<1>6. CASE response'[c] = NoResponse
  <2>1. Phase(c)' = "refused" /\ AnswerOn(c)' = {}
    BY <1>1, <1>2, <1>6 DEF Phase, AnswerOn, Answered
  <2>2. Answers' = Answers
    BY <1>4, <1>5, <2>1 DEF Answers
  <2> QED
    BY <1>1, <1>4, <1>5, <2>1, <2>2, ServiceMapped
<1>7. CASE response'[c] # NoResponse
  <2> DEFINE a == Answer(response[c].kind, response[c].path)
  <2>1. response'[c] = response[c]
    BY <1>3, <1>7
  <2>2. Phase(c)' = "answered" /\ AnswerOn(c)' = {a}
    BY <1>2, <1>7, <2>1 DEF Phase, AnswerOn, Answered
  <2>3. a \in PermittedAnswers[message[c]]
    BY <1>7, <2>1 DEF Earned, Permits
  <2> HIDE DEF a
  <2> QED
    BY <1>1, <1>4, <1>5, <2>2, <2>3, ServiceMapped
<1> QED
  BY <1>6, <1>7

\* When the process stops, whatever stops it, every connection waiting is
\* refused and the answers stay as they are.
LEMMA Stops ==
  ASSUME TypeOK, Up, process' # "up", UNCHANGED <<message, pc, response>>
  PROVE  Service!Stop
<1>1. Up' = FALSE
  BY DEF Up
<1>2. \A c \in Conn : AnswerOn(c)' = AnswerOn(c)
  BY DEF AnswerOn, Answered
<1>3. \A c \in Conn :
        Phase(c)' = IF Phase(c) = "waiting" THEN "refused" ELSE Phase(c)
  BY <1>1 DEF Phase, Answered
<1>4. Answers' = Answers
  BY <1>2 DEF Answers
<1>5. Phases' = [c \in Conn |->
        IF Phases[c] = "waiting" THEN "refused" ELSE Phases[c]]
  BY <1>3 DEF Phases
<1> QED
  BY <1>1, <1>4, <1>5, ServiceMapped

\* A step that leaves the sessions as they are is hidden.
LEMMA Hidden ==
  ASSUME UNCHANGED <<process, message, pc, response>>
  PROVE  UNCHANGED Service!vars
<1>1. UNCHANGED <<Up, message>>
  BY DEF Up
<1>2. \A c \in Conn : Phase(c)' = Phase(c) /\ AnswerOn(c)' = AnswerOn(c)
  BY DEF Phase, AnswerOn, Answered, Up
<1>3. Phases' = Phases /\ Answers' = Answers
  BY <1>2 DEF Phases, Answers
<1> QED
  BY <1>1, <1>3, ServiceMapped

\* Every step of the server is a step of the service or is hidden.
LEMMA ServiceNext ==
  ASSUME TypeOK, [Next]_vars, \A c \in Conn : Earned(c)
  PROVE  [Service!Next]_(Service!vars)
<1>1. ASSUME NEW c \in Conn, Throw(c), Up, UNCHANGED <<process, message>>,
             pc[c] \notin {"idle", "ended"}
      PROVE  Service!Next
  <2>1. Goto(c, "ended") /\ response' = [response EXCEPT ![c] = NoResponse]
    BY <1>1 DEF Throw, EndSession, Goto
  <2> QED
    BY <1>1, <2>1, Finishes DEF Service!Next
<1>2. ASSUME NEW c \in Conn, Connect(c) PROVE Service!Next
  <2>1. /\ Up /\ Up' /\ Up' = Up /\ pc[c] = "idle" /\ pc' = [pc EXCEPT ![c] = "backlog"]
        /\ UNCHANGED <<message, response>>
    BY <1>2 DEF Connect, Goto, clientVars, Up
  <2>2. pc'[c] = "backlog" /\ \A d \in Conn : d # c => pc'[d] = pc[d]
    BY <2>1 DEF TypeOK
  <2>3. /\ Phases' = [Phases EXCEPT ![c] = Phase(c)']
        /\ Answers' = [Answers EXCEPT ![c] = AnswerOn(c)']
    BY <2>1, <2>2, OneMoves
  <2>4. /\ Phases[c] = "away" /\ Phase(c)' = "waiting"
        /\ Answers[c] = {} /\ AnswerOn(c)' = {}
    BY <2>1, <2>2 DEF Phases, Phase, Answers, AnswerOn, Answered
  <2>5. Answers' = Answers
    BY <2>3, <2>4 DEF Answers
  <2> QED
    BY <2>1, <2>3, <2>4, <2>5, ServiceMapped DEF Service!Next
<1>3. ASSUME NEW c \in Conn, Accept(c) PROVE UNCHANGED Service!vars
  <2>1. /\ Up /\ pc[c] = "backlog" /\ UNCHANGED <<process, message, response>>
        /\ Goto(c, "accepted") \/ UNCHANGED pc
    BY <1>3 DEF Accept, clientVars
  <2> QED
    BY <2>1, GoesOn, Hidden
<1>4. ASSUME NEW c \in Conn, Spawn(c)
      PROVE  UNCHANGED Service!vars \/ Service!Next
  <2>1. /\ Up /\ pc[c] = "accepted" /\ UNCHANGED <<process, message, response>>
        /\ Goto(c, "reading") \/ Goto(c, "ended")
    BY <1>4 DEF Spawn, EndSession, Goto, clientVars
  <2> QED
    BY <2>1, GoesOn, Finishes DEF Service!Next
<1>5. ASSUME NEW c \in Conn, Session(c) \/ Relay(c)
      PROVE  UNCHANGED Service!vars \/ Service!Next
  <2>1. /\ Up /\ pc[c] \in Running /\ UNCHANGED message
    BY <1>5 DEF Session, ReadSome, ParseHeader, ParseBody, Dispatch, OpenFile, SlurpFile,
                ConnectUpstream, Relay, Write, clientVars, Running
  <2>2. \/ Throw(c) /\ UNCHANGED process
        \/ UNCHANGED <<process, pc, response>>
        \/ process' # "up" /\ UNCHANGED <<pc, response>>
        \/ /\ \E label \in Running : Goto(c, label)
           /\ UNCHANGED process
           /\ UNCHANGED response \/ \E r : response' = [response EXCEPT ![c] = r]
        \/ Goto(c, "ended") /\ UNCHANGED <<process, response>>
    <3>1. CASE ReadSome(c) \/ ParseHeader(c) \/ ParseBody(c) \/ ConnectUpstream(c)
      BY <3>1 DEF ReadSome, ParseHeader, ParseBody, ConnectUpstream, OutOfMemory,
                  Running, sessionVars
    <3>2. CASE Dispatch(c) \/ OpenFile(c) \/ SlurpFile(c) \/ Relay(c)
      BY <3>2 DEF Dispatch, Invoke, OpenFile, SlurpFile, Relay, Respond, OutOfMemory,
                  Running, sessionVars
    <3>3. CASE Write(c)
      BY <3>3 DEF Write, EndSession, Goto
    <3> QED
      BY <1>5, <3>1, <3>2, <3>3 DEF Session
  <2>3. pc[c] \notin {"idle", "ended"}
    BY <2>1 DEF Running
  <2>4. ASSUME NEW label \in Running, Goto(c, label), UNCHANGED process,
               UNCHANGED response \/ \E r : response' = [response EXCEPT ![c] = r]
        PROVE  UNCHANGED Service!vars
    <3>1. \A d \in Conn : d # c => response'[d] = response[d]
      BY <2>4 DEF TypeOK
    <3>2. label \notin {"idle", "ended"}
      BY DEF Running
    <3> QED
      BY <2>1, <2>3, <2>4, <3>1, <3>2, GoesOn
  <2>5. CASE Throw(c) /\ UNCHANGED process
    BY <1>1, <2>1, <2>3, <2>5
  <2>6. CASE UNCHANGED <<process, pc, response>>
    BY <2>1, <2>6, Hidden
  <2>7. CASE process' # "up" /\ UNCHANGED <<pc, response>>
    BY <2>1, <2>7, Stops DEF Service!Next
  <2>8. CASE Goto(c, "ended") /\ UNCHANGED <<process, response>>
    BY <2>1, <2>3, <2>8, Finishes DEF Service!Next
  <2> QED
    BY <2>2, <2>4, <2>5, <2>6, <2>7, <2>8
<1>6. CASE Return \/ UseDestroyed \/ ThrowExit
  <2>1. Up /\ process' # "up" /\ UNCHANGED <<message, pc, response>>
    BY <1>6 DEF Return, UseDestroyed, ThrowExit, Stop, clientVars, sessionVars
  <2> QED
    BY <2>1, Stops DEF Service!Next
<1>7. CASE Unwind \/ ReadQuit \/ UNCHANGED vars
  <2>1. UNCHANGED <<process, message, pc, response>>
    BY <1>7 DEF Unwind, ReadQuit, clientVars, sessionVars, vars
  <2> QED
    BY <2>1, Hidden
<1>8. CASE \/ \E c \in Conn : Send(c) \/ Leave(c) \/ UsePrivate(c)
           \/ \E word \in Word : Type(word)
  <2>1. UNCHANGED <<process, message, pc, response>>
    BY <1>8 DEF Send, Leave, UsePrivate, Type, clientVars, sessionVars
  <2> QED
    BY <2>1, Hidden
<1> QED
  BY <1>2, <1>3, <1>4, <1>5, <1>6, <1>7, <1>8 DEF Next, Run, End, Environment

\* The server implements the HTTP service: each connection gets at most one
\* answer, one the handler its path names may give, and none after the end.
THEOREM ServerImplementsService == Spec => ImplementsService
<1>1. Init => Service!Init
  BY ServiceInit
<1>2. TypeOK /\ (\A c \in Conn : Earned(c)) /\ [Next]_vars
        => [Service!Next]_(Service!vars)
  BY ServiceNext
<1> QED
  BY <1>1, <1>2, TypeCorrect, EarnedAlways, PTL DEF Spec, ImplementsService, Service!Spec
=============================================================================
