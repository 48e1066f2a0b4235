--------------------------- MODULE ProxyChainProofs ---------------------------
(***************************************************************************)
(* Proofs, for every set of servers, every map of routes between them and  *)
(* every set of requests: how far a request is sent on, and what of the    *)
(* answer to it comes back to its client.                                  *)
(***************************************************************************)
EXTENDS ProxyChainProperties, SequenceTheorems, FiniteSetTheorems, WellFoundedInduction, TLAPS

Control == {"backlog", "parsing", "looping", "dispatch", "connecting",
            "relaying", "writing", "ended"}
Part == [from : Node, path : Path, part : 1..2]
SessionType ==
  [node : Node, path : Path, colons : Int, pc : Control,
   response : Seq(Part), out : Seq(Part), end : {"open", "fin", "rst"}]

\* Every variable has its type.
ChainTypes ==
  /\ alive \subseteq Node
  /\ request \in [Client -> Request]
  /\ chain \in [Client -> Seq(SessionType)]
  /\ got \in [Client -> Seq(Part)]

\* A session that has not been sent on yet.
Early == {"backlog", "parsing", "looping", "dispatch", "connecting"}

Root == <<Blank, Blank>>

\* No server is a proxy under "/".
NoRootProxy ==
  \A n \in Node : Root \in DOMAIN Route[n] => Route[n][Root] = Local

\* A session for a proxy's path.
Proxies(s) ==
  LET prefix == get_prefix(s.path)
  IN  prefix \in DOMAIN Route[s.node] /\ Route[s.node][prefix] # Local

\* What is left at session i of a request: a colon less for each server before,
\* and an element of the path less, until only "/" is left.
LeftAt(i, s, r) ==
  /\ s.colons = r.colons - (i - 1) /\ s.colons >= 0
  /\ StartsWithSlash(s.path)
  /\ NoRootProxy => \/ Len(s.path) = Len(r.path) - (i - 1)
                    \/ i = Len(r.path) /\ s.path = Root

\* Only the last session of a chain has not been sent on, and one relays only
\* when there is a next one.
PlaceOf(i, s, n) ==
  /\ s.pc \in Early => i = n
  /\ s.pc \in {"dispatch", "connecting"} => s.colons > 0
  /\ s.pc = "connecting" => Proxies(s)
  /\ s.pc = "relaying" => i < n

ChainInv ==
  \A c \in Client : \A i \in 1..Len(chain[c]) :
    LeftAt(i, chain[c][i], request[c]) /\ PlaceOf(i, chain[c][i], Len(chain[c]))

-----------------------------------------------------------------------------
(* Sequences and paths. *)

\* A tuple of one element is a sequence.
LEMMA OneElement == \A S : \A x \in S : <<x>> \in Seq(S) /\ Len(<<x>>) = 1 /\ <<x>>[1] = x
OBVIOUS

\* Replacing an element of a sequence.
LEMMA Replace ==
  ASSUME NEW S, NEW s \in Seq(S), NEW k \in 1..Len(s), NEW x \in S
  PROVE  LET t == [s EXCEPT ![k] = x]
         IN  /\ t \in Seq(S) /\ Len(t) = Len(s) /\ t[k] = x
             /\ \A i \in 1..Len(s) : i # k => t[i] = s[i]
BY ExceptSeq

\* What a request is.
LEMMA RequestFields ==
  ASSUME NEW r \in Request
  PROVE  /\ r.node \in Node /\ r.path \in Path /\ StartsWithSlash(r.path)
         /\ r.colons \in Nat /\ Len(r.path) \in Nat
<1>1. r \in [node : Node, path : {p \in Path : StartsWithSlash(p)}, colons : Nat]
  BY RequestAssumption
<1> QED
  BY <1>1 DEF Path

\* A path from an element on, behind a "/".
FromAt(u, p, a) ==
  /\ u \in Path /\ Len(u) = Len(p) - a + 2 /\ u[1] = Blank
  /\ \A j \in 2..Len(u) : u[j] = p[a + (j - 2)]

LEMMA FromElement ==
  ASSUME NEW p \in Path, NEW a \in Nat, a > 0, a <= Len(p)
  PROVE  FromAt(<<Blank>> \o SubSeq(p, a, Len(p)), p, a)
<1> DEFINE n == Len(p)
           rest == SubSeq(p, a, n)
           u == <<Blank>> \o rest
<1>1. p \in Seq(Seq(Text)) /\ n \in Nat
  BY LenProperties DEF Path
<1>2. Blank \in Seq(Text)
  BY TextAssumption, OneElement DEF Blank
<1>3. <<Blank>> \in Seq(Seq(Text)) /\ Len(<<Blank>>) = 1 /\ <<Blank>>[1] = Blank
  BY <1>2
<1>4. \A i \in a..n : p[i] \in Seq(Text)
  BY <1>1, ElementOfSeq
<1>5. a <= n
  OBVIOUS
<1> HIDE DEF n
<1>6. /\ rest \in Seq(Seq(Text)) /\ Len(rest) = n - a + 1
      /\ \A i \in 1..n - a + 1 : rest[i] = p[a + i - 1]
  BY <1>1, <1>4, <1>5, SubSeqProperties
<1> HIDE DEF rest
<1>7. /\ u \in Seq(Seq(Text)) /\ Len(u) = 1 + Len(rest)
      /\ \A i \in 1..1 + Len(rest) : u[i] = IF i <= 1 THEN <<Blank>>[i] ELSE rest[i - 1]
  BY <1>3, <1>6, ConcatProperties
<1> HIDE DEF u
<1>8. Len(u) = n - a + 2 /\ 1 \in 1..1 + Len(rest)
  BY <1>1, <1>5, <1>6, <1>7
<1>9. u[1] = Blank
  BY <1>3, <1>7, <1>8
<1>10. ASSUME NEW j \in 2..Len(u) PROVE u[j] = p[a + (j - 2)]
  <2>1. j \in 1..1 + Len(rest) /\ ~(j <= 1) /\ j - 1 \in 1..n - a + 1
        /\ a + (j - 1) - 1 = a + (j - 2)
    BY <1>1, <1>5, <1>6, <1>8
  <2>2. u[j] = rest[j - 1] /\ rest[j - 1] = p[a + (j - 1) - 1]
    BY <1>6, <1>7, <2>1
  <2> QED
    BY <2>1, <2>2
<1>11. FromAt(u, p, a)
  BY <1>7, <1>8, <1>9, <1>10 DEF FromAt, Path, n
<1> QED
  BY <1>11 DEF u, rest, n

\* The path a proxy asks for is an element shorter, and starts with "/".
LEMMA UpstreamPathShrinks ==
  ASSUME NEW p \in Path, StartsWithSlash(p)
  PROVE  /\ UpstreamPath(p) \in Path /\ StartsWithSlash(UpstreamPath(p))
         /\ Len(p) = 2 => UpstreamPath(p) = Root
         /\ Len(p) # 2 => FromAt(UpstreamPath(p), p, 3)
         /\ Len(p) # 2 => Len(UpstreamPath(p)) = Len(p) - 1
<1> DEFINE n == Len(p)
<1>1. n \in Nat /\ n > 1
  BY LenProperties DEF StartsWithSlash, Path
<1>2. Blank \in Seq(Text)
  BY TextAssumption, OneElement DEF Blank
<1>3. CASE n = 2
  <2>1. UpstreamPath(p) = Root /\ Root \in Path /\ Len(Root) = 2 /\ Root[1] = Blank
    BY <1>2, <1>3 DEF UpstreamPath, Root, Path
  <2> QED
    BY <1>3, <2>1 DEF StartsWithSlash
<1>4. CASE n # 2
  <2> DEFINE u == UpstreamPath(p)
  <2>1. FromAt(u, p, 3)
    <3> HIDE DEF n
    <3>1. 3 \in Nat /\ 3 > 0 /\ 3 <= n
      BY <1>1, <1>4
    <3> QED
      BY <1>4, <3>1, FromElement DEF n, UpstreamPath
  <2> HIDE DEF u, n
  <2>2. u \in Path /\ Len(u) = n - 1 /\ u[1] = Blank
    <3>1. u \in Path /\ Len(u) = n - 3 + 2 /\ u[1] = Blank
      BY <2>1 DEF FromAt, n
    <3> QED
      BY <1>1, <3>1
  <2>3. Len(u) > 1
    BY <1>1, <1>4, <2>2
  <2> QED
    BY <1>4, <2>1, <2>2, <2>3 DEF StartsWithSlash, u, n
<1> QED
  BY <1>3, <1>4

\* Without its first element a sequence is one.
LEMMA TailType == ASSUME NEW S, NEW s \in Seq(S), s # <<>> PROVE Head(s) \in S /\ Tail(s) \in Seq(S)
BY HeadTailProperties

-----------------------------------------------------------------------------
(* Sessions. *)

\* A session goes on as another one: same server, same request, and in the
\* control a step that does not send it on.
Evolves(s, t) ==
  /\ t.node = s.node /\ t.path = s.path /\ t.colons = s.colons
  /\ \/ t.pc = s.pc \/ t.pc \in {"writing", "ended"}
     \/ s.pc = "backlog" /\ t.pc = "parsing"
     \/ s.pc = "parsing" /\ t.pc = "looping"
     \/ s.pc = "parsing" /\ t.pc = "dispatch" /\ s.colons > 0
     \/ s.pc = "dispatch" /\ t.pc = "connecting" /\ Proxies(s)

\* All sessions evolve, and none comes or goes.
Evolution ==
  /\ request' = request
  /\ \A c \in Client :
       /\ Len(chain'[c]) = Len(chain[c])
       /\ \A i \in 1..Len(chain[c]) : Evolves(chain[c][i], chain'[c][i])

\* A change of control alone.
LEMMA GotoSession ==
  ASSUME NEW s \in SessionType, NEW label \in Control
  PROVE  LET t == [s EXCEPT !.pc = label]
         IN  /\ t \in SessionType /\ t.pc = label
             /\ t.node = s.node /\ t.path = s.path /\ t.colons = s.colons
BY DEF SessionType

\* The end of a session.
LEMMA ClosedSession ==
  ASSUME NEW s \in SessionType, NEW how \in {"fin", "rst"}
  PROVE  Closed(s, how) \in SessionType /\ Evolves(s, Closed(s, how))
<1>1. <<>> \in Seq(Part)
  BY EmptySeq
<1>2. /\ Closed(s, how) \in SessionType
  BY <1>1 DEF SessionType, Closed, Control
<1>3. LET t == Closed(s, how)
      IN t.node = s.node /\ t.path = s.path /\ t.colons = s.colons /\ t.pc = "ended"
  BY DEF SessionType, Closed
<1> QED
  BY <1>2, <1>3 DEF Evolves

\* A chain is changed.
LEMMA Becomes ==
  ASSUME ChainTypes, NEW c \in Client, NEW t \in Seq(SessionType), Become(c, t)
  PROVE  /\ chain' \in [Client -> Seq(SessionType)] /\ chain'[c] = t
         /\ \A d \in Client : d # c => chain'[d] = chain[d]
BY DEF ChainTypes, Become

\* A session of a chain is changed, the others stay.
LEMMA Updates ==
  ASSUME ChainTypes, NEW c \in Client, NEW i \in 1..Len(chain[c]),
         NEW s \in SessionType, Update(c, i, s),
         Evolves(chain[c][i], s), request' = request
  PROVE  chain' \in [Client -> Seq(SessionType)] /\ Evolution
<1> DEFINE t == [chain[c] EXCEPT ![i] = s]
<1>1. chain[c] \in Seq(SessionType)
  BY DEF ChainTypes
<1>2. /\ t \in Seq(SessionType) /\ Len(t) = Len(chain[c]) /\ t[i] = s
      /\ \A j \in 1..Len(chain[c]) : j # i => t[j] = chain[c][j]
  BY <1>1, Replace
<1>3. Become(c, t)
  BY DEF Update
<1> HIDE DEF t
<1>4. /\ chain' \in [Client -> Seq(SessionType)] /\ chain'[c] = t
      /\ \A d \in Client : d # c => chain'[d] = chain[d]
  BY <1>2, <1>3, Becomes
<1>5. ASSUME NEW d \in Client, NEW j \in 1..Len(chain[d])
      PROVE  Evolves(chain[d][j], chain'[d][j])
  <2>1. CASE d = c /\ j = i
    BY <1>2, <1>4, <2>1
  <2>2. CASE ~(d = c /\ j = i)
    BY <1>2, <1>4, <2>2 DEF Evolves
  <2> QED
    BY <2>1, <2>2
<1> QED
  BY <1>2, <1>4, <1>5 DEF Evolution

\* A session goes to another control state.
LEMMA Goes ==
  ASSUME ChainTypes, NEW c \in Client, NEW i \in 1..Len(chain[c]), NEW label \in Control,
         Goto(c, i, label), request' = request,
         LET s == chain[c][i]
         IN  \/ label \in {"writing", "ended"}
             \/ s.pc = "backlog" /\ label = "parsing"
             \/ s.pc = "parsing" /\ label = "looping"
             \/ s.pc = "parsing" /\ label = "dispatch" /\ s.colons > 0
             \/ s.pc = "dispatch" /\ label = "connecting" /\ Proxies(s)
  PROVE  chain' \in [Client -> Seq(SessionType)] /\ Evolution
<1> DEFINE s == chain[c][i]
           t == [s EXCEPT !.pc = label]
<1>1. s \in SessionType
  BY ElementOfSeq DEF ChainTypes
<1>2. /\ t \in SessionType /\ t.pc = label
      /\ t.node = s.node /\ t.path = s.path /\ t.colons = s.colons
  BY <1>1, GotoSession
<1>3. Update(c, i, t)
  BY DEF Goto
<1> HIDE DEF t
<1>4. Evolves(s, t)
  BY <1>2 DEF Evolves
<1> QED
  BY <1>2, <1>3, <1>4, Updates

\* A session ends.
LEMMA Ends ==
  ASSUME ChainTypes, NEW c \in Client, NEW i \in 1..Len(chain[c]),
         EndSession(c, i), request' = request
  PROVE  chain' \in [Client -> Seq(SessionType)] /\ Evolution
<1> PICK how \in {"fin", "rst"} : Update(c, i, Closed(chain[c][i], how))
  BY DEF EndSession
<1>1. chain[c][i] \in SessionType
  BY ElementOfSeq DEF ChainTypes
<1> QED
  BY <1>1, ClosedSession, Updates

\* A process ends with all its sessions.
LEMMA Dies ==
  ASSUME ChainTypes, NEW n, Die(n), request' = request
  PROVE  /\ alive' \subseteq Node
         /\ chain' \in [Client -> Seq(SessionType)] /\ Evolution
<1> PICK how \in {"fin", "rst"} :
      chain' = [c \in Client |-> [i \in DOMAIN chain[c] |->
         LET s == chain[c][i]
         IN  IF s.node # n \/ Over(s) THEN s
             ELSE Closed(s, IF s.pc = "backlog" THEN "rst" ELSE how)]]
  BY DEF Die
<1> DEFINE left(s) == IF s.node # n \/ Over(s) THEN s
                      ELSE Closed(s, IF s.pc = "backlog" THEN "rst" ELSE how)
<1>1. ASSUME NEW s \in SessionType
      PROVE  left(s) \in SessionType /\ Evolves(s, left(s))
  <2>1. CASE s.node # n \/ Over(s)
    BY <2>1 DEF Evolves
  <2>2. CASE ~(s.node # n \/ Over(s))
    BY <2>2, ClosedSession
  <2> QED
    BY <2>1, <2>2
<1>2. \A c \in Client : chain'[c] = [i \in DOMAIN chain[c] |-> left(chain[c][i])]
  OBVIOUS
<1> HIDE DEF left
<1>3. ASSUME NEW c \in Client
      PROVE  /\ chain'[c] \in Seq(SessionType) /\ Len(chain'[c]) = Len(chain[c])
             /\ \A i \in 1..Len(chain[c]) : Evolves(chain[c][i], chain'[c][i])
  <2>1. chain[c] \in Seq(SessionType) /\ DOMAIN chain[c] = 1..Len(chain[c]) /\ Len(chain[c]) \in Nat
    BY DEF ChainTypes
  <2>2. \A i \in 1..Len(chain[c]) : chain[c][i] \in SessionType
    BY <2>1, ElementOfSeq
  <2>3. chain'[c] = [i \in 1..Len(chain[c]) |-> left(chain[c][i])]
    BY <1>2, <2>1
  <2> QED
    BY <1>1, <2>1, <2>2, <2>3
<1>4. chain' \in [Client -> Seq(SessionType)]
  BY <1>3
<1>5. alive' \subseteq Node
  BY DEF Die, ChainTypes
<1> QED
  BY <1>3, <1>4, <1>5 DEF Evolution

-----------------------------------------------------------------------------
(* The steps. All but Ask and the connection to an upstream are an evolution *)
(* of the sessions there are.                                              *)

\* An answer is a sequence of parts.
LEMMA AnswerTypes ==
  ASSUME NEW n \in Node, NEW path \in Path
  PROVE  AnswerOf(n, path) \in Seq(Part) /\ NotFoundOf(n) \in Seq(Part)
<1>1. [k \in 1..2 |-> [from |-> n, path |-> path, part |-> k]] \in Seq(Part)
  BY DEF Part
<1>2. <<>> \in Path
  BY EmptySeq DEF Path
<1>3. [from |-> n, path |-> <<>>, part |-> 1] \in Part
  BY <1>2 DEF Part
<1> QED
  BY <1>1, <1>3, OneElement DEF AnswerOf, NotFoundOf

\* A session that writes out a part, or gets one.
LEMMA PartMoved ==
  ASSUME NEW s \in SessionType, NEW x \in Seq(Part), NEW y \in Seq(Part),
         NEW label \in {"writing", s.pc}
  PROVE  LET t == [s EXCEPT !.pc = label, !.response = x, !.out = y]
         IN  t \in SessionType /\ Evolves(s, t)
<1> DEFINE t == [s EXCEPT !.pc = label, !.response = x, !.out = y]
<1>1. t \in SessionType
  BY DEF SessionType, Control
<1>2. t.node = s.node /\ t.path = s.path /\ t.colons = s.colons /\ t.pc = label
  BY DEF SessionType
<1> QED
  BY <1>1, <1>2 DEF Evolves

\* What a session does by itself.
LEMMA SessionEvolves ==
  ASSUME ChainTypes, NEW c \in Client, NEW i \in 1..Len(chain[c]),
         Accept(c, i) \/ Parse(c, i) \/ RunOut(c, i) \/ Dispatch(c, i) \/ Write(c, i)
  PROVE  ChainTypes' /\ Evolution
<1> DEFINE s == chain[c][i]
<1>1. s \in SessionType
  BY ElementOfSeq DEF ChainTypes
<1>2. s.node \in Node /\ s.path \in Path /\ s.response \in Seq(Part) /\ s.out \in Seq(Part)
  BY <1>1 DEF SessionType
<1>3. UNCHANGED <<request, got>>
  BY DEF Accept, Parse, RunOut, Dispatch, Write
<1>4. CASE Accept(c, i)
  <2>1. CASE Goto(c, i, "parsing") /\ UNCHANGED alive
    BY <1>3, <1>4, <2>1, Goes DEF Accept, Control, ChainTypes
  <2>2. CASE Die(s.node)
    BY <1>3, <2>2, Dies DEF ChainTypes
  <2> QED
    BY <1>4, <2>1, <2>2 DEF Accept
<1>5. CASE Parse(c, i)
  <2>1. CASE Goto(c, i, "looping")
    BY <1>3, <1>5, <2>1, Goes DEF Parse, Control, ChainTypes
  <2>2. CASE s.colons > 0 /\ Goto(c, i, "dispatch")
    BY <1>3, <1>5, <2>2, Goes DEF Parse, Control, ChainTypes
  <2>3. CASE EndSession(c, i)
    BY <1>3, <1>5, <2>3, Ends DEF Parse, ChainTypes
  <2> QED
    BY <1>5, <2>1, <2>2, <2>3 DEF Parse
<1>6. CASE RunOut(c, i)
  <2>1. CASE EndSession(c, i) /\ UNCHANGED alive
    BY <1>3, <2>1, Ends DEF ChainTypes
  <2>2. CASE Die(s.node)
    BY <1>3, <2>2, Dies DEF ChainTypes
  <2> QED
    BY <1>6, <2>1, <2>2 DEF RunOut
<1>7. CASE Dispatch(c, i)
  <2>1. ASSUME NEW r \in Seq(Part),
               Update(c, i, [s EXCEPT !.pc = "writing", !.response = r])
        PROVE  ChainTypes' /\ Evolution
    <3>1. [s EXCEPT !.pc = "writing", !.response = r]
            = [s EXCEPT !.pc = "writing", !.response = r, !.out = s.out]
      BY <1>1 DEF SessionType
    <3> QED
      BY <1>1, <1>2, <1>3, <1>7, <2>1, <3>1, PartMoved, Updates DEF Dispatch, ChainTypes
  <2>2. CASE Proxies(s) /\ Goto(c, i, "connecting")
    BY <1>3, <1>7, <2>2, Goes DEF Dispatch, Control, ChainTypes
  <2>3. AnswerOf(s.node, s.path) \in Seq(Part) /\ NotFoundOf(s.node) \in Seq(Part)
    BY <1>2, AnswerTypes
  <2> QED
    BY <1>7, <2>1, <2>2, <2>3 DEF Dispatch, Proxies
<1>8. CASE Write(c, i)
  <2>1. CASE EndSession(c, i)
    BY <1>3, <1>8, <2>1, Ends DEF Write, ChainTypes
  <2>2. CASE /\ s.response # <<>>
             /\ Update(c, i, [s EXCEPT !.out = Append(@, Head(s.response)),
                                       !.response = Tail(@)])
    <3> DEFINE x == Tail(s.response)
               y == Append(s.out, Head(s.response))
    <3>1. x \in Seq(Part) /\ y \in Seq(Part)
      BY <1>2, <2>2, TailType, AppendProperties
    <3>2. [s EXCEPT !.out = Append(@, Head(s.response)), !.response = Tail(@)]
            = [s EXCEPT !.pc = s.pc, !.response = x, !.out = y]
      BY <1>1 DEF SessionType
    <3> HIDE DEF x, y
    <3> QED
      BY <1>1, <1>3, <1>8, <2>2, <3>1, <3>2, PartMoved, Updates DEF Write, ChainTypes
  <2> QED
    BY <1>8, <2>1, <2>2 DEF Write
<1> QED
  BY <1>4, <1>5, <1>6, <1>7, <1>8

\* A chain of which only session i and the next one have changed.
Passed(c, i, x, y) ==
  /\ chain' \in [Client -> Seq(SessionType)] /\ Len(chain'[c]) = Len(chain[c])
  /\ \A d \in Client : d # c => chain'[d] = chain[d]
  /\ chain'[c][i] = x /\ chain'[c][i + 1] = y
  /\ \A j \in 1..Len(chain[c]) : j # i /\ j # i + 1 => chain'[c][j] = chain[c][j]

\* Session s gets a part that upstream has put out.
Getting(s, upstream) ==
  [s EXCEPT !.pc = s.pc, !.response = Append(s.response, Head(upstream.out)), !.out = s.out]
Drained(s) == [s EXCEPT !.pc = s.pc, !.response = s.response, !.out = Tail(s.out)]

\* A pass of the read loop ends the session, ends the answer, or moves a part
\* from the next session to this one.
LEMMA RelayShape ==
  ASSUME ChainTypes, ChainInv, NEW c \in Client, NEW i \in 1..Len(chain[c]), Relay(c, i)
  PROVE  LET s == chain[c][i]
             upstream == chain[c][i + 1]
             x == Getting(s, upstream)
             y == Drained(upstream)
         IN  /\ s.pc = "relaying" /\ UNCHANGED <<alive, request, got>>
             /\ i + 1 \in 1..Len(chain[c]) /\ s \in SessionType /\ upstream \in SessionType
             /\ \/ /\ upstream.out # <<>> /\ Passed(c, i, x, y)
                   /\ x \in SessionType /\ Evolves(s, x)
                   /\ y \in SessionType /\ Evolves(upstream, y)
                \/ upstream.out = <<>> /\ upstream.end = "fin" /\ Goto(c, i, "writing")
                \/ upstream.out = <<>> /\ EndSession(c, i)
<1> DEFINE s == chain[c][i]
           upstream == chain[c][i + 1]
<1>1. chain[c] \in Seq(SessionType) /\ Len(chain[c]) \in Nat
  BY DEF ChainTypes
<1>2. s.pc = "relaying" /\ UNCHANGED <<alive, request, got>>
  BY DEF Relay
<1>3. i + 1 \in 1..Len(chain[c])
  BY <1>1, <1>2 DEF ChainInv, PlaceOf
<1>4. s \in SessionType /\ upstream \in SessionType
  BY <1>1, <1>3, ElementOfSeq
<1>5. CASE upstream.out = <<>> /\ IsEof(upstream.end) /\ Goto(c, i, "writing")
  BY <1>2, <1>3, <1>4, <1>5 DEF IsEof
<1>6. CASE upstream.out = <<>> /\ EndSession(c, i)
  BY <1>2, <1>3, <1>4, <1>6
<1>7. CASE /\ upstream.out # <<>>
           /\ Become(c, [chain[c] EXCEPT
                ![i].response = append(@, Head(upstream.out)),
                ![i + 1].out = Tail(@)])
  <2> DEFINE x == Getting(s, upstream)
             y == Drained(upstream)
             t == [chain[c] EXCEPT ![i] = x]
             u == [t EXCEPT ![i + 1] = y]
  <2>1. /\ Append(s.response, Head(upstream.out)) \in Seq(Part)
        /\ Tail(upstream.out) \in Seq(Part) /\ s.out \in Seq(Part)
        /\ upstream.response \in Seq(Part)
    <3>1. s.response \in Seq(Part) /\ upstream.out \in Seq(Part)
      BY <1>4 DEF SessionType
    <3>2. Head(upstream.out) \in Part /\ Tail(upstream.out) \in Seq(Part)
      BY <1>7, <3>1, TailType
    <3> QED
      BY <1>4, <3>1, <3>2, AppendProperties DEF SessionType
  <2>2. x \in SessionType /\ Evolves(s, x)
    BY <1>4, <2>1, PartMoved DEF Getting
  <2>3. y \in SessionType /\ Evolves(upstream, y)
    BY <1>4, <2>1, PartMoved DEF Drained
  <2>4. Become(c, u)
    <3>1. i # i + 1 /\ t[i + 1] = upstream
      BY <1>1, <1>3
    <3>2. x = [s EXCEPT !.response = Append(@, Head(upstream.out))]
      BY <1>4 DEF SessionType, Getting
    <3>3. y = [upstream EXCEPT !.out = Tail(@)]
      BY <1>4 DEF SessionType, Drained
    <3> HIDE DEF x, y
    <3>4. u = [chain[c] EXCEPT ![i].response = append(@, Head(upstream.out)),
                               ![i + 1].out = Tail(@)]
      BY <3>1, <3>2, <3>3 DEF append
    <3> QED
      BY <1>7, <3>4
  <2> HIDE DEF x, y
  <2>5. /\ t \in Seq(SessionType) /\ Len(t) = Len(chain[c]) /\ t[i] = x
        /\ \A j \in 1..Len(chain[c]) : j # i => t[j] = chain[c][j]
    BY <1>1, <2>2, Replace
  <2> HIDE DEF t
  <2>6. /\ u \in Seq(SessionType) /\ Len(u) = Len(chain[c]) /\ u[i + 1] = y
        /\ \A j \in 1..Len(chain[c]) : j # i + 1 => u[j] = t[j]
    BY <1>3, <2>3, <2>5, Replace
  <2> HIDE DEF u
  <2>7. /\ chain' \in [Client -> Seq(SessionType)] /\ chain'[c] = u
        /\ \A d \in Client : d # c => chain'[d] = chain[d]
    BY <2>4, <2>6, Becomes
  <2>8. i # i + 1 /\ u[i] = x /\ \A j \in 1..Len(chain[c]) : j # i /\ j # i + 1 => u[j] = chain[c][j]
    BY <1>1, <2>5, <2>6
  <2>9. Passed(c, i, x, y)
    BY <2>6, <2>7, <2>8 DEF Passed
  <2> QED
    BY <1>2, <1>3, <1>4, <1>7, <2>2, <2>3, <2>9 DEF x, y
<1> QED
  BY <1>5, <1>6, <1>7 DEF Relay

LEMMA RelayEvolves ==
  ASSUME ChainTypes, ChainInv, NEW c \in Client, NEW i \in 1..Len(chain[c]), Relay(c, i)
  PROVE  ChainTypes' /\ Evolution
<1> DEFINE s == chain[c][i]
           upstream == chain[c][i + 1]
           x == Getting(s, upstream)
           y == Drained(upstream)
<1>1. s.pc = "relaying" /\ UNCHANGED <<alive, request, got>> /\ i + 1 \in 1..Len(chain[c])
  BY RelayShape
<1>2. CASE Goto(c, i, "writing")
  BY <1>1, <1>2, Goes DEF Control, ChainTypes
<1>3. CASE EndSession(c, i)
  BY <1>1, <1>3, Ends DEF ChainTypes
<1>4. CASE Passed(c, i, x, y) /\ Evolves(s, x) /\ Evolves(upstream, y)
  <2> HIDE DEF x, y
  <2>1. ASSUME NEW d \in Client, NEW j \in 1..Len(chain[d])
        PROVE  Evolves(chain[d][j], chain'[d][j])
    <3>1. CASE d # c
      BY <1>4, <3>1 DEF Evolves, Passed
    <3>2. CASE d = c /\ j = i
      BY <1>4, <3>2 DEF Passed
    <3>3. CASE d = c /\ j = i + 1
      BY <1>4, <3>3 DEF Passed
    <3>4. CASE d = c /\ j # i /\ j # i + 1
      BY <1>4, <3>4 DEF Evolves, Passed
    <3> QED
      BY <3>1, <3>2, <3>3, <3>4
  <2>2. \A d \in Client : Len(chain'[d]) = Len(chain[d])
    BY <1>4 DEF Passed
  <2> QED
    BY <1>1, <1>4, <2>1, <2>2 DEF Evolution, ChainTypes, Passed
<1> QED
  BY <1>2, <1>3, <1>4, RelayShape

\* A client reads what the first session has put out.
LEMMA ReadEvolves ==
  ASSUME ChainTypes, NEW c \in Client, Read(c)
  PROVE  ChainTypes' /\ Evolution
<1> DEFINE s == chain[c][1]
           y == [s EXCEPT !.out = Tail(@)]
<1>1. chain[c] \in Seq(SessionType) /\ chain[c] # <<>> /\ 1 \in 1..Len(chain[c])
  BY EmptySeq DEF Read, ChainTypes
<1>2. s \in SessionType /\ s.out # <<>> /\ s.out \in Seq(Part) /\ s.response \in Seq(Part)
  <2>1. s \in SessionType
    BY <1>1, ElementOfSeq
  <2>2. s.out # <<>>
    BY DEF Read
  <2> QED
    BY <2>1, <2>2 DEF SessionType
<1>3. Head(s.out) \in Part /\ Tail(s.out) \in Seq(Part)
  BY <1>2, TailType
<1>4. y \in SessionType /\ Evolves(s, y)
  <2>1. y = [s EXCEPT !.pc = s.pc, !.response = s.response, !.out = Tail(s.out)]
    BY <1>2 DEF SessionType
  <2> QED
    BY <1>2, <1>3, <2>1, PartMoved
<1>5. Update(c, 1, y)
  BY DEF Read, Update
<1>6. UNCHANGED <<alive, request>> /\ got' = [got EXCEPT ![c] = Append(@, Head(s.out))]
  BY DEF Read
<1> HIDE DEF y
<1>7. chain' \in [Client -> Seq(SessionType)] /\ Evolution
  BY <1>1, <1>4, <1>5, <1>6, Updates
<1>8. got' \in [Client -> Seq(Part)]
  BY <1>3, <1>6, AppendProperties DEF ChainTypes
<1> QED
  BY <1>6, <1>7, <1>8 DEF ChainTypes

\* Every session is at its place after the sessions evolved.
LEMMA EvolutionKeeps == ChainTypes /\ ChainInv /\ Evolution => ChainInv'
<1> SUFFICES ASSUME ChainTypes, ChainInv, Evolution,
                    NEW c \in Client, NEW i \in 1..Len(chain'[c])
             PROVE  /\ LeftAt(i, chain'[c][i], request'[c])
                    /\ PlaceOf(i, chain'[c][i], Len(chain'[c]))
  BY DEF ChainInv
<1> DEFINE s == chain[c][i]
           t == chain'[c][i]
           n == Len(chain[c])
<1>1. i \in 1..n /\ Evolves(s, t) /\ Len(chain'[c]) = n /\ request' = request
  BY DEF Evolution
<1>2. LeftAt(i, s, request[c]) /\ PlaceOf(i, s, n)
  BY <1>1 DEF ChainInv
<1> HIDE DEF s, t, n
<1>3. LeftAt(i, t, request[c])
  BY <1>1, <1>2 DEF LeftAt, Evolves
<1>4. PlaceOf(i, t, n)
  BY <1>1, <1>2 DEF PlaceOf, Evolves, Proxies, Early
<1> QED
  BY <1>1, <1>3, <1>4 DEF t

\* A session that has just been connected.
LEMMA NewSessionType ==
  ASSUME NEW n \in Node, NEW path \in Path, NEW colons \in Int
  PROVE  LET s == NewSession(n, path, colons)
         IN  /\ s \in SessionType /\ s.pc = "backlog"
             /\ s.node = n /\ s.path = path /\ s.colons = colons
<1>1. <<>> \in Seq(Part)
  BY EmptySeq
<1> QED
  BY <1>1 DEF NewSession, SessionType, Control

\* A client asks: its chain starts with its own request.
LEMMA AskKeeps ==
  ASSUME ChainTypes, ChainInv, NEW c \in Client, Ask(c)
  PROVE  ChainTypes' /\ ChainInv'
<1> DEFINE r == request[c]
           s == NewSession(r.node, r.path, r.colons)
<1>1. /\ r \in Request /\ r.node \in Node /\ r.path \in Path /\ StartsWithSlash(r.path)
      /\ r.colons \in Nat /\ r.colons \in Int
  BY RequestFields DEF ChainTypes
<1>2. /\ s \in SessionType /\ s.pc = "backlog"
      /\ s.node = r.node /\ s.path = r.path /\ s.colons = r.colons
  BY <1>1, NewSessionType
<1>3. Become(c, <<s>>) /\ UNCHANGED <<alive, request, got>>
  BY DEF Ask
<1> HIDE DEF s
<1>4. <<s>> \in Seq(SessionType) /\ Len(<<s>>) = 1 /\ <<s>>[1] = s
  BY <1>2, OneElement
<1>5. /\ chain' \in [Client -> Seq(SessionType)] /\ chain'[c] = <<s>>
      /\ \A d \in Client : d # c => chain'[d] = chain[d]
  BY <1>3, <1>4, Becomes
<1>6. ChainTypes'
  BY <1>3, <1>5 DEF ChainTypes
<1>7. LeftAt(1, s, r) /\ PlaceOf(1, s, 1)
  <2>1. Len(r.path) \in Nat
    BY <1>1, RequestFields
  <2> QED
    BY <1>1, <1>2, <2>1 DEF LeftAt, PlaceOf, Early
<1>8. ASSUME NEW d \in Client, NEW i \in 1..Len(chain'[d])
      PROVE  /\ LeftAt(i, chain'[d][i], request'[d])
             /\ PlaceOf(i, chain'[d][i], Len(chain'[d]))
  <2>1. CASE d = c
    <3>1. Len(chain'[d]) = 1
      BY <1>4, <1>5, <2>1
    <3>2. i = 1
      BY <1>8, <3>1
    <3> QED
      BY <1>3, <1>4, <1>5, <1>7, <2>1, <3>1, <3>2
  <2>2. CASE d # c
    BY <1>3, <1>5, <2>2 DEF ChainInv
  <2> QED
    BY <2>1, <2>2
<1> QED
  BY <1>6, <1>8 DEF ChainInv

\* What is left for the server that a proxy sends its request on to.
LEMMA LeftAfter ==
  ASSUME NEW r \in Request, NEW s \in SessionType, NEW i \in Nat,
         LeftAt(i, s, r), s.colons > 0, Proxies(s), NEW n \in Node
  PROVE  LeftAt(i + 1, NewSession(n, UpstreamPath(s.path), ColonsLeft(s.colons)), r)
<1> DEFINE t == NewSession(n, UpstreamPath(s.path), ColonsLeft(s.colons))
           path == s.path
           k == Len(path)
           m == Len(r.path)
<1>1. path \in Path /\ s.node \in Node /\ s.colons \in Int
  BY DEF SessionType
<1>2. StartsWithSlash(path)
  BY DEF LeftAt
<1>3. k \in Nat /\ m \in Nat /\ r.colons \in Nat
  BY <1>1, RequestFields DEF Path
<1>4. /\ UpstreamPath(path) \in Path /\ StartsWithSlash(UpstreamPath(path))
      /\ k = 2 => UpstreamPath(path) = Root
      /\ k # 2 => Len(UpstreamPath(path)) = k - 1
  BY <1>1, <1>2, UpstreamPathShrinks
<1>5. t.path = UpstreamPath(path) /\ t.colons = s.colons - 1
  BY <1>1, <1>4, NewSessionType DEF ColonsLeft
<1>6. t.colons = r.colons - (i + 1 - 1) /\ t.colons >= 0
  BY <1>1, <1>3, <1>5 DEF LeftAt
<1>7. ASSUME NoRootProxy
      PROVE  \/ Len(t.path) = m - (i + 1 - 1)
             \/ i + 1 = m /\ t.path = Root
  <2>1. path # Root
    <3>1. get_prefix(Root) = Root
      BY DEF get_prefix, Root
    <3> QED
      BY <1>1, <1>7, <3>1 DEF Proxies, NoRootProxy
  <2>2. k = m - (i - 1)
    BY <1>7, <2>1 DEF LeftAt
  <2>3. CASE k = 2
    <3>1. t.path = Root
      BY <1>4, <1>5, <2>3
    <3> HIDE DEF k, m, t
    <3>2. i + 1 = m
      BY <1>3, <2>2, <2>3
    <3> QED
      BY <3>1, <3>2
  <2>4. CASE k # 2
    <3>1. Len(t.path) = k - 1
      BY <1>4, <1>5, <2>4
    <3> HIDE DEF k, m, t
    <3> QED
      BY <1>3, <2>2, <3>1
  <2> QED
    BY <2>3, <2>4
<1> QED
  BY <1>4, <1>5, <1>6, <1>7 DEF LeftAt

\* A chain that has got a session more, and changed but for it in the last one.
Extended(c, x, new) ==
  LET n == Len(chain[c])
  IN  /\ chain' \in [Client -> Seq(SessionType)] /\ Len(chain'[c]) = n + 1
      /\ \A d \in Client : d # c => chain'[d] = chain[d]
      /\ chain'[c][n] = x /\ chain'[c][n + 1] = new
      /\ \A j \in 1..n : j # n => chain'[c][j] = chain[c][j]

UpstreamOfSession(s) == Route[s.node][get_prefix(s.path)]
Relaying(s) == [s EXCEPT !.pc = "relaying"]
NextSession(s) ==
  NewSession(UpstreamOfSession(s), UpstreamPath(s.path), ColonsLeft(s.colons))

\* A proxy fails to connect, or the chain is a session longer.
LEMMA ConnectShape ==
  ASSUME ChainTypes, ChainInv, NEW c \in Client, NEW i \in 1..Len(chain[c]),
         ConnectUpstream(c, i)
  PROVE  LET s == chain[c][i]
         IN  /\ i = Len(chain[c]) /\ s.pc = "connecting" /\ s \in SessionType
             /\ LeftAt(i, s, request[c]) /\ s.colons > 0 /\ Proxies(s)
             /\ UNCHANGED <<alive, request, got>>
             /\ \/ EndSession(c, i)
                \/ /\ UpstreamOfSession(s) \in alive /\ NextSession(s) \in SessionType
                   /\ Extended(c, Relaying(s), NextSession(s))
<1> DEFINE s == chain[c][i]
           n == Len(chain[c])
           new == NextSession(s)
           x == Relaying(s)
           t == [chain[c] EXCEPT ![i] = x]
           u == Append(t, new)
<1>1. chain[c] \in Seq(SessionType) /\ n \in Nat /\ request[c] \in Request
  BY DEF ChainTypes
<1>2. s.pc = "connecting" /\ UNCHANGED <<alive, request, got>>
  BY DEF ConnectUpstream
<1>3. LeftAt(i, s, request[c]) /\ i = n /\ s.colons > 0 /\ Proxies(s)
  BY <1>2 DEF ChainInv, PlaceOf, Early
<1>4. s \in SessionType
  BY <1>1, ElementOfSeq
<1>5. CASE EndSession(c, i)
  BY <1>2, <1>3, <1>4, <1>5
<1>6. CASE UpstreamOfSession(s) \in alive /\ Become(c, u)
  <2>1. UpstreamOfSession(s) \in Node
    BY <1>6 DEF ChainTypes
  <2>2. UpstreamPath(s.path) \in Path /\ ColonsLeft(s.colons) \in Int
    <3>1. s.path \in Path /\ s.colons \in Int
      BY <1>4 DEF SessionType
    <3> QED
      BY <1>3, <3>1, UpstreamPathShrinks DEF LeftAt, ColonsLeft
  <2>3. new \in SessionType
    BY <2>1, <2>2, NewSessionType DEF NextSession
  <2>4. x \in SessionType
    BY <1>4, GotoSession DEF Control, Relaying
  <2> HIDE DEF new, x
  <2>5. /\ t \in Seq(SessionType) /\ Len(t) = n /\ t[n] = x
        /\ \A j \in 1..n : j # n => t[j] = chain[c][j]
    BY <1>1, <1>3, <2>4, Replace
  <2> HIDE DEF t
  <2>6. /\ u \in Seq(SessionType) /\ Len(u) = n + 1 /\ u[n + 1] = new
        /\ \A j \in 1..n : u[j] = t[j]
    BY <2>3, <2>5, AppendProperties
  <2> HIDE DEF u
  <2>7. /\ chain' \in [Client -> Seq(SessionType)] /\ chain'[c] = u
        /\ \A d \in Client : d # c => chain'[d] = chain[d]
    BY <1>6, <2>6, Becomes
  <2>8. Extended(c, x, new)
    BY <1>3, <2>5, <2>6, <2>7 DEF Extended
  <2> QED
    BY <1>2, <1>3, <1>4, <1>6, <2>3, <2>8 DEF x, new
<1>7. [chain[c] EXCEPT ![i].pc = "relaying"] = t
  BY DEF Relaying
<1> QED
  BY <1>5, <1>6, <1>7 DEF ConnectUpstream, UpstreamOfSession, NextSession

LEMMA ConnectKeeps ==
  ASSUME ChainTypes, ChainInv, NEW c \in Client, NEW i \in 1..Len(chain[c]),
         ConnectUpstream(c, i)
  PROVE  ChainTypes' /\ ChainInv'
<1> DEFINE s == chain[c][i]
           n == Len(chain[c])
           x == Relaying(s)
           new == NextSession(s)
<1>1. /\ i = n /\ s.pc = "connecting" /\ s \in SessionType /\ LeftAt(i, s, request[c])
      /\ s.colons > 0 /\ Proxies(s) /\ UNCHANGED <<alive, request, got>>
  BY ConnectShape
<1>2. n \in Nat /\ request[c] \in Request
  BY DEF ChainTypes
<1>3. CASE EndSession(c, i)
  <2>1. chain' \in [Client -> Seq(SessionType)] /\ Evolution
    BY <1>1, <1>3, Ends
  <2> QED
    BY <1>1, <2>1, EvolutionKeeps DEF ChainTypes
<1>4. CASE UpstreamOfSession(s) \in alive /\ Extended(c, x, new)
  <2>1. UpstreamOfSession(s) \in Node
    BY <1>4 DEF ChainTypes
  <2>2. LeftAt(n + 1, new, request[c]) /\ new.pc = "backlog"
    <3>1. new.pc = "backlog"
      BY DEF NextSession, NewSession
    <3> QED
      BY <1>1, <1>2, <2>1, <3>1, LeftAfter DEF NextSession
  <2>3. x.pc = "relaying" /\ x.node = s.node /\ x.path = s.path /\ x.colons = s.colons
    BY <1>1, GotoSession DEF Control, Relaying
  <2> HIDE DEF new, x
  <2>4. ChainTypes'
    BY <1>1, <1>4 DEF ChainTypes, Extended
  <2> DEFINE u == chain'[c]
  <2>5. ASSUME NEW j \in 1..n + 1
        PROVE  LeftAt(j, u[j], request[c]) /\ PlaceOf(j, u[j], n + 1)
    <3>1. CASE j = n + 1
      BY <1>4, <2>2, <3>1 DEF PlaceOf, Early, Extended
    <3>2. CASE j = n
      <4>1. u[j] = x
        BY <1>4, <3>2 DEF Extended
      <4>2. LeftAt(j, x, request[c])
        BY <1>1, <2>3, <3>2 DEF LeftAt
      <4>3. PlaceOf(j, x, n + 1)
        BY <1>2, <2>3, <3>2 DEF PlaceOf, Early
      <4> QED
        BY <4>1, <4>2, <4>3
    <3>3. CASE j < n
      <4>1. j \in 1..n /\ j # n
        BY <1>2, <3>3
      <4>2. u[j] = chain[c][j]
        BY <1>4, <4>1 DEF Extended
      <4>3. LeftAt(j, chain[c][j], request[c]) /\ PlaceOf(j, chain[c][j], n)
        BY <4>1 DEF ChainInv
      <4> QED
        BY <1>2, <3>3, <4>2, <4>3 DEF PlaceOf
    <3> QED
      BY <1>2, <3>1, <3>2, <3>3
  <2>6. ASSUME NEW d \in Client, NEW j \in 1..Len(chain'[d])
        PROVE  /\ LeftAt(j, chain'[d][j], request'[d])
               /\ PlaceOf(j, chain'[d][j], Len(chain'[d]))
    <3>1. CASE d = c
      BY <1>1, <1>4, <2>5, <3>1 DEF Extended
    <3>2. CASE d # c
      BY <1>1, <1>4, <3>2 DEF ChainInv, Extended
    <3> QED
      BY <3>1, <3>2
  <2> QED
    BY <2>4, <2>6 DEF ChainInv
<1> QED
  BY <1>3, <1>4, ConnectShape

-----------------------------------------------------------------------------
\* The initial state.
LEMMA ChainInit == Init => ChainTypes /\ ChainInv
<1> SUFFICES ASSUME Init PROVE ChainTypes /\ ChainInv
  OBVIOUS
<1>1. \A S : <<>> \in Seq(S)
  BY EmptySeq
<1> QED
  BY <1>1 DEF Init, ChainTypes, ChainInv

\* Every step keeps each session at its place.
LEMMA ChainNext == ChainTypes /\ ChainInv /\ [Next]_vars => ChainTypes' /\ ChainInv'
<1> SUFFICES ASSUME ChainTypes, ChainInv, [Next]_vars PROVE ChainTypes' /\ ChainInv'
  OBVIOUS
<1>1. ASSUME NEW c \in Client, Ask(c) PROVE ChainTypes' /\ ChainInv'
  BY <1>1, AskKeeps
<1>2. ASSUME NEW c \in Client, Read(c) PROVE ChainTypes' /\ ChainInv'
  BY <1>2, ReadEvolves, EvolutionKeeps
<1>3. ASSUME NEW c \in Client, NEW i, Session(c, i) PROVE ChainTypes' /\ ChainInv'
  <2>1. i \in 1..Len(chain[c])
    BY <1>3 DEF Session, ChainTypes
  <2>2. CASE ConnectUpstream(c, i)
    BY <2>1, <2>2, ConnectKeeps
  <2>3. CASE Relay(c, i)
    BY <2>1, <2>3, RelayEvolves, EvolutionKeeps
  <2> QED
    BY <1>3, <2>1, <2>2, <2>3, SessionEvolves, EvolutionKeeps DEF Session
<1>4. ASSUME NEW n \in Node, Quit(n) PROVE ChainTypes' /\ ChainInv'
  <2>1. UNCHANGED <<request, got>>
    BY <1>4 DEF Quit
  <2>2. alive' \subseteq Node /\ chain' \in [Client -> Seq(SessionType)] /\ Evolution
    BY <1>4, <2>1, Dies DEF Quit
  <2> QED
    BY <2>1, <2>2, EvolutionKeeps DEF ChainTypes
<1>5. CASE UNCHANGED vars
  BY <1>5 DEF vars, ChainTypes, ChainInv
<1> QED
  BY <1>1, <1>2, <1>3, <1>4, <1>5 DEF Next

\* However servers are each other's upstream, or their own: a request is sent on
\* as often as its last header has colons, and, but for a proxy under "/", to no
\* more servers than its path has elements. No loop of proxies goes on.
THEOREM ChainsAreBounded == Spec => []ChainBounded
<1>1. ChainTypes /\ ChainInv => ChainBounded
  <2> SUFFICES ASSUME ChainTypes, ChainInv, NEW c \in Client
               PROVE  /\ Len(chain[c]) <= request[c].colons + 1
                      /\ NoRootProxy => Len(chain[c]) <= Len(request[c].path)
    BY DEF ChainBounded, NoRootProxy, Root
  <2> DEFINE n == Len(chain[c])
             s == chain[c][n]
             r == request[c]
             k == Len(s.path)
             m == Len(r.path)
  <2>1. n \in Nat /\ r.colons \in Nat /\ m \in Nat /\ StartsWithSlash(r.path)
    BY RequestFields DEF ChainTypes
  <2>2. m > 1
    BY <2>1 DEF StartsWithSlash
  <2>3. CASE n = 0
    BY <2>1, <2>2, <2>3
  <2>4. CASE n # 0
    <3>1. n \in 1..n
      BY <2>1, <2>4
    <3>2. LeftAt(n, s, r)
      BY <3>1 DEF ChainInv
    <3>3. n <= r.colons + 1
      BY <2>1, <3>2 DEF LeftAt
    <3>4. ASSUME NoRootProxy PROVE n <= m
      <4>1. k > 1
        BY <3>2 DEF LeftAt, StartsWithSlash
      <4>2. k = m - (n - 1) \/ n = m
        BY <3>2, <3>4 DEF LeftAt
      <4> HIDE DEF k, m, n
      <4> QED
        BY <2>1, <4>1, <4>2
    <3> QED
      BY <3>3, <3>4
  <2> QED
    BY <2>3, <2>4
<1> QED
  BY <1>1, ChainInit, ChainNext, PTL DEF Spec

-----------------------------------------------------------------------------
(* The way a path names.                                                   *)

\* A set of natural numbers has a smallest one.
LEMMA Smallest ==
  ASSUME NEW T, T \subseteq Nat, T # {}
  PROVE  \E x \in T : \A y \in T : x <= y
<1>1. PICK x \in T : \A y \in T : ~(<<y, x>> \in OpToRel(<, Nat))
  BY NatLessThanWellFounded, WFMin
<1>2. \A y \in T : ~(y < x)
  BY <1>1 DEF OpToRel
<1> QED
  BY <1>2

\* The values of a function on an initial segment are bounded.
LEMMA Bounded ==
  ASSUME NEW n \in Nat, NEW f \in [1..n -> Nat]
  PROVE  \E b \in Nat : \A i \in 1..n : f[i] <= b
<1> DEFINE B(m) == \E b \in Nat : \A i \in 1..m : f[i] <= b
           T == {m \in 0..n : ~B(m)}
<1>1. B(0)
  BY 0 \in Nat
<1>2. ASSUME NEW m \in 0..n - 1, B(m) PROVE B(m + 1)
  <2>1. PICK b \in Nat : \A i \in 1..m : f[i] <= b
    BY <1>2
  <2>2. f[m + 1] \in Nat
    OBVIOUS
  <2>3. CASE f[m + 1] <= b
    <3>1. \A i \in 1..m + 1 : f[i] <= b
      BY <2>1, <2>3
    <3> QED
      BY <3>1
  <2>4. CASE ~(f[m + 1] <= b)
    <3>1. \A i \in 1..m + 1 : f[i] <= f[m + 1]
      <4> TAKE i \in 1..m + 1
      <4>1. CASE i = m + 1
        BY <2>2, <4>1
      <4>2. CASE i # m + 1
        <5>1. f[i] <= b /\ f[i] \in Nat
          BY <2>1, <4>2
        <5> QED
          BY <2>2, <2>4, <5>1
      <4> QED
        BY <4>1, <4>2
    <3> QED
      BY <2>2, <3>1
  <2> QED
    BY <2>3, <2>4
<1> HIDE DEF B
<1>3. SUFFICES ASSUME T # {} PROVE FALSE
  <2>1. B(n)
    BY <1>3
  <2> QED
    BY <2>1 DEF B
<1>4. PICK x \in T : \A y \in T : x <= y
  <2>1. T \subseteq Nat
    OBVIOUS
  <2> HIDE DEF T
  <2> QED
    BY <1>3, <2>1, Smallest
<1>5. x # 0 /\ x - 1 \in 0..n - 1 /\ x - 1 \notin T
  BY <1>1, <1>4
<1>6. B(x - 1) /\ (x - 1) + 1 = x
  BY <1>5
<1> QED
  BY <1>2, <1>4, <1>5, <1>6

\* A finite set of natural numbers has a greatest one.
LEMMA Greatest ==
  ASSUME NEW S, IsFiniteSet(S), S \subseteq Nat, S # {}
  PROVE  \E m \in S : \A x \in S : x <= m
<1>1. PICK n \in Nat : \E f \in [1..n -> S] : \A x \in S : \E i \in 1..n : f[i] = x
  BY FS_NatSurjection DEF ExistsSurjection, Surjection
<1> PICK f \in [1..n -> S] : \A x \in S : \E i \in 1..n : f[i] = x
  BY <1>1
<1>2. PICK b \in Nat : \A i \in 1..n : f[i] <= b
  <2>1. f \in [1..n -> Nat]
    BY <1>1
  <2> QED
    BY <2>1, Bounded
<1> DEFINE T == {k \in Nat : \A x \in S : x <= k}
<1>3. T # {}
  BY <1>1, <1>2
<1>4. PICK m \in T : \A k \in T : m <= k
  BY <1>3, Smallest
<1>5. m \in S
  <2>1. SUFFICES ASSUME m \notin S PROVE FALSE
    OBVIOUS
  <2>2. \A x \in S : x < m
    BY <2>1
  <2>3. m \in Nat /\ m # 0
    <3>1. PICK x \in S : x \in Nat
      OBVIOUS
    <3>2. x < m
      BY <2>2
    <3> QED
      BY <3>1, <3>2
  <2>4. m - 1 \in T
    BY <2>2, <2>3
  <2> QED
    BY <1>4, <2>4
<1> QED
  BY <1>5

\* The bound on the proxies of a chain.
LEMMA HopsBound ==
  /\ MaxHops \in Nat
  /\ \A r \in Request : r.colons + 1 <= MaxHops
<1> DEFINE all == {r.colons : r \in Request}
<1>1. IsFiniteSet(all) /\ all \subseteq Nat /\ all # {}
  <2>1. IsFiniteSet(all)
    <3> DEFINE f == [r \in Request |-> r.colons]
    <3>0. \A r \in Request : f[r] = r.colons /\ r.colons \in all
      OBVIOUS
    <3>1. f \in [Request -> all]
      OBVIOUS
    <3>2. ASSUME NEW x \in all PROVE \E r \in Request : f[r] = x
      <4>1. PICK r \in Request : x = r.colons
        OBVIOUS
      <4> QED
        BY <3>0, <4>1
    <3> HIDE DEF f, all
    <3>3. f \in Surjection(Request, all)
      BY <3>1, <3>2 DEF Surjection
    <3>4. IsFiniteSet(Request)
      BY RequestAssumption
    <3> QED
      BY <3>3, <3>4, FS_Surjection
  <2>2. \A r \in Request : r.colons \in Nat
    BY RequestFields
  <2> QED
    BY <2>1, <2>2, RequestAssumption
<1> DEFINE top == CHOOSE m \in all : \A x \in all : x <= m
<1>2. \E m \in all : \A x \in all : x <= m
  <2> HIDE DEF all
  <2> QED
    BY <1>1, Greatest
<1>3. top \in all /\ \A x \in all : x <= top
  BY <1>2
<1>4. MaxHops = 1 + top
  BY DEF MaxHops
<1> HIDE DEF top
<1>5. top \in Nat
  BY <1>1, <1>3
<1>6. \A r \in Request : r.colons \in Nat /\ r.colons <= top
  BY <1>3, RequestFields
<1> QED
  BY <1>4, <1>5, <1>6

\* The server after n, when k proxies were passed.
Onward(n, path, k) == IF IsProxy(n, path, k) THEN Route[n][Named(n, path, k)] ELSE n

\* The function that At defines exists, however long the way is.
LEMMA WayDefined ==
  ASSUME NEW r, NEW n \in Nat
  PROVE  \E f : f = [k \in 0..n |-> IF k = 0 THEN r.node ELSE Onward(f[k - 1], r.path, k - 1)]
<1> DEFINE Def(f, k) == IF k = 0 THEN r.node ELSE Onward(f[k - 1], r.path, k - 1)
           P(m) == \E f : f = [k \in 0..m |-> Def(f, k)]
           T == {m \in Nat : ~P(m)}
<1>1. P(0)
  <2> DEFINE f == [k \in 0..0 |-> r.node]
  <2>1. \A k \in 0..0 : Def(f, k) = r.node
    OBVIOUS
  <2>2. f = [k \in 0..0 |-> Def(f, k)]
    <3> HIDE DEF Def
    <3> QED
      BY <2>1
  <2> HIDE DEF f
  <2> QED
    BY <2>2
<1>2. ASSUME NEW m \in Nat, P(m) PROVE P(m + 1)
  <2>1. PICK f : f = [k \in 0..m |-> Def(f, k)]
    BY <1>2
  <2> DEFINE g == [k \in 0..m + 1 |-> Def(f, k)]
  <2>2. \A k \in 0..m : g[k] = f[k]
    <3> TAKE k \in 0..m
    <3>1. k \in 0..m + 1
      OBVIOUS
    <3>2. f[k] = Def(f, k)
      BY <2>1
    <3> HIDE DEF Def
    <3> QED
      BY <3>1, <3>2
  <2>3. \A k \in 0..m + 1 : Def(g, k) = Def(f, k)
    <3> TAKE k \in 0..m + 1
    <3>1. k # 0 => k - 1 \in 0..m
      OBVIOUS
    <3>2. k # 0 => g[k - 1] = f[k - 1]
      BY <2>2, <3>1
    <3> HIDE DEF g
    <3> QED
      BY <3>2
  <2>4. g = [k \in 0..m + 1 |-> Def(g, k)]
    <3> HIDE DEF Def
    <3> QED
      BY <2>3
  <2> HIDE DEF g, Def
  <2> QED
    BY <2>4
<1> HIDE DEF P
<1>3. SUFFICES ASSUME T # {} PROVE FALSE
  <2>1. P(n)
    BY <1>3
  <2> QED
    BY <2>1 DEF P
<1>4. PICK x \in T : \A y \in T : x <= y
  BY <1>3, Smallest
<1>5. x # 0 /\ x - 1 \in Nat /\ x - 1 \notin T
  BY <1>1, <1>4
<1>6. P(x - 1) /\ (x - 1) + 1 = x
  BY <1>5
<1>7. P(x)
  BY <1>2, <1>5, <1>6
<1> QED
  BY <1>4, <1>7

\* The servers on the way of a request.
LEMMA AtIs ==
  ASSUME NEW r
  PROVE  /\ At(r)[0] = r.node
         /\ \A k \in 1..MaxHops : At(r)[k] = Onward(At(r)[k - 1], r.path, k - 1)
<1> DEFINE Def(f, k) == IF k = 0 THEN r.node ELSE Onward(f[k - 1], r.path, k - 1)
           at == CHOOSE f : f = [k \in 0..MaxHops |-> Def(f, k)]
<1>1. MaxHops \in Nat
  BY HopsBound
<1>2. At(r) = at
  BY DEF At, Onward
<1>3. \E f : f = [k \in 0..MaxHops |-> Def(f, k)]
  BY <1>1, WayDefined
<1>4. at = [k \in 0..MaxHops |-> Def(at, k)]
  BY <1>3
<1> HIDE DEF at
<1>5. at[0] = r.node
  BY <1>1, <1>4
<1>6. ASSUME NEW k \in 1..MaxHops PROVE at[k] = Onward(at[k - 1], r.path, k - 1)
  <2>1. k \in 0..MaxHops /\ k # 0
    BY <1>1
  <2>2. at[k] = Def(at, k)
    <3> HIDE DEF Def
    <3> QED
      BY <1>4, <2>1
  <2> QED
    BY <2>1, <2>2
<1> QED
  BY <1>2, <1>5, <1>6

\* What is left of a path, element by element.
PathLeft(q, p, k) ==
  /\ q \in Path /\ Len(q) = (IF k + 2 <= Len(p) THEN Len(p) - k ELSE 2)
  /\ q[1] = Blank /\ \A j \in 2..Len(q) : q[j] = Element(p, k + (j - 2))

LEMMA RemainingIs ==
  ASSUME NEW p \in Path, NEW k \in Nat
  PROVE  PathLeft(Remaining(p, k), p, k)
<1> DEFINE n == Len(p)
<1>1. p \in Seq(Seq(Text)) /\ n \in Nat
  BY LenProperties DEF Path
<1>2. Blank \in Seq(Text)
  BY TextAssumption, OneElement DEF Blank
<1>3. <<Blank>> \in Seq(Seq(Text)) /\ Len(<<Blank>>) = 1 /\ <<Blank>>[1] = Blank
  BY <1>2
<1>4. CASE k + 2 <= n
  <2> DEFINE q == Remaining(p, k)
  <2>1. FromAt(q, p, k + 2)
    <3>1. k + 2 \in Nat /\ k + 2 > 0
      OBVIOUS
    <3> QED
      BY <1>4, <3>1, FromElement DEF Remaining
  <2> HIDE DEF q
  <2>2. q \in Path /\ q[1] = Blank /\ Len(q) = n - k
    <3>1. q \in Path /\ q[1] = Blank /\ Len(q) = n - (k + 2) + 2
      BY <2>1 DEF FromAt
    <3> HIDE DEF n
    <3> QED
      BY <1>1, <3>1
  <2>3. ASSUME NEW j \in 2..Len(q) PROVE q[j] = Element(p, k + (j - 2))
    <3>1. q[j] = p[k + 2 + (j - 2)]
      BY <2>1 DEF FromAt
    <3> HIDE DEF n
    <3>2. k + 2 + (j - 2) = k + (j - 2) + 2 /\ k + (j - 2) + 2 <= n
      BY <1>1, <2>2
    <3> QED
      BY <3>1, <3>2 DEF Element, n
  <2> QED
    BY <1>4, <2>2, <2>3 DEF PathLeft, q
<1>5. CASE ~(k + 2 <= n)
  <2> DEFINE q == <<Blank>> \o <<Blank>>
  <2>1. Remaining(p, k) = q
    BY <1>5 DEF Remaining
  <2>2. q \in Seq(Seq(Text)) /\ Len(q) = 2 /\ q[1] = Blank /\ q[2] = Blank
    <3>1. /\ q \in Seq(Seq(Text)) /\ Len(q) = 1 + 1
          /\ \A i \in 1..1 + 1 : q[i] = IF i <= 1 THEN <<Blank>>[i] ELSE <<Blank>>[i - 1]
      BY <1>3, ConcatProperties
    <3> HIDE DEF q
    <3> QED
      BY <1>3, <3>1
  <2>3. ~(k + 2 <= Len(p))
    BY <1>5
  <2> HIDE DEF q, n
  <2>4. ASSUME NEW j \in 2..Len(q) PROVE q[j] = Element(p, k + (j - 2))
    <3>1. j = 2 /\ k + (j - 2) = k
      BY <2>2
    <3>2. Element(p, k) = Blank
      BY <2>3 DEF Element
    <3> QED
      BY <2>2, <3>1, <3>2
  <2>5. q \in Path /\ Len(q) = (IF k + 2 <= Len(p) THEN Len(p) - k ELSE 2) /\ q[1] = Blank
    BY <2>2, <2>3 DEF Path
  <2>6. PathLeft(q, p, k)
    BY <2>4, <2>5 DEF PathLeft
  <2> QED
    BY <2>1, <2>6
<1> QED
  BY <1>4, <1>5

LEMMA OnePathLeft ==
  ASSUME NEW p, NEW k, NEW q, NEW u, PathLeft(q, p, k), PathLeft(u, p, k)
  PROVE  q = u
<1>1. /\ q \in Seq(Seq(Text)) /\ u \in Seq(Seq(Text)) /\ Len(q) = Len(u)
      /\ Len(q) \in Nat /\ q[1] = u[1] /\ \A j \in 2..Len(q) : q[j] = u[j]
  BY LenProperties DEF PathLeft, Path
<1>2. \A j \in 1..Len(q) : q[j] = u[j]
  <2> TAKE j \in 1..Len(q)
  <2>1. j = 1 \/ j \in 2..Len(q)
    BY <1>1
  <2> QED
    BY <1>1, <2>1
<1> QED
  BY <1>1, <1>2, SeqEqual

\* At first all of the path is left.
LEMMA RemainingAll ==
  ASSUME NEW p \in Path, StartsWithSlash(p)
  PROVE  Remaining(p, 0) = p
<1> DEFINE n == Len(p)
<1>1. n \in Nat /\ n > 1 /\ p[1] = Blank
  BY LenProperties DEF StartsWithSlash, Path
<1>2. ASSUME NEW j \in 2..n PROVE p[j] = Element(p, 0 + (j - 2))
  <2>1. 0 + (j - 2) + 2 = j /\ j <= n
    BY <1>1
  <2> QED
    BY <2>1 DEF Element
<1>3. n = IF 0 + 2 <= n THEN n - 0 ELSE 2
  <2> HIDE DEF n
  <2> QED
    BY <1>1
<1>4. PathLeft(p, p, 0)
  BY <1>1, <1>2, <1>3 DEF PathLeft
<1>5. PathLeft(Remaining(p, 0), p, 0)
  BY RemainingIs, 0 \in Nat
<1> QED
  BY <1>4, <1>5, OnePathLeft

\* A proxy sends on what is left without one more element.
LEMMA RemainingLess ==
  ASSUME NEW p \in Path, NEW k \in Nat
  PROVE  UpstreamPath(Remaining(p, k)) = Remaining(p, k + 1)
<1> DEFINE q == Remaining(p, k)
           u == UpstreamPath(q)
           n == Len(p)
           m == Len(q)
<1>1. PathLeft(q, p, k)
  BY RemainingIs
<1>2. n \in Nat /\ m \in Nat /\ m > 1 /\ StartsWithSlash(q) /\ q \in Path
      /\ m = IF k + 2 <= n THEN n - k ELSE 2
  <2>1. n \in Nat /\ m \in Nat /\ q \in Path /\ q[1] = Blank
        /\ m = IF k + 2 <= n THEN n - k ELSE 2
    BY <1>1, LenProperties DEF PathLeft, Path
  <2> HIDE DEF n, q, m
  <2>2. m > 1
    BY <2>1
  <2> QED
    BY <2>1, <2>2 DEF StartsWithSlash, m
<1>3. ASSUME m = 2 PROVE PathLeft(u, p, k + 1)
  <2>1. u = Root /\ Root \in Path
    BY <1>2, <1>3, UpstreamPathShrinks
  <2>2. Len(Root) = 2 /\ Root[1] = Blank /\ Root[2] = Blank
    BY DEF Root
  <2> HIDE DEF q, n, m, u
  <2>3. ~(k + 1 + 2 <= n)
    BY <1>2, <1>3
  <2>4. Element(p, k + 1) = Blank
    BY <2>3 DEF Element, n
  <2>5. ASSUME NEW j \in 2..Len(u) PROVE u[j] = Element(p, k + 1 + (j - 2))
    <3>1. j = 2 /\ k + 1 + (j - 2) = k + 1
      BY <2>1, <2>2
    <3> QED
      BY <2>1, <2>2, <2>4, <3>1
  <2>6. u \in Path /\ u[1] = Blank
        /\ Len(u) = IF k + 1 + 2 <= n THEN n - (k + 1) ELSE 2
    BY <2>1, <2>2, <2>3
  <2> QED
    BY <2>5, <2>6 DEF PathLeft, n
<1>4. ASSUME m # 2 PROVE PathLeft(u, p, k + 1)
  <2>1. FromAt(u, q, 3)
    BY <1>2, <1>4, UpstreamPathShrinks
  <2> HIDE DEF q, n, m, u
  <2>2. u \in Path /\ u[1] = Blank /\ Len(u) = m - 3 + 2
        /\ \A j \in 2..Len(u) : u[j] = q[3 + (j - 2)]
    BY <2>1 DEF FromAt, m
  <2>3. k + 1 + 2 <= n /\ Len(u) = n - (k + 1)
    BY <1>2, <1>4, <2>2
  <2>4. ASSUME NEW j \in 2..Len(u) PROVE u[j] = Element(p, k + 1 + (j - 2))
    <3>1. 3 + (j - 2) \in 2..m /\ k + (3 + (j - 2) - 2) = k + 1 + (j - 2)
      BY <1>2, <2>2
    <3>2. q[3 + (j - 2)] = Element(p, k + (3 + (j - 2) - 2))
      BY <1>1, <3>1 DEF PathLeft, m
    <3> QED
      BY <2>2, <3>1, <3>2
  <2> QED
    BY <2>2, <2>3, <2>4 DEF PathLeft, n
<1>5. PathLeft(u, p, k + 1)
  <2> HIDE DEF u, m
  <2> QED
    BY <1>3, <1>4
<1>6. PathLeft(Remaining(p, k + 1), p, k + 1)
  BY RemainingIs
<1> QED
  BY <1>5, <1>6, OnePathLeft

\* The server dispatches on the element that is next.
LEMMA RemainingPrefix ==
  ASSUME NEW p \in Path, NEW k \in Nat, NEW n
  PROVE  get_prefix(Remaining(p, k)) = Named(n, p, k)
<1> DEFINE q == Remaining(p, k)
           m == Len(q)
           x == Element(p, k)
           u == <<Blank, x>>
<1>1. PathLeft(q, p, k)
  BY RemainingIs
<1>2. Len(p) \in Nat /\ m \in Nat /\ q \in Seq(Seq(Text)) /\ q[1] = Blank
      /\ m = IF k + 2 <= Len(p) THEN Len(p) - k ELSE 2
  BY <1>1, LenProperties DEF PathLeft, Path
<1> HIDE DEF q, m
<1>3. m > 1 /\ 2 \in 2..m /\ k + (2 - 2) = k
  BY <1>2
<1>4. q[2] = x
  BY <1>1, <1>3 DEF PathLeft, m
<1>5. \A i \in 1..2 : q[i] \in Seq(Text)
  <2>1. \A i \in 1..2 : i \in 1..m
    BY <1>2, <1>3
  <2> QED
    BY <1>2, <2>1, ElementOfSeq DEF m
<1>6. StartsWithSlash(q)
  BY <1>2, <1>3 DEF StartsWithSlash, m
<1> DEFINE w == get_prefix(q)
<1>7. w \in Seq(Seq(Text)) /\ Len(w) = 2 /\ \A i \in 1..2 : w[i] = q[i]
  <2>1. CASE m > 2
    <3>1. w = SubSeq(q, 1, 2)
      BY <1>6, <2>1 DEF get_prefix, m
    <3>2. /\ SubSeq(q, 1, 2) \in Seq(Seq(Text))
          /\ Len(SubSeq(q, 1, 2)) = IF 1 <= 2 THEN 2 - 1 + 1 ELSE 0
          /\ \A i \in 1..2 - 1 + 1 : SubSeq(q, 1, 2)[i] = q[1 + i - 1]
      BY <1>5, SubSeqProperties
    <3> HIDE DEF w
    <3> QED
      BY <3>1, <3>2
  <2>2. CASE ~(m > 2)
    <3>1. w = q /\ m = 2
      BY <1>2, <1>3, <2>2 DEF get_prefix, m
    <3> QED
      BY <1>2, <3>1 DEF m
  <2> QED
    BY <2>1, <2>2
<1> HIDE DEF w
<1>8. u \in Seq(Seq(Text)) /\ Len(u) = 2 /\ u[1] = Blank /\ u[2] = x
  <2>1. Blank \in Seq(Text) /\ x \in Seq(Text)
    BY <1>2, <1>4, <1>5
  <2> QED
    BY <2>1
<1> HIDE DEF u, x
<1>9. \A i \in 1..2 : w[i] = u[i]
  <2> TAKE i \in 1..2
  <2>1. i = 1 \/ i = 2
    OBVIOUS
  <2> QED
    BY <1>2, <1>4, <1>7, <1>8, <2>1
<1>10. w = u
  BY <1>7, <1>8, <1>9, SeqEqual
<1> QED
  BY <1>10 DEF Named, w, q, u, x

\* Session i is the i-th on the way of its request; those before it are proxies.
OnItsWay(i, s, r, n) ==
  /\ s.node = At(r)[i - 1] /\ s.path = Remaining(r.path, i - 1)
  /\ i < n => IsProxy(At(r)[i - 1], r.path, i - 1)

WayInv ==
  \A c \in Client : \A i \in 1..Len(chain[c]) :
    OnItsWay(i, chain[c][i], request[c], Len(chain[c]))

\* A session's route is the one its request names at its place.
LEMMA RouteOfSession ==
  ASSUME NEW r \in Request, NEW i \in Nat \ {0}, NEW s, NEW n, OnItsWay(i, s, r, n)
  PROVE  /\ get_prefix(s.path) = Named(s.node, r.path, i - 1)
         /\ Proxies(s) <=> IsProxy(At(r)[i - 1], r.path, i - 1)
<1>1. r.path \in Path /\ i - 1 \in Nat
  BY RequestFields
<1>2. s.node = At(r)[i - 1] /\ s.path = Remaining(r.path, i - 1)
  BY DEF OnItsWay
<1>3. get_prefix(s.path) = Named(s.node, r.path, i - 1)
  BY <1>1, <1>2, RemainingPrefix
<1> QED
  BY <1>2, <1>3 DEF Proxies, IsProxy

\* An evolution of sessions does not move them.
LEMMA WayEvolution == WayInv /\ Evolution => WayInv'
<1> SUFFICES ASSUME WayInv, Evolution, NEW c \in Client, NEW i \in 1..Len(chain'[c])
             PROVE  OnItsWay(i, chain'[c][i], request'[c], Len(chain'[c]))
  BY DEF WayInv
<1>1. /\ i \in 1..Len(chain[c]) /\ Evolves(chain[c][i], chain'[c][i])
      /\ Len(chain'[c]) = Len(chain[c]) /\ request' = request
  BY DEF Evolution
<1>2. OnItsWay(i, chain[c][i], request[c], Len(chain[c]))
  BY <1>1 DEF WayInv
<1> QED
  BY <1>1, <1>2 DEF OnItsWay, Evolves

LEMMA WayAsk ==
  ASSUME ChainTypes, WayInv, NEW c \in Client, Ask(c)
  PROVE  WayInv'
<1> DEFINE r == request[c]
           s == NewSession(r.node, r.path, r.colons)
<1>1. /\ r \in Request /\ r.node \in Node /\ r.path \in Path /\ StartsWithSlash(r.path)
      /\ r.colons \in Int
  BY RequestFields DEF ChainTypes
<1>2. s \in SessionType /\ s.node = r.node /\ s.path = r.path
  BY <1>1, NewSessionType
<1>3. Become(c, <<s>>) /\ UNCHANGED <<alive, request, got>>
  BY DEF Ask
<1> HIDE DEF s
<1>4. <<s>> \in Seq(SessionType) /\ Len(<<s>>) = 1 /\ <<s>>[1] = s
  BY <1>2, OneElement
<1>5. /\ chain'[c] = <<s>> /\ \A d \in Client : d # c => chain'[d] = chain[d]
  BY <1>3, <1>4, Becomes
<1>6. OnItsWay(1, s, r, 1)
  <2>1. At(r)[0] = r.node /\ Remaining(r.path, 0) = r.path
    BY <1>1, AtIs, RemainingAll
  <2>2. 1 - 1 = 0 /\ ~(1 < 1)
    OBVIOUS
  <2> QED
    BY <1>2, <2>1, <2>2 DEF OnItsWay
<1>7. ASSUME NEW d \in Client, NEW i \in 1..Len(chain'[d])
      PROVE  OnItsWay(i, chain'[d][i], request'[d], Len(chain'[d]))
  <2>1. CASE d = c
    <3>1. Len(chain'[d]) = 1 /\ chain'[d][1] = s
      BY <1>4, <1>5, <2>1
    <3>2. i = 1
      BY <1>7, <3>1
    <3> QED
      BY <1>3, <1>6, <2>1, <3>1, <3>2
  <2>2. CASE d # c
    BY <1>3, <1>5, <2>2 DEF WayInv
  <2> QED
    BY <2>1, <2>2
<1> QED
  BY <1>7 DEF WayInv

LEMMA WayConnect ==
  ASSUME ChainTypes, ChainInv, WayInv, NEW c \in Client, NEW i \in 1..Len(chain[c]),
         ConnectUpstream(c, i)
  PROVE  WayInv'
<1> DEFINE s == chain[c][i]
           n == Len(chain[c])
           r == request[c]
           x == Relaying(s)
           new == NextSession(s)
<1>1. /\ i = n /\ s \in SessionType /\ LeftAt(i, s, r) /\ s.colons > 0 /\ Proxies(s)
      /\ UNCHANGED <<alive, request, got>>
  BY ConnectShape
<1>2. n \in Nat /\ i \in Nat \ {0} /\ r \in Request /\ r.path \in Path /\ r.colons \in Nat
  BY RequestFields DEF ChainTypes
<1>3. CASE EndSession(c, i)
  BY <1>1, <1>3, Ends, WayEvolution
<1>4. CASE Extended(c, x, new)
  <2>1. OnItsWay(n, s, r, n)
    BY <1>1 DEF WayInv
  <2>2. /\ get_prefix(s.path) = Named(s.node, r.path, n - 1)
        /\ IsProxy(At(r)[n - 1], r.path, n - 1)
    BY <1>1, <1>2, <2>1, RouteOfSession
  <2>3. x.node = s.node /\ x.path = s.path
    BY <1>1, GotoSession DEF Control, Relaying
  <2>4. new.node = UpstreamOfSession(s) /\ new.path = UpstreamPath(s.path)
    BY DEF NextSession, NewSession
  <2> HIDE DEF new, x
  <2>5. n \in 1..MaxHops
    <3>1. n <= r.colons
      BY <1>1, <1>2 DEF LeftAt
    <3> QED
      BY <1>1, <1>2, <3>1, HopsBound
  <2>6. new.node = At(r)[n]
    <3>1. At(r)[n] = Onward(At(r)[n - 1], r.path, n - 1)
      BY <2>5, AtIs
    <3>2. s.node = At(r)[n - 1]
      BY <2>1 DEF OnItsWay
    <3> QED
      BY <2>2, <2>4, <3>1, <3>2 DEF Onward, UpstreamOfSession
  <2>7. new.path = Remaining(r.path, n)
    <3>1. s.path = Remaining(r.path, n - 1) /\ n - 1 \in Nat /\ (n - 1) + 1 = n
      BY <1>1, <1>2, <2>1 DEF OnItsWay
    <3> QED
      BY <1>2, <2>4, <3>1, RemainingLess
  <2> DEFINE u == chain'[c]
  <2>8. ASSUME NEW j \in 1..n + 1 PROVE OnItsWay(j, u[j], r, n + 1)
    <3>1. CASE j = n + 1
      <4>1. u[j] = new /\ j - 1 = n /\ ~(j < n + 1)
        BY <1>2, <1>4, <3>1 DEF Extended
      <4> QED
        BY <2>6, <2>7, <4>1 DEF OnItsWay
    <3>2. CASE j = n
      <4>1. u[j] = x
        BY <1>4, <3>2 DEF Extended
      <4> QED
        BY <2>1, <2>2, <2>3, <3>2, <4>1 DEF OnItsWay
    <3>3. CASE j < n
      <4>1. j \in 1..n /\ j # n
        BY <1>2, <3>3
      <4>2. u[j] = chain[c][j]
        BY <1>4, <4>1 DEF Extended
      <4>3. OnItsWay(j, chain[c][j], r, n)
        BY <4>1 DEF WayInv
      <4> QED
        BY <3>3, <4>2, <4>3 DEF OnItsWay
    <3> QED
      BY <1>2, <3>1, <3>2, <3>3
  <2>9. ASSUME NEW d \in Client, NEW j \in 1..Len(chain'[d])
        PROVE  OnItsWay(j, chain'[d][j], request'[d], Len(chain'[d]))
    <3>1. CASE d = c
      BY <1>1, <1>4, <2>8, <3>1 DEF Extended
    <3>2. CASE d # c
      BY <1>1, <1>4, <3>2 DEF WayInv, Extended
    <3> QED
      BY <3>1, <3>2
  <2> QED
    BY <2>9 DEF WayInv
<1> QED
  BY <1>3, <1>4, ConnectShape

\* Where the proxies named end there is one answer.
LEMMA OneAnswer ==
  ASSUME NEW r, NEW k \in 0..MaxHops,
         \A j \in 0..k - 1 : IsProxy(At(r)[j], r.path, j), ~IsProxy(At(r)[k], r.path, k)
  PROVE  AnswersTo(r) =
           IF Named(At(r)[k], r.path, k) \in DOMAIN Route[At(r)[k]]
           THEN {AnswerOf(At(r)[k], Remaining(r.path, k))} ELSE {NotFoundOf(At(r)[k])}
<1> DEFINE at == At(r)
           last == {j \in 0..MaxHops : ~IsProxy(at[j], r.path, j)}
           first == CHOOSE j \in last : \A m \in last : j <= m
<1>1. MaxHops \in Nat
  BY HopsBound
<1> HIDE DEF at
<1>2. k \in last /\ \A m \in last : k <= m
  <2>1. k \in last
    BY DEF at
  <2>2. ASSUME NEW m \in last PROVE k <= m
    <3>1. m \in 0..MaxHops /\ ~IsProxy(at[m], r.path, m)
      OBVIOUS
    <3>2. m \notin 0..k - 1
      BY <3>1 DEF at
    <3> QED
      BY <1>1, <3>1, <3>2
  <2> QED
    BY <2>1, <2>2
<1>3. last \subseteq Nat
  BY <1>1
<1>4. AnswersTo(r) =
        IF last = {} THEN {}
        ELSE IF Named(at[first], r.path, first) \in DOMAIN Route[at[first]]
             THEN {AnswerOf(at[first], Remaining(r.path, first))} ELSE {NotFoundOf(at[first])}
  BY DEF AnswersTo, at
<1> HIDE DEF last
<1>5. first \in last /\ \A m \in last : first <= m
  BY <1>2
<1> HIDE DEF first
<1>6. first = k
  <2>1. first <= k /\ k <= first /\ first \in Nat /\ k \in Nat
    BY <1>2, <1>3, <1>5
  <2> QED
    BY <2>1
<1>7. last # {}
  BY <1>2
<1> QED
  BY <1>4, <1>6, <1>7 DEF at

\* What a session answers by itself is the answer to the request of its chain.
LEMMA OwnAnswer ==
  ASSUME ChainTypes, ChainInv, WayInv, NEW c \in Client, NEW i \in 1..Len(chain[c]),
         chain[c][i].pc = "dispatch", ~Proxies(chain[c][i])
  PROVE  LET s == chain[c][i]
         IN  AnswersTo(request[c]) =
               IF get_prefix(s.path) \in DOMAIN Route[s.node]
               THEN {AnswerOf(s.node, s.path)} ELSE {NotFoundOf(s.node)}
<1> DEFINE s == chain[c][i]
           n == Len(chain[c])
           r == request[c]
<1>1. n \in Nat /\ i \in Nat \ {0} /\ r \in Request /\ r.colons \in Nat
  BY RequestFields DEF ChainTypes
<1>2. LeftAt(i, s, r) /\ i = n /\ s.colons > 0
  BY DEF ChainInv, PlaceOf, Early
<1>3. i - 1 \in 0..MaxHops
  <2>1. i <= r.colons
    BY <1>1, <1>2 DEF LeftAt
  <2>2. r.colons + 1 <= MaxHops /\ MaxHops \in Nat
    BY <1>1, HopsBound
  <2> QED
    BY <1>1, <2>1, <2>2
<1>4. OnItsWay(i, s, r, n)
  BY DEF WayInv
<1>5. /\ get_prefix(s.path) = Named(s.node, r.path, i - 1)
      /\ ~IsProxy(At(r)[i - 1], r.path, i - 1)
  BY <1>1, <1>4, RouteOfSession
<1>6. ASSUME NEW j \in 0..(i - 1) - 1 PROVE IsProxy(At(r)[j], r.path, j)
  <2>1. j + 1 \in 1..n /\ j + 1 < n /\ (j + 1) - 1 = j
    BY <1>1, <1>2
  <2>2. OnItsWay(j + 1, chain[c][j + 1], r, n)
    BY <2>1 DEF WayInv
  <2> QED
    BY <2>1, <2>2 DEF OnItsWay
<1>7. AnswersTo(r) =
        IF Named(At(r)[i - 1], r.path, i - 1) \in DOMAIN Route[At(r)[i - 1]]
        THEN {AnswerOf(At(r)[i - 1], Remaining(r.path, i - 1))}
        ELSE {NotFoundOf(At(r)[i - 1])}
  BY <1>3, <1>5, <1>6, OneAnswer
<1> QED
  BY <1>4, <1>5, <1>7 DEF OnItsWay

-----------------------------------------------------------------------------
(* What flows through a chain.                                             *)

\* What a session still writes of what it has; what its reader has taken of it
\* and will get, when that took t already.
ToWrite(s) == IF s.pc = "writing" THEN s.response ELSE <<>>
Given(s, t) == t \o (s.out \o ToWrite(s))

Idle == Early \cup {"relaying"}

\* Something is an answer as far as it goes.
Begun(f, answers) == f = <<>> \/ \E a \in answers, g \in Seq(Part) : a = f \o g

\* A session has put out nothing before it writes, and closes its socket last.
Settled(s) ==
  /\ s.pc # "ended" => s.end = "open"
  /\ s.pc \in Idle => s.out = <<>>
  /\ s.pc \in Early => s.response = <<>>

\* What it gives is an answer as far as it goes.
Flow(s, t, answers) ==
  /\ s.pc \in Idle => t = <<>>
  /\ Begun(Given(s, t), answers)

\* What it gives ends with the answer, unless its socket is reset.
Whole(s, t, answers) ==
  s.pc = "writing" \/ s.end = "fin" => Given(s, t) \in answers \cup {<<>>}

\* Session i has a reader, which took Taken of it so far.
Linked(c, i) == i = 1 \/ chain[c][i - 1].pc = "relaying"
Taken(c, i) == IF i = 1 THEN got[c] ELSE chain[c][i - 1].response

AllRun(c) == \A i \in 1..Len(chain[c]) : chain[c][i].node \in alive

FlowInv ==
  \A c \in Client :
    /\ chain[c] = <<>> => got[c] = <<>>
    /\ \A i \in 1..Len(chain[c]) :
         /\ Settled(chain[c][i])
         /\ Linked(c, i) =>
              /\ Flow(chain[c][i], Taken(c, i), AnswersTo(request[c]))
              /\ AllRun(c) => Whole(chain[c][i], Taken(c, i), AnswersTo(request[c]))

\* The beginning of a beginning.
LEMMA BegunLess ==
  ASSUME NEW f \in Seq(Part), NEW g \in Seq(Part), NEW answers, Begun(f \o g, answers)
  PROVE  Begun(f, answers)
<1>1. CASE f \o g = <<>>
  <2>1. f = <<>>
    BY <1>1, ConcatEqualIffEmpty
  <2> QED
    BY <2>1 DEF Begun
<1>2. CASE \E a \in answers, h \in Seq(Part) : a = (f \o g) \o h
  <2>1. PICK a \in answers, h \in Seq(Part) : a = (f \o g) \o h
    BY <1>2
  <2>2. a = f \o (g \o h) /\ g \o h \in Seq(Part)
    BY <2>1, ConcatAssociative, ConcatProperties
  <2> QED
    BY <2>2 DEF Begun
<1> QED
  BY <1>1, <1>2 DEF Begun

LEMMA EmptyPart == <<>> \in Seq(Part)
BY EmptySeq

LEMMA Parts ==
  /\ \A f, g \in Seq(Part) : f \o g \in Seq(Part)
  /\ \A f \in Seq(Part) : f \o <<>> = f /\ <<>> \o f = f
  /\ \A f, g, h \in Seq(Part) : f \o (g \o h) = (f \o g) \o h
<1>1. \A f, g \in Seq(Part) : f \o g \in Seq(Part)
  BY ConcatProperties
<1>2. \A f \in Seq(Part) : f \o <<>> = f /\ <<>> \o f = f
  BY ConcatEmptySeq
<1>3. \A f, g, h \in Seq(Part) : f \o (g \o h) = (f \o g) \o h
  BY ConcatAssociative, SMTT(30)
<1> QED
  BY <1>1, <1>2, <1>3

LEMMA Fields ==
  ASSUME NEW s \in SessionType
  PROVE  /\ s.response \in Seq(Part) /\ s.out \in Seq(Part) /\ ToWrite(s) \in Seq(Part)
         /\ s.pc \in Control /\ s.end \in {"open", "fin", "rst"} /\ s.node \in Node
<1>1. /\ s.response \in Seq(Part) /\ s.out \in Seq(Part) /\ s.pc \in Control
      /\ s.end \in {"open", "fin", "rst"} /\ s.node \in Node
  BY DEF SessionType
<1> QED
  BY <1>1, EmptyPart DEF ToWrite

\* A session that does not write yet goes on.
LEMMA FlowEarly ==
  ASSUME NEW s \in SessionType, s.pc \in Early, NEW label \in Idle, Settled(s)
  PROVE  LET x == [s EXCEPT !.pc = label]
         IN  /\ x \in SessionType /\ Settled(x) /\ x.node = s.node /\ x.response = <<>>
             /\ \A t, answers : Flow(s, t, answers) =>
                  Flow(x, t, answers) /\ Whole(x, t, answers)
<1> DEFINE x == [s EXCEPT !.pc = label]
<1>1. label \in Control
  BY DEF Idle, Early, Control
<1>2. /\ x.pc = label /\ x.node = s.node /\ x.response = s.response
      /\ x.out = s.out /\ x.end = s.end /\ x \in SessionType
  BY <1>1 DEF SessionType
<1>3. /\ s.out = <<>> /\ s.response = <<>> /\ s.end = "open" /\ s.pc \in Idle
      /\ s.pc # "writing" /\ label # "writing" /\ label # "ended"
  BY DEF Settled, Idle, Early
<1> HIDE DEF x
<1>4. \A t : Given(x, t) = Given(s, t)
  BY <1>2, <1>3 DEF Given, ToWrite
<1>5. Settled(x)
  BY <1>2, <1>3 DEF Settled
<1>6. ASSUME NEW t, NEW answers, Flow(s, t, answers)
      PROVE  Flow(x, t, answers) /\ Whole(x, t, answers)
  BY <1>2, <1>3, <1>4, <1>6 DEF Flow, Whole
<1> QED
  BY <1>2, <1>3, <1>5, <1>6 DEF x

\* A session has written all it has, or not begun.
NothingLeft(s) == s.pc \in Idle \/ (s.pc = "writing" /\ s.response = <<>>)

LEMMA ClosedFields ==
  ASSUME NEW s \in SessionType, NEW how \in {"fin", "rst"}
  PROVE  LET x == Closed(s, how)
         IN  /\ x \in SessionType /\ x.pc = "ended" /\ x.node = s.node /\ x.end = how
             /\ Settled(x)
             /\ \A t \in Seq(Part) : Given(x, t) = IF how = "rst" THEN t ELSE t \o s.out
<1> DEFINE x == Closed(s, how)
<1>1. x \in SessionType
  BY ClosedSession
<1>2. /\ x.pc = "ended" /\ x.node = s.node /\ x.end = how
      /\ x.out = IF how = "rst" THEN <<>> ELSE s.out
  BY DEF SessionType, Closed
<1> HIDE DEF x
<1>3. Settled(x)
  BY <1>2 DEF Settled, Idle, Early
<1>4. ToWrite(x) = <<>> /\ s.out \in Seq(Part) /\ <<>> \in Seq(Part)
  BY <1>2, Fields, EmptyPart DEF ToWrite
<1>5. ASSUME NEW t \in Seq(Part) PROVE Given(x, t) = IF how = "rst" THEN t ELSE t \o s.out
  BY <1>2, <1>4, Parts DEF Given
<1> QED
  BY <1>1, <1>2, <1>3, <1>5 DEF x

\* A session ends: what its reader got stays.
LEMMA ClosedFlow ==
  ASSUME NEW s \in SessionType, NEW how \in {"fin", "rst"},
         NEW t \in Seq(Part), NEW answers, Flow(s, t, answers)
  PROVE  Flow(Closed(s, how), t, answers)
<1> DEFINE x == Closed(s, how)
<1>1. x.pc = "ended" /\ Given(x, t) = IF how = "rst" THEN t ELSE t \o s.out
  BY ClosedFields
<1>2. s.out \in Seq(Part) /\ ToWrite(s) \in Seq(Part)
  BY Fields
<1>3. Begun(t \o (s.out \o ToWrite(s)), answers)
  BY DEF Flow, Given
<1>4. Begun(t, answers)
  BY <1>2, <1>3, Parts, BegunLess
<1>5. Begun(t \o s.out, answers)
  <2>1. t \o s.out \in Seq(Part) /\ Begun((t \o s.out) \o ToWrite(s), answers)
    BY <1>2, <1>3, Parts
  <2> QED
    BY <1>2, <2>1, BegunLess
<1> HIDE DEF x
<1>6. Flow(x, t, answers)
  BY <1>1, <1>4, <1>5 DEF Flow, Idle, Early
<1> QED
  BY <1>6 DEF x

\* And when it has nothing to write any more, it was all of it.
LEMMA ClosedWhole ==
  ASSUME NEW s \in SessionType, NEW how \in {"fin", "rst"}, Settled(s), NothingLeft(s),
         NEW t \in Seq(Part), NEW answers, Flow(s, t, answers), Whole(s, t, answers)
  PROVE  Whole(Closed(s, how), t, answers)
<1> DEFINE x == Closed(s, how)
<1>1. /\ x.pc = "ended" /\ x.end = how
      /\ Given(x, t) = IF how = "rst" THEN t ELSE t \o s.out
  BY ClosedFields
<1>2. s.out \in Seq(Part) /\ <<>> \in Seq(Part)
  BY Fields, EmptyPart
<1>3. t \o s.out \in answers \cup {<<>>}
  <2>1. CASE s.pc \in Idle
    <3>1. t = <<>> /\ s.out = <<>>
      BY <2>1 DEF Flow, Settled
    <3>2. <<>> \o <<>> = <<>>
      BY <1>2, Parts
    <3> QED
      BY <3>1, <3>2
  <2>2. CASE s.pc = "writing" /\ s.response = <<>>
    <3>1. ToWrite(s) = <<>> /\ s.out \o <<>> = s.out
      BY <1>2, <2>2, Parts DEF ToWrite
    <3>2. Given(s, t) = t \o s.out
      BY <3>1 DEF Given
    <3> QED
      BY <2>2, <3>2 DEF Whole
  <2> QED
    BY <2>1, <2>2 DEF NothingLeft
<1> HIDE DEF x
<1>4. Whole(x, t, answers)
  BY <1>1, <1>3 DEF Whole
<1> QED
  BY <1>4 DEF x

\* A session that has nothing out yet starts to write f.
LEMMA FlowStarts ==
  ASSUME NEW s \in SessionType, s.pc \in Idle, Settled(s), NEW f \in Seq(Part)
  PROVE  LET x == [s EXCEPT !.pc = "writing", !.response = f]
         IN  /\ x \in SessionType /\ Settled(x) /\ x.node = s.node /\ x.pc = "writing"
             /\ Given(x, <<>>) = f
<1> DEFINE x == [s EXCEPT !.pc = "writing", !.response = f]
<1>1. /\ x \in SessionType /\ x.pc = "writing" /\ x.response = f /\ x.out = s.out
      /\ x.end = s.end /\ x.node = s.node
  BY DEF SessionType, Control
<1>2. s.out = <<>> /\ s.end = "open"
  BY DEF Settled, Idle, Early
<1> HIDE DEF x
<1>3. Settled(x)
  BY <1>1, <1>2 DEF Settled, Idle, Early
<1>4. <<>> \o f = f
  BY ConcatEmptySeq
<1>5. Given(x, <<>>) = f
  BY <1>1, <1>2, <1>4 DEF Given, ToWrite
<1> QED
  BY <1>1, <1>3, <1>5 DEF x

\* A sequence is its first element and the others.
LEMMA HeadAndTail ==
  ASSUME NEW f \in Seq(Part), f # <<>>
  PROVE  /\ <<Head(f)>> \in Seq(Part) /\ Tail(f) \in Seq(Part) /\ Head(f) \in Part
         /\ <<Head(f)>> \o Tail(f) = f
<1> DEFINE h == Head(f)
           u == Tail(f)
           g == <<h>> \o u
           n == Len(f)
<1>1. /\ h \in Part /\ u \in Seq(Part) /\ Len(u) = n - 1
      /\ \A i \in 1..Len(u) : u[i] = f[i + 1]
  BY HeadTailProperties
<1>2. h = f[1] /\ n \in Nat /\ n # 0
  BY LenProperties, EmptySeq
<1>3. <<h>> \in Seq(Part) /\ Len(<<h>>) = 1 /\ <<h>>[1] = h
  BY <1>1, OneElement
<1> HIDE DEF h, u, n
<1>4. /\ g \in Seq(Part) /\ Len(g) = 1 + Len(u)
      /\ \A i \in 1..1 + Len(u) : g[i] = IF i <= 1 THEN <<h>>[i] ELSE u[i - 1]
  BY <1>1, <1>3, ConcatProperties
<1> HIDE DEF g
<1>5. Len(g) = n
  BY <1>1, <1>2, <1>4
<1>6. \A i \in 1..n : g[i] = f[i]
  <2> TAKE i \in 1..n
  <2>0. i \in 1..1 + Len(u)
    BY <1>1, <1>2
  <2>1. CASE i = 1
    BY <1>2, <1>3, <1>4, <2>0, <2>1
  <2>2. CASE i # 1
    <3>1. i - 1 \in 1..Len(u) /\ (i - 1) + 1 = i /\ ~(i <= 1)
      BY <1>1, <1>2, <2>2
    <3> QED
      BY <1>1, <1>4, <2>0, <3>1
  <2> QED
    BY <2>1, <2>2
<1>7. g = f
  BY <1>4, <1>5, <1>6, SeqEqual DEF n
<1> QED
  BY <1>1, <1>3, <1>7 DEF g, h, u

\* A part goes from one sequence to the one before it.
LEMMA PartGoes ==
  ASSUME NEW f \in Seq(Part), NEW g \in Seq(Part), g # <<>>
  PROVE  Append(f, Head(g)) \in Seq(Part) /\ Append(f, Head(g)) \o Tail(g) = f \o g
<1>1. /\ <<Head(g)>> \in Seq(Part) /\ Tail(g) \in Seq(Part) /\ Head(g) \in Part
      /\ <<Head(g)>> \o Tail(g) = g
  BY HeadAndTail
<1>2. Append(f, Head(g)) \in Seq(Part) /\ Append(f, Head(g)) = f \o <<Head(g)>>
  BY <1>1, AppendProperties, AppendIsConcat
<1>3. f \o (<<Head(g)>> \o Tail(g)) = (f \o <<Head(g)>>) \o Tail(g)
  BY <1>1, Parts
<1> QED
  BY <1>1, <1>2, <1>3

\* A session writes out a part.
PartWritten(s) ==
  [s EXCEPT !.pc = s.pc, !.response = Tail(s.response), !.out = Append(s.out, Head(s.response))]

LEMMA FlowWrites ==
  ASSUME NEW s \in SessionType, Settled(s), s.pc = "writing", s.response # <<>>
  PROVE  LET x == PartWritten(s)
         IN  /\ x \in SessionType /\ Settled(x) /\ x.pc = "writing" /\ x.node = s.node
             /\ x.end = s.end /\ \A t : Given(x, t) = Given(s, t)
<1> DEFINE x == PartWritten(s)
           f == Append(s.out, Head(s.response))
           g == Tail(s.response)
<1>1. s.response \in Seq(Part) /\ s.out \in Seq(Part)
  BY Fields
<1>2. f \in Seq(Part) /\ g \in Seq(Part) /\ f \o g = s.out \o s.response
  BY <1>1, PartGoes, HeadAndTail
<1> HIDE DEF f, g
<1>3. /\ x \in SessionType /\ x.pc = s.pc /\ x.response = g /\ x.out = f
      /\ x.end = s.end /\ x.node = s.node
  BY <1>2 DEF SessionType, PartWritten, f, g
<1> HIDE DEF x
<1>4. Settled(x)
  BY <1>3 DEF Settled, Idle, Early
<1>5. \A t : Given(x, t) = Given(s, t)
  BY <1>2, <1>3 DEF Given, ToWrite
<1> QED
  BY <1>3, <1>4, <1>5 DEF x

\* The reader of a session takes a part.
LEMMA FlowTaken ==
  ASSUME NEW s \in SessionType, Settled(s), s.out # <<>>
  PROVE  LET x == Drained(s)
         IN  /\ x \in SessionType /\ Settled(x) /\ x.pc = s.pc /\ x.node = s.node
             /\ x.end = s.end /\ x.response = s.response /\ s.pc \notin Idle
             /\ \A t \in Seq(Part) :
                  /\ Append(t, Head(s.out)) \in Seq(Part)
                  /\ Given(x, Append(t, Head(s.out))) = Given(s, t)
<1> DEFINE x == Drained(s)
           g == Tail(s.out)
           w == ToWrite(s)
<1>1. s.out \in Seq(Part) /\ s.response \in Seq(Part) /\ w \in Seq(Part)
  BY Fields
<1>2. g \in Seq(Part)
  BY <1>1, HeadAndTail
<1>3. s.pc \notin Idle
  BY DEF Settled
<1>4. /\ x \in SessionType /\ x.pc = s.pc /\ x.response = s.response /\ x.out = g
      /\ x.end = s.end /\ x.node = s.node
  BY <1>1, <1>2 DEF SessionType, Drained
<1> HIDE DEF x, g
<1>5. Settled(x)
  BY <1>3, <1>4 DEF Settled, Idle
<1>6. ToWrite(x) = w
  BY <1>4 DEF ToWrite
<1> HIDE DEF w
<1>7. ASSUME NEW t \in Seq(Part)
      PROVE  /\ Append(t, Head(s.out)) \in Seq(Part)
             /\ Given(x, Append(t, Head(s.out))) = Given(s, t)
  <2> DEFINE f == Append(t, Head(s.out))
  <2>1. f \in Seq(Part) /\ f \o g = t \o s.out
    BY <1>1, PartGoes DEF g
  <2>2. f \in Seq(Part) /\ g \in Seq(Part) /\ w \in Seq(Part)
    BY <1>1, <1>2, <2>1
  <2> HIDE DEF f
  <2>3. f \o (g \o w) = (f \o g) \o w
    BY <2>2, Parts, ZenonT(40)
  <2>4. t \o (s.out \o w) = (t \o s.out) \o w
    BY <1>1, Parts, ZenonT(40)
  <2>5. Given(x, f) = f \o (g \o w)
    BY <1>4, <1>6 DEF Given
  <2>6. Given(s, t) = t \o (s.out \o w)
    BY DEF Given, w
  <2> QED
    BY <2>1, <2>3, <2>4, <2>5, <2>6 DEF f
<1> QED
  BY <1>3, <1>4, <1>5, <1>7 DEF x

\* A proxy takes a part.
LEMMA FlowGets ==
  ASSUME NEW s \in SessionType, Settled(s), s.pc = "relaying", NEW upstream
  PROVE  LET x == Getting(s, upstream)
         IN  /\ Settled(x) /\ x.pc = "relaying" /\ x.node = s.node /\ x.end = s.end
             /\ x.response = Append(s.response, Head(upstream.out))
             /\ \A t : Given(x, t) = Given(s, t)
<1> DEFINE x == Getting(s, upstream)
<1>1. /\ x.pc = s.pc /\ x.out = s.out /\ x.end = s.end /\ x.node = s.node
      /\ x.response = Append(s.response, Head(upstream.out))
  BY DEF SessionType, Getting
<1> HIDE DEF x
<1>2. Settled(x)
  BY <1>1 DEF Settled, Early
<1>3. \A t : Given(x, t) = Given(s, t)
  BY <1>1 DEF Given, ToWrite
<1> QED
  BY <1>1, <1>2, <1>3 DEF x

\* The same control and the same to give is the same flow.
LEMMA SameFlow ==
  ASSUME NEW s, NEW t, NEW x, NEW u, NEW answers, x.pc = s.pc, Given(x, u) = Given(s, t),
         s.pc \in Idle => u = t, Flow(s, t, answers)
  PROVE  Flow(x, u, answers)
BY DEF Flow

LEMMA SameWhole ==
  ASSUME NEW s, NEW t, NEW x, NEW u, NEW answers, x.pc = s.pc, x.end = s.end,
         Given(x, u) = Given(s, t), Whole(s, t, answers)
  PROVE  Whole(x, u, answers)
BY DEF Whole

-----------------------------------------------------------------------------
(* The flow through a chain, step by step.                                 *)

\* What FlowInv says of session i.
SessionFlow(c, i) ==
  /\ Settled(chain[c][i])
  /\ Linked(c, i) =>
       /\ Flow(chain[c][i], Taken(c, i), AnswersTo(request[c]))
       /\ AllRun(c) => Whole(chain[c][i], Taken(c, i), AnswersTo(request[c]))

LEMMA TakenType ==
  ASSUME ChainTypes, NEW c \in Client, NEW i \in 1..Len(chain[c])
  PROVE  Taken(c, i) \in Seq(Part)
<1>1. CASE i = 1
  BY <1>1 DEF Taken, ChainTypes
<1>2. CASE i # 1
  <2>1. chain[c] \in Seq(SessionType) /\ Len(chain[c]) \in Nat
    BY DEF ChainTypes
  <2>2. i - 1 \in 1..Len(chain[c])
    BY <1>2, <2>1
  <2>3. chain[c][i - 1] \in SessionType
    BY <2>1, <2>2, ElementOfSeq
  <2> QED
    BY <1>2, <2>3, Fields DEF Taken
<1> QED
  BY <1>1, <1>2

\* When all servers of a chain run, they ran before.
LEMMA RanBefore ==
  ASSUME Evolution, alive' \subseteq alive, NEW c \in Client, AllRun(c)'
  PROVE  AllRun(c)
BY DEF Evolution, Evolves, AllRun

\* A session that did not change, nor did the one before it.
LEMMA FlowStays ==
  ASSUME request' = request, NEW c \in Client, AllRun(c)' => AllRun(c),
         NEW i \in 1..Len(chain[c]), SessionFlow(c, i), chain'[c][i] = chain[c][i],
         i = 1 => got'[c] = got[c],
         i # 1 => chain'[c][i - 1] = chain[c][i - 1]
  PROVE  SessionFlow(c, i)'
<1>1. /\ Linked(c, i)' <=> Linked(c, i)
      /\ Taken(c, i)' = Taken(c, i) /\ AnswersTo(request[c])' = AnswersTo(request[c])
  <2>1. Linked(c, i)' <=> Linked(c, i)
    BY DEF Linked
  <2>2. Taken(c, i)' = Taken(c, i)
    BY DEF Taken
  <2> QED
    BY <2>1, <2>2
<1> QED
  BY <1>1 DEF SessionFlow

LEMMA UpdateShape ==
  ASSUME ChainTypes, NEW c \in Client, NEW i \in 1..Len(chain[c]), NEW s \in SessionType,
         Update(c, i, s)
  PROVE  /\ \A d \in Client : d # c => chain'[d] = chain[d]
         /\ chain'[c][i] = s /\ Len(chain'[c]) = Len(chain[c])
         /\ \A j \in 1..Len(chain[c]) : j # i => chain'[c][j] = chain[c][j]
<1> DEFINE t == [chain[c] EXCEPT ![i] = s]
<1>1. chain[c] \in Seq(SessionType)
  BY DEF ChainTypes
<1>2. /\ t \in Seq(SessionType) /\ Len(t) = Len(chain[c]) /\ t[i] = s
      /\ \A j \in 1..Len(chain[c]) : j # i => t[j] = chain[c][j]
  BY <1>1, Replace
<1>3. Become(c, t)
  BY DEF Update
<1> HIDE DEF t
<1>4. chain'[c] = t /\ \A d \in Client : d # c => chain'[d] = chain[d]
  BY <1>2, <1>3, Becomes
<1> QED
  BY <1>2, <1>4

\* One session of a chain changes, and gives no less than it should.
LEMMA FlowUpdate ==
  ASSUME ChainTypes, FlowInv, Evolution, alive' \subseteq alive, got' = got,
         NEW c \in Client, NEW i \in 1..Len(chain[c]), NEW s \in SessionType,
         Update(c, i, s), Settled(s),
         Linked(c, i) => /\ Flow(s, Taken(c, i), AnswersTo(request[c]))
                         /\ AllRun(c) => Whole(s, Taken(c, i), AnswersTo(request[c])),
         s.pc = "relaying" => /\ chain[c][i].pc = "relaying"
                              /\ s.response = chain[c][i].response
  PROVE  FlowInv'
<1>1. /\ \A d \in Client : d # c => chain'[d] = chain[d]
      /\ chain'[c][i] = s /\ Len(chain'[c]) = Len(chain[c])
      /\ \A j \in 1..Len(chain[c]) : j # i => chain'[c][j] = chain[c][j]
  BY UpdateShape
<1>2. \A d \in Client : \A j \in 1..Len(chain[d]) : SessionFlow(d, j)
  BY DEF FlowInv, SessionFlow
<1>3. /\ \A d \in Client : AllRun(d)' => AllRun(d)
      /\ request' = request /\ AnswersTo(request[c])' = AnswersTo(request[c])
  <2>1. request' = request
    BY DEF Evolution
  <2> QED
    BY <2>1, RanBefore
<1>4. Len(chain[c]) \in Nat
  BY DEF ChainTypes
<1>5. ASSUME NEW d \in Client, NEW j \in 1..Len(chain[d]) PROVE SessionFlow(d, j)'
  <2>1. CASE d # c
    <3>1. chain'[d] = chain[d] /\ got'[d] = got[d] /\ SessionFlow(d, j)
      BY <1>1, <1>2, <2>1
    <3> QED
      BY <1>3, <3>1, FlowStays
  <2>2. CASE d = c /\ j = i
    <3>1. /\ Linked(c, i)' <=> Linked(c, i)
          /\ Taken(c, i)' = Taken(c, i)
      <4>1. i # 1 => i - 1 \in 1..Len(chain[c]) /\ i - 1 # i
        BY <1>4
      <4>2. i # 1 => chain'[c][i - 1] = chain[c][i - 1]
        BY <1>1, <4>1
      <4>3. Linked(c, i)' <=> Linked(c, i)
        BY <4>2 DEF Linked
      <4>4. Taken(c, i)' = Taken(c, i)
        BY <4>2 DEF Taken
      <4> QED
        BY <4>3, <4>4
    <3> QED
      BY <1>1, <1>3, <2>2, <3>1 DEF SessionFlow
  <2>3. CASE d = c /\ j = i + 1
    <3>1. j # 1 /\ j - 1 = i /\ j # i
      BY <1>4, <2>3
    <3>2. chain'[c][j] = chain[c][j] /\ chain'[c][j - 1] = s /\ chain[c][j - 1] = chain[c][i]
      BY <1>1, <2>3, <3>1
    <3>3. Linked(c, j)' => Linked(c, j) /\ Taken(c, j)' = Taken(c, j)
      BY <3>1, <3>2 DEF Linked, Taken
    <3> QED
      BY <1>2, <1>3, <2>3, <3>2, <3>3 DEF SessionFlow
  <2>4. CASE d = c /\ j # i /\ j # i + 1
    <3>1. j # 1 => j - 1 \in 1..Len(chain[c]) /\ j - 1 # i
      BY <1>4, <2>4
    <3>2. /\ chain'[d][j] = chain[d][j] /\ SessionFlow(d, j)
          /\ j # 1 => chain'[d][j - 1] = chain[d][j - 1]
      BY <1>1, <1>2, <2>4, <3>1
    <3> QED
      BY <1>3, <3>2, FlowStays
  <2> QED
    BY <2>1, <2>2, <2>3, <2>4
<1>6. ASSUME NEW d \in Client, chain'[d] = <<>> PROVE got'[d] = <<>>
  <2>1. d # c
    <3>1. Len(<<>>) = 0 /\ Len(chain[c]) # 0
      BY <1>4, EmptySeq
    <3> QED
      BY <1>1, <1>6, <3>1
  <2> QED
    BY <1>1, <1>6, <2>1 DEF FlowInv
<1>7. \A d \in Client : Len(chain'[d]) = Len(chain[d])
  BY DEF Evolution
<1> QED
  BY <1>5, <1>6, <1>7 DEF FlowInv, SessionFlow

\* A session ends that has nothing to write any more, or no reader.
LEMMA FlowEnds ==
  ASSUME ChainTypes, FlowInv, alive' \subseteq alive, got' = got, request' = request,
         NEW c \in Client, NEW i \in 1..Len(chain[c]), EndSession(c, i),
         Linked(c, i) => NothingLeft(chain[c][i])
  PROVE  FlowInv'
<1> PICK how \in {"fin", "rst"} : Update(c, i, Closed(chain[c][i], how))
  BY DEF EndSession
<1> DEFINE s == chain[c][i]
           x == Closed(s, how)
<1>1. s \in SessionType /\ Taken(c, i) \in Seq(Part)
  BY ElementOfSeq, TakenType DEF ChainTypes
<1>2. x \in SessionType /\ Settled(x) /\ x.pc = "ended"
  BY <1>1, ClosedFields
<1>3. Evolution
  BY Ends
<1>4. SessionFlow(c, i)
  BY DEF FlowInv, SessionFlow
<1>5. ASSUME Linked(c, i)
      PROVE  /\ Flow(x, Taken(c, i), AnswersTo(request[c]))
             /\ AllRun(c) => Whole(x, Taken(c, i), AnswersTo(request[c]))
  <2>1. Flow(s, Taken(c, i), AnswersTo(request[c])) /\ Settled(s) /\ NothingLeft(s)
    BY <1>4, <1>5 DEF SessionFlow
  <2>2. Flow(x, Taken(c, i), AnswersTo(request[c]))
    BY <1>1, <2>1, ClosedFlow
  <2>3. ASSUME AllRun(c) PROVE Whole(x, Taken(c, i), AnswersTo(request[c]))
    <3>1. Whole(s, Taken(c, i), AnswersTo(request[c]))
      BY <1>4, <1>5, <2>3 DEF SessionFlow
    <3> QED
      BY <1>1, <2>1, <3>1, ClosedWhole
  <2> QED
    BY <2>2, <2>3
<1> HIDE DEF x
<1>6. Update(c, i, x)
  BY DEF x
<1> QED
  BY <1>2, <1>3, <1>5, <1>6, FlowUpdate

\* A session goes on that does not write yet.
LEMMA FlowGoes ==
  ASSUME ChainTypes, FlowInv, alive' \subseteq alive, got' = got, Evolution,
         NEW c \in Client, NEW i \in 1..Len(chain[c]), NEW label \in Early,
         chain[c][i].pc \in Early, Goto(c, i, label)
  PROVE  FlowInv'
<1> DEFINE s == chain[c][i]
           x == [s EXCEPT !.pc = label]
<1>1. s \in SessionType /\ label \in Idle
  BY ElementOfSeq DEF ChainTypes, Idle
<1>2. SessionFlow(c, i)
  BY DEF FlowInv, SessionFlow
<1>3. Settled(s)
  BY <1>2 DEF SessionFlow
<1>4. /\ x \in SessionType /\ Settled(x) /\ x.node = s.node
      /\ \A t, answers : Flow(s, t, answers) => Flow(x, t, answers) /\ Whole(x, t, answers)
  BY <1>1, <1>3, FlowEarly
<1>5. Update(c, i, x) /\ x.pc # "relaying"
  BY <1>1 DEF Goto, SessionType, Early
<1> HIDE DEF x
<1>6. Linked(c, i) => /\ Flow(x, Taken(c, i), AnswersTo(request[c]))
                      /\ Whole(x, Taken(c, i), AnswersTo(request[c]))
  BY <1>2, <1>4 DEF SessionFlow
<1> QED
  BY <1>4, <1>5, <1>6, FlowUpdate

\* A session that answers by itself starts to write.
LEMMA FlowDispatch ==
  ASSUME ChainTypes, ChainInv, WayInv, FlowInv, NEW c \in Client,
         NEW i \in 1..Len(chain[c]), Dispatch(c, i)
  PROVE  FlowInv'
<1> DEFINE s == chain[c][i]
           answers == AnswersTo(request[c])
<1>1. s.pc = "dispatch" /\ UNCHANGED <<alive, request, got>> /\ Evolution
  BY SessionEvolves DEF Dispatch
<1>2. s \in SessionType /\ SessionFlow(c, i)
  BY ElementOfSeq DEF ChainTypes, FlowInv, SessionFlow
<1>3. s.pc \in Early /\ s.pc \in Idle /\ Settled(s)
  BY <1>1, <1>2 DEF Early, Idle, SessionFlow
<1>4. CASE Goto(c, i, "connecting")
  BY <1>1, <1>3, <1>4, FlowGoes DEF Early
<1>5. ASSUME NEW f \in Seq(Part), f \in answers,
             Update(c, i, [s EXCEPT !.pc = "writing", !.response = f])
      PROVE  FlowInv'
  <2> DEFINE x == [s EXCEPT !.pc = "writing", !.response = f]
  <2>1. x \in SessionType /\ Settled(x) /\ x.pc = "writing" /\ Given(x, <<>>) = f
    BY <1>2, <1>3, FlowStarts
  <2>2. f \o <<>> = f /\ <<>> \in Seq(Part)
    BY Parts, EmptyPart
  <2> HIDE DEF x
  <2>3. Flow(x, <<>>, answers) /\ Whole(x, <<>>, answers)
    <3>1. Begun(f, answers)
      BY <1>5, <2>2 DEF Begun
    <3> QED
      BY <1>5, <2>1, <3>1 DEF Flow, Whole, Idle, Early
  <2>4. Linked(c, i) => Taken(c, i) = <<>>
    BY <1>2, <1>3 DEF SessionFlow, Flow
  <2>5. Update(c, i, x)
    BY <1>5 DEF x
  <2> QED
    BY <1>1, <2>1, <2>3, <2>4, <2>5, FlowUpdate
<1>6. ~Proxies(s) => answers = IF get_prefix(s.path) \in DOMAIN Route[s.node]
                               THEN {AnswerOf(s.node, s.path)} ELSE {NotFoundOf(s.node)}
  BY <1>1, OwnAnswer
<1>7. AnswerOf(s.node, s.path) \in Seq(Part) /\ NotFoundOf(s.node) \in Seq(Part)
  BY <1>2, AnswerTypes DEF SessionType
<1>8. CASE /\ get_prefix(s.path) \notin DOMAIN Route[s.node]
           /\ Update(c, i, [s EXCEPT !.pc = "writing", !.response = NotFoundOf(s.node)])
  <2>1. NotFoundOf(s.node) \in answers
    BY <1>6, <1>8 DEF Proxies
  <2> HIDE DEF s, answers
  <2> QED
    BY <1>5, <1>7, <1>8, <2>1
<1>9. CASE /\ get_prefix(s.path) \in DOMAIN Route[s.node]
           /\ Route[s.node][get_prefix(s.path)] = Local
           /\ Update(c, i, [s EXCEPT !.pc = "writing", !.response = AnswerOf(s.node, s.path)])
  <2>1. AnswerOf(s.node, s.path) \in answers
    BY <1>6, <1>9 DEF Proxies
  <2> HIDE DEF s, answers
  <2> QED
    BY <1>5, <1>7, <1>9, <2>1
<1> QED
  BY <1>4, <1>8, <1>9 DEF Dispatch

\* A session writes a part, or ends when it has none or no reader.
LEMMA FlowWrite ==
  ASSUME ChainTypes, FlowInv, NEW c \in Client, NEW i \in 1..Len(chain[c]), Write(c, i)
  PROVE  FlowInv'
<1> DEFINE s == chain[c][i]
<1>1. s.pc = "writing" /\ UNCHANGED <<alive, request, got>> /\ Evolution
  BY SessionEvolves DEF Write
<1>2. s \in SessionType /\ SessionFlow(c, i)
  BY ElementOfSeq DEF ChainTypes, FlowInv, SessionFlow
<1>3. CASE (s.response = <<>> \/ (i > 1 /\ Over(chain[c][i - 1]))) /\ EndSession(c, i)
  <2>1. Linked(c, i) => NothingLeft(s)
    <3>1. CASE s.response = <<>>
      BY <1>1, <3>1 DEF NothingLeft
    <3>2. CASE i > 1 /\ Over(chain[c][i - 1])
      BY <3>2 DEF Linked, Over
    <3> QED
      BY <1>3, <3>1, <3>2
  <2> QED
    BY <1>1, <1>3, <2>1, FlowEnds
<1>4. CASE /\ s.response # <<>>
           /\ Update(c, i, [s EXCEPT !.out = Append(@, Head(s.response)),
                                     !.response = Tail(@)])
  <2> DEFINE x == PartWritten(s)
  <2>1. Settled(s)
    BY <1>2 DEF SessionFlow
  <2>2. /\ x \in SessionType /\ Settled(x) /\ x.pc = "writing" /\ x.end = s.end
        /\ \A t : Given(x, t) = Given(s, t)
    BY <1>1, <1>2, <1>4, <2>1, FlowWrites
  <2>3. Update(c, i, x)
    <3>1. x = [s EXCEPT !.out = Append(@, Head(s.response)), !.response = Tail(@)]
      BY <1>2 DEF SessionType, PartWritten
    <3> QED
      BY <1>4, <3>1
  <2> HIDE DEF x
  <2>4. ASSUME Linked(c, i)
        PROVE  /\ Flow(x, Taken(c, i), AnswersTo(request[c]))
               /\ AllRun(c) => Whole(x, Taken(c, i), AnswersTo(request[c]))
    BY <1>1, <1>2, <2>2, <2>4, SameFlow, SameWhole DEF SessionFlow
  <2> QED
    BY <1>1, <2>2, <2>3, <2>4, FlowUpdate
<1> QED
  BY <1>3, <1>4 DEF Write

\* A process that ends leaves a session as it was, or closes it.
LEMMA DieShape ==
  ASSUME ChainTypes, NEW n, Die(n), request' = request,
         NEW c \in Client, NEW i \in 1..Len(chain[c])
  PROVE  \/ chain'[c][i] = chain[c][i]
         \/ /\ chain[c][i].node = n
            /\ \E how \in {"fin", "rst"} : chain'[c][i] = Closed(chain[c][i], how)
<1> PICK how \in {"fin", "rst"} :
      chain' = [d \in Client |-> [j \in DOMAIN chain[d] |->
         LET s == chain[d][j]
         IN  IF s.node # n \/ Over(s) THEN s
             ELSE Closed(s, IF s.pc = "backlog" THEN "rst" ELSE how)]]
  BY DEF Die
<1> DEFINE s == chain[c][i]
           as == IF s.pc = "backlog" THEN "rst" ELSE how
<1>1. DOMAIN chain[c] = 1..Len(chain[c])
  BY DEF ChainTypes
<1>2. chain'[c][i] = IF s.node # n \/ Over(s) THEN s ELSE Closed(s, as)
  BY <1>1
<1>3. as \in {"fin", "rst"}
  OBVIOUS
<1> HIDE DEF as
<1> QED
  BY <1>2, <1>3

LEMMA FlowDies ==
  ASSUME ChainTypes, FlowInv, NEW n, Die(n), UNCHANGED <<request, got>>
  PROVE  FlowInv'
<1>1. /\ Evolution /\ alive' \subseteq alive /\ n \notin alive'
      /\ request' = request /\ got' = got
  BY Dies DEF Die
<1>2. ASSUME NEW c \in Client, NEW i \in 1..Len(chain[c])
      PROVE  \/ chain'[c][i] = chain[c][i]
             \/ /\ chain[c][i].node = n
                /\ \E how \in {"fin", "rst"} : chain'[c][i] = Closed(chain[c][i], how)
  BY <1>1, DieShape
<1>3. ASSUME NEW c \in Client, NEW i \in 1..Len(chain[c])
      PROVE  chain'[c][i] = chain[c][i] \/ chain'[c][i].pc = "ended"
  <2>1. chain[c][i] \in SessionType
    BY ElementOfSeq DEF ChainTypes
  <2>2. \A how \in {"fin", "rst"} : Closed(chain[c][i], how).pc = "ended"
    BY <2>1, ClosedFields
  <2> QED
    BY <1>2, <2>2
<1>4. ASSUME NEW c \in Client, NEW i \in 1..Len(chain[c]) PROVE SessionFlow(c, i)'
  <2>1. SessionFlow(c, i) /\ chain[c][i] \in SessionType /\ Taken(c, i) \in Seq(Part)
    BY ElementOfSeq, TakenType DEF ChainTypes, FlowInv, SessionFlow
  <2>2. Linked(c, i)' => Linked(c, i) /\ Taken(c, i)' = Taken(c, i)
    <3>1. CASE i = 1
      BY <1>1, <3>1 DEF Linked, Taken
    <3>2. CASE i # 1
      <4>1. i - 1 \in 1..Len(chain[c])
        BY <3>2 DEF ChainTypes
      <4>2. chain'[c][i - 1] = chain[c][i - 1] \/ chain'[c][i - 1].pc = "ended"
        BY <1>3, <4>1
      <4> QED
        BY <3>2, <4>2 DEF Linked, Taken
    <3> QED
      BY <3>1, <3>2
  <2>3. (AllRun(c)' => AllRun(c)) /\ AnswersTo(request[c])' = AnswersTo(request[c])
    BY <1>1, RanBefore
  <2>4. CASE chain'[c][i] = chain[c][i]
    BY <2>1, <2>2, <2>3, <2>4 DEF SessionFlow
  <2>5. ASSUME chain[c][i].node = n, NEW how \in {"fin", "rst"},
               chain'[c][i] = Closed(chain[c][i], how)
        PROVE  SessionFlow(c, i)'
    <3>1. chain'[c][i].node = n /\ Settled(chain'[c][i])
      <4>1. Closed(chain[c][i], how).node = chain[c][i].node /\ Settled(Closed(chain[c][i], how))
        BY <2>1, ClosedFields
      <4> QED
        BY <2>5, <4>1
    <3>2. ~AllRun(c)'
      <4>1. i \in 1..Len(chain'[c])
        BY <1>1 DEF Evolution
      <4> QED
        BY <1>1, <3>1, <4>1 DEF AllRun
    <3>3. \A t \in Seq(Part) : \A answers :
            Flow(chain[c][i], t, answers) => Flow(chain'[c][i], t, answers)
      BY <2>1, <2>5, ClosedFlow
    <3>4. Linked(c, i)' => Flow(chain'[c][i], Taken(c, i), AnswersTo(request[c]))
      BY <2>1, <2>2, <3>3 DEF SessionFlow
    <3>5. Settled(chain[c][i])'
      BY <3>1
    <3> QED
      BY <2>2, <2>3, <3>2, <3>4, <3>5 DEF SessionFlow
  <2> QED
    BY <1>2, <2>4, <2>5
<1>5. ASSUME NEW c \in Client, chain'[c] = <<>> PROVE got'[c] = <<>>
  <2>1. chain[c] \in Seq(SessionType) /\ Len(chain[c]) = Len(chain'[c]) /\ Len(<<>>) = 0
    BY <1>1, EmptySeq DEF Evolution, ChainTypes
  <2>2. chain[c] = <<>>
    BY <1>5, <2>1, EmptySeq
  <2> QED
    BY <1>1, <2>2 DEF FlowInv
<1>6. \A c \in Client : Len(chain'[c]) = Len(chain[c])
  BY <1>1 DEF Evolution
<1> QED
  BY <1>4, <1>5, <1>6 DEF FlowInv, SessionFlow

\* A session that is accepted, parsed, or runs out of memory.
LEMMA FlowAccept ==
  ASSUME ChainTypes, FlowInv, NEW c \in Client, NEW i \in 1..Len(chain[c]), Accept(c, i)
  PROVE  FlowInv'
<1>1. chain[c][i].pc \in Early /\ UNCHANGED <<request, got>> /\ Evolution
  BY SessionEvolves DEF Accept, Early
<1>2. CASE Goto(c, i, "parsing") /\ UNCHANGED alive
  BY <1>1, <1>2, FlowGoes DEF Early
<1>3. CASE Die(chain[c][i].node)
  BY <1>1, <1>3, FlowDies
<1> QED
  BY <1>2, <1>3 DEF Accept

LEMMA FlowParse ==
  ASSUME ChainTypes, FlowInv, NEW c \in Client, NEW i \in 1..Len(chain[c]), Parse(c, i)
  PROVE  FlowInv'
<1>1. chain[c][i].pc \in Early /\ UNCHANGED <<alive, request, got>> /\ Evolution
  BY SessionEvolves DEF Parse, Early
<1>2. CASE Goto(c, i, "looping")
  BY <1>1, <1>2, FlowGoes DEF Early
<1>3. CASE Goto(c, i, "dispatch")
  BY <1>1, <1>3, FlowGoes DEF Early
<1>4. CASE EndSession(c, i)
  BY <1>1, <1>4, FlowEnds DEF NothingLeft, Idle
<1> QED
  BY <1>2, <1>3, <1>4 DEF Parse

LEMMA FlowRunOut ==
  ASSUME ChainTypes, FlowInv, NEW c \in Client, NEW i \in 1..Len(chain[c]), RunOut(c, i)
  PROVE  FlowInv'
<1>1. chain[c][i].pc \in Early /\ UNCHANGED <<request, got>>
  BY DEF RunOut, Early
<1>2. CASE EndSession(c, i) /\ UNCHANGED alive
  BY <1>1, <1>2, FlowEnds DEF NothingLeft, Idle
<1>3. CASE Die(chain[c][i].node)
  BY <1>1, <1>3, FlowDies
<1> QED
  BY <1>2, <1>3 DEF RunOut

\* An upstream has closed its socket and its proxy read all: that is what the
\* proxy will write.
LEMMA FlowRelayed ==
  ASSUME ChainTypes, ChainInv, FlowInv, NEW c \in Client, NEW i \in 1..Len(chain[c]),
         i + 1 \in 1..Len(chain[c]), chain[c][i].pc = "relaying",
         chain[c][i + 1].out = <<>>, chain[c][i + 1].end = "fin",
         Goto(c, i, "writing"), UNCHANGED <<alive, request, got>>
  PROVE  FlowInv'
<1> DEFINE s == chain[c][i]
           upstream == chain[c][i + 1]
           answers == AnswersTo(request[c])
           x == [s EXCEPT !.pc = "writing", !.response = s.response]
<1>1. Evolution
  BY Goes DEF Control
<1>2. /\ s \in SessionType /\ SessionFlow(c, i)
      /\ upstream \in SessionType /\ SessionFlow(c, i + 1)
  BY ElementOfSeq DEF ChainTypes, FlowInv, SessionFlow
<1>3. s.response \in Seq(Part) /\ s.pc \in Idle /\ Settled(s) /\ Settled(upstream)
  BY <1>2, Fields DEF Idle, SessionFlow
<1>4. Given(upstream, s.response) = s.response
  <2>1. upstream.pc = "ended"
    BY <1>3 DEF Settled
  <2>2. ToWrite(upstream) = <<>>
    BY <2>1 DEF ToWrite
  <2>3. <<>> \o <<>> = <<>> /\ s.response \o <<>> = s.response
    BY <1>3, Parts, EmptyPart
  <2> QED
    BY <2>2, <2>3 DEF Given
<1>5. Linked(c, i + 1) /\ Taken(c, i + 1) = s.response
  <2>1. i + 1 # 1 /\ (i + 1) - 1 = i
    BY DEF ChainTypes
  <2> QED
    BY <2>1 DEF Linked, Taken
<1>6. Begun(s.response, answers) /\ (AllRun(c) => s.response \in answers \cup {<<>>})
  BY <1>2, <1>4, <1>5 DEF SessionFlow, Flow, Whole
<1>7. x \in SessionType /\ Settled(x) /\ x.pc = "writing" /\ Given(x, <<>>) = s.response
  BY <1>2, <1>3, FlowStarts
<1>8. Update(c, i, x)
  <2>1. x = [s EXCEPT !.pc = "writing"]
    BY <1>2 DEF SessionType
  <2> QED
    BY <2>1 DEF Goto
<1> HIDE DEF x
<1>9. Flow(x, <<>>, answers) /\ (AllRun(c) => Whole(x, <<>>, answers))
  BY <1>6, <1>7 DEF Flow, Whole, Idle, Early
<1>10. Linked(c, i) => Taken(c, i) = <<>>
  BY <1>2, <1>3 DEF SessionFlow, Flow
<1> QED
  BY <1>1, <1>7, <1>8, <1>9, <1>10, FlowUpdate

\* A part goes from an upstream to its proxy.
LEMMA FlowPasses ==
  ASSUME ChainTypes, FlowInv, Evolution, UNCHANGED <<alive, request, got>>,
         NEW c \in Client, NEW i \in 1..Len(chain[c]), i + 1 \in 1..Len(chain[c]),
         chain[c][i].pc = "relaying", chain[c][i + 1].out # <<>>,
         Passed(c, i, Getting(chain[c][i], chain[c][i + 1]), Drained(chain[c][i + 1]))
  PROVE  FlowInv'
<1> DEFINE s == chain[c][i]
           upstream == chain[c][i + 1]
           x == Getting(s, upstream)
           y == Drained(upstream)
           answers == AnswersTo(request[c])
<1>1. \A d \in Client : \A j \in 1..Len(chain[d]) : SessionFlow(d, j)
  BY DEF FlowInv, SessionFlow
<1>2. /\ s \in SessionType /\ upstream \in SessionType
      /\ Settled(s) /\ Settled(upstream) /\ s.response \in Seq(Part)
  <2>1. s \in SessionType /\ upstream \in SessionType
    BY ElementOfSeq DEF ChainTypes
  <2> QED
    BY <1>1, <2>1, Fields DEF SessionFlow
<1>3. /\ Settled(x) /\ x.pc = s.pc /\ x.node = s.node /\ x.end = s.end
      /\ x.response = Append(s.response, Head(upstream.out))
      /\ \A t : Given(x, t) = Given(s, t)
  BY <1>2, FlowGets
<1>4. /\ Settled(y) /\ y.pc = upstream.pc /\ y.node = upstream.node
      /\ y.end = upstream.end /\ y.response = upstream.response /\ upstream.pc \notin Idle
      /\ Given(y, x.response) = Given(upstream, s.response)
  <2>1. /\ Settled(y) /\ y.pc = upstream.pc /\ y.node = upstream.node
        /\ y.end = upstream.end /\ y.response = upstream.response /\ upstream.pc \notin Idle
        /\ \A t \in Seq(Part) : Given(y, Append(t, Head(upstream.out))) = Given(upstream, t)
    BY <1>2, FlowTaken
  <2> HIDE DEF x, y
  <2> QED
    BY <1>2, <1>3, <2>1
<1>5. Passed(c, i, x, y)
  OBVIOUS
<1> HIDE DEF x, y
<1>6. /\ \A d \in Client : d # c => chain'[d] = chain[d]
      /\ chain'[c][i] = x /\ chain'[c][i + 1] = y
      /\ \A j \in 1..Len(chain[c]) : j # i /\ j # i + 1 => chain'[c][j] = chain[c][j]
  BY <1>5 DEF Passed
<1>7. /\ \A d \in Client : AllRun(d)' => AllRun(d)
      /\ request' = request /\ got' = got /\ answers' = answers
  BY RanBefore
<1>8. Len(chain[c]) \in Nat
  BY DEF ChainTypes
<1>9. ASSUME NEW d \in Client, NEW j \in 1..Len(chain[d]) PROVE SessionFlow(d, j)'
  <2>1. CASE d # c
    <3>1. chain'[d] = chain[d] /\ got'[d] = got[d] /\ SessionFlow(d, j)
      BY <1>1, <1>6, <1>7, <2>1
    <3> QED
      BY <1>7, <3>1, FlowStays
  <2>2. CASE d = c /\ j = i
    <3>1. i # 1 => i - 1 \in 1..Len(chain[c]) /\ i - 1 # i /\ i - 1 # i + 1
      BY <1>8
    <3>2. i # 1 => chain'[c][i - 1] = chain[c][i - 1]
      BY <1>6, <3>1
    <3>3. (Linked(c, i)' <=> Linked(c, i)) /\ Taken(c, i)' = Taken(c, i)
      BY <1>7, <3>2 DEF Linked, Taken
    <3>4. Flow(s, Taken(c, i), answers) => Flow(x, Taken(c, i), answers)
      BY <1>3, SameFlow
    <3>5. Whole(s, Taken(c, i), answers) => Whole(x, Taken(c, i), answers)
      BY <1>3, SameWhole
    <3>6. SessionFlow(c, i)
      BY <1>1
    <3> QED
      BY <1>3, <1>6, <1>7, <2>2, <3>3, <3>4, <3>5, <3>6 DEF SessionFlow
  <2>3. CASE d = c /\ j = i + 1
    <3>1. i + 1 # 1 /\ (i + 1) - 1 = i
      BY <1>8
    <3>2. Linked(c, i + 1) /\ Taken(c, i + 1) = s.response /\ Taken(c, i + 1)' = x.response
      BY <1>6, <3>1 DEF Linked, Taken
    <3>3. Flow(upstream, s.response, answers) => Flow(y, x.response, answers)
      BY <1>4, SameFlow
    <3>4. Whole(upstream, s.response, answers) => Whole(y, x.response, answers)
      BY <1>4, SameWhole
    <3>5. SessionFlow(c, i + 1)
      BY <1>1
    <3> QED
      BY <1>4, <1>6, <1>7, <2>3, <3>2, <3>3, <3>4, <3>5 DEF SessionFlow
  <2>4. CASE d = c /\ j = (i + 1) + 1
    <3>1. j # 1 /\ j - 1 = i + 1 /\ j # i /\ j # i + 1
      BY <1>8, <2>4
    <3>2. chain'[c][j] = chain[c][j] /\ chain'[c][j - 1] = y /\ chain[c][j - 1] = upstream
      BY <1>6, <2>4, <3>1
    <3>3. (Linked(c, j)' <=> Linked(c, j)) /\ Taken(c, j)' = Taken(c, j)
      BY <1>4, <3>1, <3>2 DEF Linked, Taken
    <3>4. SessionFlow(c, j)
      BY <1>1, <2>4
    <3> QED
      BY <1>7, <2>4, <3>2, <3>3, <3>4 DEF SessionFlow
  <2>5. CASE d = c /\ j # i /\ j # i + 1 /\ j # (i + 1) + 1
    <3>1. j # 1 => j - 1 \in 1..Len(chain[c]) /\ j - 1 # i /\ j - 1 # i + 1
      BY <1>8, <2>5
    <3>2. /\ chain'[d][j] = chain[d][j] /\ SessionFlow(d, j)
          /\ j # 1 => chain'[d][j - 1] = chain[d][j - 1]
      BY <1>1, <1>6, <2>5, <3>1
    <3> QED
      BY <1>7, <3>2, FlowStays
  <2> QED
    BY <2>1, <2>2, <2>3, <2>4, <2>5
<1>10. ASSUME NEW d \in Client, chain'[d] = <<>> PROVE got'[d] = <<>>
  <2>1. \A e \in Client : Len(chain'[e]) = Len(chain[e])
    BY DEF Evolution
  <2>2. d # c
    <3>1. Len(<<>>) = 0 /\ Len(chain[c]) # 0
      BY <1>8, EmptySeq
    <3> QED
      BY <1>10, <2>1, <3>1
  <2> QED
    BY <1>6, <1>7, <1>10, <2>2 DEF FlowInv
<1>11. \A d \in Client : Len(chain'[d]) = Len(chain[d])
  BY DEF Evolution
<1> QED
  BY <1>9, <1>10, <1>11 DEF FlowInv, SessionFlow

LEMMA FlowRelay ==
  ASSUME ChainTypes, ChainInv, FlowInv, NEW c \in Client, NEW i \in 1..Len(chain[c]),
         Relay(c, i)
  PROVE  FlowInv'
<1> DEFINE s == chain[c][i]
           upstream == chain[c][i + 1]
<1>1. /\ s.pc = "relaying" /\ UNCHANGED <<alive, request, got>> /\ i + 1 \in 1..Len(chain[c])
      /\ \/ upstream.out # <<>> /\ Passed(c, i, Getting(s, upstream), Drained(upstream))
         \/ upstream.out = <<>> /\ upstream.end = "fin" /\ Goto(c, i, "writing")
         \/ EndSession(c, i)
  BY RelayShape
<1>2. Evolution
  BY RelayEvolves
<1>3. CASE EndSession(c, i)
  BY <1>1, <1>3, FlowEnds DEF NothingLeft, Idle
<1>4. CASE upstream.out # <<>> /\ Passed(c, i, Getting(s, upstream), Drained(upstream))
  BY <1>1, <1>2, <1>4, FlowPasses
<1>5. CASE upstream.out = <<>> /\ upstream.end = "fin" /\ Goto(c, i, "writing")
  BY <1>1, <1>5, FlowRelayed
<1> QED
  BY <1>1, <1>3, <1>4, <1>5

\* A client reads a part.
LEMMA FlowRead ==
  ASSUME ChainTypes, FlowInv, NEW c \in Client, Read(c)
  PROVE  FlowInv'
<1> DEFINE s == chain[c][1]
           y == Drained(s)
           answers == AnswersTo(request[c])
<1>1. /\ s.out # <<>> /\ UNCHANGED <<alive, request>>
      /\ got' = [got EXCEPT ![c] = Append(@, Head(s.out))]
      /\ Become(c, [chain[c] EXCEPT ![1].out = Tail(@)])
  BY DEF Read
<1>2. chain[c] \in Seq(SessionType) /\ Len(chain[c]) \in Nat /\ 1 \in 1..Len(chain[c])
  BY EmptySeq DEF Read, ChainTypes
<1>3. Evolution
  BY ReadEvolves
<1>4. \A d \in Client : \A j \in 1..Len(chain[d]) : SessionFlow(d, j)
  BY DEF FlowInv, SessionFlow
<1>5. s \in SessionType /\ Settled(s) /\ got[c] \in Seq(Part)
  <2>1. s \in SessionType
    BY <1>2, ElementOfSeq
  <2> QED
    BY <1>2, <1>4, <2>1 DEF SessionFlow, ChainTypes
<1>6. got'[c] = Append(got[c], Head(s.out)) /\ \A d \in Client : d # c => got'[d] = got[d]
  BY <1>1 DEF ChainTypes
<1>7. /\ y \in SessionType /\ Settled(y) /\ y.pc = s.pc /\ y.end = s.end
      /\ y.response = s.response /\ s.pc \notin Idle
      /\ Given(y, got'[c]) = Given(s, got[c])
  <2>1. /\ y \in SessionType /\ Settled(y) /\ y.pc = s.pc /\ y.end = s.end
        /\ y.response = s.response /\ s.pc \notin Idle
        /\ \A t \in Seq(Part) : Given(y, Append(t, Head(s.out))) = Given(s, t)
    BY <1>1, <1>5, FlowTaken
  <2> HIDE DEF y
  <2> QED
    BY <1>5, <1>6, <2>1
<1>8. Update(c, 1, y)
  <2>1. y = [s EXCEPT !.out = Tail(@)]
    BY <1>5 DEF SessionType, Drained
  <2> HIDE DEF y
  <2>2. [chain[c] EXCEPT ![1].out = Tail(@)] = [chain[c] EXCEPT ![1] = y]
    BY <2>1
  <2> QED
    BY <1>1, <2>2 DEF Update
<1> HIDE DEF y
<1>9. /\ \A d \in Client : d # c => chain'[d] = chain[d]
      /\ chain'[c][1] = y /\ Len(chain'[c]) = Len(chain[c])
      /\ \A j \in 1..Len(chain[c]) : j # 1 => chain'[c][j] = chain[c][j]
  BY <1>2, <1>7, <1>8, UpdateShape
<1>10. /\ \A d \in Client : AllRun(d)' => AllRun(d)
       /\ request' = request /\ answers' = answers
  BY <1>1, <1>3, RanBefore
<1>11. ASSUME NEW d \in Client, NEW j \in 1..Len(chain[d]) PROVE SessionFlow(d, j)'
  <2>1. CASE d # c
    <3>1. chain'[d] = chain[d] /\ got'[d] = got[d] /\ SessionFlow(d, j)
      BY <1>4, <1>6, <1>9, <2>1
    <3> QED
      BY <1>10, <3>1, FlowStays
  <2>2. CASE d = c /\ j = 1
    <3>1. Linked(c, 1) /\ Taken(c, 1) = got[c] /\ Taken(c, 1)' = got'[c]
      BY DEF Linked, Taken
    <3>2. Flow(s, got[c], answers) => Flow(y, got'[c], answers)
      BY <1>7, SameFlow
    <3>3. Whole(s, got[c], answers) => Whole(y, got'[c], answers)
      BY <1>7, SameWhole
    <3>4. SessionFlow(c, 1)
      BY <1>2, <1>4
    <3> QED
      BY <1>7, <1>9, <1>10, <2>2, <3>1, <3>2, <3>3, <3>4 DEF SessionFlow
  <2>3. CASE d = c /\ j = 2
    <3>1. /\ chain'[c][2] = chain[c][2] /\ 2 - 1 = 1 /\ 2 # 1
          /\ chain'[c][1].pc = s.pc /\ chain'[c][1].response = s.response
      BY <1>7, <1>9, <2>3
    <3>2. (Linked(c, 2)' <=> Linked(c, 2)) /\ Taken(c, 2)' = Taken(c, 2)
      BY <3>1 DEF Linked, Taken
    <3>3. SessionFlow(c, 2)
      BY <1>4, <2>3
    <3> QED
      BY <1>10, <2>3, <3>1, <3>2, <3>3 DEF SessionFlow
  <2>4. CASE d = c /\ j # 1 /\ j # 2
    <3>1. j - 1 \in 1..Len(chain[c]) /\ j - 1 # 1
      BY <1>2, <2>4
    <3>2. /\ chain'[d][j] = chain[d][j] /\ SessionFlow(d, j)
          /\ chain'[d][j - 1] = chain[d][j - 1]
      BY <1>4, <1>9, <2>4, <3>1
    <3> QED
      BY <1>10, <2>4, <3>2, FlowStays
  <2> QED
    BY <2>1, <2>2, <2>3, <2>4
<1>12. ASSUME NEW d \in Client, chain'[d] = <<>> PROVE got'[d] = <<>>
  <2>1. d # c
    <3>1. Len(<<>>) = 0 /\ Len(chain[c]) # 0
      BY <1>2, EmptySeq
    <3> QED
      BY <1>9, <1>12, <3>1
  <2> QED
    BY <1>6, <1>9, <1>12, <2>1 DEF FlowInv
<1>13. \A d \in Client : Len(chain'[d]) = Len(chain[d])
  BY <1>3 DEF Evolution
<1> QED
  BY <1>11, <1>12, <1>13 DEF FlowInv, SessionFlow

\* A session that is new.
LEMMA FlowNew ==
  ASSUME NEW n, NEW path, NEW colons, NEW answers
  PROVE  LET s == NewSession(n, path, colons)
         IN  Settled(s) /\ s.response = <<>> /\ Flow(s, <<>>, answers) /\ Whole(s, <<>>, answers)
<1> DEFINE s == NewSession(n, path, colons)
<1>1. /\ s.pc = "backlog" /\ s.response = <<>> /\ s.out = <<>> /\ s.end = "open"
  BY DEF NewSession
<1> HIDE DEF s
<1>2. <<>> \o <<>> = <<>>
  BY Parts, EmptyPart
<1>3. Given(s, <<>>) = <<>>
  BY <1>1, <1>2 DEF Given, ToWrite
<1>4. Settled(s) /\ Flow(s, <<>>, answers) /\ Whole(s, <<>>, answers)
  BY <1>1, <1>3 DEF Settled, Flow, Whole, Begun
<1> QED
  BY <1>1, <1>4 DEF s

\* A client asks.
LEMMA FlowAsk ==
  ASSUME ChainTypes, FlowInv, NEW c \in Client, Ask(c)
  PROVE  FlowInv'
<1> DEFINE r == request[c]
           s == NewSession(r.node, r.path, r.colons)
<1>1. r.node \in Node /\ r.path \in Path /\ r.colons \in Int
  BY RequestFields DEF ChainTypes
<1>2. /\ s \in SessionType /\ Settled(s)
      /\ Flow(s, <<>>, AnswersTo(r)) /\ Whole(s, <<>>, AnswersTo(r))
  BY <1>1, NewSessionType, FlowNew
<1>3. Become(c, <<s>>) /\ UNCHANGED <<alive, request, got>> /\ chain[c] = <<>>
  BY DEF Ask
<1> HIDE DEF s
<1>4. <<s>> \in Seq(SessionType) /\ Len(<<s>>) = 1 /\ <<s>>[1] = s
  BY <1>2, OneElement
<1>5. chain'[c] = <<s>> /\ \A d \in Client : d # c => chain'[d] = chain[d]
  BY <1>3, <1>4, Becomes
<1>6. ASSUME NEW d \in Client, NEW j \in 1..Len(chain'[d]) PROVE SessionFlow(d, j)'
  <2>1. CASE d # c
    <3>1. chain'[d] = chain[d] /\ got'[d] = got[d]
      BY <1>3, <1>5, <2>1
    <3>2. AllRun(d)' => AllRun(d)
      BY <1>3, <3>1 DEF AllRun
    <3>3. SessionFlow(d, j) /\ j \in 1..Len(chain[d])
      BY <3>1 DEF FlowInv, SessionFlow
    <3> QED
      BY <1>3, <3>1, <3>2, <3>3, FlowStays
  <2>2. CASE d = c
    <3>1. Len(chain'[d]) = 1 /\ chain'[d][1] = s
      BY <1>4, <1>5, <2>2
    <3>2. j = 1
      BY <1>6, <3>1
    <3>3. got'[c] = <<>>
      BY <1>3 DEF FlowInv
    <3>4. Taken(c, 1)' = <<>> /\ AnswersTo(request[c])' = AnswersTo(r)
      BY <1>3, <3>3 DEF Taken
    <3> QED
      BY <1>2, <2>2, <3>1, <3>2, <3>4 DEF SessionFlow
  <2> QED
    BY <2>1, <2>2
<1>7. ASSUME NEW d \in Client, chain'[d] = <<>> PROVE got'[d] = <<>>
  BY <1>3, <1>5, <1>7 DEF FlowInv
<1> QED
  BY <1>6, <1>7 DEF FlowInv, SessionFlow

\* A proxy connects to its upstream.
LEMMA FlowConnect ==
  ASSUME ChainTypes, ChainInv, FlowInv, NEW c \in Client, NEW i \in 1..Len(chain[c]),
         ConnectUpstream(c, i)
  PROVE  FlowInv'
<1> DEFINE s == chain[c][i]
           n == Len(chain[c])
           x == Relaying(s)
           new == NextSession(s)
           answers == AnswersTo(request[c])
<1>1. /\ i = n /\ s.pc = "connecting" /\ s \in SessionType /\ UNCHANGED <<alive, request, got>>
      /\ EndSession(c, i) \/ Extended(c, x, new)
  BY ConnectShape
<1>2. CASE EndSession(c, i)
  BY <1>1, <1>2, FlowEnds DEF NothingLeft, Idle, Early
<1>3. CASE Extended(c, x, new)
  <2>1. n \in Nat /\ n # 0
    BY DEF ChainTypes
  <2>2. \A d \in Client : \A j \in 1..Len(chain[d]) : SessionFlow(d, j)
    BY DEF FlowInv, SessionFlow
  <2>3. s.pc \in Early /\ Settled(s)
    BY <1>1, <2>2 DEF Early, SessionFlow
  <2>4. /\ x \in SessionType /\ Settled(x) /\ x.node = s.node /\ x.response = <<>>
        /\ \A t : Flow(s, t, answers) => Flow(x, t, answers) /\ Whole(x, t, answers)
    BY <1>1, <2>3, FlowEarly DEF Relaying, Idle
  <2>5. x.pc = "relaying"
    BY <1>1 DEF SessionType, Relaying
  <2>6. Settled(new) /\ Flow(new, <<>>, answers) /\ Whole(new, <<>>, answers)
    BY FlowNew DEF NextSession
  <2> HIDE DEF x, new
  <2>7. /\ Len(chain'[c]) = n + 1
        /\ \A d \in Client : d # c => chain'[d] = chain[d]
        /\ chain'[c][n] = x /\ chain'[c][n + 1] = new
        /\ \A j \in 1..n : j # n => chain'[c][j] = chain[c][j]
    BY <1>3 DEF Extended
  <2> HIDE DEF n
  <2>8. AllRun(c)' => AllRun(c)
    <3>1. \A j \in 1..n : j \in 1..n + 1 /\ chain'[c][j].node = chain[c][j].node
      BY <1>1, <2>1, <2>4, <2>7
    <3> QED
      BY <1>1, <2>7, <3>1 DEF AllRun, n
  <2>9. ASSUME NEW d \in Client, NEW j \in 1..Len(chain'[d]) PROVE SessionFlow(d, j)'
    <3>1. CASE d # c
      <4>1. chain'[d] = chain[d] /\ got'[d] = got[d]
        BY <1>1, <2>7, <3>1
      <4>2. AllRun(d)' => AllRun(d)
        BY <1>1, <4>1 DEF AllRun
      <4>3. SessionFlow(d, j) /\ j \in 1..Len(chain[d])
        BY <2>2, <4>1
      <4> QED
        BY <1>1, <4>1, <4>2, <4>3, FlowStays
    <3>2. CASE d = c /\ j = n
      <4>1. i = n /\ (i # 1 => i - 1 \in 1..n /\ i - 1 # n)
        <5>1. i = n
          BY <1>1
        <5> QED
          BY <2>1, <5>1
      <4>2. chain'[c][i] = x /\ (i # 1 => chain'[c][i - 1] = chain[c][i - 1])
        BY <2>7, <4>1
      <4>3. (Linked(c, i)' <=> Linked(c, i)) /\ Taken(c, i)' = Taken(c, i)
        BY <1>1, <4>2 DEF Linked, Taken
      <4>4. SessionFlow(c, i) /\ j = i /\ d = c
        BY <2>2, <3>2, <4>1
      <4>5. AnswersTo(request[c])' = answers
        BY <1>1
      <4> QED
        BY <2>4, <4>2, <4>3, <4>4, <4>5 DEF SessionFlow
    <3>3. CASE d = c /\ j = n + 1
      <4>1. n + 1 # 1 /\ (n + 1) - 1 = n
        BY <2>1
      <4>2. j # 1 /\ chain'[d][j - 1] = x /\ chain'[d][j] = new
        BY <2>7, <3>3, <4>1
      <4>3. Taken(d, j)' = <<>>
        BY <2>4, <4>2 DEF Taken
      <4>4. AnswersTo(request[d])' = answers
        BY <1>1, <3>3
      <4> QED
        BY <2>6, <4>2, <4>3, <4>4 DEF SessionFlow
    <3>4. CASE d = c /\ j # n /\ j # n + 1
      <4>1. j \in 1..n /\ (j # 1 => j - 1 \in 1..n /\ j - 1 # n)
        BY <2>1, <2>7, <3>4
      <4>2. j \in 1..Len(chain[c])
        BY <4>1 DEF n
      <4>3. /\ chain'[c][j] = chain[c][j] /\ SessionFlow(c, j) /\ got'[c] = got[c]
            /\ j # 1 => chain'[c][j - 1] = chain[c][j - 1]
        BY <1>1, <2>2, <2>7, <3>4, <4>1, <4>2
      <4> QED
        BY <1>1, <2>8, <3>4, <4>2, <4>3, FlowStays
    <3> QED
      BY <3>1, <3>2, <3>3, <3>4
  <2>10. ASSUME NEW d \in Client, chain'[d] = <<>> PROVE got'[d] = <<>>
    <3>1. d # c
      <4>1. Len(<<>>) = 0 /\ n + 1 # 0
        BY <2>1, EmptySeq
      <4> QED
        BY <2>7, <2>10, <4>1
    <3> QED
      BY <1>1, <2>7, <2>10, <3>1 DEF FlowInv
  <2> QED
    BY <2>9, <2>10 DEF FlowInv, SessionFlow
<1> QED
  BY <1>1, <1>2, <1>3

-----------------------------------------------------------------------------
(* What a client gets.                                                     *)

\* ChainInv keeps every session in its place, WayInv on the way its path names,
\* and FlowInv carries the answer back along it.
Delivery == ChainTypes /\ ChainInv /\ WayInv /\ FlowInv

LEMMA DeliveryInit == Init => Delivery
<1> SUFFICES ASSUME Init PROVE Delivery
  OBVIOUS
<1>1. ChainTypes /\ ChainInv
  BY ChainInit
<1>2. \A c \in Client : chain[c] = <<>> /\ got[c] = <<>> /\ Len(chain[c]) = 0
  BY EmptySeq DEF Init
<1>3. WayInv
  BY <1>2 DEF WayInv
<1>4. FlowInv
  BY <1>2 DEF FlowInv
<1> QED
  BY <1>1, <1>3, <1>4 DEF Delivery

LEMMA DeliveryNext == Delivery /\ [Next]_vars => Delivery'
<1> SUFFICES ASSUME ChainTypes, ChainInv, WayInv, FlowInv, [Next]_vars PROVE Delivery'
  BY DEF Delivery
<1>1. ChainTypes' /\ ChainInv'
  BY ChainNext
<1>2. ASSUME NEW c \in Client, Ask(c) PROVE WayInv' /\ FlowInv'
  BY <1>2, WayAsk, FlowAsk
<1>3. ASSUME NEW c \in Client, Read(c) PROVE WayInv' /\ FlowInv'
  BY <1>3, ReadEvolves, WayEvolution, FlowRead
<1>4. ASSUME NEW c \in Client, NEW i, Session(c, i) PROVE WayInv' /\ FlowInv'
  <2>1. i \in 1..Len(chain[c])
    BY <1>4 DEF Session, ChainTypes
  <2>2. CASE ConnectUpstream(c, i)
    BY <2>1, <2>2, WayConnect, FlowConnect
  <2>3. CASE Relay(c, i)
    BY <2>1, <2>3, RelayEvolves, WayEvolution, FlowRelay
  <2>4. ASSUME Accept(c, i) \/ Parse(c, i) \/ RunOut(c, i) \/ Dispatch(c, i) \/ Write(c, i)
        PROVE  WayInv' /\ FlowInv'
    <3>1. WayInv'
      BY <2>1, <2>4, SessionEvolves, WayEvolution
    <3>2. FlowInv'
      BY <2>1, <2>4, FlowAccept, FlowParse, FlowRunOut, FlowDispatch, FlowWrite
    <3> QED
      BY <3>1, <3>2
  <2> QED
    BY <1>4, <2>2, <2>3, <2>4 DEF Session
<1>5. ASSUME NEW n \in Node, Quit(n) PROVE WayInv' /\ FlowInv'
  <2>1. Die(n) /\ UNCHANGED <<request, got>>
    BY <1>5 DEF Quit
  <2>2. Evolution
    BY <2>1, Dies
  <2> QED
    BY <2>1, <2>2, FlowDies, WayEvolution
<1>6. ASSUME UNCHANGED vars PROVE WayInv' /\ FlowInv'
  <2>1. /\ request' = request /\ chain' = chain /\ got' = got /\ alive' = alive
    BY <1>6 DEF vars
  <2>2. WayInv'
    BY <2>1 DEF WayInv
  <2>3. FlowInv'
    <3>1. \A c \in Client : \A i \in 1..Len(chain[c]) : SessionFlow(c, i)
      BY DEF FlowInv, SessionFlow
    <3>2. \A c \in Client : AllRun(c)' => AllRun(c)
      BY <2>1 DEF AllRun
    <3>3. \A c \in Client : \A i \in 1..Len(chain[c]) : SessionFlow(c, i)'
      BY <2>1, <3>1, <3>2, FlowStays
    <3> QED
      BY <2>1, <3>3 DEF FlowInv, SessionFlow
  <2> QED
    BY <2>2, <2>3
<1> QED
  BY <1>1, <1>2, <1>3, <1>4, <1>5, <1>6 DEF Next, Delivery

LEMMA Delivered == Spec => []Delivery
BY DeliveryInit, DeliveryNext, PTL DEF Spec

\* What comes first is a beginning.
LEMMA Beginning ==
  ASSUME NEW f \in Seq(Part), NEW g \in Seq(Part)
  PROVE  IsPrefixOf(f, f \o g) /\ (f # <<>> => f \o g # <<>>)
<1> DEFINE h == f \o g
           m == Len(f)
           n == Len(g)
<1>1. m \in Nat /\ n \in Nat /\ f \in Seq(Part)
  BY LenProperties
<1>2. h \in Seq(Part) /\ Len(h) = m + n
  BY ConcatProperties
<1>3. f # <<>> <=> m # 0
  BY EmptySeq
<1>4. Len(<<>>) = 0
  BY EmptySeq
<1>5. SubSeq(h, 1, m) = f
  <2>1. CASE m = 0
    <3>1. SubSeq(h, 1, m) = <<>>
      BY <2>1, SubSeqEmpty
    <3> QED
      BY <1>3, <2>1, <3>1
  <2>2. CASE m # 0
    <3>1. 1 \in 1..Len(f) /\ m \in 1..Len(f)
      BY <1>1, <2>2
    <3>2. SubSeq(f \o g, 1, m) = SubSeq(f, 1, m)
      BY <3>1, SubSeqOfConcat1
    <3>3. SubSeq(f, 1, m) = f
      BY SubSeqFull
    <3> QED
      BY <3>2, <3>3
  <2> QED
    BY <2>1, <2>2
<1> HIDE DEF h
<1>6. f # <<>> => h # <<>>
  BY <1>1, <1>2, <1>3, <1>4
<1>7. IsPrefixOf(f, h)
  BY <1>1, <1>2, <1>5 DEF IsPrefixOf
<1> QED
  BY <1>6, <1>7 DEF h

\* Through whatever chain of proxies, with servers that stop, connections that
\* fail and resets that lose what was written: what a client has read is a
\* beginning of the answer of the one server its path leads to.
THEOREM NothingIsInvented == Spec => []NothingInvented
<1>1. Delivery => NothingInvented
  <2> SUFFICES ASSUME ChainTypes, FlowInv, NEW c \in Client, got[c] # <<>>
               PROVE  \E a \in AnswersTo(request[c]) : IsPrefixOf(got[c], a)
    BY DEF Delivery, NothingInvented
  <2> DEFINE s == chain[c][1]
             t == got[c]
             rest == s.out \o ToWrite(s)
  <2>1. 1 \in 1..Len(chain[c]) /\ chain[c] \in Seq(SessionType) /\ t \in Seq(Part)
    BY EmptySeq DEF ChainTypes, FlowInv
  <2>2. s \in SessionType /\ Flow(s, t, AnswersTo(request[c]))
    BY <2>1, ElementOfSeq DEF FlowInv, Linked, Taken
  <2>3. rest \in Seq(Part) /\ Begun(t \o rest, AnswersTo(request[c]))
    BY <2>2, Fields, Parts DEF Flow, Given
  <2> HIDE DEF rest
  <2>4. t \o rest # <<>>
    BY <2>1, <2>3, Beginning
  <2>5. PICK a \in AnswersTo(request[c]), g \in Seq(Part) : a = (t \o rest) \o g
    BY <2>3, <2>4 DEF Begun
  <2>6. a = t \o (rest \o g) /\ rest \o g \in Seq(Part)
    BY <2>1, <2>3, <2>5, Parts
  <2> QED
    BY <2>1, <2>6, Beginning
<1> QED
  BY <1>1, Delivered, PTL

\* As long as the servers on its way run and its own connection is not reset, a
\* client whose connection ended has the whole answer or nothing of it: no proxy
\* takes a part of an answer for all of it.
THEOREM AnswersWholeOrNone == Spec => []WholeOrNothing
<1>1. Delivery => WholeOrNothing
  <2> SUFFICES ASSUME ChainTypes, FlowInv, NEW c \in Client,
                      Done(c), chain[c][1].end = "fin",
                      \A i \in DOMAIN chain[c] : chain[c][i].node \in alive
               PROVE  got[c] = <<>> \/ got[c] \in AnswersTo(request[c])
    BY DEF Delivery, WholeOrNothing
  <2> DEFINE s == chain[c][1]
             t == got[c]
  <2>1. /\ 1 \in 1..Len(chain[c]) /\ DOMAIN chain[c] = 1..Len(chain[c]) /\ t \in Seq(Part)
    BY EmptySeq DEF ChainTypes, Done
  <2>2. AllRun(c)
    BY <2>1 DEF AllRun
  <2>3. Whole(s, t, AnswersTo(request[c]))
    BY <2>1, <2>2 DEF FlowInv, Linked, Taken
  <2>4. Given(s, t) = t
    <3>1. s.out = <<>> /\ ToWrite(s) = <<>>
      BY DEF Done, Over, ToWrite
    <3>2. <<>> \o <<>> = <<>> /\ t \o <<>> = t
      BY <2>1, Parts, EmptyPart
    <3> QED
      BY <3>1, <3>2 DEF Given
  <2> QED
    BY <2>3, <2>4 DEF Whole
<1> QED
  BY <1>1, Delivered, PTL
=============================================================================
