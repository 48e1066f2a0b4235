-------------------------- MODULE RequestStreamProofs --------------------------
(***************************************************************************)
(* Proofs, for all texts, about what parseRequest reads of them.           *)
(***************************************************************************)
EXTENDS RequestStream, SequenceTheorems, WellFoundedInduction, TLAPS

\* A set of natural numbers has a smallest one.
LEMMA Smallest ==
  ASSUME NEW T, T \subseteq Nat, T # {}
  PROVE  \E x \in T : \A y \in T : x <= y
<1>1. PICK x \in T : \A y \in T : ~(<<y, x>> \in OpToRel(<, Nat))
  BY NatLessThanWellFounded, WFMin
<1>2. \A y \in T : ~(y < x)
  BY <1>1 DEF OpToRel
<1> QED
  BY <1>2

\* The functions that FlattenSeq defines: they exist, whatever the length.
LEMMA FlattenDefined ==
  ASSUME NEW s, NEW n \in Nat
  PROVE  \E f : f = [i \in 1..n |-> IF i = 1 THEN s[i] ELSE f[i - 1] \o s[i]]
<1> DEFINE Def(f, i) == IF i = 1 THEN s[i] ELSE f[i - 1] \o s[i]
           P(m) == \E f : f = [i \in 1..m |-> Def(f, i)]
           T == {m \in Nat : ~P(m)}
<1>1. P(0)
  <2>1. [i \in {} |-> 0] = [i \in 1..0 |-> Def([j \in {} |-> 0], i)]
    OBVIOUS
  <2> QED
    BY <2>1
<1>2. ASSUME NEW m \in Nat, P(m) PROVE P(m + 1)
  <2>1. PICK f : f = [i \in 1..m |-> Def(f, i)]
    BY <1>2
  <2> DEFINE g == [i \in 1..m + 1 |-> Def(f, i)]
  <2>2. \A i \in 1..m : g[i] = f[i]
    <3> TAKE i \in 1..m
    <3>1. i \in 1..m + 1
      OBVIOUS
    <3>2. f[i] = Def(f, i)
      BY <2>1
    <3> HIDE DEF Def
    <3> QED
      BY <3>1, <3>2
  <2>3. \A i \in 1..m + 1 : Def(g, i) = Def(f, i)
    <3> TAKE i \in 1..m + 1
    <3>1. i # 1 => i - 1 \in 1..m
      OBVIOUS
    <3>2. i # 1 => g[i - 1] = f[i - 1]
      BY <2>2, <3>1
    <3> HIDE DEF g
    <3> QED
      BY <3>2
  <2>4. g = [i \in 1..m + 1 |-> Def(g, i)]
    <3> HIDE DEF Def
    <3> QED
      BY <2>3
  <2> HIDE DEF g, Def
  <2> QED
    BY <2>4
<1> HIDE DEF P
<1>3. SUFFICES ASSUME T # {} PROVE FALSE
  <2>1. P(n)
    BY <1>3
  <2> QED
    BY <2>1 DEF P
<1>4. PICK x \in T : \A y \in T : x <= y
  BY <1>3, Smallest
<1>5. x # 0 /\ x - 1 \in Nat /\ x - 1 \notin T
  BY <1>1, <1>4
<1>6. P(x - 1) /\ (x - 1) + 1 = x
  BY <1>5
<1>7. P(x)
  BY <1>2, <1>5, <1>6
<1> QED
  BY <1>4, <1>7

\* FlattenSeq appends one sequence after the other.
LEMMA FlattenIs ==
  ASSUME NEW S, NEW s \in Seq(Seq(S))
  PROVE  \E f : /\ f \in [1..Len(s) -> Seq(S)]
                /\ Len(s) # 0 => f[1] = s[1]
                /\ \A i \in 1..Len(s) : i # 1 => f[i] = f[i - 1] \o s[i]
                /\ FlattenSeq(s) = IF Len(s) = 0 THEN <<>> ELSE f[Len(s)]
<1> DEFINE n == Len(s)
           Def(f, i) == IF i = 1 THEN s[i] ELSE f[i - 1] \o s[i]
           F == CHOOSE f : f = [i \in 1..n |-> Def(f, i)]
<1>0. n \in Nat
  BY LenProperties
<1>1. F = [i \in 1..n |-> Def(F, i)]
  BY <1>0, FlattenDefined
<1>2. FlattenSeq(s) = IF n = 0 THEN <<>> ELSE F[n]
  BY EmptySeq DEF FlattenSeq
<1> HIDE DEF F, n
<1>3. \A i \in 1..n : F[i] = Def(F, i)
  BY <1>1
<1>4. \A i \in 1..n : s[i] \in Seq(S)
  BY ElementOfSeq DEF n
<1>5. \A i \in 1..n : F[i] \in Seq(S)
  <2> DEFINE T == {i \in 1..n : F[i] \notin Seq(S)}
  <2>1. SUFFICES ASSUME T # {} PROVE FALSE
    OBVIOUS
  <2>2. T \subseteq Nat
    BY <1>0
  <2>3. PICK x \in T : \A y \in T : x <= y
    BY <2>1, <2>2, Smallest
  <2>4. CASE x = 1
    BY <1>3, <1>4, <2>3, <2>4
  <2>5. CASE x # 1
    <3>1. x - 1 \in 1..n /\ x - 1 \notin T
      BY <1>0, <2>3, <2>5
    <3>2. F[x - 1] \in Seq(S) /\ s[x] \in Seq(S)
      BY <1>4, <2>3, <3>1
    <3>3. F[x] = F[x - 1] \o s[x]
      BY <1>3, <2>3, <2>5
    <3> QED
      <4>1. F[x - 1] \o s[x] \in Seq(S)
        BY <3>2, ConcatProperties
      <4>2. F[x] \in Seq(S)
        BY <3>3, <4>1
      <4> QED
        BY <2>3, <4>2
  <2> QED
    BY <2>4, <2>5
<1>6. F \in [1..n -> Seq(S)]
  BY <1>1, <1>5
<1>7. n # 0 => F[1] = s[1]
  BY <1>0, <1>3
<1>8. \A i \in 1..n : i # 1 => F[i] = F[i - 1] \o s[i]
  BY <1>3
<1> QED
  BY <1>2, <1>6, <1>7, <1>8 DEF n

-----------------------------------------------------------------------------
(* clientserver: without a line end no request, so no answer. *)

Typed == Lexeme \ {"CR", "LF"}

\* What is typed is all that is sent, and what is read is a part of it.
LineInv ==
  origin.program = "clientserver" =>
    /\ text = origin.line /\ text \in Seq(Typed) /\ got \in Seq(Typed)
    /\ pc \in {"reading", "line", "headers", "thrown", "exhausted"}
    /\ client = "printed" => origin.line = <<>>

LEMMA LineInit == Init => LineInv
<1> SUFFICES ASSUME Init, origin.program = "clientserver"
             PROVE  /\ text = origin.line /\ text \in Seq(Typed) /\ got \in Seq(Typed)
                    /\ pc = "reading" /\ client = "reading"
  BY DEF LineInv
<1>1. origin \in [program : {"clientserver"}, line : Lines]
  BY DEF Init, Origin
<1>2. origin.line \in Seq(Typed)
  BY <1>1, TextAssumption DEF Typed
<1> QED
  BY <1>2, EmptySeq DEF Init, Wire

\* No step answers the line: only at a carriage return does the header loop end.
LEMMA LineStep ==
  ASSUME LineInv, [Next]_vars
  PROVE  LineInv'
<1> SUFFICES ASSUME origin.program = "clientserver"
             PROVE  LineInv'
  BY DEF LineInv, vars, Next, Session, ReadSome, ParseLine, ParseHeader, ParseBody,
         Answer, Forward, Read
<1>1. CASE ReadSome
  <2>1. \A n \in 1..Len(text) : SubSeq(text, 1, n) \in Seq(Typed)
    BY SubSeqProperties, LenProperties DEF LineInv
  <2> QED
    BY <1>1, <2>1 DEF LineInv, ReadSome
<1>2. CASE ParseLine
  BY <1>2 DEF LineInv, ParseLine
<1>3. CASE ParseHeader
  BY <1>3 DEF LineInv, ParseHeader
<1>4. CASE ParseBody
  <2>1. ~AtCarriageReturn(stream)
    BY ElementOfSeq DEF LineInv, Typed, AtCarriageReturn
  <2> QED
    BY <1>4, <2>1 DEF ParseBody
<1>5. CASE Answer \/ Forward
  BY <1>5 DEF LineInv, Answer, Forward
<1>6. CASE Read
  BY <1>6 DEF LineInv, Read
<1>7. CASE UNCHANGED vars
  BY <1>7 DEF LineInv, vars
<1> QED
  BY <1>1, <1>2, <1>3, <1>4, <1>5, <1>6, <1>7 DEF Next, Session

\* The client of the repository gets no answer, whatever line is typed and
\* however it is read.
THEOREM LineCorrect == Spec => []LineNeverAnswered
<1>1. LineInv => LineNeverAnswered
  BY DEF LineInv, LineNeverAnswered
<1> QED
  BY <1>1, LineInit, LineStep, PTL DEF Spec

-----------------------------------------------------------------------------
(* What reading the stream returns. *)

LEMMA MinIs ==
  ASSUME NEW T, T \subseteq Nat, T # {}
  PROVE  Min(T) \in T /\ \A y \in T : Min(T) <= y
BY Smallest DEF Min

\* Find returns the first place of a delimiter, or 0 when there is none.
LEMMA FindIs ==
  ASSUME NEW at \in Nat, NEW stops, got \in Seq(Lexeme)
  PROVE  /\ Find(at, stops) \in Nat
         /\ Find(at, stops) # 0 =>
              /\ at # 0 /\ Find(at, stops) \in at..Len(got)
              /\ got[Find(at, stops)] \in stops
              /\ \A j \in at..Find(at, stops) - 1 : got[j] \notin stops
         /\ (Find(at, stops) = 0 /\ at # 0) => \A j \in at..Len(got) : got[j] \notin stops
<1> DEFINE T == {i \in at..Len(got) : got[i] \in stops}
<1>1. Len(got) \in Nat
  BY LenProperties
<1>2. Find(at, stops) = IF at = 0 THEN 0 ELSE IF T # {} THEN Min(T) ELSE 0
  BY DEF Find, SelectInSubSeq
<1>3. T \subseteq Nat
  BY <1>1
<1>4. T # {} => Min(T) \in T /\ \A y \in T : Min(T) <= y
  BY <1>3, MinIs
<1>5. CASE at = 0 \/ T = {}
  BY <1>2, <1>5
<1>6. CASE at # 0 /\ T # {}
  <2> DEFINE x == Min(T)
  <2>1. x \in at..Len(got) /\ got[x] \in stops
    BY <1>4, <1>6
  <2>2. \A j \in at..x - 1 : got[j] \notin stops
    <3> TAKE j \in at..x - 1
    <3>1. j \in at..Len(got) /\ ~(x <= j)
      BY <1>1, <2>1
    <3> QED
      BY <1>4, <1>6, <3>1
  <2>3. Find(at, stops) = x
    BY <1>2, <1>6
  <2> HIDE DEF x, T
  <2>4. x \in Nat /\ x # 0
    BY <1>1, <1>6, <2>1
  <2> QED
    BY <1>6, <2>1, <2>2, <2>3, <2>4
<1> QED
  BY <1>5, <1>6

\* The word that >> reads begins where the white space ends.
LEMMA SkipIs ==
  ASSUME NEW at \in Nat, got \in Seq(Lexeme)
  PROVE  /\ SkipSpace(at) \in Nat
         /\ SkipSpace(at) # 0 =>
              at # 0 /\ SkipSpace(at) \in at..Len(got) /\ got[SkipSpace(at)] \notin Space
<1> DEFINE T == {i \in at..Len(got) : got[i] \notin Space}
<1>1. Len(got) \in Nat
  BY LenProperties
<1>2. SkipSpace(at) = IF at = 0 THEN 0 ELSE IF T # {} THEN Min(T) ELSE 0
  BY DEF SkipSpace, SelectInSubSeq
<1>3. T \subseteq Nat
  BY <1>1
<1>4. T # {} => Min(T) \in T
  BY <1>3, MinIs
<1> QED
  BY <1>1, <1>2, <1>4

\* Upto returns a part of what was read.
LEMMA UptoIs ==
  ASSUME NEW at \in Nat, NEW end \in 0..Len(got), got \in Seq(Lexeme)
  PROVE  Upto(at, end) \in Seq(Lexeme)
<1>1. Len(got) \in Nat
  BY LenProperties
<1>2. at # 0 => \A m \in Int : m <= Len(got) => SubSeq(got, at, m) \in Seq(Lexeme)
  <2> SUFFICES ASSUME at # 0, NEW m \in Int, m <= Len(got)
               PROVE  SubSeq(got, at, m) \in Seq(Lexeme)
    OBVIOUS
  <2>1. \A i \in at..m : got[i] \in Lexeme
    BY <1>1, ElementOfSeq
  <2> QED
    BY <2>1, SubSeqProperties
<1>3. CASE at = 0
  BY <1>3, EmptySeq DEF Upto
<1>4. CASE at # 0 /\ end = 0
  BY <1>1, <1>2, <1>4 DEF Upto
<1>5. CASE at # 0 /\ end # 0
  <2>1. end - 1 \in Int /\ end - 1 <= Len(got)
    BY <1>1
  <2>2. Upto(at, end) = SubSeq(got, at, end - 1)
    BY <1>5 DEF Upto
  <2> QED
    BY <1>2, <1>5, <2>1, <2>2
<1> QED
  BY <1>3, <1>4, <1>5

\* getline returns text, and a position of the text.
LEMMA LineIs ==
  ASSUME NEW at \in Nat, NEW delimiter, got \in Seq(Lexeme)
  PROVE  /\ Line(at, delimiter) \in Seq(Lexeme)
         /\ GetLine(at, delimiter) \in 0..Len(got) + 1
<1>1. Len(got) \in Nat
  BY LenProperties
<1>2. Find(at, {delimiter}) \in 0..Len(got)
  BY <1>1, FindIs
<1>3. Line(at, delimiter) \in Seq(Lexeme)
  <2>1. Line(at, delimiter) = Upto(at, Find(at, {delimiter}))
    BY DEF Line
  <2> QED
    BY <1>2, <2>1, UptoIs
<1>4. GetLine(at, delimiter) \in 0..Len(got) + 1
  <2>1. \A i \in 0..Len(got) : (IF i = 0 THEN 0 ELSE i + 1) \in 0..Len(got) + 1
    BY <1>1
  <2> QED
    BY <1>2, <2>1 DEF GetLine
<1> QED
  BY <1>3, <1>4

\* ignore stays in the text.
LEMMA IgnoreIs ==
  ASSUME NEW at \in Nat, NEW n \in Nat, NEW delimiter, got \in Seq(Lexeme)
  PROVE  Ignore(at, n, delimiter) \in 0..Len(got) + 1
<1>1. Len(got) \in Nat
  BY LenProperties
<1>2. Find(at, {delimiter}) \in 0..Len(got)
  BY <1>1, FindIs
<1> QED
  BY <1>1, <1>2 DEF Ignore

-----------------------------------------------------------------------------
(* What is sent is text. *)

Text == Seq(Lexeme)
LineEnd == <<"CR", "LF">>

LEMMA Pair ==
  ASSUME NEW S, NEW a \in S, NEW b \in S
  PROVE  <<a>> \in Seq(S) /\ <<a, b>> \in Seq(S)
OBVIOUS

LEMMA Seven ==
  ASSUME NEW S, NEW a \in S, NEW b \in S, NEW c \in S, NEW d \in S, NEW e \in S,
         NEW f \in S, NEW g \in S
  PROVE  <<a, b, c, d, e, f, g>> \in Seq(S)
OBVIOUS

LEMMA Constants ==
  /\ RequestLine \in Text /\ LineEnd \in Text
  /\ <<":">> \in Text /\ <<" ">> \in Text /\ <<"LF">> \in Text
<1>1. /\ "CR" \in Lexeme /\ "LF" \in Lexeme /\ ":" \in Lexeme /\ " " \in Lexeme
      /\ "GET" \in Lexeme /\ "/p" \in Lexeme /\ "HTTP/1.1" \in Lexeme
  BY TextAssumption
<1>2. <<"GET", " ", "/p", " ", "HTTP/1.1", "CR", "LF">> \in Seq(Lexeme)
  BY <1>1, Seven
<1>3. <<"CR", "LF">> \in Seq(Lexeme)
  BY <1>1, Pair
<1>4. <<":">> \in Seq(Lexeme) /\ <<" ">> \in Seq(Lexeme) /\ <<"LF">> \in Seq(Lexeme)
  BY <1>1, Pair
<1> QED
  BY <1>2, <1>3, <1>4 DEF Text, RequestLine, LineEnd

LEMMA ConcatText ==
  ASSUME NEW s \in Text, NEW t \in Text
  PROVE  s \o t \in Text
BY ConcatProperties DEF Text

\* What the parts of a concatenation are in it.
LEMMA ConcatIs ==
  ASSUME NEW s \in Text, NEW t \in Text
  PROVE  /\ s \o t \in Text /\ Len(s \o t) = Len(s) + Len(t)
         /\ Len(s) \in Nat /\ Len(t) \in Nat
         /\ \A j \in 1..Len(s) : (s \o t)[j] = s[j]
         /\ \A j \in 1..Len(t) : (s \o t)[Len(s) + j] = t[j]
<1> DEFINE w == s \o t
           m == Len(s)
           n == Len(t)
<1>1. m \in Nat /\ n \in Nat
  BY LenProperties DEF Text
<1>2. /\ w \in Text /\ Len(w) = m + n
      /\ \A j \in 1..m + n : w[j] = IF j <= m THEN s[j] ELSE t[j - m]
  BY ConcatProperties DEF Text
<1> HIDE DEF w, m, n
<1>3. \A j \in 1..m : w[j] = s[j]
  <2> TAKE j \in 1..m
  <2>1. j \in 1..m + n /\ j <= m
    BY <1>1
  <2> QED
    BY <1>2, <2>1
<1>4. \A j \in 1..n : w[m + j] = t[j]
  <2> TAKE j \in 1..n
  <2>1. m + j \in 1..m + n /\ ~(m + j <= m) /\ (m + j) - m = j
    BY <1>1
  <2> QED
    BY <1>2, <2>1
<1> QED
  BY <1>1, <1>2, <1>3, <1>4 DEF w, m, n

LEMMA ConcatThree ==
  ASSUME NEW x \in Text, NEW y \in Text, NEW z \in Text
  PROVE  (x \o y) \o z = x \o (y \o z)
BY ConcatAssociative DEF Text

LEMMA FlattenText ==
  ASSUME NEW n \in Nat, NEW s, s \in [1..n -> Text]
  PROVE  FlattenSeq(s) \in Text
<1>1. s \in Seq(Text) /\ Len(s) = n
  <2>1. \A i \in 1..n : s[i] \in Text
    OBVIOUS
  <2>2. s = [i \in 1..n |-> s[i]]
    OBVIOUS
  <2>3. [i \in 1..n |-> s[i]] \in Seq(Text)
    BY <2>1, IsASeq
  <2> QED
    BY <2>2, <2>3, LenProperties
<1>2. PICK f : /\ f \in [1..Len(s) -> Seq(Lexeme)]
               /\ FlattenSeq(s) = IF Len(s) = 0 THEN <<>> ELSE f[Len(s)]
  BY <1>1, FlattenIs DEF Text
<1> QED
  BY <1>1, <1>2, EmptySeq DEF Text

\* The headers that may be sent, and those that are read.
Sendable == [name : Seq(Lexeme \ {":", "CR", "LF"}), value : Seq(Lexeme \ {"CR", "LF"})]
Readable == [first : Text, second : Text]

LEMMA WrittenText ==
  ASSUME NEW h \in Sendable
  PROVE  /\ Written(h) \in Text /\ h.name \in Text /\ h.value \in Text
         /\ Written(h) = ((h.name \o <<":">>) \o h.value) \o LineEnd
<1>1. h.name \in Text /\ h.value \in Text
  <2>1. h.name \in Seq(Lexeme \ {":", "CR", "LF"}) /\ h.value \in Seq(Lexeme \ {"CR", "LF"})
    BY DEF Sendable
  <2>2. Lexeme \ {":", "CR", "LF"} \subseteq Lexeme /\ Lexeme \ {"CR", "LF"} \subseteq Lexeme
    OBVIOUS
  <2> QED
    BY <2>1, <2>2, SeqMonotonic DEF Text
<1>2. Written(h) = ((h.name \o <<":">>) \o h.value) \o LineEnd
  BY DEF Written, LineEnd
<1>3. ((h.name \o <<":">>) \o h.value) \o LineEnd \in Text
  BY <1>1, Constants, ConcatText
<1> QED
  BY <1>1, <1>2, <1>3

\* The headers of a request that is sent, as sequences.
WrittenAll(hs) == [i \in 1..Len(hs) |-> Written(hs[i])]

LEMMA OriginIs ==
  ASSUME NEW o \in Origin
  PROVE  /\ o.program \in {"browser", "clientserver"}
         /\ o.program = "browser" => o.headers \in Seq(Sendable) /\ o.body \in Text
         /\ o.program = "clientserver" => o.line \in Text
<1>1. CASE o \in [program : {"browser"}, headers : HeaderLists, body : Bodies]
  BY <1>1, TextAssumption DEF Text, Sendable
<1>2. CASE o \in [program : {"clientserver"}, line : Lines]
  <2>1. o.program = "clientserver" /\ o.line \in Seq(Lexeme \ {"CR", "LF"})
    BY <1>2, TextAssumption
  <2>2. Lexeme \ {"CR", "LF"} \subseteq Lexeme
    OBVIOUS
  <2>3. o.line \in Text
    BY <2>1, <2>2, SeqMonotonic DEF Text
  <2> QED
    BY <2>1, <2>3
<1> QED
  BY <1>1, <1>2 DEF Origin

LEMMA WireText ==
  ASSUME NEW o \in Origin
  PROVE  Wire(o) \in Text
<1>1. CASE o.program = "clientserver"
  BY <1>1, OriginIs DEF Wire
<1>2. CASE o.program # "clientserver"
  <2> DEFINE hs == o.headers
             n == Len(hs)
  <2>1. hs \in Seq(Sendable) /\ o.body \in Text
    BY <1>2, OriginIs
  <2>2. n \in Nat /\ \A i \in 1..n : hs[i] \in Sendable
    BY <2>1, LenProperties, ElementOfSeq
  <2>3. WrittenAll(hs) \in [1..n -> Text]
    BY <2>2, WrittenText DEF WrittenAll
  <2> HIDE DEF n
  <2>4. FlattenSeq(WrittenAll(hs)) \in Text
    BY <2>2, <2>3, FlattenText
  <2>5. Wire(o) = ((RequestLine \o FlattenSeq(WrittenAll(hs))) \o LineEnd) \o o.body
    BY <1>2 DEF Wire, WrittenAll, LineEnd
  <2> DEFINE a == RequestLine \o FlattenSeq(WrittenAll(hs))
  <2>6. a \in Text
    BY <2>4, Constants, ConcatText
  <2>7. a \o LineEnd \in Text
    BY <2>6, Constants, ConcatText
  <2>8. (a \o LineEnd) \o o.body \in Text
    BY <2>1, <2>7, ConcatText
  <2> QED
    BY <2>5, <2>8
<1> QED
  BY <1>1, <1>2

LEMMA ProxiedText ==
  ASSUME NEW hs \in Seq(Readable), NEW content \in Text
  PROVE  Proxied(hs, content) \in Text
<1> DEFINE n == Len(hs)
           e(i) == hs[i].first \o <<" ">> \o hs[i].second \o LineEnd
           ws == [i \in 1..n |-> e(i)]
<1>1. n \in Nat /\ \A i \in 1..n : hs[i] \in Readable
  BY LenProperties, ElementOfSeq
<1>2. \A i \in 1..n : e(i) \in Text
  <2> TAKE i \in 1..n
  <2>1. hs[i].first \in Text /\ hs[i].second \in Text
    BY <1>1 DEF Readable
  <2> QED
    BY <2>1, Constants, ConcatText
<1>3. Proxied(hs, content) =
        (((RequestLine \o LineEnd) \o FlattenSeq(ws)) \o LineEnd) \o content
  BY DEF Proxied, LineEnd
<1> HIDE DEF n, e
<1>4. ws \in [1..n -> Text]
  BY <1>2
<1>5. FlattenSeq(ws) \in Text
  BY <1>1, <1>4, FlattenText
<1> DEFINE a == (RequestLine \o LineEnd) \o FlattenSeq(ws)
<1>6. RequestLine \o LineEnd \in Text
  BY Constants, ConcatText
<1>7. a \in Text
  BY <1>5, <1>6, ConcatText
<1>8. a \o LineEnd \in Text
  BY <1>7, Constants, ConcatText
<1>9. (a \o LineEnd) \o content \in Text
  BY <1>8, ConcatText
<1> QED
  BY <1>3, <1>9

-----------------------------------------------------------------------------
(* The path that get_prefix looks at. *)

\* Everything is text; when a position is left after the request line, the
\* three words of that line were there.
PathInv ==
  /\ origin \in Origin /\ text \in Text /\ got \in Text /\ body \in Text
  /\ stream \in 0..Len(got) + 1
  /\ headers \in Seq(Readable)
  /\ (pc = "headers" /\ stream # 0) => path # <<>>
  /\ pc = "parsed" => path # <<>>

LEMMA PathInit == Init => PathInv
<1> SUFFICES ASSUME Init PROVE PathInv
  OBVIOUS
<1>1. <<>> \in Text /\ <<>> \in Seq(Readable) /\ Len(<<>>) = 0
  BY EmptySeq DEF Text
<1>2. text \in Text
  BY WireText DEF Init
<1> QED
  BY <1>1, <1>2 DEF Init, PathInv

LEMMA PathReadSome ==
  ASSUME PathInv, ReadSome
  PROVE  PathInv'
<1>1. CASE \E n \in 1..Len(text) : got' = SubSeq(text, 1, n) /\ stream' = 1 /\ pc' = "line"
  <2>1. PICK n \in 1..Len(text) : got' = SubSeq(text, 1, n)
    BY <1>1
  <2>2. Len(text) \in Nat /\ \A i \in 1..n : text[i] \in Lexeme
    BY LenProperties, ElementOfSeq DEF PathInv, Text
  <2>3. got' \in Text /\ Len(got') = n
    BY <2>1, <2>2, SubSeqProperties DEF Text
  <2>4. stream' \in 0..Len(got') + 1
    BY <1>1, <2>3
  <2> QED
    BY <1>1, <2>3, <2>4 DEF ReadSome, PathInv
<1>2. CASE pc' = "thrown" /\ UNCHANGED <<got, stream, cut>>
  BY <1>2 DEF ReadSome, PathInv
<1> QED
  BY <1>1, <1>2 DEF ReadSome

\* A word that was read with something after it is not empty.
LEMMA WordPresent ==
  ASSUME NEW at \in 0..Len(got) + 1, got \in Text
  PROVE  /\ Extract(at) \in 0..Len(got)
         /\ Extract(at) # 0 => Word(at) # <<>>
<1>0. Len(got) \in Nat /\ got \in Seq(Lexeme)
  BY LenProperties DEF Text
<1> DEFINE b == SkipSpace(at)
           e == Extract(at)
<1>1. b \in Nat /\ (b # 0 => b \in at..Len(got) /\ got[b] \notin Space)
  BY <1>0, SkipIs
<1>2. e = Find(b, Space)
  BY DEF Extract
<1> HIDE DEF b, e
<1>3. e \in Nat /\ (e # 0 => b # 0 /\ e \in b..Len(got) /\ got[e] \in Space)
  BY <1>0, <1>1, <1>2, FindIs
<1>4. e \in 0..Len(got)
  BY <1>0, <1>1, <1>3
<1>5. ASSUME e # 0 PROVE Word(at) # <<>>
  <2>1. b \in Nat /\ b # 0 /\ b <= e - 1 /\ e - 1 < Len(got) /\ e - 1 \in Int /\ b \in Int
    BY <1>0, <1>1, <1>3, <1>5
  <2>2. Word(at) = SubSeq(got, b, e - 1)
    BY <1>5, <2>1 DEF Word, Upto, b, e
  <2>3. \A i \in b..e - 1 : got[i] \in Lexeme
    BY <1>0, <2>1, ElementOfSeq
  <2>4. Len(SubSeq(got, b, e - 1)) = (e - 1) - b + 1
    BY <2>1, <2>3, SubSeqProperties
  <2>5. (e - 1) - b + 1 # 0
    BY <2>1
  <2> QED
    BY <2>2, <2>4, <2>5, EmptySeq
<1> QED
  BY <1>4, <1>5 DEF e

LEMMA PathParseLine ==
  ASSUME PathInv, ParseLine
  PROVE  PathInv'
<1> DEFINE at == Extract(stream)
           version == Extract(at)
           last == Extract(version)
<1>0. Len(got) \in Nat /\ got \in Seq(Lexeme) /\ stream \in 0..Len(got) + 1
  BY LenProperties DEF PathInv, Text
<1>1. path' = Word(at) /\ stream' = Ignore(last, 1, "LF") /\ pc' = "headers"
  BY DEF ParseLine
<1>2. at \in 0..Len(got)
  BY <1>0, WordPresent DEF Text
<1> HIDE DEF at
<1>3. version \in 0..Len(got) /\ (version # 0 => Word(at) # <<>>)
  <2>1. at \in 0..Len(got) + 1
    BY <1>0, <1>2
  <2> QED
    BY <1>0, <2>1, WordPresent DEF Text
<1> HIDE DEF version
<1>4. last \in 0..Len(got)
  <2>1. version \in 0..Len(got) + 1
    BY <1>0, <1>3
  <2> QED
    BY <1>0, <2>1, WordPresent DEF Text
<1>5. version = 0 => last = 0
  BY DEF last, Extract, SkipSpace, Find
<1> HIDE DEF last
<1>6. last = 0 => stream' = 0
  BY <1>1 DEF Ignore
<1>7. stream' \in 0..Len(got) + 1
  BY <1>0, <1>1, <1>4, IgnoreIs
<1>8. stream' # 0 => path' # <<>>
  BY <1>1, <1>3, <1>5, <1>6
<1> QED
  BY <1>1, <1>7, <1>8 DEF ParseLine, PathInv

LEMMA PathParseHeader ==
  ASSUME PathInv, ParseHeader
  PROVE  PathInv'
<1>0. Len(got) \in Nat /\ got \in Seq(Lexeme) /\ stream \in Nat
  BY LenProperties DEF PathInv, Text
<1>1. CASE pc' \in {"thrown", "exhausted"} /\ UNCHANGED <<stream, headers>>
  BY <1>1 DEF ParseHeader, PathInv
<1>2. CASE \E at \in {AfterName(stream)} :
             /\ headers' = push_back(headers,
                             [first |-> Line(stream, ":"), second |-> Line(at, "CR")])
             /\ stream' = AfterValue(at) /\ pc' = pc
  <2> DEFINE at == AfterName(stream)
             h == [first |-> Line(stream, ":"), second |-> Line(at, "CR")]
  <2>1. GetLine(stream, ":") \in Nat
    BY <1>0, LineIs
  <2>2. at \in Nat
    <3>1. Ignore(GetLine(stream, ":"), 1, " ") \in 0..Len(got) + 1
      BY <1>0, <2>1, IgnoreIs
    <3>2. at \in 0..Len(got) + 1
      BY <3>1 DEF AfterName
    <3> HIDE DEF at
    <3> QED
      BY <1>0, <3>2
  <2>3. headers' = Append(headers, h) /\ stream' = AfterValue(at) /\ pc' = pc
    BY <1>2 DEF push_back
  <2>4. stream = 0 => at = 0
    BY DEF AfterName, GetLine, Find, Ignore
  <2> HIDE DEF at
  <2>5. h \in Readable
    BY <1>0, <2>2, LineIs DEF Readable, Text
  <2>6. at = 0 => stream' = 0
    BY <2>3 DEF AfterValue, GetLine, Find, Ignore
  <2>7. GetLine(at, "CR") \in Nat
    BY <1>0, <2>2, LineIs
  <2>8. stream' \in 0..Len(got) + 1
    BY <1>0, <2>3, <2>7, IgnoreIs DEF AfterValue
  <2> HIDE DEF h
  <2>9. headers' \in Seq(Readable)
    BY <2>3, <2>5, AppendProperties DEF PathInv
  <2> QED
    BY <2>3, <2>4, <2>6, <2>8, <2>9 DEF ParseHeader, PathInv
<1> QED
  BY <1>1, <1>2 DEF ParseHeader

LEMMA PathParseBody ==
  ASSUME PathInv, ParseBody
  PROVE  PathInv'
<1>0. Len(got) \in Nat /\ got \in Seq(Lexeme) /\ stream \in Nat
  BY LenProperties DEF PathInv, Text
<1>1. CASE pc' = "thrown" /\ UNCHANGED body
  BY <1>1 DEF ParseBody, PathInv
<1>2. CASE pc' = "parsed"
  <2> DEFINE rest == Upto(Ignore(stream, 2, "LF"), 0)
             e(i) == IF i <= Len(rest) THEN rest[i] ELSE "NUL"
  <2>1. PICK n \in Garbage : n >= 0 /\ body' = [i \in 1..n |-> e(i)]
    BY <1>2 DEF ParseBody
  <2>2. n \in Nat
    BY <2>1, LimitAssumption
  <2>3. rest \in Seq(Lexeme)
    <3>1. Ignore(stream, 2, "LF") \in Nat
      BY <1>0, IgnoreIs
    <3> QED
      BY <1>0, <3>1, UptoIs
  <2> HIDE DEF rest
  <2>4. \A i \in 1..n : e(i) \in Lexeme
    <3> TAKE i \in 1..n
    <3>1. Len(rest) \in Nat
      BY <2>3, LenProperties
    <3>2. CASE i <= Len(rest)
      BY <2>2, <2>3, <3>1, <3>2, ElementOfSeq
    <3>3. CASE ~(i <= Len(rest))
      BY <3>3, TextAssumption
    <3> QED
      BY <3>2, <3>3
  <2> HIDE DEF e
  <2>5. body' \in Text
    BY <2>1, <2>2, <2>4, IsASeq DEF Text
  <2>6. stream # 0
    BY DEF ParseBody, AtCarriageReturn
  <2> QED
    BY <1>2, <2>5, <2>6 DEF ParseBody, PathInv
<1> QED
  BY <1>1, <1>2 DEF ParseBody

LEMMA PathStep ==
  ASSUME PathInv, [Next]_vars
  PROVE  PathInv'
<1>1. CASE Forward
  <2>1. text' \in Text /\ <<>> \in Text /\ <<>> \in Seq(Readable)
    BY <1>1, ProxiedText, EmptySeq DEF Forward, PathInv, Text
  <2> QED
    BY <1>1, <2>1 DEF Forward, PathInv
<1>2. CASE Answer
  BY <1>2 DEF Answer, PathInv
<1>3. CASE Read
  BY <1>3 DEF Read, PathInv
<1>4. CASE UNCHANGED vars
  BY <1>4 DEF vars, PathInv
<1> QED
  BY <1>1, <1>2, <1>3, <1>4, PathReadSome, PathParseLine, PathParseHeader, PathParseBody
     DEF Next, Session

\* Whatever bytes come, in whatever pieces: the path of a request that is
\* handled has a first character.
THEOREM PathCorrect == Spec => []PathPresent
<1>1. PathInv => PathPresent
  BY DEF PathInv, PathPresent
<1> QED
  BY <1>1, PathInit, PathStep, PTL DEF Spec

-----------------------------------------------------------------------------
(* The headers that the first server reads: where they are in the text. *)

\* What was read is the beginning of what was sent.
Begins == Len(got) <= Len(text) /\ \A i \in 1..Len(got) : got[i] = text[i]

\* A delimiter is found at its place in the text, if that much was read.
LEMMA FirstAt ==
  ASSUME NEW at \in Nat \ {0}, NEW stops, NEW i \in Nat, at <= i, got \in Text, Begins,
         text[i] \in stops, \A j \in at..i - 1 : text[j] \notin stops
  PROVE  Find(at, stops) = IF i <= Len(got) THEN i ELSE 0
<1> DEFINE x == Find(at, stops)
<1>0. Len(got) \in Nat /\ got \in Seq(Lexeme) /\ at \in Nat /\ at # 0
  BY LenProperties DEF Text
<1>1. \A j \in at..Len(got) : got[j] = text[j]
  BY <1>0 DEF Begins
<1>2. /\ x \in Nat
      /\ x # 0 => x \in at..Len(got) /\ got[x] \in stops
                  /\ \A j \in at..x - 1 : got[j] \notin stops
      /\ x = 0 => \A j \in at..Len(got) : got[j] \notin stops
  BY <1>0, FindIs
<1> HIDE DEF x
<1>3. CASE i <= Len(got)
  <2>1. got[i] \in stops
    BY <1>0, <1>1, <1>3
  <2>2. x # 0
    BY <1>0, <1>2, <1>3, <2>1
  <2>3. ~(x < i)
    BY <1>0, <1>1, <1>2, <2>2
  <2>4. ~(i < x)
    BY <1>0, <1>2, <2>1, <2>2
  <2>5. x = i
    BY <1>2, <2>3, <2>4
  <2> QED
    BY <1>3, <2>5 DEF x
<1>4. CASE ~(i <= Len(got))
  <2>1. x # 0 => x \in at..i - 1
    BY <1>0, <1>2, <1>4
  <2>2. x = 0
    BY <1>1, <1>2, <2>1
  <2> QED
    BY <1>4, <2>2 DEF x
<1> QED
  BY <1>3, <1>4

\* >> skips white space: it looks for anything else.
LEMMA SkipFinds ==
  ASSUME NEW at \in Nat, got \in Text
  PROVE  SkipSpace(at) = Find(at, Lexeme \ Space)
<1>1. Len(got) \in Nat /\ \A i \in 1..Len(got) : got[i] \in Lexeme
  BY LenProperties, ElementOfSeq DEF Text
<1>2. CASE at = 0
  BY <1>2 DEF SkipSpace, Find
<1>3. CASE at # 0
  <2>1. {i \in at..Len(got) : got[i] \notin Space}
          = {i \in at..Len(got) : got[i] \in Lexeme \ Space}
    BY <1>1, <1>3
  <2> QED
    BY <1>3, <2>1 DEF SkipSpace, Find, SelectInSubSeq
<1> QED
  BY <1>2, <1>3

\* A word of the text: after white space it begins at b, at e there is more.
WordIn(at, b, e) ==
  /\ at \in Nat \ {0} /\ b \in Nat /\ e \in Nat /\ at <= b /\ b < e
  /\ \A j \in at..b - 1 : text[j] \in Space
  /\ \A j \in b..e - 1 : text[j] \in Lexeme \ Space
  /\ text[e] \in Space

\* A word is read up to the space behind it.
LEMMA WordAt ==
  ASSUME NEW at, NEW b, NEW e, WordIn(at, b, e), got \in Text, Begins
  PROVE  Extract(at) = IF e <= Len(got) THEN e ELSE 0
<1>0. Len(got) \in Nat
  BY LenProperties DEF Text
<1>1. text[b] \in Lexeme \ Space /\ \A j \in at..b - 1 : text[j] \notin Lexeme \ Space
  BY DEF WordIn
<1>7. at \in Nat \ {0} /\ at \in Nat /\ b \in Nat /\ e \in Nat /\ at <= b /\ b <= e
      /\ text[e] \in Space
  BY DEF WordIn
<1>2. SkipSpace(at) = IF b <= Len(got) THEN b ELSE 0
  BY <1>1, <1>7, FirstAt, SkipFinds
<1>3. b \in Nat \ {0} /\ \A j \in b..e - 1 : text[j] \notin Space
  BY DEF WordIn
<1>4. Find(b, Space) = IF e <= Len(got) THEN e ELSE 0
  BY <1>3, <1>7, FirstAt
<1>5. CASE b <= Len(got)
  BY <1>2, <1>4, <1>5 DEF Extract
<1>6. CASE ~(b <= Len(got))
  <2>1. ~(e <= Len(got)) /\ SkipSpace(at) = 0
    BY <1>0, <1>2, <1>6 DEF WordIn
  <2> QED
    BY <2>1 DEF Extract, Find
<1> QED
  BY <1>5, <1>6

\* A line of the text is read as it is.
LEMMA LineAt ==
  ASSUME NEW at \in Nat \ {0}, NEW d, NEW w \in Text, NEW i \in Nat, i = at + Len(w),
         got \in Text, Begins,
         \A j \in 1..Len(w) : text[at + j - 1] = w[j] /\ w[j] # d,
         text[i] = d
  PROVE  /\ GetLine(at, d) = IF i <= Len(got) THEN i + 1 ELSE 0
         /\ i <= Len(got) => Line(at, d) = w
<1> DEFINE n == Len(w)
<1>0. Len(got) \in Nat /\ n \in Nat /\ at \in Nat /\ at # 0 /\ i = at + n
  BY LenProperties DEF Text
<1>1. \A j \in at..i - 1 : text[j] # d /\ text[j] = w[j - at + 1]
  <2> TAKE j \in at..i - 1
  <2>1. j - at + 1 \in 1..n /\ at + (j - at + 1) - 1 = j
    BY <1>0
  <2> QED
    BY <2>1
<1> HIDE DEF n
<1>2. Find(at, {d}) = IF i <= Len(got) THEN i ELSE 0
  <2>1. at <= i /\ text[i] \in {d} /\ \A j \in at..i - 1 : text[j] \notin {d}
    BY <1>0, <1>1
  <2> QED
    BY <2>1, FirstAt
<1>3. GetLine(at, d) = IF i <= Len(got) THEN i + 1 ELSE 0
  BY <1>0, <1>2 DEF GetLine
<1>4. ASSUME i <= Len(got) PROVE Line(at, d) = w
  <2>1. Line(at, d) = SubSeq(got, at, i - 1)
    <3>1. Find(at, {d}) = i /\ i # 0 /\ at # 0
      BY <1>0, <1>2, <1>4
    <3> QED
      BY <3>1 DEF Line, Upto
  <2>2. \A j \in at..i - 1 : got[j] \in Lexeme /\ got[j] = text[j]
    BY <1>0, <1>4, ElementOfSeq DEF Begins, Text
  <2> DEFINE r == SubSeq(got, at, i - 1)
  <2>3. /\ r \in Seq(Lexeme)
        /\ Len(r) = IF at <= i - 1 THEN (i - 1) - at + 1 ELSE 0
        /\ \A j \in 1..(i - 1) - at + 1 : r[j] = got[at + j - 1]
    <3>1. at \in Int /\ i - 1 \in Int /\ \A j \in at..i - 1 : got[j] \in Lexeme
      BY <1>0, <2>2
    <3> QED
      BY <3>1, SubSeqProperties
  <2> HIDE DEF r
  <2>4. Len(r) = n
    BY <1>0, <2>3
  <2>5. \A j \in 1..n : r[j] = w[j]
    <3> TAKE j \in 1..n
    <3>1. at + j - 1 \in at..i - 1 /\ j \in 1..(i - 1) - at + 1
      BY <1>0
    <3>2. r[j] = got[at + j - 1] /\ got[at + j - 1] = text[at + j - 1]
      BY <2>2, <2>3, <3>1
    <3> QED
      BY <3>2 DEF n
  <2>6. r = w
    BY <2>3, <2>4, <2>5, SeqEqual DEF Text, n
  <2> QED
    BY <2>1, <2>6 DEF r
<1> QED
  BY <1>3, <1>4

\* ignore(1, c) drops one character, whichever it is.
LEMMA IgnoreOne ==
  ASSUME NEW at \in Nat, NEW d, got \in Text
  PROVE  Ignore(at, 1, d) = IF at # 0 /\ at <= Len(got) THEN at + 1 ELSE 0
<1>0. Len(got) \in Nat /\ got \in Seq(Lexeme)
  BY LenProperties DEF Text
<1> DEFINE i == Find(at, {d})
<1>1. i \in Nat /\ (i # 0 => at <= i)
  BY <1>0, FindIs
<1>2. Ignore(at, 1, d) =
        LET next == IF i # 0 /\ i < at + 1 THEN i + 1 ELSE at + 1
        IN  IF at # 0 /\ next <= Len(got) + 1 THEN next ELSE 0
  BY DEF Ignore
<1> HIDE DEF i
<1>3. (IF i # 0 /\ i < at + 1 THEN i + 1 ELSE at + 1) = at + 1
  BY <1>1
<1> QED
  BY <1>0, <1>2, <1>3

\* Of a sequence built by appending, what was there first stays in front.
Sums(f, s, n, S) ==
  /\ n \in Nat /\ \A i \in 1..n : s[i] \in Seq(S)
  /\ f \in [1..n -> Seq(S)] /\ \A i \in 1..n : i # 1 => f[i] = f[i - 1] \o s[i]

LEMMA FrontStays ==
  ASSUME NEW S, NEW n, NEW s, NEW f, Sums(f, s, n, S)
  PROVE  \A k \in 1..n : \A m \in k..n :
           Len(f[k]) <= Len(f[m]) /\ \A j \in 1..Len(f[k]) : f[m][j] = f[k][j]
<1>0. /\ n \in Nat /\ \A i \in 1..n : s[i] \in Seq(S)
      /\ f \in [1..n -> Seq(S)] /\ \A i \in 1..n : i # 1 => f[i] = f[i - 1] \o s[i]
  BY DEF Sums
<1> TAKE k \in 1..n
<1> DEFINE P(m) == Len(f[k]) <= Len(f[m]) /\ \A j \in 1..Len(f[k]) : f[m][j] = f[k][j]
           T == {m \in k..n : ~P(m)}
<1>1. k \in Nat /\ T \subseteq Nat /\ \A i \in 1..n : f[i] \in Seq(S) /\ Len(f[i]) \in Nat
  BY <1>0, LenProperties
<1>2. P(k)
  BY <1>1
<1>3. ASSUME NEW m \in k..n, m # k, P(m - 1)
      PROVE  P(m)
  <2> DEFINE x == f[m - 1]
  <2>1. m \in 1..n /\ m # 1 /\ m - 1 \in 1..n
    BY <1>0, <1>1, <1>3
  <2>2. f[m] = x \o s[m]
    BY <1>0, <2>1
  <2>3. x \in Seq(S) /\ s[m] \in Seq(S) /\ Len(x) \in Nat /\ Len(s[m]) \in Nat
    BY <1>0, <1>1, <2>1, LenProperties
  <2>4. Len(f[k]) <= Len(x) /\ \A j \in 1..Len(f[k]) : x[j] = f[k][j]
    BY <1>3
  <2>5. Len(f[k]) \in Nat
    BY <1>1
  <2> HIDE DEF x
  <2>6. Len(f[m]) = Len(x) + Len(s[m]) /\ \A j \in 1..Len(x) : f[m][j] = x[j]
    <3> DEFINE y == x \o s[m]
    <3>1. /\ Len(y) = Len(x) + Len(s[m])
          /\ \A j \in 1..Len(x) + Len(s[m]) :
               y[j] = IF j <= Len(x) THEN x[j] ELSE s[m][j - Len(x)]
      BY <2>3, ConcatProperties
    <3> HIDE DEF y
    <3>2. \A j \in 1..Len(x) : y[j] = x[j]
      <4> TAKE j \in 1..Len(x)
      <4>1. j \in 1..Len(x) + Len(s[m]) /\ j <= Len(x)
        BY <2>3
      <4> QED
        BY <3>1, <4>1
    <3> QED
      BY <2>2, <3>1, <3>2 DEF y
  <2> QED
    BY <2>3, <2>4, <2>5, <2>6
<1> HIDE DEF P
<1>4. SUFFICES ASSUME T # {} PROVE FALSE
  BY DEF P
<1>5. PICK x \in T : \A y \in T : x <= y
  BY <1>1, <1>4, Smallest
<1>6. x # k
  BY <1>2, <1>5
<1>7. x - 1 \in k..n /\ x - 1 \notin T
  BY <1>0, <1>1, <1>5, <1>6
<1> QED
  BY <1>0, <1>3, <1>5, <1>6, <1>7

\* A text made of pieces: E[k] is the place where the k-th of them ends, and
\* the part in front of them for k = 0.
Laid(t, front, s, n, rest, E) ==
  /\ E \in [0..n -> Nat] /\ E[0] = Len(front)
  /\ \A j \in 1..Len(front) : t[j] = front[j]
  /\ \A k \in 1..n : /\ E[k] = E[k - 1] + Len(s[k])
                     /\ \A j \in 1..Len(s[k]) : t[E[k - 1] + j] = s[k][j]
  /\ Len(t) = E[n] + Len(rest)
  /\ \A j \in 1..Len(rest) : t[E[n] + j] = rest[j]

\* Every concatenation of pieces is such a text.
LEMMA LaidExists ==
  ASSUME NEW front \in Text, NEW n \in Nat, NEW s, s \in [1..n -> Text], NEW rest \in Text
  PROVE  \E E : Laid((front \o FlattenSeq(s)) \o rest, front, s, n, rest, E)
<1> DEFINE g == FlattenSeq(s)
           a == front \o g
           w == a \o rest
           m == Len(front)
<1>1. s \in Seq(Seq(Lexeme)) /\ Len(s) = n /\ \A k \in 1..n : s[k] \in Text
  <2>1. \A i \in 1..n : s[i] \in Seq(Lexeme)
    BY DEF Text
  <2>2. s = [i \in 1..n |-> s[i]]
    OBVIOUS
  <2>3. [i \in 1..n |-> s[i]] \in Seq(Seq(Lexeme))
    BY <2>1, IsASeq
  <2>4. Len(s) = n
    BY <2>2, <2>3, LenProperties
  <2> QED
    BY <2>1, <2>2, <2>3, <2>4 DEF Text
<1>2. PICK f : /\ f \in [1..n -> Seq(Lexeme)]
               /\ n # 0 => f[1] = s[1]
               /\ \A i \in 1..n : i # 1 => f[i] = f[i - 1] \o s[i]
               /\ g = IF n = 0 THEN <<>> ELSE f[n]
  <2>1. \E f : /\ f \in [1..Len(s) -> Seq(Lexeme)]
               /\ Len(s) # 0 => f[1] = s[1]
               /\ \A i \in 1..Len(s) : i # 1 => f[i] = f[i - 1] \o s[i]
               /\ FlattenSeq(s) = IF Len(s) = 0 THEN <<>> ELSE f[Len(s)]
    BY <1>1, FlattenIs
  <2> QED
    BY <1>1, <2>1
<1> HIDE DEF g
<1> DEFINE L(k) == IF k = 0 THEN 0 ELSE Len(f[k])
           E == [k \in 0..n |-> m + L(k)]
<1>3. /\ \A k \in 0..n : L(k) \in Nat
      /\ \A k \in 1..n : f[k] \in Text /\ L(k) = Len(f[k]) /\ Len(s[k]) \in Nat
  BY <1>1, <1>2, LenProperties DEF Text
<1>4. \A k \in 1..n : L(k) = L(k - 1) + Len(s[k])
                      /\ \A j \in 1..Len(s[k]) : f[k][L(k - 1) + j] = s[k][j]
  <2> TAKE k \in 1..n
  <2>1. CASE k = 1
    <3>1. f[k] = s[k] /\ L(k - 1) = 0 /\ L(k) = Len(f[k])
      BY <1>2, <2>1
    <3>2. Len(s[k]) \in Nat
      BY <1>3
    <3>3. \A j \in 1..Len(s[k]) : L(k - 1) + j = j
      BY <3>1, <3>2
    <3>4. L(k) = L(k - 1) + Len(s[k])
      BY <3>1, <3>2
    <3> HIDE DEF L
    <3>5. \A j \in 1..Len(s[k]) : f[k][L(k - 1) + j] = s[k][j]
      BY <3>1, <3>3, Zenon
    <3> QED
      BY <3>4, <3>5, Zenon
  <2>2. CASE k # 1
    <3>1. k - 1 \in 1..n /\ L(k) = Len(f[k]) /\ L(k - 1) = Len(f[k - 1])
      BY <1>3, <2>2
    <3>2. f[k] = f[k - 1] \o s[k] /\ f[k - 1] \in Text /\ s[k] \in Text
      BY <1>1, <1>2, <1>3, <2>2, <3>1
    <3>3. /\ Len(f[k - 1] \o s[k]) = Len(f[k - 1]) + Len(s[k])
          /\ \A j \in 1..Len(s[k]) : (f[k - 1] \o s[k])[Len(f[k - 1]) + j] = s[k][j]
      BY <3>2, ConcatIs, Zenon
    <3> HIDE DEF L
    <3> QED
      BY <3>1, <3>2, <3>3, Zenon
  <2> QED
    BY <2>1, <2>2
<1>5. /\ g \in Text /\ Len(g) = L(n)
      /\ \A k \in 1..n : L(k) <= Len(g) /\ \A j \in 1..L(k) : g[j] = f[k][j]
  <2>1. CASE n = 0
    <3>1. g = <<>> /\ g \in Text /\ Len(g) = 0 /\ L(n) = 0
      BY <1>2, <2>1, EmptySeq DEF Text
    <3>2. 1..n = {}
      BY <2>1
    <3> QED
      BY <3>1, <3>2
  <2>2. CASE n # 0
    <3>1. g = f[n] /\ n \in 1..n
      BY <1>2, <2>2
    <3>2. \A k \in 1..n : n \in k..n /\ k # 0
      OBVIOUS
    <3>3. Sums(f, s, n, Lexeme)
      BY <1>1, <1>2 DEF Sums, Text
    <3>4. \A k \in 1..n : \A i \in k..n :
            Len(f[k]) <= Len(f[i]) /\ \A j \in 1..Len(f[k]) : f[i][j] = f[k][j]
      BY <3>3, FrontStays
    <3>5. \A k \in 1..n : Len(f[k]) <= Len(f[n]) /\ \A j \in 1..Len(f[k]) : f[n][j] = f[k][j]
      BY <3>2, <3>4
    <3> QED
      BY <1>3, <3>1, <3>5
  <2> QED
    BY <2>1, <2>2
<1>6. /\ a \in Text /\ Len(a) = m + L(n) /\ m \in Nat
      /\ \A j \in 1..m : a[j] = front[j]
      /\ \A j \in 1..Len(g) : a[m + j] = g[j]
  <2>1. g \in Text /\ Len(g) = L(n)
    BY <1>5
  <2>2. /\ a \in Text /\ Len(a) = m + Len(g) /\ m \in Nat
        /\ \A j \in 1..m : a[j] = front[j]
        /\ \A j \in 1..Len(g) : a[m + j] = g[j]
    BY <2>1, ConcatIs, Zenon
  <2> HIDE DEF L
  <2> QED
    BY <2>1, <2>2, Zenon
<1>7. /\ Len(w) = Len(a) + Len(rest)
      /\ \A j \in 1..Len(a) : w[j] = a[j]
      /\ \A j \in 1..Len(rest) : w[Len(a) + j] = rest[j]
  BY <1>6, ConcatIs
<1> HIDE DEF L, a, w, m
<1>8. \A k \in 0..n : E[k] = m + L(k) /\ E[k] \in Nat
  BY <1>3, <1>6
<1>9. L(0) = 0
  BY DEF L
<1>10. E \in [0..n -> Nat] /\ E[0] = m /\ E[n] = Len(a)
  BY <1>6, <1>8, <1>9
<1>11. \A j \in 1..m : w[j] = front[j]
  <2> TAKE j \in 1..m
  <2>1. j \in 1..Len(a)
    BY <1>3, <1>6
  <2> QED
    BY <1>6, <1>7, <2>1
<1>12. ASSUME NEW k \in 1..n
       PROVE  /\ E[k] = E[k - 1] + Len(s[k])
              /\ \A j \in 1..Len(s[k]) : w[E[k - 1] + j] = s[k][j]
  <2> DEFINE x == L(k - 1)
             y == L(k)
             l == Len(s[k])
             e == E[k - 1]
  <2>1. k - 1 \in 0..n /\ k \in 0..n
    OBVIOUS
  <2>2. x \in Nat /\ y \in Nat /\ l \in Nat /\ y = x + l /\ e = m + x /\ E[k] = m + y
    BY <1>3, <1>4, <1>8, <2>1
  <2>3. y <= L(n) /\ L(n) \in Nat /\ Len(g) = L(n) /\ \A j \in 1..y : g[j] = f[k][j]
    BY <1>3, <1>5
  <2>4. \A j \in 1..l : f[k][x + j] = s[k][j]
    BY <1>4
  <2> HIDE DEF x, y, l, e, E
  <2>5. \A j \in 1..l : w[e + j] = s[k][j]
    <3> TAKE j \in 1..l
    <3>1. /\ x + j \in 1..y /\ x + j \in 1..Len(g) /\ e + j = m + (x + j)
          /\ m + (x + j) \in 1..Len(a)
      BY <1>6, <2>2, <2>3
    <3> QED
      BY <1>6, <1>7, <2>3, <2>4, <3>1, SMTT(30)
  <2> QED
    BY <1>6, <2>2, <2>5 DEF x, y, l, e
<1> HIDE DEF E
<1>13. Laid(w, front, s, n, rest, E)
  BY <1>7, <1>10, <1>11, <1>12 DEF Laid, m
<1> QED
  BY <1>13 DEF w, a, g

\* Where the headers of a request end: E[k] is the place of the LF of the k-th,
\* and of the request line for k = 0.
Layout(o, E) ==
  LET hs == o.headers
      n == Len(hs)
      w == Wire(o)
  IN  /\ E \in [0..n -> Nat] /\ E[0] = 7
      /\ \A j \in 1..7 : w[j] = RequestLine[j]
      /\ \A k \in 1..n :
           /\ E[k] = E[k - 1] + Len(Written(hs[k]))
           /\ \A j \in 1..Len(Written(hs[k])) : w[E[k - 1] + j] = Written(hs[k])[j]
      /\ w[E[n] + 1] = "CR"

LEMMA LayoutExists ==
  ASSUME NEW o \in Origin, o.program = "browser"
  PROVE  \E E : Layout(o, E)
<1> DEFINE hs == o.headers
           n == Len(hs)
           s == WrittenAll(hs)
           rest == LineEnd \o o.body
<1>1. hs \in Seq(Sendable) /\ o.body \in Text
  BY OriginIs
<1>2. n \in Nat /\ \A i \in 1..n : hs[i] \in Sendable
  BY <1>1, LenProperties, ElementOfSeq
<1>3. s \in [1..n -> Text] /\ \A i \in 1..n : s[i] = Written(hs[i])
  BY <1>2, WrittenText DEF WrittenAll
<1>4. /\ RequestLine \in Text /\ Len(RequestLine) = 7 /\ LineEnd \in Text
      /\ Len(LineEnd) = 2 /\ LineEnd[1] = "CR"
  BY Constants DEF RequestLine, LineEnd
<1>5. /\ rest \in Text /\ Len(rest) \in Nat /\ 1 \in 1..Len(rest) /\ rest[1] = "CR"
  <2>1. /\ rest \in Text /\ Len(rest) = Len(LineEnd) + Len(o.body) /\ Len(o.body) \in Nat
        /\ \A j \in 1..Len(LineEnd) : rest[j] = LineEnd[j]
    BY <1>1, <1>4, ConcatIs, Zenon
  <2> HIDE DEF rest
  <2>2. 1 \in 1..Len(LineEnd)
    BY <1>4
  <2> QED
    BY <1>4, <2>1, <2>2
<1> HIDE DEF n, s
<1>6. Wire(o) = (RequestLine \o FlattenSeq(s)) \o rest
  <2> DEFINE x == RequestLine \o FlattenSeq(s)
  <2>1. x \in Text
    BY <1>2, <1>3, <1>4, FlattenText, ConcatText
  <2>2. Wire(o) = (x \o LineEnd) \o o.body
    BY DEF Wire, WrittenAll, LineEnd, s
  <2> HIDE DEF x
  <2>3. (x \o LineEnd) \o o.body = x \o (LineEnd \o o.body)
    BY <1>1, <1>4, <2>1, ConcatThree
  <2> QED
    BY <2>2, <2>3 DEF x
<1> HIDE DEF rest
<1>7. PICK E : Laid(Wire(o), RequestLine, s, n, rest, E)
  BY <1>2, <1>3, <1>4, <1>5, <1>6, LaidExists
<1>8. /\ E \in [0..n -> Nat] /\ E[0] = 7
      /\ \A j \in 1..7 : Wire(o)[j] = RequestLine[j]
      /\ \A k \in 1..n :
           /\ E[k] = E[k - 1] + Len(Written(hs[k]))
           /\ \A j \in 1..Len(Written(hs[k])) : Wire(o)[E[k - 1] + j] = Written(hs[k])[j]
      /\ Wire(o)[E[n] + 1] = "CR"
  <2> DEFINE w == Wire(o)
  <2>1. /\ E \in [0..n -> Nat] /\ E[0] = Len(RequestLine)
        /\ \A j \in 1..Len(RequestLine) : w[j] = RequestLine[j]
        /\ \A k \in 1..n : /\ E[k] = E[k - 1] + Len(s[k])
                           /\ \A j \in 1..Len(s[k]) : w[E[k - 1] + j] = s[k][j]
        /\ \A j \in 1..Len(rest) : w[E[n] + j] = rest[j]
    BY <1>7 DEF Laid
  <2> HIDE DEF w, hs
  <2>2. \A k \in 1..n :
          /\ E[k] = E[k - 1] + Len(Written(hs[k]))
          /\ \A j \in 1..Len(Written(hs[k])) : w[E[k - 1] + j] = Written(hs[k])[j]
    <3> TAKE k \in 1..n
    <3>1. s[k] = Written(hs[k])
      BY <1>3
    <3> QED
      BY <2>1, <3>1
  <2>3. w[E[n] + 1] = "CR"
    BY <1>5, <2>1, Zenon
  <2>4. E[0] = 7 /\ \A j \in 1..7 : w[j] = RequestLine[j]
    BY <1>4, <2>1, Zenon
  <2> QED
    BY <2>1, <2>2, <2>3, <2>4 DEF w
<1> QED
  BY <1>8 DEF Layout, n

\* The characters of a header.
Spelled(h, m, n) ==
  /\ m \in Nat /\ n \in Nat /\ Len(Written(h)) = m + n + 3
  /\ \A j \in 1..m : Written(h)[j] = h.name[j] /\ h.name[j] \notin {":", "CR"}
  /\ Written(h)[m + 1] = ":"
  /\ \A j \in 1..n : Written(h)[m + 1 + j] = h.value[j] /\ h.value[j] # "CR"
  /\ Written(h)[m + n + 2] = "CR"

LEMMA WrittenIs ==
  ASSUME NEW h \in Sendable
  PROVE  Spelled(h, Len(h.name), Len(h.value))
<1> DEFINE m == Len(h.name)
           n == Len(h.value)
           x == h.name
           z == h.value
           colon == <<":">>
           a == x \o colon
           b == a \o z
           w == b \o LineEnd
<1>1. x \in Text /\ z \in Text /\ Written(h) = w
  BY WrittenText
<1>2. x \in Seq(Lexeme \ {":", "CR", "LF"}) /\ z \in Seq(Lexeme \ {"CR", "LF"})
  BY DEF Sendable
<1>3. /\ colon \in Text /\ Len(colon) = 1 /\ colon[1] = ":"
      /\ LineEnd \in Text /\ Len(LineEnd) = 2 /\ LineEnd[1] = "CR"
  BY Constants DEF LineEnd
<1> HIDE DEF x, z, colon, m, n
<1>4. m \in Nat /\ n \in Nat /\ m = Len(x) /\ n = Len(z)
  BY <1>1, LenProperties DEF Text, x, z, m, n
<1>5. /\ \A j \in 1..m : x[j] \notin {":", "CR"}
      /\ \A j \in 1..n : z[j] # "CR"
  <2>1. \A j \in 1..m : x[j] \in Lexeme \ {":", "CR", "LF"}
    BY <1>2, <1>4, ElementOfSeq
  <2>2. \A j \in 1..n : z[j] \in Lexeme \ {"CR", "LF"}
    BY <1>2, <1>4, ElementOfSeq
  <2> QED
    BY <2>1, <2>2
<1>6. a \in Text /\ Len(a) = m + 1 /\ a[m + 1] = ":" /\ \A j \in 1..m : a[j] = x[j]
  <2>1. /\ a \in Text /\ Len(a) = Len(x) + Len(colon)
        /\ \A j \in 1..Len(x) + Len(colon) :
             a[j] = IF j <= Len(x) THEN x[j] ELSE colon[j - Len(x)]
    BY <1>1, <1>3, ConcatProperties DEF Text
  <2> HIDE DEF a
  <2>2. \A j \in 1..m + 1 : a[j] = IF j <= m THEN x[j] ELSE colon[j - m]
    BY <1>3, <1>4, <2>1
  <2>3. m + 1 \in 1..m + 1 /\ ~(m + 1 <= m) /\ (m + 1) - m = 1
    BY <1>4
  <2>4. \A j \in 1..m : j \in 1..m + 1 /\ j <= m
    BY <1>4
  <2> QED
    BY <1>3, <1>4, <2>1, <2>2, <2>3, <2>4
<1> HIDE DEF a
<1>7. /\ b \in Text /\ Len(b) = m + 1 + n
      /\ \A j \in 1..m + 1 : b[j] = a[j]
      /\ \A j \in 1..n : b[m + 1 + j] = z[j]
  <2>1. /\ b \in Text /\ Len(b) = Len(a) + Len(z)
        /\ \A j \in 1..Len(a) + Len(z) : b[j] = IF j <= Len(a) THEN a[j] ELSE z[j - Len(a)]
    BY <1>1, <1>6, ConcatProperties DEF Text
  <2> HIDE DEF b
  <2>2. \A j \in 1..m + 1 + n : b[j] = IF j <= m + 1 THEN a[j] ELSE z[j - (m + 1)]
    BY <1>4, <1>6, <2>1
  <2>3. \A j \in 1..n : /\ m + 1 + j \in 1..m + 1 + n /\ ~(m + 1 + j <= m + 1)
                        /\ (m + 1 + j) - (m + 1) = j
    BY <1>4
  <2>4. \A j \in 1..m + 1 : j \in 1..m + 1 + n /\ j <= m + 1
    BY <1>4
  <2> QED
    <3>1. Len(b) = m + 1 + n
      BY <1>4, <1>6, <2>1
    <3>2. \A j \in 1..m + 1 : b[j] = a[j]
      BY <2>2, <2>4
    <3>3. \A j \in 1..n : b[m + 1 + j] = z[j]
      BY <2>2, <2>3
    <3> QED
      BY <2>1, <3>1, <3>2, <3>3
<1> HIDE DEF b
<1>8. /\ Len(w) = m + n + 3
      /\ \A j \in 1..m + 1 + n : w[j] = b[j]
      /\ w[m + n + 2] = "CR"
  <2>1. /\ Len(w) = Len(b) + Len(LineEnd)
        /\ \A j \in 1..Len(b) + Len(LineEnd) :
             w[j] = IF j <= Len(b) THEN b[j] ELSE LineEnd[j - Len(b)]
    <3>1. b \in Seq(Lexeme) /\ LineEnd \in Seq(Lexeme)
      BY <1>3, <1>7 DEF Text
    <3> QED
      BY <3>1, ConcatProperties
  <2> HIDE DEF w
  <2>2. \A j \in 1..m + n + 3 :
           w[j] = IF j <= m + 1 + n THEN b[j] ELSE LineEnd[j - (m + 1 + n)]
    <3>1. Len(b) = m + 1 + n /\ Len(b) + Len(LineEnd) = m + n + 3
      BY <1>3, <1>4, <1>7
    <3> QED
      BY <2>1, <3>1
  <2>3. /\ m + n + 2 \in 1..m + n + 3 /\ ~(m + n + 2 <= m + 1 + n)
        /\ (m + n + 2) - (m + 1 + n) = 1
    BY <1>4
  <2>4. \A j \in 1..m + 1 + n : j \in 1..m + n + 3 /\ j <= m + 1 + n
    BY <1>4
  <2>5. Len(w) = m + n + 3
    BY <1>3, <1>4, <1>7, <2>1
  <2> QED
    BY <1>3, <2>2, <2>3, <2>4, <2>5
<1> HIDE DEF w
<1>9. \A j \in 1..m : w[j] = x[j]
  <2>1. \A j \in 1..m : j \in 1..m + 1 + n /\ j \in 1..m + 1
    BY <1>4
  <2> QED
    BY <1>6, <1>7, <1>8, <2>1
<1>10. w[m + 1] = ":"
  <2>1. m + 1 \in 1..m + 1 + n /\ m + 1 \in 1..m + 1
    BY <1>4
  <2> QED
    BY <1>6, <1>7, <1>8, <2>1
<1>11. \A j \in 1..n : w[m + 1 + j] = z[j]
  <2>1. \A j \in 1..n : m + 1 + j \in 1..m + 1 + n
    BY <1>4
  <2> QED
    BY <1>7, <1>8, <2>1
<1> QED
  BY <1>1, <1>4, <1>5, <1>8, <1>9, <1>10, <1>11 DEF x, z, m, n, Spelled

\* What a handler gets for the i-th header that was sent.
Expected(hs, i) ==
  [first |-> (IF i = 1 THEN <<"LF">> ELSE <<>>) \o hs[i].name, second |-> Tail(hs[i].value)]

\* One header in the text, from the place where the stream is: the name up to
\* the colon, the value up to the CR.
HeaderAt(w, v, at, c, e) ==
  /\ at \in Nat \ {0} /\ w \in Text /\ v \in Text
  /\ c = at + Len(w) /\ e = c + 1 + Len(v)
  /\ \A j \in 1..Len(w) : text[at + j - 1] = w[j] /\ w[j] # ":"
  /\ text[c] = ":"
  /\ \A j \in 1..Len(v) : text[c + j] = v[j] /\ v[j] # "CR"
  /\ text[e] = "CR"

\* A pass of the header loop reads it, without the first character of the
\* value, unless what was read ends before.
LEMMA PassReads ==
  ASSUME NEW w, NEW v, NEW at, NEW c, NEW e, HeaderAt(w, v, at, c, e), v # <<>>,
         got \in Text, Begins, AfterValue(AfterName(at)) # 0
  PROVE  /\ Line(at, ":") = w /\ Line(AfterName(at), "CR") = Tail(v)
         /\ AfterValue(AfterName(at)) = e + 2
<1> DEFINE n == Len(got)
           m == Len(w)
           k == Len(v)
           t == Tail(v)
           b == AfterName(at)
<1>1. /\ at \in Nat /\ at # 0 /\ w \in Text /\ v \in Text /\ c = at + m /\ e = c + 1 + k
      /\ \A j \in 1..m : text[at + j - 1] = w[j] /\ w[j] # ":"
      /\ text[c] = ":"
      /\ \A j \in 1..k : text[c + j] = v[j] /\ v[j] # "CR"
      /\ text[e] = "CR"
  BY DEF HeaderAt
<1>2. n \in Nat /\ m \in Nat /\ k \in Nat
  BY <1>1, LenProperties DEF Text
<1>3. c \in Nat /\ e \in Nat
  BY <1>1, <1>2
<1>4. t \in Text /\ Len(t) = k - 1 /\ \A j \in 1..k - 1 : t[j] = v[j + 1]
  BY <1>1, HeadTailProperties DEF Text
<1> HIDE DEF k, t
<1>5. /\ GetLine(at, ":") = IF c <= n THEN c + 1 ELSE 0
      /\ c <= n => Line(at, ":") = w
  BY <1>1, <1>3, LineAt
<1> HIDE DEF m, n
<1>6. b = IF c + 1 <= n THEN c + 2 ELSE 0
  <2>1. GetLine(at, ":") \in Nat
    BY <1>2, <1>3, <1>5
  <2>2. b = IF GetLine(at, ":") # 0 /\ GetLine(at, ":") <= n THEN GetLine(at, ":") + 1 ELSE 0
    BY <2>1, IgnoreOne DEF AfterName, n
  <2> HIDE DEF b
  <2>3. CASE c <= n
    <3>1. GetLine(at, ":") = c + 1 /\ c + 1 # 0
      BY <1>3, <1>5, <2>3
    <3> QED
      BY <1>2, <1>3, <2>2, <3>1
  <2>4. CASE ~(c <= n)
    <3>1. GetLine(at, ":") = 0 /\ ~(c + 1 <= n)
      BY <1>2, <1>3, <1>5, <2>4
    <3> QED
      BY <2>2, <3>1
  <2> QED
    BY <2>3, <2>4
<1>7. b # 0 /\ AfterValue(b) # 0
  BY DEF AfterValue, GetLine, Find, Ignore
<1>8. c + 1 <= n /\ b = c + 2 /\ c <= n
  BY <1>2, <1>3, <1>6, <1>7
<1> HIDE DEF b
<1>9. /\ GetLine(b, "CR") = IF e <= n THEN e + 1 ELSE 0
      /\ e <= n => Line(b, "CR") = t
  <2>1. b \in Nat \ {0} /\ e = b + Len(t)
    BY <1>1, <1>2, <1>3, <1>4, <1>8
  <2>2. \A j \in 1..Len(t) : text[b + j - 1] = t[j] /\ t[j] # "CR"
    <3> TAKE j \in 1..Len(t)
    <3>1. j + 1 \in 1..k /\ b + j - 1 = c + (j + 1) /\ j \in 1..k - 1
      BY <1>2, <1>3, <1>4, <1>8
    <3> QED
      BY <1>1, <1>4, <3>1
  <2> QED
    BY <1>1, <1>3, <1>4, <2>1, <2>2, LineAt DEF n
<1>10. AfterValue(b) = IF e + 1 <= n THEN e + 2 ELSE 0
  <2>1. GetLine(b, "CR") \in Nat
    BY <1>2, <1>3, <1>9
  <2>2. AfterValue(b) = IF GetLine(b, "CR") # 0 /\ GetLine(b, "CR") <= n
                          THEN GetLine(b, "CR") + 1 ELSE 0
    BY <2>1, IgnoreOne DEF AfterValue, n
  <2>3. CASE e <= n
    <3>1. GetLine(b, "CR") = e + 1 /\ e + 1 # 0
      BY <1>3, <1>9, <2>3
    <3> QED
      BY <1>2, <1>3, <2>2, <3>1
  <2>4. CASE ~(e <= n)
    <3>1. GetLine(b, "CR") = 0 /\ ~(e + 1 <= n)
      BY <1>2, <1>3, <1>9, <2>4
    <3> QED
      BY <2>2, <3>1
  <2> QED
    BY <2>3, <2>4
<1>11. e + 1 <= n /\ e <= n
  BY <1>2, <1>3, <1>7, <1>10
<1> QED
  BY <1>5, <1>8, <1>9, <1>10, <1>11 DEF b, t

\* The text holds the next header at the place after the last one that was
\* read; before the first that place is at the LF of the request line.
LEMMA NextHeader ==
  ASSUME origin \in Origin, origin.program = "browser", text = Wire(origin),
         NEW E, Layout(origin, E), NEW k \in Nat, k < Len(origin.headers),
         NEW at, at = E[k] + (IF k = 0 THEN 0 ELSE 1)
  PROVE  /\ \E c, e : /\ HeaderAt(Expected(origin.headers, k + 1).first,
                                  origin.headers[k + 1].value, at, c, e)
                      /\ e + 2 = E[k + 1] + 1
         /\ text[at] # "CR"
<1> DEFINE hs == origin.headers
           n == Len(hs)
           h == hs[k + 1]
           x == h.name
           v == h.value
           w == Expected(hs, k + 1).first
           p == Len(x)
           q == Len(v)
<1>1. hs \in Seq(Sendable)
  BY OriginIs
<1>2. n \in Nat /\ k + 1 \in 1..n /\ k \in 0..n
  <2>1. n \in Nat
    BY <1>1, LenProperties
  <2> QED
    BY <2>1
<1>3. h \in Sendable
  BY <1>1, <1>2, ElementOfSeq
<1>4. /\ p \in Nat /\ q \in Nat /\ Len(Written(h)) = p + q + 3
      /\ \A j \in 1..p : Written(h)[j] = x[j] /\ x[j] \notin {":", "CR"}
      /\ Written(h)[p + 1] = ":"
      /\ \A j \in 1..q : Written(h)[p + 1 + j] = v[j] /\ v[j] # "CR"
      /\ Written(h)[p + q + 2] = "CR"
  <2>1. Spelled(h, p, q)
    <3> HIDE DEF h
    <3> QED
      BY <1>3, WrittenIs
  <2> HIDE DEF h, p, q
  <2> QED
    BY <2>1 DEF Spelled
<1>5. x \in Text /\ v \in Text
  BY <1>3, WrittenText
<1>6. /\ E[k] \in Nat /\ E[0] = 7
      /\ E[k + 1] = E[k] + Len(Written(h))
      /\ \A j \in 1..Len(Written(h)) : text[E[k] + j] = Written(h)[j]
      /\ \A j \in 1..7 : text[j] = RequestLine[j]
  <2>1. (k + 1) - 1 = k
    OBVIOUS
  <2> HIDE DEF h
  <2>2. /\ E \in [0..n -> Nat] /\ E[0] = 7
        /\ \A j \in 1..7 : text[j] = RequestLine[j]
        /\ \A i \in 1..n :
             /\ E[i] = E[i - 1] + Len(Written(hs[i]))
             /\ \A j \in 1..Len(Written(hs[i])) : text[E[i - 1] + j] = Written(hs[i])[j]
    BY DEF Layout
  <2> HIDE DEF n, hs
  <2>3. /\ E[k + 1] = E[k] + Len(Written(hs[k + 1]))
        /\ \A j \in 1..Len(Written(hs[k + 1])) : text[E[k] + j] = Written(hs[k + 1])[j]
    BY <1>2, <2>1, <2>2
  <2> QED
    BY <1>2, <2>2, <2>3 DEF h
<1>7. text[7] = "LF"
  <2>1. 7 \in 1..7 /\ RequestLine[7] = "LF"
    BY DEF RequestLine
  <2> QED
    BY <1>6, <2>1
<1>8. w = (IF k = 0 THEN <<"LF">> ELSE <<>>) \o x
  <2>1. k + 1 = 1 <=> k = 0
    OBVIOUS
  <2>2. w = (IF k + 1 = 1 THEN <<"LF">> ELSE <<>>) \o x
    BY DEF Expected
  <2> QED
    BY <2>1, <2>2
<1> DEFINE u == E[k]
<1> HIDE DEF p, q, x, v, h, hs, w
<1>20. p \in Nat /\ q \in Nat /\ u \in Nat /\ E[k + 1] = u + (p + q + 3) /\ E[k] = u
  BY <1>4, <1>6
<1> HIDE DEF u
<1> DEFINE c == u + 1 + p
           e == c + 1 + q
<1>9. \A j \in 1..p + q + 3 : text[u + j] = Written(h)[j]
  BY <1>4, <1>6 DEF u
<1>10. /\ \A j \in 1..p : text[u + j] = x[j] /\ x[j] \notin {":", "CR"}
       /\ text[c] = ":"
       /\ \A j \in 1..q : text[c + j] = v[j] /\ v[j] # "CR"
       /\ text[e] = "CR"
  <2>1. \A j \in 1..p : j \in 1..p + q + 3
    BY <1>4
  <2>2. p + 1 \in 1..p + q + 3 /\ u + (p + 1) = c
    BY <1>20
  <2>3. \A j \in 1..q : p + 1 + j \in 1..p + q + 3 /\ u + (p + 1 + j) = c + j
    BY <1>20
  <2>4. p + q + 2 \in 1..p + q + 3 /\ u + (p + q + 2) = e
    BY <1>20
  <2> HIDE DEF c, e
  <2>5. \A j \in 1..p : text[u + j] = x[j] /\ x[j] \notin {":", "CR"}
    BY <1>4, <1>9, <2>1
  <2>6. text[c] = ":"
    BY <1>4, <1>9, <2>2
  <2>7. \A j \in 1..q : text[c + j] = v[j] /\ v[j] # "CR"
    BY <1>4, <1>9, <2>3
  <2>8. text[e] = "CR"
    BY <1>4, <1>9, <2>4
  <2> QED
    BY <2>5, <2>6, <2>7, <2>8
<1>11. /\ at \in Nat \ {0} /\ w \in Text /\ c = at + Len(w)
       /\ \A j \in 1..Len(w) : text[at + j - 1] = w[j] /\ w[j] # ":" /\ w[j] # "CR"
  <2>1. CASE k = 0
    <3> DEFINE lf == <<"LF">>
               y == lf \o x
    <3>1. lf \in Text /\ Len(lf) = 1 /\ lf[1] = "LF"
      BY Constants
    <3>2. w = y /\ at = 7 /\ u = 7
      BY <1>6, <1>8, <2>1 DEF u
    <3> HIDE DEF lf
    <3>3. /\ y \in Text /\ Len(y) = Len(lf) + Len(x)
          /\ \A j \in 1..Len(lf) + Len(x) : y[j] = IF j <= Len(lf) THEN lf[j] ELSE x[j - Len(lf)]
      BY <1>5, <3>1, ConcatProperties DEF Text
    <3> HIDE DEF y
    <3>4. Len(y) = 1 + p /\ \A j \in 1..1 + p : y[j] = IF j <= 1 THEN lf[j] ELSE x[j - 1]
      BY <3>1, <3>3 DEF p
    <3>5. \A j \in 1..1 + p : text[7 + j - 1] = y[j] /\ y[j] # ":" /\ y[j] # "CR"
      <4> TAKE j \in 1..1 + p
      <4>1. CASE j = 1
        <5>1. y[1] = "LF" /\ text[7 + 1 - 1] = "LF"
          BY <1>4, <1>7, <3>1, <3>4
        <5> QED
          BY <4>1, <5>1
      <4>2. CASE j # 1
        <5>1. j - 1 \in 1..p /\ 7 + j - 1 = u + (j - 1) /\ ~(j <= 1)
          BY <1>20, <3>2, <4>2
        <5>2. y[j] = x[j - 1]
          BY <3>4, <5>1
        <5> QED
          BY <1>10, <5>1, <5>2
      <4> QED
        BY <4>1, <4>2
    <3>6. c = 7 + (1 + p)
      BY <1>20, <3>2
    <3> HIDE DEF c
    <3> QED
      BY <3>2, <3>3, <3>4, <3>5, <3>6
  <2>2. CASE k # 0
    <3>1. w = x /\ at = u + 1
      BY <1>5, <1>8, <2>2, ConcatEmptySeq DEF Text, u
    <3>2. \A j \in 1..p : at + j - 1 = u + j
      BY <1>20, <3>1
    <3>3. at \in Nat \ {0} /\ c = at + p
      BY <1>20, <3>1
    <3> HIDE DEF c
    <3>4. \A j \in 1..p : text[at + j - 1] = x[j] /\ x[j] # ":" /\ x[j] # "CR"
      BY <1>10, <3>2
    <3> QED
      BY <1>5, <3>1, <3>3, <3>4 DEF p
  <2> QED
    BY <2>1, <2>2
<1>12. e + 2 = E[k + 1] + 1
  BY <1>20
<1>13. text[at] # "CR"
  <2>1. CASE Len(w) = 0
    <3>1. c = at
      BY <1>11, <2>1
    <3> QED
      BY <1>10, <3>1
  <2>2. CASE Len(w) # 0
    <3>1. 1 \in 1..Len(w) /\ at + 1 - 1 = at
      BY <1>11, <2>2, LenProperties DEF Text
    <3> QED
      BY <1>11, <3>1
  <2> QED
    BY <2>1, <2>2
<1>14. e = c + 1 + Len(v)
  BY DEF q
<1> HIDE DEF c, e
<1>15. HeaderAt(w, v, at, c, e)
  BY <1>5, <1>10, <1>11, <1>14 DEF HeaderAt, q
<1> QED
  BY <1>12, <1>13, <1>15 DEF w, v, h, hs

-----------------------------------------------------------------------------
(* The headers that the first server reads: the invariant. *)

Ends(o) == CHOOSE E : Layout(o, E)

LEMMA EndsAreLaid ==
  ASSUME NEW o \in Origin, o.program = "browser"
  PROVE  Layout(o, Ends(o))
BY LayoutExists DEF Ends

\* The requests that HeadersAsSent is about, while the first server has them.
Watched == hop = 0 /\ origin.program = "browser" /\ WithValues(origin.headers)

ReadAs(hs) == \A i \in 1..Len(headers) : headers[i] = Expected(hs, i)

\* As long as the stream has a position it is behind the last header read.
HeaderInv ==
  /\ hop \in Nat
  /\ Watched =>
       /\ text = Wire(origin) /\ Begins
       /\ pc \in {"reading", "line"} => headers = <<>>
       /\ pc = "line" => stream = 1
       /\ (pc = "headers" /\ stream # 0) =>
            /\ Len(headers) <= Len(origin.headers)
            /\ stream = Ends(origin)[Len(headers)] + (IF Len(headers) = 0 THEN 0 ELSE 1)
            /\ ReadAs(origin.headers)
       /\ pc = "parsed" => Len(headers) = Len(origin.headers) /\ ReadAs(origin.headers)

LEMMA HeaderInit == Init => HeaderInv
<1> SUFFICES ASSUME Init PROVE HeaderInv
  OBVIOUS
<1>1. text \in Text /\ got = <<>> /\ Len(got) = 0
  BY WireText, EmptySeq DEF Init
<1>2. Begins
  BY <1>1, LenProperties DEF Begins, Text
<1> QED
  BY <1>2 DEF Init, HeaderInv

LEMMA HeaderReadSome ==
  ASSUME PathInv, HeaderInv, ReadSome
  PROVE  HeaderInv'
<1> SUFFICES ASSUME Watched PROVE HeaderInv'
  BY DEF ReadSome, HeaderInv, Watched
<1>1. CASE \E n \in 1..Len(text) : got' = SubSeq(text, 1, n) /\ stream' = 1 /\ pc' = "line"
  <2>1. PICK n \in 1..Len(text) : got' = SubSeq(text, 1, n)
    BY <1>1
  <2>2. Len(text) \in Nat /\ n \in Int /\ \A i \in 1..n : text[i] \in Lexeme
    BY LenProperties, ElementOfSeq DEF PathInv, Text
  <2> DEFINE r == SubSeq(text, 1, n)
  <2>3. Len(r) = (IF 1 <= n THEN n - 1 + 1 ELSE 0)
        /\ \A i \in 1..n - 1 + 1 : r[i] = text[1 + i - 1]
    BY <2>2, SubSeqProperties
  <2> HIDE DEF r
  <2>4. Len(r) <= Len(text) /\ \A i \in 1..Len(r) : r[i] = text[i]
    BY <2>2, <2>3
  <2>5. text' = text /\ got' = r
    BY <2>1 DEF ReadSome, r
  <2>6. Begins'
    BY <2>4, <2>5 DEF Begins
  <2> QED
    BY <1>1, <2>6 DEF ReadSome, HeaderInv, Watched
<1>2. CASE pc' = "thrown" /\ UNCHANGED <<got, stream, cut>>
  BY <1>2 DEF ReadSome, HeaderInv, Begins, Watched
<1> QED
  BY <1>1, <1>2 DEF ReadSome

\* Of the request line the loop finds the LF that is left of it.
LEMMA LineRead ==
  ASSUME ParseLine, stream = 1, Begins, got \in Text, \A j \in 1..7 : text[j] = RequestLine[j]
  PROVE  stream' = IF 6 <= Len(got) THEN 7 ELSE 0
<1>1. Len(got) \in Nat
  BY LenProperties DEF Text
<1>5. /\ text[1] = "GET" /\ text[2] = " " /\ text[3] = "/p" /\ text[4] = " "
      /\ text[5] = "HTTP/1.1" /\ text[6] = "CR"
  <2>1. /\ RequestLine[1] = "GET" /\ RequestLine[2] = " " /\ RequestLine[3] = "/p"
        /\ RequestLine[4] = " " /\ RequestLine[5] = "HTTP/1.1" /\ RequestLine[6] = "CR"
    BY DEF RequestLine
  <2>2. 1 \in 1..7 /\ 2 \in 1..7 /\ 3 \in 1..7 /\ 4 \in 1..7 /\ 5 \in 1..7 /\ 6 \in 1..7
    OBVIOUS
  <2> HIDE DEF RequestLine
  <2> QED
    BY <2>1, <2>2
<1>6. /\ text[1] \in Lexeme \ Space /\ text[3] \in Lexeme \ Space /\ text[5] \in Lexeme \ Space
      /\ text[2] \in Space /\ text[4] \in Space /\ text[6] \in Space
  BY <1>5, TextAssumption DEF Space
<1>7. Extract(1) = IF 2 <= Len(got) THEN 2 ELSE 0
  <2>1. WordIn(1, 1, 2)
    BY <1>6 DEF WordIn
  <2> QED
    BY <2>1, WordAt
<1>8. Extract(2) = IF 4 <= Len(got) THEN 4 ELSE 0
  <2>1. WordIn(2, 3, 4)
    BY <1>6 DEF WordIn
  <2> QED
    BY <2>1, WordAt
<1>9. Extract(4) = IF 6 <= Len(got) THEN 6 ELSE 0
  <2>1. WordIn(4, 5, 6)
    BY <1>6 DEF WordIn
  <2> QED
    BY <2>1, WordAt
<1>10. Extract(0) = 0 /\ Ignore(0, 1, "LF") = 0
  BY DEF Extract, SkipSpace, Find, Ignore
<1> DEFINE last == Extract(Extract(Extract(stream)))
<1>11. last = IF 6 <= Len(got) THEN 6 ELSE 0
  BY <1>1, <1>7, <1>8, <1>9, <1>10
<1>12. stream' = Ignore(last, 1, "LF")
  BY DEF ParseLine
<1> HIDE DEF last
<1>13. Ignore(6, 1, "LF") = IF 6 # 0 /\ 6 <= Len(got) THEN 6 + 1 ELSE 0
  BY IgnoreOne
<1> QED
  BY <1>1, <1>10, <1>11, <1>12, <1>13

LEMMA HeaderParseLine ==
  ASSUME PathInv, HeaderInv, ParseLine
  PROVE  HeaderInv'
<1> SUFFICES ASSUME Watched PROVE HeaderInv'
  BY DEF ParseLine, HeaderInv, Watched
<1>1. Begins /\ stream = 1 /\ headers = <<>> /\ Len(headers) = 0 /\ text = Wire(origin)
  BY EmptySeq DEF ParseLine, HeaderInv
<1>2. origin \in Origin /\ origin.program = "browser" /\ got \in Text
  BY DEF PathInv, Watched
<1>3. Len(got) \in Nat /\ Len(origin.headers) \in Nat
  BY <1>2, OriginIs, LenProperties DEF Text
<1>4. Ends(origin)[0] = 7 /\ \A j \in 1..7 : text[j] = RequestLine[j]
  BY <1>1, <1>2, EndsAreLaid DEF Layout
<1>12. headers' = headers /\ pc' = "headers" /\ UNCHANGED <<origin, text, got, hop>>
  BY DEF ParseLine
<1>13. stream' \in {0, 7}
  BY <1>1, <1>2, <1>4, LineRead
<1>14. ReadAs(origin.headers)' /\ Len(headers') = 0
  BY <1>1, <1>12 DEF ReadAs
<1>15. Begins'
  BY <1>1, <1>12 DEF Begins
<1> QED
  BY <1>1, <1>3, <1>4, <1>12, <1>13, <1>14, <1>15 DEF HeaderInv, Watched

\* Where the loop is, if the stream has a position: at the next header, or
\* behind all of them, where the text has a CR.
LEMMA LoopAt ==
  ASSUME PathInv, HeaderInv, Watched, pc = "headers", stream # 0, NEW k, k = Len(headers)
  PROVE  LET hs == origin.headers
         IN  /\ k \in Nat /\ k <= Len(hs) /\ ReadAs(hs) /\ text = Wire(origin) /\ Begins
             /\ Layout(origin, Ends(origin))
             /\ stream = Ends(origin)[k] + (IF k = 0 THEN 0 ELSE 1)
             /\ stream \in Nat \ {0} /\ stream <= Len(got) + 1
             /\ k = Len(hs) => text[stream] = "CR"
             /\ k < Len(hs) => text[stream] # "CR"
<1> DEFINE hs == origin.headers
           E == Ends(origin)
<1>1. origin \in Origin /\ origin.program = "browser" /\ got \in Text
      /\ headers \in Seq(Readable) /\ stream \in 0..Len(got) + 1
  BY DEF PathInv, Watched
<1>2. k \in Nat /\ Len(hs) \in Nat /\ Len(got) \in Nat
  BY <1>1, OriginIs, LenProperties DEF Text
<1>3. k <= Len(hs) /\ ReadAs(hs) /\ text = Wire(origin) /\ Begins
      /\ stream = E[k] + (IF k = 0 THEN 0 ELSE 1)
  BY DEF HeaderInv
<1>4. Layout(origin, E)
  BY <1>1, EndsAreLaid
<1>5. hs # <<>>
  BY DEF Watched, WithValues
<1>6. Len(hs) # 0
  BY <1>1, <1>5, OriginIs, EmptySeq
<1>7. text[E[Len(hs)] + 1] = "CR"
  BY <1>3, <1>4 DEF Layout
<1> HIDE DEF E, hs
<1>8. k = Len(hs) => text[stream] = "CR"
  BY <1>2, <1>3, <1>6, <1>7
<1>9. k < Len(hs) => text[stream] # "CR"
  BY <1>1, <1>2, <1>3, <1>4, NextHeader DEF hs
<1>10. stream \in Nat \ {0} /\ stream <= Len(got) + 1
  BY <1>1, <1>2
<1> QED
  BY <1>2, <1>3, <1>4, <1>8, <1>9, <1>10 DEF hs, E

LEMMA HeaderParseHeader ==
  ASSUME PathInv, HeaderInv, ParseHeader
  PROVE  HeaderInv'
<1> SUFFICES ASSUME Watched PROVE HeaderInv'
  BY DEF ParseHeader, HeaderInv, Watched
<1>0. /\ UNCHANGED <<origin, text, got, hop>> /\ pc = "headers" /\ ~AtCarriageReturn(stream)
      /\ hop \in Nat /\ text = Wire(origin) /\ Begins
  BY DEF ParseHeader, HeaderInv
<1>1. Begins' /\ Watched'
  BY <1>0 DEF Begins, Watched
<1>2. CASE pc' \in {"thrown", "exhausted"}
  BY <1>0, <1>1, <1>2 DEF HeaderInv
<1>3. CASE pc' = pc
  <2> DEFINE hs == origin.headers
             b == AfterName(stream)
             h == [first |-> Line(stream, ":"), second |-> Line(b, "CR")]
             k == Len(headers)
  <2>1. headers' = Append(headers, h) /\ stream' = AfterValue(b)
    BY <1>0, <1>3 DEF ParseHeader, push_back
  <2>2. CASE stream' = 0
    BY <1>0, <1>1, <1>3, <2>2 DEF HeaderInv
  <2>3. CASE stream' # 0
    <3>0. AfterValue(b) # 0
      BY <2>1, <2>3
    <3>1. stream # 0
      BY <3>0 DEF AfterValue, AfterName, GetLine, Find, Ignore
    <3>2. /\ k \in Nat /\ k <= Len(hs) /\ ReadAs(hs)
          /\ Layout(origin, Ends(origin))
          /\ stream = Ends(origin)[k] + (IF k = 0 THEN 0 ELSE 1)
          /\ stream \in Nat \ {0} /\ stream <= Len(got) + 1
          /\ k = Len(hs) => text[stream] = "CR"
      BY <1>0, <3>1, LoopAt
    <3>3. origin \in Origin /\ got \in Text /\ headers \in Seq(Readable)
          /\ origin.program = "browser" /\ Len(got) \in Nat
      BY LenProperties DEF PathInv, Watched, Text
    <3>4. k # Len(hs)
      <4> SUFFICES ASSUME text[stream] = "CR" PROVE FALSE
        BY <3>2
      <4>1. ~(stream \in 1..Len(got))
        BY <1>0 DEF AtCarriageReturn, Begins
      <4>2. stream > Len(got)
        BY <3>2, <3>3, <4>1
      <4>3. Find(stream, {":"}) = 0
        <5>1. stream \in Nat /\ got \in Seq(Lexeme)
          BY <3>2, <3>3 DEF Text
        <5>2. Find(stream, {":"}) # 0 => Find(stream, {":"}) \in stream..Len(got)
          BY <5>1, FindIs
        <5> QED
          BY <3>2, <3>3, <4>2, <5>2
      <4> QED
        BY <3>0, <4>3 DEF AfterValue, AfterName, GetLine, Find, Ignore
    <3>5. Len(hs) \in Nat
      BY <3>3, OriginIs, LenProperties
    <3> HIDE DEF k
    <3>6. k < Len(hs) /\ k + 1 \in 1..Len(hs)
      BY <3>2, <3>4, <3>5
    <3> DEFINE w == Expected(hs, k + 1).first
               v == hs[k + 1].value
    <3>7. PICK c, e : HeaderAt(w, v, stream, c, e) /\ e + 2 = Ends(origin)[k + 1] + 1
      BY <1>0, <3>2, <3>3, <3>6, NextHeader
    <3>8. v # <<>>
      BY <3>6 DEF Watched, WithValues
    <3> HIDE DEF w, v, b
    <3>9. Line(stream, ":") = w /\ Line(b, "CR") = Tail(v) /\ AfterValue(b) = e + 2
      BY <1>0, <3>0, <3>3, <3>7, <3>8, PassReads DEF b
    <3>10. h = Expected(hs, k + 1)
      BY <3>9 DEF Expected, w, v
    <3>11. stream' = Ends(origin)[k + 1] + 1
      BY <2>1, <3>7, <3>9
    <3> HIDE DEF h
    <3>12. /\ h \in Readable /\ headers' \in Seq(Readable)
           /\ Len(headers') = k + 1
           /\ \A i \in 1..k : headers'[i] = headers[i]
           /\ headers'[k + 1] = h
      <4>1. h \in Readable
        <5>1. stream \in Nat /\ got \in Seq(Lexeme)
          BY <3>2, <3>3 DEF Text
        <5>2. Line(stream, ":") \in Text
          BY <5>1, LineIs DEF Text
        <5>3. v \in Text /\ v # <<>>
          BY <3>7, <3>8 DEF HeaderAt
        <5>4. Tail(v) \in Text
          BY <5>3, HeadTailProperties DEF Text
        <5> QED
          BY <3>9, <5>2, <5>4 DEF h, Readable
      <4>2. /\ Append(headers, h) \in Seq(Readable)
            /\ Len(Append(headers, h)) = Len(headers) + 1
            /\ \A i \in 1..Len(headers) : Append(headers, h)[i] = headers[i]
            /\ Append(headers, h)[Len(headers) + 1] = h
        BY <3>3, <4>1, AppendProperties
      <4> QED
        BY <2>1, <4>1, <4>2 DEF k
    <3>13. \A i \in 1..k + 1 : headers'[i] = Expected(hs, i)
      <4> TAKE i \in 1..k + 1
      <4>1. CASE i = k + 1
        BY <3>10, <3>12, <4>1
      <4>2. CASE i # k + 1
        <5>1. i \in 1..k
          BY <3>2, <4>2
        <5> QED
          BY <3>2, <3>12, <5>1 DEF ReadAs, k
      <4> QED
        BY <4>1, <4>2
    <3>14. ReadAs(origin.headers)'
      BY <1>0, <3>12, <3>13 DEF ReadAs, hs
    <3>15. k + 1 # 0 /\ k + 1 <= Len(hs)
      BY <3>2, <3>6
    <3>16. Ends(origin)' = Ends(origin) /\ (origin.headers)' = hs /\ Wire(origin)' = Wire(origin)
      BY <1>0
    <3> HIDE DEF hs
    <3>17. /\ Len(headers)' <= Len(origin.headers)'
           /\ stream' = Ends(origin)'[Len(headers)'] + (IF Len(headers)' = 0 THEN 0 ELSE 1)
      BY <3>11, <3>12, <3>15, <3>16
    <3> QED
      BY <1>0, <1>1, <1>3, <3>14, <3>17 DEF HeaderInv
  <2> QED
    BY <2>2, <2>3
<1> QED
  BY <1>2, <1>3 DEF ParseHeader

LEMMA HeaderParseBody ==
  ASSUME PathInv, HeaderInv, ParseBody
  PROVE  HeaderInv'
<1> SUFFICES ASSUME Watched PROVE HeaderInv'
  BY DEF ParseBody, HeaderInv, Watched
<1>0. /\ UNCHANGED <<origin, text, got, hop, headers>> /\ pc = "headers"
      /\ AtCarriageReturn(stream) /\ pc' \in {"thrown", "parsed"}
      /\ hop \in Nat /\ text = Wire(origin) /\ Begins
  BY DEF ParseBody, HeaderInv
<1>1. Begins' /\ Watched'
  BY <1>0 DEF Begins, Watched
<1>2. stream # 0 /\ stream \in 1..Len(got) /\ text[stream] = "CR"
  BY <1>0 DEF AtCarriageReturn, Begins
<1> DEFINE k == Len(headers)
           n == Len(origin.headers)
<1>3. /\ k \in Nat /\ k <= n /\ ReadAs(origin.headers)
      /\ k < n => text[stream] # "CR"
  BY <1>0, <1>2, LoopAt
<1>4. n \in Nat
  BY OriginIs, LenProperties DEF PathInv, Watched
<1>5. k = n
  BY <1>2, <1>3, <1>4
<1>6. ReadAs(origin.headers)' /\ Len(headers)' = Len(origin.headers)'
  BY <1>0, <1>3, <1>5 DEF ReadAs
<1> QED
  BY <1>0, <1>1, <1>6 DEF HeaderInv

LEMMA HeaderStep ==
  ASSUME PathInv, HeaderInv, [Next]_vars
  PROVE  HeaderInv'
<1>1. CASE Forward
  BY <1>1 DEF Forward, HeaderInv, Watched
<1>2. CASE Answer
  BY <1>2 DEF Answer, HeaderInv, Watched, Begins, ReadAs
<1>3. CASE Read
  BY <1>3 DEF Read, HeaderInv, Watched, Begins, ReadAs
<1>4. CASE UNCHANGED vars
  BY <1>4 DEF vars, HeaderInv, Watched, Begins, ReadAs
<1> QED
  BY <1>1, <1>2, <1>3, <1>4, HeaderReadSome, HeaderParseLine, HeaderParseHeader,
     HeaderParseBody DEF Next, Session

\* A handler of the first server gets every header that was sent: whatever the
\* headers and the body are, and wherever the text was cut.
THEOREM SentHeadersCorrect == Spec => []HeadersAsSent
<1>1. ASSUME PathInv, HeaderInv PROVE HeadersAsSent
  <2> SUFFICES ASSUME pc = "parsed", Watched
               PROVE  headers = [i \in 1..Len(origin.headers) |-> Expected(origin.headers, i)]
    BY DEF HeadersAsSent, Watched, Expected
  <2>1. Len(headers) = Len(origin.headers)
        /\ \A i \in 1..Len(headers) : headers[i] = Expected(origin.headers, i)
    BY <1>1 DEF HeaderInv, ReadAs
  <2>2. headers \in [1..Len(headers) -> Readable]
    BY <1>1, LenProperties DEF PathInv
  <2> QED
    BY <2>1, <2>2
<1> QED
  BY <1>1, PathInit, PathStep, HeaderInit, HeaderStep, PTL DEF Spec
=============================================================================
