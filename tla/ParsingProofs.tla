----------------------------- MODULE ParsingProofs -----------------------------
(***************************************************************************)
(* Proofs, for every set of connections and messages and every limit, of   *)
(* what Server::parseRequest makes of what has arrived: whole heads with   *)
(* their headers in order and what followed them as the body, or a loop    *)
(* that fills the heap.                                                    *)
(***************************************************************************)
EXTENDS ServiceProofs

\* The items there are to extract: the LF that the request line leaves, then
\* all that follows it.
At(m, i) == IF i = 1 THEN "LF" ELSE Items(m)[i]

\* How many of them are extracted, and that the rest is there as it was read.
Extracted(c) == ReadCount(c) - Len(stream[c])
Unread(c) ==
  /\ Len(stream[c]) <= ReadCount(c)
  /\ \A i \in 1..Len(stream[c]) : stream[c][i] = At(message[c], Extracted(c) + i)

\* The headers extracted so far are the first ones sent.
FirstHeaders(c) ==
  LET hs == message[c].headers
  IN  hs # <<>> =>
        /\ Len(headers[c]) <= Len(hs)
        /\ \A i \in 1..Len(headers[c]) :
             /\ headers[c][i][Len(headers[c][i])] = hs[i]
             /\ i > 1 => hs[i] # "Content-Length"

\* The next item to extract is the first, or follows one with a colon: of the
\* headers, where there are some, the last that was taken.
AtBoundary(c) ==
  LET k == Len(headers[c])
  IN  /\ Extracted(c) # 0 => HasColon(At(message[c], Extracted(c)))
      /\ message[c].headers # <<>> => Extracted(c) = IF k = 0 THEN 0 ELSE k + 1

\* What a handler is given of the body.
BodyArrived(c) ==
  message[c].headers # <<>> =>
    LET first == Len(message[c].headers) + 2
    IN  \A i \in 1..Len(body[c]) :
          body[c][i] = IF first + i <= ReadCount(c)
                       THEN Items(message[c])[first + i] ELSE "NUL"

\* What a request that left the parser has become.
GotAll(c) ==
  /\ HeadArrived(c) /\ FirstHeaders(c) /\ BodyArrived(c)
  /\ message[c].headers # <<>> => Len(headers[c]) = Len(message[c].headers)
  /\ Len(headers[c]) <= Len(Items(message[c])) /\ Len(body[c]) \in Garbage

\* While it parses, a session either has extracted some items and has the rest
\* left, or has nothing left and loops.
Parsed(c) ==
  /\ pc[c] \notin Running \ {"reading"} => headers[c] = <<>> /\ body[c] = <<>>
  /\ pc[c] = "parsing" => body[c] = <<>>
  /\ pc[c] = "parsing" /\ stream[c] # <<>> =>
       /\ sent[c] > 0 /\ Unread(c) /\ FirstHeaders(c) /\ AtBoundary(c)
       /\ Len(headers[c]) <= Extracted(c)
  /\ Handled(c) => GotAll(c)
  /\ Answered(c) => HeadArrived(c)

-----------------------------------------------------------------------------
(***************************************************************************)
(* The items of a message.                                                 *)
(***************************************************************************)

\* The elements of a concatenation.
LEMMA ConcatAt ==
  ASSUME NEW S, NEW s \in Seq(S), NEW t \in Seq(S)
  PROVE  /\ s \o t \in Seq(S) /\ Len(s \o t) = Len(s) + Len(t)
         /\ \A i \in 1..Len(s) : (s \o t)[i] = s[i]
         /\ \A i \in 1..Len(t) : (s \o t)[Len(s) + i] = t[i]
<1> DEFINE m == Len(s)
           n == Len(t)
           st == s \o t
<1>1. m \in Nat /\ n \in Nat
  BY LenProperties
<1>2. /\ st \in Seq(S) /\ Len(st) = m + n
      /\ \A i \in 1..m + n : st[i] = IF i <= m THEN s[i] ELSE t[i - m]
  BY ConcatProperties
<1> HIDE DEF m, n, st
<1>3. \A i \in 1..m : st[i] = s[i]
  <2> TAKE i \in 1..m
  <2>1. i \in 1..m + n /\ i <= m
    BY <1>1
  <2> QED
    BY <1>2, <2>1
<1>4. \A i \in 1..n : st[m + i] = t[i]
  <2> TAKE i \in 1..n
  <2> DEFINE j == m + i
  <2>1. j \in 1..m + n /\ ~(j <= m) /\ j - m = i
    BY <1>1
  <2> HIDE DEF j
  <2>2. st[j] = t[j - m]
    BY <1>2, <2>1
  <2> QED
    BY <2>1, <2>2 DEF j
<1> QED
  BY <1>2, <1>3, <1>4 DEF m, n, st

\* The request line, the headers, and the empty line that ends them.
LEMMA ItemAt ==
  ASSUME NEW m \in Message
  PROVE  LET hs == m.headers
         IN  /\ \A i \in 1..Len(hs) : Items(m)[i + 1] = hs[i]
             /\ Items(m)[Len(hs) + 2] = "CRLF"
<1> DEFINE hs == m.headers
           bytes == m.body
           k == Len(hs)
           line == <<"request-line">>
           upTo == line \o hs
           empty == <<"CRLF">>
           before == upTo \o empty
           items == before \o bytes
<1>1. hs \in Seq(Text) /\ k \in Nat /\ bytes \in Seq(Text)
  BY MessageFields
<1>2. line \in Seq(Text) /\ Len(line) = 1 /\ empty \in Seq(Text) /\ Len(empty) = 1
      /\ empty[1] = "CRLF"
  BY Literals, OneElement
<1> HIDE DEF line, empty
<1>3. /\ upTo \in Seq(Text) /\ Len(upTo) = Len(line) + Len(hs)
      /\ \A i \in 1..Len(hs) : upTo[Len(line) + i] = hs[i]
  BY <1>1, <1>2, ConcatAt
<1>4. Len(upTo) = 1 + k /\ \A i \in 1..k : upTo[1 + i] = hs[i]
  BY <1>2, <1>3
<1> HIDE DEF upTo
<1>5. /\ before \in Seq(Text) /\ Len(before) = Len(upTo) + Len(empty)
      /\ \A i \in 1..Len(upTo) : before[i] = upTo[i]
      /\ \A i \in 1..Len(empty) : before[Len(upTo) + i] = empty[i]
  <2>1. upTo \in Seq(Text) /\ empty \in Seq(Text)
    BY <1>2, <1>3
  <2> QED
    BY <2>1, ConcatAt
<1>6. 1 \in 1..Len(empty)
  BY <1>2
<1>7. /\ Len(before) = k + 2 /\ before[k + 2] = "CRLF"
      /\ \A i \in 1..1 + k : before[i] = upTo[i]
  <2>1. before[Len(upTo) + 1] = "CRLF"
    BY <1>2, <1>5, <1>6
  <2> HIDE DEF before, k
  <2>2. 1 + k + 1 = k + 2
    BY <1>1
  <2> QED
    BY <1>2, <1>4, <1>5, <2>1, <2>2
<1> HIDE DEF before
<1>8. \A i \in 1..Len(before) : items[i] = before[i]
  BY <1>1, <1>5, ConcatAt
<1> HIDE DEF items, k
<1>9. \A i \in 1..k : items[i + 1] = hs[i]
  <2> TAKE i \in 1..k
  <2>1. i + 1 \in 1..k + 2 /\ i + 1 \in 1..1 + k /\ i + 1 = 1 + i
    BY <1>1
  <2> QED
    BY <1>4, <1>7, <1>8, <2>1
<1>10. items[k + 2] = "CRLF"
  <2>1. k + 2 \in 1..k + 2
    BY <1>1
  <2> QED
    BY <1>7, <1>8, <2>1
<1>11. items = Items(m)
  BY DEF items, before, upTo, line, empty, Items
<1> QED
  BY <1>9, <1>10, <1>11 DEF k

\* A header has a colon, the ends of lines have none.
LEMMA HeaderHasColon ==
  /\ \A m \in Message : \A i \in 1..Len(m.headers) :
       m.headers[i] \in Text /\ HasColon(m.headers[i])
  /\ ~HasColon("LF") /\ ~HasColon("CRLF")
<1>1. ASSUME NEW m \in Message, NEW i \in 1..Len(m.headers)
      PROVE  m.headers[i] \in Text \ Colonless
  <2>1. m.headers \in Seq(Text \ Colonless)
    BY MessageAssumption
  <2> QED
    BY <2>1, ElementOfSeq
<1> QED
  BY <1>1, MessageAssumption DEF HasColon

\* What there is to extract of a message, after its LF: its headers, the empty
\* line, and the body.
LEMMA ToExtract ==
  ASSUME NEW m \in Message
  PROVE  LET len == Len(m.headers)
         IN  /\ At(m, 1) = "LF"
             /\ \A k \in 0..(len - 1) : At(m, k + 2) = m.headers[k + 1]
             /\ At(m, len + 2) = "CRLF"
             /\ \A i \in Nat : i # 1 => At(m, i) = Items(m)[i]
<1> DEFINE len == Len(m.headers)
<1>1. len \in Nat
  BY MessageFields
<1>2. /\ \A i \in 1..len : Items(m)[i + 1] = m.headers[i]
      /\ Items(m)[len + 2] = "CRLF"
  BY ItemAt
<1> HIDE DEF len
<1>3. ASSUME NEW k \in 0..(len - 1) PROVE At(m, k + 2) = m.headers[k + 1]
  <2>1. k + 1 \in 1..len /\ k + 1 + 1 = k + 2 /\ k + 2 # 1
    BY <1>1
  <2>2. Items(m)[k + 1 + 1] = m.headers[k + 1]
    BY <1>2, <2>1
  <2> QED
    BY <2>1, <2>2 DEF At
<1>4. len + 2 # 1
  BY <1>1
<1> QED
  BY <1>2, <1>3, <1>4 DEF At, len

\* How many items have arrived.
LEMMA ArrivedRange ==
  ASSUME TypeOK, NEW c \in Conn, sent[c] > 0
  PROVE  /\ ReadCount(c) \in 1..Len(Items(message[c]))
         /\ ReadCount(c) \in Nat /\ Len(Items(message[c])) \in Nat
<1> DEFINE len == Len(Items(message[c]))
<1>1. /\ sent[c] \in Nat /\ sent[c] <= len /\ message[c] \in Message
  BY DEF TypeOK
<1>2. len \in Nat
  BY <1>1, ItemsType
<1>3. MaxLength \in Nat \ {0}
  BY BoundAssumption
<1> HIDE DEF len
<1>4. ReadCount(c) \in 1..len
  BY <1>1, <1>2, <1>3 DEF ReadCount
<1> QED
  BY <1>2, <1>4 DEF len

-----------------------------------------------------------------------------
(***************************************************************************)
(* The steps of parseRequest.                                              *)
(***************************************************************************)

\* session reads: what it has to extract is what arrived, and no header yet.
LEMMA ReadKeeps ==
  ASSUME TypeOK, NEW c \in Conn, Parsed(c), pc[c] = "reading", sent[c] > 0,
         LET n == IF sent[c] < MaxLength THEN sent[c] ELSE MaxLength
         IN  stream' = [stream EXCEPT
                          ![c] = <<"LF">> \o SubSeq(Items(message[c]), 2, n)],
         Goto(c, "parsing"), UNCHANGED <<headers, body, message, sent, response>>
  PROVE  Parsed(c)'
<1> DEFINE items == Items(message[c])
           n == ReadCount(c)
           left == SubSeq(items, 2, n)
<1>1. pc'[c] = "parsing" /\ headers'[c] = <<>> /\ body'[c] = <<>>
  BY DEF Goto, TypeOK, Parsed, Running
<1>2. stream'[c] = <<"LF">> \o left
  BY DEF TypeOK, ReadCount
<1>3. n \in 1..Len(items) /\ n \in Nat /\ Len(items) \in Nat
  BY ArrivedRange
<1>4. items \in Seq(Text)
  BY ItemsType DEF TypeOK
<1> HIDE DEF n, items
<1>5. \A i \in 2..n : items[i] \in Text
  <2> TAKE i \in 2..n
  <2>1. i \in 1..Len(items)
    BY <1>3
  <2> QED
    BY <1>4, <2>1, ElementOfSeq
<1>6. /\ left \in Seq(Text) /\ Len(left) = n - 1
      /\ \A i \in 1..(n - 1) : left[i] = items[i + 1]
  <2>1. /\ left \in Seq(Text)
        /\ Len(left) = IF 2 <= n THEN n - 2 + 1 ELSE 0
        /\ \A i \in 1..n - 2 + 1 : left[i] = items[2 + i - 1]
    BY <1>3, <1>5, SubSeqProperties
  <2> HIDE DEF left
  <2>2. Len(left) = n - 1
    BY <1>3, <2>1
  <2>3. ASSUME NEW i \in 1..(n - 1) PROVE left[i] = items[i + 1]
    <3>1. i \in 1..n - 2 + 1 /\ 2 + i - 1 = i + 1
      BY <1>3
    <3> QED
      BY <2>1, <3>1
  <2> QED
    BY <2>1, <2>2, <2>3
<1>7. <<"LF">> \in Seq(Text) /\ Len(<<"LF">>) = 1 /\ <<"LF">>[1] = "LF"
  <2>1. <<"LF">>[1] = "LF"
    OBVIOUS
  <2> QED
    BY <2>1, Literals, OneElement
<1> DEFINE st == <<"LF">> \o left
<1>8. /\ Len(st) = n /\ st[1] = "LF"
      /\ \A i \in 1..(n - 1) : st[1 + i] = left[i]
  <2>1. /\ Len(st) = Len(<<"LF">>) + Len(left)
        /\ \A i \in 1..Len(<<"LF">>) : st[i] = <<"LF">>[i]
        /\ \A i \in 1..Len(left) : st[Len(<<"LF">>) + i] = left[i]
    BY <1>6, <1>7, ConcatAt
  <2> HIDE DEF st, left
  <2> QED
    BY <1>3, <1>6, <1>7, <2>1
<1> HIDE DEF st, left
<1>9. ASSUME NEW i \in 1..n PROVE st[i] = At(message[c], i)
  <2>1. CASE i = 1
    BY <1>8, <2>1 DEF At
  <2>2. CASE i # 1
    <3> DEFINE j == i - 1
    <3>1. j \in 1..(n - 1) /\ i = 1 + j /\ j + 1 = i
      BY <1>3, <2>2
    <3> HIDE DEF j
    <3>2. st[i] = items[i]
      BY <1>6, <1>8, <3>1
    <3> QED
      BY <2>2, <3>2 DEF At, items
  <2> QED
    BY <2>1, <2>2
<1>10. ReadCount(c)' = n /\ stream'[c] = st /\ message' = message
  BY <1>2 DEF ReadCount, n, st
<1>11. Extracted(c)' = 0
  <2>1. Extracted(c)' = ReadCount(c)' - Len(stream'[c])
    BY DEF Extracted
  <2>2. n - n = 0
    BY <1>3
  <2> QED
    BY <1>8, <1>10, <2>1, <2>2
<1>12. Unread(c)'
  <2>1. \A i \in 1..n : 0 + i = i
    BY <1>3
  <2>2. Unread(c)' <=>
          /\ Len(stream'[c]) <= ReadCount(c)'
          /\ \A i \in 1..Len(stream'[c]) :
               stream'[c][i] = At(message[c], Extracted(c)' + i)
    BY <1>10 DEF Unread, At, Items
  <2>3. n <= n
    BY <1>3
  <2>4. ASSUME NEW i \in 1..n PROVE st[i] = At(message[c], 0 + i)
    BY <1>9, <2>1
  <2> QED
    BY <1>8, <1>10, <1>11, <2>2, <2>3, <2>4
<1>13. Len(headers'[c]) = 0
  BY <1>1
<1>14. AtBoundary(c)'
  BY <1>11, <1>13 DEF AtBoundary
<1>15. FirstHeaders(c)'
  <2>1. Len(message[c].headers) \in Nat
    BY MessageFields DEF TypeOK
  <2> QED
    BY <1>10, <1>13, <2>1 DEF FirstHeaders
<1> QED
  BY <1>1, <1>11, <1>12, <1>13, <1>14, <1>15 DEF Parsed, Handled, Running, Answered

\* What a session that has something left to extract knows of it.
LEMMA LeftToExtract ==
  ASSUME TypeOK, NEW c \in Conn, Parsed(c), pc[c] = "parsing", stream[c] # <<>>
  PROVE  /\ ReadCount(c) \in Nat /\ ReadCount(c) <= Len(Items(message[c]))
         /\ Len(Items(message[c])) \in Nat
         /\ Len(stream[c]) \in 1..ReadCount(c) /\ Len(stream[c]) \in Nat
         /\ Extracted(c) \in Nat /\ Extracted(c) + Len(stream[c]) = ReadCount(c)
         /\ Len(headers[c]) \in Nat /\ Len(headers[c]) <= Extracted(c)
         /\ stream[c][1] = At(message[c], Extracted(c) + 1)
<1> DEFINE n == ReadCount(c)
           len == Len(stream[c])
<1>1. /\ n \in 1..Len(Items(message[c])) /\ n \in Nat
      /\ Len(Items(message[c])) \in Nat
  BY ArrivedRange DEF Parsed
<1>2. len \in Nat /\ len # 0 /\ len <= n
  BY LenProperties, EmptySeq DEF TypeOK, Parsed, Unread
<1>3. Extracted(c) = n - len
  BY DEF Extracted
<1> HIDE DEF n, len
<1>4. 1 \in 1..len
  BY <1>2
<1>5. stream[c][1] = At(message[c], Extracted(c) + 1)
  BY <1>4 DEF Parsed, Unread, len
<1>6. Len(headers[c]) \in Nat /\ Len(headers[c]) <= Extracted(c)
  BY LenProperties DEF TypeOK, Parsed
<1>7. /\ n \in Nat /\ n <= Len(Items(message[c])) /\ len \in 1..n /\ len \in Nat
      /\ Extracted(c) \in Nat /\ Extracted(c) + len = n
  BY <1>1, <1>2, <1>3
<1> QED
  BY <1>1, <1>5, <1>6, <1>7 DEF n, len

\* Which header comes next, where there are some: the first after the LF, or
\* the one after the last taken.
LEMMA NextHeader ==
  ASSUME TypeOK, NEW c \in Conn, Parsed(c), pc[c] = "parsing", stream[c] # <<>>,
         ~AtCarriageReturn(stream[c]), message[c].headers # <<>>,
         Passed(stream[c]) < Len(stream[c])
  PROVE  LET k == Len(headers[c])
             name == SubSeq(stream[c], 1, Passed(stream[c]))
         IN  /\ k + 1 \in 1..Len(message[c].headers)
             /\ Passed(stream[c]) = IF k = 0 THEN 2 ELSE 1
             /\ name[Len(name)] = message[c].headers[k + 1]
             /\ k # 0 => name = <<message[c].headers[k + 1]>>
<1> DEFINE st == stream[c]
           m == message[c]
           hs == m.headers
           len == Len(hs)
           k == Len(headers[c])
           p == Extracted(c)
           q == Passed(st)
           name == SubSeq(st, 1, q)
<1>1. m \in Message /\ hs \in Seq(Text) /\ len \in Nat /\ st \in Seq(Text)
  BY MessageFields DEF TypeOK
<1>2. len # 0
  BY <1>1, EmptySeq
<1>3. /\ k \in Nat /\ k <= len /\ p = IF k = 0 THEN 0 ELSE k + 1
  BY LenProperties DEF TypeOK, Parsed, FirstHeaders, AtBoundary
<1>4. \A i \in 1..Len(st) : st[i] = At(m, p + i)
  BY DEF Parsed, Unread
<1>5. /\ q \in 1..Len(st) /\ q \in Nat /\ Len(st) \in Nat /\ q < Len(st)
      /\ HasColon(st[q]) /\ \A i \in 1..(q - 1) : ~HasColon(st[i])
  BY <1>1, PassedIsFirst
<1>6. Head(st) = st[1] /\ Head(st) # "CRLF"
  BY <1>1 DEF AtCarriageReturn
<1>7. /\ At(m, 1) = "LF" /\ At(m, len + 2) = "CRLF"
      /\ \A i \in 0..(len - 1) : At(m, i + 2) = hs[i + 1] /\ HasColon(hs[i + 1])
  <2>1. \A i \in 0..(len - 1) : i + 1 \in 1..len
    <3> HIDE DEF len
    <3> QED
      BY <1>1
  <2> QED
    BY <1>1, <2>1, ToExtract, HeaderHasColon
<1>8. ~HasColon("LF")
  BY HeaderHasColon
<1>9. /\ name \in Seq(Text) /\ Len(name) = q /\ \A i \in 1..q : name[i] = st[i]
  <2>1. \A i \in 1..q : st[i] \in Text
    <3> HIDE DEF q, st
    <3>1. \A i \in 1..q : i \in 1..Len(st)
      BY <1>5
    <3> QED
      BY <1>1, <3>1, ElementOfSeq
  <2> HIDE DEF q, st
  <2>2. /\ SubSeq(st, 1, q) \in Seq(Text)
        /\ Len(SubSeq(st, 1, q)) = IF 1 <= q THEN q - 1 + 1 ELSE 0
        /\ \A i \in 1..q - 1 + 1 : SubSeq(st, 1, q)[i] = st[1 + i - 1]
    BY <1>5, <2>1, SubSeqProperties
  <2> HIDE DEF name
  <2>3. q - 1 + 1 = q /\ 1 <= q /\ \A i \in 1..q : 1 + i - 1 = i
    BY <1>5
  <2> QED
    BY <2>2, <2>3 DEF name
<1> HIDE DEF st, m, hs, len, k, p, q, name
<1>10. CASE k = 0
  <2>1. p = 0 /\ 2 \in 1..Len(st) /\ 1 \in 1..Len(st)
    BY <1>3, <1>5, <1>10
  <2>2. st[1] = "LF"
    <3>1. p + 1 = 1
      BY <2>1
    <3> QED
      BY <1>4, <1>7, <2>1, <3>1
  <2>3. 0 \in 0..(len - 1)
    BY <1>1, <1>2
  <2>4. st[2] = hs[1] /\ HasColon(st[2])
    <3>1. p + 2 = 0 + 2 /\ 0 + 1 = 1
      BY <2>1
    <3>2. At(m, 0 + 2) = hs[0 + 1] /\ HasColon(hs[0 + 1])
      BY <1>7, <2>3
    <3>3. st[2] = At(m, p + 2)
      BY <1>4, <2>1
    <3> QED
      BY <3>1, <3>2, <3>3
  <2>5. q # 1
    BY <1>5, <1>8, <2>2
  <2>6. ~(q > 2)
    <3>1. q > 2 => 2 \in 1..(q - 1)
      BY <1>5
    <3> QED
      BY <1>5, <2>4, <3>1
  <2>7. q = 2
    BY <1>5, <2>5, <2>6
  <2>8. name[Len(name)] = hs[1]
    BY <1>9, <2>4, <2>7
  <2>9. k + 1 = 1 /\ k + 1 \in 1..len
    BY <1>1, <1>2, <1>10
  <2> QED
    BY <1>10, <2>7, <2>8, <2>9 DEF st, m, hs, len, k, q, name
<1>11. CASE k # 0
  <2>1. p = k + 1 /\ 1 \in 1..Len(st) /\ p + 1 = k + 2
    BY <1>3, <1>5, <1>11
  <2>2. st[1] = At(m, k + 2)
    BY <1>4, <2>1
  <2>3. k # len
    BY <1>6, <1>7, <2>2
  <2>4. k \in 0..(len - 1) /\ k + 1 \in 1..len
    BY <1>1, <1>3, <2>3
  <2>5. st[1] = hs[k + 1] /\ HasColon(st[1])
    BY <1>7, <2>2, <2>4
  <2>6. q = 1
    <3>1. q > 1 => 1 \in 1..(q - 1)
      BY <1>5
    <3> QED
      BY <1>5, <2>5, <3>1
  <2>7. Len(name) = 1 /\ name[1] = hs[k + 1]
    BY <1>9, <2>5, <2>6
  <2>8. name = <<hs[k + 1]>>
    <3>1. <<hs[k + 1]>> \in Seq(Text) /\ Len(<<hs[k + 1]>>) = 1
      BY <1>1, <2>4, ElementOfSeq DEF len
    <3>2. \A i \in 1..1 : name[i] = <<hs[k + 1]>>[i]
      BY <2>7
    <3> QED
      BY <1>9, <2>7, <3>1, <3>2, SeqEqual
  <2>9. name[Len(name)] = hs[k + 1]
    BY <2>7
  <2> QED
    BY <1>11, <2>4, <2>6, <2>8, <2>9 DEF st, m, hs, len, k, q, name
<1> QED
  BY <1>10, <1>11

\* What a pass leaves of the stream.
LEMMA RestOf ==
  ASSUME NEW st \in Seq(Text), NEW q \in 0..Len(st)
  PROVE  /\ Rest(st, q) \in Seq(Text) /\ Len(Rest(st, q)) = Len(st) - q
         /\ \A i \in 1..(Len(st) - q) : Rest(st, q)[i] = st[q + i]
<1> DEFINE n == Len(st)
           rest == SubSeq(st, q + 1, n)
<1>1. n \in Nat /\ q \in Nat /\ q <= n
  BY LenProperties
<1>2. \A i \in q + 1..n : st[i] \in Text
  <2>1. \A i \in q + 1..n : i \in 1..n
    <3> HIDE DEF n
    <3> QED
      BY <1>1
  <2> QED
    BY <2>1, ElementOfSeq
<1> HIDE DEF n
<1>3. /\ rest \in Seq(Text)
      /\ Len(rest) = IF q + 1 <= n THEN n - (q + 1) + 1 ELSE 0
      /\ \A i \in 1..n - (q + 1) + 1 : rest[i] = st[q + 1 + i - 1]
  BY <1>1, <1>2, SubSeqProperties
<1> HIDE DEF rest
<1>4. Len(rest) = n - q
  BY <1>1, <1>3
<1>5. ASSUME NEW i \in 1..(n - q) PROVE rest[i] = st[q + i]
  <2>1. i \in 1..n - (q + 1) + 1 /\ q + 1 + i - 1 = q + i
    BY <1>1
  <2> QED
    BY <1>3, <2>1
<1> QED
  BY <1>3, <1>4, <1>5 DEF rest, n, Rest

\* The headers once the next one is kept.
LEMMA OneMoreHeader ==
  ASSUME TypeOK, NEW c \in Conn, FirstHeaders(c), UNCHANGED message,
         NEW name \in Seq(Text), headers' = [headers EXCEPT ![c] = push_back(@, name)],
         message[c].headers # <<>> =>
           LET k == Len(headers[c])
           IN  /\ k + 1 \in 1..Len(message[c].headers)
               /\ name[Len(name)] = message[c].headers[k + 1]
               /\ k # 0 => message[c].headers[k + 1] # "Content-Length"
  PROVE  FirstHeaders(c)' /\ Len(headers'[c]) = Len(headers[c]) + 1
<1> DEFINE hs == message[c].headers
           got == headers[c]
           k == Len(got)
           more == Append(got, name)
<1>1. headers'[c] = more
  BY DEF TypeOK, push_back
<1>2. got \in Seq(Seq(Text)) /\ k \in Nat /\ hs \in Seq(Text) /\ Len(hs) \in Nat
  BY LenProperties, MessageFields DEF TypeOK
<1>3. /\ Len(more) = k + 1 /\ more[k + 1] = name
      /\ \A i \in 1..k : more[i] = got[i]
  <2> HIDE DEF got
  <2> QED
    BY <1>2, AppendProperties
<1> HIDE DEF more
<1>4. ASSUME hs # <<>>, NEW i \in 1..k + 1
      PROVE  /\ more[i][Len(more[i])] = hs[i]
             /\ i > 1 => hs[i] # "Content-Length"
  <2>1. CASE i = k + 1
    <3>1. i > 1 => k # 0
      <4> HIDE DEF k
      <4> QED
        BY <1>2, <2>1
    <3> QED
      BY <1>3, <1>4, <2>1, <3>1
  <2>2. CASE i # k + 1
    <3>1. i \in 1..k
      <4> HIDE DEF k
      <4> QED
        BY <1>2, <2>2
    <3> QED
      BY <1>3, <1>4, <3>1 DEF FirstHeaders
  <2> QED
    BY <2>1, <2>2
<1>5. hs # <<>> => k + 1 <= Len(hs)
  <2>1. hs # <<>> => k + 1 \in 1..Len(hs)
    OBVIOUS
  <2> HIDE DEF k, hs
  <2> QED
    BY <1>2, <2>1
<1>6. message'[c].headers = hs
  OBVIOUS
<1> HIDE DEF hs, k
<1>7. FirstHeaders(c)'
  BY <1>1, <1>3, <1>4, <1>5, <1>6 DEF FirstHeaders
<1> QED
  BY <1>1, <1>3, <1>7 DEF k

\* One pass of the header loop.
LEMMA HeaderKeeps ==
  ASSUME TypeOK, NEW c \in Conn, Parsed(c), pc[c] = "parsing",
         ~AtCarriageReturn(stream[c]), UNCHANGED <<pc, body, message, sent, response>>,
         LET name == SubSeq(stream[c], 1, Passed(stream[c]))
         IN  /\ name # <<"Content-Length">>
             /\ headers' = [headers EXCEPT ![c] = push_back(@, name)]
             /\ stream' = [stream EXCEPT ![c] = Rest(stream[c], Passed(stream[c]))]
  PROVE  Parsed(c)'
<1> DEFINE st == stream[c]
           m == message[c]
           hs == m.headers
           k == Len(headers[c])
           p == Extracted(c)
           q == Passed(st)
           name == SubSeq(st, 1, q)
           rest == Rest(st, q)
<1>1. pc'[c] = "parsing" /\ body'[c] = <<>>
  BY DEF Parsed
<1>2. stream'[c] = rest
  BY DEF TypeOK
<1>3. CASE rest = <<>>
  BY <1>1, <1>2, <1>3 DEF Parsed, Handled, Running, Answered
<1>4. CASE rest # <<>>
  <2>1. st \in Seq(Text) /\ m \in Message /\ Len(st) \in Nat
    BY LenProperties DEF TypeOK
  <2>2. q \in 0..Len(st) /\ name \in Seq(Text)
    BY <2>1, PassedBounds, PassedTypes
  <2>3. /\ rest \in Seq(Text) /\ Len(rest) = Len(st) - q
        /\ \A i \in 1..(Len(st) - q) : rest[i] = st[q + i]
    <3> HIDE DEF q, st
    <3> QED
      BY <2>1, <2>2, RestOf
  <2>4. Len(rest) \in Nat /\ Len(rest) # 0
    BY <1>4, <2>3, LenProperties, EmptySeq
  <2>5. q < Len(st) /\ st # <<>> /\ q \in Nat
    <3>1. Len(st) # 0 /\ q < Len(st) /\ q \in Nat
      <4> HIDE DEF q, rest, st
      <4> QED
        BY <2>1, <2>2, <2>3, <2>4
    <3> QED
      BY <3>1
  <2>6. q >= 1 /\ HasColon(st[q]) /\ q \in 1..Len(st)
    <3>1. q \in 1..Len(st) /\ (q < Len(st) => HasColon(st[q]))
      BY <2>1, <2>5, PassedIsFirst
    <3> HIDE DEF q, st
    <3> QED
      BY <2>5, <3>1
  <2>7. /\ sent[c] > 0 /\ Unread(c) /\ FirstHeaders(c) /\ AtBoundary(c)
    BY <2>5 DEF Parsed
  <2>8. /\ ReadCount(c) \in Nat /\ p \in Nat /\ p + Len(st) = ReadCount(c)
        /\ k \in Nat /\ k <= p
    BY <2>5, LeftToExtract
  <2>9. ReadCount(c)' = ReadCount(c) /\ message'[c] = m
    BY DEF ReadCount
  <2>10. Extracted(c)' = p + q
    <3>1. Extracted(c)' = ReadCount(c)' - Len(stream'[c])
      BY DEF Extracted
    <3> HIDE DEF p, q, rest, st
    <3> QED
      BY <1>2, <2>1, <2>2, <2>3, <2>5, <2>8, <2>9, <3>1
  <2>11. ASSUME NEW i \in 1..Len(rest) PROVE rest[i] = At(m, p + q + i)
    <3>1. q + i \in 1..Len(st) /\ i \in 1..(Len(st) - q) /\ p + (q + i) = p + q + i
      <4> HIDE DEF p, q, rest, st
      <4> QED
        BY <2>1, <2>3, <2>4, <2>5, <2>8
    <3>2. st[q + i] = At(m, p + (q + i))
      BY <2>7, <3>1 DEF Unread
    <3> QED
      BY <2>3, <3>1, <3>2
  <2>12. Unread(c)'
    <3>1. Unread(c)' <=>
            /\ Len(stream'[c]) <= ReadCount(c)'
            /\ \A i \in 1..Len(stream'[c]) :
                 stream'[c][i] = At(m, Extracted(c)' + i)
      BY <2>9 DEF Unread, At, Items
    <3>2. Len(rest) <= ReadCount(c)
      <4> HIDE DEF p, q, rest, st
      <4> QED
        BY <2>1, <2>3, <2>5, <2>8
    <3> QED
      BY <1>2, <2>9, <2>10, <2>11, <3>1, <3>2
  <2>13. ASSUME hs # <<>>
         PROVE  /\ k + 1 \in 1..Len(hs) /\ q = IF k = 0 THEN 2 ELSE 1
                /\ name[Len(name)] = hs[k + 1]
                /\ k # 0 => name = <<hs[k + 1]>>
    BY <2>5, <2>13, NextHeader
  <2>14. FirstHeaders(c)' /\ Len(headers'[c]) = k + 1
    <3>1. ASSUME hs # <<>>
          PROVE  /\ k + 1 \in 1..Len(hs) /\ name[Len(name)] = hs[k + 1]
                 /\ k # 0 => hs[k + 1] # "Content-Length"
      BY <2>13, <3>1
    <3>2. headers' = [headers EXCEPT ![c] = push_back(@, name)]
      OBVIOUS
    <3> HIDE DEF name
    <3> QED
      BY <2>2, <2>7, <3>1, <3>2, OneMoreHeader
  <2>15. k + 1 <= p + q
    <3> HIDE DEF k, p, q, st
    <3> QED
      BY <2>5, <2>6, <2>8
  <2>16. AtBoundary(c)'
    <3>1. HasColon(At(m, p + q))
      <4>1. st[q] = At(m, p + q)
        BY <2>6, <2>7 DEF Unread
      <4> QED
        BY <2>6, <4>1
    <3>2. ASSUME hs # <<>>
          PROVE  p + q = IF k + 1 = 0 THEN 0 ELSE k + 1 + 1
      <4>1. q = IF k = 0 THEN 2 ELSE 1
        BY <2>13, <3>2
      <4>2. p = IF k = 0 THEN 0 ELSE k + 1
        BY <2>7, <3>2 DEF AtBoundary
      <4> HIDE DEF p, q, k
      <4> QED
        BY <2>8, <4>1, <4>2
    <3>3. AtBoundary(c)' <=>
            /\ Extracted(c)' # 0 => HasColon(At(m, Extracted(c)'))
            /\ hs # <<>> => Extracted(c)' = IF Len(headers'[c]) = 0
                                            THEN 0 ELSE Len(headers'[c]) + 1
      BY <2>9 DEF AtBoundary, At, Items, HasColon
    <3> QED
      BY <2>10, <2>14, <3>1, <3>2, <3>3
  <2> HIDE DEF p, q, k
  <2> QED
    BY <1>1, <2>7, <2>10, <2>12, <2>14, <2>15, <2>16
       DEF Parsed, Handled, Running, Answered
<1> QED
  BY <1>3, <1>4

\* The empty line is reached only when all of the headers were extracted, or
\* after an item of the body that has a colon.
LEMMA BodyReached ==
  ASSUME TypeOK, NEW c \in Conn, Parsed(c), pc[c] = "parsing",
         AtCarriageReturn(stream[c])
  PROVE  /\ HeadArrived(c) /\ FirstHeaders(c)
         /\ message[c].headers # <<>> =>
              /\ Len(headers[c]) = Len(message[c].headers)
              /\ Extracted(c) = Len(message[c].headers) + 1
<1> DEFINE st == stream[c]
           m == message[c]
           hs == m.headers
           len == Len(hs)
           k == Len(headers[c])
           p == Extracted(c)
           n == ReadCount(c)
<1>1. st # <<>> /\ Head(st) = "CRLF" /\ st \in Seq(Text)
  BY DEF AtCarriageReturn, TypeOK
<1>2. /\ n \in Nat /\ n <= Len(Items(m)) /\ Len(Items(m)) \in Nat
      /\ Len(st) \in 1..n /\ Len(st) \in Nat
      /\ p \in Nat /\ p + Len(st) = n /\ k \in Nat /\ k <= p
      /\ st[1] = At(m, p + 1)
  BY <1>1, LeftToExtract
<1>3. At(m, p + 1) = "CRLF"
  BY <1>1, <1>2
<1>4. FirstHeaders(c) /\ AtBoundary(c)
  BY <1>1 DEF Parsed
<1>5. m \in Message /\ len \in Nat /\ hs \in Seq(Text)
  BY MessageFields DEF TypeOK
<1>6. /\ At(m, 1) = "LF" /\ At(m, len + 2) = "CRLF"
      /\ \A i \in 0..(len - 1) : At(m, i + 2) = hs[i + 1]
      /\ \A i \in Nat : i # 1 => At(m, i) = Items(m)[i]
  BY <1>5, ToExtract
<1>7. p # 0
  BY <1>3, <1>6
<1>8. p + 1 <= n
  <2> HIDE DEF p, n, st
  <2> QED
    BY <1>2
<1>9. CASE hs # <<>>
  <2>1. p = k + 1 /\ k <= len
    BY <1>4, <1>7, <1>9 DEF AtBoundary, FirstHeaders
  <2>2. k = len
    <3>1. SUFFICES ASSUME k # len PROVE FALSE
      OBVIOUS
    <3>2. k \in 0..(len - 1) /\ p + 1 = k + 2 /\ k + 1 \in 1..len
      <4> HIDE DEF k, len, p
      <4> QED
        BY <1>2, <1>5, <2>1, <3>1
    <3>3. hs[k + 1] = "CRLF" /\ HasColon(hs[k + 1])
      <4>1. HasColon(hs[k + 1])
        BY <1>5, <3>2, HeaderHasColon
      <4>2. At(m, k + 2) = hs[k + 1]
        BY <1>6, <3>2
      <4> QED
        BY <1>3, <3>2, <4>1, <4>2
    <3> QED
      BY <3>3, HeaderHasColon
  <2>3. len + 2 <= n /\ p = len + 1
    <3> HIDE DEF k, len, p, n
    <3> QED
      BY <1>2, <1>5, <1>8, <2>1, <2>2
  <2>4. ASSUME NEW i \in 2..len PROVE hs[i] # "Content-Length"
    <3>1. i \in 1..k /\ i > 1
      <4> HIDE DEF k, len
      <4> QED
        BY <1>5, <2>2
    <3> QED
      BY <1>4, <1>9, <3>1 DEF FirstHeaders
  <2>5. HeadArrived(c)
    BY <1>9, <2>3, <2>4 DEF HeadArrived
  <2> QED
    BY <1>4, <2>2, <2>3, <2>5
<1>10. CASE hs = <<>>
  <2>1. HasColon(At(m, p))
    BY <1>4, <1>7 DEF AtBoundary
  <2>2. p # 1
    BY <1>6, <2>1, HeaderHasColon
  <2>3. p # 2
    <3>1. len = 0 /\ 0 + 2 = 2
      BY <1>10
    <3>2. At(m, 2) = "CRLF"
      BY <1>6, <3>1
    <3> QED
      BY <2>1, <3>2, HeaderHasColon
  <2>4. Items(m)[p + 1] = "CRLF" /\ HasColon(Items(m)[p])
    <3>1. p + 1 \in Nat /\ p + 1 # 1
      <4> HIDE DEF p
      <4> QED
        BY <1>2, <1>7
    <3> QED
      BY <1>2, <1>3, <1>6, <2>1, <2>2, <3>1
  <2> DEFINE i == p + 1
  <2>5. i \in 4..n /\ i <= Len(Items(m)) /\ i - 1 = p
    <3> HIDE DEF p, n
    <3> QED
      BY <1>2, <1>7, <1>8, <2>2, <2>3
  <2>6. HeadArrived(c)
    <3>1. Items(m)[i] = "CRLF" /\ HasColon(Items(m)[i - 1])
      BY <2>4, <2>5
    <3> HIDE DEF i
    <3> QED
      BY <1>10, <2>5, <3>1 DEF HeadArrived
  <2> QED
    BY <1>4, <1>10, <2>6
<1> QED
  BY <1>9, <1>10

\* The body is what follows the empty line, whatever its length.
LEMMA BodyKeeps ==
  ASSUME TypeOK, NEW c \in Conn, Parsed(c), pc[c] = "parsing",
         AtCarriageReturn(stream[c]), NEW length \in Garbage, length >= 0,
         body' = [body EXCEPT ![c] = Filled(Tail(stream[c]), length)],
         Goto(c, "dispatch"), UNCHANGED <<headers, response, message, sent>>
  PROVE  Parsed(c)'
<1> DEFINE st == stream[c]
           tail == Tail(st)
           m == message[c]
           hs == m.headers
           p == Extracted(c)
           n == ReadCount(c)
           first == Len(hs) + 2
<1>1. st # <<>> /\ st \in Seq(Text) /\ length \in Nat
  BY GarbageAssumption DEF AtCarriageReturn, TypeOK
<1>2. /\ tail \in Seq(Text) /\ Len(tail) = Len(st) - 1
      /\ \A i \in 1..Len(tail) : tail[i] = st[i + 1]
  BY <1>1, HeadTailProperties
<1>3. /\ n \in Nat /\ Len(st) \in 1..n /\ Len(st) \in Nat /\ p \in Nat /\ p + Len(st) = n
      /\ n <= Len(Items(m)) /\ Len(Items(m)) \in Nat
      /\ Len(headers[c]) \in Nat /\ Len(headers[c]) <= p
  BY <1>1, LeftToExtract
<1>4. /\ HeadArrived(c) /\ FirstHeaders(c)
      /\ hs # <<>> => Len(headers[c]) = Len(hs) /\ p = Len(hs) + 1
  BY BodyReached
<1>5. body'[c] = Filled(tail, length)
  BY DEF TypeOK
<1>6. Len(body'[c]) = length
  <2> HIDE DEF tail
  <2> QED
    BY <1>1, <1>2, <1>5, FilledTypes
<1>7. \A i \in 1..length : body'[c][i] = IF i <= Len(tail) THEN tail[i] ELSE "NUL"
  <2> HIDE DEF tail
  <2> QED
    BY <1>5 DEF Filled
<1>8. m \in Message /\ Len(hs) \in Nat
  BY MessageFields DEF TypeOK
<1>9. ASSUME hs # <<>>, NEW i \in 1..length
      PROVE  body'[c][i] = IF first + i <= n THEN Items(m)[first + i] ELSE "NUL"
  <2>1. p = Len(hs) + 1
    BY <1>4, <1>9
  <2>2. i <= Len(tail) <=> first + i <= n
    <3> HIDE DEF tail, st, p, n, hs
    <3> QED
      BY <1>1, <1>2, <1>3, <1>8, <2>1
  <2>3. ASSUME i <= Len(tail) PROVE tail[i] = Items(m)[first + i]
    <3>0. i \in Nat /\ i >= 1 /\ Len(tail) = Len(st) - 1 /\ first = Len(hs) + 2
      <4> HIDE DEF tail, st, p, n, hs
      <4> QED
        BY <1>1, <1>2, <1>9
    <3>1. /\ i \in 1..Len(tail) /\ i + 1 \in 1..Len(st)
          /\ p + (i + 1) = first + i /\ first + i \in Nat /\ first + i # 1
      <4> HIDE DEF tail, st, p, n, hs, first
      <4>1. i \in 1..Len(tail) /\ i + 1 \in 1..Len(st)
        BY <1>3, <2>3, <3>0
      <4> QED
        BY <1>8, <2>1, <3>0, <4>1
    <3>2. st[i + 1] = At(m, p + (i + 1))
      BY <1>1, <3>1 DEF Parsed, Unread
    <3>3. At(m, first + i) = Items(m)[first + i]
      <4> HIDE DEF first
      <4> QED
        BY <1>8, <3>1, ToExtract
    <3>4. tail[i] = st[i + 1]
      BY <1>2, <3>1
    <3> QED
      BY <3>1, <3>2, <3>3, <3>4
  <2> QED
    BY <1>7, <2>2, <2>3
<1>10. ReadCount(c)' = n /\ message'[c] = m /\ pc'[c] = "dispatch"
  BY DEF ReadCount, Goto, TypeOK
<1>11. BodyArrived(c)'
  <2>1. BodyArrived(c)' <=>
          (hs # <<>> =>
             \A i \in 1..Len(body'[c]) :
               body'[c][i] = IF first + i <= ReadCount(c)'
                             THEN Items(m)[first + i] ELSE "NUL")
    BY <1>10 DEF BodyArrived, Items
  <2> HIDE DEF n, first
  <2> QED
    BY <1>6, <1>9, <1>10, <2>1
<1>12. Len(headers[c]) <= Len(Items(m))
  <2> DEFINE k == Len(headers[c])
  <2> HIDE DEF k, p, n, st
  <2>1. k <= Len(Items(m))
    BY <1>3 DEF k
  <2> QED
    BY <2>1 DEF k
<1>13. GotAll(c)'
  <2>1. HeadArrived(c)' /\ FirstHeaders(c)'
    BY <1>4, <1>10 DEF HeadArrived, FirstHeaders, ReadCount, Items, HasColon
  <2>2. Items(message'[c]) = Items(m)
    BY <1>10
  <2> QED
    BY <1>4, <1>6, <1>10, <1>11, <1>12, <2>1, <2>2 DEF GotAll
<1> QED
  BY <1>10, <1>13 DEF Parsed, Handled, Running, Answered

-----------------------------------------------------------------------------
(***************************************************************************)
(* The invariant of the parser.                                            *)
(***************************************************************************)

\* What a session has parsed depends on its own variables.
LEMMA SessionParsed ==
  ASSUME NEW d \in Conn, Parsed(d), UNCHANGED message,
         pc'[d] = pc[d], sent'[d] = sent[d], stream'[d] = stream[d],
         headers'[d] = headers[d], body'[d] = body[d], response'[d] = response[d]
  PROVE  Parsed(d)'
<1>1. ReadCount(d)' = ReadCount(d) /\ (Answered(d)' <=> Answered(d))
      /\ (Handled(d)' <=> Handled(d))
  BY DEF ReadCount, Answered, Handled
<1>2. /\ (FirstHeaders(d)' <=> FirstHeaders(d))
      /\ Extracted(d)' = Extracted(d)
  BY <1>1 DEF FirstHeaders, Extracted
<1>3. (HeadArrived(d)' <=> HeadArrived(d)) /\ (BodyArrived(d)' <=> BodyArrived(d))
  <2>1. Items(message[d])' = Items(message[d])
    OBVIOUS
  <2> QED
    BY <1>1, <2>1 DEF HeadArrived, BodyArrived, HasColon
<1>4. GotAll(d)' <=> GotAll(d)
  <2>1. Items(message[d])' = Items(message[d])
    OBVIOUS
  <2> QED
    BY <1>2, <1>3, <2>1 DEF GotAll
<1>5. \A i : At(message[d], i)' = At(message[d], i)
  OBVIOUS
<1>6. (Unread(d)' <=> Unread(d)) /\ (AtBoundary(d)' <=> AtBoundary(d))
  BY <1>1, <1>2, <1>5 DEF Unread, AtBoundary, HasColon, At, Items
<1> QED
  BY <1>1, <1>2, <1>3, <1>4, <1>6 DEF Parsed

\* A step of one session leaves what the others have parsed.
LEMMA OthersParsed ==
  ASSUME \A d \in Conn : Parsed(d), NEW c \in Conn, Parsed(c)',
         \A d \in Conn : d # c =>
           /\ pc'[d] = pc[d] /\ sent'[d] = sent[d] /\ stream'[d] = stream[d]
           /\ headers'[d] = headers[d] /\ body'[d] = body[d]
           /\ response'[d] = response[d],
         UNCHANGED message
  PROVE  \A d \in Conn : Parsed(d)'
  BY SessionParsed

\* A step that leaves every session alone.
LEMMA OthersUnchanged ==
  ASSUME \A d \in Conn : Parsed(d),
         UNCHANGED <<message, sent, pc, stream, headers, body, response>>
  PROVE  \A d \in Conn : Parsed(d)'
  BY SessionParsed

\* A session that ends leaves nothing, and an answer only of a whole head.
LEMMA EndParsed ==
  ASSUME TypeOK, NEW c \in Conn, EndSession(c), UNCHANGED <<message, sent>>,
         response'[c] # NoResponse => HeadArrived(c)
  PROVE  Parsed(c)'
<1>1. pc'[c] = "ended" /\ headers'[c] = <<>> /\ body'[c] = <<>>
  BY DEF EndSession, TypeOK
<1>2. HeadArrived(c)' <=> HeadArrived(c)
  BY DEF HeadArrived, ReadCount, Items, HasColon
<1> QED
  BY <1>1, <1>2 DEF Parsed, Handled, Running, Answered

\* A session that goes on with the request it has, past the parser.
LEMMA HandledParsed ==
  ASSUME TypeOK, NEW c \in Conn, NEW label \in Running \ {"reading", "parsing"},
         Goto(c, label), UNCHANGED <<message, sent, headers, body>>, GotAll(c)
  PROVE  Parsed(c)'
<1>1. pc'[c] = label
  BY DEF Goto, TypeOK
<1>2. GotAll(c)'
  <2>1. ReadCount(c)' = ReadCount(c) /\ Items(message[c])' = Items(message[c])
    BY DEF ReadCount, Items
  <2>2. HeadArrived(c)' /\ FirstHeaders(c)' /\ BodyArrived(c)'
    BY <2>1 DEF GotAll, HeadArrived, FirstHeaders, BodyArrived, HasColon
  <2> QED
    BY <2>1, <2>2 DEF GotAll
<1>3. label \in Running /\ label # "parsing" /\ label # "reading" /\ label # "ended"
  BY DEF Running
<1> QED
  BY <1>1, <1>2, <1>3 DEF Parsed, Handled, Answered

\* Every step keeps what the sessions have parsed.
LEMMA ParsedNext ==
  ASSUME TypeOK, [Next]_vars, \A c \in Conn : Earned(c), \A c \in Conn : Parsed(c)
  PROVE  \A c \in Conn : Parsed(c)'
<1>1. CASE UNCHANGED <<message, sent, pc, stream, headers, body, response>>
  BY <1>1, OthersUnchanged
<1>2. ASSUME NEW c \in Conn, Throw(c), UNCHANGED <<message, sent>>
      PROVE  \A d \in Conn : Parsed(d)'
  <2>1. Parsed(c)'
    <3>1. response'[c] = NoResponse
      BY <1>2 DEF Throw, TypeOK
    <3> QED
      BY <1>2, <3>1, EndParsed DEF Throw
  <2> QED
    BY <1>2, <2>1, OthersParsed DEF Throw, EndSession, TypeOK
<1>3. ASSUME NEW c \in Conn, OutOfMemory(c), UNCHANGED <<message, sent>>
      PROVE  \A d \in Conn : Parsed(d)'
  BY <1>1, <1>2, <1>3 DEF OutOfMemory, sessionVars, requestVars
<1>4. ASSUME NEW c \in Conn, Accept(c) \/ Connect(c)
      PROVE  \A d \in Conn : Parsed(d)'
  <2>1. /\ pc[c] \in {"idle", "backlog"}
        /\ UNCHANGED pc \/ \E label \in {"backlog", "accepted"} : Goto(c, label)
        /\ UNCHANGED <<message, sent, stream, headers, body, response>>
    BY <1>4 DEF Accept, Connect, clientVars, requestVars
  <2>2. CASE UNCHANGED pc
    BY <1>1, <2>1, <2>2
  <2>3. ASSUME NEW label \in {"backlog", "accepted"}, Goto(c, label)
        PROVE  \A d \in Conn : Parsed(d)'
    <3>1. pc'[c] = label /\ \A d \in Conn : d # c => pc'[d] = pc[d]
      BY <2>3 DEF Goto, TypeOK
    <3>2. Parsed(c)'
      BY <2>1, <3>1 DEF Parsed, Handled, Running, Answered
    <3> QED
      BY <2>1, <3>1, <3>2, OthersParsed
  <2> QED
    BY <2>1, <2>2, <2>3
<1>5. ASSUME NEW c \in Conn, Spawn(c) PROVE \A d \in Conn : Parsed(d)'
  <2>1. pc[c] = "accepted" /\ UNCHANGED <<message, sent, response>>
    BY <1>5 DEF Spawn, clientVars
  <2>2. response[c] = NoResponse
    BY <2>1 DEF Earned
  <2>3. CASE Goto(c, "reading") /\ UNCHANGED requestVars
    <3>1. pc'[c] = "reading" /\ \A d \in Conn : d # c => pc'[d] = pc[d]
      BY <2>3 DEF Goto, TypeOK
    <3>2. headers[c] = <<>> /\ body[c] = <<>>
      BY <2>1 DEF Parsed, Running
    <3>3. Parsed(c)'
      BY <2>3, <3>1, <3>2 DEF Parsed, Handled, Running, Answered, requestVars
    <3> QED
      BY <2>1, <2>3, <3>1, <3>3, OthersParsed DEF requestVars
  <2>4. CASE EndSession(c)
    <3>1. Parsed(c)'
      BY <2>1, <2>2, <2>4, EndParsed
    <3> QED
      BY <2>1, <2>4, <3>1, OthersParsed DEF EndSession, TypeOK
  <2> QED
    BY <1>5, <2>3, <2>4 DEF Spawn
<1>6. ASSUME NEW c \in Conn, ReadSome(c) PROVE \A d \in Conn : Parsed(d)'
  <2>1. UNCHANGED <<message, sent>> /\ pc[c] = "reading"
    BY <1>6 DEF ReadSome, clientVars
  <2>2. CASE Throw(c)
    BY <1>2, <2>1, <2>2
  <2>3. CASE ~Throw(c)
    <3> DEFINE n == IF sent[c] < MaxLength THEN sent[c] ELSE MaxLength
    <3>1. /\ sent[c] > 0 /\ Goto(c, "parsing")
          /\ stream' = [stream EXCEPT ![c] = <<"LF">> \o SubSeq(Items(message[c]), 2, n)]
          /\ UNCHANGED <<headers, body, response>>
      BY <1>6, <2>3 DEF ReadSome
    <3>3. Parsed(c)'
      BY <2>1, <3>1, ReadKeeps
    <3> HIDE DEF n
    <3>2. \A d \in Conn : d # c => pc'[d] = pc[d] /\ stream'[d] = stream[d]
      BY <3>1 DEF Goto, TypeOK
    <3> QED
      BY <2>1, <3>1, <3>2, <3>3, OthersParsed
  <2> QED
    BY <2>2, <2>3
<1>7. ASSUME NEW c \in Conn, ParseHeader(c) PROVE \A d \in Conn : Parsed(d)'
  <2> DEFINE st == stream[c]
             name == SubSeq(st, 1, Passed(st))
             rest == Rest(st, Passed(st))
             kept == push_back(headers[c], name)
  <2>1. UNCHANGED <<message, sent>> /\ pc[c] = "parsing" /\ ~AtCarriageReturn(st)
    BY <1>7 DEF ParseHeader, clientVars
  <2>2. \/ Throw(c)
        \/ /\ name # <<"Content-Length">>
           /\ headers' = [headers EXCEPT ![c] = kept]
           /\ stream' = [stream EXCEPT ![c] = rest]
           /\ UNCHANGED <<pc, body, response>>
        \/ OutOfMemory(c)
    BY <1>7 DEF ParseHeader
  <2>3. CASE Throw(c)
    BY <1>2, <2>1, <2>3
  <2>4. CASE OutOfMemory(c)
    BY <1>3, <2>1, <2>4
  <2>5. CASE /\ name # <<"Content-Length">>
             /\ headers' = [headers EXCEPT ![c] = kept]
             /\ stream' = [stream EXCEPT ![c] = rest]
             /\ UNCHANGED <<pc, body, response>>
    <3>1. Parsed(c)'
      <4>1. headers' = [headers EXCEPT ![c] = push_back(@, name)]
        BY <2>5
      <4> QED
        BY <2>1, <2>5, <4>1, HeaderKeeps
    <3>2. \A d \in Conn : d # c => headers'[d] = headers[d] /\ stream'[d] = stream[d]
      <4> HIDE DEF kept, rest
      <4> QED
        BY <2>5 DEF TypeOK
    <3> QED
      BY <2>1, <2>5, <3>1, <3>2, OthersParsed
  <2> QED
    BY <2>2, <2>3, <2>4, <2>5
<1>8. ASSUME NEW c \in Conn, ParseBody(c) PROVE \A d \in Conn : Parsed(d)'
  <2>1. UNCHANGED <<message, sent>> /\ pc[c] = "parsing" /\ AtCarriageReturn(stream[c])
    BY <1>8 DEF ParseBody, clientVars
  <2>2. \/ Throw(c)
        \/ OutOfMemory(c)
        \/ \E length \in Garbage :
             /\ length >= 0
             /\ body' = [body EXCEPT ![c] = Filled(Tail(stream[c]), length)]
             /\ stream' = [stream EXCEPT ![c] = <<>>]
             /\ Goto(c, "dispatch") /\ UNCHANGED <<headers, response>>
    BY <1>8 DEF ParseBody
  <2>3. CASE Throw(c)
    BY <1>2, <2>1, <2>3
  <2>4. CASE OutOfMemory(c)
    BY <1>3, <2>1, <2>4
  <2>5. ASSUME NEW length \in Garbage, length >= 0,
               body' = [body EXCEPT ![c] = Filled(Tail(stream[c]), length)],
               stream' = [stream EXCEPT ![c] = <<>>],
               Goto(c, "dispatch"), UNCHANGED <<headers, response>>
        PROVE  \A d \in Conn : Parsed(d)'
    <3>1. Parsed(c)'
      BY <2>1, <2>5, BodyKeeps
    <3> DEFINE filled == Filled(Tail(stream[c]), length)
    <3>2. body' = [body EXCEPT ![c] = filled]
      BY <2>5
    <3> HIDE DEF filled
    <3>3. \A d \in Conn : d # c =>
            pc'[d] = pc[d] /\ stream'[d] = stream[d] /\ body'[d] = body[d]
      BY <2>5, <3>2 DEF Goto, TypeOK
    <3> QED
      BY <2>1, <2>5, <3>1, <3>3, OthersParsed
  <2> QED
    BY <2>2, <2>3, <2>4, <2>5
<1>9. ASSUME NEW c \in Conn,
             \/ Dispatch(c) \/ OpenFile(c) \/ SlurpFile(c) \/ ConnectUpstream(c)
             \/ Relay(c)
      PROVE  \A d \in Conn : Parsed(d)'
  <2>1. UNCHANGED <<message, sent>> /\ pc[c] \in Running \ {"reading", "parsing"}
    BY <1>9 DEF Dispatch, OpenFile, SlurpFile, ConnectUpstream, Relay, clientVars, Running
  <2>2. \/ Throw(c)
        \/ OutOfMemory(c)
        \/ /\ \E label \in Running \ {"reading", "parsing"} : Goto(c, label)
           /\ UNCHANGED requestVars
           /\ UNCHANGED response \/ \E r : response' = [response EXCEPT ![c] = r]
    BY <1>9 DEF Dispatch, Invoke, OpenFile, SlurpFile, ConnectUpstream, Relay, Respond,
                Running
  <2>3. CASE Throw(c)
    BY <1>2, <2>1, <2>3
  <2>4. CASE OutOfMemory(c)
    BY <1>3, <2>1, <2>4
  <2>5. ASSUME NEW label \in Running \ {"reading", "parsing"}, Goto(c, label),
               UNCHANGED requestVars,
               UNCHANGED response \/ \E r : response' = [response EXCEPT ![c] = r]
        PROVE  \A d \in Conn : Parsed(d)'
    <3>1. GotAll(c)
      BY <2>1 DEF Parsed, Handled
    <3>2. Parsed(c)'
      BY <2>1, <2>5, <3>1, HandledParsed DEF requestVars
    <3>3. \A d \in Conn : d # c => pc'[d] = pc[d] /\ response'[d] = response[d]
      BY <2>5 DEF Goto, TypeOK
    <3> QED
      BY <2>1, <2>5, <3>2, <3>3, OthersParsed DEF requestVars
  <2> QED
    BY <2>2, <2>3, <2>4, <2>5
<1>10. ASSUME NEW c \in Conn, Write(c) PROVE \A d \in Conn : Parsed(d)'
  <2>1. UNCHANGED <<message, sent>> /\ pc[c] = "writing"
    BY <1>10 DEF Write, clientVars
  <2>2. CASE Throw(c)
    BY <1>2, <2>1, <2>2
  <2>3. CASE EndSession(c) /\ UNCHANGED response
    <3>1. HeadArrived(c)
      BY <2>1 DEF Parsed, Handled, Running, GotAll
    <3>2. Parsed(c)'
      BY <2>1, <2>3, <3>1, EndParsed
    <3> QED
      BY <2>1, <2>3, <3>2, OthersParsed DEF EndSession, TypeOK
  <2> QED
    BY <1>10, <2>2, <2>3 DEF Write
<1>11. ASSUME NEW c \in Conn, Send(c) PROVE \A d \in Conn : Parsed(d)'
  <2>1. /\ pc[c] \in {"backlog", "accepted", "reading"}
        /\ \A d \in Conn : d # c => sent'[d] = sent[d]
        /\ UNCHANGED <<message, pc, stream, headers, body, response>>
    BY <1>11 DEF Send, TypeOK, sessionVars, requestVars
  <2>2. Parsed(c)'
    BY <2>1 DEF Parsed, Handled, Running, Answered
  <2> QED
    BY <2>1, <2>2, OthersParsed
<1>12. CASE Unwind \/ Return \/ UseDestroyed \/ End
  BY <1>1, <1>12 DEF Unwind, Return, UseDestroyed, End, ReadQuit, ThrowExit, Stop,
                     clientVars, sessionVars, requestVars
<1>13. CASE \/ \E c \in Conn : Leave(c) \/ UsePrivate(c)
            \/ \E word \in Word : Type(word)
  BY <1>1, <1>13 DEF Leave, UsePrivate, Type, clientVars, sessionVars, requestVars
<1>14. CASE UNCHANGED vars
  BY <1>1, <1>14 DEF vars, clientVars, sessionVars, requestVars
<1> QED
  BY <1>4, <1>5, <1>6, <1>7, <1>8, <1>9, <1>10, <1>11, <1>12, <1>13, <1>14
     DEF Next, Run, Environment, Session

\* What the sessions have parsed, in every reachable state.
LEMMA ParsedAlways == Spec => [](\A c \in Conn : Parsed(c))
<1> DEFINE Inv == \A c \in Conn : Parsed(c)
<1>1. Init => Inv
  BY DEF Init, Parsed, Handled, Running, Answered
<1>2. TypeOK /\ (\A c \in Conn : Earned(c)) /\ Inv /\ [Next]_vars => Inv'
  BY ParsedNext
<1> QED
  BY <1>1, <1>2, TypeCorrect, EarnedAlways, PTL DEF Spec

\* A handler gets every header that was sent, in order.
THEOREM HeadersCorrect == Spec => []HeadersInOrder
<1>1. (\A c \in Conn : Parsed(c)) => HeadersInOrder
  BY DEF Parsed, GotAll, FirstHeaders, HeadersInOrder
<1> QED
  BY <1>1, ParsedAlways, PTL

\* No request is answered on a part of its head: its headers and their empty
\* line were all there at the one read of the socket.
THEOREM WholeHeadsCorrect == Spec => []OnlyWholeHeadsAnswered
<1>1. (\A c \in Conn : Parsed(c)) => OnlyWholeHeadsAnswered
  BY DEF Parsed, OnlyWholeHeadsAnswered
<1> QED
  BY <1>1, ParsedAlways, PTL

\* A handler gets as the body what the read returned after the empty line, and
\* zeroes where that ends.
THEOREM BodyCorrect == Spec => []BodyAsArrived
<1>1. (\A c \in Conn : Parsed(c)) => BodyAsArrived
  BY DEF Parsed, GotAll, BodyArrived, BodyAsArrived
<1> QED
  BY <1>1, ParsedAlways, PTL

-----------------------------------------------------------------------------
(***************************************************************************)
(* The heap.                                                               *)
(***************************************************************************)

\* The largest number of entries per connection that fit the heap.
LEMMA Quotient ==
  ASSUME NEW m \in Nat, NEW n \in Nat \ {0}
  PROVE  LET q == m \div n
         IN  /\ q \in Nat /\ q * n <= m
             /\ \A x \in Nat : x * n <= m => x <= q
<1> DEFINE q == m \div n
<1>1. q \in Int /\ n * q <= m /\ m < n * (q + 1)
  BY Z3
<1> HIDE DEF q
<1>2. q * n <= m /\ q >= 0
  BY <1>1, Z3
<1>3. ASSUME NEW x \in Nat, x * n <= m, x > q PROVE FALSE
  <2>1. x * n >= (q + 1) * n
    BY <1>1, <1>3, Z3
  <2> QED
    BY <1>1, <1>3, <2>1, Z3
<1> QED
  BY <1>1, <1>2, <1>3 DEF q

\* Requests of at most q entries each leave a session what it lacks of its q.
LEMMA RoomInHeap ==
  ASSUME TypeOK, NEW q \in Nat, q * Cardinality(Conn) <= MaxHeap,
         \A d \in Conn : Len(headers[d]) + Len(body[d]) <= q,
         NEW c \in Conn, NEW k \in Nat, Len(headers[c]) + Len(body[c]) + k <= q
  PROVE  HeapHas(k)
<1> DEFINE n == Cardinality(Conn)
           used(d) == Len(headers[d]) + Len(body[d])
           u == used(c)
           room == (u + 1)..(u + k)
           all == Conn \X (1..q)
           own == {c} \X room
           both == HeapEntries \cup own
<1>1. IsFiniteSet(Conn) /\ n \in Nat /\ MaxHeap \in Nat
  BY ConnAssumption, FS_CardinalityType, BoundAssumption
<1>2. \A d \in Conn : used(d) \in Nat
  BY LenProperties DEF TypeOK
<1>3. u \in Nat /\ u + k <= q
  BY <1>2
<1>4. HeapEntries = UNION {{d} \X (1..used(d)) : d \in Conn}
  BY DEF HeapEntries
<1>5. \A d \in Conn : used(d) <= q
  OBVIOUS
<1> HIDE DEF used, u
<1>6. HeapEntries \subseteq all
  <2>1. ASSUME NEW d \in Conn, NEW i \in 1..used(d) PROVE i \in 1..q
    BY <1>2, <1>5
  <2> QED
    BY <1>4, <2>1
<1>7. own \subseteq all
  BY <1>3
<1>8. HeapEntries \cap own = {}
  <2>1. ASSUME NEW i \in room PROVE i \notin 1..used(c)
    BY <1>3, <2>1 DEF u
  <2> QED
    BY <1>4, <2>1
<1>9. IsFiniteSet(all) /\ Cardinality(all) = n * q
  <2>1. IsFiniteSet(1..q) /\ Cardinality(1..q) = IF 1 > q THEN 0 ELSE q - 1 + 1
    BY FS_Interval
  <2>2. Cardinality(1..q) = q
    BY <2>1
  <2> QED
    BY <1>1, <2>1, <2>2, FS_Product
<1>10. IsFiniteSet(own) /\ Cardinality(own) = k
  <2> DEFINE a == u + 1
             b == u + k
  <2>0. a \in Int /\ b \in Int /\ a..b = room
    BY <1>3
  <2> HIDE DEF a, b, room
  <2>1. /\ IsFiniteSet(room)
        /\ Cardinality(room) = IF a > b THEN 0 ELSE b - a + 1
    BY <2>0, FS_Interval
  <2>2. Cardinality(room) = k
    BY <1>3, <2>1 DEF a, b
  <2>3. IsFiniteSet({c}) /\ Cardinality({c}) = 1
    BY FS_Singleton
  <2>4. IsFiniteSet(own) /\ Cardinality(own) = Cardinality({c}) * Cardinality(room)
    BY <2>1, <2>3, FS_Product
  <2> QED
    BY <2>2, <2>3, <2>4
<1> HIDE DEF all, own
<1>11. IsFiniteSet(HeapEntries) /\ Cardinality(HeapEntries) \in Nat
  BY <1>6, <1>9, FS_Subset, FS_CardinalityType
<1>12. IsFiniteSet(both) /\ Cardinality(both) = Cardinality(HeapEntries) + k
  <2>1. Cardinality(both) = Cardinality(HeapEntries) + Cardinality(own)
                              - Cardinality(HeapEntries \cap own)
        /\ IsFiniteSet(both)
    BY <1>10, <1>11, FS_Union
  <2>2. Cardinality(HeapEntries \cap own) = 0
    BY <1>8, FS_EmptySet
  <2> QED
    BY <1>10, <1>11, <2>1, <2>2
<1>13. Cardinality(both) <= Cardinality(all)
  BY <1>6, <1>7, <1>9, FS_Subset
<1>14. n * q = q * n /\ n * q \in Nat
  <2> HIDE DEF n
  <2> QED
    BY <1>1, Z3
<1>15. q * n <= MaxHeap
  OBVIOUS
<1> HIDE DEF n, both
<1> QED
  BY <1>1, <1>9, <1>11, <1>12, <1>13, <1>14, <1>15 DEF HeapHas

\* What a session that is not looping holds: no more than its client's items
\* and its body, and at least one less while it parses.
LEMMA Used ==
  ASSUME TypeOK, NEW c \in Conn, Parsed(c), ~Spinning(c)
  PROVE  LET used == Len(headers[c]) + Len(body[c])
             items == Len(Items(message[c]))
         IN  /\ used \in Nat /\ items \in Nat
             /\ \E length \in Garbage \cup {0} : length >= 0 /\ used <= items + length
             /\ pc[c] = "parsing" => used + 1 <= items
<1> DEFINE bound == Len(Items(message[c]))
           k == Len(headers[c])
           size == Len(body[c])
<1>1. /\ message[c] \in Message /\ headers[c] \in Seq(Seq(Text))
      /\ body[c] \in Seq(Text) /\ pc[c] \in {"idle", "backlog", "ended"} \cup Live
  BY DEF TypeOK
<1>2. bound \in Nat /\ k \in Nat /\ size \in Nat
  BY <1>1, ItemsType, LenProperties
<1>3. ASSUME pc[c] = "parsing" PROVE size = 0 /\ k + 1 <= bound
  <2>1. stream[c] # <<>> /\ body[c] = <<>> /\ size = 0
    BY <1>3 DEF Spinning, Parsed
  <2>2. /\ ReadCount(c) \in Nat /\ ReadCount(c) <= bound
        /\ Len(stream[c]) \in 1..ReadCount(c) /\ Len(stream[c]) \in Nat
        /\ Extracted(c) \in Nat /\ Extracted(c) + Len(stream[c]) = ReadCount(c)
        /\ k <= Extracted(c)
    BY <1>3, <2>1, LeftToExtract
  <2> HIDE DEF bound, k, size
  <2> QED
    BY <1>2, <2>1, <2>2
<1>4. Handled(c) => k <= bound /\ size \in Garbage
  BY DEF Parsed, GotAll
<1>5. pc[c] # "parsing" /\ ~Handled(c) => k = 0 /\ size = 0
  BY DEF Parsed, Handled, Running
<1> HIDE DEF bound, k, size
<1>6. k + size \in Nat /\ (pc[c] = "parsing" => k + size + 1 <= bound)
  BY <1>2, <1>3
<1>7. \E length \in Garbage \cup {0} : length >= 0 /\ k + size <= bound + length
  <2>1. CASE size \in Garbage /\ k <= bound
    <3>1. size >= 0 /\ k + size <= bound + size
      BY <1>2, <2>1
    <3> QED
      BY <2>1, <3>1
  <2>2. CASE size = 0 /\ k <= bound
    BY <1>2, <2>2
  <2>3. CASE size = 0 /\ k = 0
    BY <1>2, <2>3
  <2>4. CASE pc[c] = "parsing"
    <3>1. size = 0 /\ k <= bound
      BY <1>2, <1>3, <2>4
    <3> QED
      BY <2>2, <3>1
  <2> QED
    BY <1>4, <1>5, <2>1, <2>3, <2>4
<1> QED
  BY <1>2, <1>6, <1>7 DEF bound, k, size

\* What each connection may take of a heap that holds all the requests.
LEMMA HeapShare ==
  ASSUME TypeOK, \A d \in Conn : Parsed(d), \A d \in Conn : ~Spinning(d),
         Conn # {},
         \A m \in Message, length \in Garbage \cup {0} :
           (Len(Items(m)) + length) * Cardinality(Conn) <= MaxHeap
  PROVE  \E q \in Nat :
           /\ q * Cardinality(Conn) <= MaxHeap
           /\ \A d \in Conn : Len(headers[d]) + Len(body[d]) <= q
           /\ \A m \in Message, length \in Garbage \cup {0} :
                length >= 0 => Len(Items(m)) + length <= q
<1> DEFINE n == Cardinality(Conn)
           q == MaxHeap \div n
<1>1. n \in Nat \ {0} /\ MaxHeap \in Nat
  <2>1. IsFiniteSet(Conn) /\ n \in Nat
    BY ConnAssumption, FS_CardinalityType
  <2>2. n # 0
    BY <2>1, FS_EmptySet
  <2> QED
    BY <2>1, <2>2, BoundAssumption
<1>2. q \in Nat /\ q * n <= MaxHeap /\ \A x \in Nat : x * n <= MaxHeap => x <= q
  <2> HIDE DEF n
  <2> QED
    BY <1>1, Quotient
<1> HIDE DEF q
<1>3. ASSUME NEW m \in Message, NEW length \in Garbage \cup {0}, length >= 0
      PROVE  Len(Items(m)) \in Nat /\ length \in Nat /\ Len(Items(m)) + length <= q
  <2>1. Len(Items(m)) \in Nat
    BY ItemsType, LenProperties
  <2>2. length \in Nat
    BY <1>3, GarbageAssumption
  <2>3. (Len(Items(m)) + length) * n <= MaxHeap
    OBVIOUS
  <2> DEFINE x == Len(Items(m)) + length
  <2>4. x \in Nat
    BY <2>1, <2>2
  <2> HIDE DEF n, x
  <2>5. x <= q
    BY <1>2, <2>3, <2>4 DEF x
  <2> QED
    BY <2>1, <2>2, <2>5 DEF x
<1>4. ASSUME NEW d \in Conn PROVE Len(headers[d]) + Len(body[d]) <= q
  <2> DEFINE used == Len(headers[d]) + Len(body[d])
             items == Len(Items(message[d]))
  <2>1. message[d] \in Message
    BY DEF TypeOK
  <2>2. /\ used \in Nat /\ items \in Nat
        /\ \E length \in Garbage \cup {0} : length >= 0 /\ used <= items + length
    BY Used
  <2>3. PICK length \in Garbage \cup {0} : length >= 0 /\ used <= items + length
    BY <2>2
  <2>4. length \in Nat /\ items + length <= q
    BY <1>3, <2>1, <2>3
  <2> HIDE DEF used, items
  <2>5. used <= q
    BY <1>2, <2>2, <2>3, <2>4
  <2> QED
    BY <2>5 DEF used
<1> QED
  BY <1>2, <1>3, <1>4

\* A session then finds room for its next header and for its body.
LEMMA RoomToParse ==
  ASSUME TypeOK, \A d \in Conn : Parsed(d), \A d \in Conn : ~Spinning(d),
         \A m \in Message, length \in Garbage \cup {0} :
           (Len(Items(m)) + length) * Cardinality(Conn) <= MaxHeap,
         NEW c \in Conn, pc[c] = "parsing"
  PROVE  HeapHas(1) /\ \A length \in Garbage : length >= 0 => HeapHas(length)
<1> DEFINE used == Len(headers[c]) + Len(body[c])
           items == Len(Items(message[c]))
<1>1. PICK q \in Nat :
        /\ q * Cardinality(Conn) <= MaxHeap
        /\ \A d \in Conn : Len(headers[d]) + Len(body[d]) <= q
        /\ \A m \in Message, length \in Garbage \cup {0} :
             length >= 0 => Len(Items(m)) + length <= q
  <2>1. Conn # {}
    OBVIOUS
  <2> QED
    BY <2>1, HeapShare
<1>2. message[c] \in Message
  BY DEF TypeOK
<1>3. used \in Nat /\ items \in Nat /\ used + 1 <= items
  BY Used
<1>4. \A length \in Garbage \cup {0} :
        length >= 0 => length \in Nat /\ items + length <= q
  BY <1>1, <1>2, GarbageAssumption
<1>5. used + 1 <= q
  <2>1. items + 0 <= q
    BY <1>4
  <2> HIDE DEF used, items
  <2> QED
    BY <1>3, <2>1
<1>6. HeapHas(1)
  BY <1>1, <1>5, RoomInHeap
<1>7. ASSUME NEW length \in Garbage, length >= 0 PROVE HeapHas(length)
  <2>1. length \in Nat /\ items + length <= q
    BY <1>4, <1>7
  <2>2. used + length <= q
    <3> HIDE DEF used, items
    <3> QED
      BY <1>3, <2>1
  <2> QED
    BY <1>1, <2>1, <2>2, RoomInHeap
<1> QED
  BY <1>6, <1>7

\* Every step that kills the process finds a session looping, or building its
\* answer.
LEMMA MemoryNext ==
  ASSUME TypeOK, \A c \in Conn : Parsed(c), MemoryExhaustedByLoopOrAnswer,
         [Next]_vars
  PROVE  MemoryExhaustedByLoopOrAnswer'
<1> DEFINE Cause == \E c \in Conn : Spinning(c) \/ BuildsAnswer(c)
           Enough == \A m \in Message, length \in Garbage \cup {0} :
                       (Len(Items(m)) + length) * Cardinality(Conn) <= MaxHeap
<1> SUFFICES ASSUME Enough, process' = "killed" PROVE Cause'
  BY DEF MemoryExhaustedByLoopOrAnswer, Items
<1>1. UNCHANGED <<pc, stream>> /\ Cause => Cause'
  BY DEF Spinning, BuildsAnswer
<1> HIDE DEF Cause
<1>2. CASE process = "killed"
  <2>1. UNCHANGED vars
    BY <1>2 DEF Next, Run, Unwind, Return, Accept, Spawn, UseDestroyed, End, ReadQuit,
                ThrowExit, Environment, Connect, Send, Leave, UsePrivate, Relay, Type,
                Session, ReadSome, ParseHeader, ParseBody, Dispatch, OpenFile,
                SlurpFile, ConnectUpstream, Write, Up
  <2>2. Cause
    BY <1>2 DEF MemoryExhaustedByLoopOrAnswer, Cause
  <2> QED
    BY <1>1, <2>1, <2>2 DEF vars, sessionVars, requestVars
<1>3. CASE process # "killed"
  <2>1. PICK c \in Conn :
          \/ ParseHeader(c) \/ ParseBody(c)
          \/ Dispatch(c) \/ SlurpFile(c) \/ Relay(c)
    BY <1>3 DEF Next, Run, Unwind, Return, Accept, Spawn, UseDestroyed, End, ReadQuit,
                ThrowExit, Stop, Environment, Connect, Send, Leave, UsePrivate, Type,
                Session, ReadSome, OpenFile, ConnectUpstream, Write, vars
  <2>2. UNCHANGED sessionVars
    BY <1>3, <2>1 DEF ParseHeader, ParseBody, Dispatch, SlurpFile, Relay, OutOfMemory
  <2>3. UNCHANGED <<pc, stream>>
    BY <2>2 DEF sessionVars, requestVars
  <2>4. CASE ParseHeader(c) \/ ParseBody(c)
    <3>1. pc[c] = "parsing"
      BY <2>4 DEF ParseHeader, ParseBody
    <3>2. ~HeapHas(1) \/ \E length \in Garbage : length >= 0 /\ ~HeapHas(length)
      BY <1>3, <2>4 DEF ParseHeader, ParseBody
    <3>3. PICK d \in Conn : Spinning(d)
      BY <3>1, <3>2, RoomToParse
    <3>4. Cause
      BY <3>3 DEF Cause
    <3> QED
      BY <1>1, <2>3, <3>4
  <2>5. CASE Dispatch(c) \/ SlurpFile(c) \/ Relay(c)
    <3>1. BuildsAnswer(c)
      BY <2>5 DEF Dispatch, SlurpFile, Relay, BuildsAnswer
    <3>2. Cause
      BY <3>1 DEF Cause
    <3> QED
      BY <1>1, <2>3, <3>2
  <2> QED
    BY <2>1, <2>4, <2>5
<1> QED
  BY <1>2, <1>3

\* When the heap holds all the requests and their bodies, memory runs out only
\* by a session looping at the end of its stream or by the length of an answer.
THEOREM MemoryCorrect == Spec => []MemoryExhaustedByLoopOrAnswer
<1>1. Init => MemoryExhaustedByLoopOrAnswer
  BY DEF Init, MemoryExhaustedByLoopOrAnswer
<1>2. /\ TypeOK /\ (\A c \in Conn : Parsed(c)) /\ MemoryExhaustedByLoopOrAnswer
      /\ [Next]_vars
      => MemoryExhaustedByLoopOrAnswer'
  BY MemoryNext
<1> QED
  BY <1>1, <1>2, TypeCorrect, ParsedAlways, PTL DEF Spec
=============================================================================
