------------------------------ MODULE RelayProofs ------------------------------
(***************************************************************************)
(* Which requests get through proxies, and when the header loop fills the  *)
(* memory: proofs about RequestStream for requests sent on any number of   *)
(* times.                                                                  *)
(***************************************************************************)
EXTENDS RequestStreamProofs, FiniteSetTheorems

\* A set of numbers and the same set moved.
LEMMA MovedSet ==
  ASSUME NEW S, S \subseteq Int, IsFiniteSet(S), NEW d \in Int
  PROVE  IsFiniteSet({i + d : i \in S}) /\ Cardinality({i + d : i \in S}) = Cardinality(S)
<1> DEFINE T == {i + d : i \in S}
           f == [i \in S |-> i + d]
<1>1. f \in [S -> T] /\ \A i \in S : f[i] = i + d
  OBVIOUS
<1>2. \A i, j \in S : f[i] = f[j] => i = j
  BY <1>1
<1>3. \A t \in T : \E i \in S : f[i] = t
  BY <1>1
<1> HIDE DEF f, T
<1>4. f \in Bijection(S, T)
  BY <1>1, <1>2, <1>3 DEF Bijection, Injection, Surjection, IsInjective
<1>5. ExistsBijection(S, T)
  BY <1>4 DEF ExistsBijection
<1> QED
  BY <1>5, FS_Bijection DEF T

\* The lines from one place to another, of which the last alone may have
\* colons: where a pass of the header loop ends.
Piece(t, a, b) ==
  /\ a \in Nat /\ b \in Nat /\ a + 2 <= b
  /\ t[a + 1] # "CR" /\ t[b - 1] = "CR" /\ t[b] = "LF"
  /\ \A i \in a + 1..b - 1 :
       /\ t[i] = "CR" => t[i + 1] = "LF" /\ (i + 2 <= b => t[i + 2] # "CR")
       /\ t[i] = ":" => t[i + 1] \notin {":", "CR"} /\ \A j \in i..b - 2 : t[j] # "CR"

ColonsFrom(t, a, b) == {i \in a + 1..b : t[i] = ":"}

LEMMA ColonsFinite ==
  ASSUME NEW t, NEW a \in Nat, NEW b \in Nat
  PROVE  /\ IsFiniteSet(ColonsFrom(t, a, b)) /\ ColonsFrom(t, a, b) \subseteq Int
         /\ Cardinality(ColonsFrom(t, a, b)) \in Nat
<1>1. IsFiniteSet(a + 1..b)
  BY FS_Interval
<1>2. ColonsFrom(t, a, b) \in SUBSET (a + 1..b)
  BY DEF ColonsFrom
<1> QED
  BY <1>1, <1>2, FS_Subset, FS_CardinalityType

\* A piece in a text is the piece by itself.
LEMMA PieceIn ==
  ASSUME NEW t, NEW p, NEW a \in Nat, NEW l \in Nat, Piece(p, 0, l),
         \A j \in 1..l : t[a + j] = p[j]
  PROVE  /\ Piece(t, a, a + l)
         /\ Cardinality(ColonsFrom(t, a, a + l)) = Cardinality(ColonsFrom(p, 0, l))
<1>1. /\ 2 <= l /\ p[1] # "CR" /\ p[l - 1] = "CR" /\ p[l] = "LF"
      /\ \A i \in 1..l - 1 :
           /\ p[i] = "CR" => p[i + 1] = "LF" /\ (i + 2 <= l => p[i + 2] # "CR")
           /\ p[i] = ":" => p[i + 1] \notin {":", "CR"} /\ \A j \in i..l - 2 : p[j] # "CR"
  BY DEF Piece
<1>2. \A i \in a + 1..a + l : i - a \in 1..l /\ t[i] = p[i - a]
  <2> TAKE i \in a + 1..a + l
  <2>1. i - a \in 1..l /\ a + (i - a) = i
    OBVIOUS
  <2> QED
    BY <2>1
<1>3. t[a + 1] # "CR" /\ t[a + l - 1] = "CR" /\ t[a + l] = "LF"
  <2>1. /\ a + 1 \in a + 1..a + l /\ (a + 1) - a = 1
        /\ a + l - 1 \in a + 1..a + l /\ (a + l - 1) - a = l - 1
        /\ a + l \in a + 1..a + l /\ (a + l) - a = l
    BY <1>1
  <2> QED
    BY <1>1, <1>2, <2>1
<1>4. ASSUME NEW i \in a + 1..a + l - 1
      PROVE  /\ t[i] = "CR" => t[i + 1] = "LF" /\ (i + 2 <= a + l => t[i + 2] # "CR")
             /\ t[i] = ":" => /\ t[i + 1] \notin {":", "CR"}
                              /\ \A j \in i..a + l - 2 : t[j] # "CR"
  <2>1. /\ i - a \in 1..l - 1 /\ i \in a + 1..a + l /\ i + 1 \in a + 1..a + l
        /\ (i + 1) - a = (i - a) + 1 /\ (i + 2) - a = (i - a) + 2
        /\ i + 2 <= a + l => i + 2 \in a + 1..a + l /\ (i - a) + 2 <= l
    OBVIOUS
  <2>2. t[i] = p[i - a] /\ t[i + 1] = p[(i - a) + 1]
        /\ (i + 2 <= a + l => t[i + 2] = p[(i - a) + 2] /\ (i - a) + 2 <= l)
    BY <1>2, <2>1
  <2>3. \A j \in i..a + l - 2 : j \in a + 1..a + l /\ j - a \in i - a..l - 2
    BY <2>1
  <2>4. \A j \in i..a + l - 2 : t[j] = p[j - a] /\ j - a \in i - a..l - 2
    BY <1>2, <2>3
  <2> DEFINE x == i - a
  <2>5. /\ p[x] = "CR" => p[x + 1] = "LF" /\ (x + 2 <= l => p[x + 2] # "CR")
        /\ p[x] = ":" => p[x + 1] \notin {":", "CR"} /\ \A j \in x..l - 2 : p[j] # "CR"
    BY <1>1, <2>1
  <2> QED
    BY <2>2, <2>4, <2>5
<1>5. Piece(t, a, a + l)
  BY <1>1, <1>3, <1>4 DEF Piece
<1>6. ColonsFrom(t, a, a + l) = {i + a : i \in ColonsFrom(p, 0, l)}
  <2>1. ASSUME NEW i \in ColonsFrom(t, a, a + l)
        PROVE  i \in {j + a : j \in ColonsFrom(p, 0, l)}
    <3>1. i \in a + 1..a + l /\ t[i] = ":"
      BY DEF ColonsFrom
    <3>2. i - a \in 0 + 1..l /\ p[i - a] = ":" /\ i = (i - a) + a
      BY <1>2, <3>1
    <3> QED
      BY <3>2 DEF ColonsFrom
  <2>2. ASSUME NEW j \in ColonsFrom(p, 0, l)
        PROVE  j + a \in ColonsFrom(t, a, a + l)
    <3>1. j \in 1..l /\ p[j] = ":"
      BY DEF ColonsFrom
    <3>2. j + a \in a + 1..a + l /\ (j + a) - a = j
      BY <3>1
    <3> QED
      BY <1>2, <3>1, <3>2 DEF ColonsFrom
  <2> QED
    BY <2>1, <2>2
<1>7. Cardinality(ColonsFrom(t, a, a + l)) = Cardinality(ColonsFrom(p, 0, l))
  <2>1. 0 \in Nat
    OBVIOUS
  <2> QED
    BY <1>6, <2>1, ColonsFinite, MovedSet
<1> QED
  BY <1>5, <1>7

\* A request as its browser or a proxy writes it: E[k] is where the k-th piece
\* ends, and what is in front of the first.
Shape(t, E, n) ==
  /\ n \in Nat /\ E \in [0..n -> Nat] /\ E[0] \in {7, 9}
  /\ \A j \in 1..7 : t[j] = RequestLine[j]
  /\ E[0] = 9 => t[8] = "CR" /\ t[9] = "LF"
  /\ \A k \in 1..n : Piece(t, E[k - 1], E[k])
  /\ t[E[n] + 1] = "CR" /\ t[E[n] + 2] = "LF" /\ E[n] + 2 <= Len(t)

\* Later pieces are farther on.
LEMMA Farther ==
  ASSUME NEW t, NEW E, NEW n, Shape(t, E, n)
  PROVE  \A k \in 0..n : \A m \in k + 1..n : E[k] <= E[m - 1] /\ E[k] + 2 <= E[m]
<1>1. n \in Nat /\ \A i \in 0..n : E[i] \in Nat
  BY DEF Shape
<1>2. \A i \in 1..n : E[i - 1] + 2 <= E[i]
  BY DEF Shape, Piece
<1> TAKE k \in 0..n
<1> DEFINE T == {m \in k + 1..n : ~(E[k] <= E[m - 1])}
<1>3. T = {}
  <2> SUFFICES ASSUME T # {} PROVE FALSE
    OBVIOUS
  <2>1. T \subseteq Nat
    OBVIOUS
  <2>2. PICK x \in T : \A y \in T : x <= y
    BY <2>1, Smallest
  <2>3. x # k + 1
    BY <1>1, <2>2
  <2>4. x - 1 \in k + 1..n /\ x - 1 \notin T /\ x - 1 \in 1..n /\ (x - 1) - 1 \in 0..n
        /\ x - 1 \in 0..n
    BY <1>1, <2>2, <2>3
  <2>5. E[k] <= E[(x - 1) - 1] /\ E[(x - 1) - 1] + 2 <= E[x - 1]
    BY <1>2, <2>4
  <2>6. E[k] <= E[x - 1]
    BY <1>1, <2>4, <2>5
  <2> QED
    BY <2>2, <2>6
<1>4. ASSUME NEW m \in k + 1..n PROVE E[k] <= E[m - 1] /\ E[k] + 2 <= E[m]
  <2>1. m \in 1..n /\ m - 1 \in 0..n /\ m \in 0..n
    BY <1>1
  <2>3. E[k] <= E[m - 1]
    BY <1>3
  <2>2. E[m - 1] + 2 <= E[m]
    BY <1>2, <2>1
  <2> QED
    BY <1>1, <2>1, <2>2, <2>3
<1> QED
  BY <1>4

\* What is behind the front is in some piece.
LEMMA InPiece ==
  ASSUME NEW t, NEW E, NEW n, Shape(t, E, n), NEW i \in E[0] + 1..E[n]
  PROVE  \E k \in 1..n : E[k - 1] < i /\ i <= E[k]
<1>1. n \in Nat /\ \A k \in 0..n : E[k] \in Nat
  BY DEF Shape
<1> DEFINE T == {k \in 0..n : i <= E[k]}
<1>2. T # {} /\ T \subseteq Nat
  BY <1>1
<1>3. PICK x \in T : \A y \in T : x <= y
  BY <1>2, Smallest
<1>4. x # 0
  BY <1>1, <1>3
<1>5. x \in 1..n /\ x - 1 \in 0..n /\ x - 1 \notin T
  BY <1>1, <1>3, <1>4
<1> QED
  BY <1>1, <1>3, <1>5

\* What the pieces say of the text as a whole: CR LF go together, two line ends
\* in a row are behind the last piece only, and no colon ends a line.
LEMMA Locally ==
  ASSUME NEW t, NEW E, NEW n, Shape(t, E, n), NEW i \in 7..E[n]
  PROVE  /\ t[i] = "CR" => t[i + 1] = "LF" /\ (i + 2 <= E[n] => t[i + 2] # "CR")
         /\ t[i] = ":" => t[i + 1] \notin {":", "CR"}
<1>1. /\ n \in Nat /\ (\A k \in 0..n : E[k] \in Nat) /\ E[0] \in {7, 9}
      /\ t[7] = "LF" /\ (E[0] = 9 => t[8] = "CR" /\ t[9] = "LF")
  <2>1. 7 \in 1..7 /\ RequestLine[7] = "LF"
    BY DEF RequestLine
  <2> QED
    BY <2>1 DEF Shape
<1>2. \A k \in 1..n :
        /\ E[k - 1] + 2 <= E[k]
        /\ t[E[k - 1] + 1] # "CR" /\ t[E[k] - 1] = "CR" /\ t[E[k]] = "LF"
        /\ \A j \in E[k - 1] + 1..E[k] - 1 :
             /\ t[j] = "CR" => t[j + 1] = "LF" /\ (j + 2 <= E[k] => t[j + 2] # "CR")
             /\ t[j] = ":" => t[j + 1] \notin {":", "CR"}
  BY DEF Shape, Piece
<1>3. CASE i <= E[0]
  <2>1. t[i] # ":"
    BY <1>1, <1>3
  <2>2. ASSUME t[i] = "CR" PROVE t[i + 1] = "LF" /\ (i + 2 <= E[n] => t[i + 2] # "CR")
    <3>1. i = 8 /\ E[0] = 9
      BY <1>1, <1>3, <2>2
    <3>2. ASSUME 10 <= E[n] PROVE t[10] # "CR"
      <4>1. n # 0
        BY <3>1, <3>2
      <4>2. 1 \in 1..n /\ E[1 - 1] + 1 = 10
        BY <1>1, <3>1, <4>1
      <4> QED
        BY <1>2, <4>2
    <3> QED
      BY <1>1, <3>1, <3>2
  <2> QED
    BY <2>1, <2>2
<1>4. CASE ~(i <= E[0])
  <2>1. i \in E[0] + 1..E[n]
    BY <1>1, <1>4
  <2>2. PICK k \in 1..n : E[k - 1] < i /\ i <= E[k]
    BY <2>1, InPiece
  <2>3. E[k - 1] \in Nat /\ E[k] \in Nat /\ k - 1 \in 0..n /\ k \in 0..n
    BY <1>1
  <2>4. CASE i = E[k]
    BY <1>2, <2>2, <2>4
  <2>5. CASE i # E[k]
    <3>1. i \in E[k - 1] + 1..E[k] - 1
      BY <2>2, <2>3, <2>5
    <3>2. /\ t[i] = "CR" => t[i + 1] = "LF" /\ (i + 2 <= E[k] => t[i + 2] # "CR")
          /\ t[i] = ":" => t[i + 1] \notin {":", "CR"}
      BY <1>2, <3>1
    <3>3. ASSUME t[i] = "CR", i + 2 <= E[n], ~(i + 2 <= E[k]) PROVE t[i + 2] # "CR"
      <4>1. i + 2 = E[k] + 1 /\ k # n
        BY <2>3, <3>1, <3>3
      <4>2. k + 1 \in 1..n /\ (k + 1) - 1 = k
        BY <1>1, <4>1
      <4> QED
        BY <1>2, <4>1, <4>2
    <3> QED
      BY <3>2, <3>3
  <2> QED
    BY <2>4, <2>5
<1> QED
  BY <1>3, <1>4

\* Where the header loop is, as long as the stream has a position: at the LF of
\* the request line, or behind a piece.
Start(E, k) == IF k = 0 THEN 7 ELSE E[k] + 1

\* The first colon from there is in one of the pieces that follow; the next CR
\* but at once is the one that ends it.
LEMMA ColonAt ==
  ASSUME NEW t, NEW E, NEW n, Shape(t, E, n), NEW k \in 0..n, NEW c \in Start(E, k)..E[n],
         t[c] = ":"
  PROVE  \E m \in k + 1..n :
           /\ E[m - 1] + 1 <= c /\ c + 3 <= E[m] /\ Start(E, k) <= E[m - 1] + 1
           /\ t[E[m] - 1] = "CR" /\ t[E[m]] = "LF"
           /\ \A j \in c..E[m] - 2 : t[j] # "CR"
<1>1. /\ n \in Nat /\ (\A x \in 0..n : E[x] \in Nat) /\ E[0] \in {7, 9}
      /\ t[7] = "LF" /\ (E[0] = 9 => t[8] = "CR" /\ t[9] = "LF")
  <2>1. 7 \in 1..7 /\ RequestLine[7] = "LF"
    BY DEF RequestLine
  <2> QED
    BY <2>1 DEF Shape
<1>2. E[k] \in Nat /\ Start(E, k) \in Nat /\ 7 <= Start(E, k)
      /\ (k # 0 => Start(E, k) = E[k] + 1) /\ (k = 0 => Start(E, k) = 7)
  <2>1. k # 0 => E[0] + 2 <= E[k]
    <3>1. 0 \in 0..n /\ (k # 0 => k \in 0 + 1..n)
      BY <1>1
    <3> QED
      BY <3>1, Farther
  <2> QED
    BY <1>1, <2>1 DEF Start
<1>3. c \in E[0] + 1..E[n]
  <2>1. c \in Nat /\ 7 <= c /\ c <= E[n]
    BY <1>1, <1>2
  <2>2. c # 7 /\ (E[0] = 9 => c # 8 /\ c # 9)
    BY <1>1
  <2> QED
    BY <1>1, <2>1, <2>2
<1>4. PICK m \in 1..n : E[m - 1] < c /\ c <= E[m]
  BY <1>3, InPiece
<1>5. /\ E[m - 1] \in Nat /\ E[m] \in Nat /\ m \in 0..n /\ m - 1 \in 0..n
  BY <1>1
<1>6. /\ E[m - 1] + 2 <= E[m] /\ t[E[m] - 1] = "CR" /\ t[E[m]] = "LF"
      /\ \A i \in E[m - 1] + 1..E[m] - 1 :
           t[i] = ":" => t[i + 1] \notin {":", "CR"} /\ \A j \in i..E[m] - 2 : t[j] # "CR"
  BY DEF Shape, Piece
<1>7. c # E[m] /\ c # E[m] - 1
  BY <1>6
<1>8. c \in E[m - 1] + 1..E[m] - 1
  BY <1>4, <1>5, <1>7
<1>9. c # E[m] - 2
  <2>1. t[c + 1] # "CR"
    BY <1>6, <1>8
  <2>2. c = E[m] - 2 => c + 1 = E[m] - 1
    BY <1>5
  <2> QED
    BY <1>6, <2>1, <2>2
<1>10. c + 3 <= E[m] /\ E[m - 1] + 1 <= c /\ \A j \in c..E[m] - 2 : t[j] # "CR"
  BY <1>4, <1>5, <1>6, <1>7, <1>8, <1>9
<1>11. m \in k + 1..n
  <2>1. SUFFICES ASSUME m <= k PROVE FALSE
    BY <1>1
  <2>2. k # 0 /\ E[k] + 1 <= c /\ c + 3 <= E[m] /\ c \in Nat
    BY <1>2, <1>3, <1>10, <2>1
  <2>3. m # k => E[m] + 2 <= E[k]
    <3>1. m # k => k \in m + 1..n
      BY <1>1, <2>1
    <3> QED
      BY <1>5, <3>1, Farther
  <2> QED
    BY <1>2, <1>5, <2>2, <2>3
<1>12. Start(E, k) <= E[m - 1] + 1
  <2>1. E[k] <= E[m - 1]
    BY <1>11, Farther
  <2>2. 7 <= E[m - 1]
    <3>1. 0 \in 0..n /\ m \in 0 + 1..n
      BY <1>1
    <3>2. E[0] <= E[m - 1]
      BY <3>1, Farther
    <3> QED
      BY <1>1, <1>5, <3>2
  <2> QED
    BY <1>2, <1>5, <2>1, <2>2
<1> QED
  BY <1>6, <1>10, <1>11, <1>12

\* What a proxy writes of the header that a pass reads: from s up to the end of
\* the piece, with a space for the colon at c and the character behind it.
Copied(p, t, s, c, b) ==
  /\ \A j \in 1..c - s : p[j] = t[s + j - 1]
  /\ p[c - s + 1] = " "
  /\ \A j \in c - s + 2..b - s : p[j] = t[s + j]

LEMMA CopyIsPiece ==
  ASSUME NEW t, NEW E, NEW n, Shape(t, E, n), NEW k \in 0..n, NEW m \in k + 1..n,
         NEW s, s = Start(E, k), NEW c, c \in s..E[n], t[c] = ":",
         \A j \in s..c - 1 : t[j] # ":",
         E[m - 1] + 1 <= c, c + 3 <= E[m], \A j \in c..E[m] - 2 : t[j] # "CR",
         t[E[m] - 1] = "CR", t[E[m]] = "LF",
         NEW p, Copied(p, t, s, c, E[m])
  PROVE  /\ Piece(p, 0, E[m] - s)
         /\ Cardinality(ColonsFrom(p, 0, E[m] - s)) + 1
              = Cardinality(ColonsFrom(t, E[m - 1], E[m]))
<1> DEFINE b == E[m]
           a == E[m - 1]
           l == b - s
<1>1. /\ n \in Nat /\ a \in Nat /\ b \in Nat /\ E[k] \in Nat /\ E[n] \in Nat
      /\ E[0] \in {7, 9} /\ t[7] = "LF"
  <2>0. n \in Nat
    BY DEF Shape
  <2>1. 7 \in 1..7 /\ RequestLine[7] = "LF"
    BY DEF RequestLine
  <2>2. m \in 0..n /\ m - 1 \in 0..n /\ n \in 0..n
    BY <2>0
  <2> QED
    BY <2>0, <2>1, <2>2 DEF Shape
<1>2. s \in Nat /\ 7 <= s
  <2>1. k # 0 => E[0] + 2 <= E[k]
    <3>1. 0 \in 0..n /\ (k # 0 => k \in 0 + 1..n)
      BY <1>1
    <3> QED
      BY <3>1, Farther
  <2> QED
    BY <1>1, <2>1 DEF Start
<1>3. b <= E[n]
  <2>1. m # n => E[m] + 2 <= E[n]
    <3>1. m \in 0..n /\ (m # n => n \in m + 1..n)
      BY <1>1
    <3> QED
      BY <3>1, Farther
  <2> QED
    BY <1>1, <2>1
<1>4. s <= a + 1
  <2>1. E[k] <= a
    BY Farther
  <2>2. 7 <= a
    <3>1. 0 \in 0..n /\ m \in 0 + 1..n
      BY <1>1
    <3>2. E[0] <= E[m - 1]
      BY <3>1, Farther
    <3> QED
      BY <1>1, <3>2
  <2> QED
    BY <1>1, <2>1, <2>2 DEF Start
<1>5. t[s] # "CR"
  <2>1. CASE k = 0
    BY <1>1, <2>1 DEF Start
  <2>2. CASE k # 0
    <3>1. k + 1 \in 1..n /\ (k + 1) - 1 = k
      BY <1>1
    <3>2. Piece(t, E[(k + 1) - 1], E[k + 1])
      BY <3>1 DEF Shape
    <3> QED
      BY <2>2, <3>1, <3>2 DEF Piece, Start
  <2> QED
    BY <2>1, <2>2
<1>6. \A i \in s..b :
        /\ t[i] = "CR" => t[i + 1] = "LF" /\ (i + 2 <= b => t[i + 2] # "CR")
        /\ t[i] = ":" => t[i + 1] \notin {":", "CR"}
  <2> TAKE i \in s..b
  <2>1. i \in 7..E[n] /\ (i + 2 <= b => i + 2 <= E[n])
    BY <1>1, <1>2, <1>3
  <2> QED
    BY <2>1, Locally
<1>7. c \in Nat /\ s <= c /\ a + 1 <= c /\ c + 3 <= b
  BY <1>1, <1>2
<1>8. /\ t[c] = ":" /\ (\A j \in s..c - 1 : t[j] # ":") /\ (\A j \in c..b - 2 : t[j] # "CR")
      /\ t[b - 1] = "CR" /\ t[b] = "LF"
  OBVIOUS
<1> HIDE DEF a, b
<1>9. t[c + 1] \notin {":", "CR"}
  <2>1. c \in s..b
    BY <1>1, <1>2, <1>7
  <2> QED
    BY <1>6, <1>8, <2>1
<1>10. /\ \A j \in 1..c - s : p[j] = t[s + j - 1]
       /\ p[c - s + 1] = " "
       /\ \A j \in c - s + 2..l : p[j] = t[s + j]
  BY DEF Copied, b
<1> USE <1>1, <1>2, <1>7
<1>11. l \in Nat /\ 0 + 2 <= l /\ p[l - 1] = "CR" /\ p[l] = "LF" /\ p[0 + 1] # "CR"
  <2>1. l \in Nat /\ l - 1 \in c - s + 2..l /\ l \in c - s + 2..l
        /\ s + (l - 1) = b - 1 /\ s + l = b
    OBVIOUS
  <2>2. p[l - 1] = "CR" /\ p[l] = "LF"
    BY <1>8, <1>10, <2>1
  <2>3. ASSUME c = s PROVE p[1] # "CR"
    <3>1. c - s + 1 = 1
      BY <2>3
    <3> QED
      BY <1>10, <3>1
  <2>4. ASSUME c # s PROVE p[1] # "CR"
    <3>1. 1 \in 1..c - s /\ s + 1 - 1 = s
      BY <2>4
    <3> QED
      BY <1>5, <1>10, <3>1
  <2>5. 0 + 2 <= l /\ 0 + 1 = 1
    OBVIOUS
  <2> QED
    BY <2>1, <2>2, <2>3, <2>4, <2>5
<1>12. ASSUME NEW i \in 0 + 1..l - 1
       PROVE  /\ p[i] = "CR" => p[i + 1] = "LF" /\ (i + 2 <= l => p[i + 2] # "CR")
              /\ p[i] = ":" => /\ p[i + 1] \notin {":", "CR"}
                               /\ \A j \in i..l - 2 : p[j] # "CR"
  <2>1. CASE i \in 1..c - s
    <3> DEFINE x == s + i - 1
    <3>1. x \in s..c - 1 /\ x \in s..b /\ i \in 1..c - s
      BY <2>1
    <3>2. p[i] = t[x] /\ t[x] # ":"
      BY <1>8, <1>10, <3>1
    <3>3. ASSUME t[x] = "CR" PROVE p[i + 1] = "LF" /\ p[i + 2] # "CR"
      <4>1. t[x + 1] = "LF" /\ (x + 2 <= b => t[x + 2] # "CR")
        BY <1>6, <3>1, <3>3
      <4>2. x + 1 # c
        BY <1>8, <4>1
      <4>3. i + 1 \in 1..c - s /\ s + (i + 1) - 1 = x + 1
        BY <3>1, <4>2
      <4>4. p[i + 1] = "LF"
        BY <1>10, <4>1, <4>3
      <4>5. CASE x + 2 = c
        <5>1. i + 2 = c - s + 1
          BY <3>1, <4>5
        <5> QED
          BY <1>10, <4>4, <5>1
      <4>6. CASE x + 2 # c
        <5>1. i + 2 \in 1..c - s /\ s + (i + 2) - 1 = x + 2 /\ x + 2 <= b
          BY <3>1, <4>3, <4>6
        <5> QED
          BY <1>10, <4>1, <4>4, <5>1
      <4> QED
        BY <4>5, <4>6
    <3> QED
      BY <3>2, <3>3
  <2>2. CASE i = c - s + 1
    BY <1>10, <2>2
  <2>3. CASE i \in c - s + 2..l
    <3> DEFINE x == s + i
    <3>1. x \in s..b /\ x \in c..b - 1 /\ i + 1 \in c - s + 2..l /\ s + (i + 1) = x + 1
          /\ (i + 2 <= l => i + 2 \in c - s + 2..l /\ s + (i + 2) = x + 2 /\ x + 2 <= b)
      BY <2>3
    <3>2. p[i] = t[x] /\ p[i + 1] = t[x + 1]
          /\ (i + 2 <= l => p[i + 2] = t[x + 2] /\ x + 2 <= b)
      BY <1>10, <2>3, <3>1
    <3>3. \A j \in i..l - 2 : p[j] # "CR"
      <4> TAKE j \in i..l - 2
      <4>1. j \in c - s + 2..l /\ s + j \in c..b - 2
        BY <2>3
      <4> QED
        BY <1>8, <1>10, <4>1
    <3>4. /\ t[x] = "CR" => t[x + 1] = "LF" /\ (x + 2 <= b => t[x + 2] # "CR")
          /\ t[x] = ":" => t[x + 1] \notin {":", "CR"}
      BY <1>6, <3>1
    <3> QED
      BY <3>2, <3>3, <3>4
  <2>4. i \in 1..c - s \/ i = c - s + 1 \/ i \in c - s + 2..l
    OBVIOUS
  <2> QED
    BY <2>1, <2>2, <2>3, <2>4
<1>13. Piece(p, 0, l)
  <2>1. 0 \in Nat
    OBVIOUS
  <2> HIDE DEF l
  <2> QED
    BY <1>11, <1>12, <2>1 DEF Piece
<1> DEFINE C == ColonsFrom(t, a, b)
           D == ColonsFrom(p, 0, l)
<1>14. C = {c} \cup {i + s : i \in D} /\ c \notin {i + s : i \in D}
  <2>1. ASSUME NEW i \in C, i # c PROVE i - s \in D /\ i = (i - s) + s
    <3>1. i \in a + 1..b /\ t[i] = ":"
      BY DEF ColonsFrom
    <3>2. ~(i < c)
      <4>1. i < c => i \in s..c - 1
        BY <1>4, <3>1
      <4> QED
        BY <1>8, <3>1, <4>1
    <3>3. i # c + 1
      BY <1>9, <3>1
    <3>4. i - s \in c - s + 2..l /\ s + (i - s) = i /\ i - s \in 0 + 1..l
      BY <2>1, <3>1, <3>2, <3>3
    <3>5. p[i - s] = ":"
      BY <1>10, <3>1, <3>4
    <3> QED
      BY <3>1, <3>4, <3>5 DEF ColonsFrom
  <2>2. ASSUME NEW i \in D PROVE i + s \in C /\ i + s # c
    <3>1. i \in 1..l /\ p[i] = ":"
      BY DEF ColonsFrom
    <3>2. i \notin 1..c - s
      <4>1. i \in 1..c - s => s + i - 1 \in s..c - 1
        BY <3>1
      <4> QED
        BY <1>8, <1>10, <3>1, <4>1
    <3>3. i # c - s + 1
      BY <1>10, <3>1
    <3>4. i \in c - s + 2..l /\ s + i = i + s /\ i + s \in a + 1..b /\ i + s # c
      BY <3>1, <3>2, <3>3
    <3>5. t[i + s] = ":"
      BY <1>10, <3>1, <3>4
    <3> QED
      BY <3>4, <3>5 DEF ColonsFrom
  <2>3. c \in C
    <3>1. c \in a + 1..b
      OBVIOUS
    <3> QED
      BY <1>8, <3>1 DEF ColonsFrom
  <2> HIDE DEF C, D
  <2> QED
    BY <2>1, <2>2, <2>3
<1>15. IsFiniteSet(D) /\ D \subseteq Int /\ Cardinality(D) \in Nat
  <2>1. 0 \in Nat /\ l \in Nat
    BY <1>11
  <2> QED
    BY <2>1, ColonsFinite
<1> HIDE DEF C, D, l
<1>16. Cardinality(C) = Cardinality(D) + 1
  <2> DEFINE M == {i + s : i \in D}
  <2>1. IsFiniteSet(M) /\ Cardinality(M) = Cardinality(D)
    <3>1. s \in Int
      OBVIOUS
    <3> QED
      BY <1>15, <3>1, MovedSet, Zenon
  <2>2. C = M \cup {c} /\ c \notin M
    BY <1>14
  <2> HIDE DEF M
  <2>3. Cardinality(M \cup {c}) = Cardinality(M) + 1
    <3>1. IsFiniteSet(M) /\ c \notin M
      BY <2>1, <2>2
    <3>2. \A X : \A e : IsFiniteSet(X) /\ e \notin X
                        => Cardinality(X \cup {e}) = Cardinality(X) + 1
      BY FS_AddElement, Zenon
    <3> QED
      BY <3>1, <3>2
  <2> QED
    BY <2>1, <2>2, <2>3
<1> QED
  BY <1>13, <1>16 DEF C, D, a, b, l

\* There are as many colons in a part of a text as in a piece.
AsMany(t, a, b, p, l) == Cardinality(ColonsFrom(t, a, b)) = Cardinality(ColonsFrom(p, 0, l))

LEMMA AsManyIn ==
  ASSUME NEW t, NEW p, NEW a \in Nat, NEW l \in Nat, Piece(p, 0, l),
         \A j \in 1..l : t[a + j] = p[j]
  PROVE  AsMany(t, a, a + l, p, l)
BY PieceIn DEF AsMany

\* The pieces of a text that was put together.
Shaped(t, E, n, s, content) ==
  /\ Shape(t, E, n)
  /\ n # 0 => AsMany(t, E[n - 1], E[n], s[n], Len(s[n]))
  /\ Len(t) = E[n] + 2 + Len(content)
  /\ \A j \in 1..Len(content) : t[E[n] + 2 + j] = content[j]

\* A request line and pieces, an empty line and a body are a request.
LEMMA ShapeOf ==
  ASSUME NEW front \in {RequestLine, RequestLine \o LineEnd}, NEW n \in Nat,
         NEW s, s \in [1..n -> Text], \A k \in 1..n : Piece(s[k], 0, Len(s[k])),
         NEW content \in Text
  PROVE  LET t == ((front \o FlattenSeq(s)) \o LineEnd) \o content
         IN  \E E : Shaped(t, E, n, s, content)
<1> DEFINE rest == LineEnd \o content
           t == ((front \o FlattenSeq(s)) \o LineEnd) \o content
<1>1. /\ RequestLine \in Text /\ LineEnd \in Text /\ Len(RequestLine) = 7 /\ Len(LineEnd) = 2
      /\ LineEnd[1] = "CR" /\ LineEnd[2] = "LF"
  BY Constants DEF RequestLine, LineEnd
<1>2. /\ front \in Text /\ Len(front) \in {7, 9} /\ \A j \in 1..7 : front[j] = RequestLine[j]
      /\ Len(front) = 9 => front[8] = "CR" /\ front[9] = "LF"
  <2>1. CASE front = RequestLine
    <3>1. Len(front) = 7 /\ front \in Text /\ \A j \in 1..7 : front[j] = RequestLine[j]
      BY <1>1, <2>1, Zenon
    <3>2. 7 \in {7, 9} /\ 7 # 9
      OBVIOUS
    <3> QED
      BY <3>1, <3>2, Zenon
  <2>2. CASE front = RequestLine \o LineEnd
    <3>1. /\ front \in Text /\ Len(front) = Len(RequestLine) + Len(LineEnd)
          /\ \A j \in 1..Len(RequestLine) : front[j] = RequestLine[j]
          /\ \A j \in 1..Len(LineEnd) : front[Len(RequestLine) + j] = LineEnd[j]
      BY <1>1, <2>2, ConcatIs, Zenon
    <3>2. 1 \in 1..2 /\ 2 \in 1..2 /\ 7 + 1 = 8 /\ 7 + 2 = 9
      OBVIOUS
    <3> QED
      BY <1>1, <3>1, <3>2
  <2> QED
    BY <2>1, <2>2
<1>3. /\ rest \in Text /\ Len(rest) = 2 + Len(content) /\ Len(content) \in Nat
      /\ rest[1] = "CR" /\ rest[2] = "LF"
      /\ \A j \in 1..Len(content) : rest[2 + j] = content[j]
  <2>1. /\ rest \in Text /\ Len(rest) = Len(LineEnd) + Len(content) /\ Len(content) \in Nat
        /\ \A j \in 1..Len(LineEnd) : rest[j] = LineEnd[j]
        /\ \A j \in 1..Len(content) : rest[Len(LineEnd) + j] = content[j]
    BY <1>1, ConcatIs, Zenon
  <2>2. 1 \in 1..2 /\ 2 \in 1..2
    OBVIOUS
  <2> HIDE DEF rest
  <2> QED
    BY <1>1, <2>1, <2>2
<1>4. t = (front \o FlattenSeq(s)) \o rest
  <2> DEFINE x == front \o FlattenSeq(s)
  <2>1. x \in Text
    <3>1. FlattenSeq(s) \in Text
      BY FlattenText
    <3> QED
      BY <1>2, <3>1, ConcatText, Zenon
  <2> HIDE DEF x
  <2>2. (x \o LineEnd) \o content = x \o (LineEnd \o content)
    BY <1>1, <2>1, ConcatThree
  <2> QED
    BY <2>2 DEF x
<1>5. PICK E : Laid(t, front, s, n, rest, E)
  <2>1. rest \in Text /\ front \in Text
    BY <1>2, <1>3
  <2> HIDE DEF rest, t
  <2>2. \E E : Laid((front \o FlattenSeq(s)) \o rest, front, s, n, rest, E)
    BY <2>1, LaidExists, Zenon
  <2> QED
    BY <1>4, <2>2, Zenon
<1> HIDE DEF t, rest
<1>6. /\ E \in [0..n -> Nat] /\ E[0] = Len(front)
      /\ \A j \in 1..Len(front) : t[j] = front[j]
      /\ \A k \in 1..n : /\ E[k] = E[k - 1] + Len(s[k])
                         /\ \A j \in 1..Len(s[k]) : t[E[k - 1] + j] = s[k][j]
      /\ Len(t) = E[n] + Len(rest)
      /\ \A j \in 1..Len(rest) : t[E[n] + j] = rest[j]
  BY <1>5 DEF Laid
<1>7. \A k \in 1..n : /\ Piece(t, E[k - 1], E[k])
                      /\ AsMany(t, E[k - 1], E[k], s[k], Len(s[k]))
  <2> TAKE k \in 1..n
  <2> DEFINE a == E[k - 1]
             l == Len(s[k])
             p == s[k]
  <2>1. a \in Nat /\ l \in Nat /\ Piece(p, 0, l) /\ E[k] = a + l
        /\ \A j \in 1..l : t[a + j] = p[j]
    <3>1. k - 1 \in 0..n /\ s[k] \in Text
      OBVIOUS
    <3>2. Len(s[k]) \in Nat
      BY <3>1, LenProperties DEF Text
    <3> QED
      BY <1>6, <3>1, <3>2
  <2> HIDE DEF a, l, p
  <2>2. Piece(t, a, a + l) /\ AsMany(t, a, a + l, p, l)
    <3>1. a \in Nat
      BY <2>1
    <3>2. l \in Nat
      BY <2>1
    <3>3. Piece(p, 0, l)
      BY <2>1
    <3>4. \A j \in 1..l : t[a + j] = p[j]
      BY <2>1
    <3>5. Piece(t, a, a + l)
      BY <3>1, <3>2, <3>3, <3>4, PieceIn, Zenon
    <3>6. AsMany(t, a, a + l, p, l)
      BY <3>1, <3>2, <3>3, <3>4, AsManyIn, Zenon
    <3> QED
      BY <3>5, <3>6, Zenon
  <2> QED
    BY <2>1, <2>2 DEF a, l, p
<1>8. E[n] \in Nat /\ t[E[n] + 1] = "CR" /\ t[E[n] + 2] = "LF" /\ E[n] + 2 <= Len(t)
      /\ Len(t) = E[n] + 2 + Len(content)
      /\ \A j \in 1..Len(content) : t[E[n] + 2 + j] = content[j]
  <2> DEFINE e == E[n]
             l == Len(content)
  <2>1. e \in Nat /\ l \in Nat /\ Len(t) = e + (2 + l)
    BY <1>3, <1>6
  <2>2. \A j \in 1..2 + l : t[e + j] = rest[j]
    BY <1>3, <1>6
  <2> HIDE DEF e, l
  <2>3. 1 \in 1..2 + l /\ 2 \in 1..2 + l /\ e + 2 <= Len(t) /\ Len(t) = e + 2 + l
    BY <2>1
  <2>4. \A j \in 1..l : 2 + j \in 1..2 + l /\ e + (2 + j) = e + 2 + j
    BY <2>1
  <2>5. \A j \in 1..l : rest[2 + j] = content[j]
    BY <1>3 DEF l
  <2>6. \A j \in 1..l : t[e + 2 + j] = content[j]
    BY <2>2, <2>4, <2>5
  <2> QED
    BY <1>3, <2>1, <2>2, <2>3, <2>6 DEF e, l
<1>9. Shape(t, E, n)
  <2>1. \A j \in 1..7 : t[j] = RequestLine[j]
    <3> TAKE j \in 1..7
    <3>1. j \in 1..Len(front)
      BY <1>2
    <3> QED
      BY <1>2, <1>6, <3>1
  <2>2. E[0] = 9 => t[8] = "CR" /\ t[9] = "LF"
    <3>1. Len(front) = 9 => 8 \in 1..Len(front) /\ 9 \in 1..Len(front)
      OBVIOUS
    <3> QED
      BY <1>2, <1>6, <3>1
  <2> QED
    BY <1>2, <1>6, <1>7, <1>8, <2>1, <2>2 DEF Shape
<1>10. n # 0 => AsMany(t, E[n - 1], E[n], s[n], Len(s[n]))
  <2>1. n # 0 => n \in 1..n
    OBVIOUS
  <2> QED
    BY <1>7, <2>1
<1> QED
  BY <1>8, <1>9, <1>10 DEF Shaped, t

\* No colon of a header is followed by another or by its end.
ApartIn(h) ==
  \A j \in 1..Len(h.value) + 1 :
    LET line == <<":">> \o h.value \o <<"CR">>
    IN  line[j] = ":" => line[j + 1] \notin {":", "CR"}

\* A header that is sent is such a piece.
LEMMA WrittenPiece ==
  ASSUME NEW h \in Sendable, ApartIn(h)
  PROVE  Piece(Written(h), 0, Len(Written(h)))
<1> DEFINE m == Len(h.name)
           n == Len(h.value)
           w == Written(h)
           l == m + n + 3
<1>1. /\ m \in Nat /\ n \in Nat /\ Len(w) = l
      /\ \A j \in 1..m : w[j] = h.name[j] /\ h.name[j] \notin {":", "CR"}
      /\ w[m + 1] = ":"
      /\ \A j \in 1..n : w[m + 1 + j] = h.value[j] /\ h.value[j] # "CR"
      /\ w[m + n + 2] = "CR"
  BY WrittenIs DEF Spelled
<1>2. w[l] = "LF"
  <2> DEFINE x == (h.name \o <<":">>) \o h.value
  <2>1. x \in Text /\ w = x \o LineEnd /\ LineEnd \in Text /\ Len(LineEnd) = 2 /\ LineEnd[2] = "LF"
    <3>1. Len(LineEnd) = 2 /\ LineEnd[2] = "LF"
      BY DEF LineEnd
    <3> QED
      BY <3>1, WrittenText, Constants, ConcatText
  <2> HIDE DEF x
  <2> HIDE DEF m, n, w
  <2>4. Len(x \o LineEnd) = Len(x) + Len(LineEnd) /\ Len(x) \in Nat
        /\ \A j \in 1..Len(LineEnd) : (x \o LineEnd)[Len(x) + j] = LineEnd[j]
    BY <2>1, ConcatIs, Zenon
  <2>2. Len(w) = Len(x) + Len(LineEnd) /\ Len(x) \in Nat
        /\ \A j \in 1..Len(LineEnd) : w[Len(x) + j] = LineEnd[j]
    BY <2>1, <2>4, Zenon
  <2>3. 2 \in 1..2 /\ Len(x) + 2 = l
    BY <1>1, <2>1, <2>2
  <2> QED
    BY <2>1, <2>2, <2>3
<1>3. /\ h.value \in Text
      /\ \A j \in 1..n + 1 : w[m + j] = ":" => w[m + j + 1] \notin {":", "CR"}
  <2> DEFINE a == <<":">> \o h.value
             line == a \o <<"CR">>
  <2>1. h.value \in Text /\ <<":">> \in Text /\ <<"CR">> \in Text
    <3>1. <<"CR">> \in Text
      <4>1. "CR" \in Lexeme
        BY TextAssumption
      <4> QED
        BY <4>1, Pair DEF Text
    <3> QED
      BY <3>1, WrittenText, Constants
  <2>2. /\ a \in Text /\ Len(a) = Len(<<":">>) + n
        /\ \A j \in 1..Len(<<":">>) : a[j] = (<<":">>)[j]
        /\ \A j \in 1..n : a[Len(<<":">>) + j] = h.value[j]
    BY <2>1, ConcatIs, Zenon
  <2>3. Len(<<":">>) = 1 /\ (<<":">>)[1] = ":" /\ Len(<<"CR">>) = 1 /\ (<<"CR">>)[1] = "CR"
    OBVIOUS
  <2> HIDE DEF a
  <2>4. /\ \A j \in 1..Len(a) : line[j] = a[j]
        /\ \A j \in 1..Len(<<"CR">>) : line[Len(a) + j] = (<<"CR">>)[j]
    BY <2>1, <2>2, ConcatIs, Zenon
  <2> HIDE DEF line
  <2> HIDE DEF n, m, w
  <2>5. Len(a) = n + 1 /\ a[1] = ":" /\ \A j \in 1..n : a[1 + j] = h.value[j]
    <3>1. 1 \in 1..1
      OBVIOUS
    <3> QED
      BY <1>1, <2>2, <2>3, <3>1
  <2>6. /\ \A j \in 1..n + 1 : line[j] = a[j]
        /\ line[n + 2] = "CR"
    <3>1. 1 \in 1..1 /\ (n + 1) + 1 = n + 2
      BY <1>1
    <3> QED
      BY <2>3, <2>4, <2>5, <3>1
  <2>7. \A j \in 1..n + 2 : w[m + j] = line[j]
    <3> TAKE j \in 1..n + 2
    <3>1. CASE j = 1
      <4>1. 1 \in 1..n + 1
        BY <1>1
      <4> QED
        BY <1>1, <2>5, <2>6, <3>1, <4>1
    <3>2. CASE j = n + 2
      <4>1. m + (n + 2) = m + n + 2
        BY <1>1
      <4> QED
        BY <1>1, <2>6, <3>2, <4>1
    <3>3. CASE j # 1 /\ j # n + 2
      <4>1. j - 1 \in 1..n /\ m + 1 + (j - 1) = m + j /\ 1 + (j - 1) = j /\ j \in 1..n + 1
        BY <1>1, <3>3
      <4>2. w[m + j] = h.value[j - 1] /\ a[j] = h.value[j - 1]
        BY <1>1, <2>5, <4>1
      <4> QED
        BY <2>6, <4>1, <4>2
    <3> QED
      BY <3>1, <3>2, <3>3
  <2>8. \A j \in 1..n + 1 : line[j] = ":" => line[j + 1] \notin {":", "CR"}
    BY DEF ApartIn, line, a, n
  <2>9. \A j \in 1..n + 1 : j \in 1..n + 2 /\ j + 1 \in 1..n + 2 /\ m + (j + 1) = m + j + 1
    BY <1>1
  <2> QED
    BY <2>1, <2>7, <2>8, <2>9
<1> HIDE DEF m, n, w
<1>4. \A j \in 1..m + n + 1 : w[j] # "CR"
  <2> TAKE j \in 1..m + n + 1
  <2>1. CASE j \in 1..m
    BY <1>1, <2>1
  <2>2. CASE j = m + 1
    BY <1>1, <2>2
  <2>3. CASE j \notin 1..m /\ j # m + 1
    <3>1. j - (m + 1) \in 1..n /\ m + 1 + (j - (m + 1)) = j
      BY <1>1, <2>3
    <3> QED
      BY <1>1, <3>1
  <2> QED
    BY <2>1, <2>2, <2>3
<1>5. l \in Nat /\ 0 + 2 <= l /\ w[0 + 1] # "CR" /\ w[l - 1] = "CR"
  <2>1. l \in Nat /\ 0 + 2 <= l /\ 0 + 1 \in 1..m + n + 1 /\ l - 1 = m + n + 2
    BY <1>1
  <2> QED
    BY <1>1, <1>4, <2>1
<1>6. ASSUME NEW i \in 0 + 1..l - 1
      PROVE  /\ w[i] = "CR" => w[i + 1] = "LF" /\ (i + 2 <= l => w[i + 2] # "CR")
             /\ w[i] = ":" => /\ w[i + 1] \notin {":", "CR"}
                              /\ \A j \in i..l - 2 : w[j] # "CR"
  <2>1. CASE i = l - 1
    <3>1. i + 1 = l /\ ~(i + 2 <= l)
      BY <1>1, <2>1
    <3> QED
      BY <1>2, <1>5, <2>1, <3>1
  <2>2. CASE i # l - 1
    <3>1. i \in 1..m + n + 1 /\ \A j \in i..l - 2 : j \in 1..m + n + 1
      BY <1>1, <2>2
    <3>2. w[i] # "CR" /\ \A j \in i..l - 2 : w[j] # "CR"
      BY <1>4, <3>1
    <3>3. ASSUME w[i] = ":" PROVE w[i + 1] \notin {":", "CR"}
      <4>1. i \notin 1..m
        BY <1>1, <3>3
      <4>2. i - m \in 1..n + 1 /\ m + (i - m) = i
        BY <1>1, <3>1, <4>1
      <4> QED
        BY <1>3, <3>3, <4>2
    <3> QED
      BY <3>2, <3>3
  <2> QED
    BY <2>1, <2>2
<1>7. Piece(w, 0, l)
  <2>1. 0 \in Nat
    OBVIOUS
  <2> HIDE DEF l
  <2> QED
    BY <1>2, <1>5, <1>6, <2>1 DEF Piece
<1> QED
  BY <1>1, <1>7 DEF w

\* A line that is read is what is in front of its delimiter.
LEMMA LineFound ==
  ASSUME NEW at \in Nat \ {0}, NEW d, got \in Text, NEW i, i = Find(at, {d}), i # 0
  PROVE  /\ Line(at, d) \in Text /\ Len(Line(at, d)) = i - at
         /\ \A j \in 1..i - at : Line(at, d)[j] = got[at + j - 1]
<1>1. Len(got) \in Nat /\ got \in Seq(Lexeme) /\ at \in Nat /\ at # 0
  BY LenProperties DEF Text
<1>2. i \in at..Len(got)
  BY <1>1, FindIs
<1> DEFINE r == SubSeq(got, at, i - 1)
<1>3. Line(at, d) = r
  BY <1>1 DEF Line, Upto
<1>4. \A j \in at..i - 1 : got[j] \in Lexeme
  BY <1>1, <1>2, ElementOfSeq
<1>5. /\ r \in Seq(Lexeme) /\ Len(r) = IF at <= i - 1 THEN (i - 1) - at + 1 ELSE 0
      /\ \A j \in 1..(i - 1) - at + 1 : r[j] = got[at + j - 1]
  <2> DEFINE e == i - 1
  <2>1. at \in Int /\ e \in Int /\ \A j \in at..e : got[j] \in Lexeme
    <3>1. at \in Int /\ e \in Int
      BY <1>1, <1>2
    <3> QED
      BY <1>4, <3>1, Zenon
  <2> HIDE DEF e
  <2>2. /\ SubSeq(got, at, e) \in Seq(Lexeme)
        /\ Len(SubSeq(got, at, e)) = IF at <= e THEN e - at + 1 ELSE 0
        /\ \A j \in 1..e - at + 1 : SubSeq(got, at, e)[j] = got[at + j - 1]
    BY <2>1, SubSeqProperties
  <2> QED
    BY <2>2 DEF e
<1> HIDE DEF r
<1>6. (i - 1) - at + 1 = i - at /\ (IF at <= i - 1 THEN (i - 1) - at + 1 ELSE 0) = i - at
  BY <1>1, <1>2
<1> QED
  BY <1>3, <1>5, <1>6 DEF Text

\* What a proxy writes of a header.
Sent(h) == h.first \o <<" ">> \o h.second \o LineEnd

LEMMA SentIs ==
  ASSUME NEW h \in Readable
  PROVE  LET f == Len(h.first)
             g == Len(h.second)
         IN  /\ f \in Nat /\ g \in Nat /\ Sent(h) \in Text /\ Len(Sent(h)) = f + g + 3
             /\ \A j \in 1..f : Sent(h)[j] = h.first[j]
             /\ Sent(h)[f + 1] = " "
             /\ \A j \in 1..g : Sent(h)[f + 1 + j] = h.second[j]
             /\ Sent(h)[f + g + 2] = "CR" /\ Sent(h)[f + g + 3] = "LF"
<1> DEFINE f == Len(h.first)
           g == Len(h.second)
           x == h.first \o <<" ">>
           y == x \o h.second
           p == Sent(h)
<1>1. h.first \in Text /\ h.second \in Text /\ f \in Nat /\ g \in Nat
  BY LenProperties DEF Readable, Text
<1>2. <<" ">> \in Text /\ LineEnd \in Text /\ Len(<<" ">>) = 1 /\ (<<" ">>)[1] = " "
      /\ Len(LineEnd) = 2 /\ LineEnd[1] = "CR" /\ LineEnd[2] = "LF"
  BY Constants DEF LineEnd
<1>3. /\ x \in Text /\ Len(x) = f + Len(<<" ">>)
      /\ \A j \in 1..f : x[j] = h.first[j]
      /\ \A j \in 1..Len(<<" ">>) : x[f + j] = (<<" ">>)[j]
  BY <1>1, <1>2, ConcatIs, Zenon
<1>4. p = y \o LineEnd
  BY DEF Sent
<1> HIDE DEF x
<1>5. /\ y \in Text /\ Len(y) = Len(x) + g
      /\ \A j \in 1..Len(x) : y[j] = x[j]
      /\ \A j \in 1..g : y[Len(x) + j] = h.second[j]
  BY <1>1, <1>3, ConcatIs, Zenon
<1> HIDE DEF y
<1>6. /\ y \o LineEnd \in Text /\ Len(y \o LineEnd) = Len(y) + Len(LineEnd)
      /\ \A j \in 1..Len(y) : (y \o LineEnd)[j] = y[j]
      /\ \A j \in 1..Len(LineEnd) : (y \o LineEnd)[Len(y) + j] = LineEnd[j]
  BY <1>2, <1>5, ConcatIs, Zenon
<1> HIDE DEF p
<1>7. /\ p \in Text /\ Len(p) = Len(y) + 2
      /\ \A j \in 1..Len(y) : p[j] = y[j]
      /\ \A j \in 1..2 : p[Len(y) + j] = LineEnd[j]
  BY <1>2, <1>4, <1>6, Zenon
<1> HIDE DEF f, g
<1>8. Len(x) = f + 1 /\ Len(y) = f + 1 + g
  BY <1>1, <1>2, <1>3, <1>5
<1>9. x[f + 1] = " "
  <2>1. 1 \in 1..1
    OBVIOUS
  <2> QED
    BY <1>2, <1>3, <2>1
<1>10. \A j \in 1..f + 1 : j \in 1..f + 1 + g
  BY <1>1
<1>11. \A j \in 1..f + 1 : p[j] = x[j]
  BY <1>5, <1>7, <1>8, <1>10
<1>12. \A j \in 1..f : j \in 1..f + 1
  BY <1>1
<1>13. f + 1 \in 1..f + 1
  BY <1>1
<1>14. \A j \in 1..g : f + 1 + j \in 1..f + 1 + g
  BY <1>1
<1>15. 1 \in 1..2 /\ 2 \in 1..2 /\ f + 1 + g + 1 = f + g + 2 /\ f + 1 + g + 2 = f + g + 3
  BY <1>1
<1>16. \A j \in 1..f : p[j] = h.first[j]
  BY <1>3, <1>11, <1>12
<1>17. p[f + 1] = " "
  BY <1>9, <1>11, <1>13
<1>18. \A j \in 1..g : p[f + 1 + j] = h.second[j]
  BY <1>5, <1>7, <1>8, <1>14
<1>19. p[f + g + 2] = "CR" /\ p[f + g + 3] = "LF" /\ Len(p) = f + g + 3
  BY <1>2, <1>7, <1>8, <1>15
<1> QED
  BY <1>1, <1>7, <1>16, <1>17, <1>18, <1>19 DEF f, g, p

\* The line after a colon ends with the CR that ends the piece.
LEMMA ValueAt ==
  ASSUME NEW c \in Nat \ {0}, NEW e \in Nat, c + 3 <= e, got \in Text, Begins,
         GetLine(stream, ":") = c + 1,
         \A j \in c..e - 2 : text[j] # "CR", text[e - 1] = "CR"
  PROVE  /\ AfterValue(AfterName(stream)) = IF e <= Len(got) THEN e + 1 ELSE 0
         /\ e <= Len(got) => AfterName(stream) = c + 2 /\ Find(c + 2, {"CR"}) = e - 1
<1>1. Len(got) \in Nat
  BY LenProperties DEF Text
<1>2. c + 1 \in Nat /\ c + 1 # 0
  OBVIOUS
<1>3. AfterName(stream) = IF c + 1 <= Len(got) THEN c + 2 ELSE 0
  <2>1. AfterName(stream) = Ignore(c + 1, 1, " ")
    BY DEF AfterName
  <2>2. Ignore(c + 1, 1, " ") = IF c + 1 # 0 /\ c + 1 <= Len(got) THEN (c + 1) + 1 ELSE 0
    BY <1>2, IgnoreOne, Zenon
  <2>3. c + 1 # 0 /\ (c + 1) + 1 = c + 2
    OBVIOUS
  <2> QED
    BY <2>1, <2>2, <2>3
<1>4. Find(c + 2, {"CR"}) = IF e - 1 <= Len(got) THEN e - 1 ELSE 0
  <2>1. c + 2 \in Nat \ {0} /\ e - 1 \in Nat /\ c + 2 <= e - 1
    OBVIOUS
  <2>2. \A j \in c + 2..(e - 1) - 1 : j \in c..e - 2
    OBVIOUS
  <2>3. \A j \in c + 2..(e - 1) - 1 : text[j] \notin {"CR"}
    BY <2>2
  <2>4. text[e - 1] \in {"CR"}
    OBVIOUS
  <2> QED
    BY <2>1, <2>3, <2>4, FirstAt, Zenon
<1>5. GetLine(c + 2, "CR") = IF e - 1 <= Len(got) THEN e ELSE 0
  <2>1. e - 1 # 0 /\ (e - 1) + 1 = e
    OBVIOUS
  <2> QED
    BY <1>4, <2>1 DEF GetLine
<1>6. Ignore(e, 1, "LF") = IF e <= Len(got) THEN e + 1 ELSE 0
  <2>1. e # 0
    OBVIOUS
  <2> QED
    BY <2>1, IgnoreOne, Zenon
<1>7. Find(0, {"CR"}) = 0 /\ GetLine(0, "CR") = 0 /\ Ignore(0, 1, "LF") = 0
  BY DEF GetLine, Find, Ignore
<1>8. AfterValue(0) = 0
  BY <1>7 DEF AfterValue
<1>9. AfterValue(c + 2) = IF e <= Len(got) THEN e + 1 ELSE 0
  <2>1. CASE e - 1 <= Len(got)
    BY <1>5, <1>6, <2>1 DEF AfterValue
  <2>2. CASE ~(e - 1 <= Len(got))
    <3>1. ~(e <= Len(got))
      BY <1>1, <2>2
    <3>2. AfterValue(c + 2) = 0
      BY <1>5, <1>7, <2>2 DEF AfterValue
    <3> QED
      BY <3>1, <3>2
  <2> QED
    BY <2>1, <2>2
<1>10. e <= Len(got) => e - 1 <= Len(got) /\ c + 1 <= Len(got)
  BY <1>1
<1> QED
  BY <1>3, <1>4, <1>8, <1>9, <1>10

\* A piece has a colon less than a part of a text.
OneLess(p, l, t, a, b) ==
  Cardinality(ColonsFrom(p, 0, l)) + 1 = Cardinality(ColonsFrom(t, a, b))

LEMMA CopyHasOneLess ==
  ASSUME NEW t, NEW E, NEW n, Shape(t, E, n), NEW k \in 0..n, NEW m \in k + 1..n,
         NEW s, s = Start(E, k), NEW c, c \in s..E[n], t[c] = ":",
         \A j \in s..c - 1 : t[j] # ":",
         E[m - 1] + 1 <= c, c + 3 <= E[m], \A j \in c..E[m] - 2 : t[j] # "CR",
         t[E[m] - 1] = "CR", t[E[m]] = "LF",
         NEW p, Copied(p, t, s, c, E[m])
  PROVE  Piece(p, 0, E[m] - s) /\ OneLess(p, E[m] - s, t, E[m - 1], E[m])
BY CopyIsPiece DEF OneLess

\* What a pass of the loop reads, and where it ends: a piece with a colon, and
\* the pieces without one in front of it.
LEMMA PassIs ==
  ASSUME NEW E, NEW n, Shape(text, E, n), NEW k \in 0..n, stream = Start(E, k),
         got \in Text, Begins, NEW c, c = Find(stream, {":"}), c # 0, c <= E[n]
  PROVE  LET b == AfterName(stream)
             p == Sent([first |-> Line(stream, ":"), second |-> Line(b, "CR")])
         IN  \E m \in k + 1..n :
               /\ AfterValue(b) = IF E[m] <= Len(got) THEN E[m] + 1 ELSE 0
               /\ E[m] <= Len(got) =>
                    Piece(p, 0, Len(p)) /\ OneLess(p, Len(p), text, E[m - 1], E[m])
<1> DEFINE b == AfterName(stream)
           h == [first |-> Line(stream, ":"), second |-> Line(b, "CR")]
           p == Sent(h)
<1>1. /\ n \in Nat /\ (\A x \in 0..n : E[x] \in Nat) /\ Len(got) \in Nat /\ got \in Seq(Lexeme)
  BY LenProperties DEF Shape, Text
<1>2. stream \in Nat \ {0}
  <2>1. E[k] \in Nat
    BY <1>1
  <2> QED
    BY <2>1 DEF Start
<1>3. /\ c \in Nat /\ c \in stream..Len(got) /\ got[c] = ":"
      /\ \A j \in stream..c - 1 : got[j] # ":"
  <2>1. stream \in Nat
    BY <1>2
  <2> QED
    BY <1>1, <2>1, FindIs
<1>4. /\ text[c] = ":" /\ c \in Nat \ {0}
      /\ \A j \in stream..c - 1 : got[j] = text[j] /\ text[j] # ":"
  <2>1. c \in 1..Len(got) /\ \A j \in stream..c - 1 : j \in 1..Len(got)
    BY <1>1, <1>2, <1>3
  <2> QED
    BY <1>3, <2>1 DEF Begins
<1>5. c \in Start(E, k)..E[n]
  BY <1>1, <1>2, <1>3
<1>6. PICK m \in k + 1..n :
        /\ E[m - 1] + 1 <= c /\ c + 3 <= E[m] /\ Start(E, k) <= E[m - 1] + 1
        /\ text[E[m] - 1] = "CR" /\ text[E[m]] = "LF"
        /\ \A j \in c..E[m] - 2 : text[j] # "CR"
  BY <1>4, <1>5, ColonAt
<1>7. E[m] \in Nat /\ m \in 1..n
  <2>1. m \in 1..n /\ m \in 0..n
    BY <1>1
  <2> QED
    BY <1>1, <2>1
<1>8. GetLine(stream, ":") = c + 1
  BY DEF GetLine
<1> DEFINE e == E[m]
<1>9. /\ AfterValue(b) = IF e <= Len(got) THEN e + 1 ELSE 0
      /\ e <= Len(got) => b = c + 2 /\ Find(c + 2, {"CR"}) = e - 1
  <2>1. e \in Nat /\ c + 3 <= e /\ text[e - 1] = "CR" /\ \A j \in c..e - 2 : text[j] # "CR"
    BY <1>6, <1>7
  <2> HIDE DEF e
  <2> QED
    BY <1>4, <1>8, <2>1, ValueAt
<1>10. ASSUME e <= Len(got)
       PROVE  Piece(p, 0, Len(p)) /\ OneLess(p, Len(p), text, E[m - 1], E[m])
  <2> DEFINE f == c - stream
             g == e - c - 3
  <2>1. /\ h.first \in Text /\ Len(h.first) = f
        /\ \A j \in 1..f : h.first[j] = got[stream + j - 1]
    <3> DEFINE l == Line(stream, ":")
    <3>1. l \in Text /\ Len(l) = c - stream /\ \A j \in 1..c - stream : l[j] = got[stream + j - 1]
      BY <1>2, LineFound
    <3>2. h.first = l
      OBVIOUS
    <3> HIDE DEF h, l
    <3> QED
      BY <3>1, <3>2
  <2>2. /\ h.second \in Text /\ Len(h.second) = g
        /\ \A j \in 1..g : h.second[j] = got[c + 2 + j - 1]
    <3> DEFINE l == Line(c + 2, "CR")
    <3>1. c + 2 \in Nat \ {0} /\ e - 1 # 0 /\ (e - 1) - (c + 2) = g /\ e - 1 = Find(c + 2, {"CR"})
      BY <1>4, <1>6, <1>7, <1>9, <1>10, SMTT(30)
    <3>2. /\ l \in Text /\ Len(l) = (e - 1) - (c + 2)
          /\ \A j \in 1..(e - 1) - (c + 2) : l[j] = got[(c + 2) + j - 1]
      <4> DEFINE x == c + 2
                 y == e - 1
      <4>1. x \in Nat \ {0} /\ y = Find(x, {"CR"}) /\ y # 0
        BY <3>1
      <4> HIDE DEF x, y
      <4>2. /\ Line(x, "CR") \in Text /\ Len(Line(x, "CR")) = y - x
            /\ \A j \in 1..y - x : Line(x, "CR")[j] = got[x + j - 1]
        BY <4>1, LineFound
      <4> QED
        BY <4>2 DEF x, y
    <3>3. h.second = l
      BY <1>9, <1>10
    <3> HIDE DEF h, l, g
    <3> QED
      BY <3>1, <3>2, <3>3
  <2>3. h \in Readable
    BY <2>1, <2>2 DEF Readable
  <2>4. /\ Len(p) = f + g + 3
        /\ \A j \in 1..f : p[j] = h.first[j]
        /\ p[f + 1] = " "
        /\ \A j \in 1..g : p[f + 1 + j] = h.second[j]
        /\ p[f + g + 2] = "CR" /\ p[f + g + 3] = "LF"
    <3>1. Len(h.first) = f /\ Len(h.second) = g
      BY <2>1, <2>2
    <3> HIDE DEF h, f, g
    <3> QED
      BY <2>3, <3>1, SentIs
  <2>5. \A j \in 1..e : got[j] = text[j]
    BY <1>1, <1>7, <1>10 DEF Begins
  <2> HIDE DEF h, p
  <2>6. stream \in Nat /\ stream # 0 /\ c \in Nat /\ e \in Nat /\ stream <= c /\ c + 3 <= e
    BY <1>2, <1>3, <1>6, <1>7
  <2> HIDE DEF e
  <2>7. f + g + 3 = e - stream
    BY <2>6
  <2>8. Copied(p, text, stream, c, e)
    <3>1. \A j \in 1..c - stream : p[j] = text[stream + j - 1]
      <4>1. \A j \in 1..f : stream + j - 1 \in 1..e
        BY <2>6
      <4> HIDE DEF f
      <4>2. \A j \in 1..f : p[j] = text[stream + j - 1]
        BY <2>1, <2>4, <2>5, <4>1, Zenon
      <4> QED
        BY <4>2 DEF f
    <3>2. p[c - stream + 1] = " "
      BY <2>4
    <3>3. \A j \in c - stream + 2..e - stream : p[j] = text[stream + j]
      <4> TAKE j \in c - stream + 2..e - stream
      <4>1. CASE j \in f + 2..f + 1 + g
        <5>1. /\ j - (f + 1) \in 1..g /\ f + 1 + (j - (f + 1)) = j
              /\ c + 2 + (j - (f + 1)) - 1 = stream + j /\ stream + j \in 1..e
          BY <2>6, <4>1
        <5> DEFINE i == j - (f + 1)
        <5>2. i \in 1..g /\ f + 1 + i = j /\ c + 2 + i - 1 = stream + j
              /\ stream + j \in 1..e
          BY <5>1
        <5> HIDE DEF f, g, i
        <5>3. p[f + 1 + i] = h.second[i] /\ h.second[i] = got[c + 2 + i - 1]
          BY <2>2, <2>4, <5>2, Zenon
        <5>4. got[stream + j] = text[stream + j]
          BY <2>5, <5>2, Zenon
        <5> QED
          BY <5>2, <5>3, <5>4, Zenon
      <4>2. CASE j = f + g + 2
        <5>1. stream + j = e - 1
          BY <2>6, <4>2
        <5> QED
          BY <1>6, <2>4, <4>2, <5>1 DEF e
      <4>3. CASE j = f + g + 3
        <5>1. stream + j = e
          BY <2>6, <4>3
        <5> QED
          BY <1>6, <2>4, <4>3, <5>1 DEF e
      <4> QED
        BY <2>6, <4>1, <4>2, <4>3
    <3> QED
      BY <3>1, <3>2, <3>3 DEF Copied
  <2>9. Len(p) = E[m] - stream
    BY <2>4, <2>7 DEF e
  <2>10. \A j \in stream..c - 1 : text[j] # ":"
    BY <1>4
  <2> HIDE DEF f, g, b
  <2>11. c \in stream..E[n]
    BY <1>5
  <2>12. Piece(p, 0, E[m] - stream) /\ OneLess(p, E[m] - stream, text, E[m - 1], E[m])
    <3>1. Copied(p, text, stream, c, E[m])
      BY <2>8 DEF e
    <3> QED
      BY <1>4, <1>6, <2>10, <2>11, <3>1, CopyHasOneLess, Zenon
  <2> QED
    BY <2>9, <2>12, Zenon
<1> HIDE DEF p, b
<1> QED
  BY <1>9, <1>10 DEF p, h, b

\* The requests that the two properties are about, as long as a server can
\* still read them.
Quiet == \A i \in DOMAIN origin.body : origin.body[i] # "CR"
Live ==
  /\ origin.program = "browser" /\ Apart(origin.headers)
  /\ Quiet \/ (~cut /\ hop < Colons(origin.headers))

\* The colons left in the last header that is sent.
Left(E, n) == IF n = 0 THEN 0 ELSE Cardinality(ColonsFrom(text, E[n - 1], E[n]))

\* What is sent is a request line, pieces, an empty line and a body.
Carried(E, n) ==
  /\ Shape(text, E, n) /\ n <= Len(origin.headers)
  /\ Left(E, n) + hop = Colons(origin.headers)
  /\ Quiet => \A j \in E[n] + 2..Len(text) : text[j] # "CR"

\* The headers read from k pieces are pieces, the last with a colon less.
Copies(E, k) ==
  /\ Len(headers) <= k
  /\ \A i \in 1..Len(headers) : Piece(Sent(headers[i]), 0, Len(Sent(headers[i])))
  /\ k # 0 => /\ Len(headers) # 0
              /\ LET p == Sent(headers[Len(headers)])
                 IN  OneLess(p, Len(p), text, E[k - 1], E[k])

\* As long as the stream has a position it is between two pieces.
Loop(E, n) ==
  /\ (pc = "headers" /\ stream # 0) => \E k \in 0..n : stream = Start(E, k) /\ Copies(E, k)
  /\ pc = "parsed" => /\ n # 0 /\ Copies(E, n)
                      /\ Quiet => \A i \in DOMAIN body : body[i] # "CR"

\* What was read, and when reading goes on.
Reading ==
  /\ pc \in {"line", "headers"} => Begins /\ (~cut => Len(got) = Len(text))
  /\ pc \in {"reading", "line"} => headers = <<>>
  /\ pc = "line" => stream = 1
  /\ (pc = "headers" /\ ~cut /\ hop < Colons(origin.headers)) => stream # 0
  /\ pc = "exhausted" =>
       cut \/ Colons(origin.headers) <= hop \/ Len(origin.headers) > MaxHeaders

RelayInv ==
  /\ hop \in Nat
  /\ Live => Reading /\ \E E, n : Carried(E, n) /\ Loop(E, n)

\* Without a CR in the body there is none behind the pieces.
LEMMA QuietBehind ==
  ASSUME NEW t, NEW e \in Nat, NEW content \in Text, t[e + 2] = "LF",
         Len(t) = e + 2 + Len(content), \A j \in 1..Len(content) : t[e + 2 + j] = content[j],
         \A j \in DOMAIN content : content[j] # "CR"
  PROVE  \A j \in e + 2..Len(t) : t[j] # "CR"
<1> DEFINE l == Len(content)
<1>1. l \in Nat /\ DOMAIN content = 1..l
  BY LenProperties DEF Text
<1>2. Len(t) = e + 2 + l /\ \A j \in 1..l : t[e + 2 + j] # "CR"
  BY <1>1
<1> HIDE DEF l
<1> TAKE j \in e + 2..Len(t)
<1>3. CASE j = e + 2
  BY <1>3
<1>4. CASE j # e + 2
  <2>1. j - (e + 2) \in 1..l /\ e + 2 + (j - (e + 2)) = j
    BY <1>1, <1>2, <1>4
  <2> QED
    BY <1>2, <2>1
<1> QED
  BY <1>3, <1>4

LEMMA ColonsOf ==
  ASSUME NEW w \in Text
  PROVE  ColonsIn(w) = ColonsFrom(w, 0, Len(w))
<1>1. DOMAIN w = 1..Len(w)
  BY LenProperties DEF Text
<1>2. 0 + 1 = 1
  OBVIOUS
<1> QED
  BY <1>1, <1>2 DEF ColonsIn, ColonsFrom

LEMMA RelayInit == Init => RelayInv
<1> SUFFICES ASSUME Init PROVE RelayInv
  OBVIOUS
<1>1. hop \in Nat /\ Reading
  BY DEF Init, Reading
<1>2. ASSUME Live PROVE \E E, n : Carried(E, n) /\ Loop(E, n)
  <2> DEFINE hs == origin.headers
             n == Len(hs)
             s == WrittenAll(hs)
             content == origin.body
  <2>1. origin \in Origin /\ origin.program = "browser" /\ Apart(hs)
    BY <1>2 DEF Init, Live
  <2>2. hs \in Seq(Sendable) /\ content \in Text
    BY <2>1, OriginIs
  <2>3. n \in Nat /\ \A k \in 1..n : hs[k] \in Sendable
    BY <2>2, LenProperties, ElementOfSeq
  <2>4. \A k \in 1..n : s[k] = Written(hs[k])
    BY DEF WrittenAll
  <2>5. s \in [1..n -> Text]
    BY <2>3, WrittenText DEF WrittenAll
  <2>6. \A k \in 1..n : Piece(s[k], 0, Len(s[k]))
    <3> TAKE k \in 1..n
    <3>1. ApartIn(hs[k])
      BY <2>1 DEF Apart, ApartIn
    <3>2. Piece(Written(hs[k]), 0, Len(Written(hs[k])))
      BY <2>3, <3>1, WrittenPiece
    <3> QED
      BY <2>4, <3>2
  <2>7. text = ((RequestLine \o FlattenSeq(s)) \o LineEnd) \o content
    BY <2>1 DEF Init, Wire, WrittenAll, LineEnd
  <2>8. n # 0 => Colons(hs) = Cardinality(ColonsFrom(s[n], 0, Len(s[n])))
    <3> SUFFICES ASSUME n # 0 PROVE Colons(hs) = Cardinality(ColonsFrom(s[n], 0, Len(s[n])))
      OBVIOUS
    <3>1. n \in 1..n
      BY <2>3
    <3>2. s[n] \in Text /\ s[n] = Written(hs[n])
      BY <2>4, <2>5, <3>1
    <3>3. hs # <<>>
      BY EmptySeq
    <3>4. Last(hs) = hs[n]
      BY DEF Last
    <3>5. Colons(hs) = Cardinality(ColonsIn(s[n]))
      BY <3>2, <3>3, <3>4 DEF Colons
    <3>6. ColonsIn(s[n]) = ColonsFrom(s[n], 0, Len(s[n]))
      BY <3>2, ColonsOf
    <3> QED
      BY <3>5, <3>6
  <2>9. n = 0 => Colons(hs) = 0
    BY <2>2, EmptySeq DEF Colons
  <2> HIDE DEF hs, n, s, content
  <2>10. PICK E : /\ Shape(text, E, n)
                  /\ n # 0 => Cardinality(ColonsFrom(text, E[n - 1], E[n]))
                                = Cardinality(ColonsFrom(s[n], 0, Len(s[n])))
                  /\ Len(text) = E[n] + 2 + Len(content)
                  /\ \A j \in 1..Len(content) : text[E[n] + 2 + j] = content[j]
    <3>1. \E E : Shaped(text, E, n, s, content)
      BY <2>2, <2>3, <2>5, <2>6, <2>7, ShapeOf, Zenon
    <3> QED
      BY <3>1 DEF Shaped, AsMany
  <2>11. E[n] \in Nat /\ text[E[n] + 2] = "LF"
    BY <2>3, <2>10 DEF Shape
  <2>12. Quiet => \A j \in E[n] + 2..Len(text) : text[j] # "CR"
    <3> DEFINE e == E[n]
    <3>1. e \in Nat /\ text[e + 2] = "LF" /\ Len(text) = e + 2 + Len(content)
          /\ \A j \in 1..Len(content) : text[e + 2 + j] = content[j]
      BY <2>10, <2>11
    <3>2. Quiet => \A j \in DOMAIN content : content[j] # "CR"
      BY DEF Quiet, content
    <3> HIDE DEF e
    <3>3. Quiet => \A j \in e + 2..Len(text) : text[j] # "CR"
      BY <2>2, <3>1, <3>2, QuietBehind
    <3> QED
      BY <3>3 DEF e
  <2>13. Left(E, n) + hop = Colons(hs)
    <3>1. Left(E, n) = Colons(hs)
      BY <2>8, <2>9, <2>10 DEF Left
    <3>2. Left(E, n) \in Nat
      <4>1. n # 0 => E[n - 1] \in Nat
        BY <2>3, <2>10 DEF Shape
      <4> QED
        BY <2>11, <4>1, ColonsFinite DEF Left
    <3>3. hop = 0
      BY DEF Init
    <3> QED
      BY <3>1, <3>2, <3>3
  <2>14. Carried(E, n)
    <3>1. n <= Len(origin.headers)
      BY <2>3 DEF n, hs
    <3>2. Left(E, n) + hop = Colons(origin.headers)
      BY <2>13 DEF hs
    <3> QED
      BY <2>10, <2>12, <3>1, <3>2 DEF Carried
  <2>15. Loop(E, n)
    BY DEF Init, Loop
  <2> QED
    BY <2>14, <2>15
<1> QED
  BY <1>1, <1>2 DEF RelayInv

\* A step that sends nothing on leaves what is sent as it is.
LEMMA StillCarried ==
  ASSUME UNCHANGED <<origin, text, hop>>, NEW E, NEW n, Carried(E, n)
  PROVE  Carried(E, n)'
BY DEF Carried, Left, Quiet

LEMMA ColonsNat ==
  ASSUME PathInv, origin.program = "browser"
  PROVE  Colons(origin.headers) \in Nat
<1> DEFINE hs == origin.headers
<1>1. hs \in Seq(Sendable)
  BY OriginIs DEF PathInv
<1>2. CASE hs = <<>>
  BY <1>2 DEF Colons
<1>3. CASE hs # <<>>
  <2> DEFINE w == Written(Last(hs))
  <2>1. Len(hs) \in Nat /\ (Len(hs) = 0 => hs = <<>>)
    BY <1>1, LenProperties, EmptySeq
  <2>2. Len(hs) \in 1..Len(hs)
    BY <1>3, <2>1
  <2>3. Last(hs) \in Sendable
    BY <1>1, <2>2, ElementOfSeq DEF Last
  <2>4. w \in Text
    BY <2>3, WrittenText
  <2> HIDE DEF w
  <2>5. ColonsIn(w) = ColonsFrom(w, 0, Len(w)) /\ Len(w) \in Nat /\ 0 \in Nat
    BY <2>4, ColonsOf, LenProperties DEF Text
  <2>6. Cardinality(ColonsIn(w)) \in Nat
    BY <2>5, ColonsFinite
  <2>7. Colons(hs) = Cardinality(ColonsIn(w))
    BY <1>3 DEF Colons, w
  <2> QED
    BY <2>6, <2>7
<1> QED
  BY <1>2, <1>3

LEMMA StillLive ==
  ASSUME PathInv, RelayInv, [Next]_vars, Live'
  PROVE  Live
<1>1. origin' = origin /\ (Quiet' <=> Quiet)
  BY DEF Next, Session, ReadSome, ParseLine, ParseHeader, ParseBody, Answer, Forward, Read,
         vars, Quiet
<1>2. cut => cut'
  BY DEF Next, Session, ReadSome, ParseLine, ParseHeader, ParseBody, Answer, Forward, Read,
         vars
<1>3. hop \in Nat /\ hop' \in {hop, hop + 1}
  BY DEF Next, Session, ReadSome, ParseLine, ParseHeader, ParseBody, Answer, Forward, Read,
         vars, RelayInv
<1>4. Apart(origin.headers)' <=> Apart(origin.headers)
  BY <1>1
<1>5. Colons(origin.headers)' = Colons(origin.headers)
  BY <1>1
<1>6. CASE Quiet'
  BY <1>1, <1>4, <1>6 DEF Live
<1>7. CASE ~cut' /\ hop' < Colons(origin.headers)'
  <2>1. hop < Colons(origin.headers)
    <3>1. Colons(origin.headers) \in Nat
      BY <1>1, ColonsNat DEF Live
    <3> QED
      BY <1>3, <1>5, <1>7, <3>1
  <2> QED
    BY <1>1, <1>2, <1>4, <1>7, <2>1 DEF Live
<1> QED
  BY <1>6, <1>7 DEF Live

LEMMA RelayReadSome ==
  ASSUME PathInv, RelayInv, ReadSome
  PROVE  RelayInv'
<1>1. hop' = hop /\ hop \in Nat
  BY DEF ReadSome, RelayInv
<1>2. ASSUME Live'
      PROVE  Reading' /\ \E E, n : Carried(E, n)' /\ Loop(E, n)'
  <2>1. Live
    BY <1>2, StillLive DEF Next, Session
  <2>2. PICK E, n : Carried(E, n) /\ Loop(E, n)
    BY <2>1 DEF RelayInv
  <2>3. Carried(E, n)'
    BY <2>2, StillCarried DEF ReadSome
  <2>4. Loop(E, n)'
    BY DEF ReadSome, Loop
  <2>5. ASSUME pc' = "thrown" PROVE Reading'
    <3>1. /\ pc' \notin {"line", "headers"} /\ pc' \notin {"reading", "line"}
          /\ pc' # "line" /\ pc' # "headers" /\ pc' # "exhausted"
      BY <2>5
    <3> QED
      BY <3>1, Zenon DEF Reading
  <2>6. ASSUME pc' = "line" PROVE Reading'
    <3>1. PICK l \in 1..Len(text) :
            got' = SubSeq(text, 1, l) /\ stream' = 1 /\ cut' = (cut \/ l < Len(text))
      BY <2>6 DEF ReadSome
    <3>2. Len(text) \in Nat /\ l \in Int /\ \A i \in 1..l : text[i] \in Lexeme
      BY LenProperties, ElementOfSeq DEF PathInv, Text
    <3> DEFINE r == SubSeq(text, 1, l)
    <3>3. Len(r) = (IF 1 <= l THEN l - 1 + 1 ELSE 0)
          /\ \A i \in 1..l - 1 + 1 : r[i] = text[1 + i - 1]
      BY <3>2, SubSeqProperties
    <3> HIDE DEF r
    <3>4. Len(r) = l /\ Len(r) <= Len(text) /\ \A i \in 1..Len(r) : r[i] = text[i]
      BY <3>2, <3>3
    <3>5. text' = text /\ got' = r /\ headers' = headers
      BY <3>1 DEF ReadSome, r
    <3>6. Begins'
      BY <3>4, <3>5 DEF Begins
    <3>7. ~cut' => Len(got') = Len(text')
      <4>1. ~cut' => ~(l < Len(text))
        BY <3>1, Zenon
      <4>2. ~(l < Len(text)) => Len(r) = Len(text)
        BY <3>2, <3>4
      <4> QED
        BY <3>5, <4>1, <4>2, Zenon
    <3>8. headers = <<>>
      BY <2>1 DEF RelayInv, Reading, ReadSome
    <3> QED
      <4>1. pc' # "headers" /\ pc' # "exhausted"
        BY <2>6
      <4> QED
        BY <3>1, <3>5, <3>6, <3>7, <3>8, <4>1, Zenon DEF Reading
  <2> QED
    BY <2>3, <2>4, <2>5, <2>6 DEF ReadSome
<1> QED
  BY <1>1, <1>2 DEF RelayInv

\* Between two pieces there is a CR only where they end.
LEMMA StopsAt ==
  ASSUME NEW E, NEW n, Shape(text, E, n), NEW k \in 0..n
  PROVE  /\ text[Start(E, k)] = "CR" => k = n /\ n # 0
         /\ (k = n /\ n # 0) => text[Start(E, k)] = "CR" /\ Start(E, k) = E[n] + 1
         /\ Start(E, k) \in Nat \ {0} /\ E[n] \in Nat /\ 7 <= E[n] /\ E[n] + 2 <= Len(text)
<1>1. /\ n \in Nat /\ (\A x \in 0..n : E[x] \in Nat) /\ E[0] \in {7, 9}
      /\ text[7] = "LF" /\ text[E[n] + 1] = "CR" /\ E[n] + 2 <= Len(text)
  <2>1. 7 \in 1..7 /\ RequestLine[7] = "LF"
    BY DEF RequestLine
  <2> QED
    BY <2>1 DEF Shape
<1>2. \A x \in 1..n : text[E[x - 1] + 1] # "CR"
  BY DEF Shape, Piece
<1>3. 7 <= E[n]
  <2>1. CASE n = 0
    BY <1>1, <2>1
  <2>2. CASE n # 0
    <3>1. 0 \in 0..n /\ n \in 0 + 1..n /\ n \in 0..n
      BY <1>1, <2>2
    <3>2. E[0] + 2 <= E[n]
      BY <3>1, Farther
    <3> QED
      BY <1>1, <3>1, <3>2
  <2> QED
    BY <2>1, <2>2
<1>4. E[n] \in Nat /\ E[k] \in Nat
  BY <1>1
<1>5. CASE k = 0
  <2>1. Start(E, k) = 7
    BY <1>5 DEF Start
  <2> QED
    BY <1>1, <1>3, <1>4, <1>5, <2>1
<1>6. CASE k # 0
  <2>1. Start(E, k) = E[k] + 1
    BY <1>6 DEF Start
  <2>2. k # n => k + 1 \in 1..n /\ (k + 1) - 1 = k
    BY <1>1
  <2>3. k # n => text[E[k] + 1] # "CR"
    BY <1>2, <2>2
  <2> QED
    BY <1>1, <1>3, <1>4, <1>6, <2>1, <2>3
<1> QED
  BY <1>5, <1>6

LEMMA RelayParseLine ==
  ASSUME PathInv, RelayInv, ParseLine
  PROVE  RelayInv'
<1>1. hop' = hop /\ hop \in Nat
  BY DEF ParseLine, RelayInv
<1>2. ASSUME Live'
      PROVE  Reading' /\ \E E, n : Carried(E, n)' /\ Loop(E, n)'
  <2>1. Live
    BY <1>2, StillLive DEF Next, Session
  <2>2. PICK E, n : Carried(E, n) /\ Loop(E, n)
    BY <2>1 DEF RelayInv
  <2>3. Carried(E, n)'
    BY <2>2, StillCarried DEF ParseLine
  <2>4. /\ pc' = "headers" /\ UNCHANGED <<text, got, cut, headers, hop, origin>>
        /\ pc = "line"
    BY DEF ParseLine
  <2>5. /\ stream = 1 /\ headers = <<>> /\ Begins
        /\ ~cut => Len(got) = Len(text)
    BY <2>1, <2>4 DEF RelayInv, Reading
  <2>6. Shape(text, E, n) /\ n \in Nat /\ \A j \in 1..7 : text[j] = RequestLine[j]
    BY <2>2 DEF Carried, Shape
  <2>7. stream' = IF 6 <= Len(got) THEN 7 ELSE 0
    BY <2>5, <2>6, LineRead DEF PathInv
  <2>8. Len(text) = Len(got) => 6 <= Len(got)
    <3>1. 0 \in 0..n /\ Len(text) \in Nat
      BY <2>6, LenProperties DEF PathInv, Text
    <3>2. E[n] \in Nat /\ 7 <= E[n] /\ E[n] + 2 <= Len(text)
      BY <2>6, <3>1, StopsAt
    <3> QED
      BY <3>1, <3>2
  <2>9. ~cut' => stream' # 0
    <3>1. ~cut => 6 <= Len(got)
      BY <2>5, <2>8
    <3> QED
      BY <2>4, <2>7, <3>1
  <2>10. Reading'
    <3>1. Begins' /\ (~cut' => Len(got') = Len(text'))
      BY <2>4, <2>5 DEF Begins
    <3>2. pc' \notin {"reading", "line"} /\ pc' # "line" /\ pc' # "exhausted"
      BY <2>4
    <3> QED
      BY <2>9, <3>1, <3>2, Zenon DEF Reading
  <2>11. stream' # 0 => \E k \in 0..n : stream' = Start(E, k) /\ Copies(E, k)'
    <3>1. 0 \in 0..n
      BY <2>6
    <3>2. stream' # 0 => stream' = Start(E, 0)
      BY <2>7 DEF Start
    <3>3. Copies(E, 0)'
      <4>1. Len(headers') = 0
        BY <2>4, <2>5, EmptySeq
      <4> QED
        BY <4>1 DEF Copies
    <3> QED
      BY <3>1, <3>2, <3>3
  <2>12. Loop(E, n)'
    BY <2>4, <2>11 DEF Loop
  <2> QED
    BY <2>3, <2>10, <2>12
<1> QED
  BY <1>1, <1>2 DEF RelayInv

\* Of a request that was read as a whole and has a colon left, the loop finds
\* one in front of the empty line; of any other it does if it ends the pass.
LEMMA NextColon ==
  ASSUME PathInv, RelayInv, Live, pc = "headers", stream # 0, ~AtCarriageReturn(stream),
         NEW E, NEW n, Carried(E, n), NEW k \in 0..n, stream = Start(E, k)
  PROVE  LET c == Find(stream, {":"})
         IN  /\ (~cut /\ hop < Colons(origin.headers)) => k < n /\ c # 0 /\ c <= E[n]
             /\ AfterValue(AfterName(stream)) # 0 => c # 0 /\ c <= E[n]
<1> DEFINE c == Find(stream, {":"})
<1>1. /\ Shape(text, E, n) /\ n \in Nat /\ Left(E, n) + hop = Colons(origin.headers)
      /\ Quiet => \A j \in E[n] + 2..Len(text) : text[j] # "CR"
  BY DEF Carried, Shape
<1>2. /\ Begins /\ (~cut => Len(got) = Len(text)) /\ hop \in Nat
      /\ got \in Text /\ got \in Seq(Lexeme) /\ Len(got) \in Nat /\ Len(text) \in Nat
  BY LenProperties DEF RelayInv, Reading, PathInv, Text
<1>3. /\ text[stream] = "CR" => k = n /\ n # 0
      /\ (k = n /\ n # 0) => text[stream] = "CR" /\ stream = E[n] + 1
      /\ stream \in Nat \ {0} /\ E[n] \in Nat /\ 7 <= E[n] /\ E[n] + 2 <= Len(text)
  BY <1>1, StopsAt
<1>4. /\ c \in Nat
      /\ c # 0 => c \in stream..Len(got) /\ \A j \in stream..c - 1 : got[j] # ":"
      /\ c = 0 => \A j \in stream..Len(got) : got[j] # ":"
  BY <1>2, <1>3, FindIs
<1>5. ASSUME ~cut, hop < Colons(origin.headers)
      PROVE  k < n /\ c # 0 /\ c <= E[n]
  <2>1. Len(got) = Len(text)
    BY <1>2, <1>5
  <2>2. n # 0
    <3>1. n = 0 => Left(E, n) = 0
      BY DEF Left
    <3> HIDE DEF c
    <3>2. n = 0 => Colons(origin.headers) = hop
      BY <1>1, <1>2, <3>1
    <3>3. Colons(origin.headers) # hop
      BY <1>2, <1>5
    <3> QED
      BY <3>2, <3>3
  <2>3. n - 1 \in 0..n /\ E[n - 1] \in Nat
    BY <1>1, <2>2 DEF Shape
  <2>4. PICK x \in E[n - 1] + 1..E[n] : text[x] = ":"
    <3>1. Left(E, n) = Cardinality(ColonsFrom(text, E[n - 1], E[n]))
      BY <2>2 DEF Left
    <3>2. Cardinality(ColonsFrom(text, E[n - 1], E[n])) # 0
      <4> DEFINE l == Cardinality(ColonsFrom(text, E[n - 1], E[n]))
      <4>1. l + hop = Colons(origin.headers)
        BY <1>1, <3>1
      <4> HIDE DEF l
      <4>2. l # 0
        BY <1>2, <1>5, <4>1
      <4> QED
        BY <4>2 DEF l
    <3>3. ColonsFrom(text, E[n - 1], E[n]) # {}
      BY <3>2, FS_EmptySet
    <3> QED
      BY <3>3 DEF ColonsFrom
  <2>5. k # n
    <3> SUFFICES ASSUME k = n PROVE FALSE
      OBVIOUS
    <3>1. text[stream] = "CR" /\ stream = E[n] + 1
      BY <1>3, <2>2
    <3>2. stream \in 1..Len(got)
      BY <1>2, <1>3, <2>1, <3>1
    <3>3. got[stream] = "CR"
      BY <3>1, <3>2, <1>2 DEF Begins
    <3> QED
      BY <3>2, <3>3 DEF AtCarriageReturn
  <2>6. k < n /\ n \in k + 1..n /\ n \in 0 + 1..n /\ 0 \in 0..n
    BY <1>1, <2>2, <2>5
  <2>7. stream <= E[n - 1] + 1
    <3>1. E[k] <= E[n - 1] /\ E[0] <= E[n - 1]
      BY <1>1, <2>6, Farther
    <3>2. E[0] \in {7, 9} /\ E[k] \in Nat
      BY <1>1 DEF Shape
    <3>3. CASE k = 0
      BY <2>3, <3>1, <3>2, <3>3 DEF Start
    <3>4. CASE k # 0
      BY <2>3, <3>1, <3>2, <3>4 DEF Start
    <3> QED
      BY <3>3, <3>4
  <2>8. x \in Nat /\ stream <= x /\ x <= E[n] /\ x <= Len(got)
    BY <1>2, <1>3, <2>1, <2>3, <2>4, <2>7
  <2>9. got[x] = ":"
    <3>1. x \in 1..Len(got)
      BY <1>3, <2>8
    <3> QED
      BY <1>2, <2>4, <3>1 DEF Begins
  <2> HIDE DEF c
  <2>10. x \in stream..Len(got)
    BY <1>2, <1>3, <2>8
  <2>11. c # 0
    BY <1>4, <2>9, <2>10
  <2>12. c <= x
    <3> SUFFICES ASSUME ~(c <= x) PROVE FALSE
      OBVIOUS
    <3>1. x \in stream..c - 1
      BY <1>3, <1>4, <2>8
    <3> QED
      BY <1>4, <2>9, <2>11, <3>1
  <2> QED
    BY <1>3, <1>4, <2>6, <2>8, <2>11, <2>12
<1>6. ASSUME AfterValue(AfterName(stream)) # 0
      PROVE  c # 0 /\ c <= E[n]
  <2>1. c # 0
    BY <1>6 DEF AfterValue, AfterName, GetLine, Find, Ignore
  <2>2. CASE ~Quiet
    <3>1. ~cut /\ hop < Colons(origin.headers)
      BY <2>2 DEF Live
    <3> QED
      BY <1>5, <3>1
  <2>3. CASE Quiet
    <3> SUFFICES ASSUME ~(c <= E[n]) PROVE FALSE
      BY <2>1
    <3> DEFINE b == AfterName(stream)
               d == Find(b, {"CR"})
    <3>1. b # 0 /\ d # 0
      BY <1>6 DEF AfterValue, GetLine, Find, Ignore
    <3>2. b = c + 2
      <4>1. GetLine(stream, ":") = c + 1
        BY <2>1 DEF GetLine
      <4> HIDE DEF c
      <4>2. c + 1 \in Nat /\ c + 1 # 0 /\ (c + 1) + 1 = c + 2
        BY <1>4
      <4>3. Ignore(c + 1, 1, " ") = IF c + 1 # 0 /\ c + 1 <= Len(got) THEN (c + 1) + 1 ELSE 0
        BY <1>2, <4>2, IgnoreOne, Zenon
      <4>4. b = Ignore(c + 1, 1, " ")
        BY <4>1 DEF AfterName
      <4> HIDE DEF b
      <4> QED
        BY <3>1, <4>2, <4>3, <4>4
    <3>3. b \in Nat
      BY <1>4, <3>2
    <3> HIDE DEF b
    <3>4. d \in b..Len(got) /\ got[d] = "CR"
      BY <1>2, <3>1, <3>3, FindIs
    <3> HIDE DEF c, d
    <3>5. d \in 1..Len(got) /\ d \in E[n] + 2..Len(text)
      BY <1>2, <1>3, <1>4, <3>2, <3>4 DEF Begins
    <3>6. text[d] = "CR"
      BY <1>2, <3>4, <3>5 DEF Begins
    <3> QED
      BY <1>1, <2>3, <3>5, <3>6
  <2> QED
    BY <2>2, <2>3
<1> QED
  BY <1>5, <1>6

\* A header that was read from the next pieces is added to the copies.
LEMMA CopiesGrow ==
  ASSUME headers \in Seq(Readable), NEW h \in Readable, NEW E, NEW k \in Nat, Copies(E, k),
         NEW m \in Nat, k < m, text' = text, headers' = Append(headers, h),
         Piece(Sent(h), 0, Len(Sent(h))),
         OneLess(Sent(h), Len(Sent(h)), text, E[m - 1], E[m])
  PROVE  Copies(E, m)'
<1> DEFINE l == Len(headers)
<1>1. /\ l \in Nat /\ Len(headers') = l + 1
      /\ \A i \in 1..l : headers'[i] = headers[i]
      /\ headers'[l + 1] = h
  BY LenProperties, AppendProperties
<1>2. l <= k /\ \A i \in 1..l : Piece(Sent(headers[i]), 0, Len(Sent(headers[i])))
  BY DEF Copies
<1> HIDE DEF l
<1>3. \A i \in 1..l + 1 : Piece(Sent(headers'[i]), 0, Len(Sent(headers'[i])))
  <2> TAKE i \in 1..l + 1
  <2>1. CASE i \in 1..l
    BY <1>1, <1>2, <2>1
  <2>2. CASE i = l + 1
    BY <1>1, <2>2
  <2> QED
    BY <1>1, <2>1, <2>2
<1>4. l + 1 <= m /\ l + 1 # 0
  BY <1>1, <1>2
<1>5. OneLess(Sent(headers'[Len(headers')]), Len(Sent(headers'[Len(headers')])), text',
              E[m - 1], E[m])
  BY <1>1
<1> QED
  BY <1>1, <1>3, <1>4, <1>5 DEF Copies

LEMMA RelayParseHeader ==
  ASSUME PathInv, RelayInv, ParseHeader
  PROVE  RelayInv'
<1>1. hop' = hop /\ hop \in Nat
  BY DEF ParseHeader, RelayInv
<1>2. ASSUME Live'
      PROVE  Reading' /\ \E E, n : Carried(E, n)' /\ Loop(E, n)'
  <2>1. Live
    BY <1>2, StillLive DEF Next, Session
  <2>2. PICK E, n : Carried(E, n) /\ Loop(E, n)
    BY <2>1 DEF RelayInv
  <2>3. Carried(E, n)'
    BY <2>2, StillCarried DEF ParseHeader
  <2>4. /\ UNCHANGED <<text, got, cut, hop, origin>>
        /\ pc = "headers" /\ ~AtCarriageReturn(stream)
    BY DEF ParseHeader
  <2>5. /\ Begins /\ (~cut => Len(got) = Len(text))
        /\ (~cut /\ hop < Colons(origin.headers)) => stream # 0
    BY <2>1, <2>4 DEF RelayInv, Reading
  <2>6. /\ Begins' /\ (~cut' => Len(got') = Len(text'))
        /\ Colons(origin.headers)' = Colons(origin.headers)
        /\ Len(origin.headers)' = Len(origin.headers)
    BY <2>4, <2>5 DEF Begins
  <2>7. stream # 0 => \E k \in 0..n : stream = Start(E, k) /\ Copies(E, k)
    BY <2>2, <2>4 DEF Loop
  <2>8. Shape(text, E, n) /\ n \in Nat /\ n <= Len(origin.headers) /\ got \in Text
        /\ Len(got) \in Nat /\ headers \in Seq(Readable)
    BY <2>2, LenProperties DEF Carried, Shape, PathInv, Text
  <2>9. ASSUME pc' = "thrown"
        PROVE  Reading' /\ Loop(E, n)'
    <3>1. /\ pc' \notin {"line", "headers"} /\ pc' \notin {"reading", "line"}
          /\ pc' # "line" /\ pc' # "headers" /\ pc' # "exhausted" /\ pc' # "parsed"
      BY <2>9
    <3>2. Reading'
      BY <3>1, Zenon DEF Reading
    <3>3. Loop(E, n)'
      BY <3>1, Zenon DEF Loop
    <3> QED
      BY <3>2, <3>3
  <2>10. ASSUME pc' = "exhausted", Len(headers) = MaxHeaders
         PROVE  Reading' /\ Loop(E, n)'
    <3>1. /\ pc' \notin {"line", "headers"} /\ pc' \notin {"reading", "line"}
          /\ pc' # "line" /\ pc' # "headers" /\ pc' # "parsed"
      BY <2>10
    <3>2. ASSUME ~cut, hop < Colons(origin.headers)
          PROVE  Len(origin.headers) > MaxHeaders
      <4>1. PICK k \in 0..n : stream = Start(E, k) /\ Copies(E, k)
        BY <2>5, <2>7, <3>2
      <4>2. k < n
        BY <2>1, <2>2, <2>4, <2>5, <3>2, <4>1, NextColon
      <4>3. MaxHeaders <= k /\ MaxHeaders \in Nat
        BY <2>10, <4>1, LimitAssumption DEF Copies
      <4>4. Len(origin.headers) \in Nat
        BY <2>1, OriginIs, LenProperties DEF PathInv, Live
      <4> QED
        BY <2>8, <4>2, <4>3, <4>4
    <3>3. hop < Colons(origin.headers) \/ Colons(origin.headers) <= hop
      <4>1. Colons(origin.headers) \in Nat
        BY <2>1, ColonsNat DEF Live
      <4> QED
        BY <1>1, <4>1
    <3>4. cut \/ Colons(origin.headers) <= hop \/ Len(origin.headers) > MaxHeaders
      BY <3>2, <3>3, Zenon
    <3>5. cut' \/ Colons(origin.headers)' <= hop' \/ Len(origin.headers)' > MaxHeaders
      BY <2>4, <2>6, <3>4
    <3>6. Reading'
      BY <3>1, <3>5, Zenon DEF Reading
    <3>7. Loop(E, n)'
      BY <3>1, Zenon DEF Loop
    <3> QED
      BY <3>6, <3>7
  <2>11. ASSUME pc' = pc,
                \E at \in {AfterName(stream)} :
                  /\ headers' = push_back(headers,
                                  [first |-> Line(stream, ":"), second |-> Line(at, "CR")])
                  /\ stream' = AfterValue(at)
         PROVE  Reading' /\ Loop(E, n)'
    <3> DEFINE b == AfterName(stream)
               h == [first |-> Line(stream, ":"), second |-> Line(b, "CR")]
               c == Find(stream, {":"})
    <3>1. headers' = Append(headers, h) /\ stream' = AfterValue(b)
      BY <2>11 DEF push_back
    <3>2. stream' # 0 => stream # 0
      BY <3>1 DEF AfterValue, AfterName, GetLine, Find, Ignore
    <3>3. ASSUME stream # 0, stream' # 0 \/ (~cut /\ hop < Colons(origin.headers))
          PROVE  stream' # 0 /\ \E k \in 0..n : stream' = Start(E, k) /\ Copies(E, k)'
      <4>1. PICK k \in 0..n : stream = Start(E, k) /\ Copies(E, k)
        BY <2>7, <3>3
      <4>2. /\ (~cut /\ hop < Colons(origin.headers)) => c # 0 /\ c <= E[n]
            /\ AfterValue(b) # 0 => c # 0 /\ c <= E[n]
        BY <2>1, <2>2, <2>4, <3>3, <4>1, NextColon
      <4>3. c # 0 /\ c <= E[n]
        BY <3>1, <3>3, <4>2
      <4> HIDE DEF c
      <4>4. PICK m \in k + 1..n :
              /\ AfterValue(b) = IF E[m] <= Len(got) THEN E[m] + 1 ELSE 0
              /\ E[m] <= Len(got) =>
                   /\ Piece(Sent(h), 0, Len(Sent(h)))
                   /\ OneLess(Sent(h), Len(Sent(h)), text, E[m - 1], E[m])
        BY <2>5, <2>8, <4>1, <4>3, PassIs DEF c
      <4>5. m \in 0..n /\ m \in 1..n /\ m \in Nat /\ k \in Nat /\ k < m /\ m # 0 /\ n \in 0..n
        BY <2>8
      <4>6. E[m] \in Nat /\ E[n] \in Nat
        BY <2>8, <4>5 DEF Shape
      <4>7. E[m] <= Len(got)
        <5>1. CASE stream' # 0
          BY <3>1, <4>4, <5>1
        <5>2. CASE ~cut /\ hop < Colons(origin.headers)
          <6>1. Len(got) = Len(text)
            BY <2>5, <5>2
          <6>2. E[n] + 2 <= Len(text)
            BY <2>8 DEF Shape
          <6>3. E[m] <= E[n]
            <7>1. m # n => n \in m + 1..n
              BY <2>8, <4>5
            <7>2. m # n => E[m] + 2 <= E[n]
              BY <2>8, <4>5, <7>1, Farther
            <7> QED
              BY <4>6, <7>2
          <6> QED
            BY <2>8, <4>6, <6>1, <6>2, <6>3
        <5> QED
          BY <3>3, <5>1, <5>2
      <4>8. stream' = E[m] + 1
        BY <3>1, <4>4, <4>7
      <4>9. stream' # 0 /\ stream' = Start(E, m)
        BY <4>5, <4>6, <4>8 DEF Start
      <4>10. h \in Readable
        <5>1. stream \in Nat /\ got \in Seq(Lexeme)
          BY <2>8 DEF PathInv, Text
        <5>2. b \in Nat
          <6>1. GetLine(stream, ":") \in Nat
            BY <2>8, <5>1, LineIs
          <6>2. Ignore(GetLine(stream, ":"), 1, " ") \in 0..Len(got) + 1
            BY <5>1, <6>1, IgnoreIs
          <6>3. b \in 0..Len(got) + 1
            BY <6>2 DEF AfterName
          <6> HIDE DEF b
          <6> QED
            BY <2>8, <6>3
        <5> HIDE DEF b
        <5> QED
          BY <5>1, <5>2, LineIs DEF Readable, Text, h
      <4>11. Piece(Sent(h), 0, Len(Sent(h)))
             /\ OneLess(Sent(h), Len(Sent(h)), text, E[m - 1], E[m])
        BY <4>4, <4>7
      <4> HIDE DEF h, b
      <4>12. Copies(E, m)'
        BY <2>4, <2>8, <3>1, <4>1, <4>5, <4>10, <4>11, CopiesGrow
      <4> QED
        BY <4>5, <4>9, <4>12
    <3>4. (~cut' /\ hop' < Colons(origin.headers)') => stream' # 0
      <4>1. (~cut /\ hop < Colons(origin.headers)) => stream' # 0
        BY <2>5, <3>3, Zenon
      <4> QED
        BY <2>4, <2>6, <4>1
    <3>5. pc' \notin {"reading", "line"} /\ pc' # "line" /\ pc' # "exhausted" /\ pc' # "parsed"
      BY <2>4, <2>11
    <3>6. Reading'
      BY <2>6, <3>4, <3>5, Zenon DEF Reading
    <3>7. stream' # 0 => \E k \in 0..n : stream' = Start(E, k) /\ Copies(E, k)'
      BY <3>2, <3>3, Zenon
    <3>8. Loop(E, n)'
      BY <3>5, <3>7 DEF Loop
    <3> QED
      BY <3>6, <3>8
  <2>12. Reading' /\ Loop(E, n)'
    BY <2>9, <2>10, <2>11 DEF ParseHeader
  <2> QED
    BY <2>3, <2>12
<1> QED
  BY <1>1, <1>2 DEF RelayInv

\* What is behind the empty line becomes the body; the rest of it is NUL.
LEMMA BodyBehind ==
  ASSUME PathInv, ParseBody, pc' = "parsed", Begins, NEW e \in Nat, stream = e + 1,
         \A j \in e + 2..Len(text) : text[j] # "CR"
  PROVE  \A i \in DOMAIN body' : body'[i] # "CR"
<1> DEFINE at == Ignore(stream, 2, "LF")
           rest == Upto(at, 0)
<1>1. /\ got \in Text /\ got \in Seq(Lexeme) /\ Len(got) \in Nat /\ Len(text) \in Nat
      /\ Len(got) <= Len(text) /\ \A j \in 1..Len(got) : got[j] = text[j]
  BY LenProperties DEF PathInv, Text, Begins
<1>2. stream \in Nat /\ at \in 0..Len(got) + 1
  <2>1. stream \in Nat
    OBVIOUS
  <2> QED
    BY <1>1, <2>1, IgnoreIs
<1>3. at # 0 => e + 2 <= at
  <2> DEFINE i == Find(stream, {"LF"})
  <2>1. i \in Nat /\ (i # 0 => stream <= i)
    BY <1>1, <1>2, FindIs
  <2>2. at = LET next == IF i # 0 /\ i < stream + 2 THEN i + 1 ELSE stream + 2
             IN  IF stream # 0 /\ next <= Len(got) + 1 THEN next ELSE 0
    BY DEF Ignore
  <2> HIDE DEF i, at
  <2> QED
    BY <1>1, <1>2, <2>1, <2>2
<1> HIDE DEF at
<1>4. \A i \in 1..Len(rest) : rest[i] # "CR"
  <2>1. CASE at = 0
    <3>1. rest = <<>>
      BY <2>1 DEF Upto
    <3> QED
      BY <3>1
  <2>2. CASE at # 0
    <3> DEFINE l == Len(got)
               r == SubSeq(got, at, l)
    <3>1. rest = r
      BY <2>2 DEF Upto
    <3>2. at \in Int /\ l \in Int /\ \A j \in at..l : got[j] \in Lexeme
      BY <1>1, <1>2, <2>2, ElementOfSeq
    <3>3. /\ Len(r) = IF at <= l THEN l - at + 1 ELSE 0
          /\ \A j \in 1..l - at + 1 : r[j] = got[at + j - 1]
      <4> HIDE DEF l
      <4> QED
        BY <3>2, SubSeqProperties DEF r
    <3> HIDE DEF r, rest
    <3>4. \A i \in 1..Len(r) : r[i] # "CR"
      <4> TAKE i \in 1..Len(r)
      <4>1. i \in 1..l - at + 1
        BY <1>1, <1>2, <3>3
      <4>2. at + i - 1 \in e + 2..Len(text) /\ at + i - 1 \in 1..Len(got)
        BY <1>1, <1>2, <1>3, <2>2, <4>1
      <4>3. got[at + i - 1] # "CR"
        BY <1>1, <4>2
      <4> QED
        BY <3>3, <4>1, <4>3
    <3> QED
      BY <3>1, <3>4
  <2> QED
    BY <2>1, <2>2
<1>5. PICK l \in Garbage :
        l >= 0 /\ body' = [i \in 1..l |-> IF i <= Len(rest) THEN rest[i] ELSE "NUL"]
  BY DEF ParseBody, at
<1>6. l \in Nat
  BY <1>5, LimitAssumption
<1>7. Len(rest) \in Nat
  <2>1. rest \in Seq(Lexeme)
    BY <1>1, <1>2, UptoIs
  <2> QED
    BY <2>1, LenProperties
<1> HIDE DEF rest
<1> QED
  BY <1>4, <1>5, <1>6, <1>7

LEMMA RelayParseBody ==
  ASSUME PathInv, RelayInv, ParseBody
  PROVE  RelayInv'
<1>1. hop' = hop /\ hop \in Nat
  BY DEF ParseBody, RelayInv
<1>2. ASSUME Live'
      PROVE  Reading' /\ \E E, n : Carried(E, n)' /\ Loop(E, n)'
  <2>1. Live
    BY <1>2, StillLive DEF Next, Session
  <2>2. PICK E, n : Carried(E, n) /\ Loop(E, n)
    BY <2>1 DEF RelayInv
  <2>3. Carried(E, n)'
    BY <2>2, StillCarried DEF ParseBody
  <2>4. /\ UNCHANGED <<text, headers, origin>> /\ pc' \in {"thrown", "parsed"}
        /\ pc = "headers" /\ AtCarriageReturn(stream)
    BY DEF ParseBody
  <2>5. Reading'
    <3>1. /\ pc' \notin {"line", "headers"} /\ pc' \notin {"reading", "line"}
          /\ pc' # "line" /\ pc' # "headers" /\ pc' # "exhausted"
      BY <2>4
    <3> QED
      BY <3>1, Zenon DEF Reading
  <2>6. Begins /\ Shape(text, E, n) /\ stream # 0
        /\ (Quiet => \A j \in E[n] + 2..Len(text) : text[j] # "CR")
    BY <2>1, <2>2, <2>4 DEF RelayInv, Reading, Carried, AtCarriageReturn
  <2>7. PICK k \in 0..n : stream = Start(E, k) /\ Copies(E, k)
    BY <2>2, <2>4, <2>6 DEF Loop
  <2>8. text[stream] = "CR"
    BY <2>4, <2>6 DEF AtCarriageReturn, Begins
  <2>9. k = n /\ n # 0 /\ stream = E[n] + 1 /\ E[n] \in Nat
    BY <2>6, <2>7, <2>8, StopsAt
  <2>10. Copies(E, n)'
    BY <2>4, <2>7, <2>9 DEF Copies
  <2>11. ASSUME pc' = "parsed", Quiet'
         PROVE  \A i \in DOMAIN body' : body'[i] # "CR"
    <3>1. Quiet
      BY <2>4, <2>11 DEF Quiet
    <3> DEFINE e == E[n]
    <3>2. e \in Nat /\ stream = e + 1 /\ \A j \in e + 2..Len(text) : text[j] # "CR"
      BY <2>6, <2>9, <3>1
    <3> HIDE DEF e
    <3> QED
      BY <2>6, <2>11, <3>2, BodyBehind
  <2>12. Loop(E, n)'
    <3>1. pc' # "headers"
      BY <2>4
    <3> QED
      BY <2>9, <2>10, <2>11, <3>1 DEF Loop
  <2> QED
    BY <2>3, <2>5, <2>12
<1> QED
  BY <1>1, <1>2 DEF RelayInv

LEMMA RelayForward ==
  ASSUME PathInv, RelayInv, Forward
  PROVE  RelayInv'
<1>1. hop' = hop + 1 /\ hop \in Nat /\ hop' \in Nat
  BY DEF Forward, RelayInv
<1>2. ASSUME Live'
      PROVE  Reading' /\ \E E, n : Carried(E, n)' /\ Loop(E, n)'
  <2>1. Live
    BY <1>2, StillLive DEF Next
  <2>2. PICK E, n : Carried(E, n) /\ Loop(E, n)
    BY <2>1 DEF RelayInv
  <2>3. pc = "parsed" /\ pc' = "reading" /\ headers' = <<>> /\ origin' = origin
        /\ text' = Proxied(headers, body)
    BY DEF Forward
  <2>4. Reading'
    <3>1. pc' \notin {"line", "headers"} /\ pc' # "line" /\ pc' # "headers" /\ pc' # "exhausted"
      BY <2>3
    <3> QED
      BY <2>3, <3>1, Zenon DEF Reading
  <2>5. n # 0 /\ Copies(E, n) /\ (Quiet => \A i \in DOMAIN body : body[i] # "CR")
    BY <2>2, <2>3 DEF Loop
  <2> DEFINE hs == headers
  <2>0. PICK l : l = Len(hs)
    OBVIOUS
  <2> DEFINE s == [i \in 1..l |-> Sent(hs[i])]
             front == RequestLine \o LineEnd
  <2>6. hs \in Seq(Readable) /\ body \in Text /\ text \in Text
    BY DEF PathInv
  <2>7. l \in Nat /\ \A i \in 1..l : hs[i] \in Readable
    BY <2>0, <2>6, LenProperties, ElementOfSeq
  <2>8. l <= n /\ l # 0 /\ n \in Nat /\ n <= Len(origin.headers)
        /\ Len(origin.headers) \in Nat
    <3>1. Len(origin.headers) \in Nat
      BY <2>1, OriginIs, LenProperties DEF PathInv, Live
    <3>2. n \in Nat /\ n <= Len(origin.headers)
      BY <2>2 DEF Carried, Shape
    <3> QED
      BY <2>0, <2>5, <3>1, <3>2 DEF Copies
  <2>9. \A i \in 1..l : s[i] = Sent(hs[i])
    OBVIOUS
  <2>10. s \in [1..l -> Text]
    <3>1. \A i \in 1..l : Sent(hs[i]) \in Text
      BY <2>7, SentIs
    <3> HIDE DEF hs
    <3> QED
      BY <3>1
  <2>11. \A i \in 1..l : Piece(s[i], 0, Len(s[i]))
    BY <2>0, <2>5, <2>9 DEF Copies
  <2>12. text' = ((front \o FlattenSeq(s)) \o LineEnd) \o body
    BY <2>0, <2>3 DEF Proxied, LineEnd, Sent
  <2>13. OneLess(s[l], Len(s[l]), text, E[n - 1], E[n])
    <3>1. l \in 1..l
      BY <2>7, <2>8
    <3>2. OneLess(Sent(hs[l]), Len(Sent(hs[l])), text, E[n - 1], E[n])
      BY <2>0, <2>5 DEF Copies
    <3> QED
      BY <2>9, <3>1, <3>2
  <2> HIDE DEF hs, s
  <2>14. PICK F : Shaped(text', F, l, s, body)
    <3>1. front \in {RequestLine, RequestLine \o LineEnd}
      OBVIOUS
    <3> HIDE DEF front
    <3>2. \E F : Shaped(((front \o FlattenSeq(s)) \o LineEnd) \o body, F, l, s, body)
      BY <2>6, <2>7, <2>10, <2>11, <3>1, ShapeOf, Zenon
    <3> QED
      BY <2>12, <3>2
  <2>15. /\ Shape(text', F, l) /\ AsMany(text', F[l - 1], F[l], s[l], Len(s[l]))
         /\ Len(text') = F[l] + 2 + Len(body)
         /\ \A j \in 1..Len(body) : text'[F[l] + 2 + j] = body[j]
    BY <2>8, <2>14 DEF Shaped
  <2>16. F[l] \in Nat /\ text'[F[l] + 2] = "LF" /\ F[l - 1] \in Nat
    <3>1. l \in 0..l /\ l - 1 \in 0..l
      BY <2>7, <2>8
    <3> QED
      BY <2>15, <3>1 DEF Shape
  <2>17. Quiet' => \A j \in F[l] + 2..Len(text') : text'[j] # "CR"
    <3> DEFINE e == F[l]
               t == text'
    <3>1. e \in Nat /\ t[e + 2] = "LF" /\ Len(t) = e + 2 + Len(body)
          /\ \A j \in 1..Len(body) : t[e + 2 + j] = body[j]
      BY <2>15, <2>16
    <3>2. Quiet' => \A j \in DOMAIN body : body[j] # "CR"
      BY <2>3, <2>5 DEF Quiet
    <3> HIDE DEF e, t
    <3>3. Quiet' => \A j \in e + 2..Len(t) : t[j] # "CR"
      BY <2>6, <3>1, <3>2, QuietBehind
    <3> QED
      BY <3>3 DEF e, t
  <2>18. Left(F, l)' + hop' = Colons(origin.headers)'
    <3> DEFINE x == Cardinality(ColonsFrom(text', F[l - 1], F[l]))
               y == Cardinality(ColonsFrom(text, E[n - 1], E[n]))
    <3>1. Left(F, l)' = x
      BY <2>8 DEF Left
    <3>2. Left(E, n) = y /\ y + hop = Colons(origin.headers)
      <4>1. Left(E, n) + hop = Colons(origin.headers)
        BY <2>2 DEF Carried
      <4>2. Left(E, n) = y
        BY <2>5 DEF Left
      <4> QED
        BY <4>1, <4>2
    <3>3. x + 1 = y
      BY <2>13, <2>15 DEF AsMany, OneLess
    <3>4. x \in Nat
      BY <2>16, ColonsFinite
    <3>5. Colons(origin.headers)' = Colons(origin.headers)
      BY <2>3
    <3> HIDE DEF x, y
    <3>6. x + (hop + 1) = y + hop
      BY <1>1, <3>3, <3>4
    <3> QED
      BY <1>1, <3>1, <3>2, <3>5, <3>6
  <2>19. Carried(F, l)'
    <3>1. l <= Len(origin.headers)'
      BY <2>3, <2>7, <2>8
    <3> QED
      BY <2>15, <2>17, <2>18, <3>1 DEF Carried
  <2>20. Loop(F, l)'
    <3>1. pc' # "headers" /\ pc' # "parsed"
      BY <2>3
    <3> QED
      BY <3>1, Zenon DEF Loop
  <2> QED
    BY <2>4, <2>19, <2>20
<1> QED
  BY <1>1, <1>2 DEF RelayInv

LEMMA RelayElse ==
  ASSUME PathInv, RelayInv, Answer \/ Read \/ UNCHANGED vars
  PROVE  RelayInv'
<1>1. hop' = hop /\ hop \in Nat
  BY DEF Answer, Read, vars, RelayInv
<1>2. ASSUME Live'
      PROVE  Reading' /\ \E E, n : Carried(E, n)' /\ Loop(E, n)'
  <2>1. Live
    BY <1>2, StillLive DEF Next, Session
  <2>2. PICK E, n : Carried(E, n) /\ Loop(E, n)
    BY <2>1 DEF RelayInv
  <2>3. UNCHANGED <<origin, text, cut, hop, got, stream, headers, body>>
        /\ (pc' = pc \/ pc' = "answered")
    BY DEF Answer, Read, vars
  <2>4. Carried(E, n)'
    BY <2>2, <2>3, StillCarried
  <2>5. Reading
    BY <2>1 DEF RelayInv
  <2>6. Reading' /\ Loop(E, n)'
    <3>1. ASSUME pc' = pc PROVE Reading' /\ Loop(E, n)'
      BY <2>2, <2>3, <2>5, <3>1 DEF Reading, Loop, Copies, Begins, Quiet
    <3>2. ASSUME pc' = "answered" PROVE Reading' /\ Loop(E, n)'
      <4>1. /\ pc' \notin {"line", "headers"} /\ pc' \notin {"reading", "line"}
            /\ pc' # "line" /\ pc' # "headers" /\ pc' # "exhausted" /\ pc' # "parsed"
        BY <3>2
      <4> QED
        BY <4>1, Zenon DEF Reading, Loop
    <3> QED
      BY <2>3, <3>1, <3>2
  <2> QED
    BY <2>4, <2>6
<1> QED
  BY <1>1, <1>2 DEF RelayInv

LEMMA RelayStep ==
  ASSUME PathInv, RelayInv, [Next]_vars
  PROVE  RelayInv'
BY RelayReadSome, RelayParseLine, RelayParseHeader, RelayParseBody, RelayForward, RelayElse
   DEF Next, Session

\* A request gets through a proxy only as long as its last header has a colon
\* for every server, whatever its headers are and however it is cut, unless its
\* body has a CR.
THEOREM ColonsCorrect == Spec => []ColonPerServer
<1>1. ASSUME PathInv, RelayInv PROVE ColonPerServer
  <2> SUFFICES ASSUME pc = "parsed", origin.program = "browser", Apart(origin.headers), Quiet
               PROVE  Colons(origin.headers) > hop
    BY DEF ColonPerServer, Quiet
  <2>1. PICK E, n : Carried(E, n) /\ Loop(E, n)
    BY <1>1 DEF RelayInv, Live
  <2>2. n # 0 /\ n \in Nat /\ Left(E, n) + hop = Colons(origin.headers) /\ Copies(E, n)
    BY <2>1 DEF Carried, Shape, Loop
  <2> DEFINE p == Sent(headers[Len(headers)])
             x == Cardinality(ColonsFrom(p, 0, Len(p)))
  <2>3. Left(E, n) = x + 1
    BY <2>2 DEF Left, Copies, OneLess
  <2>4. x \in Nat
    <3>1. headers \in Seq(Readable) /\ Len(headers) \in 1..Len(headers)
      BY <1>1, <2>2, LenProperties DEF PathInv, Copies
    <3>2. headers[Len(headers)] \in Readable
      BY <3>1, ElementOfSeq
    <3>3. p \in Text
      BY <3>2, SentIs
    <3> HIDE DEF p
    <3>4. Len(p) \in Nat /\ 0 \in Nat
      BY <3>3, LenProperties DEF Text
    <3> QED
      BY <3>4, ColonsFinite
  <2>5. hop \in Nat
    BY <1>1 DEF RelayInv
  <2> HIDE DEF x
  <2>6. (x + 1) + hop > hop
    BY <2>4, <2>5
  <2> QED
    BY <2>2, <2>3, <2>6
<1> QED
  BY <1>1, PathInit, PathStep, RelayInit, RelayStep, PTL DEF Spec

\* The header loop fills the memory only when a read was short, the colons of
\* the last header are used up, some are not apart, or the headers do not fit.
THEOREM LoopsCorrect == Spec => []LoopsOnlyWhenUsedUp
<1>1. ASSUME PathInv, RelayInv PROVE LoopsOnlyWhenUsedUp
  <2> SUFFICES ASSUME pc = "exhausted", origin.program = "browser", ~cut, Apart(origin.headers),
                      ~(Colons(origin.headers) <= hop)
               PROVE  Len(origin.headers) > MaxHeaders
    BY DEF LoopsOnlyWhenUsedUp
  <2>1. Colons(origin.headers) \in Nat /\ hop \in Nat
    BY <1>1, ColonsNat DEF RelayInv
  <2>2. hop < Colons(origin.headers)
    BY <2>1
  <2>3. Reading
    BY <1>1, <2>2 DEF RelayInv, Live
  <2> QED
    BY <2>3 DEF Reading
<1> QED
  BY <1>1, PathInit, PathStep, RelayInit, RelayStep, PTL DEF Spec
=============================================================================
