----------------------------- MODULE ConfigOutline -----------------------------
(***************************************************************************)
(* Where in the tree each word that Parse is given belongs; that these are *)
(* the words of the file is in ConfigText.tla.                             *)
(***************************************************************************)
EXTENDS ConfigParserProperties, FiniteSetsExt

IsWord(i) == Type(i) = "normal"
Follows(i, type) == i < Len(tokens) /\ Type(i + 1) = type

\* The number of the block that token j opens: blocks are numbered as they come.
Opened(j) == 1 + Cardinality({k \in 1..j : Type(k) = "start_block"})

\* The block that is open at a depth before token i: the last one opened there,
\* or the root.
BlockAt(depth, i) ==
  Opened(Max({0} \cup {j \in 1..(i - 1) : Type(j) = "start_block" /\ Depth(j) = depth - 1}))

BlockOf(i) == BlockAt(Depth(i), i)

\* Token i begins a statement; the statements of block b up to token i.
Begins(i) == IsWord(i) /\ (i = 1 \/ ~IsWord(i - 1))
BegunIn(b, i) == {j \in 1..i : Begins(j) /\ BlockOf(j) = b}

\* The words in a row that end with token i.
Row(i) == {j \in 1..i : \A k \in j..i : IsWord(k)}

\* Word i belongs to this statement of its block, and has this place in it.
StatementOf(i) == Cardinality(BegunIn(BlockOf(i), i))
PositionOf(i) == Cardinality(Row(i))

\* Word i is in its place, and its statement has the block that follows, if it
\* is the last of its statement and one does.
Placed(i) ==
  /\ BlockOf(i) \in DOMAIN configs /\ StatementOf(i) \in DOMAIN configs[BlockOf(i)]
  /\ LET stmt == configs[BlockOf(i)][StatementOf(i)]
     IN  /\ PositionOf(i) \in DOMAIN stmt.tokens
         /\ stmt.tokens[PositionOf(i)] = tokens[i].text
         /\ \/ Follows(i, "normal")
            \/ stmt.child = IF Follows(i, "start_block") THEN Opened(i + 1) ELSE Null

\* The tree has the words that Parse was given, each in its place, and no other,
\* also when Parse fails half way: main goes on with what it has.
TreeFollowsTokens ==
  result # "undefined" =>
    /\ \A i \in DOMAIN tokens : IsWord(i) => Placed(i)
    /\ \A b \in DOMAIN configs : \A s \in DOMAIN configs[b] :
         \A p \in DOMAIN configs[b][s].tokens :
           \E i \in DOMAIN tokens :
             IsWord(i) /\ BlockOf(i) = b /\ StatementOf(i) = s /\ PositionOf(i) = p
=============================================================================
