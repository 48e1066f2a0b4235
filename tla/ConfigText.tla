------------------------------ MODULE ConfigText ------------------------------
(***************************************************************************)
(* The tokens that Parse is given against the file: ParseToken, which goes *)
(* on from one character to the next and puts one back at times, and the   *)
(* same text cut into tokens at once.                                      *)
(***************************************************************************)
EXTENDS ConfigParser
LOCAL INSTANCE SequencesExt

VARIABLE text   \* history: the characters of the file read so far

textVars == <<vars, text>>

InitText == Init /\ text = <<>>

NextText ==
  \/ (CannotOpen \/ Finish) /\ UNCHANGED text
  \/ \E c \in Char :
       /\ Read(c)
       /\ text' = IF length' > length THEN Append(text, c) ELSE text

-----------------------------------------------------------------------------
(* The tokens of a text. *)

Token(type, chars) == << [type |-> type, text |-> chars] >>

TypeOf == "{" :> "start_block" @@ "}" :> "end_block" @@ ";" :> "statement_end"

\* Where in s the first of these characters is, but for the first of s.
FirstOf(s, chars) == SelectInSubSeq(s, 2, Len(s), LAMBDA c : c \in chars)

\* Quoted or not, a word is a token when its end is there; comments are none.
RECURSIVE Cut(_)
Cut(s) ==
  IF s = <<>> THEN <<>>
  ELSE LET c == Head(s)
           end == FirstOf(s, CASE c = "#" -> {"\n", "\r"} [] c \in Quote -> {c}
                               [] OTHER -> Delimiter)
           from(i) == SubSeq(s, i, Len(s))
       IN  CASE c \in Whitespace -> Cut(Tail(s))
             [] c \in Structural -> Token(TypeOf[c], <<>>) \o Cut(Tail(s))
             [] c \notin Whitespace \cup Structural ->
                  CASE end = 0 -> <<>>
                    [] end # 0 /\ c = "#" -> Cut(from(end + 1))
                    [] end # 0 /\ c \in Quote ->
                         Token("normal", SubSeq(s, 1, end)) \o Cut(from(end + 1))
                    [] end # 0 /\ c \notin Quote \cup {"#"} ->
                         Token("normal", SubSeq(s, 1, end - 1)) \o Cut(from(end))

-----------------------------------------------------------------------------
(* Properties. *)

Delivered == SelectSeq(tokens, LAMBDA t : t.type \notin {"eof", "error"})

\* At every moment the tokens that Parse was given, and those that begin in what
\* ParseToken holds or has still to read, are the tokens of the file: none is lost,
\* merged or read twice. With TreeFollowsTokens: the tree follows the file. A
\* word that the file ends in is no token of either.
TokensFollowFile == Delivered \o Cut(value \o unread) = Cut(text)
=============================================================================
