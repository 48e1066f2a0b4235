------------------------ MODULE ConfigParserProperties ------------------------
(***************************************************************************)
(* What the parser guarantees to Config, to the handlers and to            *)
(* ParserProcessor, whatever the file holds and however Parse ends.        *)
(***************************************************************************)
EXTENDS ConfigParser, FiniteSets

Statement == [tokens : Seq(Seq(Char)), child : Nat]

\* Every variable of ParseToken and Parse has its type; config_stack holds only
\* blocks that were allocated.
TypeOK ==
  /\ length \in 0..MaxLength /\ unread \in Seq(Char)
  /\ state \in {"initial", "single_quote", "double_quote", "comment", "normal"}
  /\ value \in Seq(Char)
  /\ tokens \in Seq([type : {"normal", "statement_end", "start_block",
                             "end_block", "eof", "error"},
                     text : Seq(Char)])
  /\ last_token_type \in {"start", "normal", "statement_end", "start_block", "end_block"}
  /\ configs \in Seq(Seq(Statement)) /\ configs # <<>>
  /\ config_stack \in Seq(1..Len(configs))
  /\ result \in {"running", "true", "false", "undefined"}

\* Every statement has a token: get_port, get_handlers and the Configure
\* functions read tokens_[0] without looking at the size.
StatementsHaveTokens ==
  \A b \in DOMAIN configs : \A i \in DOMAIN configs[b] : configs[b][i].tokens # <<>>

\* The stack is a path: each open block is the child of the last statement of
\* the one before, so that what is read goes to the innermost open block.
StackIsPath ==
  \A i \in 1..Len(config_stack) :
    IF i = 1 THEN config_stack[1] = 1
    ELSE LET outer == configs[config_stack[i - 1]]
         IN  outer # <<>> /\ outer[Len(outer)].child = config_stack[i]

\* A word that goes on a statement finds one to go on, in an open block:
\* statements_.back() is never called on an empty vector.
OpenStatement ==
  last_token_type = "normal" => config_stack # <<>> /\ configs[Top] # <<>>

\* The statements that have block b.
Owners(b) ==
  {s \in UNION {{p} \X DOMAIN configs[p] : p \in DOMAIN configs} :
     configs[s[1]][s[2]].child = b}

\* The blocks form a tree: each but the root belongs to exactly one statement
\* (a unique_ptr), of a block created before it.
BlocksFormTree ==
  /\ Owners(1) = {}
  /\ \A b \in DOMAIN configs \ {1} :
       \E p \in 1..(b - 1) : \E i \in DOMAIN configs[p] : Owners(b) = {<<p, i>>}

-----------------------------------------------------------------------------
(* The tree and the tokens; ConfigOutline.tla compares their words. *)

Type(i) == tokens[i].type

\* How many blocks are open before token i.
Depth(i) ==
  LET of(type) == {j \in 1..(i - 1) : Type(j) = type}
  IN  Cardinality(of("start_block")) - Cardinality(of("end_block"))

\* What may follow a token; what may come first.
Following(type) ==
  CASE type = "start" -> {"normal", "eof"}
    [] type = "normal" -> {"normal", "statement_end", "start_block"}
    [] type = "start_block" -> {"normal", "end_block"}
    [] type \in {"statement_end", "end_block"} -> {"normal", "end_block", "eof"}
    [] OTHER -> {}

\* The text read so far is a well-formed file, or the beginning of one:
\* statements of words, each ended by ";" or by a block, with any number of them
\* in the file and in a block, and every block closed before the file ends.
WellFormed ==
  LET n == Len(tokens)
  IN  /\ n > 0 /\ Type(1) \in Following("start")
      /\ \A i \in 1..(n + 1) : Depth(i) >= 0
      /\ \A i \in 1..(n - 1) : Type(i + 1) \in Following(Type(i))
      /\ Type(n) = "eof" => Depth(n) = 0 /\ state # "normal"

\* The last token ends a block, or the file, that has nothing in it.
EndsEmpty ==
  LET n == Len(tokens)
  IN  \/ n = 1 /\ Type(1) = "eof"
      \/ n > 1 /\ Type(n - 1) = "start_block" /\ Type(n) = "end_block"

\* Parse rejects no valid file, at its end or where it gives up, but one with an
\* empty block, at the "}" of the first, and the empty file.
OnlyEmptyRejected == result \in {"false", "undefined"} /\ WellFormed => EndsEmpty

-----------------------------------------------------------------------------
(* What the comments say and the code does not do. *)

\* ConfigParser.h:34 "Returns true iff the input config file is valid": Parse
\* answers, whatever the file.
ParseAnswers == result # "undefined"

\* ConfigParser.h:34 "Returns true iff the input config file is valid", the "if":
\* no valid file that has a statement is rejected. An empty block is: the
\* "[BUG]" of default_config:11.
ValidAccepted ==
  result \in {"false", "undefined"} /\ WellFormed => Type(1) = "eof"
=============================================================================
