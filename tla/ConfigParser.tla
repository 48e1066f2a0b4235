----------------------------- MODULE ConfigParser -----------------------------
(***************************************************************************)
(* NginxConfigParser: ParseToken cuts the characters of a configuration    *)
(* file into tokens, Parse turns the tokens into statements and blocks.    *)
(*                                                                         *)
(* An NginxConfig is named by a number, as by a pointer: configs[1] is the *)
(* out-parameter of Parse, and the child of a statement is the number of   *)
(* its block, or Null. A character is a string of one character.           *)
(***************************************************************************)
EXTENDS Integers, Sequences

CONSTANTS
  Char,        \* the characters of files
  MaxLength    \* characters of a file

Whitespace == {" ", "\t", "\n", "\r"}
Delimiter == {" ", "\t", "\n", ";", "{", "}"}    \* "\r" does not end a word
Structural == {"{", "}", ";"}
Quote == {"'", "\""}

ASSUME CharAssumption == MaxLength \in Nat

VARIABLES
  length,           \* characters the file has had so far
  unread,           \* characters put back, or still to be read
  state,            \* ParseToken: where in a token it is
  value,            \* ParseToken: the characters of the token
  tokens,           \* history: the tokens handed to Parse
  last_token_type,
  configs,          \* the NginxConfig objects
  config_stack,     \* the open blocks, the innermost last
  result            \* "running", then what Parse returns, or "undefined"

lexVars == <<length, unread, state, value>>
parseVars == <<tokens, last_token_type, configs, config_stack, result>>
vars == <<lexVars, parseVars>>

Null == 0

Init ==
  /\ length = 0 /\ unread = <<>> /\ state = "initial" /\ value = <<>>
  /\ tokens = <<>> /\ last_token_type = "start"
  /\ configs = << <<>> >> /\ config_stack = <<1>>
  /\ result = "running"

-----------------------------------------------------------------------------
(* Parse: what it does with one token. *)

Top == config_stack[Len(config_stack)]

Stop(outcome) ==
  result' = outcome /\ UNCHANGED <<last_token_type, configs, config_stack>>

\* The start of a block leaves no trace.
Go_unrecorded(type) ==
  last_token_type' = (IF type = "start_block" THEN last_token_type ELSE type)
    /\ UNCHANGED result
Go(type) == last_token_type' = type /\ UNCHANGED result

Deliver(type, text) == tokens' = Append(tokens, [type |-> type, text |-> text])

\* The first word of a statement is left out.
AddWord_empty(stmts, word) ==
  IF last_token_type = "normal"
  THEN [stmts EXCEPT ![Len(stmts)].tokens = Append(@, word)]
  ELSE Append(stmts, [tokens |-> <<>>, child |-> Null])

\* A new statement for every word.
AddWord_split(stmts, word) == Append(stmts, [tokens |-> <<word>>, child |-> Null])

\* A word starts a statement, or goes on the last one after another word.
AddWord(stmts, word) ==
  IF last_token_type = "normal"
  THEN [stmts EXCEPT ![Len(stmts)].tokens = Append(@, word)]
  ELSE Append(stmts, [tokens |-> <<word>>, child |-> Null])

Word(word) ==
  /\ Deliver("normal", word)
  /\ \/ config_stack = <<>> /\ Stop("undefined")     \* top() of an empty stack
     \/ /\ config_stack # <<>> /\ Go("normal")
        /\ configs' = [configs EXCEPT ![Top] = AddWord(@, word)]
        /\ UNCHANGED config_stack

StatementEnd ==
  /\ Deliver("statement_end", <<>>)
  /\ \/ last_token_type # "normal" /\ Stop("false")
     \/ /\ last_token_type = "normal" /\ Go("statement_end")
        /\ UNCHANGED <<configs, config_stack>>

\* The number of a new NginxConfig; one that names no object.
Allocate_dangling == Len(configs) + 2
Allocate == Len(configs) + 1

\* The block is not attached, or to the first statement.
Attach_lost(stmts, block) == stmts
Attach_first(stmts, block) == [stmts EXCEPT ![1].child = block]
Attach(stmts, block) == [stmts EXCEPT ![Len(stmts)].child = block]

StartBlock ==
  LET new_config == Allocate
  IN  /\ Deliver("start_block", <<>>)
      /\ \/ last_token_type # "normal" /\ Stop("false")
         \/ /\ last_token_type = "normal" /\ Go("start_block")
            /\ configs' =
                 Append([configs EXCEPT ![Top] = Attach(@, new_config)], <<>>)
            /\ config_stack' = Append(config_stack, new_config)

\* A block may not end with a block.
MayClose_statement(type) == type = "statement_end"
MayClose(type) == type \in {"statement_end", "end_block"}

Pop(stack) == SubSeq(stack, 1, Len(stack) - 1)

EndBlock ==
  /\ Deliver("end_block", <<>>)
  /\ \/ ~MayClose(last_token_type) /\ Stop("false")
     \/ /\ MayClose(last_token_type)
        /\ \/ config_stack = <<>> /\ Stop("undefined")     \* pop() of an empty stack
           \/ /\ config_stack # <<>> /\ Go("end_block")
              /\ config_stack' = Pop(config_stack) /\ UNCHANGED configs

\* A block may still be open, or the root closed.
MayEnd(type) == type \in {"statement_end", "end_block"}

EndOfFile ==
  /\ Deliver("eof", <<>>)
  /\ Stop(IF MayEnd(last_token_type) THEN "true" ELSE "false")

Error == Deliver("error", <<>>) /\ Stop("false")

-----------------------------------------------------------------------------
(* ParseToken: one character, or the end of the file. *)

\* Reading c: one put back, or the next one of the file.
Get(c) ==
  /\ result = "running"
  /\ IF unread # <<>>
     THEN c = Head(unread) /\ unread' = Tail(unread) /\ UNCHANGED length
     ELSE length < MaxLength /\ length' = length + 1 /\ UNCHANGED unread

\* The next call of ParseToken starts afresh.
NewToken == state' = "initial" /\ value' = <<>>

Skip(c) ==
  /\ state = "initial" /\ c \in Whitespace /\ Get(c)
  /\ UNCHANGED <<state, value, parseVars>>

Begin(c) ==
  /\ state = "initial" /\ c \notin Whitespace \cup Structural /\ Get(c)
  /\ state' = CASE c = "#" -> "comment" [] c = "'" -> "single_quote"
                [] c = "\"" -> "double_quote" [] OTHER -> "normal"
  /\ value' = <<c>>
  /\ UNCHANGED parseVars

Structure(c) ==
  /\ state = "initial" /\ Get(c) /\ NewToken
  /\ \/ c = "{" /\ StartBlock
     \/ c = "}" /\ EndBlock
     \/ c = ";" /\ StatementEnd

\* The character ends the token that is being read.
Ends(c) ==
  \/ state = "single_quote" /\ c = "'"
  \/ state = "double_quote" /\ c = "\""
  \/ state = "comment" /\ c \in {"\n", "\r"}
  \/ state = "normal" /\ c \in Delimiter

Extend(c) ==
  /\ state # "initial" /\ ~Ends(c) /\ Get(c)
  /\ value' = Append(value, c)
  /\ UNCHANGED <<state, parseVars>>

CloseQuote(c) ==
  /\ state \in {"single_quote", "double_quote"} /\ Ends(c) /\ Get(c)
  /\ Word(Append(value, c)) /\ NewToken

EndComment(c) ==
  /\ state = "comment" /\ Ends(c) /\ Get(c)
  /\ NewToken /\ UNCHANGED parseVars

\* The delimiter is lost.
PutBack_lost(c) == /\ result = "running" /\ Get(c)

\* get and unget: the delimiter is read again by the next ParseToken.
PutBack(c) ==
  /\ result = "running"
  /\ IF unread # <<>>
     THEN c = Head(unread) /\ UNCHANGED <<unread, length>>
     ELSE length < MaxLength /\ length' = length + 1 /\ unread' = <<c>>

EndWord(c) ==
  /\ state = "normal" /\ Ends(c) /\ PutBack(c)
  /\ Word(value) /\ NewToken

\* An unfinished word is dropped, an unfinished quote is an error.
Finish ==
  /\ result = "running" /\ unread = <<>>
  /\ \/ state \in {"single_quote", "double_quote"} /\ Error
     \/ state \notin {"single_quote", "double_quote"} /\ EndOfFile
  /\ UNCHANGED lexVars

\* Parse of a file name: the file does not open.
CannotOpen ==
  /\ result = "running" /\ length = 0 /\ Stop("false")
  /\ UNCHANGED <<tokens, lexVars>>

Read(c) ==
  \/ Skip(c) \/ Begin(c) \/ Structure(c) \/ Extend(c)
  \/ CloseQuote(c) \/ EndComment(c) \/ EndWord(c)

Next == CannotOpen \/ Finish \/ \E c \in Char : Read(c)

Spec == Init /\ [][Next]_vars
=============================================================================
