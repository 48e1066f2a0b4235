-------------------------- MODULE ConfigParserProofs --------------------------
(***************************************************************************)
(* Proofs, for every set of characters and every length of file, of what   *)
(* the readers of a configuration rely on: types, a token in every         *)
(* statement, the stack of Parse as a path of its tree, the files that are *)
(* rejected, and the tree as an image of the tokens.                       *)
(***************************************************************************)
EXTENDS ConfigOutline, SequenceTheorems, FiniteSetTheorems, WellFoundedInduction, TLAPS

TokenType == {"normal", "statement_end", "start_block", "end_block", "eof", "error"}
LastType == {"start", "normal", "statement_end", "start_block", "end_block"}
Token == [type : TokenType, text : Seq(Char)]

\* What ParseToken keeps.
LexTypes ==
  /\ length \in 0..MaxLength /\ unread \in Seq(Char)
  /\ state \in {"initial", "single_quote", "double_quote", "comment", "normal"}
  /\ value \in Seq(Char)

\* What Parse keeps.
ParseTypes ==
  /\ tokens \in Seq(Token)
  /\ last_token_type \in LastType
  /\ configs \in Seq(Seq(Statement)) /\ configs # <<>>
  /\ config_stack \in Seq(1..Len(configs))
  /\ result \in {"running", "true", "false", "undefined"}

\* A block is opened after those around it: no block is on the stack twice.
StackAscends ==
  \A i, j \in 1..Len(config_stack) : i < j => config_stack[i] < config_stack[j]

ParseInv ==
  /\ ParseTypes /\ StatementsHaveTokens
  /\ StackIsPath /\ StackAscends /\ OpenStatement

-----------------------------------------------------------------------------
(* Sequences. *)

\* A tuple of one element is a sequence.
LEMMA OneElement == \A S : \A x \in S : <<x>> \in Seq(S) /\ Len(<<x>>) = 1
OBVIOUS

\* What TypeOK says is what the lexer and the parser keep.
LEMMA TypesSplit == TypeOK <=> LexTypes /\ ParseTypes
BY DEF TypeOK, LexTypes, ParseTypes, Token, TokenType, LastType

\* A sequence with an element added is a sequence, and not empty.
LEMMA AppendNew ==
  ASSUME NEW S, NEW s \in Seq(S), NEW x \in S
  PROVE  Append(s, x) \in Seq(S) /\ Append(s, x) # <<>>
BY AppendProperties

\* Replacing an element of a sequence.
LEMMA Replace ==
  ASSUME NEW S, NEW s \in Seq(S), NEW k \in 1..Len(s), NEW x \in S
  PROVE  LET t == [s EXCEPT ![k] = x]
         IN  /\ t \in Seq(S) /\ Len(t) = Len(s) /\ t[k] = x
             /\ \A i \in 1..Len(s) : i # k => t[i] = s[i]
BY ExceptSeq

\* A block after a word was added: it has a statement, every statement has a
\* token if every one had.
LEMMA AddWordAdds ==
  ASSUME NEW stmts \in Seq(Statement), NEW word \in Seq(Char),
         last_token_type = "normal" => stmts # <<>>
  PROVE  /\ AddWord(stmts, word) \in Seq(Statement)
         /\ AddWord(stmts, word) # <<>>
         /\ (\A i \in DOMAIN stmts : stmts[i].tokens # <<>>) =>
              \A i \in DOMAIN AddWord(stmts, word) :
                AddWord(stmts, word)[i].tokens # <<>>
<1>1. CASE last_token_type = "normal"
  <2> DEFINE n == Len(stmts)
             x == [stmts[n] EXCEPT !.tokens = Append(@, word)]
  <2>1. n \in 1..Len(stmts) /\ n \in Nat
    BY <1>1, EmptySeq
  <2>2. stmts[n] \in Statement
    BY <2>1, ElementOfSeq
  <2>3. Append(stmts[n].tokens, word) \in Seq(Seq(Char))
        /\ Append(stmts[n].tokens, word) # <<>>
    <3>1. stmts[n].tokens \in Seq(Seq(Char))
      BY <2>2 DEF Statement
    <3> QED
      BY <3>1, AppendNew
  <2>4. x \in Statement /\ x.tokens # <<>>
    BY <2>2, <2>3 DEF Statement
  <2>5. AddWord(stmts, word) = [stmts EXCEPT ![n] = x]
    BY <1>1 DEF AddWord
  <2> HIDE DEF x, n
  <2>6. /\ AddWord(stmts, word) \in Seq(Statement)
        /\ Len(AddWord(stmts, word)) = Len(stmts)
        /\ AddWord(stmts, word)[n] = x
        /\ \A i \in 1..Len(stmts) : i # n => AddWord(stmts, word)[i] = stmts[i]
    BY <2>1, <2>4, <2>5, Replace
  <2>7. AddWord(stmts, word) # <<>>
    BY <2>1, <2>6, EmptySeq
  <2>8. /\ DOMAIN stmts = 1..Len(stmts)
        /\ DOMAIN AddWord(stmts, word) = 1..Len(stmts)
    BY <2>6
  <2> QED
    BY <2>4, <2>6, <2>7, <2>8
<1>2. CASE last_token_type # "normal"
  <2> DEFINE x == [tokens |-> <<word>>, child |-> Null]
  <2>1. <<word>> \in Seq(Seq(Char)) /\ <<word>> # <<>>
    BY OneElement
  <2>2. x \in Statement /\ x.tokens # <<>>
    BY <2>1 DEF Statement, Null
  <2>3. AddWord(stmts, word) = Append(stmts, x)
    BY <1>2 DEF AddWord
  <2> HIDE DEF x
  <2> QED
    BY <2>2, <2>3
<1> QED
  BY <1>1, <1>2

\* A block whose last statement gets a child keeps its statements' tokens.
LEMMA AttachKeeps ==
  ASSUME NEW stmts \in Seq(Statement), stmts # <<>>, NEW block \in Nat
  PROVE  /\ Attach(stmts, block) \in Seq(Statement)
         /\ Len(Attach(stmts, block)) = Len(stmts) /\ Len(stmts) > 0
         /\ Attach(stmts, block)[Len(stmts)].child = block
         /\ \A i \in DOMAIN stmts :
              /\ Attach(stmts, block)[i].tokens = stmts[i].tokens
              /\ i # Len(stmts) => Attach(stmts, block)[i] = stmts[i]
<1> DEFINE n == Len(stmts)
           x == [stmts[n] EXCEPT !.child = block]
<1>1. n \in 1..Len(stmts) /\ n \in Nat
  BY EmptySeq
<1>2. stmts[n] \in Statement
  BY <1>1, ElementOfSeq
<1>3. x \in Statement /\ x.child = block /\ x.tokens = stmts[n].tokens
  BY <1>2 DEF Statement
<1>4. Attach(stmts, block) = [stmts EXCEPT ![n] = x]
  BY DEF Attach
<1> HIDE DEF x, n
<1>5. /\ Attach(stmts, block) \in Seq(Statement)
      /\ Len(Attach(stmts, block)) = Len(stmts)
      /\ Attach(stmts, block)[n] = x
      /\ \A i \in 1..Len(stmts) : i # n => Attach(stmts, block)[i] = stmts[i]
  BY <1>1, <1>3, <1>4, Replace
<1> QED
  BY <1>1, <1>3, <1>5 DEF n

\* The empty text.
LEMMA EmptyText == \A S : <<>> \in Seq(S)
OBVIOUS

\* A sequence without its last element.
LEMMA Popped ==
  ASSUME NEW S, NEW s \in Seq(S), s # <<>>
  PROVE  /\ Pop(s) \in Seq(S) /\ Len(Pop(s)) = Len(s) - 1 /\ Len(s) \in Nat
         /\ \A i \in 1..Len(s) - 1 : Pop(s)[i] = s[i]
<1>1. Len(s) \in Nat /\ Len(s) # 0
  BY EmptySeq, LenProperties
<1>2. Pop(s) = SubSeq(s, 1, Len(s) - 1)
  BY DEF Pop
<1> DEFINE n == Len(s) - 1
<1>3. n \in Nat /\ \A i \in 1..n : s[i] \in S
  BY <1>1, ElementOfSeq
<1> HIDE DEF n
<1>4. /\ SubSeq(s, 1, n) \in Seq(S)
      /\ Len(SubSeq(s, 1, n)) = IF 1 <= n THEN n - 1 + 1 ELSE 0
      /\ \A i \in 1..n - 1 + 1 : SubSeq(s, 1, n)[i] = s[1 + i - 1]
  BY <1>3, SubSeqProperties
<1>5. Len(SubSeq(s, 1, n)) = n /\ \A i \in 1..n : SubSeq(s, 1, n)[i] = s[i]
  BY <1>3, <1>4
<1> QED
  BY <1>1, <1>2, <1>4, <1>5 DEF n

-----------------------------------------------------------------------------
(* Parse: one lemma for each kind of token. *)

\* A token handed to Parse.
LEMMA Delivered ==
  ASSUME tokens \in Seq(Token), NEW type \in TokenType, NEW text \in Seq(Char),
         Deliver(type, text)
  PROVE  tokens' \in Seq(Token)
<1>1. [type |-> type, text |-> text] \in Token
  BY DEF Token
<1> QED
  BY <1>1, AppendNew DEF Deliver

\* Parse stops: the tree and the stack stay.
LEMMA Stopped ==
  ASSUME ParseInv, tokens' \in Seq(Token),
         NEW outcome \in {"true", "false", "undefined"}, Stop(outcome)
  PROVE  ParseInv'
BY DEF ParseInv, ParseTypes, StatementsHaveTokens, StackIsPath, StackAscends,
       OpenStatement, Top, Stop

\* The innermost open block.
LEMMA TopBlock ==
  ASSUME ParseTypes, config_stack # <<>>
  PROVE  /\ Len(config_stack) \in 1..Len(config_stack)
         /\ Top \in 1..Len(configs) /\ configs[Top] \in Seq(Statement)
<1>1. Len(config_stack) \in 1..Len(config_stack)
  BY EmptySeq DEF ParseTypes
<1>2. Top \in 1..Len(configs)
  BY <1>1, ElementOfSeq DEF ParseTypes, Top
<1> QED
  BY <1>1, <1>2, ElementOfSeq DEF ParseTypes

\* The blocks around the innermost one are other blocks.
LEMMA OuterBlocks ==
  ASSUME ParseTypes, StackAscends, NEW i \in 1..Len(config_stack), i # 1
  PROVE  /\ i - 1 \in 1..Len(config_stack)
         /\ config_stack[i - 1] \in 1..Len(configs)
         /\ config_stack[i - 1] # Top
<1>1. Len(config_stack) \in Nat
  BY DEF ParseTypes
<1>2. i - 1 \in 1..Len(config_stack) /\ Len(config_stack) \in 1..Len(config_stack)
  BY <1>1
<1>3. /\ config_stack[i - 1] \in 1..Len(configs)
      /\ config_stack[Len(config_stack)] \in 1..Len(configs)
  BY <1>2, ElementOfSeq DEF ParseTypes
<1>4. config_stack[i - 1] < config_stack[Len(config_stack)]
  BY <1>1, <1>2 DEF StackAscends
<1> QED
  BY <1>2, <1>3, <1>4 DEF Top

\* A word.
LEMMA WordKeeps ==
  ASSUME ParseInv, NEW word \in Seq(Char), Word(word)
  PROVE  ParseInv'
<1>1. tokens' \in Seq(Token)
  BY Delivered DEF Word, ParseInv, ParseTypes, TokenType
<1>2. CASE config_stack = <<>> /\ Stop("undefined")
  BY <1>1, <1>2, Stopped
<1>3. CASE /\ config_stack # <<>> /\ Go("normal")
           /\ configs' = [configs EXCEPT ![Top] = AddWord(@, word)]
           /\ UNCHANGED config_stack
  <2> DEFINE x == AddWord(configs[Top], word)
  <2>1. /\ Top \in 1..Len(configs) /\ configs[Top] \in Seq(Statement)
        /\ Len(config_stack) \in 1..Len(config_stack)
    BY <1>3, TopBlock DEF ParseInv
  <2>2. last_token_type = "normal" => configs[Top] # <<>>
    BY DEF ParseInv, OpenStatement
  <2>3. \A i \in DOMAIN configs[Top] : configs[Top][i].tokens # <<>>
    BY <2>1 DEF ParseInv, ParseTypes, StatementsHaveTokens
  <2>4. /\ x \in Seq(Statement) /\ x # <<>>
        /\ \A i \in DOMAIN x : x[i].tokens # <<>>
    BY <2>1, <2>2, <2>3, AddWordAdds
  <2>5. configs' = [configs EXCEPT ![Top] = x]
    BY <1>3
  <2> HIDE DEF x
  <2>6. /\ configs' \in Seq(Seq(Statement)) /\ Len(configs') = Len(configs)
        /\ configs'[Top] = x
        /\ \A b \in 1..Len(configs) : b # Top => configs'[b] = configs[b]
    BY <2>1, <2>4, <2>5, Replace DEF ParseInv, ParseTypes
  <2>7. /\ config_stack' = config_stack /\ last_token_type' = "normal"
        /\ result' = result
    BY <1>3 DEF Go
  <2>8. ParseTypes'
    BY <1>1, <2>6, <2>7 DEF ParseInv, ParseTypes, LastType
  <2>9. StatementsHaveTokens'
    <3> SUFFICES ASSUME NEW b \in DOMAIN configs'
                 PROVE  \A i \in DOMAIN configs'[b] : configs'[b][i].tokens # <<>>
      BY DEF StatementsHaveTokens
    <3>1. b \in 1..Len(configs) /\ b \in DOMAIN configs
      BY <2>6 DEF ParseInv, ParseTypes
    <3>2. CASE b = Top
      BY <2>4, <2>6, <3>2
    <3>3. CASE b # Top
      BY <2>6, <3>1, <3>3 DEF ParseInv, StatementsHaveTokens
    <3> QED
      BY <3>2, <3>3
  <2>10. StackIsPath'
    BY <2>6, <2>7, OuterBlocks DEF ParseInv, StackIsPath
  <2>11. StackAscends'
    BY <2>7 DEF ParseInv, StackAscends
  <2>12. OpenStatement'
    BY <1>3, <2>4, <2>6, <2>7 DEF OpenStatement, Top
  <2> QED
    BY <2>8, <2>9, <2>10, <2>11, <2>12 DEF ParseInv
<1> QED
  BY <1>2, <1>3 DEF Word

\* ";"
LEMMA StatementEndKeeps == ParseInv /\ StatementEnd => ParseInv'
<1> SUFFICES ASSUME ParseInv, StatementEnd PROVE ParseInv'
  OBVIOUS
<1>1. tokens' \in Seq(Token)
  BY EmptyText, Delivered DEF StatementEnd, ParseInv, ParseTypes, TokenType
<1>2. CASE Stop("false")
  BY <1>1, <1>2, Stopped
<1>3. CASE Go("statement_end") /\ UNCHANGED <<configs, config_stack>>
  BY <1>1, <1>3 DEF Go, ParseInv, ParseTypes, LastType, StatementsHaveTokens,
     StackIsPath, StackAscends, OpenStatement
<1> QED
  BY <1>2, <1>3 DEF StatementEnd

\* "{": the new block is the child of the last statement of the one around it.
LEMMA StartBlockKeeps == ParseInv /\ StartBlock => ParseInv'
<1> SUFFICES ASSUME ParseInv, StartBlock PROVE ParseInv'
  OBVIOUS
<1>1. tokens' \in Seq(Token)
  BY EmptyText, Delivered DEF StartBlock, ParseInv, ParseTypes, TokenType
<1>2. CASE Stop("false")
  BY <1>1, <1>2, Stopped
<1>3. CASE /\ last_token_type = "normal" /\ Go("start_block")
           /\ configs' = Append([configs EXCEPT ![Top] = Attach(@, Allocate)], <<>>)
           /\ config_stack' = Append(config_stack, Allocate)
  <2> DEFINE new == Allocate
             x == Attach(configs[Top], new)
             m == [configs EXCEPT ![Top] = x]
             n == Len(config_stack)
  <2>1. config_stack # <<>> /\ configs[Top] # <<>>
    BY <1>3 DEF ParseInv, OpenStatement
  <2>2. /\ Top \in 1..Len(configs) /\ configs[Top] \in Seq(Statement)
        /\ n \in 1..n /\ n \in Nat
    BY <2>1, TopBlock DEF ParseInv, ParseTypes
  <2>3. new = Len(configs) + 1 /\ new \in Nat /\ Len(configs) \in Nat
    BY DEF Allocate, ParseInv, ParseTypes
  <2>4. /\ x \in Seq(Statement) /\ Len(x) = Len(configs[Top]) /\ Len(x) > 0
        /\ x[Len(x)].child = new
        /\ \A i \in DOMAIN configs[Top] : x[i].tokens = configs[Top][i].tokens
    BY <2>1, <2>2, <2>3, AttachKeeps
  <2>5. configs' = Append(m, <<>>) /\ config_stack' = Append(config_stack, new)
    BY <1>3
  <2> HIDE DEF new, x
  <2>6. /\ m \in Seq(Seq(Statement)) /\ Len(m) = Len(configs) /\ m[Top] = x
        /\ \A b \in 1..Len(configs) : b # Top => m[b] = configs[b]
    BY <2>2, <2>4, Replace DEF ParseInv, ParseTypes
  <2> HIDE DEF m
  <2>7. /\ configs' \in Seq(Seq(Statement)) /\ Len(configs') = new
        /\ configs'[Top] = x /\ configs'[new] = <<>>
        /\ \A b \in 1..Len(configs) : b # Top => configs'[b] = configs[b]
    BY <2>2, <2>3, <2>5, <2>6
  <2>8. /\ Len(config_stack') = n + 1 /\ config_stack'[n + 1] = new
        /\ \A i \in 1..n : config_stack'[i] = config_stack[i]
    BY <2>2, <2>5 DEF ParseInv, ParseTypes
  <2>9. \A i \in 1..n : config_stack[i] \in 1..Len(configs)
    BY ElementOfSeq DEF ParseInv, ParseTypes
  <2>10. last_token_type' = "start_block" /\ result' = result
    BY <1>3 DEF Go
  <2>11. config_stack' \in Seq(1..Len(configs'))
    <3>1. config_stack \in Seq(1..new)
      <4>1. 1..Len(configs) \subseteq 1..new
        BY <2>3
      <4> QED
        BY <4>1, SeqMonotonic DEF ParseInv, ParseTypes
    <3>2. new \in 1..new
      BY <2>3
    <3> QED
      BY <2>5, <2>7, <3>1, <3>2, AppendNew
  <2>12. ParseTypes'
    BY <1>1, <2>3, <2>7, <2>10, <2>11, EmptySeq DEF ParseInv, ParseTypes, LastType
  <2>13. StatementsHaveTokens'
    <3> SUFFICES ASSUME NEW b \in DOMAIN configs'
                 PROVE  \A i \in DOMAIN configs'[b] : configs'[b][i].tokens # <<>>
      BY DEF StatementsHaveTokens
    <3>1. b \in 1..new /\ \A k \in 1..Len(configs) : k \in DOMAIN configs
      BY <2>7 DEF ParseInv, ParseTypes
    <3>2. CASE b = Top
      <4>1. DOMAIN x = 1..Len(configs[Top]) /\ DOMAIN configs[Top] = 1..Len(configs[Top])
        BY <2>2, <2>4
      <4>2. \A i \in DOMAIN configs[Top] : configs[Top][i].tokens # <<>>
        BY <2>2, <3>1 DEF ParseInv, StatementsHaveTokens
      <4> QED
        BY <2>4, <2>7, <3>2, <4>1, <4>2
    <3>3. CASE b = new
      BY <2>7, <3>3
    <3>4. CASE b # Top /\ b # new
      <4>1. b \in 1..Len(configs) /\ b \in DOMAIN configs
        BY <2>3, <3>1, <3>4
      <4> QED
        BY <2>7, <3>4, <4>1 DEF ParseInv, StatementsHaveTokens
    <3> QED
      BY <3>2, <3>3, <3>4
  <2>14. StackIsPath'
    <3> SUFFICES ASSUME NEW i \in 1..Len(config_stack')
                 PROVE  IF i = 1 THEN config_stack'[1] = 1
                        ELSE LET outer == configs'[config_stack'[i - 1]]
                             IN  /\ outer # <<>>
                                 /\ outer[Len(outer)].child = config_stack'[i]
      BY DEF StackIsPath
    <3>1. CASE i = 1
      BY <2>2, <2>8, <3>1 DEF ParseInv, StackIsPath
    <3>2. CASE i # 1 /\ i \in 1..n
      <4>1. /\ i - 1 \in 1..n /\ config_stack[i - 1] \in 1..Len(configs)
            /\ config_stack[i - 1] # Top
        BY <3>2, OuterBlocks DEF ParseInv
      <4>2. LET outer == configs[config_stack[i - 1]]
            IN  outer # <<>> /\ outer[Len(outer)].child = config_stack[i]
        BY <3>2 DEF ParseInv, StackIsPath
      <4>3. /\ config_stack'[i - 1] = config_stack[i - 1]
            /\ config_stack'[i] = config_stack[i]
        BY <2>8, <3>2, <4>1
      <4>4. configs'[config_stack[i - 1]] = configs[config_stack[i - 1]]
        BY <2>7, <4>1
      <4> QED
        BY <3>2, <4>2, <4>3, <4>4
    <3>3. CASE i = n + 1
      <4>1. config_stack'[i - 1] = Top /\ config_stack'[i] = new /\ i # 1
        BY <2>2, <2>8, <3>3 DEF Top
      <4> QED
        BY <2>4, <2>7, <4>1
    <3> QED
      BY <2>2, <2>8, <3>1, <3>2, <3>3
  <2>15. StackAscends'
    <3> SUFFICES ASSUME NEW i \in 1..n + 1, NEW j \in 1..n + 1, i < j
                 PROVE  config_stack'[i] < config_stack'[j]
      BY <2>8 DEF StackAscends
    <3>1. CASE j \in 1..n
      BY <2>2, <2>8, <3>1 DEF ParseInv, StackAscends
    <3>2. CASE j = n + 1
      BY <2>2, <2>3, <2>8, <2>9, <3>2
    <3> QED
      BY <2>2, <3>1, <3>2
  <2>16. OpenStatement'
    BY <2>10 DEF OpenStatement
  <2> QED
    BY <2>12, <2>13, <2>14, <2>15, <2>16 DEF ParseInv
<1> QED
  BY <1>2, <1>3 DEF StartBlock

\* "}": what is left of the stack is a path.
LEMMA EndBlockKeeps == ParseInv /\ EndBlock => ParseInv'
<1> SUFFICES ASSUME ParseInv, EndBlock PROVE ParseInv'
  OBVIOUS
<1>1. tokens' \in Seq(Token)
  BY EmptyText, Delivered DEF EndBlock, ParseInv, ParseTypes, TokenType
<1>2. CASE Stop("false") \/ Stop("undefined")
  BY <1>1, <1>2, Stopped
<1>3. CASE /\ config_stack # <<>> /\ Go("end_block")
           /\ config_stack' = Pop(config_stack) /\ UNCHANGED configs
  <2> DEFINE n == Len(config_stack)
  <2>1. n \in 1..n /\ n \in Nat
    BY <1>3, TopBlock DEF ParseInv, ParseTypes
  <2>2. config_stack \in Seq(1..Len(configs))
    BY DEF ParseInv, ParseTypes
  <2>3. /\ config_stack' \in Seq(1..Len(configs)) /\ Len(config_stack') = n - 1
        /\ \A i \in 1..n - 1 : config_stack'[i] = config_stack[i]
    BY <1>3, <2>2, Popped
  <2>4. last_token_type' = "end_block" /\ result' = result /\ configs' = configs
    BY <1>3 DEF Go
  <2>5. ParseTypes'
    BY <1>1, <2>3, <2>4 DEF ParseInv, ParseTypes, LastType
  <2>6. StatementsHaveTokens'
    BY <2>4 DEF ParseInv, StatementsHaveTokens
  <2>7. StackIsPath'
    <3> SUFFICES ASSUME NEW i \in 1..n - 1
                 PROVE  IF i = 1 THEN config_stack'[1] = 1
                        ELSE LET outer == configs[config_stack'[i - 1]]
                             IN  /\ outer # <<>>
                                 /\ outer[Len(outer)].child = config_stack'[i]
      BY <2>3, <2>4 DEF StackIsPath
    <3>1. i \in 1..n /\ (i # 1 => i - 1 \in 1..n - 1)
      BY <2>1
    <3>2. IF i = 1 THEN config_stack[1] = 1
          ELSE LET outer == configs[config_stack[i - 1]]
               IN  outer # <<>> /\ outer[Len(outer)].child = config_stack[i]
      BY <3>1 DEF ParseInv, StackIsPath
    <3> QED
      BY <2>3, <3>1, <3>2
  <2>8. StackAscends'
    <3>1. \A i \in 1..n - 1 : i \in 1..n
      BY <2>1
    <3> QED
      BY <2>3, <3>1 DEF ParseInv, StackAscends
  <2>9. OpenStatement'
    BY <2>4 DEF OpenStatement
  <2> QED
    BY <2>5, <2>6, <2>7, <2>8, <2>9 DEF ParseInv
<1> QED
  BY <1>2, <1>3 DEF EndBlock

\* The end of the file, and an unfinished quote.
LEMMA FinishKeeps == ParseInv /\ (EndOfFile \/ Error) => ParseInv'
<1> SUFFICES ASSUME ParseInv, EndOfFile \/ Error PROVE ParseInv'
  OBVIOUS
<1>1. CASE EndOfFile
  <2>1. tokens' \in Seq(Token)
    BY <1>1, EmptyText, Delivered DEF EndOfFile, ParseInv, ParseTypes, TokenType
  <2>2. Stop("true") \/ Stop("false")
    BY <1>1 DEF EndOfFile
  <2> QED
    BY <2>1, <2>2, Stopped
<1>2. CASE Error
  <2>1. tokens' \in Seq(Token)
    BY <1>2, EmptyText, Delivered DEF Error, ParseInv, ParseTypes, TokenType
  <2>2. Stop("false")
    BY <1>2 DEF Error
  <2> QED
    BY <2>1, <2>2, Stopped
<1> QED
  BY <1>1, <1>2

-----------------------------------------------------------------------------
(* ParseToken. *)

\* Reading a character.
LEMMA GetTypes ==
  ASSUME LexTypes, NEW c \in Char, Get(c)
  PROVE  length' \in 0..MaxLength /\ unread' \in Seq(Char)
<1>1. CASE unread # <<>> /\ unread' = Tail(unread) /\ UNCHANGED length
  BY <1>1, HeadTailProperties DEF LexTypes
<1>2. CASE length < MaxLength /\ length' = length + 1 /\ UNCHANGED unread
  BY <1>2, CharAssumption DEF LexTypes
<1> QED
  BY <1>1, <1>2 DEF Get

\* Reading a character and putting it back.
LEMMA PutBackTypes ==
  ASSUME LexTypes, NEW c \in Char, PutBack(c)
  PROVE  length' \in 0..MaxLength /\ unread' \in Seq(Char)
<1>1. CASE UNCHANGED <<unread, length>>
  BY <1>1 DEF LexTypes
<1>2. CASE length < MaxLength /\ length' = length + 1 /\ unread' = <<c>>
  BY <1>2, CharAssumption, OneElement DEF LexTypes
<1> QED
  BY <1>1, <1>2 DEF PutBack

\* Every step keeps what ParseToken keeps.
LEMMA LexerKeeps == LexTypes /\ [Next]_vars => LexTypes'
<1> SUFFICES ASSUME LexTypes, [Next]_vars PROVE LexTypes'
  OBVIOUS
<1>1. CASE UNCHANGED lexVars
  BY <1>1 DEF lexVars, LexTypes
<1>2. ASSUME NEW c \in Char, Skip(c) PROVE LexTypes'
  BY <1>2, GetTypes DEF Skip, LexTypes
<1>3. ASSUME NEW c \in Char, Begin(c) PROVE LexTypes'
  BY <1>3, GetTypes, OneElement DEF Begin, LexTypes
<1>4. ASSUME NEW c \in Char, Structure(c) PROVE LexTypes'
  BY <1>4, GetTypes, EmptyText DEF Structure, NewToken, LexTypes
<1>5. ASSUME NEW c \in Char, Extend(c) PROVE LexTypes'
  BY <1>5, GetTypes, AppendNew DEF Extend, LexTypes
<1>6. ASSUME NEW c \in Char, CloseQuote(c) PROVE LexTypes'
  BY <1>6, GetTypes, EmptyText DEF CloseQuote, NewToken, LexTypes
<1>7. ASSUME NEW c \in Char, EndComment(c) PROVE LexTypes'
  BY <1>7, GetTypes, EmptyText DEF EndComment, NewToken, LexTypes
<1>8. ASSUME NEW c \in Char, EndWord(c) PROVE LexTypes'
  BY <1>8, PutBackTypes, EmptyText DEF EndWord, NewToken, LexTypes
<1> QED
  BY <1>1, <1>2, <1>3, <1>4, <1>5, <1>6, <1>7, <1>8 DEF Next, Read, CannotOpen, Finish, vars

\* Every step keeps what the parser keeps.
LEMMA ParserKeeps == LexTypes /\ ParseInv /\ [Next]_vars => ParseInv'
<1> SUFFICES ASSUME LexTypes, ParseInv, [Next]_vars PROVE ParseInv'
  OBVIOUS
<1>1. CASE UNCHANGED parseVars
  BY <1>1 DEF parseVars, ParseInv, ParseTypes, StatementsHaveTokens, StackIsPath,
     StackAscends, OpenStatement, Top
<1>2. CASE Finish
  BY <1>2, FinishKeeps DEF Finish
<1>3. CASE CannotOpen
  <2>1. tokens' \in Seq(Token)
    BY <1>3 DEF CannotOpen, ParseInv, ParseTypes
  <2>2. Stop("false")
    BY <1>3 DEF CannotOpen
  <2> QED
    BY <2>1, <2>2, Stopped
<1>4. ASSUME NEW c \in Char, Structure(c) PROVE ParseInv'
  BY <1>4, StatementEndKeeps, StartBlockKeeps, EndBlockKeeps DEF Structure
<1>5. ASSUME NEW c \in Char, CloseQuote(c) PROVE ParseInv'
  <2>1. Append(value, c) \in Seq(Char)
    BY AppendNew DEF LexTypes
  <2> QED
    BY <1>5, <2>1, WordKeeps DEF CloseQuote
<1>6. ASSUME NEW c \in Char, EndWord(c) PROVE ParseInv'
  BY <1>6, WordKeeps DEF EndWord, LexTypes
<1> QED
  BY <1>1, <1>2, <1>3, <1>4, <1>5, <1>6
     DEF Next, Read, Skip, Begin, Extend, EndComment, vars

\* The parser starts with an empty root, open.
LEMMA ParserStarts == Init => LexTypes /\ ParseInv
<1> SUFFICES ASSUME Init PROVE LexTypes /\ ParseInv
  OBVIOUS
<1>1. LexTypes
  BY EmptyText, CharAssumption DEF Init, LexTypes
<1>2. <<>> \in Seq(Token) /\ <<>> \in Seq(Statement)
  BY EmptyText
<1>3. configs \in Seq(Seq(Statement)) /\ Len(configs) = 1 /\ configs[1] = <<>>
  BY <1>2, OneElement DEF Init
<1>4. config_stack \in Seq(1..1) /\ Len(config_stack) = 1 /\ config_stack[1] = 1
  BY OneElement DEF Init
<1>5. ParseTypes
  BY <1>2, <1>3, <1>4, EmptySeq DEF Init, ParseTypes, LastType
<1>6. StatementsHaveTokens
  BY <1>3 DEF StatementsHaveTokens
<1>7. StackIsPath /\ StackAscends
  BY <1>4 DEF StackIsPath, StackAscends
<1>8. OpenStatement
  BY DEF Init, OpenStatement
<1> QED
  BY <1>1, <1>5, <1>6, <1>7, <1>8 DEF ParseInv

\* The inductive invariant.
LEMMA ParserInvariant == Spec => [](LexTypes /\ ParseInv)
BY ParserStarts, LexerKeeps, ParserKeeps, PTL DEF Spec

-----------------------------------------------------------------------------
(* What the readers of the tree rely on. *)

\* Whatever the file, the variables keep their types: the stack and the children
\* name blocks that exist.
THEOREM ParserTypes == Spec => []TypeOK
<1>1. LexTypes /\ ParseInv => TypeOK
  BY TypesSplit DEF ParseInv
<1> QED
  BY <1>1, ParserInvariant, PTL

\* Whatever the file, and however Parse ends, tokens_[0] of every statement
\* exists: its readers take it without looking at the size.
THEOREM TokensEverywhere == Spec => []StatementsHaveTokens
<1>1. LexTypes /\ ParseInv => StatementsHaveTokens
  BY DEF ParseInv
<1> QED
  BY <1>1, ParserInvariant, PTL

\* Whatever the file, config_stack is a path from the root: what is read goes
\* into the innermost block that is open.
THEOREM StackCorrect == Spec => []StackIsPath
<1>1. LexTypes /\ ParseInv => StackIsPath
  BY DEF ParseInv
<1> QED
  BY <1>1, ParserInvariant, PTL

\* Parse never goes on, nor attaches a block to, a statement that is not there:
\* statements_.back() is called on an empty vector for no file.
THEOREM BackHasStatement == Spec => []OpenStatement
<1>1. LexTypes /\ ParseInv => OpenStatement
  BY DEF ParseInv
<1> QED
  BY <1>1, ParserInvariant, PTL

-----------------------------------------------------------------------------
(* The tree of the blocks. *)

\* Statement i of block p, in the objects cs, has block b.
Has(cs, p, i, b) == p \in DOMAIN cs /\ i \in DOMAIN cs[p] /\ cs[p][i].child = b

\* What keeps the blocks a tree: children exist, and the statement that may get
\* one next has none.
TreeInv ==
  /\ BlocksFormTree
  /\ \A p, i, b : Has(configs, p, i, b) => b \in 0..Len(configs)
  /\ last_token_type = "normal" =>
       configs[Top][Len(configs[Top])].child = Null

\* The owners of a block, before and after a step.
LEMMA OwnersAre ==
  /\ \A b, p, i : <<p, i>> \in Owners(b) <=> Has(configs, p, i, b)
  /\ \A b : \A s \in Owners(b) : s = <<s[1], s[2]>>
  /\ \A b, p, i : <<p, i>> \in Owners(b)' <=> Has(configs', p, i, b)
  /\ \A b : \A s \in Owners(b)' : s = <<s[1], s[2]>>
BY DEF Owners, Has

\* A block that no statement gets or loses keeps its owners.
LEMMA SameOwners ==
  ASSUME NEW b, \A p, i : Has(configs', p, i, b) <=> Has(configs, p, i, b)
  PROVE  Owners(b)' = Owners(b)
<1>1. ASSUME NEW s PROVE s \in Owners(b)' <=> s \in Owners(b)
  <2>1. CASE s = <<s[1], s[2]>>
    <3>1. /\ <<s[1], s[2]>> \in Owners(b) <=> Has(configs, s[1], s[2], b)
          /\ <<s[1], s[2]>> \in Owners(b)' <=> Has(configs', s[1], s[2], b)
      BY OwnersAre
    <3> QED
      BY <2>1, <3>1
  <2>2. CASE s # <<s[1], s[2]>>
    BY <2>2, OwnersAre
  <2> QED
    BY <2>1, <2>2
<1> QED
  BY <1>1

\* Adding a word gives no block to a statement and takes none from one.
LEMMA AddWordChildren ==
  ASSUME NEW stmts \in Seq(Statement), NEW word \in Seq(Char),
         last_token_type = "normal" =>
           stmts # <<>> /\ stmts[Len(stmts)].child = Null
  PROVE  LET x == AddWord(stmts, word)
         IN  /\ \A b : b # Null => \A i :
                  (i \in DOMAIN x /\ x[i].child = b)
                    <=> (i \in DOMAIN stmts /\ stmts[i].child = b)
             /\ x[Len(x)].child = Null
<1> DEFINE x == AddWord(stmts, word)
           n == Len(stmts)
<1>0. DOMAIN stmts = 1..n /\ n \in Nat
  BY LenProperties
<1>1. CASE last_token_type = "normal"
  <2> DEFINE y == [stmts[n] EXCEPT !.tokens = Append(@, word)]
  <2>1. n \in 1..n
    BY <1>1, EmptySeq
  <2>2. stmts[n] \in Statement /\ stmts[n].child = Null
    BY <1>1, <2>1, ElementOfSeq
  <2>3. stmts[n].tokens \in Seq(Seq(Char))
    BY <2>2 DEF Statement
  <2>4. Append(stmts[n].tokens, word) \in Seq(Seq(Char))
    BY <2>3, AppendNew
  <2>5. y \in Statement /\ y.child = stmts[n].child
    BY <2>2, <2>4 DEF Statement
  <2>6. x = [stmts EXCEPT ![n] = y]
    BY <1>1 DEF AddWord
  <2> HIDE DEF x, y
  <2>7. /\ x \in Seq(Statement) /\ Len(x) = Len(stmts) /\ x[n] = y
        /\ \A i \in 1..Len(stmts) : i # n => x[i] = stmts[i]
    BY <2>1, <2>5, <2>6, Replace
  <2>8. DOMAIN x = 1..n
    BY <2>7, LenProperties
  <2> HIDE DEF n
  <2> QED
    BY <1>0, <2>1, <2>2, <2>5, <2>7, <2>8 DEF x, n
<1>2. CASE last_token_type # "normal"
  <2> DEFINE y == [tokens |-> <<word>>, child |-> Null]
  <2>1. <<word>> \in Seq(Seq(Char))
    BY OneElement
  <2>2. y \in Statement /\ y.child = Null
    BY <2>1 DEF Statement, Null
  <2>3. x = Append(stmts, y)
    BY <1>2 DEF AddWord
  <2> HIDE DEF x, y
  <2>4. /\ x \in Seq(Statement) /\ Len(x) = n + 1 /\ x[n + 1] = y
        /\ \A i \in 1..n : x[i] = stmts[i]
    BY <2>2, <2>3, AppendProperties
  <2>5. DOMAIN x = 1..n + 1
    BY <2>4, LenProperties
  <2> HIDE DEF n
  <2>6. ASSUME NEW b, b # Null, NEW i
        PROVE  (i \in DOMAIN x /\ x[i].child = b)
                 <=> (i \in DOMAIN stmts /\ stmts[i].child = b)
    <3>1. CASE i \in 1..n
      <4>1. i \in 1..n + 1
        BY <1>0, <3>1
      <4> QED
        BY <1>0, <2>4, <2>5, <3>1, <4>1
    <3>2. CASE i \notin 1..n
      <4>1. i \in 1..n + 1 => i = n + 1
        BY <1>0, <3>2
      <4> QED
        BY <1>0, <2>2, <2>4, <2>5, <2>6, <3>2, <4>1
    <3> QED
      BY <3>1, <3>2
  <2> QED
    BY <2>2, <2>4, <2>6 DEF x
<1> QED
  BY <1>1, <1>2

\* A step in which no statement gets or loses a block keeps the tree.
LEMMA SameTree ==
  ASSUME ParseTypes, ParseTypes', TreeInv, Len(configs') = Len(configs),
         \A b : b # Null => \A p, i : Has(configs', p, i, b) <=> Has(configs, p, i, b)
  PROVE  /\ BlocksFormTree'
         /\ \A p, i, b : Has(configs', p, i, b) => b \in 0..Len(configs')
<1> DEFINE n == Len(configs)
<1>1. n \in Nat \ {0} /\ DOMAIN configs = 1..n /\ DOMAIN configs' = 1..n
  BY EmptySeq, LenProperties DEF ParseTypes
<1> HIDE DEF n
<1>2. \A b \in 1..n : Owners(b)' = Owners(b)
  BY <1>1, SameOwners DEF Null
<1>3. Owners(1)' = {}
  BY <1>1, <1>2 DEF TreeInv, BlocksFormTree
<1>4. ASSUME NEW b \in 1..n \ {1}
      PROVE  \E p \in 1..(b - 1) : \E i \in DOMAIN configs'[p] : Owners(b)' = {<<p, i>>}
  <2>1. PICK p \in 1..(b - 1) : \E i \in DOMAIN configs[p] : Owners(b) = {<<p, i>>}
    BY <1>1, <1>4 DEF TreeInv, BlocksFormTree
  <2>2. PICK i \in DOMAIN configs[p] : Owners(b)' = {<<p, i>>}
    BY <1>2, <2>1
  <2>3. Has(configs', p, i, b)
    BY <2>2, OwnersAre
  <2> QED
    BY <2>1, <2>2, <2>3 DEF Has
<1>5. BlocksFormTree'
  BY <1>1, <1>3, <1>4 DEF BlocksFormTree
<1>6. ASSUME NEW p, NEW i, NEW b, Has(configs', p, i, b)
      PROVE  b \in 0..Len(configs')
  BY <1>1, <1>6 DEF TreeInv, Null, n
<1> QED
  BY <1>5, <1>6

\* A word.
LEMMA WordTree ==
  ASSUME ParseInv, ParseInv', TreeInv, NEW word \in Seq(Char), Word(word)
  PROVE  TreeInv'
<1>1. CASE Stop("undefined")
  BY <1>1 DEF Stop, TreeInv, BlocksFormTree, Owners, Has, Top
<1>2. CASE /\ config_stack # <<>> /\ Go("normal")
           /\ configs' = [configs EXCEPT ![Top] = AddWord(@, word)]
           /\ UNCHANGED config_stack
  <2> DEFINE stmts == configs[Top]
             x == AddWord(stmts, word)
  <2>1. Top \in 1..Len(configs) /\ stmts \in Seq(Statement)
    BY <1>2, TopBlock DEF ParseInv
  <2>2. last_token_type = "normal" => stmts # <<>> /\ stmts[Len(stmts)].child = Null
    BY DEF ParseInv, OpenStatement, TreeInv
  <2>3. /\ \A b : b # Null => \A i :
             (i \in DOMAIN x /\ x[i].child = b)
               <=> (i \in DOMAIN stmts /\ stmts[i].child = b)
        /\ x[Len(x)].child = Null
    <3> HIDE DEF stmts
    <3> QED
      BY <2>1, <2>2, AddWordChildren
  <2>4. x \in Seq(Statement)
    <3> HIDE DEF stmts
    <3> QED
      BY <2>1, <2>2, AddWordAdds
  <2>5. configs' = [configs EXCEPT ![Top] = x]
    BY <1>2
  <2> HIDE DEF x
  <2>6. /\ configs' \in Seq(Seq(Statement)) /\ Len(configs') = Len(configs)
        /\ configs'[Top] = x
        /\ \A b \in 1..Len(configs) : b # Top => configs'[b] = configs[b]
    BY <2>1, <2>4, <2>5, Replace DEF ParseInv, ParseTypes
  <2>7. DOMAIN configs' = 1..Len(configs) /\ DOMAIN configs = 1..Len(configs)
    BY <2>6, LenProperties DEF ParseInv, ParseTypes
  <2>8. ASSUME NEW b, b # Null, NEW q, NEW i
        PROVE  Has(configs', q, i, b) <=> Has(configs, q, i, b)
    <3>1. CASE q = Top
      BY <2>1, <2>3, <2>6, <2>7, <2>8, <3>1 DEF Has
    <3>2. CASE q # Top
      BY <2>6, <2>7, <3>2 DEF Has
    <3> QED
      BY <3>1, <3>2
  <2>9. Top' = Top /\ configs'[Top'] = x
    BY <1>2, <2>6 DEF Top
  <2>10. /\ BlocksFormTree'
         /\ \A q, i, b : Has(configs', q, i, b) => b \in 0..Len(configs')
    BY <2>6, <2>8, SameTree DEF ParseInv
  <2> QED
    BY <2>3, <2>9, <2>10 DEF TreeInv
<1> QED
  BY <1>1, <1>2 DEF Word

\* "{": the last statement, which has no block, gets the new one.
LEMMA StartBlockTree ==
  ASSUME ParseInv, ParseInv', TreeInv, StartBlock
  PROVE  TreeInv'
<1>1. CASE Stop("false")
  BY <1>1 DEF Stop, TreeInv, BlocksFormTree, Owners, Has, Top
<1>2. CASE /\ last_token_type = "normal" /\ Go("start_block")
           /\ configs' = Append([configs EXCEPT ![Top] = Attach(@, Allocate)], <<>>)
           /\ config_stack' = Append(config_stack, Allocate)
  <2>0. PICK new : new = Allocate
    OBVIOUS
  <2> DEFINE stmts == configs[Top]
             k == Len(stmts)
             n == Len(configs)
             x == Attach(stmts, new)
             m == [configs EXCEPT ![Top] = x]
  <2>1. config_stack # <<>> /\ stmts # <<>>
    BY <1>2 DEF ParseInv, OpenStatement
  <2>2. Top \in 1..n /\ stmts \in Seq(Statement)
    BY <2>1, TopBlock DEF ParseInv
  <2>3. n \in Nat \ {0} /\ new = n + 1 /\ new \in Nat /\ new # Null
    <3>1. n \in Nat \ {0}
      BY EmptySeq DEF ParseInv, ParseTypes
    <3> QED
      BY <2>0, <3>1 DEF Allocate, Null
  <2>4. stmts[k].child = Null
    BY <1>2 DEF TreeInv
  <2>5. k \in 1..k /\ k \in Nat /\ DOMAIN stmts = 1..k
    <3> HIDE DEF stmts
    <3> QED
      BY <2>1, <2>2, EmptySeq, LenProperties
  <2>6. /\ x \in Seq(Statement) /\ DOMAIN x = 1..k /\ x[k].child = new
        /\ \A i \in 1..k : i # k => x[i] = stmts[i]
    <3> DEFINE y == [stmts[k] EXCEPT !.child = new]
    <3>1. stmts[k] \in Statement
      BY <2>2, <2>5, ElementOfSeq
    <3>2. y \in Statement /\ y.child = new
      BY <2>3, <3>1 DEF Statement
    <3>3. x = [stmts EXCEPT ![k] = y]
      BY DEF Attach
    <3>5. k \in 1..Len(stmts) /\ Len(stmts) = k
      BY <2>5
    <3> HIDE DEF x, y, stmts, k
    <3>4. /\ x \in Seq(Statement) /\ Len(x) = k /\ x[k] = y
          /\ \A i \in 1..k : i # k => x[i] = stmts[i]
      BY <2>2, <3>5, <3>2, <3>3, Replace
    <3> QED
      BY <3>2, <3>4, LenProperties
  <2>7. configs' = Append(m, <<>>) /\ last_token_type' = "start_block"
    BY <1>2, <2>0 DEF Go
  <2> HIDE DEF x
  <2>8. /\ m \in Seq(Seq(Statement)) /\ Len(m) = n /\ m[Top] = x
        /\ \A b \in 1..n : b # Top => m[b] = configs[b]
    BY <2>2, <2>6, Replace DEF ParseInv, ParseTypes
  <2> HIDE DEF m
  <2>9. /\ configs' \in Seq(Seq(Statement)) /\ Len(configs') = n + 1
        /\ configs'[n + 1] = <<>> /\ \A b \in 1..n : configs'[b] = m[b]
    <3>1. <<>> \in Seq(Statement)
      OBVIOUS
    <3> QED
      BY <2>7, <2>8, <3>1, AppendProperties
  <2>10. DOMAIN configs' = 1..n + 1 /\ DOMAIN configs = 1..n
    BY <2>9, LenProperties DEF ParseInv, ParseTypes
  <2> HIDE DEF stmts
  <2>11. configs[Top] = stmts /\ configs'[Top] = x
    BY <2>2, <2>8, <2>9 DEF stmts
  <2> HIDE DEF n, k
  <2>12. 1..n \subseteq 1..n + 1 /\ \A q \in 1..n + 1 : q \in 1..n \/ q = n + 1
    BY <2>3
  <2>13. ASSUME NEW q, NEW i, NEW b, b # Null
         PROVE  Has(configs', q, i, b) <=>
                  \/ Has(configs, q, i, b)
                  \/ q = Top /\ i = k /\ b = new
    <3>1. CASE q = Top
      <4>1. Has(configs', q, i, b) <=> i \in 1..k /\ x[i].child = b
        BY <2>2, <2>6, <2>10, <2>11, <2>12, <3>1 DEF Has
      <4>2. Has(configs, q, i, b) <=> i \in 1..k /\ stmts[i].child = b
        BY <2>2, <2>5, <2>10, <2>11, <3>1 DEF Has
      <4> QED
        BY <2>4, <2>5, <2>6, <2>13, <3>1, <4>1, <4>2
    <3>2. CASE q # Top /\ q \in 1..n
      BY <2>8, <2>9, <2>10, <2>12, <3>2 DEF Has
    <3>3. CASE q # Top /\ q \notin 1..n
      <4>1. ~Has(configs, q, i, b)
        BY <2>10, <3>3 DEF Has
      <4>2. ~Has(configs', q, i, b)
        <5>1. q \in 1..n + 1 => configs'[q] = <<>>
          BY <2>9, <2>12, <3>3
        <5> QED
          BY <2>10, <5>1 DEF Has
      <4> QED
        BY <3>3, <4>1, <4>2
    <3> QED
      BY <3>1, <3>2, <3>3
  <2>14. \A q, i, b : Has(configs', q, i, b) => b \in 0..n + 1
    <3> SUFFICES ASSUME NEW q, NEW i, NEW b, Has(configs', q, i, b), b # Null
                 PROVE  b \in 0..n + 1
      BY <2>3 DEF Null
    <3>1. Has(configs, q, i, b) \/ b = new
      BY <2>13
    <3>2. Has(configs, q, i, b) => b \in 0..n
      BY DEF TreeInv, n
    <3> QED
      BY <2>3, <3>1, <3>2
  <2>15. \A b \in 1..n : Owners(b)' = Owners(b)
    <3> TAKE b \in 1..n
    <3>1. b # Null /\ b # new
      BY <2>3 DEF Null
    <3>2. \A q, i : Has(configs', q, i, b) <=> Has(configs, q, i, b)
      BY <2>13, <3>1
    <3> QED
      BY <3>2, SameOwners
  <2>16. Owners(new)' = {<<Top, k>>}
    <3>1. \A q, i : ~Has(configs, q, i, new)
      <4>1. new \notin 0..n
        BY <2>3
      <4> QED
        BY <4>1 DEF TreeInv, n
    <3>2. \A q, i : Has(configs', q, i, new) <=> q = Top /\ i = k
      BY <2>3, <2>13, <3>1
    <3>3. <<Top, k>> \in Owners(new)'
      BY <3>2, OwnersAre
    <3>4. ASSUME NEW s \in Owners(new)' PROVE s = <<Top, k>>
      <4>1. s = <<s[1], s[2]>>
        BY OwnersAre
      <4>2. <<s[1], s[2]>> \in Owners(new)'
        BY <4>1
      <4>3. Has(configs', s[1], s[2], new)
        BY <4>2, OwnersAre
      <4>4. s[1] = Top /\ s[2] = k
        BY <3>2, <4>3
      <4> QED
        BY <4>1, <4>4
    <3> QED
      BY <3>3, <3>4
  <2>17. BlocksFormTree'
    <3>1. Owners(1)' = {}
      BY <2>3, <2>15 DEF TreeInv, BlocksFormTree
    <3>2. ASSUME NEW b \in 1..n \ {1}
          PROVE  \E q \in 1..(b - 1) : \E i \in DOMAIN configs'[q] : Owners(b)' = {<<q, i>>}
      <4>1. PICK q \in 1..(b - 1) : \E i \in DOMAIN configs[q] : Owners(b) = {<<q, i>>}
        BY <2>10, <3>2 DEF TreeInv, BlocksFormTree
      <4>2. PICK i \in DOMAIN configs[q] : Owners(b)' = {<<q, i>>}
        BY <2>15, <4>1
      <4>3. Has(configs', q, i, b)
        BY <4>2, OwnersAre
      <4> QED
        BY <4>1, <4>2, <4>3 DEF Has
    <3>3. \E q \in 1..(new - 1) : \E i \in DOMAIN configs'[q] : Owners(new)' = {<<q, i>>}
      <4>1. Top \in 1..(new - 1)
        BY <2>2, <2>3 DEF n
      <4>2. k \in DOMAIN configs'[Top]
        BY <2>5, <2>6, <2>11
      <4> QED
        BY <2>16, <4>1, <4>2
    <3>4. ASSUME NEW b \in DOMAIN configs' \ {1} PROVE b \in 1..n \ {1} \/ b = new
      BY <2>3, <2>10, <2>12
    <3> QED
      BY <3>1, <3>2, <3>3, <3>4 DEF BlocksFormTree
  <2> QED
    BY <2>7, <2>9, <2>14, <2>17 DEF TreeInv
<1> QED
  BY <1>1, <1>2 DEF StartBlock

\* A token that leaves the blocks alone keeps the tree.
LEMMA OtherTree ==
  ASSUME TreeInv, UNCHANGED configs,
         \/ UNCHANGED <<last_token_type, config_stack>>
         \/ last_token_type' # "normal"
  PROVE  TreeInv'
<1>1. BlocksFormTree'
  BY DEF TreeInv, BlocksFormTree, Owners
<1>2. \A p, i, b : Has(configs', p, i, b) => b \in 0..Len(configs')
  BY DEF TreeInv
<1>3. last_token_type' = "normal" => configs'[Top'][Len(configs'[Top'])].child = Null
  BY DEF TreeInv, Top
<1> QED
  BY <1>1, <1>2, <1>3 DEF TreeInv

\* Every step keeps the blocks a tree.
LEMMA TreeKeeps ==
  LexTypes /\ ParseInv /\ ParseInv' /\ TreeInv /\ [Next]_vars => TreeInv'
<1> SUFFICES ASSUME LexTypes, ParseInv, ParseInv', TreeInv, [Next]_vars
             PROVE  TreeInv'
  OBVIOUS
<1>1. CASE UNCHANGED parseVars
  BY <1>1, OtherTree DEF parseVars
<1>2. CASE Finish \/ CannotOpen
  BY <1>2, OtherTree DEF Finish, CannotOpen, EndOfFile, Error, Stop
<1>3. ASSUME NEW c \in Char, Structure(c) PROVE TreeInv'
  <2>1. CASE StartBlock
    BY <2>1, StartBlockTree
  <2>2. CASE EndBlock
    BY <2>2, OtherTree DEF EndBlock, Stop, Go
  <2>3. CASE StatementEnd
    BY <2>3, OtherTree DEF StatementEnd, Stop, Go
  <2> QED
    BY <1>3, <2>1, <2>2, <2>3 DEF Structure
<1>4. ASSUME NEW c \in Char, CloseQuote(c) PROVE TreeInv'
  <2>1. Append(value, c) \in Seq(Char)
    BY AppendNew DEF LexTypes
  <2> QED
    BY <1>4, <2>1, WordTree DEF CloseQuote
<1>5. ASSUME NEW c \in Char, EndWord(c) PROVE TreeInv'
  BY <1>5, WordTree DEF EndWord, LexTypes
<1> QED
  BY <1>1, <1>2, <1>3, <1>4, <1>5
     DEF Next, Read, Skip, Begin, Extend, EndComment, vars

\* Whatever the file, and however Parse ends, the blocks form a tree: each but
\* the root is the child of one statement, of a block older than it. The
\* unique_ptrs own every block once, and every walk down the tree ends.
THEOREM TreeCorrect == Spec => []BlocksFormTree
<1>1. Init => TreeInv
  <2> SUFFICES ASSUME Init PROVE TreeInv
    OBVIOUS
  <2>1. configs = << <<>> >> /\ last_token_type = "start"
    BY DEF Init
  <2>2. \A p, i, b : ~Has(configs, p, i, b)
    BY <2>1 DEF Has
  <2>3. Owners(1) = {}
    BY <2>1 DEF Owners
  <2> QED
    BY <2>1, <2>2, <2>3 DEF TreeInv, BlocksFormTree
<1>2. LexTypes /\ ParseInv /\ ParseInv' /\ TreeInv /\ [Next]_vars => TreeInv'
  BY TreeKeeps
<1>3. TreeInv => BlocksFormTree
  BY DEF TreeInv
<1> QED
  BY <1>1, <1>2, <1>3, ParserInvariant, PTL DEF Spec

-----------------------------------------------------------------------------
(* No valid file is rejected, but for what is empty in it. *)

\* The tokens of a type among the first n.
OfType(s, n, type) == {j \in 1..n : s[j].type = type}

\* The tokens of a type, before and after one more.
LEMMA OneMore ==
  ASSUME NEW s \in Seq(Token), NEW t \in Token, NEW type
  PROVE  /\ OfType(Append(s, t), Len(s), type) = OfType(s, Len(s), type)
         /\ Cardinality(OfType(s, Len(s), type)) \in Nat
         /\ t.type = type =>
              Cardinality(OfType(Append(s, t), Len(s) + 1, type)) =
                Cardinality(OfType(s, Len(s), type)) + 1
         /\ t.type # type =>
              OfType(Append(s, t), Len(s) + 1, type) = OfType(s, Len(s), type)
<1> DEFINE n == Len(s)
           r == Append(s, t)
           before == OfType(s, n, type)
           after == OfType(r, n + 1, type)
<1>1. n \in Nat
  BY LenProperties
<1>2. (\A j \in 1..n : r[j] = s[j]) /\ r[n + 1] = t
  BY AppendProperties
<1> HIDE DEF n, r
<1>3. IsFiniteSet(before) /\ n + 1 \notin before
  <2>1. IsFiniteSet(1..n)
    BY <1>1, FS_Interval
  <2>2. before \subseteq 1..n
    BY DEF OfType
  <2> QED
    BY <1>1, <2>1, <2>2, FS_Subset
<1>4. /\ t.type = type => after = before \cup {n + 1}
      /\ t.type # type => after = before
  BY <1>1, <1>2 DEF OfType
<1>5. OfType(r, n, type) = before
  BY <1>2 DEF OfType
<1> HIDE DEF before, after
<1>6. Cardinality(before) \in Nat
  BY <1>3, FS_CardinalityType
<1>7. Cardinality(before \cup {n + 1}) = Cardinality(before) + 1
  BY <1>3, FS_AddElement
<1> QED
  BY <1>4, <1>5, <1>6, <1>7 DEF before, after, n, r

\* The depth after one more token.
LEMMA DepthAfter ==
  ASSUME tokens \in Seq(Token), NEW n, n = Len(tokens),
         NEW type \in TokenType, NEW text \in Seq(Char), Deliver(type, text)
  PROVE  /\ n \in Nat /\ Len(tokens') = n + 1 /\ Type(n + 1)' = type
         /\ \A i \in 1..n : Type(i)' = Type(i)
         /\ Depth(n + 1) \in Int /\ Depth(n + 1)' = Depth(n + 1)
         /\ Depth(n + 2)' = Depth(n + 1)
              + (IF type = "start_block" THEN 1 ELSE 0)
              - (IF type = "end_block" THEN 1 ELSE 0)
<1> DEFINE t == [type |-> type, text |-> text]
<1>1. t \in Token /\ t.type = type
  BY DEF Token
<1>2. tokens' = Append(tokens, t)
  BY DEF Deliver
<1> HIDE DEF t
<1>3. /\ n \in Nat /\ Len(tokens') = n + 1 /\ tokens'[n + 1] = t
      /\ \A i \in 1..n : tokens'[i] = tokens[i]
  BY <1>1, <1>2, AppendProperties, LenProperties
<1>4. \A u : /\ OfType(tokens', n, u) = OfType(tokens, n, u)
             /\ Cardinality(OfType(tokens, n, u)) \in Nat
             /\ type = u => Cardinality(OfType(tokens', n + 1, u)) =
                              Cardinality(OfType(tokens, n, u)) + 1
             /\ type # u => OfType(tokens', n + 1, u) = OfType(tokens, n, u)
  BY <1>1, <1>2, OneMore
<1>5. (n + 1) - 1 = n /\ (n + 2) - 1 = n + 1
  BY <1>3
<1>6. \A i : /\ Depth(i) = Cardinality(OfType(tokens, i - 1, "start_block"))
                             - Cardinality(OfType(tokens, i - 1, "end_block"))
             /\ Depth(i)' = Cardinality(OfType(tokens', i - 1, "start_block"))
                             - Cardinality(OfType(tokens', i - 1, "end_block"))
  BY DEF Depth, Type, OfType
<1>7. /\ Depth(n + 1) \in Int /\ Depth(n + 1)' = Depth(n + 1)
      /\ Depth(n + 2)' = Depth(n + 1)
           + (IF type = "start_block" THEN 1 ELSE 0)
           - (IF type = "end_block" THEN 1 ELSE 0)
  BY <1>4, <1>5, <1>6
<1>8. Type(n + 1)' = type /\ \A i \in 1..n : Type(i)' = Type(i)
  BY <1>1, <1>3 DEF Type
<1> QED
  BY <1>3, <1>7, <1>8

\* What the parser knows of the text while it runs: the type of the last token,
\* and how deep it is in blocks; and what it says of the text when it stops.
ReadInv ==
  /\ OnlyEmptyRejected
  /\ result = "running" =>
       /\ last_token_type = (IF tokens = <<>> THEN "start" ELSE Type(Len(tokens)))
       /\ Len(config_stack) = 1 + Depth(Len(tokens) + 1)
  /\ length = 0 => unread = <<>> /\ (result = "running" => tokens = <<>>)

\* A token that does not fit, or a stack that is empty, is no well-formed text.
LEMMA Refuted ==
  ASSUME ParseTypes, ReadInv, result = "running",
         NEW type \in TokenType, NEW text \in Seq(Char), Deliver(type, text),
         config_stack = <<>> \/ type \notin Following(last_token_type)
  PROVE  ~WellFormed'
<1>0. PICK n : n = Len(tokens)
  OBVIOUS
<1>1. /\ n \in Nat /\ Len(tokens') = n + 1 /\ Type(n + 1)' = type
      /\ \A i \in 1..n : Type(i)' = Type(i)
      /\ Depth(n + 1) \in Int /\ Depth(n + 1)' = Depth(n + 1)
  BY <1>0, DepthAfter DEF ParseTypes
<1> SUFFICES ASSUME WellFormed' PROVE FALSE
  OBVIOUS
<1>2. /\ Type(1)' \in Following("start")
      /\ \A i \in 1..(n + 2) : Depth(i)' >= 0
      /\ \A i \in 1..n : Type(i + 1)' \in Following(Type(i)')
  <2>1. (n + 1) + 1 = n + 2 /\ (n + 1) - 1 = n
    BY <1>1
  <2> QED
    BY <1>1, <2>1 DEF WellFormed, Following
<1>3. CASE config_stack = <<>>
  <2>1. Len(config_stack) = 1 + Depth(n + 1) /\ Len(config_stack) = 0
    BY <1>0, <1>3 DEF ReadInv
  <2>2. n + 1 \in 1..(n + 2)
    BY <1>1
  <2>3. Depth(n + 1)' >= 0
    BY <1>2, <2>2
  <2> QED
    BY <1>1, <2>1, <2>3
<1>4. CASE type \notin Following(last_token_type)
  <2>1. CASE n = 0
    <3>1. tokens = <<>>
      BY <1>0, <2>1, EmptySeq DEF ParseTypes
    <3>2. last_token_type = "start" /\ Type(1)' = type
      BY <1>1, <2>1, <3>1 DEF ReadInv
    <3> QED
      BY <1>2, <1>4, <3>2
  <2>2. CASE n # 0
    <3>1. tokens # <<>> /\ n \in 1..n
      BY <1>0, <1>1, <2>2
    <3>2. last_token_type = Type(n)
      BY <1>0, <3>1 DEF ReadInv
    <3>3. Type(n + 1)' \in Following(Type(n)')
      BY <1>2, <3>1
    <3> QED
      BY <1>1, <1>4, <3>1, <3>2, <3>3
  <2> QED
    BY <2>1, <2>2
<1> QED
  BY <1>3, <1>4

\* The lexer's part of the invariant after a character was read.
LEMMA SomethingRead ==
  ASSUME LexTypes, ReadInv, NEW c, Get(c) \/ PutBack(c)
  PROVE  length' # 0 /\ result = "running"
<1>1. length \in Nat
  BY CharAssumption DEF LexTypes
<1>2. length = 0 => unread = <<>>
  BY DEF ReadInv
<1> QED
  BY <1>1, <1>2 DEF Get, PutBack

\* A token that does not fit, or ends what is empty.
LEMMA Rejected ==
  ASSUME ParseTypes, ReadInv, result = "running", length' # 0 \/ unread' = <<>>,
         NEW type \in TokenType, NEW text \in Seq(Char), Deliver(type, text),
         config_stack = <<>> \/ type \notin Following(last_token_type) \/ EndsEmpty',
         NEW outcome \in {"false", "undefined"}, Stop(outcome)
  PROVE  ReadInv'
<1>1. WellFormed' => EndsEmpty'
  BY Refuted
<1>2. result' # "running"
  BY DEF Stop
<1> QED
  BY <1>1, <1>2 DEF ReadInv, OnlyEmptyRejected

\* A block that is closed where it opened.
LEMMA EmptyBlockRead ==
  ASSUME ParseTypes, ReadInv, result = "running", last_token_type = "start_block",
         <<>> \in Seq(Char), Deliver("end_block", <<>>)
  PROVE  EndsEmpty'
<1>0. PICK n : n = Len(tokens)
  OBVIOUS
<1>1. /\ n \in Nat /\ Len(tokens') = n + 1 /\ Type(n + 1)' = "end_block"
      /\ \A i \in 1..n : Type(i)' = Type(i)
  BY <1>0, DepthAfter DEF ParseTypes, TokenType
<1>2. tokens # <<>> /\ Type(n) = "start_block"
  BY <1>0 DEF ReadInv
<1>3. n # 0
  BY <1>0, <1>2, EmptySeq DEF ParseTypes
<1>4. n \in 1..n /\ n + 1 > 1 /\ (n + 1) - 1 = n
  BY <1>1, <1>3
<1>5. Type(n)' = "start_block"
  BY <1>1, <1>2, <1>4
<1> QED
  BY <1>1, <1>4, <1>5 DEF EndsEmpty, Type

\* A file without a token.
LEMMA EmptyFileRead ==
  ASSUME ParseTypes, ReadInv, result = "running", last_token_type = "start",
         <<>> \in Seq(Char), Deliver("eof", <<>>)
  PROVE  EndsEmpty'
<1>0. PICK n : n = Len(tokens)
  OBVIOUS
<1>1. n \in Nat /\ Len(tokens') = n + 1 /\ Type(n + 1)' = "eof"
  BY <1>0, DepthAfter DEF ParseTypes, TokenType
<1>2. tokens = <<>>
  <2> SUFFICES ASSUME tokens # <<>> PROVE FALSE
    OBVIOUS
  <2>1. Type(n) = "start"
    BY <1>0 DEF ReadInv
  <2>2. n # 0
    BY <1>0, EmptySeq DEF ParseTypes
  <2>3. n \in 1..Len(tokens)
    BY <1>0, <1>1, <2>2
  <2>4. tokens[n] \in Token
    BY <2>3, ElementOfSeq DEF ParseTypes
  <2> QED
    BY <2>1, <2>4 DEF Type, Token, TokenType
<1>3. n = 0
  BY <1>0, <1>2
<1> QED
  BY <1>1, <1>3 DEF EndsEmpty, Type

\* A token that fits.
LEMMA Fits ==
  ASSUME ParseTypes, ReadInv, result = "running", length' # 0,
         NEW type \in TokenType, NEW text \in Seq(Char), Deliver(type, text),
         Go(type), Len(config_stack) \in Nat,
         type = "start_block" => Len(config_stack') = Len(config_stack) + 1,
         type = "end_block" => Len(config_stack') = Len(config_stack) - 1,
         type \notin {"start_block", "end_block"} =>
           Len(config_stack') = Len(config_stack)
  PROVE  ReadInv'
<1>0. PICK n : n = Len(tokens)
  OBVIOUS
<1>1. /\ n \in Nat /\ Len(tokens') = n + 1 /\ Type(n + 1)' = type
      /\ Depth(n + 1) \in Int
      /\ Depth(n + 2)' = Depth(n + 1)
           + (IF type = "start_block" THEN 1 ELSE 0)
           - (IF type = "end_block" THEN 1 ELSE 0)
  BY <1>0, DepthAfter DEF ParseTypes
<1>2. result' = "running" /\ last_token_type' = type
  BY DEF Go
<1>3. OnlyEmptyRejected'
  BY <1>2 DEF OnlyEmptyRejected
<1>4. tokens' # <<>> /\ Type(Len(tokens))' = type
  <2>1. Type(Len(tokens))' = tokens'[n + 1].type
    BY <1>1 DEF Type
  <2> QED
    BY <1>1, <2>1 DEF Type
<1>5. Len(config_stack') = 1 + Depth(Len(tokens) + 1)'
  <2>1. Depth(Len(tokens) + 1)' = Depth(n + 2)'
    <3>1. Len(tokens') + 1 = n + 2
      BY <1>1
    <3> QED
      BY <3>1 DEF Depth, Type
  <2>2. Len(config_stack) = 1 + Depth(n + 1)
    BY <1>0 DEF ReadInv
  <2> QED
    BY <1>1, <2>1, <2>2
<1> QED
  BY <1>2, <1>3, <1>4, <1>5 DEF ReadInv

\* A word: one of a stack that is empty is a word after the end of the root.
LEMMA WordRead ==
  ASSUME ParseTypes, ReadInv, result = "running", length' # 0,
         NEW word \in Seq(Char), Word(word)
  PROVE  ReadInv'
<1>1. Deliver("normal", word) /\ "normal" \in TokenType
  BY DEF Word, TokenType
<1>2. CASE config_stack = <<>> /\ Stop("undefined")
  BY <1>1, <1>2, Rejected
<1>3. CASE Go("normal") /\ UNCHANGED config_stack
  <2>1. Len(config_stack) \in Nat
    BY DEF ParseTypes
  <2> QED
    BY <1>1, <1>3, <2>1, Fits
<1> QED
  BY <1>2, <1>3 DEF Word

\* ";", "{" and "}".
LEMMA StructureRead ==
  ASSUME ParseTypes, ReadInv, result = "running", length' # 0,
         StatementEnd \/ StartBlock \/ EndBlock
  PROVE  ReadInv'
<1>0. /\ last_token_type \in LastType /\ Len(config_stack) \in Nat
      /\ <<>> \in Seq(Char)
  BY EmptyText DEF ParseTypes
<1>1. CASE StatementEnd
  <2>1. Deliver("statement_end", <<>>) /\ "statement_end" \in TokenType
    BY <1>1 DEF StatementEnd, TokenType
  <2>2. CASE last_token_type # "normal" /\ Stop("false")
    <3>1. "statement_end" \notin Following(last_token_type)
      BY <1>0, <2>2 DEF Following, LastType
    <3> QED
      BY <1>0, <2>1, <2>2, <3>1, Rejected
  <2>3. CASE Go("statement_end") /\ UNCHANGED config_stack
    BY <1>0, <2>1, <2>3, Fits
  <2> QED
    BY <1>1, <2>2, <2>3 DEF StatementEnd
<1>2. CASE StartBlock
  <2>1. Deliver("start_block", <<>>) /\ "start_block" \in TokenType
    BY <1>2 DEF StartBlock, TokenType
  <2>2. CASE last_token_type # "normal" /\ Stop("false")
    <3>1. "start_block" \notin Following(last_token_type)
      BY <1>0, <2>2 DEF Following, LastType
    <3> QED
      BY <1>0, <2>1, <2>2, <3>1, Rejected
  <2>3. CASE /\ Go("start_block")
             /\ config_stack' = Append(config_stack, Allocate)
    <3>1. Len(config_stack') = Len(config_stack) + 1
      <4>1. config_stack \in Seq(Nat) /\ Allocate \in Nat
        <5>1. Len(configs) \in Nat /\ 1..Len(configs) \subseteq Nat
          BY DEF ParseTypes
        <5> QED
          BY <5>1, SeqMonotonic DEF ParseTypes, Allocate
      <4> QED
        BY <2>3, <4>1, AppendProperties
    <3> QED
      BY <1>0, <2>1, <2>3, <3>1, Fits
  <2> QED
    BY <1>2, <2>2, <2>3 DEF StartBlock
<1>3. CASE EndBlock
  <2>1. Deliver("end_block", <<>>) /\ "end_block" \in TokenType
    BY <1>3 DEF EndBlock, TokenType
  <2>2. CASE ~MayClose(last_token_type) /\ Stop("false")
    <3>1. CASE last_token_type = "start_block"
      <4>1. EndsEmpty'
        BY <1>0, <2>1, <3>1, EmptyBlockRead
      <4> QED
        BY <1>0, <2>1, <2>2, <4>1, Rejected
    <3>2. CASE last_token_type # "start_block"
      <4>1. "end_block" \notin Following(last_token_type)
        BY <1>0, <2>2, <3>2 DEF Following, LastType, MayClose
      <4> QED
        BY <1>0, <2>1, <2>2, <4>1, Rejected
    <3> QED
      BY <3>1, <3>2
  <2>3. CASE config_stack = <<>> /\ Stop("undefined")
    BY <1>0, <2>1, <2>3, Rejected
  <2>4. CASE /\ config_stack # <<>> /\ Go("end_block")
             /\ config_stack' = Pop(config_stack)
    <3>1. Len(config_stack') = Len(config_stack) - 1
      BY <2>4, Popped DEF ParseTypes
    <3> QED
      BY <1>0, <2>1, <2>4, <3>1, Fits
  <2> QED
    BY <1>3, <2>2, <2>3, <2>4 DEF EndBlock
<1> QED
  BY <1>1, <1>2, <1>3

\* The end of the file.
LEMMA FinishRead ==
  ASSUME ParseTypes, ReadInv, Finish
  PROVE  ReadInv'
<1>0. /\ last_token_type \in LastType /\ <<>> \in Seq(Char)
      /\ result = "running" /\ unread' = <<>>
  BY EmptyText DEF ParseTypes, Finish, lexVars
<1>1. CASE Error
  <2>1. Deliver("error", <<>>) /\ "error" \in TokenType /\ Stop("false")
    BY <1>1 DEF Error, TokenType
  <2>2. "error" \notin Following(last_token_type)
    BY <1>0 DEF Following, LastType
  <2> QED
    BY <1>0, <2>1, <2>2, Rejected
<1>2. CASE EndOfFile
  <2>1. Deliver("eof", <<>>) /\ "eof" \in TokenType
    BY <1>2 DEF EndOfFile, TokenType
  <2>2. CASE MayEnd(last_token_type)
    <3>1. result' = "true"
      BY <1>2, <2>2 DEF EndOfFile, Stop
    <3> QED
      BY <1>0, <3>1 DEF ReadInv, OnlyEmptyRejected
  <2>3. CASE ~MayEnd(last_token_type)
    <3>1. Stop("false")
      BY <1>2, <2>3 DEF EndOfFile
    <3>2. CASE last_token_type = "start"
      <4>1. EndsEmpty'
        BY <1>0, <2>1, <3>2, EmptyFileRead
      <4> QED
        BY <1>0, <2>1, <3>1, <4>1, Rejected
    <3>3. CASE last_token_type # "start"
      <4>1. "eof" \notin Following(last_token_type)
        BY <1>0, <2>3, <3>3 DEF Following, LastType, MayEnd
      <4> QED
        BY <1>0, <2>1, <3>1, <4>1, Rejected
    <3> QED
      BY <3>2, <3>3
  <2> QED
    BY <2>2, <2>3
<1> QED
  BY <1>1, <1>2 DEF Finish

\* A step that delivers no token, while Parse runs.
LEMMA NoTokenRead ==
  ASSUME ReadInv, result = "running", length' # 0, UNCHANGED parseVars
  PROVE  ReadInv'
<1>1. OnlyEmptyRejected'
  BY DEF OnlyEmptyRejected, parseVars
<1>2. Type(Len(tokens))' = Type(Len(tokens))
  BY DEF Type, parseVars
<1>3. Depth(Len(tokens) + 1)' = Depth(Len(tokens) + 1)
  BY DEF Depth, Type, parseVars
<1> QED
  BY <1>1, <1>2, <1>3 DEF ReadInv, parseVars

\* Every step keeps what the parser knows of the text.
LEMMA ReadKeeps ==
  LexTypes /\ ParseInv /\ ReadInv /\ [Next]_vars => ReadInv'
<1> SUFFICES ASSUME LexTypes, ParseInv, ReadInv, [Next]_vars
             PROVE  ReadInv'
  OBVIOUS
<1>0. ParseTypes
  BY DEF ParseInv
<1>1. CASE UNCHANGED vars
  BY <1>1 DEF vars, lexVars, parseVars, ReadInv, OnlyEmptyRejected, WellFormed,
              EndsEmpty, Type, Depth, Following
<1>2. CASE Finish
  BY <1>0, <1>2, FinishRead
<1>3. CASE CannotOpen
  <2>1. tokens = <<>> /\ tokens' = <<>> /\ unread' = <<>>
    BY <1>3 DEF CannotOpen, ReadInv, lexVars
  <2>2. ~WellFormed' /\ result' = "false"
    BY <1>3, <2>1 DEF WellFormed, CannotOpen, Stop
  <2> QED
    BY <2>1, <2>2 DEF ReadInv, OnlyEmptyRejected
<1>4. ASSUME NEW c \in Char, Skip(c) \/ Begin(c) \/ Extend(c) \/ EndComment(c)
      PROVE  ReadInv'
  <2>1. Get(c) /\ UNCHANGED parseVars
    BY <1>4 DEF Skip, Begin, Extend, EndComment
  <2> QED
    BY <2>1, SomethingRead, NoTokenRead
<1>5. ASSUME NEW c \in Char, Structure(c) PROVE ReadInv'
  <2>1. Get(c) /\ (StatementEnd \/ StartBlock \/ EndBlock)
    BY <1>5 DEF Structure
  <2> QED
    BY <1>0, <2>1, SomethingRead, StructureRead
<1>6. ASSUME NEW c \in Char, CloseQuote(c) PROVE ReadInv'
  <2>1. Get(c) /\ Word(Append(value, c)) /\ Append(value, c) \in Seq(Char)
    BY <1>6, AppendNew DEF CloseQuote, LexTypes
  <2> QED
    BY <1>0, <2>1, SomethingRead, WordRead
<1>7. ASSUME NEW c \in Char, EndWord(c) PROVE ReadInv'
  <2>1. PutBack(c) /\ Word(value) /\ value \in Seq(Char)
    BY <1>7 DEF EndWord, LexTypes
  <2> QED
    BY <1>0, <2>1, SomethingRead, WordRead
<1> QED
  BY <1>1, <1>2, <1>3, <1>4, <1>5, <1>6, <1>7 DEF Next, Read

\* What the parser knows of the text is so in every state.
LEMMA ReadInvariant == Spec => []ReadInv
<1>1. Init => ReadInv
  <2> SUFFICES ASSUME Init PROVE ReadInv
    OBVIOUS
  <2>1. /\ tokens = <<>> /\ config_stack = <<1>> /\ result = "running"
        /\ last_token_type = "start" /\ unread = <<>>
    BY DEF Init
  <2>2. Depth(Len(tokens) + 1) = 0
    <3>1. Len(tokens) = 0
      BY <2>1
    <3>2. \A u : {j \in 1..0 : Type(j) = u} = {}
      OBVIOUS
    <3> QED
      BY <3>1, <3>2, FS_EmptySet DEF Depth
  <2>3. Len(config_stack) = 1
    BY <2>1
  <2> QED
    BY <2>1, <2>2, <2>3 DEF ReadInv, OnlyEmptyRejected
<1> QED
  BY <1>1, ReadKeeps, ParserInvariant, PTL DEF Spec

\* A file that Parse rejects, at its end or at the token it gives up on, is not
\* well-formed, or has an empty block that ends there, or is empty itself; and
\* one that empties the stack is not well-formed.
THEOREM OnlyEmptyFilesRejected == Spec => []OnlyEmptyRejected
<1>1. ReadInv => OnlyEmptyRejected
  BY DEF ReadInv
<1> QED
  BY <1>1, ReadInvariant, PTL

-----------------------------------------------------------------------------
(* The tree has the words that Parse was given, each in its place. *)

\* The maximum of a set is its greatest number.
LEMMA MaxIs ==
  ASSUME NEW S, S \subseteq Int, NEW x \in S, \A y \in S : x >= y
  PROVE  Max(S) = x
<1>1. Max(S) \in S /\ \A y \in S : Max(S) >= y
  BY DEF Max
<1>2. Max(S) \in Int /\ x \in Int /\ x >= Max(S) /\ Max(S) >= x
  BY <1>1
<1> QED
  BY <1>2

\* Sets of tokens are finite.
LEMMA TokensFinite ==
  ASSUME NEW n \in Nat, NEW S, S \subseteq 1..n
  PROVE  IsFiniteSet(S) /\ Cardinality(S) \in Nat
<1>1. IsFiniteSet(1..n)
  BY FS_Interval
<1>2. IsFiniteSet(S)
  BY <1>1, FS_Subset
<1> QED
  BY <1>2, FS_CardinalityType

\* What token i adds.
Adds(i) ==
  /\ Depth(i) \in Int
  /\ Depth(i + 1) = Depth(i) + (IF Type(i) = "start_block" THEN 1 ELSE 0)
                             - (IF Type(i) = "end_block" THEN 1 ELSE 0)
  /\ Opened(i - 1) \in Nat
  /\ Opened(i) = Opened(i - 1) + (IF Type(i) = "start_block" THEN 1 ELSE 0)
  /\ \A d : BlockAt(d, i + 1) = IF Type(i) = "start_block" /\ Depth(i) = d - 1
                                THEN Opened(i) ELSE BlockAt(d, i)
  /\ \A b : /\ Cardinality(BegunIn(b, i - 1)) \in Nat
            /\ BegunIn(b, i) = IF Begins(i) /\ BlockOf(i) = b
                               THEN BegunIn(b, i - 1) \cup {i} ELSE BegunIn(b, i - 1)
            /\ Cardinality(BegunIn(b, i)) = Cardinality(BegunIn(b, i - 1))
                 + (IF Begins(i) /\ BlockOf(i) = b THEN 1 ELSE 0)
  /\ PositionOf(i - 1) \in Nat
  /\ Begins(i) => PositionOf(i) = 1
  /\ IsWord(i) /\ ~Begins(i) => PositionOf(i) = PositionOf(i - 1) + 1

\* Every token adds what Adds says; so does every token of the text after a step.
LEMMA EachAdds == \A i \in Nat \ {0} : Adds(i)
<1> TAKE i \in Nat \ {0}
<1>0. i - 1 \in Nat /\ i \in Nat /\ (i + 1) - 1 = i /\ i \notin 1..i - 1
  OBVIOUS
<1>1. \A T, F : F = {j \in T : j \in 1..i - 1} /\ T \subseteq 1..i =>
        /\ Cardinality(F) \in Nat
        /\ T = (IF i \in T THEN F \cup {i} ELSE F)
        /\ Cardinality(T) = Cardinality(F) + (IF i \in T THEN 1 ELSE 0)
  <2> TAKE T, F
  <2> HAVE F = {j \in T : j \in 1..i - 1} /\ T \subseteq 1..i
  <2>1. F \subseteq 1..i - 1 /\ i \notin F
    BY <1>0
  <2>2. IsFiniteSet(F) /\ Cardinality(F) \in Nat
    BY <1>0, <2>1, TokensFinite
  <2>3. T = (IF i \in T THEN F \cup {i} ELSE F)
    <3>1. \A j \in T : j \in 1..i - 1 \/ j = i
      BY <1>0
    <3>2. \A j : j \in F <=> j \in T /\ j \in 1..i - 1
      OBVIOUS
    <3> QED
      BY <3>1, <3>2
  <2>4. Cardinality(F \cup {i}) = Cardinality(F) + 1
    BY <2>1, <2>2, FS_AddElement
  <2>5. CASE i \in T
    BY <2>2, <2>3, <2>4, <2>5
  <2>6. CASE i \notin T
    <3>1. T = F
      BY <2>3, <2>6
    <3> QED
      BY <2>2, <2>3, <2>6, <3>1
  <2> QED
    BY <2>5, <2>6
<1> DEFINE Of(type, n) == {j \in 1..n : Type(j) = type}
<1>2. \A type : /\ Cardinality(Of(type, i - 1)) \in Nat
                /\ Cardinality(Of(type, i)) = Cardinality(Of(type, i - 1))
                     + (IF Type(i) = type THEN 1 ELSE 0)
  <2> TAKE type
  <2>1. /\ Of(type, i - 1) = {j \in Of(type, i) : j \in 1..i - 1}
        /\ Of(type, i) \subseteq 1..i /\ (i \in Of(type, i) <=> Type(i) = type)
    BY <1>0
  <2> QED
    BY <1>1, <2>1
<1>3. \A n : Depth(n) = Cardinality(Of("start_block", n - 1)) - Cardinality(Of("end_block", n - 1))
             /\ Opened(n) = 1 + Cardinality(Of("start_block", n))
  BY DEF Depth, Opened
<1> HIDE DEF Of
<1>4. /\ Depth(i) \in Int
      /\ Depth(i + 1) = Depth(i) + (IF Type(i) = "start_block" THEN 1 ELSE 0)
                                 - (IF Type(i) = "end_block" THEN 1 ELSE 0)
      /\ Opened(i - 1) \in Nat
      /\ Opened(i) = Opened(i - 1) + (IF Type(i) = "start_block" THEN 1 ELSE 0)
  BY <1>0, <1>2, <1>3
<1>5. ASSUME NEW d
      PROVE  BlockAt(d, i + 1) = IF Type(i) = "start_block" /\ Depth(i) = d - 1
                                 THEN Opened(i) ELSE BlockAt(d, i)
  <2> DEFINE S(n) == {0} \cup {j \in 1..n : Type(j) = "start_block" /\ Depth(j) = d - 1}
  <2>1. BlockAt(d, i) = Opened(Max(S(i - 1))) /\ BlockAt(d, i + 1) = Opened(Max(S(i)))
    BY <1>0 DEF BlockAt
  <2>2. CASE Type(i) = "start_block" /\ Depth(i) = d - 1
    <3>1. i \in S(i) /\ S(i) \subseteq Int /\ \A y \in S(i) : i >= y
      BY <1>0, <2>2
    <3> HIDE DEF S
    <3>2. Max(S(i)) = i
      BY <3>1, MaxIs
    <3> QED
      BY <2>1, <2>2, <3>2
  <2>3. CASE ~(Type(i) = "start_block" /\ Depth(i) = d - 1)
    <3>1. S(i) = S(i - 1)
      BY <1>0, <2>3
    <3> QED
      BY <2>1, <2>3, <3>1
  <2> QED
    BY <2>2, <2>3
<1>6. ASSUME NEW b
      PROVE  /\ Cardinality(BegunIn(b, i - 1)) \in Nat
             /\ BegunIn(b, i) = IF Begins(i) /\ BlockOf(i) = b
                                THEN BegunIn(b, i - 1) \cup {i} ELSE BegunIn(b, i - 1)
             /\ Cardinality(BegunIn(b, i)) = Cardinality(BegunIn(b, i - 1))
                  + (IF Begins(i) /\ BlockOf(i) = b THEN 1 ELSE 0)
  <2>1. /\ BegunIn(b, i - 1) = {j \in BegunIn(b, i) : j \in 1..i - 1}
        /\ BegunIn(b, i) \subseteq 1..i
        /\ (i \in BegunIn(b, i) <=> Begins(i) /\ BlockOf(i) = b)
    BY <1>0 DEF BegunIn
  <2> QED
    BY <1>1, <2>1
<1>7. PositionOf(i - 1) \in Nat
  <2>1. Row(i - 1) \subseteq 1..i - 1
    BY DEF Row
  <2> QED
    BY <1>0, <2>1, TokensFinite DEF PositionOf
<1>8. ASSUME IsWord(i)
      PROVE  PositionOf(i) = IF Begins(i) THEN 1 ELSE PositionOf(i - 1) + 1
  <2>1. CASE Begins(i)
    <3>1. \A j \in 1..i - 1 : i - 1 \in j..i /\ ~IsWord(i - 1)
      BY <1>0, <2>1 DEF Begins
    <3>2. i \in Row(i)
      BY <1>0, <1>8 DEF Row
    <3>3. Row(i) = {i}
      BY <1>0, <3>1, <3>2 DEF Row
    <3> QED
      BY <2>1, <3>3, FS_Singleton DEF PositionOf
  <2>2. CASE ~Begins(i)
    <3>1. Row(i - 1) = {j \in Row(i) : j \in 1..i - 1} /\ Row(i) \subseteq 1..i /\ i \in Row(i)
      BY <1>0, <1>8 DEF Row
    <3> QED
      BY <1>1, <2>2, <3>1 DEF PositionOf
  <2> QED
    BY <2>1, <2>2
<1> QED
  BY <1>4, <1>5, <1>6, <1>7, <1>8 DEF Adds, Begins

LEMMA EachAddsNext == \A i \in Nat \ {0} : Adds(i)'
<1>1. (\A i \in Nat \ {0} : Adds(i))'
  BY EachAdds, PTL
<1> QED
  BY <1>1

\* A bounded set of numbers that is not empty has a maximum.
LEMMA MaxIn ==
  ASSUME NEW n \in Nat, NEW S, S \subseteq 0..n, S # {}
  PROVE  Max(S) \in S
<1> DEFINE T == {n - x : x \in S}
<1>1. T \subseteq Nat /\ T # {}
  <2>1. \A x \in S : n - x \in Nat /\ n - x \in T
    OBVIOUS
  <2> QED
    BY <2>1
<1>2. PICK t \in T : \A y \in T : ~(<<y, t>> \in OpToRel(<, Nat))
  BY <1>1, NatLessThanWellFounded, WFMin
<1>3. PICK x \in S : t = n - x
  BY <1>2
<1>4. ASSUME NEW y \in S PROVE x >= y
  <2>1. n - y \in T /\ n - y \in Nat /\ t \in Nat
    BY <1>1
  <2>2. ~(n - y < t)
    BY <1>2, <2>1 DEF OpToRel
  <2> QED
    BY <1>3, <2>2
<1>5. S \subseteq Int
  OBVIOUS
<1> QED
  BY <1>4, <1>5, MaxIs

\* What is said of earlier tokens stays as it was.
LEMMA Earlier ==
  ASSUME tokens \in Seq(Token), NEW n, n = Len(tokens), NEW t \in Token,
         tokens' = Append(tokens, t)
  PROVE  /\ n \in Nat /\ Len(tokens') = n + 1 /\ tokens'[n + 1] = t
         /\ \A i \in 1..n : /\ tokens'[i] = tokens[i] /\ Type(i)' = Type(i)
                            /\ IsWord(i)' <=> IsWord(i)
                            /\ Begins(i)' <=> Begins(i)
                            /\ StatementOf(i)' = StatementOf(i)
         /\ \A i \in 1..n + 1 : /\ Depth(i)' = Depth(i) /\ BlockOf(i)' = BlockOf(i)
                                /\ \A d : BlockAt(d, i)' = BlockAt(d, i)
         /\ \A i \in 0..n : /\ Opened(i)' = Opened(i) /\ PositionOf(i)' = PositionOf(i)
                            /\ \A b : BegunIn(b, i)' = BegunIn(b, i)
<1>1. /\ n \in Nat /\ Len(tokens') = n + 1 /\ tokens'[n + 1] = t
      /\ \A i \in 1..n : tokens'[i] = tokens[i]
  BY AppendProperties, LenProperties
<1>2. \A i \in 1..n : Type(i)' = Type(i) /\ (IsWord(i)' <=> IsWord(i))
  BY <1>1 DEF Type, IsWord
<1>3. \A i \in 1..n : Begins(i)' <=> Begins(i)
  <2> TAKE i \in 1..n
  <2>1. i = 1 \/ i - 1 \in 1..n
    BY <1>1
  <2> QED
    BY <1>2, <2>1 DEF Begins
<1>4. \A i \in 1..n + 1 : Depth(i)' = Depth(i)
  <2> TAKE i \in 1..n + 1
  <2>1. \A u : {j \in 1..(i - 1) : Type(j)' = u} = {j \in 1..(i - 1) : Type(j) = u}
    BY <1>1, <1>2
  <2> QED
    BY <2>1 DEF Depth
<1>5. \A i \in 0..n : Opened(i)' = Opened(i)
  <2> TAKE i \in 0..n
  <2>1. {k \in 1..i : Type(k)' = "start_block"} = {k \in 1..i : Type(k) = "start_block"}
    BY <1>1, <1>2
  <2> QED
    BY <2>1 DEF Opened
<1>6. ASSUME NEW i \in 1..n + 1, NEW d PROVE BlockAt(d, i)' = BlockAt(d, i)
  <2> DEFINE S == {0} \cup {j \in 1..(i - 1) : Type(j) = "start_block" /\ Depth(j) = d - 1}
  <2>1. {0} \cup {j \in 1..(i - 1) : Type(j)' = "start_block" /\ Depth(j)' = d - 1} = S
    BY <1>1, <1>2, <1>4
  <2>2. S \subseteq 0..n /\ S # {}
    BY <1>1
  <2>3. PICK m : m = Max(S)
    OBVIOUS
  <2>4. BlockAt(d, i) = Opened(m) /\ BlockAt(d, i)' = Opened(m)'
    BY <2>1, <2>3 DEF BlockAt
  <2> HIDE DEF S
  <2>5. m \in 0..n
    BY <1>1, <2>2, <2>3, MaxIn
  <2> QED
    BY <1>5, <2>4, <2>5
<1>7. \A i \in 1..n + 1 : BlockOf(i)' = BlockOf(i)
  BY <1>4, <1>6 DEF BlockOf
<1>8. \A i \in 0..n : \A b : BegunIn(b, i)' = BegunIn(b, i)
  BY <1>1, <1>3, <1>7 DEF BegunIn
<1>9. \A i \in 1..n : StatementOf(i)' = StatementOf(i)
  BY <1>1, <1>7, <1>8 DEF StatementOf
<1>10. \A i \in 0..n : PositionOf(i)' = PositionOf(i)
  <2> TAKE i \in 0..n
  <2>1. Row(i)' = Row(i)
    BY <1>1, <1>2 DEF Row
  <2> QED
    BY <2>1 DEF PositionOf
<1> QED
  BY <1>1, <1>2, <1>3, <1>4, <1>5, <1>6, <1>7, <1>8, <1>9, <1>10

\* The words among the tokens are in the tree; the tree has no others.
WordsPlaced == \A i \in DOMAIN tokens : IsWord(i) => Placed(i)
NoOthers ==
  \A b \in DOMAIN configs : \A s \in DOMAIN configs[b] :
    \A p \in DOMAIN configs[b][s].tokens :
      \E i \in DOMAIN tokens :
        IsWord(i) /\ BlockOf(i) = b /\ StatementOf(i) = s /\ PositionOf(i) = p

\* Where the next word goes, as the text has it; the words of the last statement.
Current ==
  /\ Len(configs) = Opened(Len(tokens))
  /\ \A d \in 0..Len(config_stack) - 1 : config_stack[d + 1] = BlockAt(d, Len(tokens) + 1)
  /\ \A b \in DOMAIN configs : Len(configs[b]) = Cardinality(BegunIn(b, Len(tokens)))
  /\ last_token_type = "normal" =>
       /\ Len(configs[Top][Len(configs[Top])].tokens) = PositionOf(Len(tokens))
       /\ \E k \in 1..Len(tokens) : /\ Begins(k) /\ BlockOf(k) = Top
                                    /\ \A j \in k..Len(tokens) : IsWord(j)

PlaceInv ==
  /\ result # "undefined" => WordsPlaced /\ NoOthers
  /\ result = "running" => Current

\* The text after one more token.
LEMMA AfterToken ==
  ASSUME tokens \in Seq(Token), NEW n, n = Len(tokens),
         NEW type \in TokenType, NEW text \in Seq(Char), Deliver(type, text)
  PROVE  /\ n \in Nat /\ Len(tokens') = n + 1 /\ DOMAIN tokens = 1..n
         /\ DOMAIN tokens' = 1..n + 1
         /\ tokens'[n + 1].text = text /\ Type(n + 1)' = type
         /\ IsWord(n + 1)' <=> type = "normal"
         /\ Begins(n + 1)' <=> type = "normal" /\ (n = 0 \/ ~IsWord(n))
         /\ Opened(n) \in Nat
         /\ Opened(n + 1)' = Opened(n) + (IF type = "start_block" THEN 1 ELSE 0)
         /\ \A d : BlockAt(d, n + 2)' = IF type = "start_block" /\ Depth(n + 1) = d - 1
                                        THEN Opened(n) + 1 ELSE BlockAt(d, n + 1)
         /\ \A b : /\ Cardinality(BegunIn(b, n)) \in Nat
                   /\ Cardinality(BegunIn(b, n + 1)') = Cardinality(BegunIn(b, n))
                        + (IF Begins(n + 1)' /\ BlockOf(n + 1) = b THEN 1 ELSE 0)
         /\ StatementOf(n + 1)' = Cardinality(BegunIn(BlockOf(n + 1), n + 1)')
         /\ PositionOf(n) \in Nat
         /\ type = "normal" =>
              PositionOf(n + 1)' = IF Begins(n + 1)' THEN 1 ELSE PositionOf(n) + 1
<1> DEFINE t == [type |-> type, text |-> text]
<1>1. t \in Token /\ t.type = type /\ t.text = text
  BY DEF Token
<1>2. tokens' = Append(tokens, t)
  BY DEF Deliver
<1> HIDE DEF t
<1>3. /\ n \in Nat /\ Len(tokens') = n + 1 /\ tokens'[n + 1] = t
      /\ \A i \in 1..n : IsWord(i)' <=> IsWord(i)
  BY <1>1, <1>2, Earlier
<1>4. /\ Depth(n + 1)' = Depth(n + 1) /\ BlockOf(n + 1)' = BlockOf(n + 1)
      /\ \A d : BlockAt(d, n + 1)' = BlockAt(d, n + 1)
      /\ Opened(n)' = Opened(n) /\ PositionOf(n)' = PositionOf(n)
      /\ \A b : BegunIn(b, n)' = BegunIn(b, n)
  <2>1. n \in 0..n /\ n + 1 \in 1..n + 1
    BY <1>3
  <2> QED
    BY <1>1, <1>2, <2>1, Earlier
<1>5. DOMAIN tokens = 1..n /\ DOMAIN tokens' = 1..n + 1
  <2>1. tokens' \in Seq(Token)
    BY <1>1, <1>2, AppendNew
  <2> QED
    BY <1>3, <2>1, LenProperties
<1>6. /\ Type(n + 1)' = type /\ (IsWord(n + 1)' <=> type = "normal")
      /\ tokens'[n + 1].text = text
  BY <1>1, <1>3 DEF Type, IsWord
<1>7. n + 1 \in Nat \ {0} /\ (n + 1) - 1 = n /\ (n + 1) + 1 = n + 2
  BY <1>3
<1>8. Begins(n + 1)' <=> type = "normal" /\ (n = 0 \/ ~IsWord(n))
  <2>1. n = 0 \/ n \in 1..n
    BY <1>3
  <2>2. Begins(n + 1)' <=> IsWord(n + 1)' /\ (n + 1 = 1 \/ ~IsWord((n + 1) - 1)')
    BY DEF Begins
  <2> QED
    BY <1>3, <1>6, <1>7, <2>1, <2>2
<1>9. Adds(n + 1)'
  BY <1>7, EachAddsNext
<1>10. /\ Opened(n)' \in Nat
       /\ Opened(n + 1)' = Opened(n)' + (IF type = "start_block" THEN 1 ELSE 0)
       /\ \A d : BlockAt(d, n + 2)' = IF type = "start_block" /\ Depth(n + 1)' = d - 1
                                      THEN Opened(n + 1)' ELSE BlockAt(d, n + 1)'
  BY <1>6, <1>7, <1>9 DEF Adds
<1>11. \A b : /\ Cardinality(BegunIn(b, n)') \in Nat
              /\ Cardinality(BegunIn(b, n + 1)') = Cardinality(BegunIn(b, n)')
                   + (IF Begins(n + 1)' /\ BlockOf(n + 1)' = b THEN 1 ELSE 0)
  BY <1>7, <1>9 DEF Adds
<1>12. /\ PositionOf(n)' \in Nat
       /\ Begins(n + 1)' => PositionOf(n + 1)' = 1
       /\ IsWord(n + 1)' /\ ~Begins(n + 1)' => PositionOf(n + 1)' = PositionOf(n)' + 1
  BY <1>7, <1>9 DEF Adds
<1>13. StatementOf(n + 1)' = Cardinality(BegunIn(BlockOf(n + 1), n + 1)')
  BY <1>4 DEF StatementOf, BegunIn
<1> QED
  BY <1>3, <1>4, <1>5, <1>6, <1>8, <1>10, <1>11, <1>12, <1>13

\* A word stays in its place when its statement keeps what it has.
LEMMA StaysPlaced ==
  ASSUME tokens \in Seq(Token), NEW n, n = Len(tokens),
         NEW type \in TokenType, NEW text \in Seq(Char), Deliver(type, text),
         NEW i \in 1..n, IsWord(i), Placed(i), NEW old, NEW new,
         old = configs[BlockOf(i)][StatementOf(i)],
         BlockOf(i) \in DOMAIN configs', StatementOf(i) \in DOMAIN configs'[BlockOf(i)],
         new = configs'[BlockOf(i)][StatementOf(i)],
         \A p \in DOMAIN old.tokens : p \in DOMAIN new.tokens /\ new.tokens[p] = old.tokens[p],
         i # n /\ ~Follows(i, "normal") => new.child = old.child,
         i = n => \/ type = "normal"
                  \/ new.child = IF type = "start_block" THEN Opened(n) + 1 ELSE Null
  PROVE  Placed(i)'
<1> DEFINE t == [type |-> type, text |-> text]
<1>1. t \in Token /\ tokens' = Append(tokens, t)
  BY DEF Deliver, Token
<1> HIDE DEF t
<1>2. /\ n \in Nat /\ Len(tokens') = n + 1 /\ tokens'[i] = tokens[i]
      /\ BlockOf(i)' = BlockOf(i) /\ StatementOf(i)' = StatementOf(i)
      /\ PositionOf(i)' = PositionOf(i)
      /\ \A j \in 1..n : Type(j)' = Type(j) /\ Opened(j)' = Opened(j)
  <2>1. n \in Nat
    BY LenProperties
  <2>2. i \in 1..n + 1 /\ i \in 0..n /\ \A j \in 1..n : j \in 0..n
    BY <2>1
  <2> QED
    BY <1>1, <2>2, Earlier
<1>3. /\ PositionOf(i) \in DOMAIN old.tokens
      /\ old.tokens[PositionOf(i)] = tokens[i].text
      /\ \/ Follows(i, "normal")
         \/ old.child = IF Follows(i, "start_block") THEN Opened(i + 1) ELSE Null
  BY DEF Placed
<1>4. \/ Follows(i, "normal")'
      \/ new.child = IF Follows(i, "start_block")' THEN Opened(i + 1)' ELSE Null
  <2>1. CASE i # n
    <3>1. i < n /\ i < n + 1 /\ i + 1 \in 1..n
      BY <1>2, <2>1
    <3>2. \A u : Follows(i, u)' <=> Follows(i, u)
      BY <1>2, <3>1 DEF Follows
    <3> QED
      BY <1>2, <1>3, <2>1, <3>1, <3>2
  <2>2. CASE i = n
    <3>1. \A u : Follows(i, u)' <=> u = type
      <4>1. Type(n + 1)' = type
        BY AfterToken
      <4>2. n < n + 1
        BY <1>2
      <4> QED
        BY <1>2, <2>2, <4>1, <4>2 DEF Follows
    <3>2. type = "start_block" => Opened(i + 1)' = Opened(n) + 1
      BY <2>2, AfterToken
    <3> QED
      BY <2>2, <3>1, <3>2
  <2> QED
    BY <2>1, <2>2
<1> QED
  BY <1>2, <1>3, <1>4 DEF Placed

\* Where the next word goes.
LEMMA NextPlace ==
  ASSUME ParseInv, ReadInv, Current, result = "running", config_stack # <<>>,
         NEW n, n = Len(tokens)
  PROVE  /\ n \in Nat /\ Top \in 1..Len(configs) /\ BlockOf(n + 1) = Top
         /\ Len(config_stack) = 1 + Depth(n + 1)
         /\ last_token_type # "normal" => n = 0 \/ ~IsWord(n)
         /\ last_token_type = "normal" =>
              /\ n \in 1..n /\ IsWord(n) /\ BlockOf(n) = Top
              /\ StatementOf(n) = Len(configs[Top]) /\ configs[Top] # <<>>
<1>1. /\ Top \in 1..Len(configs) /\ n \in Nat /\ Len(config_stack) \in 1..Len(config_stack)
      /\ DOMAIN configs = 1..Len(configs)
  BY TopBlock DEF ParseInv, ParseTypes
<1>2. Len(config_stack) = 1 + Depth(n + 1)
  BY DEF ReadInv
<1>3. Depth(n + 1) \in Int
  <2>1. n + 1 \in Nat \ {0}
    BY <1>1
  <2> QED
    BY <2>1, EachAdds DEF Adds
<1>4. BlockOf(n + 1) = Top
  <2>1. Depth(n + 1) \in 0..Len(config_stack) - 1 /\ Depth(n + 1) + 1 = Len(config_stack)
    BY <1>1, <1>2, <1>3
  <2>2. config_stack[Depth(n + 1) + 1] = BlockAt(Depth(n + 1), n + 1)
    BY <2>1 DEF Current
  <2> QED
    BY <2>1, <2>2 DEF BlockOf, Top
<1>5. n # 0 => last_token_type = Type(n)
  BY <1>1, EmptySeq DEF ReadInv, ParseInv, ParseTypes
<1>6. last_token_type = "normal" => n # 0
  BY <1>1, EmptySeq DEF ReadInv, ParseInv, ParseTypes
<1>7. ASSUME last_token_type = "normal"
      PROVE  /\ n \in 1..n /\ IsWord(n) /\ BlockOf(n) = Top
             /\ StatementOf(n) = Len(configs[Top]) /\ configs[Top] # <<>>
  <2>1. n \in 1..n /\ IsWord(n) /\ Type(n) = "normal" /\ n \in Nat \ {0}
    BY <1>1, <1>5, <1>6, <1>7 DEF IsWord
  <2>2. Depth(n + 1) = Depth(n) /\ \A d : BlockAt(d, n + 1) = BlockAt(d, n)
    <3>1. Adds(n)
      BY <2>1, EachAdds
    <3> QED
      BY <2>1, <3>1 DEF Adds
  <2>3. BlockOf(n) = Top
    BY <1>4, <2>2 DEF BlockOf
  <2>4. StatementOf(n) = Len(configs[Top])
    BY <1>1, <2>3 DEF StatementOf, Current
  <2>5. configs[Top] # <<>>
    BY <1>7 DEF ParseInv, OpenStatement
  <2> QED
    BY <2>1, <2>3, <2>4, <2>5
<1> QED
  BY <1>1, <1>2, <1>4, <1>5, <1>7 DEF IsWord

\* What x is: the statements stmts with word put in, at place of statement k.
WordPutIn(x, stmts, word, k, place) ==
  /\ DOMAIN x = 1..k /\ DOMAIN stmts = 1..Len(stmts) /\ Len(x) = k /\ k \in 1..k
  /\ Len(x[k].tokens) = place /\ place \in DOMAIN x[k].tokens
  /\ x[k].tokens[place] = word /\ x[k].child = Null
  /\ \A s \in 1..Len(stmts) :
       /\ s \in 1..k /\ x[s].child = stmts[s].child
       /\ \A p \in DOMAIN stmts[s].tokens :
            p \in DOMAIN x[s].tokens /\ x[s].tokens[p] = stmts[s].tokens[p]
  /\ \A s \in 1..k : \A p \in DOMAIN x[s].tokens :
       \/ s = k /\ p = place
       \/ s \in 1..Len(stmts) /\ p \in DOMAIN stmts[s].tokens

\* A block with a word added: the word is the last of the last statement, which
\* has no block yet; everything else is as it was.
LEMMA WordAdded ==
  ASSUME NEW stmts \in Seq(Statement), NEW word \in Seq(Char), NEW x, x = AddWord(stmts, word),
         last_token_type = "normal" =>
           stmts # <<>> /\ stmts[Len(stmts)].child = Null,
         NEW place, place = IF last_token_type = "normal"
                            THEN Len(stmts[Len(stmts)].tokens) + 1 ELSE 1,
         NEW k, k = IF last_token_type = "normal" THEN Len(stmts) ELSE Len(stmts) + 1
  PROVE  WordPutIn(x, stmts, word, k, place)
<1>0. Len(stmts) \in Nat /\ DOMAIN stmts = 1..Len(stmts)
  OBVIOUS
<1>1. CASE last_token_type = "normal"
  <2>1. k = Len(stmts) /\ k \in 1..k /\ k \in 1..Len(stmts) /\ k \in Nat
    BY <1>0, <1>1, EmptySeq
  <2>2. stmts[k] \in Statement /\ stmts[k].child = Null
    BY <1>1, <2>1, ElementOfSeq
  <2> DEFINE u == stmts[k].tokens
             y == [stmts[k] EXCEPT !.tokens = Append(@, word)]
  <2>3. u \in Seq(Seq(Char)) /\ place = Len(u) + 1
    BY <1>1, <2>1, <2>2 DEF Statement
  <2>4. /\ Append(u, word) \in Seq(Seq(Char)) /\ Len(Append(u, word)) = place
        /\ Len(u) \in Nat /\ DOMAIN u = 1..Len(u)
        /\ DOMAIN Append(u, word) = 1..Len(u) + 1
        /\ Append(u, word)[place] = word
        /\ \A p \in 1..Len(u) : Append(u, word)[p] = u[p]
    BY <2>3, AppendProperties
  <2>5. y \in Statement /\ y.tokens = Append(u, word) /\ y.child = Null
    BY <2>2, <2>4 DEF Statement
  <2>6. x = [stmts EXCEPT ![k] = y]
    BY <1>1, <2>1 DEF AddWord
  <2> HIDE DEF u, y
  <2>7. /\ x \in Seq(Statement) /\ Len(x) = k /\ x[k] = y
        /\ \A s \in 1..Len(stmts) : s # k => x[s] = stmts[s]
    BY <2>1, <2>5, <2>6, Replace
  <2>8. DOMAIN x = 1..k
    BY <2>7
  <2>9. ASSUME NEW s \in 1..Len(stmts)
        PROVE  /\ s \in 1..k /\ x[s].child = stmts[s].child
               /\ \A p \in DOMAIN stmts[s].tokens :
                    p \in DOMAIN x[s].tokens /\ x[s].tokens[p] = stmts[s].tokens[p]
    <3>1. CASE s = k
      <4>1. /\ x[s].tokens = Append(u, word) /\ stmts[s].tokens = u
            /\ x[s].child = Null /\ stmts[s].child = Null /\ s \in 1..k
        BY <2>1, <2>2, <2>5, <2>7, <3>1 DEF u
      <4>2. \A p \in 1..Len(u) : p \in 1..Len(u) + 1
        BY <2>4
      <4> QED
        BY <2>4, <4>1, <4>2
    <3>2. CASE s # k
      BY <2>1, <2>7, <3>2
    <3> QED
      BY <3>1, <3>2
  <2>10. ASSUME NEW s \in 1..k, NEW p \in DOMAIN x[s].tokens
         PROVE  \/ s = k /\ p = place
                \/ s \in 1..Len(stmts) /\ p \in DOMAIN stmts[s].tokens
    <3>1. CASE s = k
      BY <2>1, <2>3, <2>4, <2>5, <2>7, <3>1 DEF u
    <3>2. CASE s # k
      BY <2>1, <2>7, <3>2
    <3> QED
      BY <3>1, <3>2
  <2>11. Len(x[k].tokens) = place /\ place \in DOMAIN x[k].tokens
         /\ x[k].tokens[place] = word /\ x[k].child = Null
    BY <2>3, <2>4, <2>5, <2>7
  <2> QED
    BY <1>0, <2>1, <2>7, <2>8, <2>9, <2>10, <2>11 DEF WordPutIn
<1>2. CASE last_token_type # "normal"
  <2> DEFINE y == [tokens |-> <<word>>, child |-> Null]
  <2>1. x = Append(stmts, y) /\ k = Len(stmts) + 1 /\ place = 1
    BY <1>2 DEF AddWord
  <2>2. y \in Statement /\ y.child = Null /\ y.tokens = <<word>>
    <3>1. <<word>> \in Seq(Seq(Char))
      BY OneElement
    <3> QED
      BY <3>1 DEF Statement, Null
  <2> HIDE DEF y
  <2>3. /\ Len(x) = k /\ DOMAIN x = 1..k /\ x[k] = y
        /\ \A s \in 1..Len(stmts) : x[s] = stmts[s]
    <3>1. /\ Append(stmts, y) \in Seq(Statement) /\ Len(Append(stmts, y)) = Len(stmts) + 1
          /\ Append(stmts, y)[Len(stmts) + 1] = y
          /\ \A s \in 1..Len(stmts) : Append(stmts, y)[s] = stmts[s]
      BY <2>2, AppendProperties
    <3>2. DOMAIN Append(stmts, y) = 1..Len(stmts) + 1
      BY <3>1
    <3> QED
      BY <2>1, <3>1, <3>2
  <2>4. /\ Len(x[k].tokens) = 1 /\ DOMAIN x[k].tokens = {1} /\ x[k].tokens[1] = word
        /\ x[k].child = Null
    <3>1. Len(<<word>>) = 1 /\ DOMAIN <<word>> = {1} /\ <<word>>[1] = word
      OBVIOUS
    <3> QED
      BY <2>2, <2>3, <3>1
  <2>5. k \in 1..k /\ (\A s \in 1..Len(stmts) : s \in 1..k)
        /\ \A s \in 1..k : s = k \/ s \in 1..Len(stmts)
    <3>1. \A l \in Nat : /\ l + 1 \in 1..l + 1 /\ (\A s \in 1..l : s \in 1..l + 1)
                         /\ \A s \in 1..l + 1 : s = l + 1 \/ s \in 1..l
      OBVIOUS
    <3>2. Len(stmts) \in Nat /\ k = Len(stmts) + 1
      BY <1>0, <2>1
    <3> QED
      BY <3>1, <3>2
  <2>6. ASSUME NEW s \in 1..k, NEW p \in DOMAIN x[s].tokens
        PROVE  \/ s = k /\ p = place
               \/ s \in 1..Len(stmts) /\ p \in DOMAIN stmts[s].tokens
    BY <2>1, <2>3, <2>4, <2>5
  <2> QED
    BY <1>0, <2>1, <2>3, <2>4, <2>5, <2>6 DEF WordPutIn
<1> QED
  BY <1>1, <1>2

\* A word goes where the text has it.
LEMMA WordPlaces ==
  ASSUME ParseInv, ReadInv, PlaceInv, result = "running", NEW word \in Seq(Char), Word(word)
  PROVE  PlaceInv'
<1>1. CASE config_stack = <<>> /\ Stop("undefined")
  BY <1>1 DEF PlaceInv, Stop
<1>2. CASE /\ config_stack # <<>> /\ Go("normal")
           /\ configs' = [configs EXCEPT ![Top] = AddWord(@, word)]
           /\ UNCHANGED config_stack
  <2>0. PICK n, b, stmts : n = Len(tokens) /\ b = Top /\ stmts = configs[Top]
    OBVIOUS
  <2> DEFINE m == n + 1
             x == AddWord(stmts, word)
             k == IF last_token_type = "normal" THEN Len(stmts) ELSE Len(stmts) + 1
             place == IF last_token_type = "normal"
                      THEN Len(stmts[Len(stmts)].tokens) + 1 ELSE 1
  <2>1. WordsPlaced /\ NoOthers /\ Current
    BY DEF PlaceInv
  <2>2. /\ n \in Nat /\ b \in 1..Len(configs) /\ BlockOf(n + 1) = b
        /\ Len(config_stack) = 1 + Depth(n + 1)
        /\ last_token_type # "normal" => n = 0 \/ ~IsWord(n)
        /\ last_token_type = "normal" =>
             /\ n \in 1..n /\ IsWord(n) /\ BlockOf(n) = b
             /\ StatementOf(n) = Len(stmts) /\ stmts # <<>>
    BY <1>2, <2>0, <2>1, NextPlace
  <2>3. tokens \in Seq(Token) /\ Deliver("normal", word) /\ "normal" \in TokenType
    BY DEF ParseInv, ParseTypes, Word, TokenType
  <2>4. /\ Len(tokens') = m /\ DOMAIN tokens = 1..n /\ DOMAIN tokens' = 1..m
        /\ tokens'[m].text = word /\ IsWord(m)' /\ Opened(m)' = Opened(n)
        /\ Begins(m)' <=> n = 0 \/ ~IsWord(n)
        /\ \A d : BlockAt(d, n + 2)' = BlockAt(d, m)
    <3>1. /\ Len(tokens') = m /\ DOMAIN tokens = 1..n /\ DOMAIN tokens' = 1..m
          /\ tokens'[m].text = word /\ IsWord(m)'
      BY <2>0, <2>3, AfterToken
    <3>2. Begins(m)' <=> n = 0 \/ ~IsWord(n)
      BY <2>0, <2>3, AfterToken
    <3>3. Opened(m)' = Opened(n)
      <4>1. Opened(n) \in Nat /\ Opened(m)' = Opened(n) + 0
        BY <2>0, <2>3, AfterToken
      <4> QED
        BY <4>1
    <3>4. \A d : BlockAt(d, n + 2)' = BlockAt(d, m)
      BY <2>0, <2>3, AfterToken
    <3> QED
      BY <3>1, <3>2, <3>3, <3>4
  <2>5. BlockOf(m)' = b
    <3>1. PICK t \in Token : tokens' = Append(tokens, t)
      BY <2>3 DEF Deliver, Token
    <3>2. BlockOf(m)' = BlockOf(m)
      BY <2>0, <2>2, <2>3, <3>1, Earlier
    <3> QED
      BY <2>2, <3>2
  <2>6. /\ \A c : /\ Cardinality(BegunIn(c, n)) \in Nat
                  /\ Cardinality(BegunIn(c, m)') = Cardinality(BegunIn(c, n))
                        + (IF Begins(m)' /\ b = c THEN 1 ELSE 0)
        /\ StatementOf(m)' = Cardinality(BegunIn(b, m)')
        /\ PositionOf(n) \in Nat
        /\ PositionOf(m)' = IF Begins(m)' THEN 1 ELSE PositionOf(n) + 1
    <3>1. \A c : /\ Cardinality(BegunIn(c, n)) \in Nat
                 /\ Cardinality(BegunIn(c, m)') = Cardinality(BegunIn(c, n))
                       + (IF Begins(m)' /\ BlockOf(m) = c THEN 1 ELSE 0)
      BY <2>0, <2>3, AfterToken
    <3>2. StatementOf(m)' = Cardinality(BegunIn(BlockOf(m), m)')
      BY <2>0, <2>3, AfterToken
    <3>3. /\ PositionOf(n) \in Nat
          /\ PositionOf(m)' = IF Begins(m)' THEN 1 ELSE PositionOf(n) + 1
      BY <2>0, <2>3, AfterToken
    <3> QED
      BY <2>2, <2>5, <3>1, <3>2, <3>3
  <2>7. stmts \in Seq(Statement) /\ DOMAIN configs = 1..Len(configs) /\ Len(configs) \in Nat
    BY <2>0, <2>2, ElementOfSeq DEF ParseInv, ParseTypes
  <2>8. last_token_type = "normal" => stmts # <<>> /\ stmts[Len(stmts)].child = Null
    <3> SUFFICES ASSUME last_token_type = "normal"
                 PROVE  stmts # <<>> /\ stmts[Len(stmts)].child = Null
      OBVIOUS
    <3>1. Placed(n)
      BY <2>1, <2>2, <2>4 DEF WordsPlaced
    <3>2. \A u : ~Follows(n, u)
      BY <2>0, <2>2 DEF Follows
    <3> QED
      BY <2>0, <2>2, <3>1, <3>2 DEF Placed
  <2> HIDE DEF x, k, place
  <2>9. /\ DOMAIN x = 1..k /\ DOMAIN stmts = 1..Len(stmts) /\ Len(x) = k /\ k \in 1..k
        /\ Len(x[k].tokens) = place /\ place \in DOMAIN x[k].tokens
        /\ x[k].tokens[place] = word /\ x[k].child = Null
        /\ \A s \in 1..Len(stmts) :
             /\ s \in 1..k /\ x[s].child = stmts[s].child
             /\ \A p \in DOMAIN stmts[s].tokens :
                  p \in DOMAIN x[s].tokens /\ x[s].tokens[p] = stmts[s].tokens[p]
        /\ \A s \in 1..k : \A p \in DOMAIN x[s].tokens :
             \/ s = k /\ p = place
             \/ s \in 1..Len(stmts) /\ p \in DOMAIN stmts[s].tokens
    <3>1. x = AddWord(stmts, word)
      BY DEF x
    <3>2. place = IF last_token_type = "normal"
                  THEN Len(stmts[Len(stmts)].tokens) + 1 ELSE 1
      BY DEF place
    <3>3. k = IF last_token_type = "normal" THEN Len(stmts) ELSE Len(stmts) + 1
      BY DEF k
    <3>4. stmts \in Seq(Statement)
      BY <2>7
    <3>5. WordPutIn(x, stmts, word, k, place)
      BY <2>8, <3>1, <3>2, <3>3, <3>4, WordAdded
    <3> QED
      BY <3>5 DEF WordPutIn
  <2>10. Begins(m)' <=> last_token_type # "normal"
    BY <2>2, <2>4
  <2>11. PositionOf(m)' = place
    BY <2>0, <2>1, <2>6, <2>10 DEF Current, place
  <2>12. Len(stmts) = Cardinality(BegunIn(b, n)) /\ Cardinality(BegunIn(b, m)') = k
         /\ StatementOf(m)' = k
    <3>1. Len(stmts) = Cardinality(BegunIn(b, n))
      BY <2>0, <2>1, <2>2, <2>7 DEF Current
    <3> QED
      BY <2>6, <2>10, <3>1 DEF k
  <2>13. /\ configs' \in Seq(Seq(Statement)) /\ Len(configs') = Len(configs) /\ configs'[b] = x
         /\ \A c \in 1..Len(configs) : c # b => configs'[c] = configs[c]
    <3>1. x \in Seq(Statement)
      BY <2>7, <2>8, AddWordAdds DEF x
    <3>2. configs' = [configs EXCEPT ![b] = x]
      BY <1>2, <2>0 DEF x
    <3> QED
      BY <2>2, <3>1, <3>2, Replace DEF ParseInv, ParseTypes
  <2>14. /\ config_stack' = config_stack /\ last_token_type' = "normal" /\ result' = "running"
         /\ DOMAIN configs' = 1..Len(configs)
    BY <1>2, <2>13 DEF Go
  <2>15. \A i \in 1..n : /\ BlockOf(i)' = BlockOf(i) /\ StatementOf(i)' = StatementOf(i)
                         /\ PositionOf(i)' = PositionOf(i)
                         /\ (IsWord(i)' <=> IsWord(i)) /\ (Begins(i)' <=> Begins(i))
    <3>1. PICK t \in Token : tokens' = Append(tokens, t)
      BY <2>3 DEF Deliver, Token
    <3>2. \A i \in 1..n : i \in 1..n + 1 /\ i \in 0..n
      BY <2>2
    <3> QED
      BY <2>0, <2>3, <3>1, <3>2, Earlier
  <2>16. ASSUME NEW i \in 1..n, IsWord(i) PROVE Placed(i)'
    <3>0. PICK c, s : c = BlockOf(i) /\ s = StatementOf(i)
      OBVIOUS
    <3>1. Placed(i)
      BY <2>1, <2>4, <2>16 DEF WordsPlaced
    <3>2. c \in 1..Len(configs) /\ s \in DOMAIN configs[c]
      BY <2>7, <3>0, <3>1 DEF Placed
    <3>3. /\ c \in DOMAIN configs' /\ s \in DOMAIN configs'[c]
          /\ configs'[c][s].child = configs[c][s].child
          /\ \A p \in DOMAIN configs[c][s].tokens :
               /\ p \in DOMAIN configs'[c][s].tokens
               /\ configs'[c][s].tokens[p] = configs[c][s].tokens[p]
      <4>1. CASE c = b
        BY <2>0, <2>9, <2>13, <2>14, <3>2, <4>1
      <4>2. CASE c # b
        BY <2>13, <2>14, <3>2, <4>2
      <4> QED
        BY <4>1, <4>2
    <3> QED
      BY <2>0, <2>3, <2>16, <3>0, <3>1, <3>3, StaysPlaced
  <2>17. Placed(m)'
    <3>1. \A u : ~Follows(m, u)'
      BY <2>2, <2>4 DEF Follows
    <3>2. /\ BlockOf(m)' \in DOMAIN configs' /\ StatementOf(m)' \in DOMAIN configs'[b]
          /\ configs'[b][k] = x[k]
      BY <2>2, <2>9, <2>12, <2>13, <2>14, <2>5
    <3> QED
      BY <2>4, <2>9, <2>11, <2>12, <2>5, <3>1, <3>2 DEF Placed
  <2>18. WordsPlaced'
    <3>1. \A i \in 1..m : i \in 1..n \/ i = m
      BY <2>2
    <3> QED
      BY <2>4, <2>15, <2>16, <2>17, <3>1 DEF WordsPlaced
  <2>19. NoOthers'
    <3> SUFFICES ASSUME NEW c \in DOMAIN configs', NEW s \in DOMAIN configs'[c],
                        NEW p \in DOMAIN configs'[c][s].tokens
                 PROVE  \E i \in DOMAIN tokens' :
                          /\ IsWord(i)' /\ BlockOf(i)' = c
                          /\ StatementOf(i)' = s /\ PositionOf(i)' = p
      BY DEF NoOthers
    <3>1. CASE c = b /\ s = k /\ p = place
      <4>1. m \in 1..m
        BY <2>2
      <4> QED
        BY <2>4, <2>11, <2>12, <2>5, <3>1, <4>1
    <3>2. CASE ~(c = b /\ s = k /\ p = place)
      <4>1. c \in DOMAIN configs /\ s \in DOMAIN configs[c] /\ p \in DOMAIN configs[c][s].tokens
        <5>1. CASE c = b
          BY <2>0, <2>2, <2>7, <2>9, <2>13, <3>2, <5>1
        <5>2. CASE c # b
          BY <2>7, <2>13, <2>14, <5>2
        <5> QED
          BY <5>1, <5>2
      <4>2. PICK i \in 1..n : /\ IsWord(i) /\ BlockOf(i) = c
                              /\ StatementOf(i) = s /\ PositionOf(i) = p
        BY <2>1, <2>4, <4>1 DEF NoOthers
      <4>3. i \in 1..m
        BY <2>2
      <4> QED
        BY <2>4, <2>15, <4>2, <4>3
    <3> QED
      BY <3>1, <3>2
  <2>20. Current'
    <3>1. Len(configs') = Opened(Len(tokens))'
      <4>1. Len(configs) = Opened(n)
        BY <2>0, <2>1 DEF Current
      <4>2. Opened(Len(tokens))' = Opened(m)'
        BY <2>4 DEF Opened, Type
      <4> QED
        BY <2>4, <2>13, <4>1, <4>2
    <3>2. ASSUME NEW d \in 0..Len(config_stack') - 1
          PROVE  config_stack'[d + 1] = BlockAt(d, Len(tokens) + 1)'
      <4>1. config_stack[d + 1] = BlockAt(d, m)
        BY <2>0, <2>1, <2>14 DEF Current
      <4>2. Len(tokens') + 1 = n + 2
        BY <2>2, <2>4
      <4>3. BlockAt(d, Len(tokens) + 1)' = BlockAt(d, n + 2)'
        BY <4>2 DEF BlockAt, Opened, Type, Depth
      <4> QED
        BY <2>4, <2>14, <4>1, <4>3
    <3>3. ASSUME NEW c \in DOMAIN configs'
          PROVE  Len(configs'[c]) = Cardinality(BegunIn(c, Len(tokens))')
      <4>1. BegunIn(c, Len(tokens))' = BegunIn(c, m)'
        BY <2>4 DEF BegunIn
      <4>2. CASE c = b
        BY <2>9, <2>12, <2>13, <4>1, <4>2
      <4>3. CASE c # b
        <5>1. Len(configs[c]) = Cardinality(BegunIn(c, n))
          BY <2>0, <2>1, <2>7, <2>14 DEF Current
        <5> QED
          BY <2>6, <2>13, <2>14, <4>1, <4>3, <5>1
      <4> QED
        BY <4>2, <4>3
    <3>4. Top' = b
      BY <2>0, <2>14 DEF Top
    <3>5. Len(configs'[Top'][Len(configs'[Top'])].tokens) = PositionOf(Len(tokens))'
      <4>1. PositionOf(Len(tokens))' = PositionOf(m)'
        BY <2>4 DEF PositionOf, Row, IsWord, Type
      <4> QED
        BY <2>9, <2>11, <2>13, <3>4, <4>1
    <3>6. \E j \in 1..m : /\ Begins(j)' /\ BlockOf(j)' = b
                          /\ \A i \in j..m : IsWord(i)'
      <4>1. CASE last_token_type = "normal"
        <5>1. PICK j \in 1..n : Begins(j) /\ BlockOf(j) = b /\ \A i \in j..n : IsWord(i)
          BY <2>0, <2>1, <4>1 DEF Current
        <5>2. /\ j \in 1..m
              /\ \A i \in j..m : (i \in 1..n /\ i \in j..n) \/ i = m
          BY <2>2
        <5> QED
          BY <2>4, <2>15, <5>1, <5>2
      <4>2. CASE last_token_type # "normal"
        <5>1. m \in 1..m /\ \A i \in m..m : i = m
          BY <2>2
        <5> QED
          BY <2>4, <2>10, <2>5, <4>2, <5>1
      <4> QED
        BY <4>1, <4>2
    <3> QED
      BY <2>4, <3>1, <3>2, <3>3, <3>4, <3>5, <3>6 DEF Current
  <2> QED
    BY <2>14, <2>18, <2>19, <2>20 DEF PlaceInv
<1> QED
  BY <1>1, <1>2 DEF Word

\* A token that is no word, and begins no block, leaves the words where they are.
LEMMA NothingPlaced ==
  ASSUME ParseInv, ReadInv, PlaceInv, result = "running",
         NEW type \in TokenType \ {"normal"}, NEW text \in Seq(Char), Deliver(type, text),
         type = "start_block" => last_token_type # "normal", UNCHANGED configs
  PROVE  WordsPlaced' /\ NoOthers'
<1>0. PICK n : n = Len(tokens)
  OBVIOUS
<1>1. WordsPlaced /\ NoOthers /\ tokens \in Seq(Token) /\ type \in TokenType
  BY DEF PlaceInv, ParseInv, ParseTypes
<1>2. /\ n \in Nat /\ Len(tokens') = n + 1 /\ DOMAIN tokens = 1..n
      /\ DOMAIN tokens' = 1..n + 1 /\ ~IsWord(n + 1)'
  BY <1>0, <1>1, AfterToken
<1>3. \A i \in 1..n : /\ BlockOf(i)' = BlockOf(i) /\ StatementOf(i)' = StatementOf(i)
                      /\ PositionOf(i)' = PositionOf(i) /\ (IsWord(i)' <=> IsWord(i))
  <2>1. PICK t \in Token : tokens' = Append(tokens, t)
    BY DEF Deliver, Token
  <2>2. \A i \in 1..n : i \in 1..n + 1 /\ i \in 0..n
    BY <1>2
  <2> QED
    BY <1>0, <1>1, <2>1, <2>2, Earlier
<1>4. ASSUME NEW i \in 1..n, IsWord(i) PROVE Placed(i)'
  <2>0. PICK old : old = configs[BlockOf(i)][StatementOf(i)]
    OBVIOUS
  <2>1. Placed(i)
    BY <1>1, <1>2, <1>4 DEF WordsPlaced
  <2>2. /\ BlockOf(i) \in DOMAIN configs' /\ StatementOf(i) \in DOMAIN configs'[BlockOf(i)]
        /\ old = configs'[BlockOf(i)][StatementOf(i)]
    BY <2>0, <2>1 DEF Placed
  <2>3. i = n => old.child = Null /\ type # "start_block"
    <3> SUFFICES ASSUME i = n PROVE old.child = Null /\ type # "start_block"
      OBVIOUS
    <3>1. \A u : ~Follows(n, u)
      BY <1>0, <1>2 DEF Follows
    <3>2. last_token_type = "normal"
      BY <1>0, <1>2, <1>4, EmptySeq DEF ReadInv, ParseInv, ParseTypes, IsWord
    <3> QED
      BY <2>0, <2>1, <3>1, <3>2 DEF Placed
  <2> QED
    BY <1>0, <1>1, <1>4, <2>0, <2>1, <2>2, <2>3, StaysPlaced
<1>5. WordsPlaced'
  <2>1. \A i \in 1..n + 1 : i \in 1..n \/ i = n + 1
    BY <1>2
  <2> QED
    BY <1>2, <1>3, <1>4, <2>1 DEF WordsPlaced
<1>6. NoOthers'
  <2> SUFFICES ASSUME NEW b \in DOMAIN configs, NEW s \in DOMAIN configs[b],
                      NEW p \in DOMAIN configs[b][s].tokens
               PROVE  \E i \in DOMAIN tokens' :
                        /\ IsWord(i)' /\ BlockOf(i)' = b
                        /\ StatementOf(i)' = s /\ PositionOf(i)' = p
    BY DEF NoOthers
  <2>1. PICK i \in 1..n : IsWord(i) /\ BlockOf(i) = b /\ StatementOf(i) = s /\ PositionOf(i) = p
    BY <1>1, <1>2 DEF NoOthers
  <2>2. i \in 1..n + 1
    BY <1>2
  <2> QED
    BY <1>2, <1>3, <2>1, <2>2
<1> QED
  BY <1>5, <1>6

\* ";", and "}": the block that is open then is the one that was open before.
LEMMA OtherPlaces ==
  ASSUME ParseInv, ReadInv, PlaceInv, result = "running",
         NEW type \in {"statement_end", "end_block"}, Deliver(type, <<>>), Go(type),
         UNCHANGED configs,
         \/ UNCHANGED config_stack
         \/ config_stack # <<>> /\ config_stack' = Pop(config_stack)
  PROVE  PlaceInv'
<1>0. PICK n : n = Len(tokens)
  OBVIOUS
<1>1. Current /\ tokens \in Seq(Token) /\ type \in TokenType \ {"normal"} /\ <<>> \in Seq(Char)
  BY EmptyText DEF PlaceInv, ParseInv, ParseTypes, TokenType
<1>2. WordsPlaced' /\ NoOthers'
  BY <1>1, NothingPlaced
<1>3. /\ n \in Nat /\ Len(tokens') = n + 1
  BY <1>0, <1>1, AfterToken
<1>4. \A d : BlockAt(d, n + 2)' = BlockAt(d, n + 1)
  BY <1>0, <1>1, AfterToken
<1>5. \A b : Cardinality(BegunIn(b, n + 1)') = Cardinality(BegunIn(b, n))
  <2>1. ~Begins(n + 1)'
    BY <1>0, <1>1, AfterToken
  <2>2. \A b : /\ Cardinality(BegunIn(b, n)) \in Nat
               /\ Cardinality(BegunIn(b, n + 1)') = Cardinality(BegunIn(b, n))
                    + (IF Begins(n + 1)' /\ BlockOf(n + 1) = b THEN 1 ELSE 0)
    BY <1>0, <1>1, AfterToken
  <2> QED
    BY <2>1, <2>2
<1>6. Opened(n + 1)' = Opened(n)
  <2>1. /\ Opened(n) \in Nat
        /\ Opened(n + 1)' = Opened(n) + (IF type = "start_block" THEN 1 ELSE 0)
    BY <1>0, <1>1, AfterToken
  <2> QED
    BY <2>1
<1>7. \A d \in 0..Len(config_stack') - 1 :
        d \in 0..Len(config_stack) - 1 /\ config_stack'[d + 1] = config_stack[d + 1]
  <2>1. CASE UNCHANGED config_stack
    BY <2>1
  <2>2. CASE config_stack # <<>> /\ config_stack' = Pop(config_stack)
    <3>1. /\ Len(config_stack') = Len(config_stack) - 1 /\ Len(config_stack) \in Nat
          /\ \A i \in 1..Len(config_stack) - 1 : config_stack'[i] = config_stack[i]
      BY <2>2, Popped DEF ParseInv, ParseTypes
    <3> QED
      BY <3>1
  <2> QED
    BY <2>1, <2>2
<1>8. last_token_type' # "normal" /\ result' = "running"
  BY <1>1 DEF Go
<1>9. Current'
  <2>1. Len(configs') = Opened(Len(tokens))'
    <3>1. Len(configs) = Opened(n)
      BY <1>0, <1>1 DEF Current
    <3>2. Opened(Len(tokens))' = Opened(n + 1)'
      BY <1>3 DEF Opened, Type
    <3> QED
      BY <1>6, <3>1, <3>2
  <2>2. ASSUME NEW d \in 0..Len(config_stack') - 1
        PROVE  config_stack'[d + 1] = BlockAt(d, Len(tokens) + 1)'
    <3>1. config_stack[d + 1] = BlockAt(d, n + 1)
      BY <1>0, <1>1, <1>7 DEF Current
    <3>2. Len(tokens') + 1 = n + 2
      BY <1>3
    <3>3. BlockAt(d, Len(tokens) + 1)' = BlockAt(d, n + 2)'
      BY <3>2 DEF BlockAt, Opened, Type, Depth
    <3> QED
      BY <1>4, <1>7, <3>1, <3>3
  <2>3. ASSUME NEW b \in DOMAIN configs'
        PROVE  Len(configs'[b]) = Cardinality(BegunIn(b, Len(tokens))')
    <3>1. Len(configs[b]) = Cardinality(BegunIn(b, n))
      BY <1>0, <1>1 DEF Current
    <3>2. BegunIn(b, Len(tokens))' = BegunIn(b, n + 1)'
      BY <1>3 DEF BegunIn
    <3> QED
      BY <1>5, <3>1, <3>2
  <2> QED
    BY <1>8, <2>1, <2>2, <2>3 DEF Current
<1> QED
  BY <1>2, <1>8, <1>9 DEF PlaceInv

\* Of the words of a block, only those of its last statement are in a row that
\* has not ended.
LEMMA EarlierStatement ==
  ASSUME NEW n \in Nat, NEW k \in 1..n, Begins(k), \A j \in k..n : IsWord(j),
         NEW i \in 1..n, i # n, ~IsWord(i + 1), BlockOf(i) = BlockOf(k)
  PROVE  StatementOf(i) < Cardinality(BegunIn(BlockOf(k), n))
<1>0. PICK b : b = BlockOf(k)
  OBVIOUS
<1>1. i < k /\ i \in Nat
  <2>1. i + 1 \in 1..n /\ i + 1 \notin k..n
    BY <1>0
  <2>2. i + 1 < k \/ n < i + 1
    BY <2>1
  <2> QED
    BY <2>1, <2>2
<1>2. /\ BegunIn(b, i) \subseteq BegunIn(b, n) /\ k \in BegunIn(b, n) /\ k \notin BegunIn(b, i)
      /\ BegunIn(b, n) \subseteq 1..n
  BY <1>0, <1>1 DEF BegunIn
<1>3. IsFiniteSet(BegunIn(b, n))
  BY <1>2, TokensFinite
<1>4. Cardinality(BegunIn(b, i)) < Cardinality(BegunIn(b, n))
  <2>1. /\ Cardinality(BegunIn(b, i)) <= Cardinality(BegunIn(b, n))
        /\ Cardinality(BegunIn(b, i)) # Cardinality(BegunIn(b, n))
    BY <1>2, <1>3, FS_Subset
  <2>2. Cardinality(BegunIn(b, i)) \in Nat /\ Cardinality(BegunIn(b, n)) \in Nat
    BY <1>2, <1>3, FS_Subset, FS_CardinalityType
  <2> QED
    BY <2>1, <2>2
<1> QED
  BY <1>0, <1>4 DEF StatementOf

\* "{": the new block is that of the statement before it.
LEMMA StartBlockPlaces ==
  ASSUME ParseInv, ReadInv, PlaceInv, result = "running", StartBlock
  PROVE  PlaceInv'
<1>1. CASE last_token_type # "normal" /\ Stop("false")
  <2>1. WordsPlaced' /\ NoOthers'
    <3>1. /\ Deliver("start_block", <<>>) /\ "start_block" \in TokenType \ {"normal"}
          /\ <<>> \in Seq(Char) /\ UNCHANGED configs
      BY <1>1, EmptyText DEF StartBlock, Stop, TokenType
    <3> QED
      BY <1>1, <3>1, NothingPlaced
  <2> QED
    BY <1>1, <2>1 DEF PlaceInv, Stop
<1>2. CASE /\ last_token_type = "normal" /\ Go("start_block")
           /\ configs' = Append([configs EXCEPT ![Top] = Attach(@, Allocate)], <<>>)
           /\ config_stack' = Append(config_stack, Allocate)
  <2>0. PICK n, b, stmts, k, new :
          /\ n = Len(tokens) /\ b = Top /\ stmts = configs[Top]
          /\ k = Len(stmts) /\ new = Len(configs) + 1
    OBVIOUS
  <2> DEFINE m == n + 1
             x == Attach(stmts, new)
             f == [configs EXCEPT ![b] = x]
             h == Len(config_stack)
  <2>1. WordsPlaced /\ NoOthers /\ Current /\ config_stack # <<>>
    BY <1>2 DEF PlaceInv, ParseInv, OpenStatement
  <2>2. /\ n \in Nat /\ b \in 1..Len(configs) /\ h = 1 + Depth(m)
        /\ n \in 1..n /\ IsWord(n) /\ BlockOf(n) = b /\ StatementOf(n) = k /\ stmts # <<>>
    BY <1>2, <2>0, <2>1, NextPlace
  <2>3. /\ tokens \in Seq(Token) /\ Deliver("start_block", <<>>) /\ "start_block" \in TokenType
        /\ <<>> \in Seq(Char)
    BY EmptyText DEF ParseInv, ParseTypes, StartBlock, TokenType
  <2>4. /\ Len(tokens') = m /\ DOMAIN tokens = 1..n /\ DOMAIN tokens' = 1..m
        /\ ~IsWord(m)' /\ ~Begins(m)'
    BY <2>0, <2>3, AfterToken
  <2>5. Opened(n) \in Nat /\ Opened(m)' = Opened(n) + 1
    BY <2>0, <2>3, AfterToken
  <2>6. \A d : BlockAt(d, n + 2)' = IF Depth(m) = d - 1 THEN Opened(n) + 1 ELSE BlockAt(d, m)
    BY <2>0, <2>3, AfterToken
  <2>7. \A c : Cardinality(BegunIn(c, m)') = Cardinality(BegunIn(c, n))
    <3>1. \A c : /\ Cardinality(BegunIn(c, n)) \in Nat
                 /\ Cardinality(BegunIn(c, m)') = Cardinality(BegunIn(c, n))
                       + (IF Begins(m)' /\ BlockOf(m) = c THEN 1 ELSE 0)
      BY <2>0, <2>3, AfterToken
    <3> QED
      BY <2>4, <3>1
  <2>8. \A i \in 1..n : /\ BlockOf(i)' = BlockOf(i) /\ StatementOf(i)' = StatementOf(i)
                        /\ PositionOf(i)' = PositionOf(i) /\ (IsWord(i)' <=> IsWord(i))
    <3>1. PICK t \in Token : tokens' = Append(tokens, t)
      BY <2>3 DEF Deliver, Token
    <3>2. \A i \in 1..n : i \in 1..n + 1 /\ i \in 0..n
      BY <2>2
    <3> QED
      BY <2>0, <2>3, <3>1, <3>2, Earlier
  <2>9. /\ stmts \in Seq(Statement) /\ DOMAIN configs = 1..Len(configs)
        /\ Len(configs) \in Nat /\ new \in Nat /\ h \in Nat /\ DOMAIN stmts = 1..k
    BY <2>0, <2>2, ElementOfSeq DEF ParseInv, ParseTypes
  <2>10. /\ x \in Seq(Statement) /\ Len(x) = k /\ k > 0 /\ x[k].child = new
         /\ \A s \in 1..k : x[s].tokens = stmts[s].tokens /\ (s # k => x[s] = stmts[s])
    <3>1. /\ x \in Seq(Statement) /\ Len(x) = Len(stmts) /\ Len(stmts) > 0
          /\ x[Len(stmts)].child = new
          /\ \A s \in DOMAIN stmts : /\ x[s].tokens = stmts[s].tokens
                                     /\ s # Len(stmts) => x[s] = stmts[s]
      BY <2>2, <2>9, AttachKeeps
    <3> HIDE DEF x
    <3> QED
      BY <2>0, <2>9, <3>1
  <2>11. configs' = Append(f, <<>>) /\ config_stack' = Append(config_stack, new)
    BY <1>2, <2>0 DEF Allocate
  <2> HIDE DEF x
  <2>12. /\ f \in Seq(Seq(Statement)) /\ Len(f) = Len(configs) /\ f[b] = x
         /\ \A c \in 1..Len(configs) : c # b => f[c] = configs[c]
    BY <2>2, <2>10, Replace DEF ParseInv, ParseTypes
  <2> HIDE DEF f
  <2>13. /\ Len(configs') = new /\ DOMAIN configs' = 1..new /\ configs'[new] = <<>>
         /\ configs'[b] = x /\ DOMAIN configs'[b] = 1..k
         /\ \A c \in 1..Len(configs) : c # b => configs'[c] = configs[c]
    <3>1. configs' \in Seq(Seq(Statement))
      BY <2>11, <2>12, EmptyText, AppendNew
    <3>2. /\ Len(configs') = new /\ configs'[new] = <<>>
          /\ \A c \in 1..Len(configs) : configs'[c] = f[c]
      BY <2>0, <2>11, <2>12, EmptyText, AppendProperties
    <3>3. DOMAIN x = 1..k
      BY <2>9, <2>10
    <3> QED
      BY <2>2, <2>12, <3>1, <3>2, <3>3
  <2>14. /\ Len(config_stack') = h + 1 /\ config_stack'[h + 1] = new
         /\ \A i \in 1..h : config_stack'[i] = config_stack[i]
    <3>1. config_stack \in Seq(Nat)
      <4>1. 1..Len(configs) \subseteq Nat
        BY <2>9
      <4> QED
        BY <4>1, SeqMonotonic DEF ParseInv, ParseTypes
    <3> QED
      BY <2>9, <2>11, <3>1, AppendProperties
  <2>15. new = Opened(n) + 1
    BY <2>0, <2>1 DEF Current
  <2>16. ASSUME NEW i \in 1..n, i # n, ~Follows(i, "normal"), BlockOf(i) = b
         PROVE  StatementOf(i) # k
    <3>1. PICK j \in 1..n : Begins(j) /\ BlockOf(j) = b /\ \A l \in j..n : IsWord(l)
      BY <1>2, <2>0, <2>1 DEF Current
    <3>2. ~IsWord(i + 1)
      <4>1. i < n
        BY <2>2, <2>16
      <4> QED
        BY <2>0, <2>16, <4>1 DEF Follows, IsWord
    <3>3. StatementOf(i) < Cardinality(BegunIn(BlockOf(j), n))
      BY <2>2, <2>16, <3>1, <3>2, EarlierStatement
    <3>4. k = Cardinality(BegunIn(b, n)) /\ k \in Nat
      BY <2>0, <2>1, <2>2, <2>9 DEF Current
    <3>5. \A u \in Int : ~(u < u)
      OBVIOUS
    <3> QED
      BY <3>1, <3>3, <3>4, <3>5
  <2>17. ASSUME NEW i \in 1..n, IsWord(i) PROVE Placed(i)'
    <3>0. PICK c, s : c = BlockOf(i) /\ s = StatementOf(i)
      OBVIOUS
    <3>1. Placed(i)
      BY <2>1, <2>4, <2>17 DEF WordsPlaced
    <3>2. c \in 1..Len(configs) /\ s \in DOMAIN configs[c]
      BY <2>9, <3>0, <3>1 DEF Placed
    <3>3. /\ c \in DOMAIN configs' /\ s \in DOMAIN configs'[c]
          /\ configs'[c][s].tokens = configs[c][s].tokens
          /\ (c # b \/ s # k) => configs'[c][s] = configs[c][s]
      <4>1. c \in DOMAIN configs'
        BY <2>0, <2>9, <2>13, <3>2
      <4>2. CASE c = b
        BY <2>0, <2>9, <2>10, <2>13, <3>2, <4>1, <4>2
      <4>3. CASE c # b
        BY <2>13, <3>2, <4>1, <4>3
      <4> QED
        BY <4>2, <4>3
    <3>4. i # n /\ ~Follows(i, "normal") => configs'[c][s].child = configs[c][s].child
      BY <2>16, <3>0, <3>3
    <3>5. i = n => configs'[c][s].child = Opened(n) + 1
      BY <2>2, <2>10, <2>13, <2>15, <3>0
    <3> QED
      BY <2>0, <2>3, <2>17, <3>0, <3>1, <3>3, <3>4, <3>5, StaysPlaced
  <2>18. WordsPlaced'
    <3>1. \A i \in 1..m : i \in 1..n \/ i = m
      BY <2>2
    <3> QED
      BY <2>4, <2>8, <2>17, <3>1 DEF WordsPlaced
  <2>19. NoOthers'
    <3> SUFFICES ASSUME NEW c \in DOMAIN configs', NEW s \in DOMAIN configs'[c],
                        NEW p \in DOMAIN configs'[c][s].tokens
                 PROVE  \E i \in DOMAIN tokens' :
                          /\ IsWord(i)' /\ BlockOf(i)' = c
                          /\ StatementOf(i)' = s /\ PositionOf(i)' = p
      BY DEF NoOthers
    <3>1. c \in 1..Len(configs) /\ s \in DOMAIN configs[c] /\ p \in DOMAIN configs[c][s].tokens
      <4>1. c # new
        BY <2>13
      <4>2. c \in 1..Len(configs)
        BY <2>0, <2>9, <2>13, <4>1
      <4>3. CASE c = b
        BY <2>0, <2>9, <2>10, <2>13, <4>2, <4>3
      <4>4. CASE c # b
        BY <2>13, <4>2, <4>4
      <4> QED
        BY <4>3, <4>4
    <3>2. PICK i \in 1..n : IsWord(i) /\ BlockOf(i) = c /\ StatementOf(i) = s /\ PositionOf(i) = p
      BY <2>1, <2>4, <2>9, <3>1 DEF NoOthers
    <3>3. i \in 1..m
      BY <2>2
    <3> QED
      BY <2>4, <2>8, <3>2, <3>3
  <2>20. Current'
    <3>1. Len(configs') = Opened(Len(tokens))'
      <4>1. Opened(Len(tokens))' = Opened(m)'
        BY <2>4 DEF Opened, Type
      <4> QED
        BY <2>5, <2>13, <2>15, <4>1
    <3>2. ASSUME NEW d \in 0..Len(config_stack') - 1
          PROVE  config_stack'[d + 1] = BlockAt(d, Len(tokens) + 1)'
      <4>1. Len(tokens') + 1 = n + 2
        BY <2>2, <2>4
      <4>2. BlockAt(d, Len(tokens) + 1)' = BlockAt(d, n + 2)'
        BY <4>1 DEF BlockAt, Opened, Type, Depth
      <4>3. Depth(m) \in Int
        <5>1. m \in Nat \ {0}
          BY <2>2
        <5> QED
          BY <5>1, EachAdds DEF Adds
      <4>4. CASE d = h
        <5>1. Depth(m) = d - 1 /\ config_stack'[d + 1] = new
          BY <2>2, <2>14, <4>3, <4>4
        <5> QED
          BY <2>6, <2>15, <4>2, <5>1
      <4>5. CASE d # h
        <5>1. d \in 0..h - 1 /\ d + 1 \in 1..h /\ Depth(m) # d - 1
          BY <2>2, <2>9, <2>14, <4>3, <4>5, SMTT(30)
        <5>2. config_stack[d + 1] = BlockAt(d, m)
          BY <2>0, <2>1, <5>1 DEF Current
        <5> QED
          BY <2>6, <2>14, <4>2, <5>1, <5>2
      <4> QED
        BY <4>4, <4>5
    <3>3. ASSUME NEW c \in DOMAIN configs'
          PROVE  Len(configs'[c]) = Cardinality(BegunIn(c, Len(tokens))')
      <4>1. BegunIn(c, Len(tokens))' = BegunIn(c, m)'
        BY <2>4 DEF BegunIn
      <4>2. CASE c = new
        <5>1. \A j \in 1..n : IsWord(j) => BlockOf(j) # new
          <6>1. \A j \in 1..n : IsWord(j) => BlockOf(j) \in 1..Len(configs)
            BY <2>1, <2>4, <2>9 DEF WordsPlaced, Placed
          <6>2. new \notin 1..Len(configs)
            BY <2>0, <2>9
          <6> QED
            BY <6>1, <6>2
        <5>2. BegunIn(c, n) = {}
          BY <4>2, <5>1 DEF BegunIn, Begins
        <5>3. Len(configs'[c]) = 0
          BY <2>13, <4>2
        <5> QED
          BY <2>7, <4>1, <5>2, <5>3, FS_EmptySet
      <4>3. CASE c # new
        <5>1. c \in 1..Len(configs)
          BY <2>0, <2>9, <2>13, <4>3
        <5>2. Len(configs'[c]) = Len(configs[c])
          BY <2>0, <2>10, <2>13, <5>1
        <5>3. Len(configs[c]) = Cardinality(BegunIn(c, n))
          BY <2>0, <2>1, <2>9, <5>1 DEF Current
        <5> QED
          BY <2>7, <4>1, <5>2, <5>3
      <4> QED
        BY <4>2, <4>3
    <3>4. last_token_type' # "normal"
      BY <1>2 DEF Go
    <3> QED
      BY <3>1, <3>2, <3>3, <3>4 DEF Current
  <2> QED
    BY <1>2, <2>18, <2>19, <2>20 DEF PlaceInv, Go
<1> QED
  BY <1>1, <1>2 DEF StartBlock

\* What is said of the text and the tree depends on nothing else.
LEMMA SamePlaces ==
  ASSUME tokens \in Seq(Token), UNCHANGED <<tokens, configs>>
  PROVE  /\ \A i \in Int : Opened(i)' = Opened(i) /\ PositionOf(i)' = PositionOf(i)
         /\ \A i \in Int : \A b : BlockAt(b, i)' = BlockAt(b, i) /\ BegunIn(b, i)' = BegunIn(b, i)
         /\ \A i \in Int : /\ (IsWord(i)' <=> IsWord(i)) /\ (Begins(i)' <=> Begins(i))
                           /\ BlockOf(i)' = BlockOf(i)
         /\ WordsPlaced' <=> WordsPlaced
         /\ NoOthers' <=> NoOthers
<1>0. DOMAIN tokens \subseteq Int /\ \A i \in Int : i + 1 \in Int /\ i - 1 \in Int
  BY LenProperties
<1>1. \A i \in Int : Type(i)' = Type(i)
  BY DEF Type
<1>2. \A i \in Int : /\ (IsWord(i)' <=> IsWord(i)) /\ Depth(i)' = Depth(i)
                     /\ \A u : Follows(i, u)' <=> Follows(i, u)
  <2> TAKE i \in Int
  <2>1. IsWord(i)' <=> IsWord(i)
    BY <1>1 DEF IsWord
  <2>2. \A u : {j \in 1..(i - 1) : Type(j)' = u} = {j \in 1..(i - 1) : Type(j) = u}
    BY <1>1
  <2>3. Depth(i)' = Depth(i)
    BY <2>2 DEF Depth
  <2>4. \A u : Follows(i, u)' <=> Follows(i, u)
    BY <1>0, <1>1 DEF Follows
  <2> QED
    BY <2>1, <2>3, <2>4
<1>3. \A i : Opened(i)' = Opened(i)
  BY DEF Opened, Type
<1>4. \A i \in Int : Begins(i)' <=> Begins(i)
  BY <1>0, <1>2 DEF Begins
<1>5. ASSUME NEW i \in Int, NEW d PROVE BlockAt(d, i)' = BlockAt(d, i)
  <2>1. {0} \cup {j \in 1..(i - 1) : Type(j)' = "start_block" /\ Depth(j)' = d - 1} =
          {0} \cup {j \in 1..(i - 1) : Type(j) = "start_block" /\ Depth(j) = d - 1}
    BY <1>1, <1>2
  <2>2. PICK m : m = Max({0} \cup {j \in 1..(i - 1) : Type(j) = "start_block"
                                                       /\ Depth(j) = d - 1})
    OBVIOUS
  <2>3. BlockAt(d, i) = Opened(m) /\ BlockAt(d, i)' = Opened(m)'
    BY <2>1, <2>2 DEF BlockAt
  <2> QED
    BY <1>3, <2>3
<1>6. \A i \in Int : BlockOf(i)' = BlockOf(i)
  BY <1>2, <1>5 DEF BlockOf
<1>7. \A i \in Int : PositionOf(i)' = PositionOf(i)
  <2> TAKE i \in Int
  <2>1. Row(i)' = Row(i)
    BY <1>2 DEF Row
  <2> QED
    BY <2>1 DEF PositionOf
<1>8. ASSUME NEW i \in Int, NEW b PROVE BegunIn(b, i)' = BegunIn(b, i)
  BY <1>4, <1>6 DEF BegunIn
<1>9. \A i \in Int : StatementOf(i)' = StatementOf(i)
  <2> TAKE i \in Int
  <2> QED
    BY <1>6, <1>8 DEF StatementOf
<1>10. \A i \in Int : Placed(i)' <=> Placed(i)
  <2> TAKE i \in Int
  <2>1. PICK b, s, p : b = BlockOf(i) /\ s = StatementOf(i) /\ p = PositionOf(i)
    OBVIOUS
  <2>2. b = BlockOf(i)' /\ s = StatementOf(i)' /\ p = PositionOf(i)'
    BY <1>6, <1>7, <1>9, <2>1
  <2> QED
    BY <1>0, <1>2, <1>3, <2>1, <2>2 DEF Placed
<1>11. WordsPlaced' <=> WordsPlaced
  BY <1>0, <1>2, <1>10 DEF WordsPlaced
<1>12. NoOthers' <=> NoOthers
  BY <1>0, <1>2, <1>6, <1>7, <1>9 DEF NoOthers
<1> QED
  BY <1>2, <1>3, <1>4, <1>5, <1>6, <1>7, <1>8, <1>11, <1>12

\* Every step keeps the words in their places.
LEMMA PlacesKept ==
  LexTypes /\ ParseInv /\ ReadInv /\ PlaceInv /\ [Next]_vars => PlaceInv'
<1> SUFFICES ASSUME LexTypes, ParseInv, ReadInv, PlaceInv, [Next]_vars
             PROVE  PlaceInv'
  OBVIOUS
<1>1. CASE UNCHANGED parseVars
  <2>1. /\ UNCHANGED <<tokens, configs, last_token_type, config_stack, result>>
        /\ tokens \in Seq(Token)
    BY <1>1 DEF parseVars, ParseInv, ParseTypes
  <2>2. Current => Current'
    <3>0. Len(tokens) \in Int
      BY <2>1, LenProperties
    <3>1. Opened(Len(tokens))' = Opened(Len(tokens))
      BY <2>1, <3>0, SamePlaces
    <3>2. Top' = Top /\ PositionOf(Len(tokens))' = PositionOf(Len(tokens))
      BY <2>1, <3>0, SamePlaces DEF Top
    <3>3. \A i \in Int : \A b : BlockAt(b, i)' = BlockAt(b, i) /\ BegunIn(b, i)' = BegunIn(b, i)
      BY <2>1, SamePlaces
    <3>4. PICK n \in Nat : n = Len(tokens) /\ n = Len(tokens')
      BY <2>1, LenProperties
    <3>5. (\A d : BlockAt(d, Len(tokens) + 1)' = BlockAt(d, n + 1))
          /\ \A b : BegunIn(b, Len(tokens))' = BegunIn(b, n)
      BY <2>1, <3>3, <3>4
    <3>6. \A i \in Int : (IsWord(i)' <=> IsWord(i)) /\ (Begins(i)' <=> Begins(i)) /\ BlockOf(i)' = BlockOf(i)
      BY <2>1, SamePlaces
    <3> HAVE Current
    <3>7. /\ Len(configs') = Opened(Len(tokens))'
          /\ \A d \in 0..Len(config_stack') - 1 :
               config_stack'[d + 1] = BlockAt(d, Len(tokens) + 1)'
          /\ \A b \in DOMAIN configs' : Len(configs'[b]) = Cardinality(BegunIn(b, Len(tokens))')
      BY <2>1, <3>1, <3>4, <3>5 DEF Current
    <3>8. last_token_type' = "normal" =>
            /\ Len(configs'[Top'][Len(configs'[Top'])].tokens) = PositionOf(Len(tokens))'
            /\ \E k \in 1..Len(tokens') : /\ Begins(k)' /\ BlockOf(k)' = Top'
                                          /\ \A j \in k..Len(tokens') : IsWord(j)'
      BY <2>1, <3>2, <3>6 DEF Current
    <3> QED
      BY <3>7, <3>8 DEF Current
  <2> QED
    BY <2>1, <2>2, SamePlaces DEF PlaceInv
<1>2. ASSUME result = "running", NEW type \in {"statement_end", "end_block", "eof", "error"},
             Deliver(type, <<>>), NEW outcome, Stop(outcome), outcome # "running"
      PROVE  PlaceInv'
  <2>1. UNCHANGED configs /\ type \in TokenType \ {"normal"} /\ <<>> \in Seq(Char)
    BY <1>2, EmptyText DEF Stop, TokenType
  <2>2. WordsPlaced' /\ NoOthers'
    BY <1>2, <2>1, NothingPlaced
  <2> QED
    BY <1>2, <2>2 DEF PlaceInv, Stop
<1>3. CASE Finish
  <2>1. CASE Error
    BY <1>2, <1>3, <2>1 DEF Finish, Error
  <2>2. CASE EndOfFile
    BY <1>2, <1>3, <2>2 DEF Finish, EndOfFile
  <2> QED
    BY <1>3, <2>1, <2>2 DEF Finish
<1>4. CASE CannotOpen
  <2>1. WordsPlaced' /\ NoOthers' /\ result' = "false"
    BY <1>4, SamePlaces DEF CannotOpen, Stop, PlaceInv, ParseInv, ParseTypes
  <2> QED
    BY <2>1 DEF PlaceInv
<1>5. ASSUME NEW c \in Char, Structure(c) PROVE PlaceInv'
  <2>0. result = "running"
    BY <1>5 DEF Structure, Get
  <2>1. CASE StartBlock
    BY <2>0, <2>1, StartBlockPlaces
  <2>2. CASE StatementEnd
    <3>1. CASE Stop("false")
      BY <1>2, <2>0, <2>2, <3>1 DEF StatementEnd
    <3>2. CASE Go("statement_end") /\ UNCHANGED <<configs, config_stack>>
      BY <2>0, <2>2, <3>2, OtherPlaces DEF StatementEnd
    <3> QED
      BY <2>2, <3>1, <3>2 DEF StatementEnd
  <2>3. CASE EndBlock
    <3>1. CASE Stop("false") \/ Stop("undefined")
      BY <1>2, <2>0, <2>3, <3>1 DEF EndBlock
    <3>2. CASE /\ config_stack # <<>> /\ Go("end_block")
               /\ config_stack' = Pop(config_stack) /\ UNCHANGED configs
      BY <2>0, <2>3, <3>2, OtherPlaces DEF EndBlock
    <3> QED
      BY <2>3, <3>1, <3>2 DEF EndBlock
  <2> QED
    BY <1>5, <2>1, <2>2, <2>3 DEF Structure
<1>6. ASSUME NEW c \in Char, CloseQuote(c) PROVE PlaceInv'
  <2>1. Append(value, c) \in Seq(Char) /\ result = "running"
    BY <1>6, AppendNew DEF LexTypes, CloseQuote, Get
  <2> QED
    BY <1>6, <2>1, WordPlaces DEF CloseQuote
<1>7. ASSUME NEW c \in Char, EndWord(c) PROVE PlaceInv'
  BY <1>7, WordPlaces DEF EndWord, PutBack, LexTypes
<1> QED
  BY <1>1, <1>3, <1>4, <1>5, <1>6, <1>7
     DEF Next, Read, Skip, Begin, Extend, EndComment, vars

\* Whatever the file, and wherever Parse gives up: the tree has each word that
\* Parse was given in the statement and the block it was written in, a block
\* under the statement it follows, and nothing else.
THEOREM TreeHasTokens == Spec => []TreeFollowsTokens
<1>1. Init => PlaceInv
  <2> SUFFICES ASSUME Init PROVE PlaceInv
    OBVIOUS
  <2>1. /\ tokens = <<>> /\ configs = << <<>> >> /\ config_stack = <<1>>
        /\ last_token_type = "start" /\ result = "running"
    BY DEF Init
  <2>2. /\ DOMAIN tokens = {} /\ Len(tokens) = 0 /\ DOMAIN configs = {1} /\ configs[1] = <<>>
        /\ Len(configs) = 1 /\ Len(config_stack) = 1 /\ config_stack[1] = 1
    BY <2>1
  <2>3. Opened(0) = 1
    <3>1. {k \in 1..0 : Type(k) = "start_block"} = {}
      OBVIOUS
    <3> QED
      BY <3>1, FS_EmptySet DEF Opened
  <2>4. BlockAt(0, 1) = 1
    <3>1. {0} \cup {j \in 1..(1 - 1) : Type(j) = "start_block" /\ Depth(j) = 0 - 1} = {0}
      OBVIOUS
    <3>2. Max({0}) = 0
      BY MaxIs
    <3> QED
      BY <2>3, <3>1, <3>2 DEF BlockAt
  <2>5. \A b : BegunIn(b, 0) = {}
    BY DEF BegunIn
  <2>6. Current
    <3>1. \A d \in 0..Len(config_stack) - 1 : d = 0
      BY <2>2
    <3> QED
      <4>1. Len(configs) = Opened(Len(tokens))
        BY <2>2, <2>3
      <4>2. \A d \in 0..Len(config_stack) - 1 : config_stack[d + 1] = BlockAt(d, Len(tokens) + 1)
        BY <2>2, <2>4, <3>1
      <4>3. \A b \in DOMAIN configs : Len(configs[b]) = Cardinality(BegunIn(b, Len(tokens)))
        <5>1. \A b : Cardinality(BegunIn(b, Len(tokens))) = 0
          BY <2>2, <2>5, FS_EmptySet
        <5> QED
          BY <2>2, <5>1
      <4> QED
        BY <2>1, <4>1, <4>2, <4>3 DEF Current
  <2>7. WordsPlaced /\ NoOthers
    BY <2>2 DEF WordsPlaced, NoOthers
  <2> QED
    BY <2>6, <2>7 DEF PlaceInv
<1>2. LexTypes /\ ParseInv /\ ReadInv /\ PlaceInv /\ [Next]_vars => PlaceInv'
  BY PlacesKept
<1>3. PlaceInv => TreeFollowsTokens
  BY DEF PlaceInv, WordsPlaced, NoOthers, TreeFollowsTokens
<1> QED
  BY <1>1, <1>2, <1>3, ParserInvariant, ReadInvariant, PTL DEF Spec
=============================================================================
