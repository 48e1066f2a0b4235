--------------------------- MODULE ParserProcessor ---------------------------
(***************************************************************************)
(* The other reader of a parsed configuration, ParserProcessor: it scans   *)
(* all tokens for a key and takes the token that follows.  Each operation  *)
(* is a step; what it returns, or throws, is answer.                       *)
(***************************************************************************)
EXTENDS Configuration, SequencesExt

CONSTANT KeyPrefix   \* what values_like_key is asked for

VARIABLES config, call, answer

vars == <<config, call, answer>>

Answer(kind, value) == [kind |-> kind, value |-> value]

\* The keys themselves.
AfterKey_self(words, key, pending) == SelectSeq(words, LAMBDA word : word = key)

\* The tokens after a key; pending says that the token before them was one.
AfterKey(words, key, pending) ==
  FoldLeftDomain(LAMBDA found, j :
      IF (IF j = 1 THEN pending ELSE words[j - 1] = key)
      THEN Append(found, words[j]) ELSE found,
    <<>>, words)

\* values_for_key: the flag outlives a statement, not a block.
RECURSIVE ValuesFrom(_, _, _)
ValuesFrom(stmts, key, pending) ==
  IF stmts = <<>> THEN <<>>
  ELSE LET stmt == Head(stmts)
       IN  AfterKey(stmt.tokens, key, pending)
             \o (IF stmt.child = NoBlock THEN <<>> ELSE ValuesFrom(stmt.child[1], key, FALSE))
             \o ValuesFrom(Tail(stmts), key, Last(stmt.tokens) = key)

values_for_key(stmts, key) == ValuesFrom(stmts, key, FALSE)

\* value_for_key returns results[0], which must be there.
First_last(results) == results[Len(results)]
First(results) == results[1]

GetPort ==
  /\ call' = "get_port" /\ UNCHANGED config
  /\ LET results == values_for_key(config, "listen")
     IN  \/ results = <<>> /\ answer' = Answer("undefined", 0)
         \/ /\ results # <<>> /\ First(results) \notin DOMAIN Number
            /\ answer' = Answer("invalid_argument", 0)
         \/ /\ results # <<>> /\ First(results) \in DOMAIN Number
            /\ LET port == Number[First(results)]
               IN  answer' = IF port <= 0 \/ port > 65536 THEN Answer("ParsedValueError", 0)
                             ELSE Answer("port", UnsignedShort(port))

\* unordered_map::insert
Insert(map, key, value) ==
  [k \in DOMAIN map \cup {key} |-> IF k \in DOMAIN map THEN map[k] ELSE value]

\* A scan that does not reset the flags once it has stored a path.
Scan_stale(f, word, child) ==
  IF f.handler /\ f.static
  THEN LET roots == IF child = NoBlock THEN <<>> ELSE values_for_key(child[1], "root")
       IN  [f EXCEPT !.defined = @ /\ roots # <<>>,
                     !.map = IF roots = <<>> THEN @ ELSE Insert(@, word, First(roots))]
  ELSE IF word = "handler" THEN [f EXCEPT !.handler = TRUE]
  ELSE [f EXCEPT !.static = @ \/ word = "static"]

\* get_static_handlers: what one token does to the flags and the results.
Scan(f, word, child) ==
  IF f.handler /\ f.static
  THEN LET roots == IF child = NoBlock THEN <<>> ELSE values_for_key(child[1], "root")
       IN  [handler |-> FALSE, static |-> FALSE,
            defined |-> f.defined /\ roots # <<>>,
            map |-> IF roots = <<>> THEN f.map ELSE Insert(f.map, word, First(roots))]
  ELSE IF word = "handler" THEN [f EXCEPT !.handler = TRUE]
  ELSE IF word = "static" /\ f.handler THEN [f EXCEPT !.static = TRUE]
  ELSE [f EXCEPT !.handler = FALSE]

GetStaticHandlers ==
  /\ call' = "get_static_handlers" /\ UNCHANGED config
  /\ LET start == [handler |-> FALSE, static |-> FALSE, defined |-> TRUE, map |-> <<>>]
         end == FoldLeft(LAMBDA f, stmt :
                    FoldLeft(LAMBDA g, word : Scan(g, word, stmt.child), f, stmt.tokens),
                  start, config)
     IN  answer' = IF end.defined THEN Answer("map", end.map) ELSE Answer("undefined", 0)

GetHandlersLike(key) ==
  /\ UNCHANGED config /\ answer' = Answer("paths", values_for_key(config, key))

GetEchoHandlers == call' = "get_echo_handlers" /\ GetHandlersLike("echo")
GetHelloworldHandlers ==
  call' = "get_helloworld_handlers" /\ GetHandlersLike("helloworld")

\* value_has_prefix
value_has_prefix(value, prefix) ==
  Len(prefix) <= Len(value) /\ SubSeq(value, 1, Len(prefix)) = prefix

\* The value is stored after the key has moved on to it.
ScanLike_late(f, word, prefix) ==
  LET key == IF value_has_prefix(word, prefix) THEN word ELSE ""
  IN  [f EXCEPT !.key = key, !.map = IF key = "" THEN @ ELSE Insert(@, key, word)]

\* values_like_key: what one token does to prev_token_key and the results.
ScanLike(f, word, prefix) ==
  [f EXCEPT !.map = IF f.key = "" THEN @ ELSE Insert(@, f.key, word),
            !.key = IF value_has_prefix(word, prefix) THEN word ELSE ""]

\* A block is searched before its statement's tokens, with the same results;
\* a search that ends with none deletes them, and the outer one goes on.
RECURSIVE LikeFrom(_, _, _)
LikeFrom(stmts, prefix, f) ==
  IF stmts = <<>> \/ f.deleted THEN f
  ELSE LET stmt == Head(stmts)
           inner == IF stmt.child = NoBlock THEN f
                    ELSE LikeFrom(stmt.child[1], prefix, [f EXCEPT !.key = ""])
       IN  IF inner.deleted \/ (stmt.child # NoBlock /\ inner.map = <<>>)
           THEN [f EXCEPT !.deleted = TRUE]
           ELSE LikeFrom(Tail(stmts), prefix,
                  FoldLeft(LAMBDA g, word : ScanLike(g, word, prefix),
                           [f EXCEPT !.map = inner.map], stmt.tokens))

ValuesLikeKey ==
  /\ call' = "values_like_key" /\ UNCHANGED config
  /\ \E prefix \in KeyPrefix :
       LET end == LikeFrom(config, prefix, [map |-> <<>>, key |-> "", deleted |-> FALSE])
       IN  answer' = [kind |-> IF end.deleted THEN "undefined"
                               ELSE IF end.map = <<>> THEN "NULL" ELSE "map",
                      value |-> end.map, prefix |-> prefix]

Init == config \in Config /\ call = "constructor" /\ answer = Answer("none", 0)

Next ==
  /\ call = "constructor"
  /\ \/ GetPort \/ GetStaticHandlers \/ GetEchoHandlers \/ GetHelloworldHandlers
     \/ ValuesLikeKey

Spec == Init /\ [][Next]_vars
=============================================================================
