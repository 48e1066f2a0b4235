---------------------- MODULE ParserProcessorProperties ----------------------
(***************************************************************************)
(* ParserProcessor reads a configuration as Config does.                   *)
(***************************************************************************)
EXTENDS ParserProcessor

Server == INSTANCE StartupProperties WITH
  process <- "serving", call <- "run", i <- 1, port_ <- 0, map <- <<>>

Keyword == {"listen", "handler", "static", "echo", "helloworld", "root"}

Values(words) == {words[j] : j \in DOMAIN words \ {1}}

\* A plain block: keywords are where the documented format has them.
PlainBlock(child) ==
  child # NoBlock => \A j \in DOMAIN child[1] :
    /\ child[1][j].tokens[1] \in {"root", "host", "empty"}
    /\ Len(child[1][j].tokens) > 1 \/ child[1][j].tokens[1] = "empty"
    /\ child[1][j].child = NoBlock /\ Values(child[1][j].tokens) \cap Keyword = {}

PlainStatement(stmt) ==
  /\ PlainBlock(stmt.child)
  /\ \/ stmt.tokens[1] = "listen" /\ Len(stmt.tokens) = 2 /\ stmt.tokens[2] \notin Keyword
     \/ /\ stmt.tokens[1] = "handler" /\ Len(stmt.tokens) = 3 /\ stmt.child # NoBlock
        /\ stmt.tokens[3] \notin Keyword /\ Values(stmt.tokens) \cap {"root", "listen"} = {}

Plain == \A j \in DOMAIN config : PlainStatement(config[j])

OneStatementPerPath == \A j, k \in Server!Known(config) :
  config[j].tokens[3] = config[k].tokens[3] => j = k

\* In a plain configuration with a "listen", both readers take the same port,
\* and this one refuses only what is no port.
SamePort ==
  (answer.kind # "none" /\ call = "get_port" /\ Plain /\ Server!Listening(config) # {}) =>
    LET token == config[Min(Server!Listening(config))].tokens[2]
    IN  CASE answer.kind = "port" -> answer.value = Server!PortOf(config)
          [] answer.kind = "invalid_argument" -> token \notin DOMAIN Number
          [] answer.kind = "ParsedValueError" -> Number[token] \notin 1..65535
          [] OTHER -> FALSE

StaticRoots ==
  LET all == Server!HandlersOf(config)
      static == {path \in DOMAIN all : all[path].type = "static"}
  IN  [path \in static |-> all[path].root]

\* In a plain configuration that names each path once and gives each static
\* handler a root, both readers find the same static handlers.
SameStaticHandlers ==
  (/\ call = "get_static_handlers" /\ Plain /\ OneStatementPerPath
   /\ \A path \in DOMAIN StaticRoots : StaticRoots[path] # "") =>
     answer = Answer("map", StaticRoots)

\* In a plain configuration the echo handlers of both are the same.
SameEchoHandlers ==
  (call = "get_echo_handlers" /\ Plain /\ OneStatementPerPath) =>
    ToSet(answer.value) =
      {path \in Server!Paths(config) : Server!HandlersOf(config)[path].type = "echo"}

-----------------------------------------------------------------------------
\* The tokens of statements one after the other, and the keys among them that
\* have the prefix and a token after them.
Words(stmts) == FlattenSeq([j \in 1..Len(stmts) |-> stmts[j].tokens])
Keys(words, prefix) ==
  {j \in 1..Len(words) - 1 : value_has_prefix(words[j], prefix)}

\* Up to the block of statement j no key was found.
NoneFoundUpTo(j, prefix) ==
  /\ Keys(Words(SubSeq(config, 1, j - 1)), prefix) = {}
  /\ \A k \in 1..j : config[k].child # NoBlock =>
       Keys(Words(config[k].child[1]), prefix) = {}

\* values_like_key uses results it has deleted exactly when some block ends
\* before a key was found, in it or before it; otherwise each key of a flat
\* configuration has the token after it.
LikeKeysFound ==
  call = "values_like_key" =>
    LET prefix == answer.prefix
        words == Words(config)
        flat == \A j \in DOMAIN config : config[j].child = NoBlock
    IN  /\ answer.kind = "undefined" <=>
             \E j \in DOMAIN config : config[j].child # NoBlock /\ NoneFoundUpTo(j, prefix)
        /\ answer.kind = "NULL" => Keys(words, prefix) = {}
        /\ flat => /\ DOMAIN answer.value = {words[j] : j \in Keys(words, prefix)}
                   /\ \A key \in DOMAIN answer.value : \E j \in Keys(words, prefix) :
                        words[j] = key /\ words[j + 1] = answer.value[key]
=============================================================================
