---------------------------- MODULE Configuration ----------------------------
(***************************************************************************)
(* A parsed configuration as its two readers see it, and how a handler is  *)
(* configured by its block.  A statement has tokens, at least one, and a   *)
(* child: NoBlock, or <<statements>>.  Parse leaves such trees, whatever   *)
(* it returns, and main goes on with them.                                 *)
(***************************************************************************)
EXTENDS Integers, Sequences, FiniteSetsExt

CONSTANTS
  Config,   \* the configurations considered
  Number    \* the tokens stoi reads, each with its value

NoBlock == <<>>

Statement(tokens, child) == [tokens |-> tokens, child |-> child]

IsSequence(s) == s \in Seq({s[i] : i \in DOMAIN s})

\* Parse leaves vectors of statements, each with a vector of tokens.
AreStatements(stmts) ==
  /\ IsSequence(stmts)
  /\ \A i \in DOMAIN stmts : IsSequence(stmts[i].tokens) /\ Len(stmts[i].tokens) > 0

ASSUME ConfigAssumption ==
  \A config \in Config :
    /\ AreStatements(config)
    /\ \A i \in DOMAIN config :
         config[i].child # NoBlock => AreStatements(config[i].child[1])
ASSUME NumberAssumption == \A token \in DOMAIN Number : Number[token] \in Int

\* The int as it is.
UnsignedShort_wide(n) == n

\* The conversion of an int to an unsigned short.
UnsignedShort(n) == n % 65536

\* StaticHandler::Configure takes the second token of the first "root"
\* statement, ProxyHandler::Configure those of the last "host" statement that
\* has enough of them.
Roots(stmts) == {j \in DOMAIN stmts : stmts[j].tokens[1] = "root"}
Hosts(stmts) ==
  {j \in DOMAIN stmts : Len(stmts[j].tokens) > 2 /\ stmts[j].tokens[1] = "host"}

RootOf(stmts) ==
  IF Roots(stmts) = {} THEN "" ELSE stmts[Min(Roots(stmts))].tokens[2]
UpstreamOf(stmts) ==
  IF Hosts(stmts) = {} THEN <<"", "">>
  ELSE SubSeq(stmts[Max(Hosts(stmts))].tokens, 2, 3)

Echo == [type |-> "echo", root |-> "", upstream |-> <<"", "">>]
Static(root) == [Echo EXCEPT !.type = "static", !.root = root]
Proxy(upstream) == [Echo EXCEPT !.type = "proxy", !.upstream = upstream]

HandlerType == {"static", "echo", "proxy"}

Configure(type, child) ==
  CASE type = "echo" -> Echo
    [] type = "static" -> Static(RootOf(child[1]))
    [] type = "proxy" -> Proxy(UpstreamOf(child[1]))

\* Configure reads nothing that is not there: the block of a null child, the
\* second token of a "root" statement that has one.
Configurable(type, child) ==
  \/ type = "echo"
  \/ type = "proxy" /\ child # NoBlock
  \/ /\ type = "static" /\ child # NoBlock
     /\ Roots(child[1]) # {} => Len(child[1][Min(Roots(child[1]))].tokens) > 1
=============================================================================
