-------------------------- MODULE StartupProperties --------------------------
(***************************************************************************)
(* What the server that starts is configured to, read from the whole       *)
(* configuration at once.                                                  *)
(***************************************************************************)
EXTENDS Startup

\* The statements of the root block that name a handler the server has.
Known(conf) ==
  {j \in DOMAIN conf : /\ conf[j].tokens[1] = "handler" /\ Len(conf[j].tokens) > 2
                       /\ conf[j].tokens[2] \in HandlerType}

Paths(conf) == {conf[j].tokens[3] : j \in Known(conf)}

Listening(conf) == {j \in DOMAIN conf : conf[j].tokens[1] = "listen"}

\* A path has the handler of the last statement that names it.
HandlersOf(conf) ==
  [path \in Paths(conf) |->
     LET stmt == conf[Max({j \in Known(conf) : conf[j].tokens[3] = path})]
     IN  Configure(stmt.tokens[2], stmt.child)]

\* The port of the first "listen", 0 without one.
PortOf(conf) ==
  IF Listening(conf) = {} THEN 0
  ELSE UnsignedShort(Number[conf[Min(Listening(conf))].tokens[2]])

\* Every variable of startup has its type; port_ is an unsigned short.
TypeOK ==
  /\ process \in {"starting", "serving", "exited", "undefined"}
  /\ call \in {"main", "get_port", "get_handlers", "run"}
  /\ config \in Config \cup {<<>>} /\ i \in 1..Len(config) + 1
  /\ port_ \in Nat /\ port_ < 65536
  /\ \A path \in DOMAIN map : map[path].type \in HandlerType

\* A server that serves listens where its configuration says, and dispatches to
\* the handlers the configuration says, each configured by its own block.
ServesAsConfigured ==
  process = "serving" => port_ = PortOf(config) /\ map = HandlersOf(config)

\* The first "listen" has no value, or some handler statement lacks its type,
\* its path, its block or the value of its root.
Malformed(conf) ==
  \/ Listening(conf) # {} /\ Len(conf[Min(Listening(conf))].tokens) = 1
  \/ \E j \in DOMAIN conf : conf[j].tokens[1] = "handler" /\ Len(conf[j].tokens) < 3
  \/ \E j \in Known(conf) : ~Configurable(conf[j].tokens[2], conf[j].child)

\* Startup reads past a statement, or through a null block, only for one of
\* these malformed statements; and no server serves one of them.
MalformedNeverServed ==
  /\ process = "undefined" => Malformed(config)
  /\ process = "serving" => ~Malformed(config)
=============================================================================
