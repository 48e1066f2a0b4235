------------------------------- MODULE Startup -------------------------------
(***************************************************************************)
(* main up to the accept loop: it parses the file it is given, the         *)
(* constructor of Server calls Config::get_port and Config::get_handlers,  *)
(* Server::run opens the acceptor.  Each pass of a loop is a step.         *)
(***************************************************************************)
EXTENDS Configuration

VARIABLES
  process,    \* "starting", "serving", "exited", "undefined"
  call,       \* "main", "get_port", "get_handlers" or "run"
  config,     \* Config::config
  i,          \* the loop variable of the call
  port_,      \* Server::port_
  map         \* the local of get_handlers, then Server::handlers_

vars == <<process, call, config, i, port_, map>>

Init ==
  /\ process = "starting" /\ call = "main"
  /\ config = <<>> /\ i = 1
  /\ port_ = 0 /\ map = <<>>

\* The loop variable goes on where the last call left it.
Call_on(next) == call' = next /\ i' = i
Call(next) == call' = next /\ i' = 1

Stop(how) == process' = how /\ UNCHANGED <<call, i>>

Left == process = "starting" /\ i <= Len(config)
tokens == config[i].tokens

\* main wants one argument. get_config leaves what Parse did, whatever it
\* returned.
Main ==
  /\ process = "starting" /\ call = "main"
  /\ \/ Stop("exited") /\ UNCHANGED config
     \/ config' \in Config /\ Call("get_port") /\ UNCHANGED process
  /\ UNCHANGED <<port_, map>>

Listens(words) == words[1] = "listen"

\* One pass of the loop of Config::get_port: stoi throws on what is no number.
GetPort ==
  /\ Left /\ call = "get_port"
  /\ \/ ~Listens(tokens) /\ i' = i + 1 /\ UNCHANGED <<process, call, port_>>
     \/ Listens(tokens) /\ Len(tokens) = 1 /\ Stop("undefined") /\ UNCHANGED port_
     \/ /\ Listens(tokens) /\ Len(tokens) > 1 /\ tokens[2] \notin DOMAIN Number
        /\ Stop("exited") /\ UNCHANGED port_
     \/ /\ Listens(tokens) /\ Len(tokens) > 1 /\ tokens[2] \in DOMAIN Number
        /\ port_' = UnsignedShort(Number[tokens[2]])
        /\ Call("get_handlers") /\ UNCHANGED process
  /\ UNCHANGED <<config, map>>

\* No statement listens.
NoPort ==
  /\ process = "starting" /\ i > Len(config) /\ call = "get_port"
  /\ port_' = 0 /\ Call("get_handlers")
  /\ UNCHANGED <<process, config, map>>

\* map[path] = handler
Assign_insert(m, path, handler) ==
  [p \in DOMAIN m \cup {path} |-> IF p \in DOMAIN m THEN m[p] ELSE handler]
Assign(m, path, handler) ==
  [p \in DOMAIN m \cup {path} |-> IF p = path THEN handler ELSE m[p]]

\* One pass of the loop of Config::get_handlers, Configure included.
GetHandlers ==
  /\ Left /\ call = "get_handlers"
  /\ IF tokens[1] = "handler" /\ Len(tokens) < 3 THEN Stop("undefined") /\ UNCHANGED map
     ELSE IF tokens[1] # "handler" \/ tokens[2] \notin HandlerType
       THEN i' = i + 1 /\ UNCHANGED <<process, call, map>>
     ELSE \/ /\ Configurable(tokens[2], config[i].child)
             /\ map' = Assign(map, tokens[3], Configure(tokens[2], config[i].child))
             /\ i' = i + 1 /\ UNCHANGED <<process, call>>
          \/ /\ ~Configurable(tokens[2], config[i].child)
             /\ Stop("undefined") /\ UNCHANGED map
  /\ UNCHANGED <<config, port_>>

HandlersDone ==
  /\ process = "starting" /\ i > Len(config) /\ call = "get_handlers"
  /\ Call("run") /\ UNCHANGED <<process, config, port_, map>>

\* The acceptor binds, or throws: the port is taken, or not for this user.
Listen ==
  /\ process = "starting" /\ call = "run"
  /\ process' \in {"serving", "exited"}
  /\ UNCHANGED <<call, config, i, port_, map>>

Next == Main \/ GetPort \/ NoPort \/ GetHandlers \/ HandlersDone \/ Listen

Spec == Init /\ [][Next]_vars
=============================================================================
