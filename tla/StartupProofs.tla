----------------------------- MODULE StartupProofs -----------------------------
(***************************************************************************)
(* Proofs, for all configurations and numbers, of what a server that       *)
(* serves took from its configuration.                                     *)
(***************************************************************************)
EXTENDS StartupProperties, SequenceTheorems, TLAPS

\* Statement j has nothing that startup would read past.
Sound(conf, j) ==
  /\ conf[j].tokens[1] = "handler" => Len(conf[j].tokens) > 2
  /\ j \in Known(conf) => Configurable(conf[j].tokens[2], conf[j].child)

\* The port was read from the first statement that listens.
PortRead ==
  /\ port_ = PortOf(config)
  /\ Listening(config) # {} => Len(config[Min(Listening(config))].tokens) # 1

\* Statement j is the last one, of those before statement k, with its path.
LastOfPath(conf, j, k) ==
  /\ j \in Known(conf) /\ j < k
  /\ \A l \in Known(conf) :
       l < k /\ conf[l].tokens[3] = conf[j].tokens[3] => l <= j

\* The map after the statements before statement k: each path named has the
\* handler of the last one that names it.
MapRead(k) ==
  /\ map = [path \in DOMAIN map |-> map[path]]
  /\ \A j \in Known(config) : j < k => config[j].tokens[3] \in DOMAIN map
  /\ \A path \in DOMAIN map : \E j \in DOMAIN config :
       /\ LastOfPath(config, j, k) /\ config[j].tokens[3] = path
       /\ map[path] = Configure(config[j].tokens[2], config[j].child)
  /\ \A j \in DOMAIN config : j < k => Sound(config, j)

\* The types, one variable or two at a time.
ProcessType ==
  /\ process \in {"starting", "serving", "exited", "undefined"}
  /\ call \in {"main", "get_port", "get_handlers", "run"}
ConfigType == config \in Config \cup {<<>>} /\ i \in 1..Len(config) + 1
Short == {n \in Nat : n < 65536}
MapType == \A path \in DOMAIN map : map[path].type \in HandlerType
StartTypes == ProcessType /\ ConfigType /\ port_ \in Short /\ MapType

\* How far startup is, and what it has read so far.
StartInv ==
  /\ StartTypes
  /\ call = "main" => config = <<>> /\ process \in {"starting", "exited"}
  /\ call \in {"main", "get_port"} => map = <<>>
  /\ call = "get_port" => \A j \in DOMAIN config : j < i => ~Listens(config[j].tokens)
  /\ call \in {"get_handlers", "run"} => PortRead
  /\ call = "get_handlers" => MapRead(i)
  /\ call = "run" => MapRead(Len(config) + 1)
  /\ process = "serving" => call = "run"
  /\ process = "undefined" => Malformed(config)

-----------------------------------------------------------------------------
(* The configuration. *)

\* TypeOK says the types of the variables.
LEMMA TypesSplit == TypeOK <=> StartTypes
BY DEF TypeOK, StartTypes, ProcessType, ConfigType, MapType, Short

\* What the constants' assumption says of a sequence.
LEMMA Sequences ==
  ASSUME NEW s, IsSequence(s)
  PROVE  Len(s) \in Nat /\ DOMAIN s = 1..Len(s)
BY LenProperties DEF IsSequence

\* The statements of the root block.
LEMMA Statements ==
  ASSUME StartTypes
  PROVE  /\ Len(config) \in Nat /\ DOMAIN config = 1..Len(config)
         /\ \A j \in DOMAIN config :
              Len(config[j].tokens) \in Nat /\ Len(config[j].tokens) > 0
<1>1. CASE config \in Config
  <2>1. AreStatements(config)
    BY <1>1, ConfigAssumption
  <2>2. Len(config) \in Nat /\ DOMAIN config = 1..Len(config)
    BY <2>1, Sequences DEF AreStatements
  <2>3. \A j \in DOMAIN config :
          Len(config[j].tokens) \in Nat /\ Len(config[j].tokens) > 0
    BY <2>1, Sequences DEF AreStatements
  <2> QED
    BY <2>2, <2>3
<1>2. CASE config = <<>>
  <2>1. Len(<<>>) = 0 /\ DOMAIN <<>> = 1..0
    OBVIOUS
  <2> QED
    BY <1>2, <2>1
<1>3. config \in Config \/ config = <<>>
  BY DEF StartTypes, ProcessType, ConfigType, MapType
<1> QED
  BY <1>1, <1>2, <1>3

\* An int converted to an unsigned short is one.
LEMMA ShortIsShort == \A n \in Int : UnsignedShort(n) \in Short
BY DEF UnsignedShort, Short

\* A handler configured by a statement has the statement's type.
LEMMA TypeOfConfigured ==
  \A type \in HandlerType : \A child : Configure(type, child).type = type
BY DEF HandlerType, Configure, Echo, Static, Proxy

\* The first statement that listens.
LEMMA FirstListens ==
  ASSUME StartTypes, i \in DOMAIN config, Listens(config[i].tokens),
         \A j \in DOMAIN config : j < i => ~Listens(config[j].tokens)
  PROVE  i \in Listening(config) /\ Min(Listening(config)) = i
<1>1. Len(config) \in Nat /\ DOMAIN config = 1..Len(config)
  BY Statements
<1>2. i \in Listening(config) /\ \A j \in Listening(config) : j \in Int /\ i <= j
  BY <1>1 DEF Listening, Listens
<1> QED
  BY <1>2 DEF Min

\* The paths of a map that was read name every handler there is.
LEMMA MapIsHandlers ==
  ASSUME StartTypes, MapRead(Len(config) + 1)
  PROVE  map = HandlersOf(config)
<1>1. Len(config) \in Nat /\ DOMAIN config = 1..Len(config)
  BY Statements
<1>2. \A j \in DOMAIN config : j \in Int /\ j < Len(config) + 1
  BY <1>1
<1>3. DOMAIN map = Paths(config)
  <2>1. ASSUME NEW path \in DOMAIN map PROVE path \in Paths(config)
    BY DEF MapRead, LastOfPath, Paths
  <2>2. ASSUME NEW path \in Paths(config) PROVE path \in DOMAIN map
    BY <1>2 DEF MapRead, Paths, Known
  <2> QED
    BY <2>1, <2>2
<1>4. ASSUME NEW path \in DOMAIN map
      PROVE  map[path] = HandlersOf(config)[path]
  <2>1. PICK j \in DOMAIN config :
          /\ LastOfPath(config, j, Len(config) + 1) /\ config[j].tokens[3] = path
          /\ map[path] = Configure(config[j].tokens[2], config[j].child)
    BY DEF MapRead
  <2> DEFINE same == {l \in Known(config) : config[l].tokens[3] = path}
  <2>2. j \in same /\ \A l \in same : l \in Int /\ l <= j
    BY <1>2, <2>1 DEF LastOfPath, Known
  <2>3. Max(same) = j
    BY <2>2 DEF Max
  <2> HIDE DEF same
  <2>4. HandlersOf(config)[path] =
          Configure(config[Max(same)].tokens[2], config[Max(same)].child)
    BY <1>3 DEF HandlersOf, same
  <2> QED
    BY <2>1, <2>3, <2>4
<1>5. /\ map = [path \in DOMAIN map |-> map[path]]
      /\ HandlersOf(config) = [path \in Paths(config) |-> HandlersOf(config)[path]]
  BY DEF MapRead, HandlersOf
<1> QED
  BY <1>3, <1>4, <1>5

\* Nothing that is read is malformed.
LEMMA SoundIsWellFormed ==
  ASSUME StartTypes, PortRead, \A j \in DOMAIN config : Sound(config, j)
  PROVE  ~Malformed(config)
<1>1. \A j \in Known(config) : j \in DOMAIN config
  BY DEF Known
<1>2. \A j \in DOMAIN config : Len(config[j].tokens) \in Nat
  BY Statements
<1>3. ~\E j \in DOMAIN config : config[j].tokens[1] = "handler" /\ Len(config[j].tokens) < 3
  BY <1>2 DEF Sound
<1>4. ~\E j \in Known(config) : ~Configurable(config[j].tokens[2], config[j].child)
  BY <1>1 DEF Sound
<1> QED
  BY <1>3, <1>4 DEF Malformed, PortRead

-----------------------------------------------------------------------------
(* get_handlers. *)

\* Before the first statement the map is empty.
LEMMA EmptyMap ==
  ASSUME StartTypes, map = <<>>
  PROVE  MapRead(1)
<1>1. \A j \in DOMAIN config : ~(j < 1)
  BY Statements
<1>2. DOMAIN map = {} /\ map = [path \in DOMAIN map |-> map[path]]
  <2>1. DOMAIN <<>> = {} /\ <<>> = [path \in {} |-> <<>>[path]]
    OBVIOUS
  <2> QED
    BY <2>1
<1>3. \A j \in Known(config) : j \in DOMAIN config
  BY DEF Known
<1> QED
  BY <1>1, <1>2, <1>3 DEF MapRead

\* What is known of the statements before one, when that one is known too.
LEMMA OneFurther ==
  ASSUME StartTypes, i \in DOMAIN config
  PROVE  /\ i \in Int
         /\ \A j \in DOMAIN config : j \in Int /\ (j < i + 1 <=> j < i \/ j = i)
BY Statements

\* A statement that adds no handler.
LEMMA MapSkips ==
  ASSUME StartTypes, i \in DOMAIN config, MapRead(i),
         i \notin Known(config), Sound(config, i)
  PROVE  MapRead(i + 1)
<1>1. \A j \in Known(config) : j \in DOMAIN config /\ j # i
  BY DEF Known
<1>2. \A j \in Known(config) : j < i + 1 <=> j < i
  BY <1>1, OneFurther
<1>3. \A j : LastOfPath(config, j, i) => LastOfPath(config, j, i + 1)
  BY <1>2 DEF LastOfPath
<1>4. \A j \in DOMAIN config : j < i + 1 => Sound(config, j)
  BY OneFurther DEF MapRead
<1> QED
  BY <1>2, <1>3, <1>4 DEF MapRead

\* A statement that does.
LEMMA MapAssigns ==
  ASSUME StartTypes, i \in DOMAIN config, MapRead(i), i \in Known(config),
         Sound(config, i), UNCHANGED config, i' = i + 1,
         map' = Assign(map, config[i].tokens[3],
                       Configure(config[i].tokens[2], config[i].child))
  PROVE  MapRead(i)'
<1> DEFINE here == config[i].tokens[3]
           handler == Configure(config[i].tokens[2], config[i].child)
<1>1. /\ DOMAIN map' = DOMAIN map \cup {here}
      /\ map'[here] = handler
      /\ \A path \in DOMAIN map : path # here => map'[path] = map[path]
      /\ map' = [path \in DOMAIN map' |-> map'[path]]
  BY DEF Assign
<1>2. /\ i \in Int
      /\ \A j \in DOMAIN config : j \in Int /\ (j < i + 1 <=> j < i \/ j = i)
  BY OneFurther
<1>3. \A j \in Known(config) : j \in DOMAIN config
  BY DEF Known
<1>4. \A j \in Known(config) : j < i + 1 => config[j].tokens[3] \in DOMAIN map'
  BY <1>1, <1>2, <1>3 DEF MapRead
<1>5. LastOfPath(config, i, i + 1)
  BY <1>2, <1>3 DEF LastOfPath
<1>6. ASSUME NEW path \in DOMAIN map'
      PROVE  \E j \in DOMAIN config :
               /\ LastOfPath(config, j, i + 1) /\ config[j].tokens[3] = path
               /\ map'[path] = Configure(config[j].tokens[2], config[j].child)
  <2>1. CASE path = here
    BY <1>1, <1>5, <2>1
  <2>2. CASE path # here
    <3>1. path \in DOMAIN map /\ map'[path] = map[path]
      BY <1>1, <2>2
    <3>2. PICK j \in DOMAIN config :
            /\ LastOfPath(config, j, i) /\ config[j].tokens[3] = path
            /\ map[path] = Configure(config[j].tokens[2], config[j].child)
      BY <3>1 DEF MapRead
    <3>3. LastOfPath(config, j, i + 1)
      <4>1. j \in Known(config) /\ j < i + 1
        BY <1>2, <3>2 DEF LastOfPath
      <4>2. ASSUME NEW l \in Known(config), l < i + 1, config[l].tokens[3] = path
            PROVE  l <= j
        <5>1. l # i /\ l < i
          BY <1>2, <1>3, <2>2, <4>2
        <5> QED
          BY <3>2, <4>2, <5>1 DEF LastOfPath
      <4> QED
        BY <3>2, <4>1, <4>2 DEF LastOfPath
    <3> QED
      BY <3>1, <3>2, <3>3
  <2> QED
    BY <2>1, <2>2
<1>7. \A j \in DOMAIN config : j < i + 1 => Sound(config, j)
  BY <1>2 DEF MapRead
<1> HIDE DEF here, handler
<1> QED
  BY <1>1, <1>4, <1>6, <1>7 DEF MapRead

-----------------------------------------------------------------------------
(* The steps. *)

\* What is said of a configuration that stays.
LEMMA MalformedStays == UNCHANGED config /\ Malformed(config) => Malformed(config)'
BY DEF Malformed, Listening, Known, Configurable

\* The port of one.
LEMMA PortStays == UNCHANGED <<config, port_>> /\ PortRead => PortRead'
BY DEF PortRead, PortOf, Listening

\* The map of one.
LEMMA MapStays ==
  ASSUME UNCHANGED <<config, map>>, NEW k, MapRead(k)
  PROVE  MapRead(k)'
<1>1. \A j : LastOfPath(config, j, k)' <=> LastOfPath(config, j, k)
  BY DEF LastOfPath, Known
<1>2. \A j : Sound(config, j)' <=> Sound(config, j)
  BY DEF Sound, Known, Configurable
<1>3. \A j : Configure(config[j].tokens[2], config[j].child)'
               = Configure(config[j].tokens[2], config[j].child)
  BY DEF Configure
<1>4. Known(config)' = Known(config)
  BY DEF Known
<1> QED
  BY <1>1, <1>2, <1>3, <1>4 DEF MapRead

\* The same, where the loop is then, or at its end.
LEMMA MapStaysRead ==
  ASSUME UNCHANGED <<config, map>>, NEW k, MapRead(k)
  PROVE  /\ i' = k => MapRead(i)'
         /\ Len(config') + 1 = k => MapRead(Len(config) + 1)'
<1>1. MapRead(k)'
  BY MapStays
<1>2. i' = k => MapRead(i)'
  BY <1>1 DEF MapRead, LastOfPath, Known
<1>3. Len(config') + 1 = k => MapRead(Len(config) + 1)'
  BY <1>1 DEF MapRead, LastOfPath, Known
<1> QED
  BY <1>2, <1>3

\* The types after a step that leaves the configuration.
LEMMA TypesKept ==
  ASSUME StartTypes, UNCHANGED config,
         process' = process \/ process' \in {"serving", "exited", "undefined"},
         call' = call \/ call' \in {"get_port", "get_handlers", "run"},
         i' = i \/ i' \in 1..Len(config) + 1,
         UNCHANGED port_ \/ port_' \in Short,
         UNCHANGED map \/ MapType'
  PROVE  StartTypes'
<1>1. ProcessType'
  BY DEF StartTypes, ProcessType
<1>2. ConfigType'
  BY DEF StartTypes, ConfigType
<1>3. MapType'
  BY DEF StartTypes, MapType
<1>4. port_' \in Short
  BY DEF StartTypes
<1> QED
  BY <1>1, <1>2, <1>3, <1>4 DEF StartTypes

\* The loop variable stands at a statement.
LEMMA AtStatement ==
  ASSUME StartTypes, i <= Len(config)
  PROVE  /\ Len(config) \in Nat /\ DOMAIN config = 1..Len(config)
         /\ i \in DOMAIN config /\ i \in 1..Len(config) + 1
         /\ i + 1 \in 1..Len(config) + 1
<1>1. i \in 1..Len(config) + 1
  BY DEF StartTypes, ConfigType
<1> QED
  BY <1>1, Statements

\* main.
LEMMA MainKeeps == StartInv /\ Main => StartInv'
<1> SUFFICES ASSUME StartInv, Main PROVE StartInv'
  OBVIOUS
<1>0. StartTypes /\ config = <<>> /\ map = <<>> /\ call = "main"
  BY DEF StartInv, Main
<1>1. CASE Stop("exited") /\ UNCHANGED config
  <2>1. StartTypes'
    BY <1>0, <1>1, TypesKept DEF Main, Stop
  <2> QED
    BY <1>0, <1>1, <2>1 DEF StartInv, Main, Stop
<1>2. CASE config' \in Config /\ Call("get_port") /\ UNCHANGED process
  <2>1. Len(config') \in Nat /\ DOMAIN config' = 1..Len(config')
    BY <1>2, ConfigAssumption, Sequences DEF AreStatements
  <2>2. /\ call' = "get_port" /\ i' = 1 /\ map' = map /\ port_' = port_
        /\ process' = "starting"
    BY <1>2 DEF Call, Main
  <2>3. StartTypes'
    <3>1. ConfigType'
      BY <1>2, <2>1, <2>2 DEF ConfigType
    <3>2. ProcessType'
      BY <2>2 DEF ProcessType
    <3>3. MapType'
      BY <1>0, <2>2 DEF MapType, StartTypes
    <3>4. port_' \in Short
      BY <1>0, <2>2 DEF StartTypes
    <3> QED
      BY <3>1, <3>2, <3>3, <3>4 DEF StartTypes
  <2>4. \A j \in DOMAIN config' : ~(j < i')
    BY <2>1, <2>2
  <2> QED
    BY <1>0, <2>2, <2>3, <2>4 DEF StartInv
<1> QED
  BY <1>1, <1>2 DEF Main

\* The port is known: get_handlers begins.
LEMMA HandlersBegin ==
  ASSUME StartInv, process = "starting", call = "get_port",
         UNCHANGED <<process, config, map>>, Call("get_handlers"),
         port_' \in Short, PortRead'
  PROVE  StartInv'
<1>1. StartTypes /\ map = <<>>
  BY DEF StartInv
<1>2. MapRead(1)
  BY <1>1, EmptyMap
<1>3. call' = "get_handlers" /\ i' = 1
  BY DEF Call
<1>4. StartTypes'
  <2>1. Len(config) \in Nat
    BY <1>1, Statements
  <2> QED
    <3>1. 1 \in 1..Len(config) + 1
      BY <2>1
    <3> QED
      BY <1>1, <1>3, <3>1, TypesKept
<1>5. MapRead(i)'
  BY <1>2, <1>3, MapStaysRead
<1> QED
  BY <1>3, <1>4, <1>5 DEF StartInv

\* Config::get_port.
LEMMA GetPortKeeps == StartInv /\ GetPort => StartInv'
<1> SUFFICES ASSUME StartInv, GetPort PROVE StartInv'
  OBVIOUS
<1>0. /\ StartTypes /\ process = "starting" /\ call = "get_port" /\ map = <<>>
      /\ \A j \in DOMAIN config : j < i => ~Listens(config[j].tokens)
      /\ UNCHANGED <<config, map>>
  BY DEF StartInv, GetPort, Left
<1>1. Len(config) \in Nat /\ DOMAIN config = 1..Len(config) /\ i \in DOMAIN config
  BY <1>0, AtStatement DEF GetPort, Left
<1>2. CASE ~Listens(tokens) /\ i' = i + 1 /\ UNCHANGED <<process, call, port_>>
  <2>1. StartTypes'
    BY <1>0, <1>1, <1>2, AtStatement, TypesKept DEF GetPort, Left
  <2>2. \A j \in DOMAIN config : j < i + 1 => ~Listens(config[j].tokens)
    BY <1>0, <1>1, <1>2, OneFurther DEF tokens
  <2> QED
    BY <1>0, <1>2, <2>1, <2>2 DEF StartInv
<1>3. CASE Listens(tokens) /\ Len(tokens) = 1 /\ Stop("undefined") /\ UNCHANGED port_
  <2>1. i \in Listening(config) /\ Min(Listening(config)) = i
    BY <1>0, <1>1, <1>3, FirstListens DEF tokens
  <2>2. Malformed(config)
    BY <1>3, <2>1 DEF Malformed, tokens
  <2>3. StartTypes'
    BY <1>0, <1>3, TypesKept DEF Stop
  <2>4. Malformed(config)'
    BY <1>0, <2>2, MalformedStays
  <2> QED
    BY <1>0, <1>3, <2>3, <2>4 DEF StartInv, Stop
<1>4. CASE Stop("exited") /\ UNCHANGED port_
  <2>1. StartTypes'
    BY <1>0, <1>4, TypesKept DEF Stop
  <2> QED
    BY <1>0, <1>4, <2>1 DEF StartInv, Stop
<1>5. CASE /\ Listens(tokens) /\ Len(tokens) > 1 /\ tokens[2] \in DOMAIN Number
           /\ port_' = UnsignedShort(Number[tokens[2]])
           /\ Call("get_handlers") /\ UNCHANGED process
  <2>1. i \in Listening(config) /\ Min(Listening(config)) = i
    BY <1>0, <1>1, <1>5, FirstListens DEF tokens
  <2>2. port_' = PortOf(config) /\ Len(config[Min(Listening(config))].tokens) # 1
    BY <1>5, <2>1 DEF PortOf, tokens
  <2>3. PortRead'
    BY <1>0, <2>2 DEF PortRead, PortOf, Listening
  <2>4. port_' \in Short
    BY <1>5, NumberAssumption, ShortIsShort
  <2> QED
    BY <1>0, <1>5, <2>3, <2>4, HandlersBegin
<1> QED
  BY <1>2, <1>3, <1>4, <1>5 DEF GetPort

\* Config::get_port, when no statement listens.
LEMMA NoPortKeeps == StartInv /\ NoPort => StartInv'
<1> SUFFICES ASSUME StartInv, NoPort PROVE StartInv'
  OBVIOUS
<1>1. StartTypes /\ call = "get_port" /\ i > Len(config)
  BY DEF StartInv, NoPort
<1>2. \A j \in DOMAIN config : j < i
  <2>1. i \in 1..Len(config) + 1
    BY <1>1 DEF StartTypes, ConfigType
  <2> QED
    BY <1>1, <2>1, Statements
<1>3. Listening(config) = {}
  BY <1>1, <1>2 DEF StartInv, Listening, Listens
<1>4. PortRead'
  BY <1>3 DEF PortRead, PortOf, Listening, NoPort
<1>5. port_' \in Short
  BY DEF NoPort, Short
<1> QED
  BY <1>4, <1>5, HandlersBegin DEF NoPort

\* Config::get_handlers.
LEMMA GetHandlersKeeps == StartInv /\ GetHandlers => StartInv'
<1> SUFFICES ASSUME StartInv, GetHandlers PROVE StartInv'
  OBVIOUS
<1>0. /\ StartTypes /\ process = "starting" /\ call = "get_handlers"
      /\ PortRead /\ MapRead(i) /\ UNCHANGED <<config, port_>>
  BY DEF StartInv, GetHandlers, Left
<1>1. Len(config) \in Nat /\ DOMAIN config = 1..Len(config) /\ i \in DOMAIN config
  BY <1>0, AtStatement DEF GetHandlers, Left
<1>2. PortRead'
  BY <1>0, PortStays
<1>3. ASSUME Stop("undefined"), UNCHANGED map, Malformed(config) PROVE StartInv'
  <2>1. StartTypes'
    BY <1>0, <1>3, TypesKept DEF Stop
  <2>2. MapRead(i)'
    BY <1>0, <1>3, MapStaysRead DEF Stop
  <2>3. Malformed(config)'
    BY <1>0, <1>3, MalformedStays
  <2> QED
    BY <1>0, <1>2, <1>3, <2>1, <2>2, <2>3 DEF StartInv, Stop
<1>4. ASSUME i' = i + 1, UNCHANGED <<process, call>>, MapRead(i)',
             \A path \in DOMAIN map' : map'[path].type \in HandlerType
      PROVE  StartInv'
  <2>1. StartTypes'
    BY <1>0, <1>1, <1>4, AtStatement, TypesKept DEF GetHandlers, Left, MapType
  <2> QED
    BY <1>0, <1>2, <1>4, <2>1 DEF StartInv
<1>5. CASE tokens[1] = "handler" /\ Len(tokens) < 3
  <2>1. Malformed(config)
    BY <1>1, <1>5 DEF Malformed, tokens
  <2> QED
    BY <1>3, <1>5, <2>1 DEF GetHandlers
<1>6. CASE /\ ~(tokens[1] = "handler" /\ Len(tokens) < 3)
           /\ tokens[1] # "handler" \/ tokens[2] \notin HandlerType
  <2>1. i' = i + 1 /\ UNCHANGED <<process, call, map>>
    BY <1>6 DEF GetHandlers
  <2>2. i \notin Known(config)
    BY <1>6 DEF Known, tokens
  <2>3. Sound(config, i)
    BY <1>0, <1>1, <1>6, <2>2, Statements DEF Sound, tokens
  <2>4. MapRead(i + 1)
    BY <1>0, <1>1, <2>2, <2>3, MapSkips
  <2>5. MapRead(i)'
    BY <1>0, <2>1, <2>4, MapStaysRead
  <2> QED
    BY <1>0, <1>4, <2>1, <2>5 DEF StartTypes, MapType
<1>7. CASE tokens[1] = "handler" /\ ~(Len(tokens) < 3) /\ tokens[2] \in HandlerType
  <2>1. i \in Known(config)
    BY <1>0, <1>1, <1>7, Statements DEF Known, tokens
  <2>2. CASE /\ Configurable(tokens[2], config[i].child)
             /\ map' = Assign(map, tokens[3], Configure(tokens[2], config[i].child))
             /\ i' = i + 1 /\ UNCHANGED <<process, call>>
    <3>1. Sound(config, i)
      BY <1>0, <1>1, <1>7, <2>2, Statements DEF Sound, tokens
    <3>2. MapRead(i)'
      BY <1>0, <1>1, <2>1, <2>2, <3>1, MapAssigns DEF tokens
    <3>3. \A path \in DOMAIN map' : map'[path].type \in HandlerType
      <4>1. Configure(tokens[2], config[i].child).type \in HandlerType
        BY <1>7, TypeOfConfigured
      <4>2. \A path \in DOMAIN map : map[path].type \in HandlerType
        BY <1>0 DEF StartTypes, MapType
      <4> QED
        BY <2>2, <4>1, <4>2 DEF Assign
    <3> QED
      BY <1>4, <2>2, <3>2, <3>3
  <2>3. CASE /\ ~Configurable(tokens[2], config[i].child)
             /\ Stop("undefined") /\ UNCHANGED map
    <3>1. Malformed(config)
      BY <2>1, <2>3 DEF Malformed, tokens
    <3> QED
      BY <1>3, <2>3, <3>1
  <2> QED
    BY <1>7, <2>2, <2>3 DEF GetHandlers
<1> QED
  BY <1>5, <1>6, <1>7

\* The last two steps of startup.
LEMMA RunKeeps == StartInv /\ (HandlersDone \/ Listen) => StartInv'
<1> SUFFICES ASSUME StartInv, HandlersDone \/ Listen PROVE StartInv'
  OBVIOUS
<1>0. StartTypes /\ Len(config) \in Nat /\ UNCHANGED <<config, port_, map>>
  BY Statements DEF StartInv, HandlersDone, Listen
<1>1. PortRead'
  BY <1>0, PortStays DEF StartInv, HandlersDone, Listen
<1>2. CASE HandlersDone
  <2>1. i = Len(config) + 1
    <3>1. i \in 1..Len(config) + 1
      BY <1>0 DEF StartTypes, ConfigType
    <3> QED
      BY <1>0, <1>2, <3>1 DEF HandlersDone
  <2>2. MapRead(Len(config) + 1)
    BY <1>2, <2>1 DEF StartInv, HandlersDone
  <2>3. MapRead(Len(config) + 1)'
    BY <1>0, <2>2, MapStaysRead
  <2>4. StartTypes'
    <3>1. i' \in 1..Len(config) + 1
      BY <1>0, <1>2 DEF HandlersDone, Call
    <3> QED
      BY <1>0, <1>2, <3>1, TypesKept DEF HandlersDone, Call
  <2> QED
    BY <1>1, <1>2, <2>3, <2>4 DEF StartInv, HandlersDone, Call
<1>3. CASE Listen
  <2>1. MapRead(Len(config) + 1)
    BY <1>3 DEF StartInv, Listen
  <2>2. MapRead(Len(config) + 1)'
    BY <1>0, <2>1, MapStaysRead
  <2>3. StartTypes'
    BY <1>0, <1>3, TypesKept DEF Listen
  <2> QED
    BY <1>1, <1>3, <2>2, <2>3 DEF StartInv, Listen
<1> QED
  BY <1>2, <1>3

\* Startup keeps its invariant.
LEMMA StartupInvariant == Spec => []StartInv
<1>1. Init => StartInv
  <2> SUFFICES ASSUME Init PROVE StartInv
    OBVIOUS
  <2>1. DOMAIN <<>> = {} /\ Len(<<>>) = 0
    OBVIOUS
  <2>2. StartTypes
    <3>1. ConfigType
      BY <2>1 DEF Init, ConfigType
    <3>2. ProcessType /\ MapType /\ port_ \in Short
      BY <2>1 DEF Init, ProcessType, MapType, Short
    <3> QED
      BY <3>1, <3>2 DEF StartTypes
  <2> QED
    BY <2>2 DEF Init, StartInv
<1>2. StartInv /\ [Next]_vars => StartInv'
  <2>1. ASSUME StartInv, UNCHANGED vars PROVE StartInv'
    <3>1. UNCHANGED <<config, map, port_>> /\ i' = i
      BY <2>1 DEF vars
    <3>2. StartTypes'
      BY <2>1, TypesKept DEF StartInv, vars
    <3>3. MapRead(i) => MapRead(i)'
      BY <3>1, MapStaysRead
    <3>4. MapRead(Len(config) + 1) => MapRead(Len(config) + 1)'
      BY <3>1, MapStaysRead
    <3> QED
      BY <2>1, <3>1, <3>2, <3>3, <3>4, PortStays, MalformedStays DEF StartInv, vars
  <2> QED
    BY <2>1, MainKeeps, GetPortKeeps, NoPortKeeps, GetHandlersKeeps, RunKeeps DEF Next
<1> QED
  BY <1>1, <1>2, PTL DEF Spec

-----------------------------------------------------------------------------
(* What a server that serves took from its configuration. *)

\* Whatever the configuration, startup keeps its types: the port is an unsigned
\* short, and every handler has a type that the server has.
THEOREM StartupTypes == Spec => []TypeOK
<1>1. StartInv => TypeOK
  BY TypesSplit DEF StartInv
<1> QED
  BY <1>1, StartupInvariant, PTL

\* Whatever the configuration, a server that serves listens on the port of its
\* first "listen" statement, and under each path has the handler of the last
\* statement that names the path, configured by the block of that statement.
THEOREM ServesItsConfiguration == Spec => []ServesAsConfigured
<1>1. StartInv => ServesAsConfigured
  BY MapIsHandlers DEF StartInv, PortRead, ServesAsConfigured
<1> QED
  BY <1>1, StartupInvariant, PTL

\* Whatever the configuration, startup reads past a statement, or through a null
\* block, only if the configuration is malformed; and no server serves one.
THEOREM MalformedStops == Spec => []MalformedNeverServed
<1>1. StartInv => MalformedNeverServed
  <2> SUFFICES ASSUME StartInv, process = "serving" PROVE ~Malformed(config)
    BY DEF StartInv, MalformedNeverServed
  <2>1. StartTypes /\ PortRead /\ MapRead(Len(config) + 1)
    BY DEF StartInv
  <2>2. \A j \in DOMAIN config : Sound(config, j)
    <3>1. \A j \in DOMAIN config : j < Len(config) + 1
      BY <2>1, Statements
    <3> QED
      BY <2>1, <3>1 DEF MapRead
  <2> QED
    BY <2>1, <2>2, SoundIsWellFormed
<1> QED
  BY <1>1, StartupInvariant, PTL
=============================================================================
