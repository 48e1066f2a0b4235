----------------------------- MODULE MCProxyChain -----------------------------
(***************************************************************************)
(* Two servers that are upstream of each other, and of themselves.         *)
(***************************************************************************)
EXTENDS ProxyChainProperties, TLC

AnyText == STRING
MCNode == {"A", "B"}

Root == <<Blank, Blank>>
Top(element) == <<Blank, <<element>>>>

MCRoute ==
  "A" :> (Top("b") :> "B" @@ Top("self") :> "A" @@ Top("echo") :> "local") @@
  "B" :> (Top("a") :> "A" @@ Root :> "B" @@ Top("echo") :> "local")

Req(path, colons) == [node |-> "A", path |-> path, colons |-> colons]

\* A path to a local handler through two proxies, to none, to a proxy that
\* goes round; with colons enough and one too few.
MCRequest ==
  {Req(<<Blank, <<"b">>, <<"a">>, <<"echo">>>>, 3), Req(<<Blank, <<"self">>, <<"none">>>>, 2),
   Req(<<Blank, <<"b">>, <<"echo">>>>, 1), Req(Top("b"), 1), Req(Top("b"), 3)}
=============================================================================
