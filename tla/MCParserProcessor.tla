-------------------------- MODULE MCParserProcessor --------------------------
(***************************************************************************)
(* Configurations of up to three statements for TLC, plain and not.        *)
(***************************************************************************)
EXTENDS ParserProcessorProperties

Leaf(words) == Statement(words, NoBlock)
Block(words, stmts) == Statement(words, <<stmts>>)

MCNumber == [token \in {"80", "0", "65536", "65537"} |->
  CASE token = "80" -> 80 [] token = "0" -> 0
    [] token = "65536" -> 65536 [] token = "65537" -> 65537]

MCStatement ==
  {Leaf(<<"listen", "80">>), Leaf(<<"listen", "65536">>), Leaf(<<"listen", "65537">>),
   Leaf(<<"listen", "0">>), Leaf(<<"listen">>), Leaf(<<"listen", "x">>),
   Block(<<"server">>, <<Leaf(<<"listen", "80">>)>>),
   Leaf(<<"handler", "static">>),
   Block(<<"handler", "echo", "/a">>, <<Leaf(<<"empty">>)>>),
   Block(<<"handler", "helloworld", "/b">>, <<Leaf(<<"empty">>)>>),
   Block(<<"handler", "static", "/a">>, <<Leaf(<<"root", "r1">>), Leaf(<<"root", "r2">>)>>),
   Block(<<"handler", "static", "/b">>, <<Leaf(<<"empty">>), Leaf(<<"root", "r2">>)>>),
   Block(<<"handler", "static", "/b">>, <<Leaf(<<"root">>), Leaf(<<"empty">>)>>),
   Block(<<"handler", "proxy", "/c">>, <<Leaf(<<"host", "h1", "80">>)>>)}

MCConfig == BoundedSeq(MCStatement, 3)
=============================================================================
