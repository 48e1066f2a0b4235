------------------------------ MODULE MCStartup ------------------------------
(***************************************************************************)
(* Configurations of up to three statements for TLC.                       *)
(***************************************************************************)
EXTENDS StartupProperties, SequencesExt

Leaf(words) == Statement(words, NoBlock)
Block(words, stmts) == Statement(words, <<stmts>>)

MCNumber == [token \in {"80", "0", "65616", "-1"} |->
  CASE token = "80" -> 80 [] token = "0" -> 0
    [] token = "65616" -> 65616 [] token = "-1" -> -1]

MCStatement ==
  {Leaf(<<"listen", "80">>), Leaf(<<"listen", "65616">>), Leaf(<<"listen", "-1">>),
   Leaf(<<"listen">>), Leaf(<<"listen", "x">>), Leaf(<<"x", "listen", "0">>),
   Leaf(<<"handler", "echo", "/a">>), Leaf(<<"handler", "static", "/a">>),
   Leaf(<<"handler", "static">>),
   Block(<<"handler", "helloworld", "/b">>, <<Leaf(<<"empty">>)>>),
   Block(<<"handler", "static", "/a">>,
         <<Leaf(<<"root", "r1">>), Leaf(<<"root">>), Leaf(<<"root", "r2">>)>>),
   Block(<<"handler", "static", "/b">>, <<Leaf(<<"root">>), Leaf(<<"root", "r1">>)>>),
   Block(<<"handler", "static", "/b">>, <<Leaf(<<"x">>)>>),
   Block(<<"handler", "proxy", "/a">>,
         <<Leaf(<<"host", "h1", "80">>), Leaf(<<"host", "h2", "0">>), Leaf(<<"host", "x">>)>>),
   Block(<<"handler", "proxy", "/b">>, <<Leaf(<<"empty">>)>>)}

MCConfig == BoundedSeq(MCStatement, 3)
=============================================================================
