--------------------------- MODULE ConfigRoundTrip ---------------------------
(***************************************************************************)
(* A configuration is parsed, written out with ToString, and what was      *)
(* written is parsed again.                                                *)
(***************************************************************************)
EXTENDS ConfigText

VARIABLE first   \* the configuration parsed first, none when << >>

roundTripVars == <<textVars, first>>

\* "  " per level.
Indent(depth) == [i \in 1..(2 * depth) |-> " "]

\* The words of a statement with a space between them, or nothing.
Joined_tight(words) ==
  LET upTo[k \in 0..Len(words)] == IF k = 0 THEN <<>> ELSE upTo[k - 1] \o words[k]
  IN  upTo[Len(words)]
Joined(words) ==
  LET upTo[k \in 0..Len(words)] ==
        IF k = 0 THEN <<>>
        ELSE upTo[k - 1] \o (IF k = 1 THEN <<>> ELSE <<" ">>) \o words[k]
  IN  upTo[Len(words)]

\* NginxConfig::ToString of block b, with NginxConfigStatement::ToString.
RECURSIVE ToString(_, _)
ToString(b, depth) ==
  LET line(stmt) ==
        Indent(depth) \o Joined(stmt.tokens)
          \o (IF stmt.child # Null
              THEN <<" ", "{", "\n">> \o ToString(stmt.child, depth + 1)
                     \o Indent(depth) \o <<"}">>
              ELSE <<";">>)
          \o <<"\n">>
      upTo[k \in 0..Len(configs[b])] ==
        IF k = 0 THEN <<>> ELSE upTo[k - 1] \o line(configs[b][k])
  IN  upTo[Len(configs[b])]

\* The accepted configuration is written to a file that a new parser reads.
Rewrite ==
  /\ result = "true" /\ first = <<>>
  /\ first' = configs
  /\ text' = ToString(1, 0) /\ unread' = text' /\ length' = MaxLength
  /\ NewToken /\ tokens' = <<>> /\ last_token_type' = "start"
  /\ configs' = << <<>> >> /\ config_stack' = <<1>> /\ result' = "running"

InitRoundTrip == InitText /\ first = <<>>

\* The first parser reads characters as they come, the second one those written,
\* which are blanks and newlines too.
NextRoundTrip ==
  \/ Rewrite
  \/ NextText /\ UNCHANGED first
  \/ \E c \in {" ", "\n"} : Read(c) /\ length' = length /\ UNCHANGED <<text, first>>

SpecRoundTrip == InitRoundTrip /\ [][NextRoundTrip]_roundTripVars

-----------------------------------------------------------------------------
\* ToString loses nothing that Parse reads: what it writes of an accepted file
\* is accepted, as the same statements and blocks. Quotes and the characters
\* inside words survive.
RoundTrip ==
  first # <<>> /\ result # "running" => result = "true" /\ configs = first
=============================================================================
