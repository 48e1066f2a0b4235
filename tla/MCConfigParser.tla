---------------------------- MODULE MCConfigParser ----------------------------
EXTENDS ConfigOutline

\* A letter, white space, the structural characters, a comment, a quote.
AllChars == {"a", "\n", ";", "{", "}", "#", "'"}
=============================================================================
