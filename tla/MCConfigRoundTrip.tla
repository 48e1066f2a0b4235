--------------------------- MODULE MCConfigRoundTrip ---------------------------
EXTENDS ConfigRoundTrip

\* A letter, white space that ends a word and that does not, the structural
\* characters, a comment, a quote.
AllChars == {"a", "\n", "\r", ";", "{", "}", "#", "'"}
=============================================================================
