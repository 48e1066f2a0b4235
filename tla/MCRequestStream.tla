---------------------------- MODULE MCRequestStream ----------------------------
(***************************************************************************)
(* Requests with up to two headers, and lines of up to three lexemes.      *)
(***************************************************************************)
EXTENDS RequestStream

Header == [name : {<<"a">>, <<"Content-Length">>},
           value : {<<" ", "b">>, <<"b">>, <<" ", "b", ":", "c">>,
                    <<" ", "b", ":", "c", ":", "d">>, <<":", "b", ":">>, <<>>}]

MCLexeme == {"CR", "LF", ":", " ", "GET", "/p", "HTTP/1.1", "NUL",
             "a", "b", "c", "d", "Content-Length"}
MCHeaderLists == BoundedSeq(Header, 2)
MCBodies == {<<>>, <<"b", ":">>, <<":", "b", "CR", "LF", "CR">>}
MCLines == BoundedSeq({"GET", " ", ":"}, 3) \cup {<<"GET", " ", "/p", " ", "HTTP/1.1">>}
MCGarbage == {-1, 0, 1}
=============================================================================
