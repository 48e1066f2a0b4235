------------------------------- MODULE MCServer -------------------------------
(***************************************************************************)
(* Small instances of the server for TLC.                                  *)
(***************************************************************************)
EXTENDS ServerProperties, TLC

AnyText == STRING

\* "/<element>" and "/<element>/<name>.<ext>"
Top(element) == <<Blank, <<element>>>>
Below(element, file) == <<Blank, <<element>>, file>>

\* The last one is under a path of two elements, where no request goes.
MCHandlers ==
  Top("images") :> [type |-> "static", root |-> "pictures"] @@
  Top("copycat") :> [type |-> "echo", root |-> ""] @@
  Top("reverse") :> [type |-> "proxy", root |-> ""] @@
  Below("images", <<"b", "jpg">>) :> [type |-> "echo", root |-> ""]

MCMime == "jpg" :> "image/jpeg" @@ "html" :> "text/html"

MCFiles == {<<"pictures", <<Blank, <<"a", "jpg">>>>>>, <<"pictures", <<Blank, <<"notes">>>>>>}

Get(path, hs) == [path |-> path, headers |-> hs, body |-> <<>>]
Post(path, hs, lines) == [path |-> path, headers |-> hs, body |-> lines]

\* Of what a body may hold, "b1" has no colon and "k:v" has one.
MCColonless == {"request-line", "LF", "CRLF", "b1"}

\* Two of the three descriptors that Linux's asio has open for a socket of its
\* own io_service.
MCPrivate == {"epoll", "timerfd"}

\* Requests for every path through the dispatch and the handlers, and requests
\* that differ in their headers and body.
MCMessages ==
  {Get(Below("images", <<"a", "jpg">>), <<"Host">>),
   Get(Below("images", <<"notes">>), <<"Host">>),
   Get(Below("images", <<"b", "jpg">>), <<"Host">>),
   Get(Top("images"), <<"Host">>),
   Get(Top("reverse"), <<"Host">>),
   Get(<<Blank, <<"reverse">>, <<"x">>, <<"y">>>>, <<"Host">>),
   Get(<<<<"copycat">>>>, <<"Host">>),
   Post(Top("copycat"), <<"Content-Length", "Host">>, <<"b1">>),
   Post(Top("copycat"), <<"Host", "Content-Length">>, <<"b1">>),
   Post(Top("copycat"), <<"Host">>, <<"b1">>),
   Post(Top("copycat"), <<>>, <<"b1">>),
   Post(Top("copycat"), <<>>, <<"k:v", "CRLF", "b1">>)}

\* Requests that hold a file, or an upstream, besides the socket.
HoldingMessages ==
  {Get(Below("images", <<"a", "jpg">>), <<"Host">>), Get(Top("reverse"), <<"Host">>)}

\* Signs of what the uninitialized content_length may hold.
AnyGarbage == {-1, 0, 2}
NoLength == {-1, 0}

\* A request that is answered at once, and one that waits for its upstream.
LiveMessages == {Get(Top("copycat"), <<"Host">>), Get(Top("reverse"), <<"Host">>)}

\* Connections are interchangeable where no liveness is checked.
Symmetry == Permutations(Conn)
=============================================================================
