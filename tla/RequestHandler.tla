--------------------------- MODULE RequestHandler ---------------------------
(***************************************************************************)
(* URL paths and the responses built by the request handlers: the pure     *)
(* parts of Server::get_prefix, StaticHandler, EchoHandler, ProxyHandler.  *)
(*                                                                         *)
(* A path is its text split at "/", each piece split at ".":               *)
(*    "/images/a.jpg"  is  << <<"">>, <<"images">>, <<"a", "jpg">> >>      *)
(*    "/"              is  << <<"">>, <<"">> >>                            *)
(* A path always has a character: it is extracted with operator>>.         *)
(***************************************************************************)
EXTENDS Integers, Sequences

CONSTANT Text   \* the strings that make up paths, headers and words

ASSUME TextAssumption ==
  {"", "text/plain", "request-line", "LF", "CRLF", "NUL", "q", "w"} \subseteq Text

Blank == <<"">>
Path == Seq(Seq(Text))

\* full_path.at(0) == '/'
StartsWithSlash(p) == Len(p) > 1 /\ p[1] = Blank

\* A prefix search that stops one "/" too late.
get_prefix_late(p) ==
  IF StartsWithSlash(p) /\ Len(p) > 3 THEN SubSeq(p, 1, 3) ELSE p

\* The text before the second "/", the whole path when there is none or when
\* the path does not start with "/".
get_prefix(p) ==
  IF StartsWithSlash(p) /\ Len(p) > 2 THEN SubSeq(p, 1, 2) ELSE p

\* path.find("/", 1) finds a "/", without which substr(npos) throws.
HasFilePath(p) == IF StartsWithSlash(p) THEN Len(p) > 2 ELSE Len(p) > 1

\* The text from that "/" on.
get_file_path(p) ==
  <<Blank>> \o SubSeq(p, IF StartsWithSlash(p) THEN 3 ELSE 2, Len(p))

\* splits.back() of the path split at "."; a value holding a "/" is never the
\* key of a MIME type and is written "".
extension(p) ==
  LET last == p[Len(p)]
  IN  IF Len(last) > 1 \/ Len(p) = 1 THEN last[Len(last)] ELSE ""

\* The element of the handler is not taken off.
UpstreamPath_whole(p) == p

\* The path a ProxyHandler asks its upstream for: the request path without the
\* handler's element, "/" when nothing is left.
UpstreamPath(p) ==
  IF Len(p) = 2 THEN <<Blank, Blank>> ELSE <<Blank>> \o SubSeq(p, 3, Len(p))

(***************************************************************************)
(* Responses. "none" is the absence of one.                                *)
(***************************************************************************)
Response == [kind : {"none", "not_found", "echo", "file", "upstream"},
             path : Path, mime : Text, body : Seq(Text)]

Plain(kind, path, mime, body) ==
  [kind |-> kind, path |-> path, mime |-> mime, body |-> body]

NoResponse == Plain("none", <<>>, "", <<>>)
NotFound == Plain("not_found", <<>>, "", <<>>)
EchoResponse(path, body) == Plain("echo", path, "", body)
FileResponse(file, mime) == Plain("file", file, mime, <<>>)
UpstreamResponse(path) == Plain("upstream", path, "", <<>>)
=============================================================================
