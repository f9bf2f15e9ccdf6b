---------------------------- MODULE MCHttpServer ----------------------------
(***************************************************************************)
(* HttpServer for TLC: the requests that clients write, as token           *)
(* sequences.  A body has one or two bytes, which is enough to be cut.     *)
(***************************************************************************)
EXTENDS HttpServer, TLC

MCPath == {"/a", "/b"}
MCHeaderName == {"Content-Length", "Connection", "Other"}
MCHeaderValue == {"", "0", "1", "2", "-1", "abc", "close", "v"}
MCByteValue == {"w", "x", "y", "z"}
MCStoi == ("0" :> 0) @@ ("1" :> 1) @@ ("2" :> 2) @@ ("-1" :> -1)
MCCode == {200}

Line(method, path, version) ==
    [kind |-> "request", method |-> method, path |-> path, args |-> <<>>,
     version |-> version]
Query(args) == [Line("kGet", "/a", "HTTP/1.1") EXCEPT !.args = args]
Header(name, value) == [kind |-> "header", name |-> name, value |-> value]
Length(value) == Header("Content-Length", value)
Blank == [kind |-> "blank"]
NoColon == [kind |-> "nocolon"]
Byte(v) == [kind |-> "body", value |-> v]

\* Requests as RFC 9112 has them, with a body where and as long as declared.
Get      == <<Line("kGet", "/a", "HTTP/1.1"), Blank>>
GetClose == <<Line("kGet", "/b", "HTTP/1.0"), Header("Connection", "close"), Blank>>
Post     == <<Line("kPost", "/b", "HTTP/1.1"), Length("2"), Blank, Byte("x"), Byte("y")>>
Put      == <<Line("kPut", "/a", "HTTP/1.1"), Header("Other", "v"), Length("1"), Blank, Byte("z")>>
EmptyPost == <<Line("kPost", "/a", "HTTP/1.1"), Length("0"), Blank>>
Paged    == <<Query(<<[key |-> 4, value |-> 1]>>), Blank>>

\* GET /api/products?page=2&limit=20&sort=name&order=asc HTTP/1.1
Documented == <<Query(<<[key |-> 4, value |-> 1], [key |-> 5, value |-> 2],
                        [key |-> 4, value |-> 4], [key |-> 5, value |-> 3]>>), Blank>>

\* What a client may get wrong.
BadVersion    == <<Line("kGet", "/a", "other"), Blank>>
LateQuestion  == <<Line("kPut", "/b", "question"), Blank>>
NoVersion     == <<Line("kPost", "/a", "none"), Length("1"), Blank, Byte("z")>>
UnknownMethod == <<Line("kInvalid", "/a", "HTTP/1.1"), Blank>>
NoLength      == <<Line("kPost", "/a", "HTTP/1.1"), Blank>>
NoNumber      == <<Line("kPost", "/a", "HTTP/1.1"), Length("abc"), Blank>>
Negative      == <<Line("kPost", "/a", "HTTP/1.1"), Length("-1"), Blank>>
GetWithBody   == <<Line("kGet", "/a", "HTTP/1.1"), Length("1"), Blank, Byte("w")>>
BadHeader     == <<Line("kGet", "/a", "HTTP/1.1"), NoColon, Blank>>

WellFormed == {Get, GetClose, Post, Put, EmptyPost, Paged}
Malformed == {Get, Post, BadVersion, LateQuestion, NoVersion, UnknownMethod, NoLength, NoNumber,
              Negative, GetWithBody, BadHeader, Documented}

\* What the theorems about these runs ask of the requests holds of them.
ASSUME MCRequestsAssumption ==
    /\ Requests = WellFormed => \A r \in Requests : WellFormedRequest(r)
    /\ \A r \in Requests : FramesItself(r)
===========================================================================
