---------------------------- MODULE HttpContext ----------------------------
(***************************************************************************)
(* http::HttpContext: the incremental parser of one connection, one        *)
(* operator per branch of the loop of parseRequest.                        *)
(*                                                                         *)
(* The bytes of a connection are a sequence of tokens: a line with its     *)
(* CRLF is one token, every byte of a body is one token.  A token that is  *)
(* in the buffer is there completely; a line of which only a part has      *)
(* arrived is not in the buffer yet, since findCRLF cannot see it either.  *)
(* Body bytes contain neither CRLF nor ':' nor ' ', and a request line has *)
(* no ':' in it; these are assumptions on the clients that are modelled.   *)
(***************************************************************************)
EXTENDS HttpRequest

CONSTANT ByteValue    \* the bytes of bodies

ParseState == {"kExpectRequestLine", "kExpectHeaders", "kExpectBody", "kGotAll"}

\* A request line: method word (kInvalid: a word that is no method), path,
\* query, and what follows the second space; "question": no version, but a
\* '?' in it; "none": no second space.
Version == {"HTTP/1.1", "HTTP/1.0"}
RequestLine == [kind : {"request"}, method : Method, path : Path,
                args : Seq(Pair), version : Version \cup {"other", "question", "none"}]
HeaderLine  == [kind : {"header"}, name : HeaderName, value : HeaderValue]
NoColonLine == [kind : {"nocolon"}]    \* a line with no ':' and no ' '
BlankLine   == [kind : {"blank"}]
BodyByte    == [kind : {"body"}, value : ByteValue]
Token == RequestLine \cup HeaderLine \cup NoColonLine \cup BlankLine \cup BodyByte

IsLine(t) == t.kind # "body"

Request == [method : Method, path : Path \cup {""}, version : Version \cup {"Unknown"},
            query : Seq(Pair), headers : [HeaderName -> HeaderValue],
            content : Seq(Token), contentLength : 0..(UintModulus - 1)]
Context == [state : ParseState, request : Request]

\* The constructor.
NewContext == [state |-> "kExpectRequestLine", request |-> NewRequest]

\* Bug: reset leaves the state at kGotAll.
ResetKeepsState(ctx) == [ctx EXCEPT !.request = SwapWithNew(@)]

\* reset: the state, and a swap with a new request.
Reset(ctx) == [state |-> "kExpectRequestLine", request |-> SwapWithNew(ctx.request)]

GotAll(ctx) == ctx.state = "kGotAll"

---------------------------------------------------------------------------
(* The readable part of the buffer: the tokens rd+1 .. wr of s.            *)

\* findCRLF: a position that ends a line, none of the readable ones before it does.
EndsLine(s, rd, wr, e) ==
    /\ e \in rd+1..wr
    /\ IsLine(s[e])
    /\ \A i \in rd+1..e-1 : ~IsLine(s[i])
NoCRLF(s, rd, wr) == \A i \in rd+1..wr : ~IsLine(s[i])

\* The text of the line that ends at e has body bytes in front of the line
\* the client wrote there.
Glued(rd, e) == e > rd + 1

---------------------------------------------------------------------------
(* processRequestLine on the line t, glued to earlier bytes or not.        *)

HasSpace(t) == t.kind \in {"request", "header"}

\* setMethod: glued bytes make any method an unknown one.  Its result is
\* not looked at: the condition of line 157 is an empty statement.
MethodOf(t, glued) == IF glued \/ t.kind # "request" THEN "kInvalid" ELSE t.method

\* The assertion of setMethod fails: it is reached when there is a space.
MethodAssertFails(req, t) == HasSpace(t) /\ ~MethodUnset(req)

\* The line has a path between two spaces.
HasPath(t) == t.kind = "request" /\ t.version # "none"

\* The first '?' of the line is behind the second space: the query would end
\* before it begins, which std::string does not accept.
QueryBehindVersion(t) == t.args = <<>> /\ t.version = "question"

\* setQueryParameters throws, after method and path have been stored.
RequestLineThrows(t) == HasPath(t) /\ (QueryThrows(t.args) \/ QueryBehindVersion(t))

\* succeed: the version is one of the two known ones.
RequestLineGood(t) == HasPath(t) /\ ~QueryThrows(t.args) /\ t.version \in Version

\* What the request holds afterwards, whether the line was good or not.
AfterRequestLine(req, t, glued) ==
    IF ~HasSpace(t) THEN req
    ELSE [req EXCEPT
            !.method  = MethodOf(t, glued),
            !.path    = IF HasPath(t) THEN t.path ELSE @,
            !.query   = IF HasPath(t) /\ ~QueryThrows(t.args) /\ t.args # <<>>
                        THEN t.args ELSE @,
            !.version = IF RequestLineGood(t) THEN t.version ELSE @]

---------------------------------------------------------------------------
(* The header lines.                                                       *)

\* A line with a ':': addHeader.  Glued bytes become part of the name.
HeaderNameOf(t, glued) == IF glued THEN "Other" ELSE t.name

IsHeader(t) == t.kind = "header"
IsBlank(t, glued) == t.kind = "blank" /\ ~glued
BadHeaderLine(t, glued) == ~IsHeader(t) /\ ~IsBlank(t, glued)

\* The blank line: does a body have to follow, and how long is it?
NeedsBody(req) == req.method \in BodyMethod
ContentLengthText(req) == GetHeader(req, "Content-Length")
ContentLengthMissing(req) == ContentLengthText(req) = ""
StoiThrows(req) == ~ContentLengthMissing(req) /\ ContentLengthText(req) \notin DOMAIN Stoi
AlwaysExpectBody(ctx) ==                      \* Bug: > 0 became >= 0
    [state   |-> "kExpectBody",
     request |-> SetContentLength(ctx.request, ContentLengthText(ctx.request))]
AfterContentLength(ctx) ==
    LET req == SetContentLength(ctx.request, ContentLengthText(ctx.request))
    IN [state   |-> IF req.contentLength > 0 THEN "kExpectBody" ELSE "kGotAll",
        request |-> req]

---------------------------------------------------------------------------
(* The body.                                                               *)

BodyIncomplete(req, rd, wr) == wr - rd < req.contentLength

\* setBody: exactly contentLength bytes, whatever they are.
AfterBody(ctx, s, rd) ==
    [state   |-> "kGotAll",
     request |-> [ctx.request EXCEPT
                    !.content = SubSeq(s, rd + 1, rd + ctx.request.contentLength)]]
===========================================================================
