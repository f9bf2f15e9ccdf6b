----------------------------- MODULE HttpServer -----------------------------
(***************************************************************************)
(* http::HttpServer without SSL: what happens on a connection from the     *)
(* bytes a client writes to the responses it gets back.                    *)
(*                                                                         *)
(* Every connection belongs to one IO thread of the muduo server, so its   *)
(* callbacks run one at a time; pc[c] is where that thread is in onMessage *)
(* for connection c, and the callbacks of different connections            *)
(* interleave.  One iteration of the loop of parseRequest is one action.   *)
(*                                                                         *)
(* TCP cuts the byte stream anywhere: Deliver hands any number of further  *)
(* tokens to onMessage.  The TcpConnection itself is muduo's: send writes  *)
(* only while connected, shutdown closes the sending half only, and what   *)
(* the client still sends is delivered until it closes.                    *)
(***************************************************************************)
EXTENDS HttpContext

CONSTANTS
    Connection,      \* the connections
    Requests,        \* what a client may write in one go: sequences of tokens
    MaxRequests,     \* bound on the requests written on one connection
    Code,            \* status codes a handler may set
    CallbackThrows   \* may the callback given to setHttpCallback throw?

ASSUME HttpServerAssumption ==
    /\ Requests \subseteq Seq(Token)
    /\ MaxRequests \in Nat
    /\ Code \subseteq Nat
    /\ CallbackThrows \in BOOLEAN

VARIABLES
    conn,      \* conn[c]: state of the TcpConnection
    sent,      \* sent[c]: the requests the client has written (history)
    stream,    \* stream[c]: the bytes of these requests
    rd, wr,    \* reader and writer index of the input buffer
    ctx,       \* ctx[c]: the HttpContext of the connection
    pc, ok,    \* the thread of c in onMessage; result of parseRequest
    replies,   \* replies[c]: status codes sent to the client
    handled,   \* handled[c]: requests given to httpCallback_ (history)
    alive      \* the process has not been aborted

vars == <<conn, sent, stream, rd, wr, ctx, pc, ok, replies, handled, alive>>
client == <<sent, stream>>
buffer == <<rd, wr>>

ConnState == {"new", "connected", "disconnecting", "disconnected"}
PC == {"idle", "parse", "parsed", "dispatch", "catch", "spinning"}

Init ==
    /\ conn    = [c \in Connection |-> "new"]
    /\ sent    = [c \in Connection |-> <<>>]
    /\ stream  = [c \in Connection |-> <<>>]
    /\ rd      = [c \in Connection |-> 0]
    /\ wr      = [c \in Connection |-> 0]
    /\ ctx     = [c \in Connection |-> NewContext]
    /\ pc      = [c \in Connection |-> "idle"]
    /\ ok      = [c \in Connection |-> TRUE]
    /\ replies = [c \in Connection |-> <<>>]
    /\ handled = [c \in Connection |-> <<>>]
    /\ alive   = TRUE

---------------------------------------------------------------------------
(* muduo's TcpConnection, and the client.                                  *)

Send(c, code)  == IF conn[c] = "connected" THEN Append(replies[c], code) ELSE replies[c]
ShutdownOf(st) == IF st = "connected" THEN "disconnecting" ELSE st

\* conn->send(...); and, when close holds, conn->shutdown().
SendAndShutdown(c, code, close) ==
    /\ replies' = [replies EXCEPT ![c] = Send(c, code)]
    /\ conn'    = [conn EXCEPT ![c] = IF close THEN ShutdownOf(@) ELSE @]

\* onConnection of a new connection: conn->setContext(HttpContext()).
OnConnected(c) ==
    /\ conn[c] = "new"
    /\ conn' = [conn EXCEPT ![c] = "connected"]
    /\ ctx'  = [ctx EXCEPT ![c] = NewContext]
    /\ UNCHANGED <<client, buffer, pc, ok, replies, handled, alive>>

Open(c) == conn[c] \in {"connected", "disconnecting"}

\* The client writes one more request; it need not wait for a response.
ClientSend(c, r) ==
    /\ Open(c)
    /\ Len(sent[c]) < MaxRequests
    /\ sent'   = [sent EXCEPT ![c] = Append(@, r)]
    /\ stream' = [stream EXCEPT ![c] = @ \o r]
    /\ UNCHANGED <<conn, buffer, ctx, pc, ok, replies, handled, alive>>

\* The client closes; without SSL, onConnection has nothing to do.
ClientClose(c) ==
    /\ Open(c)
    /\ pc[c] = "idle"
    /\ conn' = [conn EXCEPT ![c] = "disconnected"]
    /\ UNCHANGED <<client, buffer, ctx, pc, ok, replies, handled, alive>>

\* n more tokens reach the buffer and onMessage is called.  With n = 0 the
\* bytes that arrive are a part of the line that comes next.
Deliver(c, n) ==
    /\ Open(c)
    /\ pc[c] = "idle"
    /\ wr[c] + n <= Len(stream[c])
    /\ n = 0 => wr[c] < Len(stream[c]) /\ IsLine(stream[c][wr[c] + 1])
    /\ wr' = [wr EXCEPT ![c] = @ + n]
    /\ pc' = [pc EXCEPT ![c] = "parse"]
    /\ ok' = [ok EXCEPT ![c] = TRUE]
    /\ UNCHANGED <<client, conn, rd, ctx, replies, handled, alive>>

---------------------------------------------------------------------------
(* The loop of parseRequest.                                               *)

InState(c, st) == pc[c] = "parse" /\ ctx[c].state = st

\* The readable bytes begin with a line, which ends at e.
LineAt(c, e) == EndsLine(stream[c], rd[c], wr[c], e)

\* What every step of the parser leaves alone.
ParserFrame == UNCHANGED <<client, conn, wr, replies, handled>>

\* Bug: one byte too many is retrieved.
ConsumeTooMuch(c, e) == rd' = [rd EXCEPT ![c] = e + 1]

ConsumeTo(c, e) == rd' = [rd EXCEPT ![c] = e]
Return(c, result) ==
    /\ pc' = [pc EXCEPT ![c] = "parsed"]
    /\ ok' = [ok EXCEPT ![c] = result]

\* No CRLF, or not enough bytes of the body yet: return and wait for more.
AwaitMore(c) ==
    /\ \/ /\ pc[c] = "parse"
          /\ ctx[c].state \in {"kExpectRequestLine", "kExpectHeaders"}
          /\ NoCRLF(stream[c], rd[c], wr[c])
       \/ /\ InState(c, "kExpectBody")
          /\ BodyIncomplete(ctx[c].request, rd[c], wr[c])
    /\ Return(c, ok[c])
    /\ UNCHANGED <<rd, ctx, alive>> /\ ParserFrame

\* A request line that is accepted is taken out of the buffer.
AcceptRequestLine(c, e) ==
    LET t == stream[c][e] IN
    /\ InState(c, "kExpectRequestLine")
    /\ LineAt(c, e)
    /\ ~MethodAssertFails(ctx[c].request, t)
    /\ RequestLineGood(t)
    /\ ctx' = [ctx EXCEPT ![c].state = "kExpectHeaders",
                          ![c].request = AfterRequestLine(@, t, Glued(rd[c], e))]
    /\ ConsumeTo(c, e)
    /\ ok' = [ok EXCEPT ![c] = TRUE]
    /\ UNCHANGED <<pc, alive>> /\ ParserFrame

\* One that is rejected stays in the buffer, and what was stored stays stored.
RejectRequestLine(c, e) ==
    LET t == stream[c][e] IN
    /\ InState(c, "kExpectRequestLine")
    /\ LineAt(c, e)
    /\ ~MethodAssertFails(ctx[c].request, t)
    /\ ~RequestLineThrows(t)
    /\ ~RequestLineGood(t)
    /\ ctx' = [ctx EXCEPT ![c].request = AfterRequestLine(@, t, Glued(rd[c], e))]
    /\ Return(c, FALSE)
    /\ UNCHANGED <<rd, alive>> /\ ParserFrame

\* setQueryParameters throws out of onMessage's try block.
ThrowInRequestLine(c, e) ==
    LET t == stream[c][e] IN
    /\ InState(c, "kExpectRequestLine")
    /\ LineAt(c, e)
    /\ ~MethodAssertFails(ctx[c].request, t)
    /\ RequestLineThrows(t)
    /\ ctx' = [ctx EXCEPT ![c].request = AfterRequestLine(@, t, Glued(rd[c], e))]
    /\ pc' = [pc EXCEPT ![c] = "catch"]
    /\ UNCHANGED <<rd, ok, alive>> /\ ParserFrame

\* The assertion in setMethod fails: the whole process aborts.
AbortInSetMethod(c, e) ==
    /\ InState(c, "kExpectRequestLine")
    /\ LineAt(c, e)
    /\ MethodAssertFails(ctx[c].request, stream[c][e])
    /\ alive' = FALSE
    /\ UNCHANGED <<rd, ctx, pc, ok>> /\ ParserFrame

ReadHeader(c, e) ==
    LET t == stream[c][e] IN
    /\ InState(c, "kExpectHeaders")
    /\ LineAt(c, e)
    /\ IsHeader(t)
    /\ ctx' = [ctx EXCEPT ![c].request =
                 AddHeader(@, HeaderNameOf(t, Glued(rd[c], e)), t.value)]
    /\ ConsumeTo(c, e)
    /\ UNCHANGED <<pc, ok, alive>> /\ ParserFrame

\* A line with no ':' is consumed; the parser stays among the headers.
RejectHeader(c, e) ==
    /\ InState(c, "kExpectHeaders")
    /\ LineAt(c, e)
    /\ BadHeaderLine(stream[c][e], Glued(rd[c], e))
    /\ ConsumeTo(c, e)
    /\ Return(c, FALSE)
    /\ UNCHANGED <<ctx, alive>> /\ ParserFrame

AtBlankLine(c, e) ==
    /\ InState(c, "kExpectHeaders")
    /\ LineAt(c, e)
    /\ IsBlank(stream[c][e], Glued(rd[c], e))

\* The blank line of a request without a body.
EndHeaders(c, e) ==
    /\ AtBlankLine(c, e)
    /\ ~NeedsBody(ctx[c].request)
    /\ ctx' = [ctx EXCEPT ![c].state = "kGotAll"]
    /\ ConsumeTo(c, e)
    /\ Return(c, ok[c])
    /\ UNCHANGED alive /\ ParserFrame

\* POST or PUT with no Content-Length: an error, and the state stays.
RejectHeaders(c, e) ==
    /\ AtBlankLine(c, e)
    /\ NeedsBody(ctx[c].request)
    /\ ContentLengthMissing(ctx[c].request)
    /\ ConsumeTo(c, e)
    /\ Return(c, FALSE)
    /\ UNCHANGED <<ctx, alive>> /\ ParserFrame

\* std::stoi throws before the blank line is consumed.
ThrowInContentLength(c, e) ==
    /\ AtBlankLine(c, e)
    /\ NeedsBody(ctx[c].request)
    /\ StoiThrows(ctx[c].request)
    /\ pc' = [pc EXCEPT ![c] = "catch"]
    /\ UNCHANGED <<rd, ctx, ok, alive>> /\ ParserFrame

\* A length that is not 0 makes the loop go on with the body.
ExpectBody(c, e) ==
    LET next == AfterContentLength(ctx[c]) IN
    /\ AtBlankLine(c, e)
    /\ NeedsBody(ctx[c].request)
    /\ ~ContentLengthMissing(ctx[c].request)
    /\ ~StoiThrows(ctx[c].request)
    /\ ctx' = [ctx EXCEPT ![c] = next]
    /\ ConsumeTo(c, e)
    /\ IF GotAll(next) THEN Return(c, ok[c]) ELSE UNCHANGED <<pc, ok>>
    /\ UNCHANGED alive /\ ParserFrame

ReadBody(c) ==
    /\ InState(c, "kExpectBody")
    /\ ~BodyIncomplete(ctx[c].request, rd[c], wr[c])
    /\ ctx' = [ctx EXCEPT ![c] = AfterBody(@, stream[c], rd[c])]
    /\ ConsumeTo(c, rd[c] + ctx[c].request.contentLength)
    /\ Return(c, ok[c])
    /\ UNCHANGED alive /\ ParserFrame

\* In kGotAll no branch is taken and hasMore stays true: the loop never ends.
Spin(c) ==
    /\ InState(c, "kGotAll")
    /\ pc' = [pc EXCEPT ![c] = "spinning"]
    /\ UNCHANGED <<rd, ctx, ok, alive>> /\ ParserFrame

---------------------------------------------------------------------------
(* The rest of onMessage.                                                  *)

\* 400 and shutdown, whatever parseRequest returned: a ';' ends the if of
\* line 123, and its block runs always.  Then a complete request is given to
\* onRequest.
AfterParse(c) ==
    /\ pc[c] = "parsed"
    /\ SendAndShutdown(c, 400, TRUE)
    /\ pc' = [pc EXCEPT ![c] = IF GotAll(ctx[c]) THEN "dispatch" ELSE "idle"]
    /\ UNCHANGED <<client, buffer, ctx, ok, handled, alive>>

\* onRequest: does the request ask for the connection to be closed?
WantsClose(req) ==
    LET connection == GetHeader(req, "Connection")
    IN \/ connection = "close"
       \/ req.version = "HTTP/1.0" /\ connection # "Keep-Alive"

\* What httpCallback_ makes of HttpResponse(close): a handler may set any
\* code and either value of closeConnection_; where it sets nothing, close
\* is what the request asked for.
Responses(req) ==
    [code : Code, close : BOOLEAN] \cup {[code |-> 0, close |-> WantsClose(req)]}

\* onRequest and then context->reset().
OnRequest(c, resp) ==
    /\ pc[c] = "dispatch"
    /\ resp \in Responses(ctx[c].request)
    /\ handled' = [handled EXCEPT ![c] = Append(@, ctx[c].request)]
    /\ SendAndShutdown(c, resp.code, resp.close)
    /\ ctx' = [ctx EXCEPT ![c] = Reset(@)]
    /\ pc'  = [pc EXCEPT ![c] = "idle"]
    /\ UNCHANGED <<client, buffer, ok, alive>>

\* The callback throws a std::exception: no response, and no reset.
\* handleRequest itself, the default callback, catches these.
ThrowInCallback(c) ==
    /\ CallbackThrows
    /\ pc[c] = "dispatch"
    /\ handled' = [handled EXCEPT ![c] = Append(@, ctx[c].request)]
    /\ pc' = [pc EXCEPT ![c] = "catch"]
    /\ UNCHANGED <<client, buffer, conn, ctx, ok, replies, alive>>

\* catch(const std::exception&): 400 and shutdown, no reset.
CatchException(c) ==
    /\ pc[c] = "catch"
    /\ SendAndShutdown(c, 400, TRUE)
    /\ pc' = [pc EXCEPT ![c] = "idle"]
    /\ UNCHANGED <<client, buffer, ctx, ok, handled, alive>>

---------------------------------------------------------------------------
\* A step on the line that ends at e.
LineStep(c, e) ==
    \/ AcceptRequestLine(c, e) \/ RejectRequestLine(c, e)
    \/ ThrowInRequestLine(c, e) \/ AbortInSetMethod(c, e)
    \/ ReadHeader(c, e) \/ RejectHeader(c, e)
    \/ EndHeaders(c, e) \/ RejectHeaders(c, e)
    \/ ThrowInContentLength(c, e) \/ ExpectBody(c, e)

\* A step of the IO thread inside onMessage.
ThreadStep(c) ==
    /\ alive
    /\ \/ AwaitMore(c) \/ ReadBody(c) \/ Spin(c)
       \/ \E e \in 1..Len(stream[c]) : LineStep(c, e)
       \/ AfterParse(c) \/ ThrowInCallback(c) \/ CatchException(c)
       \/ \E resp \in Responses(ctx[c].request) : OnRequest(c, resp)

\* A step of the client or of the network.
Environment(c) ==
    /\ alive
    /\ \/ OnConnected(c) \/ ClientClose(c)
       \/ \E r \in Requests : ClientSend(c, r)
       \/ \E n \in 0..Len(stream[c]) : Deliver(c, n)

Next == \E c \in Connection : ThreadStep(c) \/ Environment(c)

Spec == Init /\ [][Next]_vars

\* A callback that has been entered keeps running: its thread is scheduled.
\* Clients and the network owe nothing.
FairSpec == Spec /\ \A c \in Connection : WF_vars(ThreadStep(c))

---------------------------------------------------------------------------
(* Properties.                                                             *)

\* Every variable has its type, and the two indices of the input buffer of a
\* connection stay in order and inside what the client has written.
TypeOK ==
    /\ conn    \in [Connection -> ConnState]
    /\ sent    \in [Connection -> Seq(Requests)]
    /\ stream  \in [Connection -> Seq(Token)]
    /\ rd      \in [Connection -> Nat]
    /\ wr      \in [Connection -> Nat]
    /\ \A c \in Connection : rd[c] <= wr[c] /\ wr[c] <= Len(stream[c])
    /\ ctx     \in [Connection -> Context]
    /\ pc      \in [Connection -> PC]
    /\ ok      \in [Connection -> BOOLEAN]
    /\ replies \in [Connection -> Seq(Nat)]
    /\ handled \in [Connection -> Seq(Request)]
    /\ alive   \in BOOLEAN

\* The IO thread never enters parseRequest with a complete request in the
\* context, where its loop would not end: every path that completes one
\* (lines 87, 100 and 132 of HttpContext.cpp) is followed by a reset before
\* the next message, whichever response, exception or close comes between.
NoSpin == \A c \in Connection : pc[c] # "spinning"

\* With a callback that throws, that protection is lost, but only then: a
\* thread spins only on a request that has been given to the callback, and
\* its parser never leaves kGotAll again.
SpinsOnlyOnHandled ==
    \A c \in Connection :
        pc[c] = "spinning" => /\ GotAll(ctx[c])
                              /\ handled[c] # <<>>
                              /\ handled[c][Len(handled[c])] = ctx[c].request

\* onMessage returns: whatever the bytes are and however they are cut, the
\* loop of parseRequest and the tail of onMessage come to an end (or the
\* assertion in setMethod ends the process).
CallbackReturns ==
    \A c \in Connection : pc[c] = "parse" ~> (pc[c] = "idle" \/ ~alive)

\* A stretch of the stream frames itself: what follows the header lines is
\* what their Content-Length declares, or more is declared than can ever
\* arrive (a negative length becomes one close to 2^64).
IsLengthHeader(t) == IsHeader(t) /\ t.name = "Content-Length"
NeverArrives(n) ==
    \E q \in Requests : /\ \A r \in Requests : Len(r) <= Len(q)
                        /\ MaxRequests * Len(q) < n
BodyFollows(s, b, n) == b + n <= Len(s) /\ \A i \in b+1..b+n : ~IsLine(s[i])
FramesItself(s) ==
    \A p \in 1..Len(s) : IsLengthHeader(s[p]) =>
        \E b \in p+1..Len(s) :
            /\ s[b].kind = "blank"
            /\ \A i \in p+1..b-1 : IsLine(s[i]) /\ s[i].kind # "blank"
            /\ s[p].value \in DOMAIN Stoi =>
                 LET n == Stoi[s[p].value] % UintModulus
                 IN  BodyFollows(s, b, n) \/ NeverArrives(n)

\* Bodies stay framed through every error: what setBody stores are body
\* bytes, never a piece of a request line or of a header, if each request
\* frames itself, as one does that declares its length right or not at all.
BodyIsBytes ==
    \A c \in Connection : \A i \in 1..Len(ctx[c].request.content) :
        ~IsLine(ctx[c].request.content[i])

\* A request that brings no body of its own is handed over with the body of
\* the request handled before it on the connection: swap leaves content_.
CarriesBody(req) == NeedsBody(req) /\ req.contentLength > 0
StaleContent ==
    \A c \in Connection : \A i \in 1..Len(handled[c]) :
        ~CarriesBody(handled[c][i]) =>
            handled[c][i].content = IF i = 1 THEN <<>> ELSE handled[c][i - 1].content

\* The assertion of setMethod (HttpRequest.cpp:28) fails for one reason only:
\* a request line was rejected after its method had been stored, and is still
\* first in the buffer when more bytes come.  No error in the headers, in a
\* length or in a body, no request merged with junk, and no request that was
\* answered leaves a method behind.
DiesOfRejectedLine ==
    ~alive => \E c \in Connection : \E e \in 1..Len(stream[c]) :
                 /\ InState(c, "kExpectRequestLine") /\ LineAt(c, e)
                 /\ ~RequestLineGood(stream[c][e])

\* The process survives its clients: setMethod's assertion never fails.
\* HttpRequest.cpp:28 asserts it; well-behaved clients never break it.
ProcessAlive == alive

\* What a request is to its client and what the callback sees of it; the
\* content counts where a body was declared.
Declared(r, name) ==
    LET at == {i \in 1..Len(r) : IsHeader(r[i]) /\ r[i].name = name}
    IN IF at = {} THEN "" ELSE r[CHOOSE i \in at : \A j \in at : j <= i].value
BlankAt(r) == CHOOSE b \in 1..Len(r) : r[b].kind = "blank"
Meant(r) ==
    [method |-> r[1].method, path |-> r[1].path, version |-> r[1].version,
     query |-> r[1].args, headers |-> [h \in HeaderName |-> Declared(r, h)],
     content |-> SubSeq(r, BlankAt(r) + 1, Len(r))]
Seen(req) ==
    [method |-> req.method, path |-> req.path, version |-> req.version,
     query |-> req.query, headers |-> req.headers,
     content |-> IF CarriesBody(req) THEN req.content ELSE <<>>]

\* A request as RFC 9112 has it: a request line that is accepted, headers, a
\* blank line, and a body where the method has one, as long as declared.
WellFormedRequest(r) ==
    LET b == BlankAt(r)
        v == Declared(r, "Content-Length")
    IN /\ b \in 2..Len(r)
       /\ r[1].kind = "request" /\ RequestLineGood(r[1])
       /\ \A i \in 2..b-1 : IsHeader(r[i])
       /\ r[b].kind = "blank"
       /\ \A i \in b+1..Len(r) : ~IsLine(r[i])
       /\ IF r[1].method \in BodyMethod
          THEN v \in DOMAIN Stoi /\ Stoi[v] % UintModulus = Len(r) - b
          ELSE Len(r) = b

\* The server implements RequestStream for clients that write well-formed
\* requests, wherever TCP cuts them: the callback is given every request at
\* most once, in order, complete and unmixed.
Stream == INSTANCE RequestStream WITH
    Message   <- {Meant(r) : r \in Requests},
    written   <- [c \in Connection |-> [i \in 1..Len(sent[c]) |-> Meant(sent[c][i])]],
    delivered <- [c \in Connection |-> [i \in 1..Len(handled[c]) |-> Seen(handled[c][i])]]
RequestsInOrder == Stream!Spec

---------------------------------------------------------------------------
(* What the repository says and the code does not do.                      *)

\* HttpServer.cpp:125 says that the 400 is for an error while a message is
\* parsed: a client that writes well-formed requests never gets one.
BadRequestOnlyOnError ==
    (\A r \in Requests : WellFormedRequest(r)) =>
        \A c \in Connection : \A i \in 1..Len(replies[c]) : replies[c][i] # 400
===========================================================================
