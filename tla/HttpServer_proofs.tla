-------------------------- MODULE HttpServer_proofs --------------------------
(***************************************************************************)
(* Proofs about HttpServer, for every set of connections and requests.     *)
(*                                                                         *)
(* The type invariant is proved first, then for each property a            *)
(* strengthening (SpinInv, StaleInv, BodyInv, StreamInv, RejectedInv) that *)
(* the steps preserve given the types.  An action touches one connection   *)
(* only, so each case of a proof concerns that connection and leaves the   *)
(* others to the frame.                                                    *)
(***************************************************************************)
EXTENDS HttpServer, SequenceTheorems, TLAPS

---------------------------------------------------------------------------
(* What the operators of the parser return.                                *)

\* The fields of a token are known from its kind.
LEMMA TokenFields ==
    ASSUME NEW t \in Token
    PROVE  /\ t.kind = "request" =>
                /\ t.method \in Method /\ t.path \in Path
                /\ t.args \in Seq(Pair)
                /\ t.version \in Version \cup {"other", "question", "none"}
           /\ t.kind = "header" => t.name \in HeaderName /\ t.value \in HeaderValue
BY DEF Token, RequestLine, HeaderLine, NoColonLine, BlankLine, BodyByte

\* The part of the assumption that arithmetic needs.
LEMMA Modulus == UintModulus \in Nat /\ UintModulus > 0
<1>1. UintModulus \in Nat \ {0}
  BY HttpRequestAssumption
<1> QED
  BY <1>1

\* A request line leaves a well-typed request behind, good or not.
LEMMA AfterRequestLineType ==
    ASSUME NEW req \in Request, NEW t \in Token, NEW glued \in BOOLEAN
    PROVE  AfterRequestLine(req, t, glued) \in Request
<1>1. CASE ~HasSpace(t)
  BY <1>1 DEF AfterRequestLine
<1>2. CASE HasSpace(t)
  <2> DEFINE m == MethodOf(t, glued)
             p == IF HasPath(t) THEN t.path ELSE req.path
             q == IF HasPath(t) /\ ~QueryThrows(t.args) /\ t.args # <<>>
                  THEN t.args ELSE req.query
             v == IF RequestLineGood(t) THEN t.version ELSE req.version
  <2>1. m \in Method
    BY TokenFields DEF MethodOf, Method
  <2>2. p \in Path \cup {""}
    BY TokenFields DEF HasPath, Request
  <2>3. q \in Seq(Pair)
    BY TokenFields DEF HasPath, Request
  <2>4. v \in Version \cup {"Unknown"}
    BY TokenFields DEF RequestLineGood, Request
  <2>5. AfterRequestLine(req, t, glued)
          = [req EXCEPT !.method = m, !.path = p, !.query = q, !.version = v]
    BY <1>2 DEF AfterRequestLine
  <2> HIDE DEF m, p, q, v
  <2> QED
    BY <2>1, <2>2, <2>3, <2>4, <2>5 DEF Request
<1> QED
  BY <1>1, <1>2

\* reset and the constructor give well-typed requests.
LEMMA NewRequestType ==
    /\ NewContext \in Context
    /\ \A x \in Context : Reset(x) \in Context
<1>0. 0 \in 0..(UintModulus - 1)
  BY Modulus
<1>1. "" \in HeaderValue
  BY HttpRequestAssumption
<1>2. <<>> \in Seq(Pair) /\ <<>> \in Seq(Token)
  BY EmptySeq
<1>3. NewRequest \in Request
  BY <1>0, <1>1, <1>2 DEF NewRequest, Request, Method, Version
<1>4. ASSUME NEW r \in Request PROVE SwapWithNew(r) \in Request
  BY <1>3 DEF SwapWithNew, Request, NewRequest
<1> QED
  BY <1>3, <1>4 DEF NewContext, Reset, Context, ParseState

\* The declared length, as a uint64_t, is in range whatever stoi returned.
LEMMA AfterContentLengthType ==
    ASSUME NEW x \in Context, ~ContentLengthMissing(x.request), ~StoiThrows(x.request)
    PROVE  AfterContentLength(x) \in Context
<1> DEFINE v == ContentLengthText(x.request)
<1>1. v \in DOMAIN Stoi
  BY DEF StoiThrows
<1>2. Stoi[v] \in Int /\ UintModulus \in Nat \ {0}
  BY <1>1, HttpRequestAssumption, Modulus
<1>3. Stoi[v] % UintModulus \in 0..(UintModulus - 1)
  BY <1>2
<1>4. SetContentLength(x.request, v) \in Request
  BY <1>3 DEF SetContentLength, Request, Context
<1> QED
  BY <1>4 DEF AfterContentLength, Context, ParseState

\* The body is a piece of the stream.
LEMMA AfterBodyType ==
    ASSUME NEW x \in Context, NEW s \in Seq(Token), NEW i \in Nat, NEW j \in Nat,
           i <= j, j <= Len(s), ~BodyIncomplete(x.request, i, j)
    PROVE  /\ AfterBody(x, s, i) \in Context
           /\ i + x.request.contentLength \in Nat
           /\ i + x.request.contentLength <= j
<1> DEFINE n == x.request.contentLength
<1>1. n \in Nat /\ i + n <= j
  <2>1. n \in 0..(UintModulus - 1)
    BY DEF Context, Request
  <2> QED
    BY <2>1, Modulus DEF BodyIncomplete
<1>2. SubSeq(s, i + 1, i + n) \in Seq(Token)
  <2>1. i + 1 \in 1..Len(s) + 1 /\ i + n \in i + 1 - 1 .. Len(s)
    BY <1>1, LenProperties
  <2> QED
    BY <2>1, <1>1, SubSeqProperties
<1> HIDE DEF n
<1>3. [x.request EXCEPT !.content = SubSeq(s, i + 1, i + n)] \in Request
  BY <1>2 DEF Context, Request
<1> QED
  BY <1>1, <1>3 DEF AfterBody, Context, ParseState, n

---------------------------------------------------------------------------
(* The type invariant.                                                     *)

\* The initial state is well typed.
LEMMA InitType == Init => TypeOK
BY NewRequestType, EmptySeq DEF Init, TypeOK, ConnState, PC

\* A step of the parser replaces the context of one connection, moves its
\* reader index inside the readable part, and sets the control variables.
LEMMA ParserStepType ==
    ASSUME TypeOK, ParserFrame, NEW c \in Connection,
           NEW x \in Context, ctx' = [ctx EXCEPT ![c] = x],
           NEW i \in Nat, i <= wr[c], rd' = [rd EXCEPT ![c] = i],
           pc' \in [Connection -> PC], ok' \in [Connection -> BOOLEAN],
           alive' \in BOOLEAN
    PROVE  TypeOK'
<1>1. ctx' \in [Connection -> Context]
  BY DEF TypeOK
<1>2. rd' \in [Connection -> Nat]
  BY DEF TypeOK
<1>3. \A d \in Connection : rd'[d] <= wr'[d] /\ wr'[d] <= Len(stream'[d])
  BY DEF TypeOK, ParserFrame, client
<1> QED
  BY <1>1, <1>2, <1>3 DEF TypeOK, ParserFrame, client

\* The line a step of the parser works on is a token of the stream.
LEMMA LineType ==
    ASSUME TypeOK, NEW c \in Connection, NEW e, LineAt(c, e)
    PROVE  /\ e \in Nat /\ e <= wr[c] /\ rd[c] < e
           /\ stream[c][e] \in Token
           /\ Glued(rd[c], e) \in BOOLEAN
<1>1. /\ rd[c] \in Nat /\ wr[c] \in Nat /\ wr[c] <= Len(stream[c])
      /\ stream[c] \in Seq(Token)
  BY DEF TypeOK
<1>2. e \in rd[c]+1..wr[c]
  BY DEF LineAt, EndsLine
<1>3. Len(stream[c]) \in Nat
  BY <1>1, LenProperties
<1>4. e \in 1..Len(stream[c])
  BY <1>1, <1>2, <1>3
<1> QED
  BY <1>1, <1>2, <1>4, ElementOfSeq DEF Glued

\* The control variables stay in their sets.
LEMMA ReturnType ==
    ASSUME TypeOK, NEW c \in Connection, NEW b \in BOOLEAN, Return(c, b)
    PROVE  pc' \in [Connection -> PC] /\ ok' \in [Connection -> BOOLEAN]
BY DEF TypeOK, Return, PC

\* What a response does to the types.
LEMMA SendType ==
    ASSUME TypeOK, NEW c \in Connection, NEW code \in Nat,
           replies' = [replies EXCEPT ![c] = Send(c, code)],
           \/ conn' = conn
           \/ conn' = [conn EXCEPT ![c] = ShutdownOf(conn[c])]
    PROVE  replies' \in [Connection -> Seq(Nat)] /\ conn' \in [Connection -> ConnState]
<1>1. Send(c, code) \in Seq(Nat)
  BY AppendProperties DEF Send, TypeOK
<1>2. replies' \in [Connection -> Seq(Nat)]
  BY <1>1 DEF TypeOK
<1>3. conn' \in [Connection -> ConnState]
  BY DEF ShutdownOf, TypeOK, ConnState
<1> QED
  BY <1>2, <1>3

\* What a handler answers has a status code.
LEMMA ResponseType ==
    ASSUME NEW req, NEW resp \in Responses(req)
    PROVE  resp.code \in Nat
<1>1. Code \subseteq Nat
  BY HttpServerAssumption
<1>2. CASE resp \in [code : Code, close : BOOLEAN]
  BY <1>1, <1>2
<1>3. CASE resp = [code |-> 0, close |-> WantsClose(req)]
  <2>1. resp.code = 0
    BY <1>3, Zenon
  <2> QED
    BY <2>1
<1> QED
  BY <1>2, <1>3, Zenon DEF Responses

LEMMA ThreadStepType ==
    ASSUME TypeOK, NEW c \in Connection, ThreadStep(c)
    PROVE  TypeOK'
<1> DEFINE unchanged == ctx' = [ctx EXCEPT ![c] = ctx[c]]
           unread    == rd' = [rd EXCEPT ![c] = rd[c]]
<1>0. /\ ctx[c] \in Context /\ ctx[c].request \in Request /\ ok[c] \in BOOLEAN
      /\ rd[c] \in Nat /\ wr[c] \in Nat /\ rd[c] <= wr[c]
      /\ wr[c] <= Len(stream[c]) /\ stream[c] \in Seq(Token)
      /\ pc \in [Connection -> PC] /\ ok \in [Connection -> BOOLEAN]
      /\ ctx \in [Connection -> Context] /\ rd \in [Connection -> Nat]
      /\ alive \in BOOLEAN
  BY DEF TypeOK, Context
<1>u. /\ UNCHANGED ctx => unchanged
      /\ UNCHANGED rd => unread
  BY <1>0
<1>1. CASE AwaitMore(c)
  BY <1>1, <1>0, <1>u, ReturnType, ParserStepType DEF AwaitMore
<1>2. CASE ReadBody(c)
  <2>1. /\ AfterBody(ctx[c], stream[c], rd[c]) \in Context
        /\ rd[c] + ctx[c].request.contentLength \in Nat
        /\ rd[c] + ctx[c].request.contentLength <= wr[c]
    BY <1>2, <1>0, AfterBodyType DEF ReadBody
  <2>2. /\ ctx' = [ctx EXCEPT ![c] = AfterBody(ctx[c], stream[c], rd[c])]
        /\ rd' = [rd EXCEPT ![c] = rd[c] + ctx[c].request.contentLength]
        /\ Return(c, ok[c]) /\ UNCHANGED alive /\ ParserFrame
    BY <1>2 DEF ReadBody, ConsumeTo
  <2> QED
    BY <2>1, <2>2, <1>0, ReturnType, ParserStepType
<1>3. CASE Spin(c)
  <2>1. pc' \in [Connection -> PC]
    BY <1>3, <1>0 DEF Spin, PC
  <2> QED
    BY <2>1, <1>3, <1>0, <1>u, ParserStepType DEF Spin
<1>4. ASSUME NEW e \in 1..Len(stream[c]), LineStep(c, e) PROVE TypeOK'
  <2> DEFINE t == stream[c][e]
             after == AfterRequestLine(ctx[c].request, t, Glued(rd[c], e))
             wline == [ctx[c] EXCEPT !.request = after]
  <2>1. LineAt(c, e)
    BY <1>4 DEF LineStep, AcceptRequestLine, RejectRequestLine, ThrowInRequestLine,
                AbortInSetMethod, ReadHeader, RejectHeader, EndHeaders, RejectHeaders,
                ThrowInContentLength, ExpectBody, AtBlankLine
  <2>2. /\ e \in Nat /\ e <= wr[c] /\ t \in Token /\ Glued(rd[c], e) \in BOOLEAN
    BY <2>1, LineType
  <2>3. after \in Request
    BY <2>2, <1>0, AfterRequestLineType
  <2>4. wline \in Context /\ [wline EXCEPT !.state = "kExpectHeaders"] \in Context
    BY <2>3, <1>0 DEF Context, ParseState
  <2> HIDE DEF after
  <2>5. CASE AcceptRequestLine(c, e)
    <3>1. ctx' = [ctx EXCEPT ![c] = [wline EXCEPT !.state = "kExpectHeaders"]]
      BY <2>5, <1>0 DEF AcceptRequestLine, Context, after
    <3>2. ok' \in [Connection -> BOOLEAN]
      BY <2>5, <1>0 DEF AcceptRequestLine
    <3> QED
      BY <3>1, <3>2, <2>2, <2>4, <2>5, <1>0, ParserStepType DEF AcceptRequestLine, ConsumeTo
  <2>6. CASE RejectRequestLine(c, e)
    <3>1. ctx' = [ctx EXCEPT ![c] = wline]
      BY <2>6, <1>0 DEF RejectRequestLine, Context, after
    <3> QED
      BY <3>1, <2>4, <2>6, <1>0, <1>u, ReturnType, ParserStepType DEF RejectRequestLine
  <2>7. CASE ThrowInRequestLine(c, e)
    <3>1. ctx' = [ctx EXCEPT ![c] = wline]
      BY <2>7, <1>0 DEF ThrowInRequestLine, Context, after
    <3>2. pc' \in [Connection -> PC]
      BY <2>7, <1>0 DEF ThrowInRequestLine, PC
    <3> QED
      BY <3>1, <3>2, <2>4, <2>7, <1>0, <1>u, ParserStepType DEF ThrowInRequestLine
  <2>8. CASE AbortInSetMethod(c, e)
    BY <2>8, <1>0, <1>u, ParserStepType DEF AbortInSetMethod
  <2>9. CASE ReadHeader(c, e)
    <3> DEFINE h == AddHeader(ctx[c].request, HeaderNameOf(t, Glued(rd[c], e)), t.value)
    <3>1. HeaderNameOf(t, Glued(rd[c], e)) \in HeaderName
      BY <2>2, <2>9, TokenFields, HttpRequestAssumption DEF HeaderNameOf, ReadHeader, IsHeader
    <3>2. t.value \in HeaderValue
      BY <2>2, <2>9, TokenFields DEF ReadHeader, IsHeader
    <3>3. h \in Request
      BY <3>1, <3>2, <1>0 DEF AddHeader, Request
    <3> HIDE DEF h
    <3>4. ctx' = [ctx EXCEPT ![c] = [ctx[c] EXCEPT !.request = h]]
      BY <2>9, <1>0 DEF ReadHeader, Context, h
    <3>5. [ctx[c] EXCEPT !.request = h] \in Context
      BY <3>3, <1>0 DEF Context
    <3> QED
      BY <3>4, <3>5, <2>2, <2>9, <1>0, ParserStepType DEF ReadHeader, ConsumeTo
  <2>10. CASE RejectHeader(c, e)
    BY <2>10, <2>2, <1>0, <1>u, ReturnType, ParserStepType DEF RejectHeader, ConsumeTo
  <2>11. CASE EndHeaders(c, e)
    <3>1. ctx' = [ctx EXCEPT ![c] = [ctx[c] EXCEPT !.state = "kGotAll"]]
      BY <2>11, <1>0 DEF EndHeaders
    <3>2. [ctx[c] EXCEPT !.state = "kGotAll"] \in Context
      BY <1>0 DEF Context, ParseState
    <3> QED
      BY <3>1, <3>2, <2>11, <2>2, <1>0, ReturnType, ParserStepType DEF EndHeaders, ConsumeTo
  <2>12. CASE RejectHeaders(c, e)
    BY <2>12, <2>2, <1>0, <1>u, ReturnType, ParserStepType DEF RejectHeaders, ConsumeTo
  <2>13. CASE ThrowInContentLength(c, e)
    <3>1. pc' \in [Connection -> PC]
      BY <2>13, <1>0 DEF ThrowInContentLength, PC
    <3> QED
      BY <3>1, <2>13, <1>0, <1>u, ParserStepType DEF ThrowInContentLength
  <2>14. CASE ExpectBody(c, e)
    <3>1. AfterContentLength(ctx[c]) \in Context
      BY <2>14, <1>0, AfterContentLengthType DEF ExpectBody
    <3>2. pc' \in [Connection -> PC] /\ ok' \in [Connection -> BOOLEAN]
      BY <2>14, <1>0, ReturnType DEF ExpectBody
    <3> QED
      BY <3>1, <3>2, <2>14, <2>2, <1>0, ParserStepType DEF ExpectBody, ConsumeTo
  <2> QED
    BY <1>4, <2>5, <2>6, <2>7, <2>8, <2>9, <2>10, <2>11, <2>12, <2>13, <2>14 DEF LineStep
<1>5. CASE AfterParse(c)
  <2>1. replies' \in [Connection -> Seq(Nat)] /\ conn' \in [Connection -> ConnState]
    <3>1. PICK code \in Nat : code = 400
      OBVIOUS
    <3>2. /\ replies' = [replies EXCEPT ![c] = Send(c, code)]
          /\ conn' = [conn EXCEPT ![c] = ShutdownOf(conn[c])]
      BY <1>5, <3>1 DEF AfterParse, SendAndShutdown
    <3> QED
      BY <3>2, SendType
  <2> QED
    BY <2>1, <1>5 DEF AfterParse, TypeOK, client, buffer, PC
<1>6. CASE ThrowInCallback(c)
  <2>1. handled' \in [Connection -> Seq(Request)]
    BY <1>6, <1>0, AppendProperties DEF ThrowInCallback, TypeOK
  <2> QED
    BY <2>1, <1>6 DEF ThrowInCallback, TypeOK, client, buffer, PC
<1>7. CASE CatchException(c)
  <2>1. replies' \in [Connection -> Seq(Nat)] /\ conn' \in [Connection -> ConnState]
    <3>1. PICK code \in Nat : code = 400
      OBVIOUS
    <3>2. /\ replies' = [replies EXCEPT ![c] = Send(c, code)]
          /\ conn' = [conn EXCEPT ![c] = ShutdownOf(conn[c])]
      BY <1>7, <3>1 DEF CatchException, SendAndShutdown
    <3> QED
      BY <3>2, SendType
  <2> QED
    BY <2>1, <1>7 DEF CatchException, TypeOK, client, buffer, PC
<1>8. ASSUME NEW resp \in Responses(ctx[c].request), OnRequest(c, resp) PROVE TypeOK'
  <2>1. handled' \in [Connection -> Seq(Request)]
    BY <1>8, <1>0, AppendProperties DEF OnRequest, TypeOK
  <2>2. resp.code \in Nat
    BY ResponseType
  <2>3. replies' \in [Connection -> Seq(Nat)] /\ conn' \in [Connection -> ConnState]
    <3>1. /\ replies' = [replies EXCEPT ![c] = Send(c, resp.code)]
          /\ \/ conn' = [conn EXCEPT ![c] = conn[c]]
             \/ conn' = [conn EXCEPT ![c] = ShutdownOf(conn[c])]
      BY <1>8 DEF OnRequest, SendAndShutdown
    <3>2. [conn EXCEPT ![c] = conn[c]] = conn
      BY DEF TypeOK
    <3> QED
      BY <3>1, <3>2, <2>2, SendType
  <2>5. ctx' \in [Connection -> Context]
    BY <1>8, <1>0, NewRequestType DEF OnRequest
  <2> QED
    BY <2>1, <2>3, <2>5, <1>8 DEF OnRequest, TypeOK, client, buffer, PC
<1> QED
  BY <1>1, <1>2, <1>3, <1>4, <1>5, <1>6, <1>7, <1>8 DEF ThreadStep

LEMMA EnvironmentType ==
    ASSUME TypeOK, NEW c \in Connection, Environment(c)
    PROVE  TypeOK'
<1>1. CASE OnConnected(c)
  BY <1>1, NewRequestType DEF OnConnected, TypeOK, client, buffer, ConnState
<1>2. CASE ClientClose(c)
  BY <1>2 DEF ClientClose, TypeOK, client, buffer, ConnState
<1>3. ASSUME NEW r \in Requests, ClientSend(c, r) PROVE TypeOK'
  <2>1. sent' \in [Connection -> Seq(Requests)]
    BY <1>3, AppendProperties DEF ClientSend, TypeOK
  <2>2. /\ stream[c] \o r \in Seq(Token)
        /\ Len(stream[c] \o r) = Len(stream[c]) + Len(r)
        /\ Len(stream[c]) \in Nat /\ Len(r) \in Nat
    <3>1. r \in Seq(Token) /\ stream[c] \in Seq(Token)
      BY HttpServerAssumption DEF TypeOK
    <3> QED
      BY <3>1, ConcatProperties, LenProperties
  <2>3. stream' \in [Connection -> Seq(Token)]
    BY <1>3, <2>2 DEF ClientSend, TypeOK
  <2>4. \A d \in Connection : wr[d] <= Len(stream'[d])
    <3> SUFFICES ASSUME NEW d \in Connection PROVE wr[d] <= Len(stream'[d])
      OBVIOUS
    <3>1. wr[d] \in Nat /\ wr[d] <= Len(stream[d])
      BY DEF TypeOK
    <3>2. stream'[d] = IF d = c THEN stream[c] \o r ELSE stream[d]
      BY <1>3 DEF ClientSend, TypeOK
    <3> QED
      BY <3>1, <3>2, <2>2
  <2> QED
    BY <2>1, <2>3, <2>4, <1>3 DEF ClientSend, TypeOK, buffer
<1>4. ASSUME NEW n \in 0..Len(stream[c]), Deliver(c, n) PROVE TypeOK'
  <2>1. Len(stream[c]) \in Nat
    BY LenProperties DEF TypeOK
  <2>2. n \in Nat /\ wr[c] \in Nat /\ wr[c] + n <= Len(stream[c]) /\ rd[c] \in Nat /\ rd[c] <= wr[c]
    BY <2>1, <1>4 DEF Deliver, TypeOK
  <2>3. wr' \in [Connection -> Nat]
    BY <2>2, <1>4 DEF Deliver, TypeOK
  <2>4. \A d \in Connection : rd[d] <= wr'[d] /\ wr'[d] <= Len(stream[d])
    BY <2>1, <2>2, <1>4 DEF Deliver, TypeOK
  <2> QED
    BY <2>3, <2>4, <1>4 DEF Deliver, TypeOK, client, PC
<1> QED
  BY <1>1, <1>2, <1>3, <1>4 DEF Environment

\* Every reachable state is well typed, and the parser never reads beyond
\* what the client has written (HttpContext.cpp:119-130).
THEOREM TypeCorrect == Spec => []TypeOK
<1>1. Init => TypeOK
  BY InitType
<1>2. TypeOK /\ [Next]_vars => TypeOK'
  <2> SUFFICES ASSUME TypeOK, [Next]_vars PROVE TypeOK'
    OBVIOUS
  <2>1. CASE Next
    BY <2>1, ThreadStepType, EnvironmentType DEF Next
  <2>2. CASE UNCHANGED vars
    BY <2>2 DEF vars, TypeOK
  <2> QED
    BY <2>1, <2>2
<1> QED
  BY <1>1, <1>2, PTL DEF Spec

---------------------------------------------------------------------------
(* Where the thread may be while a connection can send.                    *)

\* Inductive: as long as a connection can still send, nothing has been sent
\* on it and no request is at the callback; the 400 ends that for good.
ReplyInv ==
    \A c \in Connection :
        /\ replies[c] \in {<<>>, <<400>>}
        /\ conn[c] \in {"new", "connected"} => replies[c] = <<>>
        /\ conn[c] \in {"new", "connected"} => pc[c] # "dispatch"
        /\ conn[c] = "new" => pc[c] = "idle"

\* A 400 with a shutdown, from the tail of onMessage or its catch block.
LEMMA BadRequestKeepsReplyInv ==
    ASSUME TypeOK, ReplyInv, NEW c \in Connection, pc[c] # "idle",
           SendAndShutdown(c, 400, TRUE), NEW p, pc' = [pc EXCEPT ![c] = p]
    PROVE  ReplyInv'
<1> SUFFICES ASSUME NEW d \in Connection
             PROVE  /\ replies'[d] \in {<<>>, <<400>>}
                    /\ conn'[d] \in {"new", "connected"} => replies'[d] = <<>>
                    /\ conn'[d] \in {"new", "connected"} => pc'[d] # "dispatch"
                    /\ conn'[d] = "new" => pc'[d] = "idle"
  BY DEF ReplyInv
<1>1. CASE d # c
  BY <1>1 DEF ReplyInv, TypeOK, SendAndShutdown
<1>2. CASE d = c
  <2>1. conn[c] # "new"
    BY DEF ReplyInv
  <2>2. conn'[c] \notin {"new", "connected"}
    BY <2>1 DEF SendAndShutdown, ShutdownOf, TypeOK
  <2>3. Append(<<>>, 400) = <<400>>
    OBVIOUS
  <2>4. replies'[c] = IF conn[c] = "connected" THEN Append(replies[c], 400) ELSE replies[c]
    BY DEF SendAndShutdown, Send, TypeOK
  <2>5. replies'[c] \in {<<>>, <<400>>}
    <3>1. CASE conn[c] = "connected"
      <4>1. replies[c] = <<>>
        BY <3>1 DEF ReplyInv
      <4> QED
        BY <3>1, <4>1, <2>3, <2>4, ZenonT(30)
    <3>2. CASE conn[c] # "connected"
      BY <3>2, <2>4 DEF ReplyInv
    <3> QED
      BY <3>1, <3>2
  <2> QED
    BY <1>2, <2>2, <2>5
<1> QED
  BY <1>1, <1>2

\* Every step keeps it.
LEMMA ReplyInvStep == TypeOK /\ ReplyInv /\ [Next]_vars => ReplyInv'
<1> SUFFICES ASSUME TypeOK, ReplyInv, [Next]_vars PROVE ReplyInv'
  OBVIOUS
<1>1. CASE UNCHANGED vars
  BY <1>1 DEF vars, ReplyInv
<1>2. ASSUME NEW c \in Connection, Environment(c) PROVE ReplyInv'
  <2>1. CASE OnConnected(c)
    BY <2>1 DEF OnConnected, ReplyInv, TypeOK
  <2>2. CASE ClientClose(c)
    BY <2>2 DEF ClientClose, ReplyInv, TypeOK
  <2>3. ASSUME NEW r \in Requests, ClientSend(c, r) PROVE ReplyInv'
    BY <2>3 DEF ClientSend, ReplyInv
  <2>4. ASSUME NEW n \in 0..Len(stream[c]), Deliver(c, n) PROVE ReplyInv'
    BY <2>4 DEF Deliver, Open, ReplyInv, TypeOK
  <2> QED
    BY <1>2, <2>1, <2>2, <2>3, <2>4 DEF Environment
<1>3. ASSUME NEW c \in Connection, ThreadStep(c) PROVE ReplyInv'
  <2>1. ASSUME pc[c] = "parse", ParserFrame,
               \/ UNCHANGED pc
               \/ \E p \in {"parsed", "catch", "spinning"} : pc' = [pc EXCEPT ![c] = p]
        PROVE  ReplyInv'
    <3>1. conn[c] # "new" /\ UNCHANGED <<replies, conn>>
      BY <2>1 DEF ReplyInv, ParserFrame
    <3> QED
      BY <2>1, <3>1 DEF ReplyInv, TypeOK
  <2>2. CASE AwaitMore(c) \/ ReadBody(c) \/ Spin(c)
    <3>1. pc[c] = "parse" /\ ParserFrame
      BY <2>2 DEF AwaitMore, ReadBody, Spin, InState
    <3>2. \E p \in {"parsed", "catch", "spinning"} : pc' = [pc EXCEPT ![c] = p]
      BY <2>2 DEF AwaitMore, ReadBody, Spin, Return
    <3> QED
      BY <2>1, <3>1, <3>2
  <2>3. ASSUME NEW e \in 1..Len(stream[c]), LineStep(c, e) PROVE ReplyInv'
    <3>1. pc[c] = "parse" /\ ParserFrame
      BY <2>3 DEF LineStep, AcceptRequestLine, RejectRequestLine, ThrowInRequestLine,
         AbortInSetMethod, ReadHeader, RejectHeader, EndHeaders, RejectHeaders,
         ThrowInContentLength, ExpectBody, AtBlankLine, InState
    <3>2. \/ UNCHANGED pc
          \/ \E p \in {"parsed", "catch", "spinning"} : pc' = [pc EXCEPT ![c] = p]
      BY <2>3 DEF LineStep, AcceptRequestLine, RejectRequestLine, ThrowInRequestLine,
         AbortInSetMethod, ReadHeader, RejectHeader, EndHeaders, RejectHeaders,
         ThrowInContentLength, ExpectBody, Return
    <3> QED
      BY <2>1, <3>1, <3>2
  <2>4. CASE AfterParse(c)
    BY <2>4, BadRequestKeepsReplyInv DEF AfterParse
  <2>5. CASE CatchException(c)
    BY <2>5, BadRequestKeepsReplyInv DEF CatchException
  <2>6. CASE ThrowInCallback(c)
    BY <2>6 DEF ThrowInCallback, ReplyInv, TypeOK
  <2>7. ASSUME NEW resp \in Responses(ctx[c].request), OnRequest(c, resp) PROVE ReplyInv'
    <3>1. conn[c] \notin {"new", "connected"}
      BY <2>7 DEF OnRequest, ReplyInv
    <3>2. replies' = replies /\ conn' = conn
      BY <2>7, <3>1 DEF OnRequest, SendAndShutdown, Send, ShutdownOf, TypeOK
    <3> QED
      BY <2>7, <3>2 DEF OnRequest, ReplyInv, TypeOK
  <2> QED
    BY <1>3, <2>2, <2>3, <2>4, <2>5, <2>6, <2>7 DEF ThreadStep
<1> QED
  BY <1>1, <1>2, <1>3 DEF Next

LEMMA ReplyInvCorrect == Spec => []ReplyInv
<1>1. Init => ReplyInv
  BY DEF Init, ReplyInv
<1> QED
  BY <1>1, ReplyInvStep, TypeCorrect, PTL DEF Spec

---------------------------------------------------------------------------
(* The parser is entered with a complete request after a throw only.       *)

\* Inductive: a complete request in a context is on its way to the callback,
\* or the callback has thrown on it.
ThrewOn(c) ==
    /\ CallbackThrows
    /\ handled[c] # <<>>
    /\ handled[c][Len(handled[c])] = ctx[c].request
SpinInv ==
    \A c \in Connection :
        /\ GotAll(ctx[c]) /\ pc[c] \notin {"parsed", "dispatch"} => ThrewOn(c)
        /\ pc[c] = "spinning" => GotAll(ctx[c])

\* A step of the parser completes a request only when it also returns.
LEMMA ParserKeepsSpinInv ==
    ASSUME TypeOK, SpinInv, NEW c \in Connection, ~GotAll(ctx[c]), pc[c] = "parse",
           ParserFrame, NEW x \in Context, ctx' = [ctx EXCEPT ![c] = x],
           \/ ~GotAll(x) /\ UNCHANGED pc
           \/ ~GotAll(x) /\ pc' = [pc EXCEPT ![c] = "catch"]
           \/ pc' = [pc EXCEPT ![c] = "parsed"]
    PROVE  SpinInv'
<1> SUFFICES ASSUME NEW d \in Connection
             PROVE  /\ GotAll(ctx'[d]) /\ pc'[d] \notin {"parsed", "dispatch"} => ThrewOn(d)'
                    /\ pc'[d] = "spinning" => GotAll(ctx'[d])
  BY DEF SpinInv
<1>1. CASE d # c
  BY <1>1 DEF SpinInv, ThrewOn, TypeOK, ParserFrame
<1>2. CASE d = c
  BY <1>2 DEF TypeOK
<1> QED
  BY <1>1, <1>2

\* Every step on a line is such a step.
LEMMA LineKeepsSpinInv ==
    ASSUME TypeOK, SpinInv, TypeOK', NEW c \in Connection, NEW e, LineStep(c, e)
    PROVE  SpinInv'
<1>1. ctx \in [Connection -> Context] /\ ctx[c] \in Context /\ ctx' \in [Connection -> Context]
  BY DEF TypeOK
<1>2. pc[c] = "parse" /\ ParserFrame /\ ~GotAll(ctx[c])
  BY DEF LineStep, AcceptRequestLine, RejectRequestLine, ThrowInRequestLine,
     AbortInSetMethod, ReadHeader, RejectHeader, EndHeaders, RejectHeaders,
     ThrowInContentLength, ExpectBody, AtBlankLine, InState, GotAll
<1>3. \E x : ctx' = [ctx EXCEPT ![c] = x]
  <2>1. CASE UNCHANGED ctx
    BY <2>1, <1>1
  <2>2. CASE ~UNCHANGED ctx
    BY <2>2 DEF LineStep, AcceptRequestLine, RejectRequestLine, ThrowInRequestLine,
       AbortInSetMethod, ReadHeader, RejectHeader, EndHeaders, RejectHeaders,
       ThrowInContentLength, ExpectBody
  <2> QED
    BY <2>1, <2>2
<1>4. ctx' = [ctx EXCEPT ![c] = ctx'[c]] /\ ctx'[c] \in Context
  BY <1>1, <1>3
<1>5. \/ ~GotAll(ctx'[c]) /\ UNCHANGED pc
      \/ ~GotAll(ctx'[c]) /\ pc' = [pc EXCEPT ![c] = "catch"]
      \/ pc' = [pc EXCEPT ![c] = "parsed"]
  <2>1. CASE AcceptRequestLine(c, e)
    BY <2>1, <1>1 DEF AcceptRequestLine, GotAll, Context
  <2>2. CASE ThrowInRequestLine(c, e)
    BY <2>2, <1>1, <1>2 DEF ThrowInRequestLine, GotAll, Context
  <2>3. CASE ReadHeader(c, e)
    BY <2>3, <1>1, <1>2 DEF ReadHeader, GotAll, Context
  <2>4. CASE ExpectBody(c, e)
    BY <2>4, <1>1 DEF ExpectBody, Return, GotAll
  <2>5. CASE AbortInSetMethod(c, e) \/ ThrowInContentLength(c, e)
    BY <2>5, <1>2 DEF AbortInSetMethod, ThrowInContentLength
  <2>6. CASE \/ RejectRequestLine(c, e) \/ RejectHeader(c, e)
             \/ EndHeaders(c, e) \/ RejectHeaders(c, e)
    BY <2>6 DEF RejectRequestLine, RejectHeader, EndHeaders, RejectHeaders, Return
  <2> QED
    BY <2>1, <2>2, <2>3, <2>4, <2>5, <2>6 DEF LineStep
<1> QED
  BY <1>2, <1>4, <1>5, ParserKeepsSpinInv

\* Every step keeps it.
LEMMA SpinInvStep == TypeOK /\ ReplyInv /\ SpinInv /\ TypeOK' /\ [Next]_vars => SpinInv'
<1> SUFFICES ASSUME TypeOK, ReplyInv, SpinInv, TypeOK', [Next]_vars PROVE SpinInv'
  OBVIOUS
<1>1. CASE UNCHANGED vars
  BY <1>1 DEF vars, SpinInv, ThrewOn
<1>2. ASSUME NEW c \in Connection, Environment(c) PROVE SpinInv'
  <2>1. CASE OnConnected(c)
    <3>1. pc[c] # "spinning"
      BY <2>1 DEF OnConnected, ReplyInv
    <3> QED
      BY <2>1, <3>1 DEF OnConnected, SpinInv, ThrewOn, TypeOK, NewContext, GotAll
  <2>2. CASE ClientClose(c)
    BY <2>2 DEF ClientClose, SpinInv, ThrewOn
  <2>3. ASSUME NEW r \in Requests, ClientSend(c, r) PROVE SpinInv'
    BY <2>3 DEF ClientSend, SpinInv, ThrewOn
  <2>4. ASSUME NEW n \in 0..Len(stream[c]), Deliver(c, n) PROVE SpinInv'
    BY <2>4 DEF Deliver, SpinInv, ThrewOn, TypeOK
  <2> QED
    BY <1>2, <2>1, <2>2, <2>3, <2>4 DEF Environment
<1>3. ASSUME NEW c \in Connection, ThreadStep(c) PROVE SpinInv'
  <2>1. CASE AwaitMore(c)
    BY <2>1 DEF AwaitMore, Return, ParserFrame, SpinInv, ThrewOn, TypeOK
  <2>2. CASE ReadBody(c)
    BY <2>2 DEF ReadBody, Return, ParserFrame, SpinInv, ThrewOn, TypeOK
  <2>3. CASE Spin(c)
    BY <2>3 DEF Spin, InState, ParserFrame, SpinInv, ThrewOn, TypeOK, GotAll
  <2>4. ASSUME NEW e \in 1..Len(stream[c]), LineStep(c, e) PROVE SpinInv'
    BY <2>4, LineKeepsSpinInv
  <2>5. CASE AfterParse(c)
    BY <2>5 DEF AfterParse, SpinInv, ThrewOn, TypeOK
  <2>6. CASE CatchException(c)
    BY <2>6 DEF CatchException, SpinInv, ThrewOn, TypeOK
  <2>7. CASE ThrowInCallback(c)
    <3>1. /\ handled'[c] = Append(handled[c], ctx[c].request)
          /\ handled[c] \in Seq(Request) /\ ctx[c].request \in Request
      BY <2>7 DEF ThrowInCallback, TypeOK, Context
    <3>2. handled'[c] # <<>> /\ handled'[c][Len(handled'[c])] = ctx[c].request
      BY <3>1, AppendProperties
    <3> QED
      BY <2>7, <3>2 DEF ThrowInCallback, SpinInv, ThrewOn, TypeOK
  <2>8. ASSUME NEW resp \in Responses(ctx[c].request), OnRequest(c, resp) PROVE SpinInv'
    <3>1. ~GotAll(ctx'[c]) /\ pc'[c] # "spinning"
      BY <2>8 DEF OnRequest, TypeOK, Reset, GotAll
    <3>2. \A d \in Connection : d # c =>
            /\ ctx'[d] = ctx[d] /\ pc'[d] = pc[d] /\ handled'[d] = handled[d]
      BY <2>8 DEF OnRequest, TypeOK
    <3> QED
      BY <3>1, <3>2 DEF SpinInv, ThrewOn
  <2> QED
    BY <1>3, <2>1, <2>2, <2>3, <2>4, <2>5, <2>6, <2>7, <2>8 DEF ThreadStep
<1> QED
  BY <1>1, <1>2, <1>3 DEF Next

LEMMA SpinInvCorrect == Spec => []SpinInv
<1>1. Init => SpinInv
  BY DEF Init, SpinInv, NewContext, GotAll
<1> QED
  BY <1>1, SpinInvStep, TypeCorrect, ReplyInvCorrect, PTL DEF Spec

\* A thread that spins in parseRequest does so on a request its callback
\* threw on (HttpServer.cpp:132-133 is left between the call and the reset).
THEOREM SpinsOnlyOnHandledCorrect == Spec => []SpinsOnlyOnHandled
<1>1. SpinInv => SpinsOnlyOnHandled
  BY DEF SpinInv, ThrewOn, SpinsOnlyOnHandled
<1> QED
  BY <1>1, SpinInvCorrect, PTL

\* With a callback that does not throw, and handleRequest is one, no thread
\* ever spins.
THEOREM NoSpinCorrect ==
    ASSUME ~CallbackThrows
    PROVE  Spec => []NoSpin
<1>1. SpinInv => NoSpin
  BY DEF SpinInv, ThrewOn, NoSpin
<1> QED
  BY <1>1, SpinInvCorrect, PTL
---------------------------------------------------------------------------
(* What a step leaves alone on the other connections, and how the parser   *)
(* moves on its own.                                                       *)

\* A step of one connection is no step of another.
LEMMA OthersUntouched ==
    ASSUME TypeOK, NEW c \in Connection, ThreadStep(c) \/ Environment(c),
           NEW d \in Connection, d # c
    PROVE  /\ conn'[d] = conn[d] /\ sent'[d] = sent[d] /\ stream'[d] = stream[d]
           /\ rd'[d] = rd[d] /\ wr'[d] = wr[d] /\ ctx'[d] = ctx[d]
           /\ pc'[d] = pc[d] /\ handled'[d] = handled[d]
<1>1. CASE Environment(c)
  BY <1>1 DEF Environment, OnConnected, ClientClose, ClientSend, Deliver,
     TypeOK, client, buffer
<1>2. CASE AwaitMore(c) \/ ReadBody(c) \/ Spin(c)
  BY <1>2 DEF AwaitMore, ReadBody, Spin, Return, ConsumeTo, TypeOK, ParserFrame, client
<1>3. ASSUME NEW e \in 1..Len(stream[c]), LineStep(c, e)
      PROVE  /\ conn'[d] = conn[d] /\ sent'[d] = sent[d] /\ stream'[d] = stream[d]
             /\ rd'[d] = rd[d] /\ wr'[d] = wr[d] /\ ctx'[d] = ctx[d]
             /\ pc'[d] = pc[d] /\ handled'[d] = handled[d]
  <2>1. ParserFrame
    BY <1>3 DEF LineStep, AcceptRequestLine, RejectRequestLine, ThrowInRequestLine,
       AbortInSetMethod, ReadHeader, RejectHeader, EndHeaders, RejectHeaders,
       ThrowInContentLength, ExpectBody
  <2>2. rd'[d] = rd[d]
    BY <1>3 DEF LineStep, AcceptRequestLine, RejectRequestLine, ThrowInRequestLine,
       AbortInSetMethod, ReadHeader, RejectHeader, EndHeaders, RejectHeaders,
       ThrowInContentLength, ExpectBody, ConsumeTo, TypeOK
  <2>3. ctx'[d] = ctx[d]
    BY <1>3 DEF LineStep, AcceptRequestLine, RejectRequestLine, ThrowInRequestLine,
       AbortInSetMethod, ReadHeader, RejectHeader, EndHeaders, RejectHeaders,
       ThrowInContentLength, ExpectBody, TypeOK
  <2>4. pc'[d] = pc[d]
    BY <1>3 DEF LineStep, AcceptRequestLine, RejectRequestLine, ThrowInRequestLine,
       AbortInSetMethod, ReadHeader, RejectHeader, EndHeaders, RejectHeaders,
       ThrowInContentLength, ExpectBody, Return, TypeOK
  <2> QED
    BY <2>1, <2>2, <2>3, <2>4 DEF ParserFrame, client
<1>4. CASE AfterParse(c) \/ ThrowInCallback(c) \/ CatchException(c)
  BY <1>4 DEF AfterParse, ThrowInCallback, CatchException, SendAndShutdown, TypeOK,
     client, buffer
<1>5. ASSUME NEW resp \in Responses(ctx[c].request), OnRequest(c, resp)
      PROVE  /\ conn'[d] = conn[d] /\ sent'[d] = sent[d] /\ stream'[d] = stream[d]
             /\ rd'[d] = rd[d] /\ wr'[d] = wr[d] /\ ctx'[d] = ctx[d]
             /\ pc'[d] = pc[d] /\ handled'[d] = handled[d]
  BY <1>5 DEF OnRequest, SendAndShutdown, TypeOK, client, buffer
<1> QED
  BY <1>1, <1>2, <1>3, <1>4, <1>5 DEF ThreadStep

---------------------------------------------------------------------------
(* The body of one request is handed over with the next.                   *)

\* Inductive: until a request with a body is complete, the context holds the
\* content of the request handled last.
LastContent(h) == IF h = <<>> THEN <<>> ELSE h[Len(h)].content
StaleAt(c) ==
    /\ conn[c] = "new" => handled[c] = <<>>
    /\ \/ ctx[c].request.content = LastContent(handled[c])
       \/ GotAll(ctx[c]) /\ CarriesBody(ctx[c].request)
       \/ GotAll(ctx[c]) /\ pc[c] \notin {"parsed", "dispatch"}
    /\ ctx[c].state = "kExpectBody" => CarriesBody(ctx[c].request)
    /\ pc[c] = "dispatch" => GotAll(ctx[c])
    /\ \A i \in 1..Len(handled[c]) :
        ~CarriesBody(handled[c][i]) =>
            handled[c][i].content = IF i = 1 THEN <<>> ELSE handled[c][i - 1].content
StaleInv == \A c \in Connection : StaleAt(c)

\* A step of the parser keeps the content, or it completes a body.
LEMMA ParserKeepsStale ==
    ASSUME TypeOK, NEW c \in Connection, StaleAt(c), ParserFrame,
           ~GotAll(ctx[c]), pc'[c] # "dispatch",
           \/ ctx'[c].request.content = ctx[c].request.content
           \/ GotAll(ctx'[c]) /\ CarriesBody(ctx'[c].request),
           ctx'[c].state = "kExpectBody" => CarriesBody(ctx'[c].request)
    PROVE  StaleAt(c)'
<1>1. conn'[c] = conn[c] /\ handled'[c] = handled[c]
  BY DEF ParserFrame
<1>2. ctx[c].request.content = LastContent(handled[c])
  BY DEF StaleAt
<1> QED
  BY <1>1, <1>2 DEF StaleAt

\* What the parser stores is never the content, except for a body.
LEMMA LineKeepsContent ==
    ASSUME TypeOK, NEW c \in Connection, NEW e \in 1..Len(stream[c]), LineStep(c, e)
    PROVE  /\ ParserFrame /\ pc[c] = "parse" /\ ~GotAll(ctx[c])
           /\ ctx[c].state \in {"kExpectRequestLine", "kExpectHeaders"}
           /\ ctx'[c].request.content = ctx[c].request.content
           /\ pc'[c] \in {"parse", "parsed", "catch"}
<1>0. ctx[c] \in Context /\ ctx[c].request \in Request /\ ctx \in [Connection -> Context]
  BY DEF TypeOK, Context
<1>1. ParserFrame /\ pc[c] = "parse" /\ ctx[c].state \in {"kExpectRequestLine", "kExpectHeaders"}
  BY DEF LineStep, AcceptRequestLine, RejectRequestLine, ThrowInRequestLine,
     AbortInSetMethod, ReadHeader, RejectHeader, EndHeaders, RejectHeaders,
     ThrowInContentLength, ExpectBody, AtBlankLine, InState
<1>2. pc'[c] \in {"parse", "parsed", "catch"}
  BY <1>1 DEF LineStep, AcceptRequestLine, RejectRequestLine, ThrowInRequestLine,
     AbortInSetMethod, ReadHeader, RejectHeader, EndHeaders, RejectHeaders,
     ThrowInContentLength, ExpectBody, Return, TypeOK
<1>3. ctx'[c].request.content = ctx[c].request.content
  <2> DEFINE t == stream[c][e]
             after == AfterRequestLine(ctx[c].request, t, Glued(rd[c], e))
  <2>1. after.content = ctx[c].request.content
    BY <1>0 DEF AfterRequestLine, Request
  <2> HIDE DEF after
  <2>2. CASE AcceptRequestLine(c, e) \/ RejectRequestLine(c, e) \/ ThrowInRequestLine(c, e)
    <3>1. CASE AcceptRequestLine(c, e)
      <4>1. ctx' = [ctx EXCEPT ![c] = [[ctx[c] EXCEPT !.state = "kExpectHeaders"]
                                        EXCEPT !.request = after]]
        BY <3>1, <1>0 DEF AcceptRequestLine, after, Context
      <4> QED
        BY <4>1, <2>1, <1>0 DEF Context
    <3>2. CASE RejectRequestLine(c, e)
      BY <3>2, <2>1, <1>0 DEF RejectRequestLine, after, Context
    <3>3. CASE ThrowInRequestLine(c, e)
      BY <3>3, <2>1, <1>0 DEF ThrowInRequestLine, after, Context
    <3> QED
      BY <2>2, <3>1, <3>2, <3>3
  <2>3. CASE ReadHeader(c, e)
    <3> DEFINE h == AddHeader(ctx[c].request, HeaderNameOf(t, Glued(rd[c], e)), t.value)
    <3>1. h.content = ctx[c].request.content
      BY <1>0 DEF AddHeader, Request
    <3> HIDE DEF h
    <3>2. ctx'[c].request = h
      BY <2>3, <1>0 DEF ReadHeader, h, Context
    <3> QED
      BY <3>1, <3>2
  <2>4. CASE ExpectBody(c, e)
    <3> DEFINE l == SetContentLength(ctx[c].request, ContentLengthText(ctx[c].request))
    <3>1. l.content = ctx[c].request.content
      BY <1>0 DEF SetContentLength, Request
    <3> HIDE DEF l
    <3>2. ctx'[c].request = l
      BY <2>4, <1>0 DEF ExpectBody, AfterContentLength, l
    <3> QED
      BY <3>1, <3>2
  <2>5. CASE EndHeaders(c, e)
    BY <2>5, <1>0 DEF EndHeaders, Context
  <2>6. CASE \/ RejectHeader(c, e) \/ RejectHeaders(c, e)
             \/ ThrowInContentLength(c, e) \/ AbortInSetMethod(c, e)
    BY <2>6 DEF RejectHeader, RejectHeaders, ThrowInContentLength, AbortInSetMethod
  <2> QED
    BY <2>2, <2>3, <2>4, <2>5, <2>6 DEF LineStep
<1> QED
  BY <1>1, <1>2, <1>3 DEF GotAll

\* Only ExpectBody leads to kExpectBody, and with a length above 0.
LEMMA LineExpectsBody ==
    ASSUME TypeOK, NEW c \in Connection, NEW e \in 1..Len(stream[c]), LineStep(c, e),
           ctx'[c].state = "kExpectBody"
    PROVE  ExpectBody(c, e) /\ CarriesBody(ctx'[c].request)
<1>0. ctx[c] \in Context /\ ctx[c].request \in Request /\ ctx \in [Connection -> Context]
  BY DEF TypeOK, Context
<1>1. ctx[c].state \in {"kExpectRequestLine", "kExpectHeaders"}
  BY LineKeepsContent
<1>2. ExpectBody(c, e)
  <2>1. CASE AcceptRequestLine(c, e)
    BY <2>1, <1>0 DEF AcceptRequestLine, Context
  <2>2. CASE RejectRequestLine(c, e) \/ ThrowInRequestLine(c, e) \/ ReadHeader(c, e)
    BY <2>2, <1>0, <1>1, ZenonT(30) DEF RejectRequestLine, ThrowInRequestLine, ReadHeader, Context
  <2>3. CASE EndHeaders(c, e)
    BY <2>3, <1>0 DEF EndHeaders, Context
  <2>4. CASE \/ RejectHeader(c, e) \/ RejectHeaders(c, e)
             \/ ThrowInContentLength(c, e) \/ AbortInSetMethod(c, e)
    BY <2>4, <1>1 DEF RejectHeader, RejectHeaders, ThrowInContentLength, AbortInSetMethod
  <2> QED
    BY <2>1, <2>2, <2>3, <2>4 DEF LineStep
<1>3. CarriesBody(ctx'[c].request)
  <2> DEFINE l == SetContentLength(ctx[c].request, ContentLengthText(ctx[c].request))
  <2>1. l.method = ctx[c].request.method
    BY <1>0 DEF SetContentLength, Request
  <2> HIDE DEF l
  <2>2. ctx'[c] = [state |-> IF l.contentLength > 0 THEN "kExpectBody" ELSE "kGotAll",
                   request |-> l]
    BY <1>2, <1>0 DEF ExpectBody, AfterContentLength, l
  <2>3. ctx'[c].request = l /\ l.contentLength > 0
    BY <2>2
  <2> QED
    BY <2>1, <2>3, <1>2 DEF ExpectBody, NeedsBody, CarriesBody
<1> QED
  BY <1>2, <1>3

\* What ReadBody leaves in the context.
LEMMA BodyRead ==
    ASSUME TypeOK, NEW c \in Connection, ReadBody(c)
    PROVE  /\ ParserFrame /\ pc[c] = "parse" /\ pc'[c] = "parsed"
           /\ ctx[c].state = "kExpectBody" /\ GotAll(ctx'[c])
           /\ rd'[c] = rd[c] + ctx[c].request.contentLength
           /\ ctx'[c].request =
                [ctx[c].request EXCEPT !.content =
                    SubSeq(stream[c], rd[c] + 1, rd[c] + ctx[c].request.contentLength)]
BY DEF ReadBody, InState, Return, ConsumeTo, AfterBody, GotAll, TypeOK

\* A request joins the list of those handled.
LEMMA HandledKeepsStale ==
    ASSUME NEW c \in Connection, TypeOK, StaleAt(c), pc[c] = "dispatch",
           handled' = [handled EXCEPT ![c] = Append(@, ctx[c].request)]
    PROVE  /\ LastContent(handled'[c]) = ctx[c].request.content
           /\ \A i \in 1..Len(handled'[c]) :
                ~CarriesBody(handled'[c][i]) =>
                    handled'[c][i].content = IF i = 1 THEN <<>> ELSE handled'[c][i - 1].content
<1> DEFINE h == handled[c]
           req == ctx[c].request
<1>1. h \in Seq(Request) /\ req \in Request /\ handled'[c] = Append(h, req)
  BY DEF TypeOK, Context
<1>2. /\ Len(h) \in Nat /\ Len(handled'[c]) = Len(h) + 1
      /\ \A i \in 1..Len(h) : handled'[c][i] = h[i]
      /\ handled'[c][Len(h) + 1] = req
      /\ handled'[c] # <<>>
  BY <1>1, AppendProperties, LenProperties
<1>3. LastContent(handled'[c]) = req.content
  BY <1>2 DEF LastContent
<1>4. ~CarriesBody(req) => req.content = LastContent(h)
  BY DEF StaleAt
<1>5. LastContent(h) = IF Len(h) = 0 THEN <<>> ELSE h[Len(h)].content
  BY <1>1, EmptySeq DEF LastContent
<1> SUFFICES ASSUME NEW i \in 1..Len(handled'[c]), ~CarriesBody(handled'[c][i])
             PROVE  handled'[c][i].content = IF i = 1 THEN <<>> ELSE handled'[c][i - 1].content
  BY <1>3
<1>6. CASE i \in 1..Len(h)
  <2>1. handled'[c][i] = h[i] /\ (i # 1 => i - 1 \in 1..Len(h))
    BY <1>2, <1>6
  <2> QED
    BY <2>1, <1>2, <1>6 DEF StaleAt
<1>7. CASE i = Len(h) + 1
  <2>1. handled'[c][i] = req /\ req.content = LastContent(h)
    BY <1>2, <1>4, <1>7
  <2>2. CASE Len(h) = 0
    BY <2>1, <2>2, <1>5, <1>7
  <2>3. CASE Len(h) # 0
    <3>1. i # 1 /\ i - 1 = Len(h) /\ Len(h) \in 1..Len(h)
      BY <2>3, <1>2, <1>7
    <3> QED
      BY <2>1, <2>3, <3>1, <1>2, <1>5
  <2> QED
    BY <2>2, <2>3
<1> QED
  BY <1>2, <1>6, <1>7

\* Every step keeps it on the connection that it concerns.
LEMMA StaleHere ==
    ASSUME TypeOK, ReplyInv, NEW c \in Connection, StaleAt(c), ThreadStep(c) \/ Environment(c)
    PROVE  StaleAt(c)'
<1>0. ctx[c] \in Context /\ ctx[c].request \in Request /\ ctx \in [Connection -> Context]
  BY DEF TypeOK, Context
<1>1. CASE OnConnected(c)
  <2>1. conn'[c] = "connected" /\ ctx'[c] = NewContext /\ pc'[c] = pc[c] /\ handled'[c] = handled[c]
    BY <1>1 DEF OnConnected, TypeOK
  <2>2. pc[c] = "idle" /\ handled[c] = <<>>
    BY <1>1 DEF OnConnected, ReplyInv, StaleAt
  <2>3. NewContext.request.content = <<>> /\ NewContext.state = "kExpectRequestLine"
    BY DEF NewContext, NewRequest
  <2> QED
    BY <2>1, <2>2, <2>3 DEF StaleAt, LastContent
<1>2. CASE ClientClose(c) \/ \E r \in Requests : ClientSend(c, r)
  <2>1. /\ ctx'[c] = ctx[c] /\ pc'[c] = pc[c] /\ handled'[c] = handled[c]
        /\ conn'[c] = "new" => conn[c] = "new"
    BY <1>2 DEF ClientClose, ClientSend, TypeOK
  <2> QED
    BY <2>1 DEF StaleAt
<1>3. ASSUME NEW n \in 0..Len(stream[c]), Deliver(c, n) PROVE StaleAt(c)'
  <2>1. /\ ctx'[c] = ctx[c] /\ pc[c] = "idle" /\ pc'[c] = "parse"
        /\ handled'[c] = handled[c] /\ conn'[c] = conn[c]
    BY <1>3 DEF Deliver, TypeOK
  <2> QED
    BY <2>1 DEF StaleAt
<1>4. CASE AwaitMore(c)
  <2>1. /\ ctx'[c] = ctx[c] /\ pc'[c] = "parsed" /\ ParserFrame
        /\ ctx[c].state # "kGotAll"
    BY <1>4 DEF AwaitMore, InState, Return, TypeOK
  <2> QED
    BY <2>1, ParserKeepsStale DEF GotAll, StaleAt
<1>5. CASE ReadBody(c)
  <2>1. ctx[c].state = "kExpectBody" /\ CarriesBody(ctx[c].request)
    BY <1>5, BodyRead DEF StaleAt
  <2>2. CarriesBody(ctx'[c].request)
    BY <2>1, <1>5, <1>0, BodyRead DEF CarriesBody, NeedsBody, Request
  <2> QED
    BY <2>1, <2>2, <1>5, BodyRead, ParserKeepsStale DEF GotAll
<1>6. CASE Spin(c)
  <2>1. /\ ctx'[c] = ctx[c] /\ pc'[c] = "spinning" /\ handled'[c] = handled[c]
        /\ conn'[c] = conn[c] /\ GotAll(ctx[c])
    BY <1>6 DEF Spin, InState, ParserFrame, GotAll, TypeOK
  <2> QED
    BY <2>1 DEF StaleAt, GotAll
<1>7. ASSUME NEW e \in 1..Len(stream[c]), LineStep(c, e) PROVE StaleAt(c)'
  BY <1>7, LineKeepsContent, LineExpectsBody, ParserKeepsStale
<1>8. CASE AfterParse(c)
  <2>1. /\ ctx'[c] = ctx[c] /\ pc[c] = "parsed" /\ handled'[c] = handled[c]
        /\ pc'[c] = IF GotAll(ctx[c]) THEN "dispatch" ELSE "idle"
        /\ conn'[c] # "new"
    <3>1. conn[c] # "new"
      BY <1>8 DEF AfterParse, ReplyInv
    <3> QED
      BY <1>8, <3>1 DEF AfterParse, SendAndShutdown, ShutdownOf, TypeOK
  <2> QED
    BY <2>1 DEF StaleAt
<1>9. CASE CatchException(c)
  <2>1. /\ ctx'[c] = ctx[c] /\ pc[c] = "catch" /\ handled'[c] = handled[c]
        /\ pc'[c] = "idle" /\ conn'[c] # "new"
    <3>1. conn[c] # "new"
      BY <1>9 DEF CatchException, ReplyInv
    <3> QED
      BY <1>9, <3>1 DEF CatchException, SendAndShutdown, ShutdownOf, TypeOK
  <2> QED
    BY <2>1 DEF StaleAt
<1>10. CASE ThrowInCallback(c)
  <2>1. /\ ctx'[c] = ctx[c] /\ pc[c] = "dispatch" /\ pc'[c] = "catch" /\ conn'[c] # "new"
    BY <1>10 DEF ThrowInCallback, ReplyInv, TypeOK
  <2>2. handled' = [handled EXCEPT ![c] = Append(@, ctx[c].request)]
    BY <1>10 DEF ThrowInCallback
  <2>3. GotAll(ctx[c])
    BY <2>1 DEF StaleAt
  <2> QED
    BY <2>1, <2>2, <2>3, HandledKeepsStale DEF StaleAt, GotAll
<1>11. ASSUME NEW resp \in Responses(ctx[c].request), OnRequest(c, resp) PROVE StaleAt(c)'
  <2>1. /\ ctx'[c] = Reset(ctx[c]) /\ pc[c] = "dispatch" /\ pc'[c] = "idle" /\ conn'[c] # "new"
    BY <1>11 DEF OnRequest, SendAndShutdown, ShutdownOf, ReplyInv, TypeOK
  <2>2. handled' = [handled EXCEPT ![c] = Append(@, ctx[c].request)]
    BY <1>11 DEF OnRequest
  <2>3. /\ Reset(ctx[c]).request.content = ctx[c].request.content
        /\ Reset(ctx[c]).state = "kExpectRequestLine"
    BY DEF Reset, SwapWithNew, NewRequest
  <2> QED
    BY <2>1, <2>2, <2>3, HandledKeepsStale DEF StaleAt, GotAll
<1> QED
  BY <1>1, <1>2, <1>3, <1>4, <1>5, <1>6, <1>7, <1>8, <1>9, <1>10, <1>11
     DEF ThreadStep, Environment

LEMMA StaleInvStep == TypeOK /\ ReplyInv /\ StaleInv /\ [Next]_vars => StaleInv'
<1> SUFFICES ASSUME TypeOK, ReplyInv, StaleInv, [Next]_vars, NEW d \in Connection
             PROVE  StaleAt(d)'
  BY DEF StaleInv
<1>1. CASE UNCHANGED vars
  BY <1>1 DEF vars, StaleInv, StaleAt
<1>2. ASSUME NEW c \in Connection, ThreadStep(c) \/ Environment(c) PROVE StaleAt(d)'
  <2>1. CASE d = c
    BY <1>2, <2>1, StaleHere DEF StaleInv
  <2>2. CASE d # c
    <3>1. /\ conn'[d] = conn[d] /\ ctx'[d] = ctx[d] /\ pc'[d] = pc[d]
          /\ handled'[d] = handled[d]
      BY <1>2, <2>2, OthersUntouched
    <3>2. StaleAt(d)
      BY DEF StaleInv
    <3> QED
      BY <3>1, <3>2 DEF StaleAt
  <2> QED
    BY <2>1, <2>2
<1> QED
  BY <1>1, <1>2 DEF Next

\* A request without a body of its own is handed over with exactly the body
\* of the request handled before it on its connection, whatever clients
\* write (swap of HttpRequest.cpp:140-149 leaves content_ alone).
THEOREM StaleContentCorrect == Spec => []StaleContent
<1>1. Init => StaleInv
  <2> SUFFICES ASSUME Init, NEW c \in Connection PROVE StaleAt(c)
    BY DEF StaleInv
  <2>1. /\ handled[c] = <<>> /\ pc[c] = "idle"
        /\ ctx[c].state = "kExpectRequestLine" /\ ctx[c].request.content = <<>>
    BY DEF Init, NewContext, NewRequest
  <2>2. Len(handled[c]) = 0
    BY <2>1
  <2> QED
    BY <2>1, <2>2 DEF StaleAt, LastContent
<1>2. StaleInv => StaleContent
  BY DEF StaleInv, StaleAt, StaleContent
<1> QED
  BY <1>1, <1>2, StaleInvStep, TypeCorrect, ReplyInvCorrect, PTL DEF Spec

---------------------------------------------------------------------------
(* A body is made of body bytes.                                           *)

\* The last header line read that declares a length has the value v, and no
\* blank line and no body byte came after it.
DeclaredAhead(s, i, v) ==
    \E p \in 1..i : /\ IsLengthHeader(s[p]) /\ s[p].value = v
                    /\ \A j \in p+1..i : IsLine(s[j]) /\ s[j].kind # "blank"

\* Inductive: the stream frames itself, the declared length is the one of the
\* header lines the parser is in, and in kExpectBody that many bytes follow.
BodyAt(c) ==
    /\ Len(sent[c]) <= MaxRequests
    /\ \A q \in Requests : (\A r \in Requests : Len(r) <= Len(q)) =>
            Len(stream[c]) <= Len(sent[c]) * Len(q)
    /\ FramesItself(stream[c])
    /\ ctx[c].state = "kExpectRequestLine" => ContentLengthMissing(ctx[c].request)
    /\ ctx[c].state = "kExpectHeaders" /\ ~ContentLengthMissing(ctx[c].request) =>
            DeclaredAhead(stream[c], rd[c], ContentLengthText(ctx[c].request))
    /\ ctx[c].state = "kExpectBody" =>
            \/ BodyFollows(stream[c], rd[c], ctx[c].request.contentLength)
            \/ NeverArrives(ctx[c].request.contentLength)
    /\ \A i \in 1..Len(ctx[c].request.content) : ~IsLine(ctx[c].request.content[i])
BodyInv == \A c \in Connection : BodyAt(c)

\* A declared length, as a uint64_t.
LEMMA StoiRange == \A v \in DOMAIN Stoi : Stoi[v] % UintModulus \in Nat
<1> SUFFICES ASSUME NEW v \in DOMAIN Stoi PROVE Stoi[v] % UintModulus \in Nat
  OBVIOUS
<1>1. Stoi[v] \in Int
  BY HttpRequestAssumption
<1>2. Stoi[v] % UintModulus \in 0..(UintModulus - 1)
  BY <1>1, Modulus
<1> QED
  BY <1>2, Modulus

\* The elements of a concatenation.
LEMMA ConcatElements ==
    ASSUME NEW s \in Seq(Token), NEW r \in Seq(Token)
    PROVE  /\ Len(s) \in Nat /\ Len(r) \in Nat /\ Len(s \o r) = Len(s) + Len(r)
           /\ \A i \in 1..Len(s) : (s \o r)[i] = s[i]
           /\ \A i \in 1..Len(r) : (s \o r)[Len(s) + i] = r[i]
<1>1. /\ Len(s) \in Nat /\ Len(r) \in Nat /\ Len(s \o r) = Len(s) + Len(r)
      /\ \A i \in 1..(Len(s) + Len(r)) :
            (s \o r)[i] = IF i <= Len(s) THEN s[i] ELSE r[i - Len(s)]
  BY ConcatProperties, LenProperties
<1>2. ASSUME NEW i \in 1..Len(r) PROVE (s \o r)[Len(s) + i] = r[i]
  <2>1. /\ Len(s) + i \in 1..(Len(s) + Len(r)) /\ ~(Len(s) + i <= Len(s))
        /\ (Len(s) + i) - Len(s) = i
    BY <1>1
  <2> QED
    BY <2>1, <1>1
<1> QED
  BY <1>1, <1>2

\* The elements of a piece of a sequence.
LEMMA Slice ==
    ASSUME NEW s \in Seq(Token), NEW i \in Nat, NEW n \in Nat, i + n <= Len(s)
    PROVE  /\ SubSeq(s, i + 1, i + n) \in Seq(Token)
           /\ Len(SubSeq(s, i + 1, i + n)) = n
           /\ \A k \in 1..n : SubSeq(s, i + 1, i + n)[k] = s[i + k]
<1>1. PICK a \in Int : a = i + 1
  OBVIOUS
<1>2. PICK b \in Int : b = i + n
  OBVIOUS
<1>3. \A k \in a..b : s[k] \in Token
  BY <1>1, <1>2, ElementOfSeq, LenProperties
<1>4. /\ SubSeq(s, a, b) \in Seq(Token)
      /\ Len(SubSeq(s, a, b)) = IF a <= b THEN b - a + 1 ELSE 0
      /\ \A k \in 1..b - a + 1 : SubSeq(s, a, b)[k] = s[a + k - 1]
  BY <1>3, SubSeqProperties
<1>5. b - a + 1 = n /\ (n = 0 => ~(a <= b)) /\ (n # 0 => a <= b)
  BY <1>1, <1>2
<1>6. \A k \in 1..n : a + k - 1 = i + k
  BY <1>1
<1> QED
  BY <1>1, <1>2, <1>4, <1>5, <1>6

\* What frames itself still does with more in front of it or behind it.
LEMMA FramesConcat ==
    ASSUME NEW s \in Seq(Token), NEW r \in Seq(Token), FramesItself(s), FramesItself(r)
    PROVE  FramesItself(s \o r)
<1> DEFINE sr == s \o r
<1>0. /\ Len(s) \in Nat /\ Len(r) \in Nat /\ Len(sr) = Len(s) + Len(r)
      /\ \A i \in 1..Len(s) : sr[i] = s[i]
      /\ \A i \in 1..Len(r) : sr[Len(s) + i] = r[i]
  BY ConcatElements
<1> HIDE DEF sr
<1> SUFFICES ASSUME NEW p \in 1..Len(sr), IsLengthHeader(sr[p])
             PROVE  \E b \in p+1..Len(sr) :
                      /\ sr[b].kind = "blank"
                      /\ \A i \in p+1..b-1 : IsLine(sr[i]) /\ sr[i].kind # "blank"
                      /\ sr[p].value \in DOMAIN Stoi =>
                           \/ BodyFollows(sr, b, Stoi[sr[p].value] % UintModulus)
                           \/ NeverArrives(Stoi[sr[p].value] % UintModulus)
  BY DEF FramesItself, sr
<1>1. CASE p <= Len(s)
  <2>1. p \in 1..Len(s) /\ IsLengthHeader(s[p]) /\ sr[p] = s[p]
    BY <1>0, <1>1
  <2> DEFINE n == Stoi[s[p].value] % UintModulus
  <2>2. PICK b \in p+1..Len(s) :
            /\ s[b].kind = "blank"
            /\ \A i \in p+1..b-1 : IsLine(s[i]) /\ s[i].kind # "blank"
            /\ s[p].value \in DOMAIN Stoi => BodyFollows(s, b, n) \/ NeverArrives(n)
    BY <2>1 DEF FramesItself
  <2>3. b \in p+1..Len(sr) /\ sr[b] = s[b]
    BY <1>0, <2>1
  <2>4. \A i \in p+1..b-1 : sr[i] = s[i]
    BY <1>0, <2>1
  <2>5. s[p].value \in DOMAIN Stoi => n \in Nat
    BY StoiRange
  <2> HIDE DEF n
  <2>6. ASSUME s[p].value \in DOMAIN Stoi, BodyFollows(s, b, n) PROVE BodyFollows(sr, b, n)
    BY <2>5, <2>6, <1>0, <2>1 DEF BodyFollows
  <2>7. \A i \in p+1..b-1 : IsLine(sr[i]) /\ sr[i].kind # "blank"
    BY <2>2, <2>4
  <2> QED
    BY <2>1, <2>2, <2>3, <2>6, <2>7 DEF n
<1>2. CASE p > Len(s)
  <2>1. PICK l \in Nat : l = Len(s)
    BY <1>0
  <2>2. PICK q \in 1..Len(r) : p = l + q
    <3>1. p - l \in 1..Len(r) /\ p = l + (p - l)
      BY <1>0, <1>2, <2>1
    <3> QED
      BY <3>1
  <2>3. sr[p] = r[q] /\ IsLengthHeader(r[q])
    BY <1>0, <2>1, <2>2
  <2> DEFINE n == Stoi[r[q].value] % UintModulus
  <2>4. PICK b \in q+1..Len(r) :
            /\ r[b].kind = "blank"
            /\ \A i \in q+1..b-1 : IsLine(r[i]) /\ r[i].kind # "blank"
            /\ r[q].value \in DOMAIN Stoi => BodyFollows(r, b, n) \/ NeverArrives(n)
    BY <2>3 DEF FramesItself
  <2>5. l + b \in p+1..Len(sr) /\ sr[l + b] = r[b]
    <3>0. q \in Nat /\ Len(r) \in Nat /\ b \in q+1..Len(r)
      BY <1>0, <2>2, <2>4
    <3>1. b \in 1..Len(r) /\ b \in Nat /\ q + 1 <= b
      BY <3>0
    <3>2. l + b <= Len(sr) /\ p + 1 <= l + b
      BY <3>0, <3>1, <1>0, <2>1, <2>2
    <3> QED
      BY <3>1, <3>2, <1>0, <2>1, <2>2
  <2>6. ASSUME NEW i \in p+1..(l+b)-1 PROVE IsLine(sr[i]) /\ sr[i].kind # "blank"
    <3>1. i - l \in q+1..b-1 /\ i - l \in 1..Len(r) /\ i = l + (i - l)
      BY <1>0, <2>1, <2>2
    <3>2. sr[i] = r[i - l]
      BY <3>1, <1>0, <2>1
    <3> QED
      BY <3>1, <3>2, <2>4
  <2>7. r[q].value \in DOMAIN Stoi => n \in Nat
    BY StoiRange
  <2> HIDE DEF n
  <2>8. ASSUME r[q].value \in DOMAIN Stoi, BodyFollows(r, b, n) PROVE BodyFollows(sr, l + b, n)
    <3>1. n \in Nat /\ b + n <= Len(r) /\ \A i \in b+1..b+n : ~IsLine(r[i])
      BY <2>7, <2>8 DEF BodyFollows
    <3>2. (l + b) + n <= Len(sr)
      BY <3>1, <1>0, <2>1
    <3>3. ASSUME NEW i \in (l+b)+1..(l+b)+n PROVE ~IsLine(sr[i])
      <4>1. i - l \in b+1..b+n /\ i - l \in 1..Len(r) /\ i = l + (i - l)
        BY <3>1, <1>0, <2>1
      <4>2. sr[i] = r[i - l]
        BY <4>1, <1>0, <2>1
      <4> QED
        BY <4>1, <4>2, <3>1
    <3> QED
      BY <3>2, <3>3 DEF BodyFollows
  <2> QED
    BY <2>3, <2>4, <2>5, <2>6, <2>8 DEF n
<1>3. p <= Len(s) \/ p > Len(s)
  BY <1>0
<1> QED
  BY <1>1, <1>2, <1>3

\* After a declared length the next line is not glued to anything, and when
\* it is the blank line the body follows it.
LEMMA AfterDeclared ==
    ASSUME NEW s \in Seq(Token), FramesItself(s), NEW i \in Nat, NEW w \in Nat,
           w <= Len(s), NEW v, DeclaredAhead(s, i, v), NEW e, EndsLine(s, i, w, e)
    PROVE  /\ e = i + 1 /\ Glued(i, e) = FALSE
           /\ s[e].kind = "blank" /\ v \in DOMAIN Stoi =>
                \/ BodyFollows(s, e, Stoi[v] % UintModulus)
                \/ NeverArrives(Stoi[v] % UintModulus)
<1>1. PICK p \in 1..i : /\ IsLengthHeader(s[p]) /\ s[p].value = v
                        /\ \A j \in p+1..i : IsLine(s[j]) /\ s[j].kind # "blank"
  BY DEF DeclaredAhead
<1>2. /\ e \in i+1..w /\ IsLine(s[e])
      /\ \A j \in i+1..e-1 : ~IsLine(s[j])
  BY DEF EndsLine
<1>3. Len(s) \in Nat /\ p \in 1..Len(s)
  BY <1>2, LenProperties
<1>4. PICK b \in p+1..Len(s) :
        /\ s[b].kind = "blank"
        /\ \A j \in p+1..b-1 : IsLine(s[j]) /\ s[j].kind # "blank"
        /\ v \in DOMAIN Stoi =>
             \/ BodyFollows(s, b, Stoi[v] % UintModulus)
             \/ NeverArrives(Stoi[v] % UintModulus)
  BY <1>1, <1>3 DEF FramesItself
<1>5. b \in i+1..Len(s)
  <2>1. b \notin p+1..i
    BY <1>1, <1>4
  <2> QED
    BY <2>1, <1>3
<1>6. IsLine(s[b])
  BY <1>4 DEF IsLine
<1>7. IsLine(s[i + 1])
  <2>1. i + 1 = b \/ i + 1 \in p+1..b-1
    BY <1>5, <1>3
  <2> QED
    BY <2>1, <1>4, <1>6
<1>8. e = i + 1
  BY <1>2, <1>7
<1>9. s[e].kind = "blank" => e = b
  <2>1. e = b \/ e \in p+1..b-1
    BY <1>5, <1>3, <1>8
  <2> QED
    BY <2>1, <1>4
<1> QED
  BY <1>4, <1>8, <1>9 DEF Glued

\* One more line that is not blank keeps a declared length ahead.
LEMMA DeclaredOn ==
    ASSUME NEW s, NEW i \in Nat, NEW v, DeclaredAhead(s, i, v),
           IsLine(s[i + 1]), s[i + 1].kind # "blank"
    PROVE  DeclaredAhead(s, i + 1, v)
<1>1. PICK p \in 1..i : /\ IsLengthHeader(s[p]) /\ s[p].value = v
                        /\ \A j \in p+1..i : IsLine(s[j]) /\ s[j].kind # "blank"
  BY DEF DeclaredAhead
<1>2. p \in 1..i+1
  OBVIOUS
<1>3. \A j \in p+1..i+1 : IsLine(s[j]) /\ s[j].kind # "blank"
  BY <1>1
<1> QED
  BY <1>1, <1>2, <1>3 DEF DeclaredAhead

\* What the parts of a context are after a step on a line.
LEMMA LineLeaves ==
    ASSUME TypeOK, NEW c \in Connection, NEW e \in 1..Len(stream[c]), LineStep(c, e)
    PROVE  \/ /\ ~ReadHeader(c, e)
              /\ ctx'[c].request.headers = ctx[c].request.headers
           \/ /\ ReadHeader(c, e) /\ ctx'[c].state = "kExpectHeaders" /\ rd'[c] = e
              /\ ctx'[c].request.headers =
                   [ctx[c].request.headers EXCEPT
                        ![HeaderNameOf(stream[c][e], Glued(rd[c], e))] = stream[c][e].value]
<1>0. /\ ctx[c] \in Context /\ ctx[c].request \in Request /\ ctx \in [Connection -> Context]
      /\ rd \in [Connection -> Nat]
  BY DEF TypeOK, Context
<1> DEFINE t == stream[c][e]
           after == AfterRequestLine(ctx[c].request, t, Glued(rd[c], e))
<1>1. after.headers = ctx[c].request.headers
  BY <1>0 DEF AfterRequestLine, Request
<1> HIDE DEF after
<1>a. ASSUME InState(c, "kExpectRequestLine") PROVE ~ReadHeader(c, e)
  BY <1>a DEF InState, ReadHeader
<1>2. CASE AcceptRequestLine(c, e)
  <2>1. ctx' = [ctx EXCEPT ![c] = [[ctx[c] EXCEPT !.state = "kExpectHeaders"]
                                    EXCEPT !.request = after]]
    BY <1>2, <1>0 DEF AcceptRequestLine, after, Context
  <2> QED
    BY <2>1, <1>0, <1>1, <1>a, <1>2 DEF Context, AcceptRequestLine
<1>3. CASE RejectRequestLine(c, e)
  BY <1>3, <1>0, <1>1, <1>a DEF RejectRequestLine, after, Context
<1>4. CASE ThrowInRequestLine(c, e)
  BY <1>4, <1>0, <1>1, <1>a DEF ThrowInRequestLine, after, Context
<1>5. CASE ReadHeader(c, e)
  <2> DEFINE n == HeaderNameOf(t, Glued(rd[c], e))
             h == AddHeader(ctx[c].request, n, t.value)
  <2>1. h.headers = [ctx[c].request.headers EXCEPT ![n] = t.value]
    BY <1>0 DEF AddHeader, Request
  <2> HIDE DEF h
  <2>2. ctx'[c].request = h /\ ctx'[c].state = "kExpectHeaders" /\ rd'[c] = e
    BY <1>5, <1>0 DEF ReadHeader, InState, ConsumeTo, h, Context
  <2> QED
    BY <2>1, <2>2, <1>5
<1>b. ASSUME ~IsHeader(t) PROVE ~ReadHeader(c, e)
  BY <1>b DEF ReadHeader
<1>6. CASE ExpectBody(c, e)
  <2> DEFINE l == SetContentLength(ctx[c].request, ContentLengthText(ctx[c].request))
  <2>1. l.headers = ctx[c].request.headers
    BY <1>0 DEF SetContentLength, Request
  <2> HIDE DEF l
  <2>2. ctx'[c].request = l
    BY <1>6, <1>0 DEF ExpectBody, AfterContentLength, l
  <2>3. ~IsHeader(t)
    BY <1>6 DEF ExpectBody, AtBlankLine, IsBlank, IsHeader
  <2> QED
    BY <2>1, <2>2, <2>3, <1>b
<1>7. CASE EndHeaders(c, e)
  <2>1. ~IsHeader(t)
    BY <1>7 DEF EndHeaders, AtBlankLine, IsBlank, IsHeader
  <2> QED
    BY <2>1, <1>7, <1>0, <1>b DEF EndHeaders, Context
<1>8. CASE RejectHeader(c, e) \/ RejectHeaders(c, e) \/ ThrowInContentLength(c, e)
  <2>1. ~IsHeader(t)
    BY <1>8 DEF RejectHeader, BadHeaderLine, RejectHeaders, ThrowInContentLength,
       AtBlankLine, IsBlank, IsHeader
  <2> QED
    BY <2>1, <1>8, <1>b DEF RejectHeader, RejectHeaders, ThrowInContentLength
<1>9. CASE AbortInSetMethod(c, e)
  BY <1>9, <1>a DEF AbortInSetMethod
<1> QED
  BY <1>2, <1>3, <1>4, <1>5, <1>6, <1>7, <1>8, <1>9 DEF LineStep

\* Which states and reader positions a step on a line leads to, ReadHeader
\* and ExpectBody aside.
LEMMA LineGoesTo ==
    ASSUME TypeOK, NEW c \in Connection, NEW e \in 1..Len(stream[c]), LineStep(c, e)
    PROVE  \/ ReadHeader(c, e) \/ ExpectBody(c, e)
           \/ ctx'[c].state = "kExpectRequestLine" /\ ctx[c].state = "kExpectRequestLine"
           \/ ctx'[c].state = "kExpectHeaders" /\ ctx[c].state = "kExpectRequestLine"
           \/ /\ ctx'[c].state = "kExpectHeaders" /\ ctx[c].state = "kExpectHeaders"
              /\ rd'[c] = e /\ BadHeaderLine(stream[c][e], Glued(rd[c], e))
           \/ /\ ctx'[c].state = "kExpectHeaders" /\ ctx[c].state = "kExpectHeaders"
              /\ ContentLengthMissing(ctx[c].request) \/ rd'[c] = rd[c]
           \/ ctx'[c].state = "kGotAll"
<1>0. /\ ctx[c] \in Context /\ ctx \in [Connection -> Context] /\ rd \in [Connection -> Nat]
  BY DEF TypeOK, Context
<1>1. CASE AcceptRequestLine(c, e)
  BY <1>1, <1>0 DEF AcceptRequestLine, InState, Context
<1>2. CASE RejectRequestLine(c, e) \/ ThrowInRequestLine(c, e)
  <2>1. ctx'[c].state = ctx[c].state /\ ctx[c].state = "kExpectRequestLine"
    <3>1. CASE RejectRequestLine(c, e)
      BY <3>1, <1>0 DEF RejectRequestLine, InState, Context
    <3>2. CASE ThrowInRequestLine(c, e)
      BY <3>2, <1>0 DEF ThrowInRequestLine, InState, Context
    <3> QED
      BY <1>2, <3>1, <3>2
  <2> QED
    BY <2>1
<1>3. CASE AbortInSetMethod(c, e)
  BY <1>3 DEF AbortInSetMethod, InState
<1>4. CASE RejectHeader(c, e)
  BY <1>4, <1>0 DEF RejectHeader, InState, ConsumeTo
<1>5. CASE EndHeaders(c, e)
  BY <1>5, <1>0 DEF EndHeaders, Context
<1>6. CASE RejectHeaders(c, e) \/ ThrowInContentLength(c, e)
  BY <1>6 DEF RejectHeaders, ThrowInContentLength, AtBlankLine, InState
<1> QED
  BY <1>1, <1>2, <1>3, <1>4, <1>5, <1>6 DEF LineStep

LEMMA LengthType ==
    ASSUME NEW req \in Request
    PROVE  req.contentLength \in Nat
<1>1. req.contentLength \in 0..(UintModulus - 1)
  BY DEF Request
<1> QED
  BY <1>1, Modulus

\* A step on a line.
LEMMA LineKeepsBody ==
    ASSUME TypeOK, NEW c \in Connection, BodyAt(c),
           NEW e \in 1..Len(stream[c]), LineStep(c, e)
    PROVE  BodyAt(c)'
<1> DEFINE s == stream[c]
           t == s[e]
           req == ctx[c].request
           v == ContentLengthText(req)
<1>0. /\ ctx[c] \in Context /\ req \in Request /\ ctx \in [Connection -> Context]
      /\ rd[c] \in Nat /\ wr[c] \in Nat /\ rd[c] <= wr[c] /\ wr[c] <= Len(s)
      /\ s \in Seq(Token) /\ req.headers \in [HeaderName -> HeaderValue]
      /\ "Content-Length" \in HeaderName
  BY HttpRequestAssumption DEF TypeOK, Context, Request
<1>1. /\ sent'[c] = sent[c] /\ stream'[c] = s /\ ~GotAll(ctx[c])
      /\ ctx'[c].request.content = req.content
      /\ ctx[c].state \in {"kExpectRequestLine", "kExpectHeaders"}
  BY LineKeepsContent DEF ParserFrame, client
<1>2. LineAt(c, e)
  BY DEF LineStep, AcceptRequestLine, RejectRequestLine, ThrowInRequestLine,
     AbortInSetMethod, ReadHeader, RejectHeader, EndHeaders, RejectHeaders,
     ThrowInContentLength, ExpectBody, AtBlankLine
<1>3. EndsLine(s, rd[c], wr[c], e) /\ IsLine(t) /\ rd[c] < e /\ e \in Nat
  BY <1>0, <1>2 DEF LineAt, EndsLine
<1>4. FramesItself(s)
  BY DEF BodyAt
<1>5. ASSUME ctx[c].state = "kExpectHeaders", ~ContentLengthMissing(req)
      PROVE  /\ DeclaredAhead(s, rd[c], v) /\ e = rd[c] + 1 /\ Glued(rd[c], e) = FALSE
             /\ t.kind = "blank" /\ v \in DOMAIN Stoi =>
                  \/ BodyFollows(s, e, Stoi[v] % UintModulus)
                  \/ NeverArrives(Stoi[v] % UintModulus)
  <2>1. DeclaredAhead(s, rd[c], v)
    BY <1>5 DEF BodyAt
  <2> HIDE DEF s, v
  <2>2. /\ e = rd[c] + 1 /\ Glued(rd[c], e) = FALSE
        /\ s[e].kind = "blank" /\ v \in DOMAIN Stoi =>
                  \/ BodyFollows(s, e, Stoi[v] % UintModulus)
                  \/ NeverArrives(Stoi[v] % UintModulus)
    BY <2>1, <1>0, <1>3, <1>4, AfterDeclared
  <2> QED
    BY <2>1, <2>2
<1>6. CASE ReadHeader(c, e)
  <2> DEFINE n == HeaderNameOf(t, Glued(rd[c], e))
  <2>0. IsHeader(t) /\ t.kind # "blank" /\ ctx[c].state = "kExpectHeaders"
    BY <1>6 DEF ReadHeader, IsHeader, InState
  <2>1. /\ ctx'[c].state = "kExpectHeaders" /\ rd'[c] = e
        /\ ctx'[c].request.headers = [req.headers EXCEPT ![n] = t.value]
    BY <1>6, LineLeaves
  <2>2. CASE n = "Content-Length"
    <3>1. IsLengthHeader(t)
      BY <2>0, <2>2 DEF HeaderNameOf, IsLengthHeader
    <3>2. DeclaredAhead(s, e, t.value)
      <4>1. e \in 1..e /\ \A j \in e+1..e : FALSE
        BY <1>3
      <4> QED
        BY <4>1, <3>1 DEF DeclaredAhead
    <3>3. ContentLengthText(ctx'[c].request) = t.value
      BY <2>1, <2>2, <1>0 DEF ContentLengthText, GetHeader
    <3> QED
      BY <3>2, <3>3, <2>1, <1>1 DEF BodyAt, ContentLengthText, ContentLengthMissing, GetHeader
  <2>3. CASE n # "Content-Length"
    <3>1. ContentLengthText(ctx'[c].request) = v
      BY <2>1, <2>3, <1>0 DEF ContentLengthText, GetHeader
    <3>2. ~ContentLengthMissing(req) => DeclaredAhead(s, e, v)
      BY <1>5, <2>0, <1>0, <1>3, DeclaredOn
    <3> QED
      BY <3>1, <3>2, <2>1, <1>1 DEF BodyAt, ContentLengthText, ContentLengthMissing, GetHeader
  <2> QED
    BY <2>2, <2>3
<1>7. CASE ExpectBody(c, e)
  <2>1. /\ ctx[c].state = "kExpectHeaders" /\ ~ContentLengthMissing(req)
        /\ v \in DOMAIN Stoi /\ t.kind = "blank" /\ rd'[c] = e
    BY <1>7, <1>0 DEF ExpectBody, AtBlankLine, InState, IsBlank, StoiThrows, ConsumeTo, TypeOK
  <2> DEFINE n == Stoi[v] % UintModulus
             l == SetContentLength(req, v)
  <2>2. l.contentLength = n
    BY <1>0 DEF SetContentLength, Request
  <2>3. BodyFollows(s, e, n) \/ NeverArrives(n)
    BY <1>5, <2>1
  <2> HIDE DEF l, n
  <2>4. ctx'[c] = [state |-> IF l.contentLength > 0 THEN "kExpectBody" ELSE "kGotAll",
                   request |-> l]
    BY <1>7, <1>0 DEF ExpectBody, AfterContentLength, l
  <2>5. ctx'[c].request.contentLength = n /\ ctx'[c].state \in {"kExpectBody", "kGotAll"}
    BY <2>2, <2>4
  <2> QED
    BY <2>1, <2>3, <2>5, <1>1 DEF BodyAt
<1>8. ASSUME ~ReadHeader(c, e), ~ExpectBody(c, e) PROVE BodyAt(c)'
  <2>1. ctx'[c].request.headers = req.headers
    BY <1>8, LineLeaves
  <2>2. ContentLengthText(ctx'[c].request) = v
    BY <2>1 DEF ContentLengthText, GetHeader
  <2>3. CASE ctx[c].state = "kExpectRequestLine"
    <3>1. ContentLengthMissing(req)
      BY <2>3 DEF BodyAt
    <3>2. ctx'[c].state # "kExpectBody"
      BY <1>8, LineExpectsBody
    <3> QED
      BY <2>1, <3>1, <3>2, <1>1 DEF BodyAt, ContentLengthText, ContentLengthMissing, GetHeader
  <2>4. CASE ctx[c].state = "kExpectHeaders"
    <3>1. CASE ctx'[c].state = "kGotAll"
      BY <3>1, <1>1 DEF BodyAt
    <3>2. CASE ContentLengthMissing(req) /\ ctx'[c].state = "kExpectHeaders"
      BY <3>2, <2>1, <1>1 DEF BodyAt, ContentLengthText, ContentLengthMissing, GetHeader
    <3>3. ASSUME ~ContentLengthMissing(req), ctx'[c].state = "kExpectHeaders"
          PROVE  DeclaredAhead(s, rd'[c], v)
      <4>1. \/ rd'[c] = e /\ BadHeaderLine(t, Glued(rd[c], e))
            \/ rd'[c] = rd[c]
        BY <3>3, <2>4, <1>8, LineGoesTo
      <4>2. CASE rd'[c] = rd[c]
        BY <4>2, <3>3, <2>4, <1>5
      <4>3. CASE rd'[c] = e /\ BadHeaderLine(t, Glued(rd[c], e))
        <5>1. t.kind # "blank"
          BY <4>3, <3>3, <2>4, <1>5 DEF BadHeaderLine, IsBlank
        <5> QED
          BY <5>1, <4>3, <3>3, <2>4, <1>5, <1>0, <1>3, DeclaredOn
      <4> QED
        BY <4>1, <4>2, <4>3
    <3>4. ctx'[c].state \in {"kGotAll", "kExpectHeaders"}
      BY <2>4, <1>8, LineGoesTo
    <3>5. ASSUME ~ContentLengthMissing(req), ctx'[c].state = "kExpectHeaders"
          PROVE  BodyAt(c)'
      BY <3>3, <3>5, <2>1, <2>2, <1>1 DEF BodyAt, ContentLengthText, GetHeader
    <3> QED
      BY <3>1, <3>2, <3>4, <3>5
  <2> QED
    BY <2>3, <2>4, <1>1
<1> QED
  BY <1>6, <1>7, <1>8

\* The stream is never longer than what the bound on the requests allows, so
\* a length that never arrives is never waited for in vain.
LEMMA NothingNeverArrives ==
    ASSUME TypeOK, NEW c \in Connection, BodyAt(c), NEW n \in Nat, NeverArrives(n)
    PROVE  Len(stream[c]) < n
<1>1. PICK q \in Requests : /\ \A r \in Requests : Len(r) <= Len(q)
                            /\ MaxRequests * Len(q) < n
  BY DEF NeverArrives
<1>2. PICK l \in Nat : l = Len(q)
  BY HttpServerAssumption, LenProperties
<1>3. PICK k \in Nat : k = Len(sent[c])
  BY LenProperties DEF TypeOK
<1>4. /\ Len(stream[c]) \in Nat /\ Len(stream[c]) <= k * l /\ k <= MaxRequests
      /\ MaxRequests * l < n /\ MaxRequests \in Nat
  BY <1>1, <1>2, <1>3, HttpServerAssumption, LenProperties DEF BodyAt, TypeOK
<1>5. k * l <= MaxRequests * l
  BY <1>4
<1> QED
  BY <1>4, <1>5

\* Every step keeps it on the connection that it concerns.
LEMMA BodyHere ==
    ASSUME \A r \in Requests : FramesItself(r),
           TypeOK, NEW c \in Connection, BodyAt(c), ThreadStep(c) \/ Environment(c)
    PROVE  BodyAt(c)'
<1>0. /\ ctx[c] \in Context /\ ctx[c].request \in Request /\ ctx \in [Connection -> Context]
      /\ rd[c] \in Nat /\ wr[c] \in Nat /\ rd[c] <= wr[c] /\ wr[c] <= Len(stream[c])
      /\ stream[c] \in Seq(Token) /\ Len(stream[c]) \in Nat
      /\ "Content-Length" \in HeaderName
  BY HttpRequestAssumption, LenProperties DEF TypeOK, Context
<1>1. CASE OnConnected(c)
  <2>1. /\ sent'[c] = sent[c] /\ stream'[c] = stream[c] /\ ctx'[c] = NewContext
    BY <1>1 DEF OnConnected, client, TypeOK
  <2>2. /\ NewContext.state = "kExpectRequestLine"
        /\ NewContext.request.headers = [h \in HeaderName |-> ""]
        /\ NewContext.request.content = <<>>
    BY DEF NewContext, NewRequest
  <2>3. ContentLengthMissing(NewContext.request) /\ Len(NewContext.request.content) = 0
    BY <2>2, <1>0 DEF ContentLengthMissing, ContentLengthText, GetHeader
  <2>4. /\ ctx'[c].state = "kExpectRequestLine" /\ ContentLengthMissing(ctx'[c].request)
        /\ Len(ctx'[c].request.content) = 0
    BY <2>1, <2>2, <2>3
  <2>5. \A i \in 1..Len(ctx'[c].request.content) : FALSE
    BY <2>4
  <2> QED
    BY <2>1, <2>4, <2>5 DEF BodyAt
<1>2. CASE ClientClose(c) \/ (\E n \in 0..Len(stream[c]) : Deliver(c, n))
  <2>1. /\ sent'[c] = sent[c] /\ stream'[c] = stream[c]
        /\ ctx'[c] = ctx[c] /\ rd'[c] = rd[c]
    BY <1>2 DEF ClientClose, Deliver, client, buffer
  <2> QED
    BY <2>1 DEF BodyAt
<1>3. ASSUME NEW r \in Requests, ClientSend(c, r) PROVE BodyAt(c)'
  <2>0. r \in Seq(Token) /\ FramesItself(r) /\ sent[c] \in Seq(Requests)
    BY HttpServerAssumption DEF TypeOK
  <2>1. /\ sent'[c] = Append(sent[c], r) /\ stream'[c] = stream[c] \o r
        /\ ctx'[c] = ctx[c] /\ rd'[c] = rd[c] /\ Len(sent[c]) < MaxRequests
    BY <1>3 DEF ClientSend, TypeOK, buffer
  <2>2. /\ Len(stream'[c]) = Len(stream[c]) + Len(r) /\ Len(r) \in Nat
        /\ \A i \in 1..Len(stream[c]) : stream'[c][i] = stream[c][i]
    BY <2>0, <2>1, <1>0, ConcatElements
  <2>3. FramesItself(stream'[c])
    BY <2>0, <2>1, <1>0, FramesConcat DEF BodyAt
  <2>4. Len(sent'[c]) = Len(sent[c]) + 1 /\ Len(sent[c]) \in Nat /\ Len(sent'[c]) <= MaxRequests
    BY <2>0, <2>1, AppendProperties, LenProperties, HttpServerAssumption
  <2>5. ASSUME NEW q \in Requests, \A x \in Requests : Len(x) <= Len(q)
        PROVE  Len(stream'[c]) <= Len(sent'[c]) * Len(q)
    <3>1. PICK l \in Nat : l = Len(q)
      BY HttpServerAssumption, LenProperties
    <3>2. PICK k \in Nat : k = Len(sent[c])
      BY <2>4
    <3>3. Len(stream[c]) <= k * l /\ Len(r) <= l
      BY <2>5, <3>1, <3>2 DEF BodyAt
    <3>4. (k + 1) * l = k * l + l
      OBVIOUS
    <3>5. Len(stream[c]) + Len(r) <= (k + 1) * l
      BY <3>3, <3>4, <2>2, <1>0
    <3> QED
      BY <3>1, <3>2, <3>5, <2>2, <2>4
  <2>6. ASSUME NEW v, DeclaredAhead(stream[c], rd[c], v) PROVE DeclaredAhead(stream'[c], rd[c], v)
    <3>1. PICK p \in 1..rd[c] :
            /\ IsLengthHeader(stream[c][p]) /\ stream[c][p].value = v
            /\ \A j \in p+1..rd[c] : IsLine(stream[c][j]) /\ stream[c][j].kind # "blank"
      BY <2>6 DEF DeclaredAhead
    <3>2. \A j \in p..rd[c] : stream'[c][j] = stream[c][j]
      BY <2>2, <1>0
    <3>3. p \in p..rd[c] /\ \A j \in p+1..rd[c] : j \in p..rd[c]
      BY <1>0
    <3> QED
      BY <3>1, <3>2, <3>3 DEF DeclaredAhead
  <2>7. ASSUME NEW n \in Nat, BodyFollows(stream[c], rd[c], n)
        PROVE  BodyFollows(stream'[c], rd[c], n)
    <3>1. \A i \in rd[c]+1..rd[c]+n : stream'[c][i] = stream[c][i]
      BY <2>2, <2>7, <1>0 DEF BodyFollows
    <3> QED
      BY <3>1, <2>2, <2>7, <1>0 DEF BodyFollows
  <2>8. ctx[c].request.contentLength \in Nat
    BY <1>0, LengthType
  <2> QED
    BY <2>1, <2>3, <2>4, <2>5, <2>6, <2>7, <2>8 DEF BodyAt
<1>4. CASE AwaitMore(c) \/ Spin(c) \/ AfterParse(c) \/ ThrowInCallback(c) \/ CatchException(c)
  <2>1. /\ sent'[c] = sent[c] /\ stream'[c] = stream[c]
        /\ ctx'[c] = ctx[c] /\ rd'[c] = rd[c]
    BY <1>4 DEF AwaitMore, Spin, AfterParse, ThrowInCallback, CatchException,
       ParserFrame, client, buffer
  <2> QED
    BY <2>1 DEF BodyAt
<1>5. CASE ReadBody(c)
  <2> DEFINE n == ctx[c].request.contentLength
             body == SubSeq(stream[c], rd[c] + 1, rd[c] + n)
  <2>1. /\ sent'[c] = sent[c] /\ stream'[c] = stream[c]
        /\ ctx[c].state = "kExpectBody" /\ ctx'[c].state = "kGotAll"
        /\ ctx'[c].request = [ctx[c].request EXCEPT !.content = body]
    BY <1>5, BodyRead DEF ParserFrame, client, GotAll
  <2>2. ctx'[c].request.content = body
    BY <2>1, <1>0 DEF Request
  <2>3. n \in Nat
    BY <1>0, LengthType
  <2>4. rd[c] + n <= Len(stream[c])
    BY <1>5, <2>3, <1>0 DEF ReadBody, BodyIncomplete
  <2>5. ~NeverArrives(n)
    BY <2>3, <2>4, <1>0, NothingNeverArrives
  <2>6. \A i \in rd[c]+1..rd[c]+n : ~IsLine(stream[c][i])
    BY <2>1, <2>5 DEF BodyAt, BodyFollows
  <2>7. Len(body) = n /\ \A i \in 1..n : body[i] = stream[c][rd[c] + i]
    <3>1. stream[c] \in Seq(Token) /\ rd[c] \in Nat
      BY <1>0
    <3> QED
      BY <3>1, <2>3, <2>4, Slice
  <2>8. \A i \in 1..Len(body) : ~IsLine(body[i])
    <3>1. \A i \in 1..n : rd[c] + i \in rd[c]+1..rd[c]+n
      BY <2>3, <1>0
    <3> QED
      BY <3>1, <2>6, <2>7
  <2> HIDE DEF body, n
  <2> QED
    BY <2>1, <2>2, <2>8 DEF BodyAt
<1>6. ASSUME NEW e \in 1..Len(stream[c]), LineStep(c, e) PROVE BodyAt(c)'
  BY <1>6, LineKeepsBody
<1>7. ASSUME NEW resp \in Responses(ctx[c].request), OnRequest(c, resp) PROVE BodyAt(c)'
  <2>1. /\ sent'[c] = sent[c] /\ stream'[c] = stream[c] /\ ctx'[c] = Reset(ctx[c])
    BY <1>7 DEF OnRequest, client, TypeOK
  <2>2. /\ Reset(ctx[c]).state = "kExpectRequestLine"
        /\ Reset(ctx[c]).request.headers = [h \in HeaderName |-> ""]
        /\ Reset(ctx[c]).request.content = ctx[c].request.content
    BY DEF Reset, SwapWithNew, NewRequest
  <2>3. ContentLengthMissing(Reset(ctx[c]).request)
    BY <2>2, <1>0 DEF ContentLengthMissing, ContentLengthText, GetHeader
  <2> QED
    BY <2>1, <2>2, <2>3 DEF BodyAt
<1> QED
  BY <1>1, <1>2, <1>3, <1>4, <1>5, <1>6, <1>7 DEF ThreadStep, Environment

\* Whatever else is wrong with the requests, if each frames itself then no
\* piece of a line is ever stored as a body (HttpContext.cpp:119-134).
THEOREM BodyIsBytesCorrect ==
    ASSUME \A r \in Requests : FramesItself(r)
    PROVE  Spec => []BodyIsBytes
<1>1. Init => BodyInv
  <2> SUFFICES ASSUME Init, NEW c \in Connection PROVE BodyAt(c)
    BY DEF BodyInv
  <2>1. /\ sent[c] = <<>> /\ stream[c] = <<>> /\ ctx[c].state = "kExpectRequestLine"
        /\ ctx[c].request.headers = [h \in HeaderName |-> ""]
        /\ ctx[c].request.content = <<>>
    BY DEF Init, NewContext, NewRequest
  <2>2. Len(sent[c]) = 0 /\ Len(stream[c]) = 0 /\ Len(ctx[c].request.content) = 0
    BY <2>1
  <2>3. ContentLengthMissing(ctx[c].request)
    BY <2>1, HttpRequestAssumption DEF ContentLengthMissing, ContentLengthText, GetHeader
  <2>4. FramesItself(stream[c])
    BY <2>2 DEF FramesItself
  <2>5. ASSUME NEW q \in Requests PROVE Len(stream[c]) <= Len(sent[c]) * Len(q)
    <3>1. PICK l \in Nat : l = Len(q)
      BY HttpServerAssumption, LenProperties
    <3>2. 0 <= 0 * l
      OBVIOUS
    <3> QED
      BY <3>1, <3>2, <2>2
  <2>6. Len(sent[c]) <= MaxRequests /\ \A i \in 1..Len(ctx[c].request.content) : FALSE
    BY <2>2, HttpServerAssumption
  <2> QED
    BY <2>1, <2>3, <2>4, <2>5, <2>6 DEF BodyAt
<1>2. TypeOK /\ BodyInv /\ [Next]_vars => BodyInv'
  <2> SUFFICES ASSUME TypeOK, BodyInv, [Next]_vars, NEW d \in Connection PROVE BodyAt(d)'
    BY DEF BodyInv
  <2>1. CASE UNCHANGED vars
    BY <2>1 DEF vars, BodyInv, BodyAt
  <2>2. ASSUME NEW c \in Connection, ThreadStep(c) \/ Environment(c) PROVE BodyAt(d)'
    <3>1. CASE d = c
      BY <2>2, <3>1, BodyHere DEF BodyInv
    <3>2. CASE d # c
      BY <2>2, <3>2, OthersUntouched DEF BodyInv, BodyAt
    <3> QED
      BY <3>1, <3>2
  <2> QED
    BY <2>1, <2>2 DEF Next
<1>3. BodyInv => BodyIsBytes
  BY DEF BodyInv, BodyAt, BodyIsBytes
<1> QED
  BY <1>1, <1>2, <1>3, TypeCorrect, PTL DEF Spec

---------------------------------------------------------------------------
(* The requests of well-behaved clients come out as they went in.          *)

\* The stream s is the requests rs one after the other; the k-th ends at
\* off[k].
Layout(s, rs, off) ==
    /\ off[0] = 0 /\ off[Len(rs)] = Len(s)
    /\ \A k \in 0..Len(rs) : off[k] <= Len(s)
    /\ \A k \in 1..Len(rs) :
        /\ off[k] = off[k - 1] + Len(rs[k])
        /\ \A i \in 1..Len(rs[k]) : s[off[k - 1] + i] = rs[k][i]

\* v is the value of the last header h among the first j lines of r.
LastHeader(r, j, h, v) ==
    \/ v = "" /\ \A i \in 1..j : ~(IsHeader(r[i]) /\ r[i].name = h)
    \/ \E i \in 1..j : /\ IsHeader(r[i]) /\ r[i].name = h /\ r[i].value = v
                       /\ \A m \in i+1..j : ~(IsHeader(r[m]) /\ r[m].name = h)

\* The request object holds what the first j lines of r say.
ReadUpTo(req, r, j) ==
    /\ req.method = r[1].method /\ req.path = r[1].path
    /\ req.version = r[1].version /\ req.query = r[1].args
    /\ \A h \in HeaderName : LastHeader(r, j, h, req.headers[h])

\* The parser x is j tokens into the request r.
Inside(x, r, j) ==
    /\ x.state = "kExpectHeaders" => j \in 1..BlankAt(r)-1 /\ ReadUpTo(x.request, r, j)
    /\ x.state = "kExpectBody" =>
        /\ j = BlankAt(r) /\ ReadUpTo(x.request, r, j)
        /\ NeedsBody(x.request) /\ x.request.contentLength > 0
        /\ x.request.contentLength = Len(r) - j
    /\ x.state = "kGotAll" => j = Len(r) /\ Seen(x.request) = Meant(r)

\* Inductive: the parser of c is at the beginning of the first request that
\* has not been handled, or inside it, or a callback has thrown.
At(c, off) ==
    LET k == Len(handled[c]) IN
    /\ k <= Len(sent[c])
    /\ pc[c] \in {"dispatch", "catch", "spinning"} => GotAll(ctx[c])
    /\ ctx[c].state = "kExpectRequestLine" =>
        /\ rd[c] = off[k]
        /\ MethodUnset(ctx[c].request) /\ ctx[c].request.query = <<>>
        /\ \A h \in HeaderName : ctx[c].request.headers[h] = ""
    /\ \/ ctx[c].state \in {"kExpectHeaders", "kExpectBody"}
       \/ GotAll(ctx[c]) /\ pc[c] \in {"parsed", "dispatch"}
       => k < Len(sent[c]) /\ Inside(ctx[c], sent[c][k + 1], rd[c] - off[k])
StreamAt(c) ==
    /\ conn[c] = "new" => /\ pc[c] = "idle" /\ rd[c] = 0
                          /\ sent[c] = <<>> /\ handled[c] = <<>>
    /\ \E off \in [0..Len(sent[c]) -> Nat] : Layout(stream[c], sent[c], off) /\ At(c, off)
StreamInv == alive /\ \A c \in Connection : StreamAt(c)

\* What a well-formed request consists of.
LEMMA WellFormedParts ==
    ASSUME NEW r \in Requests, WellFormedRequest(r)
    PROVE  /\ r \in Seq(Token) /\ Len(r) \in Nat
           /\ BlankAt(r) \in Nat /\ BlankAt(r) >= 2 /\ BlankAt(r) <= Len(r)
           /\ r[1].kind = "request" /\ RequestLineGood(r[1])
           /\ \A i \in 2..BlankAt(r)-1 : IsHeader(r[i])
           /\ r[BlankAt(r)].kind = "blank"
           /\ \A i \in 1..BlankAt(r) : IsLine(r[i])
           /\ \A i \in 1..Len(r) : IsHeader(r[i]) => i \in 2..BlankAt(r)-1
<1> DEFINE b == BlankAt(r)
<1>1. r \in Seq(Token) /\ Len(r) \in Nat
  BY HttpServerAssumption, LenProperties
<1>2. /\ b \in 2..Len(r)
      /\ r[1].kind = "request" /\ RequestLineGood(r[1])
      /\ \A i \in 2..b-1 : IsHeader(r[i])
      /\ r[b].kind = "blank"
      /\ \A i \in b+1..Len(r) : ~IsLine(r[i])
  BY DEF WellFormedRequest
<1> HIDE DEF b
<1>3. b \in Nat /\ b >= 2 /\ b <= Len(r)
  BY <1>1, <1>2
<1>4. ASSUME NEW i \in 1..b PROVE IsLine(r[i])
  <2>1. i = 1 \/ i \in 2..b-1 \/ i = b
    BY <1>3
  <2> QED
    BY <2>1, <1>2 DEF IsLine, IsHeader
<1>5. ASSUME NEW i \in 1..Len(r), IsHeader(r[i]) PROVE i \in 2..b-1
  <2>1. i = 1 \/ i \in 2..b-1 \/ i = b \/ i \in b+1..Len(r)
    BY <1>1, <1>3
  <2> QED
    BY <2>1, <1>2, <1>5 DEF IsLine, IsHeader
<1> QED
  BY <1>1, <1>2, <1>3, <1>4, <1>5 DEF b

\* The last header so far, after one more line.
LEMMA LastHeaderOn ==
    ASSUME NEW r, NEW j \in Nat, NEW h, NEW v, LastHeader(r, j, h, v)
    PROVE  /\ ~(IsHeader(r[j + 1]) /\ r[j + 1].name = h) => LastHeader(r, j + 1, h, v)
           /\ IsHeader(r[j + 1]) /\ r[j + 1].name = h =>
                LastHeader(r, j + 1, h, r[j + 1].value)
<1>1. j + 1 \in 1..j+1 /\ \A m \in (j+1)+1..j+1 : FALSE
  OBVIOUS
<1>2. \A i \in 1..j+1 : i \in 1..j \/ i = j + 1
  OBVIOUS
<1>3. ASSUME ~(IsHeader(r[j + 1]) /\ r[j + 1].name = h) PROVE LastHeader(r, j + 1, h, v)
  <2>1. CASE v = "" /\ \A i \in 1..j : ~(IsHeader(r[i]) /\ r[i].name = h)
    BY <2>1, <1>2, <1>3 DEF LastHeader
  <2>2. ASSUME NEW i \in 1..j, IsHeader(r[i]), r[i].name = h, r[i].value = v,
               \A m \in i+1..j : ~(IsHeader(r[m]) /\ r[m].name = h)
        PROVE  LastHeader(r, j + 1, h, v)
    <3>1. i \in 1..j+1 /\ \A m \in i+1..j+1 : m \in i+1..j \/ m = j + 1
      OBVIOUS
    <3>2. \A m \in i+1..j+1 : ~(IsHeader(r[m]) /\ r[m].name = h)
      BY <2>2, <3>1, <1>3
    <3> QED
      BY <2>2, <3>1, <3>2 DEF LastHeader
  <2> QED
    BY <2>1, <2>2 DEF LastHeader
<1>4. ASSUME IsHeader(r[j + 1]), r[j + 1].name = h
      PROVE  LastHeader(r, j + 1, h, r[j + 1].value)
  BY <1>1, <1>4 DEF LastHeader
<1> QED
  BY <1>3, <1>4

\* At the blank line the last header is the one declared.
LEMMA LastHeaderDeclared ==
    ASSUME NEW r \in Requests, WellFormedRequest(r), NEW h, NEW v,
           NEW j \in {BlankAt(r) - 1, BlankAt(r)}, LastHeader(r, j, h, v)
    PROVE  v = Declared(r, h)
<1> DEFINE at == {i \in 1..Len(r) : IsHeader(r[i]) /\ r[i].name = h}
<1>0. Declared(r, h) = IF at = {} THEN ""
                       ELSE r[CHOOSE i \in at : \A m \in at : m <= i].value
  BY DEF Declared
<1>1. \A i \in at : i \in 1..j /\ i \in Nat
  BY WellFormedParts
<1>2. CASE v = "" /\ \A i \in 1..j : ~(IsHeader(r[i]) /\ r[i].name = h)
  BY <1>0, <1>1, <1>2
<1>3. ASSUME NEW i \in 1..j, IsHeader(r[i]), r[i].name = h, r[i].value = v,
             \A m \in i+1..j : ~(IsHeader(r[m]) /\ r[m].name = h)
      PROVE  v = Declared(r, h)
  <2>1. i \in at
    BY <1>3, WellFormedParts
  <2>2. \A m \in at : m <= i
    BY <1>1, <1>3
  <2>3. \A l \in at : (\A m \in at : m <= l) => l = i
    BY <2>1, <2>2, <1>1
  <2>4. (CHOOSE l \in at : \A m \in at : m <= l) = i
    BY <2>1, <2>2, <2>3
  <2> QED
    BY <1>0, <1>3, <2>1, <2>4
<1> QED
  BY <1>2, <1>3 DEF LastHeader

\* A request object that holds all lines of r, and its body, is what r means.
LEMMA SeenIsMeant ==
    ASSUME NEW r \in Requests, WellFormedRequest(r), NEW req \in Request,
           NEW j \in {BlankAt(r) - 1, BlankAt(r)}, ReadUpTo(req, r, j),
           (IF CarriesBody(req) THEN req.content ELSE <<>>) = SubSeq(r, BlankAt(r) + 1, Len(r))
    PROVE  Seen(req) = Meant(r)
<1>1. \A h \in HeaderName : req.headers[h] = Declared(r, h)
  BY LastHeaderDeclared DEF ReadUpTo
<1>2. req.headers = [h \in HeaderName |-> Declared(r, h)]
  BY <1>1 DEF Request
<1> QED
  BY <1>2 DEF Seen, Meant, ReadUpTo

\* The stream with one more request at its end.
LEMMA LayoutGrows ==
    ASSUME NEW s \in Seq(Token), NEW rs \in Seq(Requests), NEW r \in Requests,
           NEW off \in [0..Len(rs) -> Nat], Layout(s, rs, off)
    PROVE  \E next \in [0..Len(Append(rs, r)) -> Nat] :
             /\ Layout(s \o r, Append(rs, r), next)
             /\ \A k \in 0..Len(rs) : next[k] = off[k]
<1>1. r \in Seq(Token)
  BY HttpServerAssumption
<1>2. PICK n \in Nat : n = Len(rs)
  BY LenProperties
<1>3. /\ Len(s) \in Nat /\ Len(r) \in Nat /\ Len(s \o r) = Len(s) + Len(r)
      /\ \A i \in 1..Len(s) : (s \o r)[i] = s[i]
      /\ \A i \in 1..Len(r) : (s \o r)[Len(s) + i] = r[i]
  BY <1>1, ConcatElements
<1>4. /\ Len(Append(rs, r)) = n + 1
      /\ \A k \in 1..n : Append(rs, r)[k] = rs[k]
      /\ Append(rs, r)[n + 1] = r
  BY <1>2, AppendProperties
<1> DEFINE sr == s \o r
           rsr == Append(rs, r)
           next == [k \in 0..n+1 |-> IF k = n + 1 THEN Len(sr) ELSE off[k]]
<1>5. /\ off[0] = 0 /\ off[n] = Len(s)
      /\ \A k \in 0..n : off[k] <= Len(s) /\ off[k] \in Nat
      /\ \A k \in 1..n :
          /\ off[k] = off[k - 1] + Len(rs[k])
          /\ \A i \in 1..Len(rs[k]) : s[off[k - 1] + i] = rs[k][i]
  BY <1>2 DEF Layout
<1> HIDE DEF sr, rsr
<1>6. /\ next \in [0..n+1 -> Nat] /\ next[n + 1] = Len(sr)
      /\ \A k \in 0..n : next[k] = off[k]
  <2>1. Len(sr) \in Nat
    BY <1>3 DEF sr
  <2> QED
    BY <2>1, <1>5
<1> HIDE DEF next
<1>7. ASSUME NEW k \in 0..n+1 PROVE next[k] <= Len(sr)
  <2>0. Len(sr) \in Nat /\ Len(s) <= Len(sr)
    BY <1>3 DEF sr
  <2>1. CASE k \in 0..n
    <3>1. next[k] = off[k] /\ off[k] <= Len(s) /\ off[k] \in Nat /\ Len(s) \in Nat
      BY <2>1, <1>3, <1>5, <1>6
    <3> QED
      BY <2>0, <3>1
  <2>2. CASE k = n + 1
    BY <2>0, <2>2, <1>6
  <2> QED
    BY <2>1, <2>2
<1>8. ASSUME NEW k \in 1..n+1
      PROVE  /\ next[k] = next[k - 1] + Len(rsr[k])
             /\ \A i \in 1..Len(rsr[k]) : sr[next[k - 1] + i] = rsr[k][i]
  <2>1. CASE k = n + 1
    <3>1. next[k - 1] = Len(s) /\ rsr[k] = r /\ next[k] = Len(sr)
      BY <2>1, <1>4, <1>5, <1>6 DEF rsr
    <3> QED
      BY <3>1, <1>3 DEF sr
  <2>2. CASE k \in 1..n
    <3>1. /\ k - 1 \in 0..n /\ k \in 0..n
          /\ next[k - 1] = off[k - 1] /\ next[k] = off[k] /\ rsr[k] = rs[k]
      BY <2>2, <1>4, <1>6 DEF rsr
    <3>2. rs[k] \in Seq(Token)
      BY <2>2, <1>2, HttpServerAssumption, ElementOfSeq
    <3>3. /\ off[k - 1] \in Nat /\ off[k] <= Len(s) /\ Len(rs[k]) \in Nat
          /\ off[k] = off[k - 1] + Len(rs[k])
      BY <2>2, <3>1, <3>2, <1>5, LenProperties
    <3>4. ASSUME NEW i \in 1..Len(rs[k]) PROVE sr[off[k - 1] + i] = rs[k][i]
      <4>a. PICK a \in Nat : a = off[k - 1]
        BY <3>3
      <4>m. PICK m \in Nat : m = Len(rs[k])
        BY <3>3
      <4>l. PICK l \in Nat : l = Len(s)
        BY <1>3
      <4>0. a + m <= l
        BY <2>2, <3>3, <4>a, <4>m, <4>l, <1>5
      <4>2. a + i \in 1..l
        BY <4>0, <4>m
      <4>1. off[k - 1] + i \in 1..Len(s)
        BY <4>2, <4>a, <4>l
      <4> QED
        BY <4>1, <2>2, <1>3, <1>5 DEF sr
    <3> QED
      BY <3>1, <3>4, <2>2, <1>5
  <2> QED
    BY <2>1, <2>2
<1>9. next[0] = 0
  BY <1>5, <1>6
<1>10. Layout(sr, rsr, next)
  BY <1>4, <1>6, <1>7, <1>8, <1>9 DEF Layout, rsr
<1> QED
  BY <1>2, <1>4, <1>6, <1>10 DEF sr, rsr

\* A line at the reader index is the one that ends first, and it is whole.
LEMMA NextLine ==
    ASSUME NEW s, NEW i \in Nat, NEW w \in Nat, IsLine(s[i + 1]), NEW e, EndsLine(s, i, w, e)
    PROVE  e = i + 1 /\ Glued(i, e) = FALSE
<1>1. /\ e \in i+1..w
      /\ \A m \in i+1..e-1 : ~IsLine(s[m])
  BY DEF EndsLine
<1>2. e = i + 1
  BY <1>1
<1> QED
  BY <1>2 DEF Glued

\* A step of the parser inside a request leaves it inside that request.
LEMMA InsideKeepsStream ==
    ASSUME TypeOK, NEW c \in Connection, ParserFrame, conn[c] # "new",
           NEW off \in [0..Len(sent[c]) -> Nat], Layout(stream[c], sent[c], off),
           NEW k, k = Len(handled[c]), k < Len(sent[c]),
           NEW r, r = sent[c][k + 1], NEW j, j = rd'[c] - off[k], Inside(ctx'[c], r, j),
           ctx'[c].state # "kExpectRequestLine", pc'[c] \in {"parse", "parsed"}
    PROVE  StreamAt(c)'
<1>1. /\ conn'[c] = conn[c] /\ sent'[c] = sent[c] /\ stream'[c] = stream[c]
      /\ handled'[c] = handled[c]
  BY DEF ParserFrame, client
<1>2. Len(handled[c]) <= Len(sent[c])
  BY LenProperties DEF TypeOK
<1>3. At(c, off)'
  BY <1>1, <1>2 DEF At
<1> QED
  BY <1>1, <1>3 DEF StreamAt

\* The request line is the only step from the beginning of a request.
LEMMA RequestLineKeepsStream ==
    ASSUME \A x \in Requests : WellFormedRequest(x), TypeOK, NEW c \in Connection,
           NEW off \in [0..Len(sent[c]) -> Nat], Layout(stream[c], sent[c], off), At(c, off),
           conn[c] # "new", NEW e \in 1..Len(stream[c]), LineStep(c, e),
           ctx[c].state = "kExpectRequestLine"
    PROVE  StreamAt(c)' /\ alive' = alive
<1>k. PICK k \in Nat : k = Len(handled[c])
  BY LenProperties DEF TypeOK
<1>r. PICK r : r = sent[c][k + 1]
  OBVIOUS
<1> DEFINE req == ctx[c].request
           t == stream[c][e]
<1>0. /\ ctx[c] \in Context /\ req \in Request /\ ctx \in [Connection -> Context]
      /\ rd[c] \in Nat /\ wr[c] \in Nat /\ wr[c] <= Len(stream[c])
      /\ Len(sent[c]) \in Nat /\ Len(stream[c]) \in Nat
      /\ rd \in [Connection -> Nat] /\ pc \in [Connection -> PC]
  BY LenProperties DEF TypeOK, Context
<1>1. k <= Len(sent[c]) /\ rd[c] = off[k]
  BY <1>k DEF At
<1>p. /\ MethodUnset(req) /\ req.query = <<>>
      /\ \A h \in HeaderName : req.headers[h] = ""
  BY DEF At
<1>o. off[k] \in Nat
  BY <1>0, <1>1
<1>2. LineAt(c, e)
  BY DEF LineStep, AcceptRequestLine, RejectRequestLine, ThrowInRequestLine,
     AbortInSetMethod, ReadHeader, RejectHeader, EndHeaders, RejectHeaders,
     ThrowInContentLength, ExpectBody, AtBlankLine
<1>3. k < Len(sent[c])
  <2>1. rd[c] < Len(stream[c])
    BY <1>0, <1>2 DEF LineAt, EndsLine
  <2>2. off[Len(sent[c])] = Len(stream[c])
    BY DEF Layout
  <2>3. k # Len(sent[c])
    BY <2>1, <2>2, <1>0, <1>1
  <2> QED
    BY <2>3, <1>0, <1>1
<1>4. r \in Requests /\ WellFormedRequest(r)
  <2>1. k + 1 \in 1..Len(sent[c])
    BY <1>0, <1>3
  <2> QED
    BY <2>1, <1>r, ElementOfSeq DEF TypeOK
<1>5. /\ BlankAt(r) \in Nat /\ BlankAt(r) >= 2 /\ r[1].kind = "request"
      /\ RequestLineGood(r[1]) /\ r \in Seq(Token) /\ Len(r) \in Nat /\ BlankAt(r) <= Len(r)
      /\ \A i \in 1..Len(r) : IsHeader(r[i]) => i \in 2..BlankAt(r)-1
  BY <1>4, WellFormedParts
<1>6. e = rd[c] + 1 /\ t = r[1] /\ Glued(rd[c], e) = FALSE
  <2>1. \A i \in 1..Len(r) : stream[c][off[k] + i] = r[i]
    <3>1. Len(sent[c]) \in Nat
      BY <1>0
    <3>2. k < Len(sent[c])
      BY <1>3
    <3>3. k + 1 \in 1..Len(sent[c]) /\ (k + 1) - 1 = k
      BY <3>1, <3>2
    <3>4. \A m \in 1..Len(sent[c]) : \A i \in 1..Len(sent[c][m]) :
            stream[c][off[m - 1] + i] = sent[c][m][i]
      BY DEF Layout
    <3>5. \A i \in 1..Len(sent[c][k + 1]) :
            stream[c][off[(k + 1) - 1] + i] = sent[c][k + 1][i]
      BY <3>3, <3>4
    <3> QED
      BY <3>3, <3>5, <1>r
  <2>2. 1 \in 1..Len(r)
    BY <1>5
  <2>3. stream[c][rd[c] + 1] = r[1] /\ IsLine(r[1])
    BY <2>1, <2>2, <1>1, <1>5 DEF IsLine
  <2> QED
    BY <2>3, <1>0, <1>2, NextLine DEF LineAt
<1>7. ~MethodAssertFails(req, t) /\ ~RequestLineThrows(t) /\ RequestLineGood(t)
  BY <1>p, <1>5, <1>6 DEF MethodAssertFails, RequestLineThrows, QueryBehindVersion, RequestLineGood,
     Version
<1>8. AcceptRequestLine(c, e)
  BY <1>7 DEF LineStep, RejectRequestLine, ThrowInRequestLine, AbortInSetMethod,
     ReadHeader, RejectHeader, EndHeaders, RejectHeaders, ThrowInContentLength,
     ExpectBody, AtBlankLine, InState
<1> DEFINE after == AfterRequestLine(req, t, Glued(rd[c], e))
<1>9. /\ after.method = r[1].method /\ after.path = r[1].path
      /\ after.version = r[1].version /\ after.query = r[1].args
      /\ after.headers = req.headers
  BY <1>0, <1>p, <1>5, <1>6, <1>7 DEF AfterRequestLine, HasSpace, HasPath, MethodOf,
     RequestLineGood, Request
<1> HIDE DEF after
<1>10. /\ ctx'[c].state = "kExpectHeaders" /\ ctx'[c].request = after
       /\ rd'[c] = rd[c] + 1 /\ pc'[c] = "parse" /\ alive' = alive /\ ParserFrame
  <2>1. ctx' = [ctx EXCEPT ![c] = [[ctx[c] EXCEPT !.state = "kExpectHeaders"]
                                    EXCEPT !.request = after]]
    BY <1>8, <1>0 DEF AcceptRequestLine, after, Context
  <2> QED
    BY <2>1, <1>0, <1>6, <1>8 DEF AcceptRequestLine, Context, ConsumeTo, InState
<1>11. ReadUpTo(after, r, 1)
  <2>1. ~IsHeader(r[1])
    BY <1>5 DEF IsHeader
  <2>2. ASSUME NEW h \in HeaderName PROVE LastHeader(r, 1, h, after.headers[h])
    <3>1. after.headers[h] = ""
      BY <1>p, <1>9
    <3>2. \A i \in 1..1 : ~(IsHeader(r[i]) /\ r[i].name = h)
      BY <2>1
    <3> QED
      BY <3>1, <3>2 DEF LastHeader
  <2> QED
    BY <2>2, <1>9 DEF ReadUpTo
<1>12. rd'[c] - off[k] = 1 /\ 1 \in 1..BlankAt(r)-1
  BY <1>1, <1>5, <1>10, <1>o
<1>13. Inside(ctx'[c], r, 1)
  BY <1>10, <1>11, <1>12 DEF Inside
<1> QED
  BY <1>k, <1>r, <1>3, <1>10, <1>12, <1>13, InsideKeepsStream

\* The lines after it are headers and then the blank line, whose length is
\* the one the request declares.
LEMMA HeaderKeepsStream ==
    ASSUME \A x \in Requests : WellFormedRequest(x), TypeOK, NEW c \in Connection,
           NEW off \in [0..Len(sent[c]) -> Nat], Layout(stream[c], sent[c], off), At(c, off),
           conn[c] # "new", NEW e \in 1..Len(stream[c]), LineStep(c, e),
           ctx[c].state = "kExpectHeaders"
    PROVE  StreamAt(c)' /\ alive' = alive
<1>k. PICK k \in Nat : k = Len(handled[c])
  BY LenProperties DEF TypeOK
<1>r. PICK r : r = sent[c][k + 1]
  OBVIOUS
<1>b. PICK b : b = BlankAt(r)
  OBVIOUS
<1> DEFINE req == ctx[c].request
           t == stream[c][e]
<1>0. /\ ctx[c] \in Context /\ req \in Request /\ ctx \in [Connection -> Context]
      /\ rd[c] \in Nat /\ wr[c] \in Nat /\ wr[c] <= Len(stream[c])
      /\ Len(sent[c]) \in Nat /\ Len(stream[c]) \in Nat
      /\ rd \in [Connection -> Nat] /\ pc \in [Connection -> PC]
  BY LenProperties DEF TypeOK, Context
<1>1. k < Len(sent[c]) /\ rd[c] - off[k] \in 1..b-1 /\ ReadUpTo(req, r, rd[c] - off[k])
  BY <1>k, <1>r, <1>b DEF At, Inside
<1>2. r \in Requests /\ off[k] \in Nat /\ WellFormedRequest(r)
  <2>1. k + 1 \in 1..Len(sent[c]) /\ k \in 0..Len(sent[c])
    BY <1>0, <1>1
  <2> QED
    BY <2>1, <1>r, ElementOfSeq DEF TypeOK
<1>3. /\ b \in Nat /\ b >= 2 /\ r[b].kind = "blank"
      /\ r \in Seq(Token) /\ Len(r) \in Nat /\ b <= Len(r)
      /\ \A i \in 2..b-1 : IsHeader(r[i])
  BY <1>2, <1>b, WellFormedParts
<1>4. PICK j \in 1..b-1 : rd[c] = off[k] + j /\ ReadUpTo(req, r, j)
  <2>1. rd[c] = off[k] + (rd[c] - off[k])
    BY <1>0, <1>2
  <2> QED
    BY <2>1, <1>1
<1>5. LineAt(c, e)
  BY DEF LineStep, AcceptRequestLine, RejectRequestLine, ThrowInRequestLine,
     AbortInSetMethod, ReadHeader, RejectHeader, EndHeaders, RejectHeaders,
     ThrowInContentLength, ExpectBody, AtBlankLine
<1>6. e = rd[c] + 1 /\ t = r[j + 1] /\ Glued(rd[c], e) = FALSE
  <2>1. \A i \in 1..Len(r) : stream[c][off[k] + i] = r[i]
    <3>1. Len(sent[c]) \in Nat
      BY <1>0
    <3>2. k < Len(sent[c])
      BY <1>1
    <3>3. k + 1 \in 1..Len(sent[c]) /\ (k + 1) - 1 = k
      BY <3>1, <3>2
    <3>4. \A m \in 1..Len(sent[c]) : \A i \in 1..Len(sent[c][m]) :
            stream[c][off[m - 1] + i] = sent[c][m][i]
      BY DEF Layout
    <3>5. \A i \in 1..Len(sent[c][k + 1]) :
            stream[c][off[(k + 1) - 1] + i] = sent[c][k + 1][i]
      BY <3>3, <3>4
    <3> QED
      BY <3>3, <3>5, <1>r
  <2>2. j + 1 \in 1..Len(r) /\ j + 1 \in 1..b /\ rd[c] + 1 = off[k] + (j + 1)
    <3>o. PICK o \in Nat : o = off[k]
      BY <1>2
    <3>1. rd[c] = o + j /\ j \in 1..b-1
      BY <1>4, <3>o
    <3>2. rd[c] + 1 = o + (j + 1) /\ j + 1 \in 1..b
      BY <3>1, <1>3
    <3>3. b \in Nat /\ Len(r) \in Nat /\ b <= Len(r)
      BY <1>3
    <3>4. j + 1 \in 1..Len(r)
      BY <3>2, <3>3
    <3> QED
      BY <3>2, <3>4, <3>o
  <2>3. stream[c][rd[c] + 1] = r[j + 1]
    BY <2>1, <2>2
  <2>4. IsLine(r[j + 1])
    BY <2>2, <1>b, <1>2, WellFormedParts
  <2> QED
    BY <2>3, <2>4, <1>0, <1>5, NextLine DEF LineAt
<1>7. e - off[k] = j + 1 /\ e \in Nat /\ j \in Nat
  <2>o. PICK o \in Nat : o = off[k]
    BY <1>2
  <2>1. rd[c] = o + j /\ j \in 1..b-1 /\ b \in Nat /\ e = rd[c] + 1
    BY <1>3, <1>4, <1>6, <2>o
  <2>2. e = (o + j) + 1 /\ j \in Nat
    BY <2>1
  <2>3. e - o = j + 1 /\ e \in Nat
    BY <2>2
  <2> QED
    BY <2>2, <2>3, <2>o
<1>8. CASE j + 1 < b
  <2>1. j + 1 \in 2..b-1 /\ IsHeader(t)
    <3>1. j + 1 \in 2..b-1
      BY <1>3, <1>4, <1>7, <1>8
    <3> QED
      BY <3>1, <1>3, <1>6
  <2>2. ReadHeader(c, e)
    BY <2>1 DEF LineStep, AcceptRequestLine, RejectRequestLine, ThrowInRequestLine,
       AbortInSetMethod, RejectHeader, BadHeaderLine, EndHeaders, RejectHeaders,
       ThrowInContentLength, ExpectBody, AtBlankLine, InState, IsBlank, IsHeader
  <2> DEFINE h == AddHeader(req, HeaderNameOf(t, Glued(rd[c], e)), t.value)
  <2>3. h = [req EXCEPT !.headers = [req.headers EXCEPT ![t.name] = t.value]]
    BY <1>0, <1>6 DEF AddHeader, HeaderNameOf, Request
  <2>4. /\ h.method = req.method /\ h.path = req.path /\ h.version = req.version
        /\ h.query = req.query
        /\ \A n \in HeaderName : h.headers[n] = IF n = t.name THEN t.value ELSE req.headers[n]
    BY <2>3, <1>0 DEF Request
  <2> HIDE DEF h
  <2>5. /\ ctx'[c].state = "kExpectHeaders" /\ ctx'[c].request = h /\ rd'[c] = e
        /\ pc'[c] = "parse" /\ alive' = alive /\ ParserFrame
    BY <2>2, <1>0 DEF ReadHeader, InState, ConsumeTo, h, Context
  <2>6. ASSUME NEW n \in HeaderName PROVE LastHeader(r, j + 1, n, h.headers[n])
    <3>1. LastHeader(r, j, n, req.headers[n]) /\ j \in Nat
      BY <1>4 DEF ReadUpTo
    <3>2. /\ ~(IsHeader(r[j + 1]) /\ r[j + 1].name = n) => LastHeader(r, j + 1, n, req.headers[n])
          /\ IsHeader(r[j + 1]) /\ r[j + 1].name = n => LastHeader(r, j + 1, n, r[j + 1].value)
      BY <3>1, LastHeaderOn
    <3> QED
      BY <3>2, <2>1, <2>4, <1>6
  <2>7. ReadUpTo(h, r, j + 1)
    BY <2>4, <2>6, <1>4 DEF ReadUpTo
  <2>8. Inside(ctx'[c], r, j + 1)
    BY <2>1, <2>5, <2>7, <1>b, <1>3, <1>7 DEF Inside
  <2>9. rd'[c] - off[k] = j + 1
    BY <2>5, <1>7
  <2> QED
    BY <2>5, <2>8, <2>9, <1>k, <1>r, <1>1, InsideKeepsStream
<1>9. CASE j + 1 = b
  <2>1. t.kind = "blank" /\ IsBlank(t, Glued(rd[c], e)) /\ ~IsHeader(t) /\ j = b - 1
    BY <1>3, <1>4, <1>6, <1>9 DEF IsBlank, IsHeader
  <2>2. \/ EndHeaders(c, e) \/ RejectHeaders(c, e)
        \/ ThrowInContentLength(c, e) \/ ExpectBody(c, e)
    BY <2>1 DEF LineStep, AcceptRequestLine, RejectRequestLine, ThrowInRequestLine,
       AbortInSetMethod, ReadHeader, RejectHeader, BadHeaderLine, InState
  <2>3. ContentLengthText(req) = Declared(r, "Content-Length")
    <3>1. LastHeader(r, j, "Content-Length", req.headers["Content-Length"])
      BY <1>4, HttpRequestAssumption DEF ReadUpTo
    <3> QED
      BY <3>1, <2>1, <1>b, <1>2, LastHeaderDeclared DEF ContentLengthText, GetHeader
  <2>4. NeedsBody(req) =>
          /\ ContentLengthText(req) \in DOMAIN Stoi
          /\ Stoi[ContentLengthText(req)] % UintModulus = Len(r) - b
    BY <2>3, <1>b, <1>2, <1>4 DEF WellFormedRequest, NeedsBody, ReadUpTo
  <2>5. ~NeedsBody(req) => Len(r) = b
    BY <1>b, <1>2, <1>4 DEF WellFormedRequest, NeedsBody, ReadUpTo
  <2>6. NeedsBody(req) => ~ContentLengthMissing(req) /\ ~StoiThrows(req)
    BY <2>4, HttpRequestAssumption DEF ContentLengthMissing, StoiThrows
  <2>e. Len(r) = b => SubSeq(r, b + 1, Len(r)) = <<>>
    BY <1>3, SubSeqEmpty
  <2>7. CASE EndHeaders(c, e)
    <3>1. /\ ctx'[c].state = "kGotAll" /\ ctx'[c].request = req /\ rd'[c] = e
          /\ pc'[c] = "parsed" /\ alive' = alive /\ ParserFrame /\ ~NeedsBody(req)
      BY <2>7, <1>0 DEF EndHeaders, AtBlankLine, InState, ConsumeTo, Return, Context
    <3>2. Seen(req) = Meant(r)
      BY <3>1, <2>1, <2>5, <2>e, <1>b, <1>0, <1>2, <1>4, SeenIsMeant DEF CarriesBody
    <3>3. Inside(ctx'[c], r, b) /\ rd'[c] - off[k] = b
      BY <3>1, <3>2, <2>5, <1>7, <1>9 DEF Inside
    <3> QED
      BY <3>1, <3>3, <1>k, <1>r, <1>1, InsideKeepsStream
  <2>8. CASE ExpectBody(c, e)
    <3> DEFINE l == SetContentLength(req, ContentLengthText(req))
    <3>0. NeedsBody(req)
      BY <2>8 DEF ExpectBody
    <3>1. /\ l = [req EXCEPT !.contentLength = Stoi[ContentLengthText(req)] % UintModulus]
          /\ Stoi[ContentLengthText(req)] % UintModulus = Len(r) - b
      BY <3>0, <2>4 DEF SetContentLength
    <3>2. /\ l.method = req.method /\ l.path = req.path /\ l.version = req.version
          /\ l.query = req.query /\ l.headers = req.headers
          /\ l.contentLength = Len(r) - b /\ NeedsBody(l)
      BY <3>0, <3>1, <1>0 DEF Request, NeedsBody
    <3>i. l \in Request
      <4>1. AfterContentLength(ctx[c]) \in Context
        BY <1>0, <2>6, <3>0, AfterContentLengthType
      <4>2. AfterContentLength(ctx[c]).request = l
        BY DEF AfterContentLength
      <4> QED
        BY <4>1, <4>2 DEF Context
    <3> HIDE DEF l
    <3>3. /\ ctx'[c] = [state |-> IF l.contentLength > 0 THEN "kExpectBody" ELSE "kGotAll",
                        request |-> l]
          /\ rd'[c] = e /\ alive' = alive /\ ParserFrame /\ pc[c] = "parse"
      BY <2>8, <1>0 DEF ExpectBody, AfterContentLength, AtBlankLine, InState, ConsumeTo, l
    <3>4. pc'[c] \in {"parse", "parsed"}
      BY <2>8, <3>3, <1>0 DEF ExpectBody, Return
    <3>5. ReadUpTo(l, r, b - 1)
      BY <3>2, <2>1, <1>4 DEF ReadUpTo
    <3>6. ReadUpTo(l, r, b)
      <4>1. ASSUME NEW n \in HeaderName PROVE LastHeader(r, b, n, l.headers[n])
        <5>1. LastHeader(r, j, n, l.headers[n]) /\ j \in Nat
          BY <3>2, <1>4 DEF ReadUpTo
        <5>2. ~(IsHeader(r[j + 1]) /\ r[j + 1].name = n)
          BY <2>1, <1>6
        <5> QED
          BY <5>1, <5>2, <1>9, LastHeaderOn
      <4> QED
        BY <4>1, <3>5 DEF ReadUpTo
    <3>7. CASE l.contentLength > 0
      <4>1. ctx'[c].state = "kExpectBody" /\ ctx'[c].request = l
        BY <3>3, <3>7
      <4>2. Inside(ctx'[c], r, b) /\ rd'[c] - off[k] = b
        BY <4>1, <3>2, <3>3, <3>6, <3>7, <1>b, <1>7, <1>9 DEF Inside
      <4> QED
        BY <4>1, <4>2, <3>3, <3>4, <1>k, <1>r, <1>1, InsideKeepsStream
    <3>8. CASE ~(l.contentLength > 0)
      <4>1. Len(r) = b
        BY <3>2, <3>8, <1>3
      <4>2. Seen(l) = Meant(r)
        BY <4>1, <3>6, <3>8, <3>i, <2>e, <1>b, <1>2, SeenIsMeant DEF CarriesBody
      <4>3. ctx'[c].state = "kGotAll" /\ ctx'[c].request = l
        BY <3>3, <3>8
      <4>4. Inside(ctx'[c], r, b) /\ rd'[c] - off[k] = b
        BY <4>1, <4>2, <4>3, <3>3, <1>7, <1>9 DEF Inside
      <4> QED
        BY <4>3, <4>4, <3>3, <3>4, <1>k, <1>r, <1>1, InsideKeepsStream
    <3> QED
      BY <3>7, <3>8
  <2>9. ~RejectHeaders(c, e) /\ ~ThrowInContentLength(c, e)
    BY <2>6 DEF RejectHeaders, ThrowInContentLength
  <2> QED
    BY <2>2, <2>7, <2>8, <2>9
<1> QED
  BY <1>3, <1>4, <1>8, <1>9

\* The body, when all of it is there, is the rest of the request.
LEMMA BodyKeepsStream ==
    ASSUME \A x \in Requests : WellFormedRequest(x), TypeOK, NEW c \in Connection,
           NEW off \in [0..Len(sent[c]) -> Nat], Layout(stream[c], sent[c], off), At(c, off),
           conn[c] # "new", ReadBody(c)
    PROVE  StreamAt(c)'
<1>k. PICK k \in Nat : k = Len(handled[c])
  BY LenProperties DEF TypeOK
<1>r. PICK r : r = sent[c][k + 1]
  OBVIOUS
<1>b. PICK b : b = BlankAt(r)
  OBVIOUS
<1> DEFINE req == ctx[c].request
           n == req.contentLength
<1>0. /\ ctx[c] \in Context /\ req \in Request /\ rd[c] \in Nat /\ wr[c] \in Nat
      /\ wr[c] <= Len(stream[c]) /\ stream[c] \in Seq(Token) /\ Len(stream[c]) \in Nat
      /\ Len(sent[c]) \in Nat
  BY LenProperties DEF TypeOK, Context
<1>1. ctx[c].state = "kExpectBody"
  BY BodyRead
<1>2. k < Len(sent[c]) /\ Inside(ctx[c], r, rd[c] - off[k])
  BY <1>1, <1>k, <1>r DEF At
<1>3. /\ rd[c] - off[k] = b /\ ReadUpTo(req, r, rd[c] - off[k])
      /\ NeedsBody(req) /\ n > 0 /\ n = Len(r) - (rd[c] - off[k])
  BY <1>1, <1>2, <1>b DEF Inside
<1>4. r \in Requests /\ off[k] \in Nat /\ WellFormedRequest(r)
  <2>1. k + 1 \in 1..Len(sent[c]) /\ k \in 0..Len(sent[c])
    BY <1>0, <1>2
  <2> QED
    BY <2>1, <1>r, ElementOfSeq DEF TypeOK
<1>5. r \in Seq(Token) /\ Len(r) \in Nat /\ b \in Nat /\ b <= Len(r)
  BY <1>4, <1>b, WellFormedParts
<1>6. n \in Nat /\ n = Len(r) - b /\ b + n = Len(r) /\ ReadUpTo(req, r, b) /\ rd[c] = off[k] + b
  <2>1. rd[c] - off[k] = b /\ n = Len(r) - b /\ n > 0
    BY <1>3
  <2>2. n \in Nat /\ b + n = Len(r) /\ rd[c] = off[k] + b
    BY <2>1, <1>0, <1>4, <1>5
  <2> QED
    BY <2>1, <2>2, <1>3
<1>7. rd[c] + n <= Len(stream[c])
  BY <1>0, <1>6 DEF ReadBody, BodyIncomplete
<1> DEFINE body == SubSeq(stream[c], rd[c] + 1, rd[c] + n)
           rest == SubSeq(r, b + 1, b + n)
<1>8. body = rest
  <2>1. \A i \in 1..Len(r) : stream[c][off[k] + i] = r[i]
    <3>1. Len(sent[c]) \in Nat
      BY <1>0
    <3>2. k < Len(sent[c])
      BY <1>2
    <3>3. k + 1 \in 1..Len(sent[c]) /\ (k + 1) - 1 = k
      BY <3>1, <3>2
    <3>4. \A m \in 1..Len(sent[c]) : \A i \in 1..Len(sent[c][m]) :
            stream[c][off[m - 1] + i] = sent[c][m][i]
      BY DEF Layout
    <3>5. \A i \in 1..Len(sent[c][k + 1]) :
            stream[c][off[(k + 1) - 1] + i] = sent[c][k + 1][i]
      BY <3>3, <3>4
    <3> QED
      BY <3>3, <3>5, <1>r
  <2>2. /\ body \in Seq(Token) /\ Len(body) = n
        /\ \A i \in 1..n : body[i] = stream[c][rd[c] + i]
    <3>1. stream[c] \in Seq(Token) /\ rd[c] \in Nat /\ n \in Nat
      BY <1>0, <1>6
    <3> QED
      BY <3>1, <1>7, Slice
  <2>3. /\ rest \in Seq(Token) /\ Len(rest) = n
        /\ \A i \in 1..n : rest[i] = r[b + i]
    <3>1. b + n <= Len(r) /\ n \in Nat
      BY <1>5, <1>6
    <3> QED
      BY <3>1, <1>5, Slice
  <2>4. ASSUME NEW i \in 1..n PROVE stream[c][rd[c] + i] = r[b + i]
    <3>o. PICK o \in Nat : o = off[k]
      BY <1>4
    <3>m. PICK m \in Nat : m = n
      BY <1>6
    <3>l. PICK l \in Nat : l = Len(r)
      BY <1>5
    <3>0. b \in Nat /\ b + m = l /\ rd[c] = o + b /\ i \in 1..m
      BY <1>5, <1>6, <3>o, <3>m, <3>l
    <3>2. b + i \in 1..l /\ (o + b) + i = o + (b + i)
      BY <3>0
    <3>1. b + i \in 1..Len(r) /\ rd[c] + i = off[k] + (b + i)
      BY <3>0, <3>2, <3>o, <3>l
    <3> QED
      BY <3>1, <2>1
  <2> HIDE DEF body, rest
  <2>5. \A i \in 1..Len(body) : body[i] = rest[i]
    BY <2>2, <2>3, <2>4
  <2> QED
    BY <2>2, <2>3, <2>5, SeqEqual
<1> DEFINE full == [req EXCEPT !.content = body]
<1>9. /\ ParserFrame /\ pc'[c] = "parsed" /\ ctx'[c].state = "kGotAll"
      /\ ctx'[c].request = full /\ rd'[c] = rd[c] + n
  BY BodyRead DEF GotAll
<1>10. full \in Request
  BY <1>0, <1>6, <1>7, Slice DEF Request
<1>11. /\ full.method = req.method /\ full.path = req.path /\ full.version = req.version
       /\ full.query = req.query /\ full.headers = req.headers
       /\ full.content = SubSeq(r, b + 1, Len(r)) /\ full.contentLength = n
  BY <1>0, <1>6, <1>8 DEF Request
<1> HIDE DEF full, body, rest
<1>12. ReadUpTo(full, r, b) /\ CarriesBody(full)
  BY <1>3, <1>6, <1>11 DEF ReadUpTo, CarriesBody, NeedsBody
<1>13. Seen(full) = Meant(r)
  BY <1>b, <1>4, <1>10, <1>11, <1>12, SeenIsMeant
<1>14. rd'[c] - off[k] = Len(r)
  <2>o. PICK o \in Nat : o = off[k]
    BY <1>4
  <2>m. PICK m \in Nat : m = n
    BY <1>6
  <2>1. b \in Nat /\ rd'[c] = (o + b) + m /\ b + m = Len(r)
    BY <1>5, <1>6, <1>9, <2>o, <2>m
  <2>2. ((o + b) + m) - o = b + m
    BY <2>1
  <2> QED
    BY <2>1, <2>2, <2>o
<1>15. Inside(ctx'[c], r, Len(r))
  BY <1>9, <1>13 DEF Inside
<1> QED
  BY <1>k, <1>r, <1>2, <1>9, <1>14, <1>15, InsideKeepsStream

\* Every step keeps the invariant on the connection that it concerns, and no
\* step aborts the process.
LEMMA StreamHere ==
    ASSUME \A x \in Requests : WellFormedRequest(x), TypeOK, NEW c \in Connection,
           StreamAt(c), ThreadStep(c) \/ Environment(c)
    PROVE  StreamAt(c)' /\ alive' = alive
<1>0. /\ ctx[c] \in Context /\ ctx[c].request \in Request /\ ctx \in [Connection -> Context]
      /\ Len(sent[c]) \in Nat /\ Len(handled[c]) \in Nat /\ rd[c] \in Nat
      /\ pc \in [Connection -> PC] /\ conn \in [Connection -> ConnState]
      /\ sent[c] \in Seq(Requests) /\ stream[c] \in Seq(Token) /\ handled[c] \in Seq(Request)
  BY LenProperties DEF TypeOK, Context
<1>1. PICK off \in [0..Len(sent[c]) -> Nat] : Layout(stream[c], sent[c], off) /\ At(c, off)
  BY DEF StreamAt
<1>2. conn[c] = "new" => /\ pc[c] = "idle" /\ rd[c] = 0
                         /\ sent[c] = <<>> /\ handled[c] = <<>>
  BY DEF StreamAt
<1>3. CASE OnConnected(c)
  <2>1. /\ conn'[c] = "connected" /\ ctx'[c] = NewContext /\ alive' = alive
        /\ sent'[c] = sent[c] /\ stream'[c] = stream[c] /\ rd'[c] = rd[c]
        /\ handled'[c] = handled[c] /\ pc'[c] = "idle" /\ rd[c] = 0 /\ handled[c] = <<>>
    BY <1>2, <1>3 DEF OnConnected, client, buffer, TypeOK
  <2>2. /\ NewContext.state = "kExpectRequestLine" /\ MethodUnset(NewContext.request)
        /\ NewContext.request.query = <<>>
        /\ \A h \in HeaderName : NewContext.request.headers[h] = ""
    BY DEF NewContext, NewRequest, MethodUnset
  <2>3. Len(handled[c]) = 0 /\ off[0] = 0
    BY <2>1, <1>1 DEF Layout
  <2>4. /\ Len(handled'[c]) = 0 /\ 0 <= Len(sent'[c]) /\ rd'[c] = off[0]
        /\ ctx'[c].state = "kExpectRequestLine" /\ MethodUnset(ctx'[c].request)
        /\ ctx'[c].request.query = <<>>
        /\ \A h \in HeaderName : ctx'[c].request.headers[h] = ""
    <3>1. Len(handled'[c]) = 0 /\ rd'[c] = off[0]
      BY <2>1, <2>3
    <3>2. 0 <= Len(sent'[c])
      BY <2>1, <1>0
    <3>3. /\ ctx'[c].state = "kExpectRequestLine" /\ MethodUnset(ctx'[c].request)
          /\ ctx'[c].request.query = <<>>
          /\ \A h \in HeaderName : ctx'[c].request.headers[h] = ""
      BY <2>1, <2>2
    <3> QED
      BY <3>1, <3>2, <3>3
  <2>5. At(c, off)'
    BY <2>1, <2>4 DEF At, GotAll
  <2> QED
    BY <2>1, <2>5, <1>1 DEF StreamAt
<1>4. CASE ClientClose(c) \/ \E n \in 0..Len(stream[c]) : Deliver(c, n)
  <2>1. /\ ctx'[c] = ctx[c] /\ sent'[c] = sent[c] /\ stream'[c] = stream[c]
        /\ rd'[c] = rd[c] /\ handled'[c] = handled[c] /\ alive' = alive
        /\ conn'[c] # "new" /\ pc[c] = "idle" /\ pc'[c] \in {"idle", "parse"}
    BY <1>0, <1>4 DEF ClientClose, Deliver, Open, client, buffer
  <2>2. At(c, off)'
    BY <2>1, <1>1 DEF At
  <2> QED
    BY <2>1, <2>2, <1>1 DEF StreamAt
<1>5. ASSUME NEW r \in Requests, ClientSend(c, r) PROVE StreamAt(c)' /\ alive' = alive
  <2>1. /\ ctx'[c] = ctx[c] /\ sent'[c] = Append(sent[c], r) /\ stream'[c] = stream[c] \o r
        /\ rd'[c] = rd[c] /\ handled'[c] = handled[c] /\ alive' = alive
        /\ conn'[c] # "new" /\ pc'[c] = pc[c]
    BY <1>5 DEF ClientSend, Open, buffer, TypeOK
  <2>2. PICK next \in [0..Len(Append(sent[c], r)) -> Nat] :
            /\ Layout(stream[c] \o r, Append(sent[c], r), next)
            /\ \A k \in 0..Len(sent[c]) : next[k] = off[k]
    BY <1>0, <1>1, LayoutGrows
  <2>3. /\ Len(sent'[c]) = Len(sent[c]) + 1
        /\ \A k \in 1..Len(sent[c]) : sent'[c][k] = sent[c][k]
    BY <2>1, <1>0, AppendProperties
  <2>4. PICK k \in Nat : k = Len(handled[c])
    BY <1>0
  <2>5. k <= Len(sent[c]) /\ next[k] = off[k]
    <3>1. k <= Len(sent[c])
      BY <2>4, <1>1 DEF At
    <3> QED
      BY <3>1, <2>2, <2>4, <1>0
  <2>6. k < Len(sent[c]) => sent'[c][k + 1] = sent[c][k + 1]
    <3>1. k < Len(sent[c]) => k + 1 \in 1..Len(sent[c])
      BY <1>0
    <3> QED
      BY <3>1, <2>3
  <2>7. k <= Len(sent'[c]) /\ (k < Len(sent[c]) => k < Len(sent'[c]))
    BY <2>3, <2>5, <1>0
  <2>8. At(c, next)'
    BY <2>1, <2>4, <2>5, <2>6, <2>7, <1>1 DEF At
  <2> QED
    BY <2>1, <2>2, <2>8 DEF StreamAt
<1>6. ASSUME pc[c] = "parse", ParserFrame, ctx'[c] = ctx[c], rd'[c] = rd[c],
             \/ ctx[c].state # "kGotAll" /\ pc'[c] = "parsed"
             \/ ctx[c].state = "kGotAll" /\ pc'[c] = "spinning"
      PROVE  StreamAt(c)'
  <2>1. /\ sent'[c] = sent[c] /\ stream'[c] = stream[c] /\ handled'[c] = handled[c]
        /\ conn'[c] # "new"
    BY <1>2, <1>6 DEF ParserFrame, client
  <2>2. At(c, off)'
    BY <2>1, <1>1, <1>6 DEF At, GotAll
  <2> QED
    BY <2>1, <2>2, <1>1 DEF StreamAt
<1>7. CASE AwaitMore(c)
  <2>1. /\ pc[c] = "parse" /\ ParserFrame /\ ctx'[c] = ctx[c] /\ rd'[c] = rd[c]
        /\ ctx[c].state # "kGotAll" /\ pc'[c] = "parsed" /\ alive' = alive
    BY <1>0, <1>7 DEF AwaitMore, InState, Return
  <2> QED
    BY <2>1, <1>6
<1>8. CASE Spin(c)
  <2>1. /\ pc[c] = "parse" /\ ParserFrame /\ ctx'[c] = ctx[c] /\ rd'[c] = rd[c]
        /\ ctx[c].state = "kGotAll" /\ pc'[c] = "spinning" /\ alive' = alive
    BY <1>0, <1>8 DEF Spin, InState
  <2> QED
    BY <2>1, <1>6
<1>9. CASE ReadBody(c)
  <2>1. conn[c] # "new" /\ alive' = alive
    BY <1>2, <1>9 DEF ReadBody, InState
  <2> QED
    BY <2>1, <1>1, <1>9, BodyKeepsStream
<1>10. ASSUME NEW e \in 1..Len(stream[c]), LineStep(c, e) PROVE StreamAt(c)' /\ alive' = alive
  <2>1. pc[c] = "parse" /\ ctx[c].state \in {"kExpectRequestLine", "kExpectHeaders"}
    BY <1>10, LineKeepsContent
  <2>2. conn[c] # "new"
    BY <2>1, <1>2
  <2>3. CASE ctx[c].state = "kExpectRequestLine"
    BY <2>2, <2>3, <1>1, <1>10, RequestLineKeepsStream
  <2>4. CASE ctx[c].state = "kExpectHeaders"
    BY <2>2, <2>4, <1>1, <1>10, HeaderKeepsStream
  <2> QED
    BY <2>1, <2>3, <2>4
<1>11. CASE AfterParse(c) \/ CatchException(c)
  <2>1. conn[c] # "new" /\ conn'[c] # "new"
    BY <1>0, <1>2, <1>11 DEF AfterParse, CatchException, SendAndShutdown,
       ShutdownOf
  <2>2. /\ ctx'[c] = ctx[c] /\ sent'[c] = sent[c] /\ stream'[c] = stream[c]
        /\ rd'[c] = rd[c] /\ handled'[c] = handled[c] /\ alive' = alive
        /\ \/ pc[c] = "parsed" /\ pc'[c] = IF GotAll(ctx[c]) THEN "dispatch" ELSE "idle"
           \/ pc[c] = "catch" /\ pc'[c] = "idle"
    BY <1>0, <1>11 DEF AfterParse, CatchException, client, buffer
  <2>3. At(c, off)'
    BY <2>2, <1>1 DEF At, GotAll
  <2> QED
    BY <2>1, <2>2, <2>3, <1>1 DEF StreamAt
<1>12. ASSUME pc[c] = "dispatch", handled'[c] = Append(handled[c], ctx[c].request)
       PROVE  /\ GotAll(ctx[c]) /\ Len(handled'[c]) = Len(handled[c]) + 1
              /\ Len(handled[c]) + 1 <= Len(sent[c])
              /\ rd[c] = off[Len(handled[c]) + 1]
  <2>1. PICK k \in Nat : k = Len(handled[c])
    BY <1>0
  <2>2. PICK r : r = sent[c][k + 1]
    OBVIOUS
  <2>3. GotAll(ctx[c]) /\ k < Len(sent[c]) /\ rd[c] - off[k] = Len(r)
    BY <2>1, <2>2, <1>1, <1>12 DEF At, Inside, GotAll
  <2>4. k + 1 \in 1..Len(sent[c]) /\ k + 1 \in 0..Len(sent[c]) /\ (k + 1) - 1 = k
    BY <2>3, <1>0
  <2>5. off[k + 1] = off[k] + Len(r) /\ off[k] \in Nat
    <3>1. off[k + 1] = off[(k + 1) - 1] + Len(sent[c][k + 1])
      BY <2>4, <1>1 DEF Layout
    <3>2. k \in 0..Len(sent[c])
      BY <2>3, <1>0
    <3> QED
      BY <3>1, <2>2, <2>4, <3>2
  <2>6. r \in Requests /\ Len(r) \in Nat
    BY <2>2, <2>4, <1>0, ElementOfSeq, HttpServerAssumption, LenProperties
  <2>7. rd[c] = off[k + 1]
    BY <2>3, <2>5, <2>6, <1>0
  <2>8. Len(handled'[c]) = Len(handled[c]) + 1
    BY <1>0, <1>12, AppendProperties
  <2> QED
    BY <2>1, <2>3, <2>4, <2>7, <2>8, <1>0
<1>13. CASE ThrowInCallback(c)
  <2>1. /\ ctx'[c] = ctx[c] /\ sent'[c] = sent[c] /\ stream'[c] = stream[c]
        /\ rd'[c] = rd[c] /\ handled'[c] = Append(handled[c], ctx[c].request)
        /\ alive' = alive /\ pc[c] = "dispatch" /\ pc'[c] = "catch"
        /\ conn'[c] # "new"
    BY <1>0, <1>2, <1>13 DEF ThrowInCallback, client, buffer, TypeOK
  <2>2. At(c, off)'
    BY <2>1, <1>12 DEF At, GotAll
  <2> QED
    BY <2>1, <2>2, <1>1 DEF StreamAt
<1>14. ASSUME NEW resp \in Responses(ctx[c].request), OnRequest(c, resp)
       PROVE  StreamAt(c)' /\ alive' = alive
  <2>1. /\ ctx'[c] = Reset(ctx[c]) /\ sent'[c] = sent[c] /\ stream'[c] = stream[c]
        /\ rd'[c] = rd[c] /\ handled'[c] = Append(handled[c], ctx[c].request)
        /\ alive' = alive /\ pc[c] = "dispatch" /\ pc'[c] = "idle"
    BY <1>14, <1>0 DEF OnRequest, client, buffer, TypeOK
  <2>2. conn'[c] # "new"
    BY <2>1, <1>0, <1>2, <1>14 DEF OnRequest, SendAndShutdown, ShutdownOf
  <2>3. /\ Reset(ctx[c]).state = "kExpectRequestLine" /\ MethodUnset(Reset(ctx[c]).request)
        /\ Reset(ctx[c]).request.query = <<>>
        /\ \A h \in HeaderName : Reset(ctx[c]).request.headers[h] = ""
    BY DEF Reset, SwapWithNew, NewRequest, MethodUnset
  <2>4. At(c, off)'
    BY <2>1, <2>3, <1>12 DEF At, GotAll
  <2> QED
    BY <2>1, <2>2, <2>4, <1>1 DEF StreamAt
<1> QED
  BY <1>3, <1>4, <1>5, <1>7, <1>8, <1>9, <1>10, <1>11, <1>13, <1>14
     DEF ThreadStep, Environment

LEMMA StreamInvCorrect ==
    ASSUME \A r \in Requests : WellFormedRequest(r)
    PROVE  Spec => []StreamInv
<1>1. Init => StreamInv
  <2> SUFFICES ASSUME Init, NEW c \in Connection PROVE alive /\ StreamAt(c)
    BY DEF Init, StreamInv
  <2>1. /\ alive /\ conn[c] = "new" /\ pc[c] = "idle" /\ rd[c] = 0
        /\ sent[c] = <<>> /\ stream[c] = <<>> /\ handled[c] = <<>> /\ ctx[c] = NewContext
    BY DEF Init
  <2>2. /\ NewContext.state = "kExpectRequestLine" /\ MethodUnset(NewContext.request)
        /\ NewContext.request.query = <<>>
        /\ \A h \in HeaderName : NewContext.request.headers[h] = ""
    BY DEF NewContext, NewRequest, MethodUnset
  <2>3. Len(sent[c]) = 0 /\ Len(stream[c]) = 0 /\ Len(handled[c]) = 0
    BY <2>1
  <2> DEFINE off == [k \in 0..0 |-> 0]
  <2>4. off \in [0..Len(sent[c]) -> Nat] /\ off[0] = 0
    BY <2>3
  <2> HIDE DEF off
  <2>5. Layout(stream[c], sent[c], off)
    BY <2>3, <2>4 DEF Layout
  <2>6. /\ ctx[c].state = "kExpectRequestLine" /\ MethodUnset(ctx[c].request)
        /\ ctx[c].request.query = <<>>
        /\ \A h \in HeaderName : ctx[c].request.headers[h] = ""
    BY <2>1, <2>2
  <2>7. rd[c] = off[0] /\ 0 <= Len(sent[c])
    BY <2>1, <2>3, <2>4
  <2>8. At(c, off)
    BY <2>1, <2>3, <2>6, <2>7 DEF At, GotAll
  <2> QED
    BY <2>1, <2>4, <2>5, <2>8 DEF StreamAt
<1>2. TypeOK /\ StreamInv /\ [Next]_vars => StreamInv'
  <2> SUFFICES ASSUME TypeOK, StreamInv, [Next]_vars PROVE StreamInv'
    OBVIOUS
  <2>0. ASSUME NEW d \in Connection,
               conn'[d] = conn[d], sent'[d] = sent[d], stream'[d] = stream[d],
               rd'[d] = rd[d], ctx'[d] = ctx[d], pc'[d] = pc[d], handled'[d] = handled[d]
        PROVE  StreamAt(d)'
    <3>1. PICK off \in [0..Len(sent[d]) -> Nat] : Layout(stream[d], sent[d], off) /\ At(d, off)
      BY DEF StreamInv, StreamAt
    <3>2. At(d, off)'
      BY <2>0, <3>1 DEF At
    <3> QED
      BY <2>0, <3>1, <3>2 DEF StreamInv, StreamAt
  <2>1. CASE UNCHANGED vars
    BY <2>0, <2>1 DEF vars, StreamInv
  <2>2. ASSUME NEW c \in Connection, ThreadStep(c) \/ Environment(c) PROVE StreamInv'
    <3>1. StreamAt(c)' /\ alive'
      BY <2>2, StreamHere DEF StreamInv
    <3>2. ASSUME NEW d \in Connection, d # c PROVE StreamAt(d)'
      BY <2>0, <2>2, <3>2, OthersUntouched
    <3> QED
      BY <3>1, <3>2 DEF StreamInv
  <2> QED
    BY <2>1, <2>2 DEF Next
<1> QED
  BY <1>1, <1>2, TypeCorrect, PTL DEF Spec

\* Clients that write well-formed requests cannot make the assertion of
\* setMethod fail, wherever TCP cuts what they write and whatever the
\* handlers answer or throw (HttpRequest.cpp:28).
THEOREM ProcessAliveCorrect ==
    ASSUME \A r \in Requests : WellFormedRequest(r)
    PROVE  Spec => []ProcessAlive
<1>1. StreamInv => ProcessAlive
  BY DEF StreamInv, ProcessAlive
<1> QED
  BY <1>1, StreamInvCorrect, PTL

\* What the refinement maps the requests to, and how a step changes it.
LEMMA MeantAppend ==
    ASSUME NEW rs \in Seq(Requests), NEW r \in Requests
    PROVE  [i \in 1..Len(Append(rs, r)) |-> Meant(Append(rs, r)[i])]
             = Append([i \in 1..Len(rs) |-> Meant(rs[i])], Meant(r))
<1> DEFINE M == {Meant(x) : x \in Requests}
           ms == [i \in 1..Len(rs) |-> Meant(rs[i])]
           l  == [i \in 1..Len(Append(rs, r)) |-> Meant(Append(rs, r)[i])]
<1>0. PICK n \in Nat : n = Len(rs)
  BY LenProperties
<1>1. /\ Len(Append(rs, r)) = n + 1 /\ Append(rs, r)[n + 1] = r
      /\ \A i \in 1..n : Append(rs, r)[i] = rs[i] /\ rs[i] \in Requests
  BY <1>0, AppendProperties, ElementOfSeq
<1>2. ms \in Seq(M) /\ Len(ms) = n /\ Meant(r) \in M
  BY <1>0, <1>1
<1>3. \A i \in 1..n+1 : i \in 1..n \/ i = n + 1
  OBVIOUS
<1>4. l \in Seq(M) /\ Len(l) = n + 1
  <2>1. \A i \in 1..n+1 : Meant(Append(rs, r)[i]) \in M
    BY <1>1, <1>3
  <2> QED
    BY <2>1, <1>1
<1>5. /\ Append(ms, Meant(r)) \in Seq(M) /\ Len(Append(ms, Meant(r))) = n + 1
      /\ \A i \in 1..n : Append(ms, Meant(r))[i] = ms[i]
      /\ Append(ms, Meant(r))[n + 1] = Meant(r)
  BY <1>2, AppendProperties
<1>6. ASSUME NEW i \in 1..n+1 PROVE l[i] = Append(ms, Meant(r))[i]
  <2>1. l[i] = Meant(Append(rs, r)[i])
    BY <1>1
  <2>2. CASE i \in 1..n
    <3>1. ms[i] = Meant(rs[i])
      BY <2>2, <1>0
    <3> QED
      BY <2>1, <2>2, <3>1, <1>1, <1>5
  <2>3. CASE i = n + 1
    BY <2>1, <2>3, <1>1, <1>5
  <2> QED
    BY <2>2, <2>3, <1>3
<1> HIDE DEF l, ms
<1>7. \A i \in 1..Len(l) : l[i] = Append(ms, Meant(r))[i]
  BY <1>4, <1>6
<1>8. l = Append(ms, Meant(r))
  BY <1>4, <1>5, <1>7, SeqEqual
<1> QED
  BY <1>8 DEF l, ms

LEMMA SeenAppend ==
    ASSUME NEW h \in Seq(Request), NEW req \in Request
    PROVE  [i \in 1..Len(Append(h, req)) |-> Seen(Append(h, req)[i])]
             = Append([i \in 1..Len(h) |-> Seen(h[i])], Seen(req))
<1> DEFINE M == {Seen(x) : x \in Request}
           ms == [i \in 1..Len(h) |-> Seen(h[i])]
           l  == [i \in 1..Len(Append(h, req)) |-> Seen(Append(h, req)[i])]
<1>0. PICK n \in Nat : n = Len(h)
  BY LenProperties
<1>1. /\ Len(Append(h, req)) = n + 1 /\ Append(h, req)[n + 1] = req
      /\ \A i \in 1..n : Append(h, req)[i] = h[i] /\ h[i] \in Request
  BY <1>0, AppendProperties, ElementOfSeq
<1>2. ms \in Seq(M) /\ Len(ms) = n /\ Seen(req) \in M
  BY <1>0, <1>1
<1>3. \A i \in 1..n+1 : i \in 1..n \/ i = n + 1
  OBVIOUS
<1>4. l \in Seq(M) /\ Len(l) = n + 1
  <2>1. \A i \in 1..n+1 : Seen(Append(h, req)[i]) \in M
    BY <1>1, <1>3
  <2> QED
    BY <2>1, <1>1
<1>5. /\ Append(ms, Seen(req)) \in Seq(M) /\ Len(Append(ms, Seen(req))) = n + 1
      /\ \A i \in 1..n : Append(ms, Seen(req))[i] = ms[i]
      /\ Append(ms, Seen(req))[n + 1] = Seen(req)
  BY <1>2, AppendProperties
<1>6. ASSUME NEW i \in 1..n+1 PROVE l[i] = Append(ms, Seen(req))[i]
  <2>1. l[i] = Seen(Append(h, req)[i])
    BY <1>1
  <2>2. CASE i \in 1..n
    <3>1. ms[i] = Seen(h[i])
      BY <2>2, <1>0
    <3> QED
      BY <2>1, <2>2, <3>1, <1>1, <1>5
  <2>3. CASE i = n + 1
    BY <2>1, <2>3, <1>1, <1>5
  <2> QED
    BY <2>2, <2>3, <1>3
<1> HIDE DEF l, ms
<1>7. \A i \in 1..Len(l) : l[i] = Append(ms, Seen(req))[i]
  BY <1>4, <1>6
<1>8. l = Append(ms, Seen(req))
  BY <1>4, <1>5, <1>7, SeqEqual
<1> QED
  BY <1>8 DEF l, ms

\* A request at the callback is the next of those that were written.
LEMMA DispatchedIsNext ==
    ASSUME TypeOK, NEW c \in Connection, StreamAt(c), pc[c] = "dispatch"
    PROVE  /\ Len(handled[c]) < Len(sent[c])
           /\ Seen(ctx[c].request) = Meant(sent[c][Len(handled[c]) + 1])
<1>1. PICK off \in [0..Len(sent[c]) -> Nat] : At(c, off)
  BY DEF StreamAt
<1> QED
  BY <1>1 DEF At, Inside, GotAll

Written   == [c \in Connection |-> [i \in 1..Len(sent[c]) |-> Meant(sent[c][i])]]
Delivered == [c \in Connection |-> [i \in 1..Len(handled[c]) |-> Seen(handled[c][i])]]

\* Giving a request to the callback is the step DeliverNext.
LEMMA DispatchRefines ==
    ASSUME TypeOK, NEW c \in Connection, StreamAt(c), pc[c] = "dispatch", sent' = sent,
           handled' = [handled EXCEPT ![c] = Append(@, ctx[c].request)]
    PROVE  /\ Len(Delivered[c]) < Len(Written[c])
           /\ Delivered' = [Delivered EXCEPT ![c] =
                                Append(@, Written[c][Len(@) + 1])]
           /\ Written' = Written
<1>1. /\ handled[c] \in Seq(Request) /\ ctx[c].request \in Request
      /\ handled \in [Connection -> Seq(Request)]
      /\ Len(handled[c]) \in Nat /\ Len(sent[c]) \in Nat
  BY LenProperties DEF TypeOK, Context
<1>2. PICK k \in Nat : k = Len(handled[c])
  BY <1>1
<1>3. k < Len(sent[c]) /\ Seen(ctx[c].request) = Meant(sent[c][k + 1])
  BY <1>2, DispatchedIsNext
<1>4. /\ Written[c] = [i \in 1..Len(sent[c]) |-> Meant(sent[c][i])]
      /\ Delivered[c] = [i \in 1..k |-> Seen(handled[c][i])]
  BY <1>2 DEF Written, Delivered
<1>5. Len(Delivered[c]) = k /\ Len(Written[c]) = Len(sent[c])
  BY <1>1, <1>4
<1>6. Written[c][k + 1] = Seen(ctx[c].request)
  BY <1>1, <1>3, <1>4
<1>7. Delivered'[c] = Append(Delivered[c], Seen(ctx[c].request))
  <2>1. handled'[c] = Append(handled[c], ctx[c].request)
    BY <1>1
  <2>2. Delivered'[c] = [i \in 1..Len(Append(handled[c], ctx[c].request))
                           |-> Seen(Append(handled[c], ctx[c].request)[i])]
    BY <2>1 DEF Delivered
  <2>3. Delivered[c] = [i \in 1..Len(handled[c]) |-> Seen(handled[c][i])]
    BY DEF Delivered
  <2> QED
    BY <2>2, <2>3, <1>1, SeenAppend
<1>8. \A d \in Connection : d # c => Delivered'[d] = Delivered[d]
  BY <1>1 DEF Delivered
<1>9. Delivered' = [Delivered EXCEPT ![c] = Append(@, Seen(ctx[c].request))]
  BY <1>7, <1>8 DEF Delivered
<1>10. Written' = Written
  BY DEF Written
<1> QED
  BY <1>3, <1>5, <1>6, <1>9, <1>10

\* A request that a client writes is the step Write.
LEMMA SendRefines ==
    ASSUME TypeOK, NEW c \in Connection, NEW r \in Requests, handled' = handled,
           sent' = [sent EXCEPT ![c] = Append(@, r)]
    PROVE  /\ Written' = [Written EXCEPT ![c] = Append(@, Meant(r))]
           /\ Delivered' = Delivered
<1>1. sent[c] \in Seq(Requests) /\ sent \in [Connection -> Seq(Requests)]
  BY DEF TypeOK
<1>2. Written'[c] = Append(Written[c], Meant(r))
  <2>1. sent'[c] = Append(sent[c], r)
    BY <1>1
  <2>2. Written'[c] = [i \in 1..Len(Append(sent[c], r)) |-> Meant(Append(sent[c], r)[i])]
    BY <2>1 DEF Written
  <2>3. Written[c] = [i \in 1..Len(sent[c]) |-> Meant(sent[c][i])]
    BY DEF Written
  <2> QED
    BY <2>2, <2>3, <1>1, MeantAppend
<1>3. \A d \in Connection : d # c => Written'[d] = Written[d]
  BY <1>1 DEF Written
<1>4. Written' = [Written EXCEPT ![c] = Append(@, Meant(r))]
  BY <1>2, <1>3 DEF Written
<1>5. Delivered' = Delivered
  BY DEF Delivered
<1> QED
  BY <1>4, <1>5

\* Every other step changes neither list.
LEMMA ThreadKeepsLists ==
    ASSUME NEW c \in Connection, ThreadStep(c)
    PROVE  \/ sent' = sent /\ handled' = handled
           \/ /\ sent' = sent /\ pc[c] = "dispatch"
              /\ handled' = [handled EXCEPT ![c] = Append(@, ctx[c].request)]
<1>1. CASE AwaitMore(c) \/ ReadBody(c) \/ Spin(c) \/ AfterParse(c) \/ CatchException(c)
  BY <1>1 DEF AwaitMore, ReadBody, Spin, AfterParse, CatchException, ParserFrame, client
<1>2. ASSUME NEW e \in 1..Len(stream[c]), LineStep(c, e)
      PROVE  sent' = sent /\ handled' = handled
  BY <1>2 DEF LineStep, AcceptRequestLine, RejectRequestLine, ThrowInRequestLine,
     AbortInSetMethod, ReadHeader, RejectHeader, EndHeaders, RejectHeaders,
     ThrowInContentLength, ExpectBody, ParserFrame, client
<1>3. CASE ThrowInCallback(c)
  BY <1>3 DEF ThrowInCallback, client
<1>4. ASSUME NEW resp \in Responses(ctx[c].request), OnRequest(c, resp)
      PROVE  /\ sent' = sent /\ pc[c] = "dispatch"
             /\ handled' = [handled EXCEPT ![c] = Append(@, ctx[c].request)]
  BY <1>4 DEF OnRequest, client
<1> QED
  BY <1>1, <1>2, <1>3, <1>4 DEF ThreadStep

\* The server implements RequestStream: what a well-behaved client writes
\* reaches the callback request by request, in order, each at most once,
\* however TCP cuts the bytes and whichever thread runs (HttpContext.cpp:8-141,
\* HttpServer.cpp:117-134).
THEOREM RequestsInOrderCorrect ==
    ASSUME \A r \in Requests : WellFormedRequest(r)
    PROVE  Spec => RequestsInOrder
<1>1. Init => Stream!Init
  <2> SUFFICES ASSUME Init PROVE Stream!Init
    OBVIOUS
  <2>1. \A c \in Connection : Len(sent[c]) = 0 /\ Len(handled[c]) = 0
    BY DEF Init
  <2>2. Written = [c \in Connection |-> <<>>] /\ Delivered = [c \in Connection |-> <<>>]
    BY <2>1 DEF Written, Delivered
  <2> QED
    BY <2>2 DEF Stream!Init, Written, Delivered
<1>2. TypeOK /\ StreamInv /\ [Next]_vars => [Stream!Next]_<<Written, Delivered>>
  <2> SUFFICES ASSUME TypeOK, StreamInv, [Next]_vars
               PROVE  Stream!Next \/ UNCHANGED <<Written, Delivered>>
    OBVIOUS
  <2>1. ASSUME sent' = sent, handled' = handled PROVE UNCHANGED <<Written, Delivered>>
    BY <2>1 DEF Written, Delivered
  <2>2. ASSUME NEW c \in Connection, pc[c] = "dispatch", sent' = sent,
               handled' = [handled EXCEPT ![c] = Append(@, ctx[c].request)]
        PROVE  Stream!Next
    <3>1. Stream!DeliverNext(c)
      BY <2>2, DispatchRefines DEF Stream!DeliverNext, StreamInv, Written, Delivered
    <3> QED
      BY <3>1 DEF Stream!Next
  <2>3. ASSUME NEW c \in Connection, NEW r \in Requests, ClientSend(c, r)
        PROVE  Stream!Next
    <3>1. handled' = handled /\ sent' = [sent EXCEPT ![c] = Append(@, r)]
      BY <2>3 DEF ClientSend
    <3>2. Stream!Write(c, Meant(r))
      BY <3>1, SendRefines DEF Stream!Write, Written, Delivered
    <3> QED
      BY <3>2 DEF Stream!Next
  <2>4. CASE UNCHANGED vars
    BY <2>1, <2>4 DEF vars
  <2>5. ASSUME NEW c \in Connection, ThreadStep(c)
        PROVE  Stream!Next \/ UNCHANGED <<Written, Delivered>>
    BY <2>1, <2>2, <2>5, ThreadKeepsLists
  <2>6. ASSUME NEW c \in Connection, Environment(c)
        PROVE  Stream!Next \/ UNCHANGED <<Written, Delivered>>
    <3>1. CASE OnConnected(c) \/ ClientClose(c) \/ \E n \in 0..Len(stream[c]) : Deliver(c, n)
      BY <2>1, <3>1 DEF OnConnected, ClientClose, Deliver, client
    <3> QED
      BY <2>3, <2>6, <3>1 DEF Environment
  <2> QED
    BY <2>4, <2>5, <2>6 DEF Next
<1>3. [Stream!Next]_<<Written, Delivered>> =>
        [Stream!Next]_<<[c \in Connection |-> [i \in 1..Len(sent[c]) |-> Meant(sent[c][i])]],
                        [c \in Connection |-> [i \in 1..Len(handled[c]) |-> Seen(handled[c][i])]]>>
  BY DEF Written, Delivered
<1> QED
  BY <1>1, <1>2, <1>3, TypeCorrect, StreamInvCorrect, PTL DEF Spec, RequestsInOrder, Stream!Spec

---------------------------------------------------------------------------
(* The assertion of setMethod fails on a line that was rejected before.    *)

\* Inductive: while a request line is expected, a method that is set came
\* from the line that is first in the buffer, and that line is no good one.
RejectedHere(c) ==
    ctx[c].state = "kExpectRequestLine" /\ ~MethodUnset(ctx[c].request) =>
        \E e \in 1..Len(stream[c]) : LineAt(c, e) /\ ~RequestLineGood(stream[c][e])
RejectedInv == DiesOfRejectedLine /\ \A c \in Connection : RejectedHere(c)

\* The first line of the buffer stays the first while nothing is consumed.
LEMMA FirstLineStays ==
    ASSUME TypeOK, NEW c \in Connection, NEW e, LineAt(c, e), e \in 1..Len(stream[c]),
           rd'[c] = rd[c], wr'[c] \in Nat, wr[c] <= wr'[c], wr'[c] <= Len(stream'[c]),
           Len(stream[c]) <= Len(stream'[c]), Len(stream'[c]) \in Nat,
           \A i \in 1..Len(stream[c]) : stream'[c][i] = stream[c][i]
    PROVE  e \in 1..Len(stream'[c]) /\ LineAt(c, e)' /\ stream'[c][e] = stream[c][e]
<1>1. rd[c] \in Nat /\ wr[c] \in Nat /\ Len(stream[c]) \in Nat /\ wr[c] <= Len(stream[c])
  BY LenProperties DEF TypeOK
<1>2. e \in rd[c]+1..wr[c] /\ e \in Nat
  BY <1>1 DEF LineAt, EndsLine
<1>3. e \in rd'[c]+1..wr'[c] /\ e \in 1..Len(stream'[c])
  BY <1>1, <1>2
<1>4. \A i \in rd[c]+1..e-1 : i \in 1..Len(stream[c])
  BY <1>1, <1>2
<1>5. IsLine(stream'[c][e]) /\ \A i \in rd'[c]+1..e-1 : ~IsLine(stream'[c][i])
  BY <1>2, <1>4 DEF LineAt, EndsLine
<1> QED
  BY <1>3, <1>5 DEF LineAt, EndsLine

\* A step on a line keeps it for its connection, and aborts on such a line
\* only.
LEMMA LineKeepsRejected ==
    ASSUME TypeOK, TypeOK', RejectedInv, alive, NEW c \in Connection,
           NEW e \in 1..Len(stream[c]), LineStep(c, e)
    PROVE  RejectedHere(c)' /\ DiesOfRejectedLine'
<1>0. /\ ctx \in [Connection -> Context] /\ ctx[c].request \in Request
      /\ pc[c] = "parse" /\ ParserFrame
  BY DEF TypeOK, Context, LineStep, AcceptRequestLine, RejectRequestLine, ThrowInRequestLine,
     AbortInSetMethod, ReadHeader, RejectHeader, EndHeaders, RejectHeaders,
     ThrowInContentLength, ExpectBody, AtBlankLine, InState
<1>s. stream' = stream /\ wr' = wr
  BY <1>0 DEF ParserFrame, client
<1>1. CASE AcceptRequestLine(c, e)
  BY <1>0, <1>1 DEF AcceptRequestLine, RejectedHere, DiesOfRejectedLine
<1>2. CASE RejectRequestLine(c, e) \/ ThrowInRequestLine(c, e)
  <2>1. /\ LineAt(c, e) /\ rd' = rd /\ alive' = alive
        /\ ~RequestLineGood(stream[c][e])
    BY <1>2 DEF RejectRequestLine, ThrowInRequestLine, RequestLineThrows, QueryBehindVersion,
       RequestLineGood, Version
  <2>2. LineAt(c, e)'
    BY <1>s, <2>1 DEF LineAt
  <2> QED
    BY <1>s, <2>1, <2>2 DEF RejectedHere, DiesOfRejectedLine
<1>3. CASE AbortInSetMethod(c, e)
  <2>1. InState(c, "kExpectRequestLine") /\ ~MethodUnset(ctx[c].request)
    BY <1>3 DEF AbortInSetMethod, MethodAssertFails
  <2>2. PICK x \in 1..Len(stream[c]) : LineAt(c, x) /\ ~RequestLineGood(stream[c][x])
    BY <2>1 DEF InState, RejectedInv, RejectedHere
  <2>3. UNCHANGED <<rd, ctx, pc>>
    BY <1>3 DEF AbortInSetMethod
  <2>4. LineAt(c, x)' /\ InState(c, "kExpectRequestLine")'
    BY <1>s, <2>1, <2>2, <2>3 DEF LineAt, InState
  <2> QED
    BY <1>s, <2>2, <2>4 DEF RejectedHere, DiesOfRejectedLine
<1>4. CASE ReadHeader(c, e)
  BY <1>0, <1>4 DEF ReadHeader, InState, RejectedHere, DiesOfRejectedLine
<1>5. CASE RejectHeader(c, e)
  BY <1>5 DEF RejectHeader, InState, RejectedHere, DiesOfRejectedLine
<1>6. CASE EndHeaders(c, e)
  BY <1>0, <1>6 DEF EndHeaders, RejectedHere, DiesOfRejectedLine
<1>7. CASE RejectHeaders(c, e) \/ ThrowInContentLength(c, e)
  BY <1>7 DEF RejectHeaders, ThrowInContentLength, AtBlankLine, InState, RejectedHere,
     DiesOfRejectedLine
<1>8. CASE ExpectBody(c, e)
  BY <1>0, <1>8 DEF ExpectBody, AfterContentLength, RejectedHere, DiesOfRejectedLine
<1> QED
  BY <1>1, <1>2, <1>3, <1>4, <1>5, <1>6, <1>7, <1>8 DEF LineStep

\* Every step keeps it on the connection it is a step of.
LEMMA StepKeepsRejected ==
    ASSUME TypeOK, TypeOK', RejectedInv, NEW c \in Connection, ThreadStep(c) \/ Environment(c)
    PROVE  RejectedHere(c)' /\ DiesOfRejectedLine'
<1>0. alive
  BY DEF ThreadStep, Environment
<1>1. ASSUME UNCHANGED ctx, rd'[c] = rd[c], wr'[c] \in Nat, wr[c] <= wr'[c],
             wr'[c] <= Len(stream'[c]), Len(stream[c]) <= Len(stream'[c]), alive',
             \A i \in 1..Len(stream[c]) : stream'[c][i] = stream[c][i],
             Len(stream'[c]) \in Nat
      PROVE  RejectedHere(c)' /\ DiesOfRejectedLine'
  <2> SUFFICES ASSUME ctx[c].state = "kExpectRequestLine" /\ ~MethodUnset(ctx[c].request)
               PROVE  \E e \in 1..Len(stream'[c]) : LineAt(c, e)' /\ ~RequestLineGood(stream'[c][e])
    BY <1>1 DEF RejectedHere, DiesOfRejectedLine
  <2>1. PICK e \in 1..Len(stream[c]) : LineAt(c, e) /\ ~RequestLineGood(stream[c][e])
    BY DEF RejectedInv, RejectedHere
  <2> QED
    BY <1>1, <2>1, FirstLineStays
<1>2. /\ rd[c] \in Nat /\ wr[c] \in Nat /\ wr[c] <= Len(stream[c]) /\ Len(stream[c]) \in Nat
      /\ stream[c] \in Seq(Token) /\ ctx[c] \in Context
  BY LenProperties DEF TypeOK
<1>3. ASSUME UNCHANGED <<ctx, buffer, stream, alive>> PROVE RejectedHere(c)' /\ DiesOfRejectedLine'
  BY <1>0, <1>1, <1>2, <1>3 DEF buffer
<1>4. CASE OnConnected(c)
  BY <1>0, <1>4 DEF OnConnected, NewContext, NewRequest, MethodUnset, RejectedHere,
     DiesOfRejectedLine, TypeOK
<1>5. CASE ClientClose(c)
  BY <1>3, <1>5 DEF ClientClose, client
<1>6. ASSUME NEW r \in Requests, ClientSend(c, r) PROVE RejectedHere(c)' /\ DiesOfRejectedLine'
  <2>1. r \in Seq(Token) /\ stream'[c] = stream[c] \o r
    BY <1>6, HttpServerAssumption DEF ClientSend, TypeOK
  <2>2. /\ Len(stream[c]) <= Len(stream'[c]) /\ Len(stream'[c]) \in Nat
        /\ \A i \in 1..Len(stream[c]) : stream'[c][i] = stream[c][i]
    BY <1>2, <2>1, ConcatProperties, LenProperties
  <2> QED
    BY <1>0, <1>1, <1>2, <1>6, <2>2 DEF ClientSend, buffer
<1>7. ASSUME NEW n \in 0..Len(stream[c]), Deliver(c, n)
      PROVE  RejectedHere(c)' /\ DiesOfRejectedLine'
  <2>1. /\ wr'[c] = wr[c] + n /\ wr[c] + n <= Len(stream[c]) /\ n \in Nat
        /\ UNCHANGED <<client, rd, ctx, alive>>
    BY <1>2, <1>7 DEF Deliver, TypeOK
  <2> QED
    BY <1>0, <1>1, <1>2, <2>1 DEF client
<1>8. CASE AwaitMore(c)
  BY <1>3, <1>8 DEF AwaitMore, ParserFrame, client, buffer
<1>9. CASE ReadBody(c)
  BY <1>0, <1>9 DEF ReadBody, AfterBody, RejectedHere, DiesOfRejectedLine, TypeOK
<1>10. CASE Spin(c)
  BY <1>3, <1>10 DEF Spin, ParserFrame, client, buffer
<1>11. ASSUME NEW e \in 1..Len(stream[c]), LineStep(c, e)
       PROVE  RejectedHere(c)' /\ DiesOfRejectedLine'
  BY <1>0, <1>11, LineKeepsRejected
<1>12. CASE AfterParse(c) \/ ThrowInCallback(c) \/ CatchException(c)
  <2>1. UNCHANGED <<client, buffer, ctx, alive>>
    BY <1>12 DEF AfterParse, ThrowInCallback, CatchException
  <2> QED
    BY <1>3, <2>1 DEF client
<1>13. ASSUME NEW resp \in Responses(ctx[c].request), OnRequest(c, resp)
       PROVE  RejectedHere(c)' /\ DiesOfRejectedLine'
  <2>1. MethodUnset(ctx'[c].request) /\ alive'
    BY <1>0, <1>13 DEF OnRequest, Reset, SwapWithNew, NewRequest, MethodUnset, TypeOK
  <2> QED
    BY <2>1 DEF RejectedHere, DiesOfRejectedLine
<1> QED
  BY <1>4, <1>5, <1>6, <1>7, <1>8, <1>9, <1>10, <1>11, <1>12, <1>13 DEF ThreadStep, Environment

\* Whatever clients write, the assertion of setMethod fails only on a line
\* that was rejected with its method stored (HttpContext.cpp:157, 33-43).
THEOREM DiesOfRejectedLineCorrect == Spec => []DiesOfRejectedLine
<1>1. ASSUME Init PROVE RejectedInv
  BY <1>1 DEF Init, RejectedInv, RejectedHere, DiesOfRejectedLine, NewContext, NewRequest, MethodUnset
<1>2. ASSUME TypeOK, TypeOK', RejectedInv, [Next]_vars PROVE RejectedInv'
  <2>1. ASSUME NEW c \in Connection, ThreadStep(c) \/ Environment(c) PROVE RejectedInv'
    <3>1. RejectedHere(c)' /\ DiesOfRejectedLine'
      BY <1>2, <2>1, StepKeepsRejected
    <3>2. ASSUME NEW d \in Connection, d # c PROVE RejectedHere(d)'
      <4>1. stream'[d] = stream[d] /\ rd'[d] = rd[d] /\ wr'[d] = wr[d] /\ ctx'[d] = ctx[d]
        BY <1>2, <2>1, <3>2, OthersUntouched
      <4>2. RejectedHere(d)
        BY <1>2 DEF RejectedInv
      <4> QED
        BY <4>1, <4>2 DEF RejectedHere, LineAt
    <3> QED
      BY <3>1, <3>2 DEF RejectedInv
  <2>2. CASE UNCHANGED vars
    BY <1>2, <2>2 DEF vars, client, buffer, RejectedInv, RejectedHere, DiesOfRejectedLine, InState, LineAt
  <2> QED
    BY <1>2, <2>1, <2>2 DEF Next
<1>3. RejectedInv => DiesOfRejectedLine
  BY DEF RejectedInv
<1> QED
  BY <1>1, <1>2, <1>3, TypeCorrect, PTL DEF Spec
=============================================================================
