----------------------- MODULE RequestPipeline_proofs -----------------------
(***************************************************************************)
(* Proofs about RequestPipeline, for every set of routes, middlewares and  *)
(* requests.                                                               *)
(***************************************************************************)
EXTENDS RequestPipeline, Router_proofs

---------------------------------------------------------------------------
(* Types.                                                                  *)

\* handleRequest runs with a request, and i is the position of a middleware,
\* or one place off either end of the chain.
PhaseOK ==
    /\ pc \in {"before", "after", "done"} => req \in Request
    /\ pc = "before" => i \in 1..Len(chain) + 1
    /\ pc = "after" => i \in 0..Len(chain)

\* A response with new fields is a response.
LEMMA ResponseFields ==
    ASSUME NEW r \in Response, NEW status \in Nat, NEW close \in BOOLEAN,
           NEW origin \in Origin \cup {"*", None}, NEW body \in {"handler", "what", None}
    PROVE  /\ [r EXCEPT !.status = status, !.body = body] \in Response
           /\ [r EXCEPT !.status = status, !.close = close] \in Response
           /\ [r EXCEPT !.status = status, !.close = close, !.body = body] \in Response
           /\ addCorsHeaders(r, origin) \in Response
           /\ [r EXCEPT !.status = status] \in Response
BY DEF Response, addCorsHeaders

\* A new response has the type of one.
LEMMA NewResponseType == \A close \in BOOLEAN : HttpResponse(close) \in Response
BY DEF HttpResponse, Response

\* The response that before throws.
LEMMA PreflightType ==
    ASSUME NEW origins, NEW o \in Origin
    PROVE  handlePreflightRequest(origins, o) \in Response
<1>1. HttpResponse(TRUE) \in Response
  BY NewResponseType
<1>2. addCorsHeaders(HttpResponse(TRUE), o) \in Response
  BY <1>1 DEF addCorsHeaders, Response
<1>3. [addCorsHeaders(HttpResponse(TRUE), o) EXCEPT !.status = 204] \in Response
  BY <1>2, ZenonT(30) DEF Response
<1>4. [HttpResponse(TRUE) EXCEPT !.status = 403] \in Response
  <2>1. PICK r \in Response : r = HttpResponse(TRUE)
    BY <1>1
  <2>2. [r EXCEPT !.status = 403] \in Response
    BY DEF Response
  <2> QED
    BY <2>1, <2>2
<1>5. CASE isOriginAllowed(origins, o)
  <2>1. handlePreflightRequest(origins, o) = [addCorsHeaders(HttpResponse(TRUE), o) EXCEPT !.status = 204]
    BY <1>5 DEF handlePreflightRequest
  <2> QED
    BY <2>1, <1>3
<1>6. CASE ~isOriginAllowed(origins, o)
  <2>1. handlePreflightRequest(origins, o) = [HttpResponse(TRUE) EXCEPT !.status = 403]
    BY <1>6 DEF handlePreflightRequest
  <2> QED
    BY <2>1, <1>4
<1> QED
  BY <1>5, <1>6

\* What a middleware of the chain is, and what its after makes of a response.
LEMMA MiddlewareCases ==
    ASSUME NEW m \in Middleware
    PROVE  m = Plain \/ \E origins \in Config : m = Cors(origins)
BY DEF Middleware

\* The origin that after puts into a response is one that is configured, or "*".
LEMMA CorsAfterType ==
    ASSUME NEW origins \in Config, NEW r \in Response
    PROVE  CorsAfter(origins, r) \in Response
<1>1. origins \in Seq(Origin \cup {"*"})
  BY RequestPipelineAssumption
<1>2. ASSUME origins # <<>> PROVE origins[1] \in Origin \cup {"*"}
  <2>1. 1 \in 1..Len(origins)
    BY <1>1, <1>2, EmptySeq
  <2> QED
    BY <1>1, <2>1, ElementOfSeq
<1>3. ASSUME NEW o \in Origin \cup {"*"} PROVE addCorsHeaders(r, o) \in Response
  BY <1>3 DEF addCorsHeaders, Response
<1> QED
  BY <1>2, <1>3 DEF CorsAfter

\* What a handler makes of a response is a response.
LEMMA FilledType ==
    ASSUME NEW r \in Response, NEW f \in Filled(r)
    PROVE  f \in Response
<1>1. ASSUME NEW code \in Code, NEW close \in BOOLEAN
      PROVE  FillIn(r, code, close) \in Response
  <2>1. code \in Nat
    BY RequestPipelineAssumption
  <2> QED
    BY <2>1 DEF FillIn, Response
<1>2. CASE f = r
  BY <1>2
<1>3. CASE f # r
  <2>1. PICK code \in Code, close \in BOOLEAN :
           f = FillIn(r, code, close)
    BY <1>3 DEF Filled
  <2> QED
    BY <1>1, <2>1
<1> QED
  BY <1>2, <1>3

\* The middleware at a position of the chain: a plain one or a CorsMiddleware,
\* told apart by its kind.
LEMMA ChainAt ==
    ASSUME chain \in Seq(Middleware), NEW k \in 1..Len(chain)
    PROVE  \/ chain[k] = Plain /\ chain[k].kind = "plain"
           \/ /\ chain[k] # Plain /\ chain[k].kind = "cors"
              /\ chain[k].allowedOrigins \in Config
<1>1. chain[k] \in Middleware
  BY ElementOfSeq
<1>2. Plain.kind = "plain"
  BY DEF Plain
<1>3. CASE chain[k] = Plain
  BY <1>2, <1>3
<1>4. CASE chain[k] # Plain
  <2>1. PICK origins \in Config : chain[k] = Cors(origins)
    BY <1>1, <1>4 DEF Middleware
  <2>2. Cors(origins).kind = "cors" /\ Cors(origins).allowedOrigins = origins
    BY DEF Cors
  <2> QED
    BY <1>4, <2>1, <2>2
<1> QED
  BY <1>3, <1>4

\* The types of all variables but calls, of which NestedInv speaks.
Types ==
    /\ tables \in Tables
    /\ chain \in Seq(Middleware) /\ Len(chain) <= MaxMiddlewares
    /\ granted \subseteq Origin
    /\ pc \in {"setup", "idle", "before", "after", "done"}
    /\ i \in 0..Len(chain) + 1
    /\ req \in Request \cup {NoRequest}
    /\ resp \in Response
    /\ requests \in 0..MaxRequests

\* The steps that add to the tables and to the chain keep the types.
LEMMA SetupTypes == Types /\ PhaseOK /\ Setup => Types' /\ PhaseOK'
<1> SUFFICES ASSUME Types, PhaseOK, Setup PROVE Types' /\ PhaseOK'
  OBVIOUS
<1>0. Len(chain) \in Nat
  BY LenProperties DEF Types
<1>1. ASSUME tables' \in Tables, UNCHANGED <<chain, granted, pc, i, req, resp, requests>>
      PROVE  Types' /\ PhaseOK'
  BY <1>1 DEF Types, PhaseOK
<1>a. ASSUME NEW method \in Method, NEW handler \in Handler, NEW path \in Path,
             NEW table \in {"handlers", "callbacks"}, Register(table, method, path, handler)
      PROVE  Types' /\ PhaseOK'
  <2>1. tables' \in Tables
    BY <1>a, RegistrationType DEF Register, Types
  <2> QED
    BY <1>a, <1>1, <2>1 DEF Register, SetupFrame
<1>b. ASSUME NEW method \in Method, NEW handler \in Handler, NEW pattern \in Pattern,
             NEW table \in {"regexHandlers", "regexCallbacks"},
             Register(table, method, pattern, handler)
      PROVE  Types' /\ PhaseOK'
  <2>1. tables' \in Tables
    BY <1>b, RegistrationType DEF Register, Types
  <2> QED
    BY <1>b, <1>1, <2>1 DEF Register, SetupFrame
<1>2. ASSUME NEW middleware \in Middleware, addMiddleware(middleware)
      PROVE  Types' /\ PhaseOK'
  <2>1. chain' \in Seq(Middleware) /\ Len(chain') = Len(chain) + 1
    BY <1>2, AppendProperties DEF addMiddleware, Types
  <2>2. Len(chain') <= MaxMiddlewares /\ i \in 0..Len(chain') + 1
    BY <1>0, <1>2, <2>1, RequestPipelineAssumption DEF addMiddleware, Types
  <2> QED
    BY <1>2, <2>1, <2>2 DEF addMiddleware, SetupFrame, Types, PhaseOK
<1>3. CASE Start
  BY <1>3 DEF Start, server, Types, PhaseOK
<1> QED
  BY <1>a, <1>b, <1>2, <1>3 DEF Setup

\* A step of handleRequest replaces the response, moves i, and leaves the
\* server and the request alone.
LEMMA RequestStepTypes ==
    ASSUME Types, PhaseOK, RequestFrame, pc # "setup", pc # "idle",
           resp' \in Response, granted' \subseteq Origin,
           \/ pc' = "before" /\ i' \in 1..Len(chain) + 1
           \/ pc' = "after" /\ i' \in 0..Len(chain)
           \/ pc' \in {"done", "idle"} /\ i' = i
    PROVE  Types' /\ PhaseOK'
<1>1. Len(chain) \in Nat
  BY LenProperties DEF Types
<1>2. i' \in 0..Len(chain) + 1
  BY <1>1 DEF Types
<1>3. req \in Request
  BY DEF Types, PhaseOK
<1> QED
  BY <1>2, <1>3 DEF RequestFrame, server, Types, PhaseOK

\* So does every step of handleRequest.
LEMMA HandleRequestTypes == Types /\ PhaseOK /\ handleRequest => Types' /\ PhaseOK'
<1> SUFFICES ASSUME Types, PhaseOK, handleRequest PROVE Types' /\ PhaseOK'
  OBVIOUS
<1>0. Len(chain) \in Nat /\ chain \in Seq(Middleware)
  BY LenProperties DEF Types
<1>a. resp \in Response /\ granted \subseteq Origin
  BY DEF Types
<1>b. pc \in {"before", "after", "done"} => req \in Request /\ req.origin \in Origin
  BY DEF PhaseOK, Request
<1>c. ASSUME NEW r \in Response PROVE [r EXCEPT !.status = 500, !.body = "what"] \in Response
  <2>1. PICK status \in Nat : status = 500
    OBVIOUS
  <2>2. [r EXCEPT !.status = status, !.body = "what"] \in Response
    BY DEF Response
  <2> QED
    BY <2>1, <2>2
<1>1. CASE BeforeReturns
  <2>1. i' \in 1..Len(chain) + 1 /\ pc' = "before"
    BY <1>0, <1>1 DEF BeforeReturns, InBefore, PhaseOK
  <2> QED
    BY <1>1, <1>a, <2>1, RequestStepTypes DEF BeforeReturns, InBefore
<1>2. CASE BeforeThrows
  BY <1>2, <1>a, <1>c, RequestStepTypes DEF BeforeThrows, InBefore, InternalServerError
<1>3. CASE Preflight
  <2>1. req.origin \in Origin
    BY <1>3, <1>b DEF Preflight, InBefore
  <2>2. resp' \in Response
    BY <1>3, <2>1, PreflightType DEF Preflight
  <2>3. granted' \subseteq Origin
    BY <1>3, <1>a, <2>1 DEF Preflight
  <2> QED
    BY <1>3, <2>2, <2>3, RequestStepTypes DEF Preflight, InBefore
<1>4. CASE NotFound
  <2>1. [resp EXCEPT !.status = 404, !.close = TRUE] \in Response
    <3>1. PICK status \in Nat : status = 404
      OBVIOUS
    <3>2. [resp EXCEPT !.status = status, !.close = TRUE] \in Response
      BY <1>a DEF Response
    <3> QED
      BY <3>1, <3>2
  <2>2. Len(chain) \in 0..Len(chain)
    BY <1>0
  <2> QED
    BY <1>4, <1>a, <2>1, <2>2, RequestStepTypes DEF NotFound
<1>5. ASSUME NEW response \in Filled(resp), Handle(response) PROVE Types' /\ PhaseOK'
  <2>1. response \in Response
    BY <1>a, FilledType
  <2>2. Len(chain) \in 0..Len(chain)
    BY <1>0
  <2> QED
    BY <1>5, <1>a, <2>1, <2>2, RequestStepTypes DEF Handle
<1>6. ASSUME NEW response \in Filled(resp), HandlerThrows(response) PROVE Types' /\ PhaseOK'
  <2>1. response \in Response
    BY <1>a, FilledType
  <2> QED
    BY <1>6, <1>a, <1>c, <2>1, RequestStepTypes DEF HandlerThrows, InternalServerError
<1>7. CASE AfterReturns
  <2>1. i \in 1..Len(chain) /\ i - 1 \in 0..Len(chain)
    BY <1>0, <1>7 DEF AfterReturns, PhaseOK
  <2>2. resp' \in Response
    BY <1>0, <1>7, <1>a, <2>1, ChainAt, CorsAfterType DEF AfterReturns, AfterIndex
  <2> QED
    BY <1>7, <1>a, <2>1, <2>2, RequestStepTypes DEF AfterReturns
<1>8. CASE AfterThrows \/ AfterEnds
  BY <1>8, <1>a, RequestStepTypes DEF AfterThrows, AfterEnds
<1>9. CASE Respond
  BY <1>9, <1>a, RequestStepTypes DEF Respond
<1> QED
  BY <1>1, <1>2, <1>3, <1>4, <1>5, <1>6, <1>7, <1>8, <1>9 DEF handleRequest

\* Every step keeps the types.
LEMMA TypeStep == Types /\ PhaseOK /\ [Next]_vars => Types' /\ PhaseOK'
<1> SUFFICES ASSUME Types, PhaseOK, [Next]_vars PROVE Types' /\ PhaseOK'
  OBVIOUS
<1>1. ASSUME NEW r \in Request, BeginRequest(r) PROVE Types' /\ PhaseOK'
  <2>1. Len(chain) \in Nat
    BY LenProperties DEF Types
  <2>2. r.close \in BOOLEAN
    BY DEF Request
  <2>3. resp' \in Response
    BY <1>1, <2>2, NewResponseType DEF BeginRequest
  <2>4. 1 \in 1..Len(chain) + 1 /\ 1 \in 0..Len(chain) + 1
    BY <2>1
  <2>5. requests' \in 0..MaxRequests
    BY <1>1, RequestPipelineAssumption DEF BeginRequest, Types
  <2> QED
    BY <1>1, <2>3, <2>4, <2>5 DEF BeginRequest, server, Types, PhaseOK
<1>2. CASE UNCHANGED vars
  BY <1>2 DEF vars, Types, PhaseOK
<1> QED
  BY <1>1, <1>2, SetupTypes, HandleRequestTypes DEF Next

\* The types hold at every moment.
LEMMA TypesCorrect == Spec => [](Types /\ PhaseOK)
<1>1. Init => Types /\ PhaseOK
  <2> SUFFICES ASSUME Init PROVE Types /\ PhaseOK
    OBVIOUS
  <2>1. <<>> \in Seq(Route) /\ <<>> \in Seq(Middleware) /\ Len(<<>>) = 0
    BY EmptySeq
  <2>2. <<>> \in Map
    <3>1. <<>> \in [{} -> Handler]
      OBVIOUS
    <3> QED
      BY <3>1 DEF Map
  <2>3. EmptyTables \in Tables
    BY <2>1, <2>2 DEF EmptyTables, Tables
  <2>4. HttpResponse(TRUE) \in Response
    BY NewResponseType
  <2>5. 0 <= MaxMiddlewares /\ 0 \in 0..MaxRequests /\ 0 \in 0..Len(<<>>) + 1
    BY <2>1, RequestPipelineAssumption
  <2> QED
    BY <2>1, <2>3, <2>4, <2>5 DEF Init, Types, PhaseOK
<1> QED
  BY <1>1, TypeStep, PTL DEF Spec

\* Every reachable state is well typed.
THEOREM RequestPipelineTypeCorrect == Spec => []TypeOK
<1>1. Types => TypeOK
  BY MapIsTable DEF Types, TypeOK, Tables
<1> QED
  BY <1>1, TypesCorrect, PTL

---------------------------------------------------------------------------
(* The order of the calls.                                                 *)

\* A call is one of a middleware, with its position, or of a handler.
CallRecord == ({"before", "after"} \X Int) \cup ({"handler"} \X Handler)
HandlerCalls == {<<>>} \cup {<< <<"handler", h>> >> : h \in Handler}

\* The calls made so far are the first ones of the full sequence with handler.
Follows(handler) ==
    /\ Len(calls) <= Len(FullSequence(handler))
    /\ \A k \in 1..Len(calls) : calls[k] = FullSequence(handler)[k]

\* Where handleRequest is tells how far into the full sequence it is.
NestedInv ==
    /\ calls \in Seq(CallRecord)
    /\ pc = "setup" => Len(calls) = 0
    /\ pc = "before" => Len(calls) = i - 1 /\ \A handler \in HandlerCalls : Follows(handler)
    /\ pc = "after" =>
          \E handler \in HandlerCalls :
              Follows(handler) /\ Len(calls) = 2 * Len(chain) + Len(handler) - i
    /\ \E handler \in HandlerCalls : Follows(handler)

\* A function on the first numbers is a sequence.
LEMMA FunctionIsSeq ==
    ASSUME NEW S, NEW n \in Nat, NEW f \in [1..n -> S]
    PROVE  f \in Seq(S) /\ Len(f) = n
OBVIOUS

\* A sequence of one element.
LEMMA SingletonSeq ==
    ASSUME NEW S, NEW e \in S
    PROVE  <<e>> \in Seq(S) /\ Len(<<e>>) = 1 /\ <<e>>[1] = e
OBVIOUS

\* No more than one handler is called.
LEMMA HandlerCallsType ==
    ASSUME NEW handler \in HandlerCalls
    PROVE  /\ handler \in Seq(CallRecord)
           /\ \/ handler = <<>> /\ Len(handler) = 0
              \/ \E h \in Handler : handler = << <<"handler", h>> >> /\ Len(handler) = 1
<1>1. CASE handler = <<>>
  BY <1>1, EmptySeq
<1>2. CASE handler # <<>>
  <2>1. PICK h \in Handler : handler = << <<"handler", h>> >>
    BY <1>2 DEF HandlerCalls
  <2>2. <<"handler", h>> \in CallRecord
    BY DEF CallRecord
  <2> QED
    BY <2>1, <2>2, SingletonSeq
<1> QED
  BY <1>1, <1>2

\* The full sequence of a chain of N middlewares.
CallsOf(N, handler) ==
    [n \in 1..N |-> <<"before", n>>] \o handler \o [n \in 1..N |-> <<"after", N + 1 - n>>]

\* It is, call by call: the befores from the first middleware to the last, the
\* handler, the afters from the last to the first.
LEMMA CallsOfAt ==
    ASSUME NEW N \in Nat, NEW handler \in HandlerCalls
    PROVE  /\ CallsOf(N, handler) \in Seq(CallRecord)
           /\ Len(CallsOf(N, handler)) = 2 * N + Len(handler)
           /\ \A k \in 1..N : CallsOf(N, handler)[k] = <<"before", k>>
           /\ \A k \in 1..Len(handler) : CallsOf(N, handler)[N + k] = handler[k]
           /\ \A k \in 1..N : CallsOf(N, handler)[2 * N + Len(handler) + 1 - k] = <<"after", k>>
<1> DEFINE b == [n \in 1..N |-> <<"before", n>>]
           a == [n \in 1..N |-> <<"after", N + 1 - n>>]
<1>1. N \in Nat
  OBVIOUS
<1>2. handler \in Seq(CallRecord) /\ Len(handler) \in Nat
  BY HandlerCallsType, LenProperties
<1>3. b \in [1..N -> CallRecord] /\ a \in [1..N -> CallRecord]
  BY <1>1 DEF CallRecord
<1>4. \A k \in 1..N : b[k] = <<"before", k>> /\ a[N + 1 - k] = <<"after", k>>
  <2> TAKE k \in 1..N
  <2>1. N + 1 - k \in 1..N /\ N + 1 - (N + 1 - k) = k
    BY <1>1
  <2> QED
    BY <2>1
<1>5. CallsOf(N, handler) = b \o handler \o a
  BY DEF CallsOf
<1> HIDE DEF a, b
<1>6. /\ b \in Seq(CallRecord) /\ Len(b) = N
      /\ a \in Seq(CallRecord) /\ Len(a) = N
  BY <1>1, <1>3, FunctionIsSeq
<1> DEFINE bh == b \o handler
<1>7. /\ bh \in Seq(CallRecord) /\ Len(bh) = N + Len(handler)
      /\ \A k \in 1..N + Len(handler) : bh[k] = IF k <= N THEN b[k] ELSE handler[k - N]
  <2>1. /\ bh \in Seq(CallRecord) /\ Len(bh) = Len(b) + Len(handler)
        /\ \A k \in 1..Len(b) + Len(handler) :
              bh[k] = IF k <= Len(b) THEN b[k] ELSE handler[k - Len(b)]
    BY <1>2, <1>6, ConcatProperties
  <2> QED
    BY <2>1, <1>6
<1> HIDE DEF bh
<1>8. /\ bh \o a \in Seq(CallRecord) /\ Len(bh \o a) = N + Len(handler) + N
      /\ \A k \in 1..N + Len(handler) + N :
            (bh \o a)[k] = IF k <= N + Len(handler) THEN bh[k] ELSE a[k - (N + Len(handler))]
  <2>1. /\ bh \o a \in Seq(CallRecord) /\ Len(bh \o a) = Len(bh) + Len(a)
        /\ \A k \in 1..Len(bh) + Len(a) :
              (bh \o a)[k] = IF k <= Len(bh) THEN bh[k] ELSE a[k - Len(bh)]
    BY <1>6, <1>7, ConcatProperties
  <2> QED
    BY <2>1, <1>6, <1>7
<1> DEFINE f == bh \o a
<1> HIDE DEF f
<1>9. f = CallsOf(N, handler)
  BY <1>5 DEF f, bh
<1>10. \A k \in 1..N : f[k] = <<"before", k>>
  <2> TAKE k \in 1..N
  <2>1. k \in 1..N + Len(handler) + N /\ k \in 1..N + Len(handler) /\ k <= N /\ k <= N + Len(handler)
    BY <1>1, <1>2
  <2> QED
    BY <2>1, <1>4, <1>7, <1>8 DEF f
<1>11. \A k \in 1..Len(handler) : f[N + k] = handler[k]
  <2> TAKE k \in 1..Len(handler)
  <2>1. /\ N + k \in 1..N + Len(handler) + N /\ N + k \in 1..N + Len(handler)
        /\ ~(N + k <= N) /\ N + k <= N + Len(handler) /\ N + k - N = k
    BY <1>1, <1>2
  <2> DEFINE m == N + k
  <2> HIDE DEF m
  <2>2. f[m] = bh[m]
    BY <2>1, <1>8 DEF f, m
  <2>3. bh[m] = handler[m - N]
    BY <2>1, <1>7 DEF m
  <2>4. m - N = k
    BY <1>1, <1>2 DEF m
  <2>5. f[m] = handler[k]
    BY <2>2, <2>3, <2>4
  <2> QED
    BY <2>5 DEF m
<1>12. \A k \in 1..N : f[2 * N + Len(handler) + 1 - k] = <<"after", k>>
  <2> TAKE k \in 1..N
  <2> DEFINE m == 2 * N + Len(handler) + 1 - k
  <2>1. /\ m \in 1..N + Len(handler) + N
        /\ ~(m <= N + Len(handler)) /\ m - (N + Len(handler)) = N + 1 - k
    BY <1>1, <1>2
  <2> HIDE DEF m
  <2>2. f[m] = a[N + 1 - k]
    BY <2>1, <1>8 DEF f
  <2> QED
    BY <2>2, <1>4 DEF m
<1>13. f \in Seq(CallRecord) /\ Len(f) = 2 * N + Len(handler)
  BY <1>1, <1>2, <1>8 DEF f
<1> QED
  BY <1>9, <1>10, <1>11, <1>12, <1>13

\* The full sequence of the chain that is registered.
LEMMA FullSequenceAt ==
    ASSUME chain \in Seq(Middleware), NEW handler \in HandlerCalls
    PROVE  /\ FullSequence(handler) \in Seq(CallRecord)
           /\ Len(FullSequence(handler)) = 2 * Len(chain) + Len(handler)
           /\ \A k \in 1..Len(chain) : FullSequence(handler)[k] = <<"before", k>>
           /\ \A k \in 1..Len(handler) : FullSequence(handler)[Len(chain) + k] = handler[k]
           /\ \A k \in 1..Len(chain) :
                 FullSequence(handler)[2 * Len(chain) + Len(handler) + 1 - k] = <<"after", k>>
<1>1. Len(chain) \in Nat
  BY LenProperties
<1>2. FullSequence(handler) = CallsOf(Len(chain), handler)
  BY DEF FullSequence, CallsOf
<1>3. PICK N \in Nat : N = Len(chain)
  BY <1>1
<1> DEFINE f == CallsOf(N, handler)
<1>4. /\ f \in Seq(CallRecord) /\ Len(f) = 2 * N + Len(handler)
      /\ \A k \in 1..N : f[k] = <<"before", k>>
      /\ \A k \in 1..Len(handler) : f[N + k] = handler[k]
      /\ \A k \in 1..N : f[2 * N + Len(handler) + 1 - k] = <<"after", k>>
  BY CallsOfAt
<1>5. FullSequence(handler) = f
  BY <1>2, <1>3
<1> HIDE DEF f
<1> QED
  BY <1>3, <1>4, <1>5

\* One more call, the next one of the full sequence.
LEMMA AppendFollows ==
    ASSUME chain \in Seq(Middleware), UNCHANGED chain, calls \in Seq(CallRecord),
           NEW handler \in HandlerCalls, Follows(handler),
           Len(calls) + 1 <= Len(FullSequence(handler)),
           calls' = Append(calls, FullSequence(handler)[Len(calls) + 1])
    PROVE  Follows(handler)' /\ calls' \in Seq(CallRecord) /\ Len(calls') = Len(calls) + 1
<1> DEFINE f == FullSequence(handler)
<1>1. f \in Seq(CallRecord) /\ Len(f) \in Nat /\ Len(calls) \in Nat
  BY FullSequenceAt, LenProperties
<1>2. FullSequence(handler)' = f
  BY DEF FullSequence
<1> HIDE DEF f
<1>3. f[Len(calls) + 1] \in CallRecord
  <2>1. Len(calls) + 1 \in 1..Len(f)
    BY <1>1 DEF f
  <2> QED
    BY <1>1, <2>1, ElementOfSeq
<1>4. /\ calls' \in Seq(CallRecord)
      /\ Len(calls') = Len(calls) + 1
      /\ \A k \in 1..Len(calls) : calls'[k] = calls[k]
      /\ calls'[Len(calls) + 1] = f[Len(calls) + 1]
  BY <1>3, AppendProperties DEF f
<1>5. \A k \in 1..Len(calls') : calls'[k] = f[k]
  <2>1. \A k \in 1..Len(calls) : calls[k] = f[k]
    BY DEF Follows, f
  <2> QED
    BY <1>1, <1>4, <2>1
<1> QED
  BY <1>2, <1>4, <1>5 DEF Follows, f

\* Nothing changes for calls that follow when calls and chain stay.
LEMMA KeepFollows ==
    ASSUME UNCHANGED <<chain, calls>>
    PROVE  \A handler : Follows(handler) <=> Follows(handler)'
BY DEF Follows, FullSequence

\* Every step keeps the order of the calls.
LEMMA NestedStep == Types /\ PhaseOK /\ NestedInv /\ [Next]_vars => NestedInv'
<1> SUFFICES ASSUME Types, PhaseOK, NestedInv, [Next]_vars PROVE NestedInv'
  OBVIOUS
<1> DEFINE N == Len(chain)
<1>0. chain \in Seq(Middleware) /\ N \in Nat /\ calls \in Seq(CallRecord) /\ Len(calls) \in Nat
  BY LenProperties DEF Types, NestedInv
<1>a. <<>> \in HandlerCalls
  BY DEF HandlerCalls
\* The next call of the full sequence is made, with handler, before or after it.
<1>b. ASSUME NEW handler \in HandlerCalls
      PROVE  /\ Len(FullSequence(handler)) = 2 * N + Len(handler)
             /\ Len(handler) \in {0, 1}
             /\ Len(handler) = 0 <=> handler = <<>>
  BY <1>0, HandlerCallsType, FullSequenceAt
<1>1. CASE BeforeReturns
  <2>1. i \in 1..N /\ Len(calls) = i - 1 /\ pc = "before"
    BY <1>0, <1>1 DEF BeforeReturns, InBefore, PhaseOK, NestedInv
  <2>2. ASSUME NEW handler \in HandlerCalls
        PROVE  Follows(handler)' /\ calls' \in Seq(CallRecord) /\ Len(calls') = i
    <3>1. FullSequence(handler)[i] = <<"before", i>>
      BY <1>0, <2>1, FullSequenceAt
    <3>2. Len(calls) + 1 = i /\ i <= Len(FullSequence(handler))
      BY <1>0, <1>b, <2>1
    <3>3. Follows(handler)
      BY <2>1 DEF NestedInv
    <3>4. calls' = Append(calls, FullSequence(handler)[Len(calls) + 1]) /\ UNCHANGED chain
      BY <1>1, <3>1, <3>2 DEF BeforeReturns, Called, RequestFrame, server
    <3> QED
      BY <1>0, <3>2, <3>3, <3>4, AppendFollows
  <2>3. pc' = "before" /\ i' = i + 1
    BY <1>1, <2>1 DEF BeforeReturns
  <2>4. i' - 1 = i
    BY <2>1, <2>3
  <2> QED
    BY <1>a, <2>2, <2>3, <2>4 DEF NestedInv
<1>c. CASE UNCHANGED <<chain, calls>> /\ pc' \in {"idle", "done"}
  BY <1>c, KeepFollows DEF NestedInv
<1>2. CASE BeforeThrows \/ Preflight \/ AfterThrows \/ AfterEnds \/ Respond
  BY <1>2, <1>c DEF BeforeThrows, InternalServerError, Preflight, AfterThrows, AfterEnds, Respond,
                    RequestFrame, server
<1>3. CASE NotFound
  <2>1. i = N + 1 /\ Len(calls) = i - 1 /\ pc = "before" /\ Follows(<<>>)
    BY <1>0, <1>3, <1>a DEF NotFound, PhaseOK, NestedInv
  <2>2. pc' = "after" /\ i' = N /\ UNCHANGED <<chain, calls>>
    BY <1>3 DEF NotFound, RequestFrame, server
  <2>3. Follows(<<>>)' /\ Len(calls') = 2 * N + Len(<<>>) - i'
    BY <1>0, <1>a, <1>b, <2>1, <2>2, KeepFollows
  <2> QED
    BY <1>0, <1>a, <2>2, <2>3 DEF NestedInv
<1>4. ASSUME NEW response \in Filled(resp), Handle(response) \/ HandlerThrows(response)
      PROVE  NestedInv'
  <2>1. i = N + 1 /\ Len(calls) = i - 1 /\ pc = "before"
    BY <1>0, <1>4 DEF Handle, HandlerThrows, PhaseOK, NestedInv
  <2>2. FoundHandler \in Handler
    BY <1>4, RouteType DEF Handle, HandlerThrows, FoundHandler, Types
  <2>a. PICK h \in Handler : h = FoundHandler
    BY <2>2
  <2> DEFINE handler == << <<"handler", h>> >>
  <2>3. handler \in HandlerCalls /\ Len(handler) = 1 /\ handler[1] = <<"handler", FoundHandler>>
    BY <2>a DEF HandlerCalls
  <2>4. /\ UNCHANGED chain
        /\ calls' = Append(calls, <<"handler", FoundHandler>>)
        /\ \/ pc' = "after" /\ i' = N
           \/ pc' = "done"
    BY <1>4 DEF Handle, HandlerThrows, Called, InternalServerError, RequestFrame, server
  <2> HIDE DEF handler
  <2>5. Follows(handler)
    BY <2>1, <2>3 DEF NestedInv
  <2>6. FullSequence(handler)[N + 1] = <<"handler", FoundHandler>>
    <3>1. 1 \in 1..Len(handler)
      BY <2>3
    <3> QED
      BY <1>0, <2>3, <3>1, FullSequenceAt
  <2>7. Len(calls) + 1 = N + 1 /\ Len(calls) + 1 <= Len(FullSequence(handler))
    <3>1. Len(FullSequence(handler)) = 2 * N + 1
      BY <1>0, <2>3, FullSequenceAt
    <3> QED
      BY <1>0, <2>1, <3>1
  <2>8. calls' = Append(calls, FullSequence(handler)[Len(calls) + 1])
    BY <2>4, <2>6, <2>7
  <2>9. Follows(handler)' /\ calls' \in Seq(CallRecord) /\ Len(calls') = N + 1
    BY <1>0, <2>3, <2>4, <2>5, <2>7, <2>8, AppendFollows
  <2>10. i' = N => Len(calls') = 2 * Len(chain') + Len(handler) - i'
    <3>1. Len(chain') = N
      BY <2>4
    <3>2. i' = N => N + 1 = 2 * N + 1 - i'
      BY <1>0
    <3> QED
      BY <2>3, <2>9, <3>1, <3>2
  <2> QED
    BY <2>3, <2>4, <2>9, <2>10 DEF NestedInv
<1>5. CASE AfterReturns
  <2>1. i \in 1..N /\ pc = "after"
    BY <1>0, <1>5 DEF AfterReturns, PhaseOK
  <2>2. PICK handler \in HandlerCalls : Follows(handler) /\ Len(calls) = 2 * N + Len(handler) - i
    BY <2>1 DEF NestedInv
  <2>3. FullSequence(handler)[2 * N + Len(handler) + 1 - i] = <<"after", i>>
    BY <1>0, <2>1, FullSequenceAt
  <2>4. /\ Len(calls) + 1 = 2 * N + Len(handler) + 1 - i
        /\ Len(calls) + 1 <= Len(FullSequence(handler))
    BY <1>0, <1>b, <2>1, <2>2
  <2>5. calls' = Append(calls, FullSequence(handler)[Len(calls) + 1]) /\ UNCHANGED chain
    BY <1>5, <2>3, <2>4 DEF AfterReturns, Called, AfterIndex, RequestFrame, server
  <2>6. Follows(handler)' /\ calls' \in Seq(CallRecord) /\ Len(calls') = Len(calls) + 1
    BY <1>0, <2>2, <2>4, <2>5, AppendFollows
  <2>7. pc' = "after" /\ i' = i - 1
    BY <1>5, <2>1 DEF AfterReturns
  <2>8. Len(calls') = 2 * Len(chain') + Len(handler) - i'
    BY <1>0, <1>b, <2>1, <2>2, <2>5, <2>6, <2>7
  <2> QED
    BY <2>6, <2>7, <2>8 DEF NestedInv
<1>d. ASSUME calls' \in Seq(CallRecord), Len(calls') = 0, chain' \in Seq(Middleware)
      PROVE  \A handler \in HandlerCalls : Follows(handler)'
  <2> TAKE handler \in HandlerCalls
  <2> DEFINE f == FullSequence(handler)'
  <2>1. f \in Seq(CallRecord)
    <3>1. Len(chain') \in Nat
      BY <1>d, LenProperties
    <3>2. f = CallsOf(Len(chain'), handler)
      BY DEF FullSequence, CallsOf
    <3> QED
      BY <3>1, <3>2, CallsOfAt
  <2> HIDE DEF f
  <2>2. Len(f) \in Nat
    BY <2>1, LenProperties
  <2> QED
    BY <1>d, <2>2 DEF Follows, f
<1>6. ASSUME NEW r \in Request, BeginRequest(r) PROVE NestedInv'
  <2>1. calls' = <<>> /\ pc' = "before" /\ i' = 1 /\ UNCHANGED chain
    BY <1>6 DEF BeginRequest, server
  <2>2. calls' \in Seq(CallRecord) /\ Len(calls') = 0
    BY <2>1, EmptySeq
  <2> QED
    BY <1>0, <1>a, <1>d, <2>1, <2>2 DEF NestedInv
<1>7. CASE Setup
  <2>1. UNCHANGED calls /\ Len(calls) = 0 /\ pc' \in {"setup", "idle"}
    BY <1>7, ZenonT(30) DEF Setup, Register, addMiddleware, Start, SetupFrame, NestedInv
  <2>2. chain' \in Seq(Middleware)
    BY <1>7, SetupTypes DEF Types
  <2> QED
    BY <1>0, <1>a, <1>d, <2>1, <2>2 DEF NestedInv
<1>8. CASE UNCHANGED vars
  BY <1>8, KeepFollows DEF vars, NestedInv
<1> QED
  BY <1>1, <1>2, <1>3, <1>4, <1>5, <1>6, <1>7, <1>8 DEF Next, handleRequest

\* The order of the calls holds at every moment.
LEMMA NestedCorrect == Spec => []NestedInv
<1>1. Init => NestedInv
  <2> SUFFICES ASSUME Init PROVE NestedInv
    OBVIOUS
  <2>1. /\ calls = <<>> /\ calls \in Seq(CallRecord) /\ Len(calls) = 0
        /\ chain = <<>> /\ chain \in Seq(Middleware)
    BY EmptySeq DEF Init
  <2>2. <<>> \in HandlerCalls
    BY DEF HandlerCalls
  <2>3. Len(FullSequence(<<>>)) \in Nat
    BY <2>1, <2>2, FullSequenceAt, LenProperties
  <2> QED
    BY <2>1, <2>2, <2>3 DEF Init, NestedInv, Follows
<1>2. Types /\ PhaseOK /\ NestedInv /\ [Next]_vars => NestedInv'
  BY NestedStep
<1> QED
  BY <1>1, <1>2, TypesCorrect, PTL DEF Spec

\* Whatever is thrown, an after is only called for a before that returned, and
\* in the reverse order (MiddlewareChain.cpp, HttpServer.cpp handleRequest).
THEOREM CallsAreNestedCorrect == Spec => []CallsAreNested
<1>1. Types /\ NestedInv => CallsAreNested
  <2> SUFFICES ASSUME Types, NestedInv PROVE CallsAreNested
    OBVIOUS
  <2>1. PICK handler \in HandlerCalls : Follows(handler)
    BY DEF NestedInv
  <2> DEFINE f == FullSequence(handler)
             n == Len(calls)
  <2>2. calls \in Seq(CallRecord) /\ n \in Nat
    BY LenProperties DEF NestedInv
  <2>3. f \in Seq(CallRecord) /\ Len(f) \in Nat
    BY FullSequenceAt, LenProperties DEF Types
  <2>4. n <= Len(f) /\ \A k \in 1..n : calls[k] = f[k]
    BY <2>1 DEF Follows
  <2> HIDE DEF f
  <2>5. \A k \in 1..n : f[k] \in CallRecord
    BY <2>2, <2>3, <2>4, ElementOfSeq
  <2>6. /\ SubSeq(f, 1, n) \in Seq(CallRecord)
        /\ Len(SubSeq(f, 1, n)) = IF 1 <= n THEN n - 1 + 1 ELSE 0
        /\ \A k \in 1..n - 1 + 1 : SubSeq(f, 1, n)[k] = f[1 + k - 1]
    BY <2>2, <2>5, SubSeqProperties
  <2>7. Len(SubSeq(f, 1, n)) = n /\ \A k \in 1..n : SubSeq(f, 1, n)[k] = calls[k]
    BY <2>2, <2>4, <2>6
  <2>8. SubSeq(f, 1, n) = calls
    BY <2>2, <2>6, <2>7, SeqEqual
  <2>9. SubSeq(calls, 1, n) = calls
    BY <2>2, SubSeqFull
  <2>10. IsPrefix(calls, f)
    BY <2>4, <2>8, <2>9 DEF IsPrefix
  <2> QED
    BY <2>10 DEF f, CallsAreNested, HandlerCalls
<1> QED
  BY <1>1, TypesCorrect, NestedCorrect, PTL

---------------------------------------------------------------------------
(* How a request ends.                                                     *)

\* A handler was called.
Handled == \E n \in 1..Len(calls) : calls[n][1] = "handler"

\* Until the chain is passed the response is untouched; on the way back it has
\* a status, or a handler that returned, and it is not the text of an exception.
StatusInv ==
    /\ pc = "before" => resp.allowOrigin = None /\ resp.body = None
    /\ pc = "after" => resp.body # "what" /\ (resp.status = 0 => Handled)
    /\ EveryEndHasAStatus

\* The call of the handler is among the calls once it was made.
LEMMA HandlerCallIsRecorded ==
    ASSUME calls \in Seq(CallRecord), NEW h \in Handler, Called(<<"handler", h>>)
    PROVE  Handled'
<1>1. <<"handler", h>> \in CallRecord
  BY DEF CallRecord
<1>2. Len(calls') = Len(calls) + 1 /\ calls'[Len(calls) + 1] = <<"handler", h>>
  BY <1>1, AppendProperties DEF Called
<1>3. Len(calls) \in Nat
  BY LenProperties
<1>4. Len(calls) + 1 \in 1..Len(calls')
  BY <1>2, <1>3
<1>5. calls'[Len(calls) + 1][1] = "handler"
  BY <1>2
<1> QED
  BY <1>4, <1>5 DEF Handled

\* A further call does not hide it.
LEMMA HandledStays ==
    ASSUME calls \in Seq(CallRecord), Handled, NEW call \in CallRecord, Called(call)
    PROVE  Handled'
<1>1. PICK n \in 1..Len(calls) : calls[n][1] = "handler"
  BY DEF Handled
<1>2. Len(calls') = Len(calls) + 1 /\ calls'[n] = calls[n]
  BY AppendProperties DEF Called
<1>3. n \in 1..Len(calls')
  BY <1>2, LenProperties
<1> QED
  BY <1>1, <1>2, <1>3 DEF Handled

\* catch(const std::exception&) writes the status and the body.
LEMMA ErrorParts ==
    ASSUME NEW r \in Response
    PROVE  /\ [r EXCEPT !.status = 500, !.body = "what"].status = 500
           /\ [r EXCEPT !.status = 500, !.body = "what"].body = "what"
           /\ [r EXCEPT !.status = 500, !.body = "what"].allowOrigin = r.allowOrigin
BY DEF Response

\* A route that is not found writes the status and closes the connection.
LEMMA NotFoundParts ==
    ASSUME NEW r \in Response
    PROVE  /\ [r EXCEPT !.status = 404, !.close = TRUE].status = 404
           /\ [r EXCEPT !.status = 404, !.close = TRUE].close
           /\ [r EXCEPT !.status = 404, !.close = TRUE].body = r.body
           /\ [r EXCEPT !.status = 404, !.close = TRUE].allowOrigin = r.allowOrigin
BY DEF Response

\* A handler writes no CORS header and no text of an exception.
LEMMA FilledParts ==
    ASSUME NEW r \in Response, NEW f \in Filled(r)
    PROVE  /\ f = r \/ f.body = "handler"
           /\ f.allowOrigin = r.allowOrigin
<1>1. CASE f = r
  BY <1>1
<1>2. CASE f # r
  <2>1. PICK code \in Code, close \in BOOLEAN : f = FillIn(r, code, close)
    BY <1>2 DEF Filled
  <2>2. code \in Nat
    BY RequestPipelineAssumption
  <2>3. FillIn(r, code, close).body = "handler" /\ FillIn(r, code, close).allowOrigin = r.allowOrigin
    BY <2>2 DEF FillIn, Response
  <2> QED
    BY <2>1, <2>3
<1> QED
  BY <1>1, <1>2

\* after writes the CORS header only.
LEMMA CorsAfterParts ==
    ASSUME NEW r \in Response, NEW origins
    PROVE  CorsAfter(origins, r).status = r.status /\ CorsAfter(origins, r).body = r.body
<1>1. ASSUME NEW o PROVE addCorsHeaders(r, o).status = r.status /\ addCorsHeaders(r, o).body = r.body
  BY DEF addCorsHeaders, Response
<1> QED
  BY <1>1 DEF CorsAfter

\* The response of a preflight request has a status, closes the connection,
\* and has no body.
LEMMA PreflightParts ==
    ASSUME NEW origins, NEW o \in Origin
    PROVE  /\ handlePreflightRequest(origins, o).status \in {204, 403}
           /\ handlePreflightRequest(origins, o).close
           /\ handlePreflightRequest(origins, o).body = None
<1>1. PICK r \in Response : r = HttpResponse(TRUE)
  BY NewResponseType
<1>2. r.close = TRUE /\ r.body = None
  BY <1>1 DEF HttpResponse
<1>3. PICK granting \in Nat, refusing \in Nat : granting = 204 /\ refusing = 403
  OBVIOUS
<1>4. CASE isOriginAllowed(origins, o)
  <2> DEFINE e == [addCorsHeaders(r, o) EXCEPT !.status = granting]
  <2>1. addCorsHeaders(r, o) \in Response
    BY DEF addCorsHeaders, Response
  <2>2. addCorsHeaders(r, o).close = r.close /\ addCorsHeaders(r, o).body = r.body
    BY DEF addCorsHeaders, Response
  <2>3. PICK c \in Response : c = addCorsHeaders(r, o)
    BY <2>1
  <2>4. /\ [c EXCEPT !.status = granting].status = granting
        /\ [c EXCEPT !.status = granting].close = c.close
        /\ [c EXCEPT !.status = granting].body = c.body
    BY DEF Response
  <2>5. handlePreflightRequest(origins, o) = e
    BY <1>1, <1>3, <1>4 DEF handlePreflightRequest
  <2>6. e.status = granting /\ e.close = c.close /\ e.body = c.body
    BY <2>3, <2>4
  <2>7. e.close = TRUE /\ e.body = None
    BY <1>2, <2>2, <2>3, <2>6
  <2> HIDE DEF e
  <2> QED
    BY <1>3, <2>5, <2>6, <2>7
<1>5. CASE ~isOriginAllowed(origins, o)
  <2>1. /\ [r EXCEPT !.status = refusing].status = refusing
        /\ [r EXCEPT !.status = refusing].close = r.close
        /\ [r EXCEPT !.status = refusing].body = r.body
    BY DEF Response
  <2>2. handlePreflightRequest(origins, o) = [r EXCEPT !.status = refusing]
    BY <1>1, <1>3, <1>5 DEF handlePreflightRequest
  <2> QED
    BY <1>2, <1>3, <2>1, <2>2
<1> QED
  BY <1>4, <1>5

\* Every step keeps what is known of the status.
LEMMA StatusStep == Types /\ PhaseOK /\ NestedInv /\ StatusInv /\ [Next]_vars => StatusInv'
<1> SUFFICES ASSUME Types, PhaseOK, NestedInv, StatusInv, [Next]_vars PROVE StatusInv'
  OBVIOUS
<1> USE DEF StatusInv, EveryEndHasAStatus
<1>a. /\ resp \in Response /\ calls \in Seq(CallRecord) /\ chain \in Seq(Middleware)
      /\ Len(chain) \in Nat
  BY LenProperties DEF Types, NestedInv
<1>1. CASE BeforeReturns
  BY <1>1 DEF BeforeReturns, InBefore
<1>2. CASE BeforeThrows
  BY <1>2, <1>a, ErrorParts DEF BeforeThrows, InBefore, InternalServerError
<1>3. CASE Preflight
  <2>1. req.origin \in Origin
    BY <1>3 DEF Preflight, InBefore, PhaseOK, Request
  <2>2. resp'.status # 0 /\ resp'.body = None /\ pc' = "done"
    BY <1>3, <2>1, PreflightParts DEF Preflight
  <2> QED
    BY <2>2 DEF None
<1>4. CASE NotFound
  <2>1. resp'.status = 404 /\ resp'.body = resp.body /\ pc' = "after" /\ pc = "before"
    BY <1>4, <1>a, NotFoundParts DEF NotFound
  <2> QED
    BY <2>1 DEF None
<1>5. ASSUME NEW response \in Filled(resp), Handle(response) \/ HandlerThrows(response)
      PROVE  StatusInv'
  <2>1. FoundHandler \in Handler
    BY <1>5, RouteType DEF Handle, HandlerThrows, FoundHandler, Types
  <2>2. PICK h \in Handler : h = FoundHandler
    BY <2>1
  <2>3. Handled'
    BY <1>5, <1>a, <2>2, HandlerCallIsRecorded DEF Handle, HandlerThrows
  <2>4. response \in Response /\ response.allowOrigin = None /\ response.body # "what"
    BY <1>5, <1>a, FilledType, FilledParts DEF Handle, HandlerThrows, None
  <2>5. CASE Handle(response)
    BY <2>3, <2>4, <2>5 DEF Handle
  <2>6. CASE HandlerThrows(response)
    BY <2>3, <2>4, <2>6, ErrorParts DEF HandlerThrows, InternalServerError, Handled
  <2> QED
    BY <1>5, <2>5, <2>6
<1>6. CASE AfterReturns
  <2>1. resp'.status = resp.status /\ resp'.body = resp.body
    BY <1>6, <1>a, CorsAfterParts DEF AfterReturns
  <2>2. i \in Int /\ <<"after", i>> \in CallRecord
    BY <1>a DEF CallRecord, Types
  <2>3. Handled => Handled'
    BY <1>6, <1>a, <2>2, HandledStays DEF AfterReturns, AfterIndex
  <2> QED
    BY <1>6, <2>1, <2>3 DEF AfterReturns
<1>7. CASE AfterThrows \/ AfterEnds
  BY <1>7 DEF AfterThrows, AfterEnds, Handled
<1>8. CASE Respond
  BY <1>8 DEF Respond
<1>9. ASSUME NEW r \in Request, BeginRequest(r) PROVE StatusInv'
  BY <1>9 DEF BeginRequest, HttpResponse
<1>10. CASE Setup
  BY <1>10, ZenonT(30) DEF Setup, Register, addMiddleware, Start, SetupFrame
<1>11. CASE UNCHANGED vars
  BY <1>11 DEF vars, Handled
<1> QED
  BY <1>1, <1>2, <1>3, <1>4, <1>5, <1>6, <1>7, <1>8, <1>9, <1>10, <1>11 DEF Next, handleRequest

\* No response leaves without a status unless a handler was called, and an
\* exception's text has no CORS header with it.
THEOREM EveryEndHasAStatusCorrect == Spec => []EveryEndHasAStatus
<1>1. Init => StatusInv
  BY DEF Init, StatusInv, EveryEndHasAStatus
<1>2. Types /\ PhaseOK /\ NestedInv /\ StatusInv /\ [Next]_vars => StatusInv'
  BY StatusStep
<1>3. StatusInv => EveryEndHasAStatus
  BY DEF StatusInv
<1> QED
  BY <1>1, <1>2, <1>3, TypesCorrect, NestedCorrect, PTL DEF Spec

---------------------------------------------------------------------------
(* Preflight requests.                                                     *)

\* While the befores are called no handler was.
LEMMA BeforeNoHandler ==
    ASSUME Types, PhaseOK, NestedInv, pc = "before"
    PROVE  ~Handled
<1>1. chain \in Seq(Middleware) /\ Len(chain) \in Nat /\ i \in 1..Len(chain) + 1
  BY LenProperties DEF Types, PhaseOK
<1>2. <<>> \in HandlerCalls
  BY DEF HandlerCalls
<1>3. Follows(<<>>) /\ Len(calls) = i - 1
  BY <1>2 DEF NestedInv
<1>4. ASSUME NEW n \in 1..Len(calls) PROVE calls[n][1] # "handler"
  <2>1. n \in 1..Len(chain)
    BY <1>1, <1>3
  <2>2. calls[n] = <<"before", n>>
    BY <1>1, <1>2, <1>3, <2>1, FullSequenceAt DEF Follows
  <2> QED
    BY <2>2
<1> QED
  BY <1>4 DEF Handled

\* The request is an OPTIONS request and there is a CorsMiddleware.
Intercepted == req.method = "kOptions" /\ \E k \in 1..Len(chain) : chain[k] # Plain

\* It gets past plain middlewares only, and never to the handler.
OptionsInv ==
    Intercepted =>
        /\ pc # "after"
        /\ pc = "before" => \A k \in 1..i - 1 : chain[k] = Plain
        /\ pc = "done" => ~Handled /\ (resp.body = None => resp.close)

\* Every step keeps an intercepted request out.
LEMMA OptionsStep == Types /\ PhaseOK /\ NestedInv /\ OptionsInv /\ [Next]_vars => OptionsInv'
<1> SUFFICES ASSUME Types, PhaseOK, NestedInv, [Next]_vars, OptionsInv, Intercepted'
             PROVE  OptionsInv'
  BY DEF OptionsInv
<1> USE DEF OptionsInv
<1>a. resp \in Response /\ chain \in Seq(Middleware) /\ Len(chain) \in Nat
  BY LenProperties DEF Types
<1>b. RequestFrame => Intercepted
  BY DEF RequestFrame, server, Intercepted
<1>1. CASE BeforeReturns
  <2>1. Intercepted /\ UNCHANGED chain
    BY <1>1, <1>b DEF BeforeReturns, RequestFrame, server
  <2>2. i \in 1..Len(chain) /\ pc = "before" /\ pc' = "before" /\ i' = i + 1
    BY <1>1, <1>a DEF BeforeReturns, InBefore, PhaseOK
  <2>3. chain[i].kind # "cors"
    BY <1>1, <2>1 DEF BeforeReturns, IsPreflight, Intercepted
  <2>4. chain[i] = Plain
    BY <1>a, <2>2, <2>3, ChainAt
  <2>5. \A k \in 1..i' - 1 : chain[k] = Plain
    BY <1>a, <2>1, <2>2, <2>4
  <2> QED
    BY <2>1, <2>2, <2>5
<1>2. CASE BeforeThrows
  <2>1. resp'.body # None /\ pc' = "done" /\ ~Handled /\ UNCHANGED calls
    BY <1>2, <1>a, ErrorParts, BeforeNoHandler DEF BeforeThrows, InBefore, InternalServerError, None
  <2> QED
    BY <2>1 DEF Handled
<1>3. CASE Preflight
  <2>1. req.origin \in Origin
    BY <1>3 DEF Preflight, InBefore, PhaseOK, Request
  <2>2. resp'.close /\ pc' = "done" /\ ~Handled /\ UNCHANGED calls
    BY <1>3, <2>1, PreflightParts, BeforeNoHandler DEF Preflight, InBefore
  <2> QED
    BY <2>2 DEF Handled
<1>4. CASE NotFound \/ \E response \in Filled(resp) : Handle(response) \/ HandlerThrows(response)
  <2>1. Intercepted /\ pc = "before" /\ i > Len(chain)
    BY <1>4, <1>b DEF NotFound, Handle, HandlerThrows
  <2>2. \A k \in 1..Len(chain) : k \in 1..i - 1
    BY <1>a, <2>1 DEF Types
  <2> QED
    BY <2>1, <2>2 DEF Intercepted
<1>5. CASE AfterReturns \/ AfterThrows \/ AfterEnds
  BY <1>5, <1>b DEF AfterReturns, AfterThrows, AfterEnds
<1>6. CASE Respond
  BY <1>6 DEF Respond
<1>7. ASSUME NEW r \in Request, BeginRequest(r) PROVE OptionsInv'
  BY <1>7 DEF BeginRequest
<1>8. CASE Setup
  BY <1>8, ZenonT(30) DEF Setup, Register, addMiddleware, Start, SetupFrame
<1>9. CASE UNCHANGED vars
  BY <1>9 DEF vars, Intercepted, Handled
<1> QED
  BY <1>1, <1>2, <1>3, <1>4, <1>5, <1>6, <1>7, <1>8, <1>9 DEF Next, handleRequest

\* Behind a CorsMiddleware no handler sees an OPTIONS request, and its
\* connection is closed (CorsMiddleware.cpp, before).
THEOREM PreflightStaysOutCorrect == Spec => []PreflightStaysOut
<1>1. Init => OptionsInv
  BY DEF Init, OptionsInv
<1>2. Types /\ PhaseOK /\ NestedInv /\ OptionsInv /\ [Next]_vars => OptionsInv'
  BY OptionsStep
<1>3. OptionsInv => PreflightStaysOut
  BY DEF OptionsInv, PreflightStaysOut, Intercepted, Handled
<1> QED
  BY <1>1, <1>2, <1>3, TypesCorrect, NestedCorrect, PTL DEF Spec

---------------------------------------------------------------------------
(* Routing.                                                                *)

\* A registration, of a fixed path or of a pattern.
Registration ==
    [table : {"handlers", "callbacks"}, method : Method, target : Path, handler : Handler]
    \cup [table : {"regexHandlers", "regexCallbacks"}, method : Method, target : Pattern,
          handler : Handler]

\* The key of a registration, and its route.
KeyOf(r)   == <<r.method, r.target>>
RouteOf(r) == Dynamic(r.method, r.target, r.handler)

\* A map holds the last registration of every key that was registered in it.
MapInv(regs, map, table) ==
    /\ \A n \in 1..Len(regs) : regs[n].table = table => KeyOf(regs[n]) \in DOMAIN map
    /\ \A key \in DOMAIN map : \E m \in 1..Len(regs) :
          /\ regs[m].table = table /\ KeyOf(regs[m]) = key /\ map[key] = regs[m].handler
          /\ \A n \in 1..Len(regs) : regs[n].table = table /\ KeyOf(regs[n]) = key => n <= m

\* A vector holds the registrations that were made in it, in their order.
VectorInv(regs, routes, table) ==
    \E f \in [1..Len(routes) -> 1..Len(regs)] :
        /\ \A k \in 1..Len(routes) : regs[f[k]].table = table /\ routes[k] = RouteOf(regs[f[k]])
        /\ \A j, k \in 1..Len(routes) : j < k => f[j] < f[k]
        /\ \A n \in 1..Len(regs) : regs[n].table = table => \E k \in 1..Len(routes) : f[k] = n

TablesInv ==
    /\ registered \in Seq(Registration)
    /\ MapInv(registered, tables.handlers, "handlers")
    /\ MapInv(registered, tables.callbacks, "callbacks")
    /\ VectorInv(registered, tables.regexHandlers, "regexHandlers")
    /\ VectorInv(registered, tables.regexCallbacks, "regexCallbacks")

\* The handler that was called is the one that the router finds, and the
\* response of a route that is not found is known by its status.
FoundInv ==
    /\ \A n \in 1..Len(calls) :
          calls[n][1] = "handler" => calls[n][2] = FoundHandler /\ FoundHandler # NoHandler
    /\ pc = "before" => resp.status = 0
    /\ pc \in {"after", "done"} /\ resp.status = 404 /\ resp.body = None => FoundHandler = NoHandler

\* One registration more.
LEMMA OneMore ==
    ASSUME NEW regs \in Seq(Registration), NEW r \in Registration
    PROVE  /\ Append(regs, r) \in Seq(Registration)
           /\ Len(regs) \in Nat /\ Len(Append(regs, r)) = Len(regs) + 1
           /\ \A n \in 1..Len(regs) : Append(regs, r)[n] = regs[n]
           /\ Append(regs, r)[Len(regs) + 1] = r
BY AppendProperties, LenProperties

\* A registration in another table changes nothing of a map.
LEMMA MapKeeps ==
    ASSUME NEW regs \in Seq(Registration), NEW r \in Registration, NEW map, NEW table,
           MapInv(regs, map, table), r.table # table
    PROVE  MapInv(Append(regs, r), map, table)
<1> DEFINE new == Append(regs, r)
           N == Len(regs)
<1>1. /\ N \in Nat /\ Len(new) = N + 1
      /\ \A n \in 1..N : new[n] = regs[n]
      /\ new[N + 1] = r
  BY OneMore
<1> HIDE DEF new, N
<1>2. \A n \in 1..Len(new) : new[n].table = table => n \in 1..N /\ new[n] = regs[n]
  BY <1>1
<1>3. 1..N \subseteq 1..Len(new)
  BY <1>1
<1>4. \A n \in 1..Len(new) : new[n].table = table => KeyOf(new[n]) \in DOMAIN map
  BY <1>2 DEF MapInv, N
<1>5. ASSUME NEW key \in DOMAIN map
      PROVE  \E m \in 1..Len(new) :
                /\ new[m].table = table /\ KeyOf(new[m]) = key /\ map[key] = new[m].handler
                /\ \A n \in 1..Len(new) : new[n].table = table /\ KeyOf(new[n]) = key => n <= m
  <2>1. PICK m \in 1..N :
           /\ regs[m].table = table /\ KeyOf(regs[m]) = key /\ map[key] = regs[m].handler
           /\ \A n \in 1..N : regs[n].table = table /\ KeyOf(regs[n]) = key => n <= m
    BY DEF MapInv, N
  <2>2. m \in 1..Len(new) /\ new[m] = regs[m]
    BY <1>1, <1>3
  <2>3. \A n \in 1..Len(new) : new[n].table = table /\ KeyOf(new[n]) = key => n <= m
    BY <1>2, <2>1
  <2> QED
    BY <2>1, <2>2, <2>3
<1> QED
  BY <1>4, <1>5 DEF MapInv, new

\* A registration in a map replaces the one that had its key.
LEMMA MapAdds ==
    ASSUME NEW regs \in Seq(Registration), NEW r \in Registration, NEW map, NEW table,
           MapInv(regs, map, table), r.table = table
    PROVE  MapInv(Append(regs, r), Put(map, KeyOf(r), r.handler), table)
<1> DEFINE new == Append(regs, r)
           N == Len(regs)
           newMap == Put(map, KeyOf(r), r.handler)
<1>1. /\ N \in Nat /\ Len(new) = N + 1
      /\ \A n \in 1..N : new[n] = regs[n]
      /\ new[N + 1] = r
  BY OneMore
<1>2. /\ DOMAIN newMap = DOMAIN map \cup {KeyOf(r)}
      /\ newMap[KeyOf(r)] = r.handler
      /\ \A k \in DOMAIN map : k # KeyOf(r) => newMap[k] = map[k]
  BY DEF Put
<1> HIDE DEF new, N, newMap
<1>3. \A n \in 1..Len(new) : \/ n = N + 1 /\ new[n] = r
                             \/ n \in 1..N /\ new[n] = regs[n]
  BY <1>1
<1>4. \A n \in 1..Len(new) : new[n].table = table => KeyOf(new[n]) \in DOMAIN newMap
  BY <1>2, <1>3 DEF MapInv, N
<1>5. ASSUME NEW key \in DOMAIN newMap
      PROVE  \E m \in 1..Len(new) :
                /\ new[m].table = table /\ KeyOf(new[m]) = key /\ newMap[key] = new[m].handler
                /\ \A n \in 1..Len(new) : new[n].table = table /\ KeyOf(new[n]) = key => n <= m
  <2>1. CASE key = KeyOf(r)
    <3>1. N + 1 \in 1..Len(new) /\ \A n \in 1..Len(new) : n <= N + 1
      BY <1>1
    <3> QED
      BY <1>1, <1>2, <2>1, <3>1
  <2>2. CASE key # KeyOf(r)
    <3>1. key \in DOMAIN map /\ newMap[key] = map[key]
      BY <1>2, <2>2
    <3>2. PICK m \in 1..N :
             /\ regs[m].table = table /\ KeyOf(regs[m]) = key /\ map[key] = regs[m].handler
             /\ \A n \in 1..N : regs[n].table = table /\ KeyOf(regs[n]) = key => n <= m
      BY <3>1 DEF MapInv, N
    <3>3. m \in 1..Len(new) /\ new[m] = regs[m]
      BY <1>1
    <3>4. \A n \in 1..Len(new) : new[n].table = table /\ KeyOf(new[n]) = key => n <= m
      BY <1>3, <2>2, <3>2
    <3> QED
      BY <3>1, <3>2, <3>3, <3>4
  <2> QED
    BY <2>1, <2>2
<1> QED
  BY <1>4, <1>5 DEF MapInv, new, newMap

\* A registration in another table changes nothing of a vector.
LEMMA VectorKeeps ==
    ASSUME NEW regs \in Seq(Registration), NEW r \in Registration,
           NEW routes \in Seq(Route), NEW table,
           VectorInv(regs, routes, table), r.table # table
    PROVE  VectorInv(Append(regs, r), routes, table)
<1> DEFINE new == Append(regs, r)
           N == Len(regs)
           L == Len(routes)
<1>1. /\ N \in Nat /\ Len(new) = N + 1
      /\ \A n \in 1..N : new[n] = regs[n]
      /\ new[N + 1] = r
  BY OneMore
<1>2. PICK f \in [1..L -> 1..N] :
        /\ \A k \in 1..L : regs[f[k]].table = table /\ routes[k] = RouteOf(regs[f[k]])
        /\ \A j, k \in 1..L : j < k => f[j] < f[k]
        /\ \A n \in 1..N : regs[n].table = table => \E k \in 1..L : f[k] = n
  BY DEF VectorInv
<1> HIDE DEF new, N, L
<1>3. f \in [1..L -> 1..Len(new)]
  BY <1>1
<1>4. \A k \in 1..L : new[f[k]].table = table /\ routes[k] = RouteOf(new[f[k]])
  BY <1>1, <1>2
<1>5. \A n \in 1..Len(new) : new[n].table = table => n \in 1..N /\ regs[n].table = table
  BY <1>1
<1>6. \A n \in 1..Len(new) : new[n].table = table => \E k \in 1..L : f[k] = n
  BY <1>2, <1>5
<1> QED
  BY <1>2, <1>3, <1>4, <1>6 DEF VectorInv, new, L

\* A registration in a vector comes after those that are in it.
LEMMA VectorAdds ==
    ASSUME NEW regs \in Seq(Registration), NEW r \in Registration,
           NEW routes \in Seq(Route), NEW table, RouteOf(r) \in Route,
           VectorInv(regs, routes, table), r.table = table
    PROVE  VectorInv(Append(regs, r), Append(routes, RouteOf(r)), table)
<1> DEFINE new == Append(regs, r)
           more == Append(routes, RouteOf(r))
           N == Len(regs)
           L == Len(routes)
<1>1. /\ N \in Nat /\ Len(new) = N + 1
      /\ \A n \in 1..N : new[n] = regs[n]
      /\ new[N + 1] = r
  BY OneMore
<1>2. /\ L \in Nat /\ Len(more) = L + 1
      /\ \A k \in 1..L : more[k] = routes[k]
      /\ more[L + 1] = RouteOf(r)
  BY AppendProperties, LenProperties
<1>3. PICK f \in [1..L -> 1..N] :
        /\ \A k \in 1..L : regs[f[k]].table = table /\ routes[k] = RouteOf(regs[f[k]])
        /\ \A j, k \in 1..L : j < k => f[j] < f[k]
        /\ \A n \in 1..N : regs[n].table = table => \E k \in 1..L : f[k] = n
  BY DEF VectorInv
<1> HIDE DEF new, more, N, L
<1> DEFINE g == [k \in 1..L + 1 |-> IF k <= L THEN f[k] ELSE N + 1]
<1>4. /\ g \in [1..L + 1 -> 1..N + 1]
      /\ \A k \in 1..L : k \in 1..L + 1 /\ g[k] = f[k] /\ f[k] \in 1..N
      /\ L + 1 \in 1..L + 1 /\ g[L + 1] = N + 1
  BY <1>1, <1>2
<1>5. \A k \in 1..L + 1 : k \in 1..L \/ k = L + 1
  BY <1>2
<1> HIDE DEF g
<1>6. ASSUME NEW k \in 1..L + 1 PROVE new[g[k]].table = table /\ more[k] = RouteOf(new[g[k]])
  <2>1. CASE k \in 1..L
    <3>1. g[k] = f[k] /\ new[f[k]] = regs[f[k]] /\ more[k] = routes[k]
      BY <1>1, <1>2, <1>4, <2>1
    <3> QED
      BY <1>3, <2>1, <3>1
  <2>2. CASE k = L + 1
    <3>1. new[g[k]] = r /\ more[k] = RouteOf(r)
      BY <1>1, <1>2, <1>4, <2>2
    <3> QED
      BY <3>1
  <2> QED
    BY <1>5, <2>1, <2>2
<1>7. ASSUME NEW j \in 1..L + 1, NEW k \in 1..L + 1, j < k PROVE g[j] < g[k]
  <2>1. j \in 1..L
    BY <1>2, <1>7
  <2>2. CASE k \in 1..L
    BY <1>3, <1>4, <1>7, <2>1, <2>2
  <2>3. CASE k = L + 1
    BY <1>1, <1>4, <2>1, <2>3
  <2> QED
    BY <1>5, <2>2, <2>3
<1>8. ASSUME NEW n \in 1..N + 1, new[n].table = table PROVE \E k \in 1..L + 1 : g[k] = n
  <2>1. CASE n \in 1..N
    <3>1. PICK k \in 1..L : f[k] = n
      BY <1>1, <1>3, <1>8, <2>1
    <3> QED
      BY <1>4, <3>1
  <2>2. CASE n = N + 1
    BY <1>4, <2>2
  <2> QED
    BY <1>1, <2>1, <2>2
<1>9. Len(new) = N + 1 /\ Len(more) = L + 1
  BY <1>1, <1>2
<1>10. 1..Len(new) = 1..N + 1 /\ 1..Len(more) = 1..L + 1
  BY <1>9
<1>11. VectorInv(new, more, table)
  <2>1. g \in [1..Len(more) -> 1..Len(new)]
    BY <1>4, <1>10
  <2>2. \A k \in 1..Len(more) : new[g[k]].table = table /\ more[k] = RouteOf(new[g[k]])
    BY <1>6, <1>10
  <2>3. \A j, k \in 1..Len(more) : j < k => g[j] < g[k]
    BY <1>7, <1>10
  <2>4. \A n \in 1..Len(new) : new[n].table = table => \E k \in 1..Len(more) : g[k] = n
    BY <1>8, <1>10
  <2> QED
    BY <2>1, <2>2, <2>3, <2>4 DEF VectorInv
<1> QED
  BY <1>11 DEF new, more

\* What each of the four registrations does to the tables.
LEMMA RegistrationParts ==
    ASSUME NEW t \in Tables, NEW method, NEW target, NEW handler
    PROVE  /\ /\ registerHandler(t, method, target, handler).handlers
                     = Put(t.handlers, <<method, target>>, handler)
              /\ registerHandler(t, method, target, handler).callbacks = t.callbacks
              /\ registerHandler(t, method, target, handler).regexHandlers = t.regexHandlers
              /\ registerHandler(t, method, target, handler).regexCallbacks = t.regexCallbacks
           /\ /\ registerCallback(t, method, target, handler).callbacks
                     = Put(t.callbacks, <<method, target>>, handler)
              /\ registerCallback(t, method, target, handler).handlers = t.handlers
              /\ registerCallback(t, method, target, handler).regexHandlers = t.regexHandlers
              /\ registerCallback(t, method, target, handler).regexCallbacks = t.regexCallbacks
           /\ /\ addRegexHandler(t, method, target, handler).regexHandlers
                     = Append(t.regexHandlers, Dynamic(method, target, handler))
              /\ addRegexHandler(t, method, target, handler).handlers = t.handlers
              /\ addRegexHandler(t, method, target, handler).callbacks = t.callbacks
              /\ addRegexHandler(t, method, target, handler).regexCallbacks = t.regexCallbacks
           /\ /\ addRegexCallback(t, method, target, handler).regexCallbacks
                     = Append(t.regexCallbacks, Dynamic(method, target, handler))
              /\ addRegexCallback(t, method, target, handler).handlers = t.handlers
              /\ addRegexCallback(t, method, target, handler).callbacks = t.callbacks
              /\ addRegexCallback(t, method, target, handler).regexHandlers = t.regexHandlers
BY DEF registerHandler, registerCallback, addRegexHandler, addRegexCallback, Tables

\* Registration keeps the tables in step with what was registered.
LEMMA RegisterTables ==
    ASSUME Types, TablesInv, NEW r \in Registration,
           Register(r.table, r.method, r.target, r.handler)
    PROVE  TablesInv'
<1>1. PICK t \in Tables : t = tables
  BY DEF Types
<1>2. PICK regs \in Seq(Registration) : regs = registered
  BY DEF TablesInv
<1>3. registered' = Append(regs, r)
  <2>1. r = [table |-> r.table, method |-> r.method, target |-> r.target, handler |-> r.handler]
    BY DEF Registration
  <2> QED
    BY <1>2, <2>1 DEF Register
<1>4. registered' \in Seq(Registration)
  BY <1>3, OneMore
<1>5. t.regexHandlers \in Seq(Route) /\ t.regexCallbacks \in Seq(Route)
  BY DEF Tables
<1>6. /\ MapInv(regs, t.handlers, "handlers") /\ MapInv(regs, t.callbacks, "callbacks")
      /\ VectorInv(regs, t.regexHandlers, "regexHandlers")
      /\ VectorInv(regs, t.regexCallbacks, "regexCallbacks")
  BY <1>1, <1>2 DEF TablesInv
<1>7. /\ r.table # "handlers" => MapInv(registered', t.handlers, "handlers")
      /\ r.table # "callbacks" => MapInv(registered', t.callbacks, "callbacks")
      /\ r.table # "regexHandlers" => VectorInv(registered', t.regexHandlers, "regexHandlers")
      /\ r.table # "regexCallbacks" => VectorInv(registered', t.regexCallbacks, "regexCallbacks")
  BY <1>3, <1>5, <1>6, MapKeeps, VectorKeeps
<1>8. CASE r.table = "handlers"
  <2>1. tables' = registerHandler(t, r.method, r.target, r.handler)
    BY <1>1, <1>8 DEF Register
  <2>2. MapInv(registered', Put(t.handlers, KeyOf(r), r.handler), "handlers")
    BY <1>3, <1>6, <1>8, MapAdds
  <2> QED
    BY <1>4, <1>7, <1>8, <2>1, <2>2, RegistrationParts DEF TablesInv, KeyOf
<1>9. CASE r.table = "callbacks"
  <2>1. tables' = registerCallback(t, r.method, r.target, r.handler)
    BY <1>1, <1>9 DEF Register
  <2>2. MapInv(registered', Put(t.callbacks, KeyOf(r), r.handler), "callbacks")
    BY <1>3, <1>6, <1>9, MapAdds
  <2> QED
    BY <1>4, <1>7, <1>9, <2>1, <2>2, RegistrationParts DEF TablesInv, KeyOf
<1>10. ASSUME r.table \in {"regexHandlers", "regexCallbacks"} PROVE RouteOf(r) \in Route
  BY <1>10 DEF RouteOf, Dynamic, Route, Registration
<1>11. CASE r.table = "regexHandlers"
  <2>1. tables' = addRegexHandler(t, r.method, r.target, r.handler)
    BY <1>1, <1>11 DEF Register
  <2>2. VectorInv(registered', Append(t.regexHandlers, RouteOf(r)), "regexHandlers")
    BY <1>3, <1>5, <1>6, <1>10, <1>11, VectorAdds
  <2>3. /\ tables'.regexHandlers = Append(t.regexHandlers, RouteOf(r))
        /\ tables'.handlers = t.handlers /\ tables'.callbacks = t.callbacks
        /\ tables'.regexCallbacks = t.regexCallbacks
    BY <2>1 DEF addRegexHandler, addRegexCallback, RouteOf, Tables
  <2> QED
    BY <1>4, <1>7, <1>11, <2>2, <2>3 DEF TablesInv
<1>12. CASE r.table = "regexCallbacks"
  <2>1. tables' = addRegexCallback(t, r.method, r.target, r.handler)
    BY <1>1, <1>12 DEF Register
  <2>2. VectorInv(registered', Append(t.regexCallbacks, RouteOf(r)), "regexCallbacks")
    BY <1>3, <1>5, <1>6, <1>10, <1>12, VectorAdds
  <2>3. /\ tables'.regexCallbacks = Append(t.regexCallbacks, RouteOf(r))
        /\ tables'.handlers = t.handlers /\ tables'.callbacks = t.callbacks
        /\ tables'.regexHandlers = t.regexHandlers
    BY <2>1 DEF addRegexHandler, addRegexCallback, RouteOf, Tables
  <2> QED
    BY <1>4, <1>7, <1>12, <2>2, <2>3 DEF TablesInv
<1> QED
  BY <1>8, <1>9, <1>11, <1>12 DEF Registration

\* The tables and what was registered agree at every moment.
LEMMA TablesCorrect == Spec => []TablesInv
<1>1. Init => TablesInv
  <2> SUFFICES ASSUME Init PROVE TablesInv
    OBVIOUS
  <2>1. registered = <<>> /\ registered \in Seq(Registration) /\ Len(registered) = 0
    BY EmptySeq DEF Init
  <2>2. /\ tables.handlers = <<>> /\ tables.callbacks = <<>>
        /\ tables.regexHandlers = <<>> /\ tables.regexCallbacks = <<>>
    BY DEF Init, EmptyTables
  <2>3. DOMAIN <<>> = {} /\ Len(<<>>) = 0
    OBVIOUS
  <2>4. \A table : MapInv(registered, <<>>, table)
    BY <2>1, <2>3 DEF MapInv
  <2>5. \A table : VectorInv(registered, <<>>, table)
    <3> TAKE table
    <3>1. <<>> \in [1..0 -> 1..0]
      OBVIOUS
    <3> QED
      BY <2>1, <2>3, <3>1 DEF VectorInv
  <2> QED
    BY <2>1, <2>2, <2>4, <2>5 DEF TablesInv
<1>2. Types /\ TablesInv /\ [Next]_vars => TablesInv'
  <2> SUFFICES ASSUME Types, TablesInv, [Next]_vars PROVE TablesInv'
    OBVIOUS
  <2>1. ASSUME NEW method \in {"kGet", "kPost"} \cap Method, NEW handler \in Handler,
               NEW path \in Path, NEW table \in {"handlers", "callbacks"},
               Register(table, method, path, handler)
        PROVE  TablesInv'
    <3> DEFINE r == [table |-> table, method |-> method, target |-> path, handler |-> handler]
    <3>1. r \in Registration
      BY DEF Registration
    <3>2. Register(r.table, r.method, r.target, r.handler)
      BY <2>1
    <3> HIDE DEF r
    <3> QED
      BY <3>1, <3>2, RegisterTables
  <2>2. ASSUME NEW method \in Method, NEW handler \in Handler,
               NEW pattern \in Pattern, NEW table \in {"regexHandlers", "regexCallbacks"},
               Register(table, method, pattern, handler)
        PROVE  TablesInv'
    <3> DEFINE r == [table |-> table, method |-> method, target |-> pattern, handler |-> handler]
    <3>1. r \in Registration
      BY DEF Registration
    <3>2. Register(r.table, r.method, r.target, r.handler)
      BY <2>2
    <3> HIDE DEF r
    <3> QED
      BY <3>1, <3>2, RegisterTables
  <2>3. CASE UNCHANGED <<tables, registered>>
    BY <2>3 DEF TablesInv
  <2>4. (\E r \in Request : BeginRequest(r)) \/ handleRequest => UNCHANGED <<tables, registered>>
    BY DEF BeginRequest, handleRequest, BeforeReturns, BeforeThrows, Preflight, NotFound, Handle,
           HandlerThrows, AfterReturns, AfterThrows, AfterEnds, Respond, RequestFrame, server
  <2>5. (\E m \in Middleware : addMiddleware(m)) \/ Start => UNCHANGED <<tables, registered>>
    BY DEF addMiddleware, Start, server
  <2>6. UNCHANGED vars => UNCHANGED <<tables, registered>>
    BY DEF vars
  <2> QED
    BY <2>1, <2>2, <2>3, <2>4, <2>5, <2>6 DEF Next, Setup
<1> QED
  BY <1>1, <1>2, TypesCorrect, PTL DEF Spec

\* The candidates of a table: by key in a map, by match in a vector.
LEMMA CandidateOf ==
    ASSUME NEW n \in 1..Len(registered)
    PROVE  /\ registered[n].table \in {"handlers", "callbacks"} =>
                (n \in Candidates <=> KeyOf(registered[n]) = <<req.method, req.path>>)
           /\ registered[n].table \in {"regexHandlers", "regexCallbacks"} =>
                (n \in Candidates <=> Matches(RouteOf(registered[n]), req.method, req.path))
<1> DEFINE r == registered[n]
<1>1. n \in Candidates <=> Serves(r)
  BY DEF Candidates
<1>2. RouteOf(r).method = r.method /\ RouteOf(r).pattern = r.target
  BY DEF RouteOf, Dynamic
<1>3. r.table \in {"handlers", "callbacks"} => (Serves(r) <=> KeyOf(r) = <<req.method, req.path>>)
  BY DEF Serves, Fixed, KeyOf
<1>4. r.table \in {"regexHandlers", "regexCallbacks"} =>
        (Serves(r) <=> Matches(RouteOf(r), req.method, req.path))
  BY <1>2 DEF Serves, Fixed, Matches
<1> QED
  BY <1>1, <1>3, <1>4

\* A map that has the key of the request gives the handler of the last
\* candidate in it; one that has it not, has no candidate.
LEMMA FoundInMap ==
    ASSUME NEW map, NEW table \in {"handlers", "callbacks"}, MapInv(registered, map, table)
    PROVE  /\ <<req.method, req.path>> \in DOMAIN map =>
                \E m \in Candidates :
                   /\ registered[m].table = table
                   /\ registered[m].handler = map[<<req.method, req.path>>]
                   /\ \A n \in Candidates : registered[n].table = table => n <= m
           /\ <<req.method, req.path>> \notin DOMAIN map =>
                \A n \in Candidates : registered[n].table # table
<1> DEFINE key == <<req.method, req.path>>
<1>1. \A n \in 1..Len(registered) :
        registered[n].table = table => (n \in Candidates <=> KeyOf(registered[n]) = key)
  BY CandidateOf
<1>2. Candidates \subseteq 1..Len(registered)
  BY DEF Candidates
<1> HIDE DEF key
<1>3. ASSUME key \in DOMAIN map
      PROVE  \E m \in Candidates :
                /\ registered[m].table = table
                /\ registered[m].handler = map[key]
                /\ \A n \in Candidates : registered[n].table = table => n <= m
  <2>1. PICK m \in 1..Len(registered) :
           /\ registered[m].table = table /\ KeyOf(registered[m]) = key
           /\ map[key] = registered[m].handler
           /\ \A n \in 1..Len(registered) :
                 registered[n].table = table /\ KeyOf(registered[n]) = key => n <= m
    BY <1>3 DEF MapInv
  <2> QED
    BY <1>1, <1>2, <2>1
<1>4. ASSUME key \notin DOMAIN map, NEW n \in Candidates PROVE registered[n].table # table
  BY <1>1, <1>2, <1>4 DEF MapInv
<1> QED
  BY <1>3, <1>4 DEF key

\* A vector gives the handler of the first candidate in it, or has none.
LEMMA FoundInVector ==
    ASSUME registered \in Seq(Registration), NEW routes \in Seq(Route),
           NEW table \in {"regexHandlers", "regexCallbacks"}, VectorInv(registered, routes, table)
    PROVE  \/ /\ FirstMatch(routes, req.method, req.path) = NoHandler
              /\ \A n \in Candidates : registered[n].table # table
           \/ \E m \in Candidates :
                   /\ registered[m].table = table
                   /\ registered[m].handler = FirstMatch(routes, req.method, req.path)
                   /\ \A n \in Candidates : registered[n].table = table => m <= n
<1> DEFINE N == Len(registered)
           L == Len(routes)
           first == FirstMatch(routes, req.method, req.path)
           Here(k) == Matches(routes[k], req.method, req.path)
<1>0. N \in Nat /\ L \in Nat
  BY LenProperties
<1>1. PICK f \in [1..L -> 1..N] :
        /\ \A k \in 1..L : registered[f[k]].table = table /\ routes[k] = RouteOf(registered[f[k]])
        /\ \A j, k \in 1..L : j < k => f[j] < f[k]
        /\ \A n \in 1..N : registered[n].table = table => \E k \in 1..L : f[k] = n
  BY DEF VectorInv
<1>2. \A n \in 1..N : registered[n].table = table =>
        (n \in Candidates <=> Matches(RouteOf(registered[n]), req.method, req.path))
  BY CandidateOf
<1>3. Candidates \subseteq 1..N
  BY DEF Candidates
<1>4. \A k \in 1..L : f[k] \in 1..N /\ (f[k] \in Candidates <=> Here(k))
  BY <1>1, <1>2
<1>5. \A n \in Candidates : registered[n].table = table => \E k \in 1..L : f[k] = n /\ Here(k)
  BY <1>1, <1>3, <1>4
<1>6. \/ /\ \A k \in 1..L : ~Here(k)
         /\ first = NoHandler
      \/ \E k \in 1..L : /\ Here(k)
                         /\ \A j \in 1..k - 1 : ~Here(j)
                         /\ first = routes[k].handler
  BY FirstMatchIsFirst, SMTT(30)
<1> HIDE DEF N, L, first, Here
<1>7. CASE (\A k \in 1..L : ~Here(k)) /\ first = NoHandler
  BY <1>5, <1>7 DEF first
<1>8. ASSUME NEW k \in 1..L, Here(k), \A j \in 1..k - 1 : ~Here(j), first = routes[k].handler
      PROVE  \E m \in Candidates :
                   /\ registered[m].table = table
                   /\ registered[m].handler = first
                   /\ \A n \in Candidates : registered[n].table = table => m <= n
  <2>1. f[k] \in Candidates /\ registered[f[k]].table = table /\ f[k] \in 1..N
    BY <1>1, <1>4, <1>8
  <2>2. registered[f[k]].handler = first
    <3>1. \A r : RouteOf(r).handler = r.handler
      BY DEF RouteOf, Dynamic
    <3>2. routes[k] = RouteOf(registered[f[k]])
      BY <1>1
    <3>3. routes[k].handler = registered[f[k]].handler
      BY <3>1, <3>2
    <3> QED
      BY <1>8, <3>3
  <2>3. ASSUME NEW n \in Candidates, registered[n].table = table PROVE f[k] <= n
    <3>1. PICK j \in 1..L : f[j] = n /\ Here(j)
      BY <1>5, <2>3
    <3>2. j \notin 1..k - 1
      BY <1>8, <3>1
    <3>3. j = k \/ k < j
      BY <1>0, <3>2
    <3>4. f[j] \in 1..N
      BY <1>4
    <3> QED
      BY <1>0, <1>1, <2>1, <3>1, <3>3, <3>4
  <2> QED
    BY <2>1, <2>2, <2>3
<1> QED
  BY <1>6, <1>7, <1>8 DEF first

\* Before, unfolded for a registration in each table.
LEMMA BestIn ==
    ASSUME registered \in Seq(Registration), NEW m \in Candidates,
           \/ /\ registered[m].table = "handlers"
              /\ \A n \in Candidates : registered[n].table = "handlers" => n <= m
           \/ /\ registered[m].table = "callbacks"
              /\ \A n \in Candidates : registered[n].table # "handlers"
              /\ \A n \in Candidates : registered[n].table = "callbacks" => n <= m
           \/ /\ registered[m].table = "regexHandlers"
              /\ \A n \in Candidates : registered[n].table \notin {"handlers", "callbacks"}
              /\ \A n \in Candidates : registered[n].table = "regexHandlers" => m <= n
           \/ /\ registered[m].table = "regexCallbacks"
              /\ \A n \in Candidates :
                    registered[n].table \notin {"handlers", "callbacks", "regexHandlers"}
              /\ \A n \in Candidates : registered[n].table = "regexCallbacks" => m <= n
    PROVE  Best(m)
<1> SUFFICES ASSUME NEW n \in Candidates PROVE Before(m, n)
  BY DEF Best
<1>1. /\ Precedence["handlers"] = 1 /\ Precedence["callbacks"] = 2
      /\ Precedence["regexHandlers"] = 3 /\ Precedence["regexCallbacks"] = 4
  BY DEF Precedence
<1>2. registered[n].table \in {"handlers", "callbacks", "regexHandlers", "regexCallbacks"}
  <2>1. n \in 1..Len(registered)
    BY DEF Candidates
  <2>2. registered[n] \in Registration
    BY <2>1, ElementOfSeq
  <2> QED
    BY <2>2 DEF Registration
<1>3. m \in Int /\ n \in Int
  BY LenProperties DEF Candidates
<1>4. CASE registered[m].table = registered[n].table
  BY <1>2, <1>3, <1>4 DEF Before, Fixed
<1>5. CASE registered[m].table # registered[n].table
  <2>1. Precedence[registered[m].table] < Precedence[registered[n].table]
    BY <1>1, <1>2, <1>5
  <2> QED
    BY <1>5, <2>1 DEF Before
<1> QED
  BY <1>4, <1>5

\* route finds the handler of the best registration, and finds none only if
\* no registration serves the request.
LEMMA RouteIsBest ==
    ASSUME Types, TablesInv
    PROVE  \/ FoundHandler = NoHandler /\ Candidates = {}
           \/ /\ FoundHandler # NoHandler
              /\ \E m \in Candidates : Best(m) /\ registered[m].handler = FoundHandler
<1> DEFINE key == <<req.method, req.path>>
           dynamic == FirstMatch(tables.regexHandlers, req.method, req.path)
           last == FirstMatch(tables.regexCallbacks, req.method, req.path)
<1>1. /\ registered \in Seq(Registration)
      /\ tables.regexHandlers \in Seq(Route) /\ tables.regexCallbacks \in Seq(Route)
  BY DEF Types, Tables, TablesInv
<1>2. FoundHandler =
        IF key \in DOMAIN tables.handlers THEN tables.handlers[key]
        ELSE IF key \in DOMAIN tables.callbacks THEN tables.callbacks[key]
        ELSE IF dynamic # NoHandler THEN dynamic ELSE last
  BY DEF FoundHandler, route
<1>3. /\ key \in DOMAIN tables.handlers =>
           \E m \in Candidates :
              /\ registered[m].table = "handlers" /\ registered[m].handler = tables.handlers[key]
              /\ \A n \in Candidates : registered[n].table = "handlers" => n <= m
      /\ key \notin DOMAIN tables.handlers =>
           \A n \in Candidates : registered[n].table # "handlers"
  BY FoundInMap DEF TablesInv
<1>4. /\ key \in DOMAIN tables.callbacks =>
           \E m \in Candidates :
              /\ registered[m].table = "callbacks" /\ registered[m].handler = tables.callbacks[key]
              /\ \A n \in Candidates : registered[n].table = "callbacks" => n <= m
      /\ key \notin DOMAIN tables.callbacks =>
           \A n \in Candidates : registered[n].table # "callbacks"
  BY FoundInMap DEF TablesInv
<1>5. \/ /\ dynamic = NoHandler
         /\ \A n \in Candidates : registered[n].table # "regexHandlers"
      \/ \E m \in Candidates :
            /\ registered[m].table = "regexHandlers" /\ registered[m].handler = dynamic
            /\ \A n \in Candidates : registered[n].table = "regexHandlers" => m <= n
  BY <1>1, FoundInVector DEF TablesInv
<1>6. \/ /\ last = NoHandler
         /\ \A n \in Candidates : registered[n].table # "regexCallbacks"
      \/ \E m \in Candidates :
            /\ registered[m].table = "regexCallbacks" /\ registered[m].handler = last
            /\ \A n \in Candidates : registered[n].table = "regexCallbacks" => m <= n
  BY <1>1, FoundInVector DEF TablesInv
<1>7. \A n \in Candidates :
        /\ registered[n].table \in {"handlers", "callbacks", "regexHandlers", "regexCallbacks"}
        /\ registered[n].handler # NoHandler
  <2> TAKE n \in Candidates
  <2>1. n \in 1..Len(registered)
    BY DEF Candidates
  <2>2. registered[n] \in Registration
    BY <1>1, <2>1, ElementOfSeq
  <2> QED
    BY <2>2, RouterAssumption DEF Registration
<1> HIDE DEF key, dynamic, last
<1>8. CASE key \in DOMAIN tables.handlers
  <2>1. PICK m \in Candidates :
           /\ registered[m].table = "handlers" /\ registered[m].handler = tables.handlers[key]
           /\ \A n \in Candidates : registered[n].table = "handlers" => n <= m
    BY <1>3, <1>8
  <2>2. Best(m)
    BY <1>1, <2>1, BestIn
  <2>3. FoundHandler = registered[m].handler
    BY <1>2, <1>8, <2>1
  <2> QED
    BY <1>7, <2>2, <2>3
<1>9. CASE key \notin DOMAIN tables.handlers /\ key \in DOMAIN tables.callbacks
  <2>1. PICK m \in Candidates :
           /\ registered[m].table = "callbacks" /\ registered[m].handler = tables.callbacks[key]
           /\ \A n \in Candidates : registered[n].table = "callbacks" => n <= m
    BY <1>4, <1>9
  <2>2. Best(m)
    BY <1>1, <1>3, <1>9, <2>1, BestIn
  <2>3. FoundHandler = registered[m].handler
    BY <1>2, <1>9, <2>1
  <2> QED
    BY <1>7, <2>2, <2>3
<1>10. CASE key \notin DOMAIN tables.handlers /\ key \notin DOMAIN tables.callbacks
  <2>1. \A n \in Candidates : registered[n].table \notin {"handlers", "callbacks"}
    BY <1>3, <1>4, <1>10
  <2>2. CASE dynamic # NoHandler
    <3>1. PICK m \in Candidates :
             /\ registered[m].table = "regexHandlers" /\ registered[m].handler = dynamic
             /\ \A n \in Candidates : registered[n].table = "regexHandlers" => m <= n
      BY <1>5, <2>2
    <3>2. Best(m)
      BY <1>1, <2>1, <3>1, BestIn
    <3>3. FoundHandler = registered[m].handler
      BY <1>2, <1>10, <2>2, <3>1
    <3> QED
      BY <1>7, <3>2, <3>3
  <2>3. CASE dynamic = NoHandler
    <3>1. \A n \in Candidates : registered[n].table # "regexHandlers"
      BY <1>5, <1>7, <2>3
    <3>2. FoundHandler = last
      BY <1>2, <1>10, <2>3
    <3>3. CASE last = NoHandler
      <4>1. \A n \in Candidates : registered[n].table # "regexCallbacks"
        BY <1>6, <1>7, <3>3
      <4>2. Candidates = {}
        BY <1>7, <2>1, <3>1, <4>1
      <4> QED
        BY <3>2, <3>3, <4>2
    <3>4. CASE last # NoHandler
      <4>1. PICK m \in Candidates :
               /\ registered[m].table = "regexCallbacks" /\ registered[m].handler = last
               /\ \A n \in Candidates : registered[n].table = "regexCallbacks" => m <= n
        BY <1>6, <3>4
      <4>2. \A n \in Candidates :
               registered[n].table \notin {"handlers", "callbacks", "regexHandlers"}
        BY <2>1, <3>1
      <4>3. Best(m)
        BY <1>1, <4>1, <4>2, BestIn
      <4> QED
        BY <1>7, <3>2, <4>1, <4>3
    <3> QED
      BY <3>3, <3>4
  <2> QED
    BY <2>2, <2>3
<1> QED
  BY <1>8, <1>9, <1>10

\* A further call that is not one of another handler.
LEMMA FoundAppend ==
    ASSUME calls \in Seq(CallRecord), NEW call \in CallRecord, Called(call),
           UNCHANGED <<tables, req>>, FoundInv,
           call[1] = "handler" => call[2] = FoundHandler /\ FoundHandler # NoHandler
    PROVE  (\A n \in 1..Len(calls) :
               calls[n][1] = "handler" => calls[n][2] = FoundHandler /\ FoundHandler # NoHandler)'
<1>1. /\ Len(calls') = Len(calls) + 1 /\ calls'[Len(calls) + 1] = call
      /\ \A n \in 1..Len(calls) : calls'[n] = calls[n]
  BY AppendProperties DEF Called
<1>2. Len(calls) \in Nat
  BY LenProperties
<1>3. FoundHandler' = FoundHandler
  BY DEF FoundHandler
<1> SUFFICES ASSUME NEW n \in 1..Len(calls'), calls'[n][1] = "handler"
             PROVE  calls'[n][2] = FoundHandler /\ FoundHandler # NoHandler
  BY <1>3
<1>4. CASE n = Len(calls) + 1
  BY <1>1, <1>4
<1>5. CASE n \in 1..Len(calls)
  BY <1>1, <1>5 DEF FoundInv
<1> QED
  BY <1>1, <1>2, <1>4, <1>5

LEMMA FoundStep == Types /\ PhaseOK /\ NestedInv /\ FoundInv /\ [Next]_vars => FoundInv'
<1> SUFFICES ASSUME Types, PhaseOK, NestedInv, FoundInv, [Next]_vars PROVE FoundInv'
  OBVIOUS
<1>a. /\ resp \in Response /\ calls \in Seq(CallRecord) /\ i \in Int
  BY LenProperties DEF Types, NestedInv
<1>b. /\ <<"before", i>> \in CallRecord /\ <<"after", i>> \in CallRecord
      /\ <<"before", i>>[1] # "handler" /\ <<"after", i>>[1] # "handler"
  BY <1>a DEF CallRecord
<1>c. FoundHandler \in Handler \cup {NoHandler}
  BY RouteType DEF FoundHandler, Types
<1>d. RequestFrame => UNCHANGED <<tables, req>> /\ FoundHandler' = FoundHandler
  BY DEF RequestFrame, server, FoundHandler
<1>1. CASE BeforeReturns
  <2>1. UNCHANGED <<tables, req, pc, resp>> /\ Called(<<"before", i>>)
    BY <1>1, <1>d DEF BeforeReturns
  <2>2. (\A n \in 1..Len(calls) :
            calls[n][1] = "handler" => calls[n][2] = FoundHandler /\ FoundHandler # NoHandler)'
    BY <1>a, <1>b, <2>1, FoundAppend
  <2> QED
    BY <1>1, <2>1, <2>2 DEF FoundInv, BeforeReturns, InBefore
<1>2. CASE BeforeThrows
  <2>1. resp'.body = "what" /\ pc' = "done" /\ UNCHANGED <<tables, req, calls>>
    BY <1>2, <1>a, <1>d, ErrorParts DEF BeforeThrows, InternalServerError
  <2> QED
    BY <1>2, <1>d, <2>1 DEF FoundInv, BeforeThrows, None
<1>3. CASE Preflight
  <2>1. req.origin \in Origin
    BY <1>3 DEF Preflight, InBefore, PhaseOK, Request
  <2>2. resp'.status # 404 /\ pc' = "done" /\ UNCHANGED <<tables, req, calls>>
    BY <1>3, <1>d, <2>1, PreflightParts DEF Preflight
  <2> QED
    BY <1>3, <1>d, <2>2 DEF FoundInv, Preflight
<1>4. CASE NotFound
  BY <1>4, <1>d DEF NotFound, FoundInv
<1>5. ASSUME NEW response \in Filled(resp), Handle(response) \/ HandlerThrows(response)
      PROVE  FoundInv'
  <2>1. /\ FoundHandler \in Handler /\ pc = "before" /\ resp.status = 0
        /\ FoundHandler # NoHandler /\ Called(<<"handler", FoundHandler>>) /\ RequestFrame
    BY <1>5, <1>c DEF Handle, HandlerThrows, FoundInv
  <2>2. PICK call \in CallRecord : call = <<"handler", FoundHandler>>
    BY <2>1 DEF CallRecord
  <2>3. call[2] = FoundHandler
    BY <2>2
  <2>4. (\A n \in 1..Len(calls) :
            calls[n][1] = "handler" => calls[n][2] = FoundHandler /\ FoundHandler # NoHandler)'
    BY <1>a, <1>d, <2>1, <2>2, <2>3, FoundAppend
  <2>5. response = resp \/ response.body = "handler"
    BY <1>a, <1>5, FilledParts
  <2>6. response \in Response
    BY <1>a, <1>5, FilledType
  <2>7. CASE Handle(response)
    <3>1. pc' = "after" /\ (resp'.status # 404 \/ resp'.body # None)
      BY <2>1, <2>5, <2>7 DEF Handle, None
    <3> QED
      BY <2>4, <3>1 DEF FoundInv
  <2>8. CASE HandlerThrows(response)
    <3>1. pc' = "done" /\ resp'.body # None
      BY <2>6, <2>8, ErrorParts DEF HandlerThrows, InternalServerError, None
    <3> QED
      BY <2>4, <3>1 DEF FoundInv
  <2> QED
    BY <1>5, <2>7, <2>8
<1>6. CASE AfterReturns
  <2>1. resp'.status = resp.status /\ resp'.body = resp.body /\ pc = "after" /\ pc' = "after"
    BY <1>6, <1>a, CorsAfterParts DEF AfterReturns
  <2>2. UNCHANGED <<tables, req>> /\ Called(<<"after", i>>) /\ FoundHandler' = FoundHandler
    BY <1>6, <1>d DEF AfterReturns, AfterIndex
  <2>3. (\A n \in 1..Len(calls) :
            calls[n][1] = "handler" => calls[n][2] = FoundHandler /\ FoundHandler # NoHandler)'
    BY <1>a, <1>b, <2>2, FoundAppend
  <2> QED
    BY <2>1, <2>2, <2>3 DEF FoundInv
<1>7. CASE AfterThrows
  BY <1>7, <1>d DEF AfterThrows, FoundInv
<1>8. CASE AfterEnds
  BY <1>8, <1>d DEF AfterEnds, FoundInv
<1>9. CASE Respond
  BY <1>9, <1>d DEF Respond, FoundInv
<1>10. ASSUME NEW r \in Request, BeginRequest(r) PROVE FoundInv'
  <2>1. calls' = <<>> /\ pc' = "before" /\ resp'.status = 0 /\ Len(calls') = 0
    BY <1>10 DEF BeginRequest, HttpResponse
  <2> QED
    BY <2>1 DEF FoundInv
<1>11. CASE Setup
  <2>1. pc = "setup" /\ UNCHANGED calls /\ pc' \in {"setup", "idle"}
    BY <1>11, ZenonT(30) DEF Setup, Register, addMiddleware, Start, SetupFrame
  <2>2. Len(calls) = 0
    BY <2>1 DEF NestedInv
  <2> QED
    BY <2>1, <2>2 DEF FoundInv
<1>12. CASE UNCHANGED vars
  BY <1>12 DEF vars, FoundInv, FoundHandler
<1> QED
  BY <1>1, <1>2, <1>3, <1>4, <1>5, <1>6, <1>7, <1>8, <1>9, <1>10, <1>11, <1>12
     DEF Next, handleRequest

LEMMA FoundCorrect == Spec => []FoundInv
<1>1. Init => FoundInv
  BY EmptySeq DEF Init, FoundInv
<1>2. Types /\ PhaseOK /\ NestedInv /\ FoundInv /\ [Next]_vars => FoundInv'
  BY FoundStep
<1> QED
  BY <1>1, <1>2, TypesCorrect, NestedCorrect, PTL DEF Spec

\* Whatever was registered, in whatever order: the handler that is called is
\* that of the registration that comes first by the order of the tables, and
\* 404 is the answer only when no registration serves the request
\* (Router::route).
THEOREM RoutedByPrecedenceCorrect == Spec => []RoutedByPrecedence
<1>1. Types /\ TablesInv /\ FoundInv => RoutedByPrecedence
  <2> SUFFICES ASSUME Types, TablesInv, FoundInv PROVE RoutedByPrecedence
    OBVIOUS
  <2>1. \/ FoundHandler = NoHandler /\ Candidates = {}
        \/ /\ FoundHandler # NoHandler
           /\ \E m \in Candidates : Best(m) /\ registered[m].handler = FoundHandler
    BY RouteIsBest
  <2> QED
    BY <2>1 DEF FoundInv, RoutedByPrecedence
<1> QED
  BY <1>1, TypesCorrect, TablesCorrect, FoundCorrect, PTL
=============================================================================
