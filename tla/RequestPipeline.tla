-------------------------- MODULE RequestPipeline --------------------------
(***************************************************************************)
(* HttpServer::handleRequest, the callback of a server that sets no other: *)
(* a request goes through the before of every middleware, to the handler   *)
(* that the router finds, and back through the after of every middleware   *)
(* in reverse.  Responses and exceptions are thrown across these levels.   *)
(*                                                                         *)
(* Routes and middlewares are added before the server starts; afterwards   *)
(* the chain and the tables are only read, so the requests of different    *)
(* IO threads do not meet here and one request at a time is enough.        *)
(*                                                                         *)
(* CorsMiddleware is the middleware of the repository.  Any other is       *)
(* "plain": its before and its after return or throw a std::exception.     *)
(***************************************************************************)
EXTENDS Router

CONSTANTS
    Origin,      \* values of the Origin header; "" if there is none
    Config,      \* possible values of allowedOrigins
    Code,        \* status codes a handler may set
    MaxRoutes, MaxMiddlewares, MaxRequests   \* bounds

ASSUME RequestPipelineAssumption ==
    /\ "kOptions" \in Method
    /\ Config \subseteq Seq(Origin \cup {"*"})
    /\ Code \subseteq Nat
    /\ MaxRoutes \in Nat /\ MaxMiddlewares \in Nat /\ MaxRequests \in Nat

VARIABLES
    tables,      \* the router
    registered,  \* what was registered, in order (history)
    chain,       \* middlewares_
    granted,     \* origins whose preflight request was granted (history)
    pc, i,       \* where handleRequest is, and at which middleware
    req, resp,   \* the request and *resp
    calls,       \* the calls that returned for this request (history)
    requests     \* number of requests so far

vars == <<tables, registered, chain, granted, pc, i, req, resp, calls, requests>>
server == <<tables, registered, chain>>

Plain == [kind |-> "plain"]
Cors(origins) == [kind |-> "cors", allowedOrigins |-> origins]
Middleware == {Plain} \cup {Cors(origins) : origins \in Config}

\* The status is 0 (kUnknown) until it is set.  what: the body is e.what().
None == "none"
NoRequest == [method |-> None, path |-> None, origin |-> None, close |-> FALSE]
Request  == [method : Method, path : Path, origin : Origin, close : BOOLEAN]
Response == [status : Nat, close : BOOLEAN, allowOrigin : Origin \cup {"*", None},
             body : {"handler", "what", None}]
HttpResponse(close) ==
    [status |-> 0, close |-> close, allowOrigin |-> None, body |-> None]

Init ==
    /\ tables = EmptyTables
    /\ registered = <<>>
    /\ chain = <<>>
    /\ granted = {}
    /\ pc = "setup"
    /\ i = 0
    /\ req = NoRequest
    /\ resp = HttpResponse(TRUE)
    /\ calls = <<>>
    /\ requests = 0

---------------------------------------------------------------------------
(* Before the server starts.                                               *)

SetupFrame == UNCHANGED <<granted, pc, i, req, resp, calls, requests>>

\* Get and Post (fixed paths) and addRoute (patterns, any method), each with a
\* handler object or a callback: one of the four tables.
Register(table, method, target, handler) ==
    /\ pc = "setup"
    /\ Len(registered) < MaxRoutes
    /\ \/ table = "handlers" /\ tables' = registerHandler(tables, method, target, handler)
       \/ table = "callbacks" /\ tables' = registerCallback(tables, method, target, handler)
       \/ table = "regexHandlers" /\ tables' = addRegexHandler(tables, method, target, handler)
       \/ table = "regexCallbacks" /\ tables' = addRegexCallback(tables, method, target, handler)
    /\ registered' = Append(registered, [table |-> table, method |-> method,
                                         target |-> target, handler |-> handler])
    /\ UNCHANGED chain /\ SetupFrame

addMiddleware(middleware) ==
    /\ pc = "setup"
    /\ Len(chain) < MaxMiddlewares
    /\ chain' = Append(chain, middleware)
    /\ UNCHANGED <<tables, registered>> /\ SetupFrame

Start ==
    /\ pc = "setup"
    /\ pc' = "idle"
    /\ UNCHANGED <<server, granted, i, req, resp, calls, requests>>

---------------------------------------------------------------------------
(* CorsMiddleware.                                                         *)

\* Bug: an empty list allows no origin.
OnlyListedOrigins(origins, o) == Contains(origins, "*") \/ Contains(origins, o)

isOriginAllowed(origins, o) ==
    origins = <<>> \/ Contains(origins, "*") \/ Contains(origins, o)

addCorsHeaders(response, o) == [response EXCEPT !.allowOrigin = o]

\* Bug: the status of a granted request is forgotten.
PreflightWithoutStatus(origins, o) ==
    IF isOriginAllowed(origins, o) THEN addCorsHeaders(HttpResponse(TRUE), o)
    ELSE [HttpResponse(TRUE) EXCEPT !.status = 403]

\* handlePreflightRequest fills a response of its own, which closes the
\* connection whatever the client asked for, and before throws it.
handlePreflightRequest(origins, o) ==
    IF isOriginAllowed(origins, o)
    THEN [addCorsHeaders(HttpResponse(TRUE), o) EXCEPT !.status = 204]
    ELSE [HttpResponse(TRUE) EXCEPT !.status = 403]

\* after: "*", or the first of the origins, or nothing.
CorsAfter(origins, response) ==
    IF origins = <<>> THEN response
    ELSE addCorsHeaders(response, IF Contains(origins, "*") THEN "*" ELSE origins[1])

---------------------------------------------------------------------------
(* handleRequest.                                                          *)

\* The request, and a response that closes the connection if it asks for that.
BeginRequest(r) ==
    /\ pc = "idle"
    /\ requests < MaxRequests
    /\ requests' = requests + 1
    /\ req' = r
    /\ resp' = HttpResponse(r.close)
    /\ calls' = <<>>
    /\ i' = 1
    /\ pc' = "before"
    /\ UNCHANGED <<server, granted>>

Called(call) == calls' = Append(calls, call)
RequestFrame == UNCHANGED <<server, req, requests>>

\* catch(const std::exception&): 500, and nothing else of *resp is undone.
InternalServerError(response) ==
    /\ resp' = [response EXCEPT !.status = 500, !.body = "what"]
    /\ pc' = "done"

InBefore == pc = "before" /\ i <= Len(chain)
FoundHandler == route(tables, req.method, req.path)

\* Bug: a request that has a handler is left to it.
IsUnroutedPreflight ==
    chain[i].kind = "cors" /\ req.method = "kOptions" /\ FoundHandler = NoHandler

IsPreflight == chain[i].kind = "cors" /\ req.method = "kOptions"

\* Bug: the loop advances twice.
BeforeSkips ==
    /\ InBefore
    /\ ~IsPreflight
    /\ Called(<<"before", i>>)
    /\ i' = i + 2
    /\ UNCHANGED <<granted, pc, resp>> /\ RequestFrame

BeforeReturns ==
    /\ InBefore
    /\ ~IsPreflight
    /\ Called(<<"before", i>>)
    /\ i' = i + 1
    /\ UNCHANGED <<granted, pc, resp>> /\ RequestFrame

BeforeThrows ==
    /\ InBefore
    /\ chain[i] = Plain
    /\ InternalServerError(resp)
    /\ UNCHANGED <<granted, i, calls>> /\ RequestFrame

\* throw response, which handleRequest catches.
Preflight ==
    /\ InBefore
    /\ IsPreflight
    /\ resp' = handlePreflightRequest(chain[i].allowedOrigins, req.origin)
    /\ granted' = IF resp'.status = 204 THEN granted \cup {req.origin} ELSE granted
    /\ pc' = "done"
    /\ UNCHANGED <<i, calls>> /\ RequestFrame

\* route returns false.
NotFound ==
    /\ pc = "before" /\ i > Len(chain)
    /\ FoundHandler = NoHandler
    /\ resp' = [resp EXCEPT !.status = 404, !.close = TRUE]
    /\ i' = Len(chain)
    /\ pc' = "after"
    /\ UNCHANGED <<granted, calls>> /\ RequestFrame

\* What a handler makes of *resp: it may set the status, the body and close.
FillIn(response, code, close) ==
    [response EXCEPT !.status = code, !.close = close, !.body = "handler"]
Filled(response) ==
    {response} \cup {FillIn(response, code, close) : code \in Code, close \in BOOLEAN}

Handle(response) ==
    /\ pc = "before" /\ i > Len(chain)
    /\ FoundHandler # NoHandler
    /\ resp' = response
    /\ Called(<<"handler", FoundHandler>>)
    /\ i' = Len(chain)
    /\ pc' = "after"
    /\ UNCHANGED granted /\ RequestFrame

HandlerThrows(response) ==
    /\ pc = "before" /\ i > Len(chain)
    /\ FoundHandler # NoHandler
    /\ InternalServerError(response)
    /\ Called(<<"handler", FoundHandler>>)
    /\ UNCHANGED <<granted, i>> /\ RequestFrame

\* Bug: the chain is run forwards again.
AfterForwards == Len(chain) + 1 - i

\* The middleware that processAfter is at, i counting from the last to the first.
AfterIndex == i

AfterReturns ==
    /\ pc = "after" /\ i > 0
    /\ resp' = IF chain[AfterIndex] = Plain THEN resp
               ELSE CorsAfter(chain[AfterIndex].allowedOrigins, resp)
    /\ Called(<<"after", AfterIndex>>)
    /\ i' = i - 1
    /\ UNCHANGED <<granted, pc>> /\ RequestFrame

\* processAfter catches the exception; the middlewares before i are not called.
AfterThrows ==
    /\ pc = "after" /\ i > 0
    /\ chain[AfterIndex] = Plain
    /\ pc' = "done"
    /\ UNCHANGED <<granted, i, resp, calls>> /\ RequestFrame

AfterEnds ==
    /\ pc = "after" /\ i = 0
    /\ pc' = "done"
    /\ UNCHANGED <<granted, i, resp, calls>> /\ RequestFrame

\* handleRequest returns, and onRequest sends *resp.
Respond ==
    /\ pc = "done"
    /\ pc' = "idle"
    /\ UNCHANGED <<granted, i, resp, calls>> /\ RequestFrame

---------------------------------------------------------------------------
Setup ==
    \/ \E method \in {"kGet", "kPost"} \cap Method, handler \in Handler, path \in Path :
          \E table \in {"handlers", "callbacks"} : Register(table, method, path, handler)
    \/ \E method \in Method, handler \in Handler, pattern \in Pattern :
          \E table \in {"regexHandlers", "regexCallbacks"} :
              Register(table, method, pattern, handler)
    \/ \E middleware \in Middleware : addMiddleware(middleware)
    \/ Start

handleRequest ==
    \/ BeforeReturns \/ BeforeThrows \/ Preflight
    \/ NotFound
    \/ \E response \in Filled(resp) : Handle(response) \/ HandlerThrows(response)
    \/ AfterReturns \/ AfterThrows \/ AfterEnds
    \/ Respond

Next == Setup \/ (\E r \in Request : BeginRequest(r)) \/ handleRequest

Spec == Init /\ [][Next]_vars

---------------------------------------------------------------------------
(* Properties.                                                             *)

TypeOK ==
    /\ IsTable(tables.handlers) /\ IsTable(tables.callbacks)
    /\ tables.regexHandlers \in Seq(Route) /\ tables.regexCallbacks \in Seq(Route)
    /\ chain \in Seq(Middleware) /\ Len(chain) <= MaxMiddlewares
    /\ granted \subseteq Origin
    /\ pc \in {"setup", "idle", "before", "after", "done"}
    /\ i \in 0..Len(chain) + 1
    /\ req \in Request \cup {NoRequest}
    /\ resp \in Response
    /\ requests \in 0..MaxRequests

\* Which registration serves a request: an object before a callback, a fixed
\* path before a pattern; of fixed paths the last that was registered, of
\* patterns the first.
Precedence == [handlers |-> 1, callbacks |-> 2, regexHandlers |-> 3, regexCallbacks |-> 4]
Fixed(r) == r.table \in {"handlers", "callbacks"}
Serves(r) ==
    /\ r.method = req.method
    /\ IF Fixed(r) THEN r.target = req.path ELSE req.path \in Match[r.target]
Candidates == {n \in 1..Len(registered) : Serves(registered[n])}
Before(m, n) ==
    LET a == registered[m]
        b == registered[n]
    IN IF a.table = b.table THEN (IF Fixed(a) THEN m >= n ELSE m <= n)
       ELSE Precedence[a.table] < Precedence[b.table]
Best(n) == n \in Candidates /\ \A m \in Candidates : Before(n, m)

\* A request reaches the handler of the registration that comes first by that
\* order, and 404 means that no registration serves it: nothing that was
\* registered is hidden by the search through the four tables.
RoutedByPrecedence ==
    /\ \A n \in 1..Len(calls) :
          calls[n][1] = "handler" =>
              \E m \in Candidates : Best(m) /\ registered[m].handler = calls[n][2]
    /\ pc = "done" /\ resp.status = 404 /\ resp.body = None => Candidates = {}

\* Whatever is thrown, wherever: the calls made for a request are the begin of
\* the full sequence, all befores in order, at most one handler, all afters in
\* reverse order.  No after is called whose before was not.
FullSequence(handler) ==
    [n \in 1..Len(chain) |-> <<"before", n>>]
    \o handler
    \o [n \in 1..Len(chain) |-> <<"after", Len(chain) + 1 - n>>]
CallsAreNested ==
    \E handler \in {<<>>} \cup {<< <<"handler", h>> >> : h \in Handler} :
        IsPrefix(calls, FullSequence(handler))

\* Behind a CorsMiddleware no handler ever sees an OPTIONS request, not even
\* one that is registered for OPTIONS; and the connection of the preflight
\* request is closed although the client asked to keep it.
PreflightStaysOut ==
    pc = "done" /\ req.method = "kOptions" /\ (\E k \in 1..Len(chain) : chain[k] # Plain) =>
        /\ \A n \in 1..Len(calls) : calls[n][1] # "handler"
        /\ resp.body = None => resp.close

\* No response leaves without a status, except that of a handler that returned
\* without setting one; and a response that carries the text of an exception
\* has status 500 and went past no after: it has no CORS header.
EveryEndHasAStatus ==
    pc = "done" =>
        /\ resp.status = 0 => \E n \in 1..Len(calls) : calls[n][1] = "handler"
        /\ resp.body = "what" => resp.status = 500 /\ resp.allowOrigin = None

---------------------------------------------------------------------------
(* What the repository says and the code does not do.                      *)

\* CorsMiddleware.cpp:86-88: an origin in allowedOrigins is let through, and
\* with no allowedOrigins every origin is.  A client whose preflight request
\* was granted must then be able to read the response to its request, unless
\* an exception kept the headers off.
PreflightIsKept ==
    (pc = "done" /\ req.origin \in granted /\ resp.status \in Code
       /\ \A k \in 1..Len(chain) : <<"after", k>> \in {calls[n] : n \in 1..Len(calls)})
    => resp.allowOrigin \in {"*", req.origin}
=============================================================================
