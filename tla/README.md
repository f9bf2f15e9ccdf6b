# AIHTTPServer in TLA+

AIHTTPServer is an HTTP server library in C++ on top of the event loops of the
muduo network library (`mymuduo`), and a Gomoku application built on it.  This
directory holds TLA+ modules translated from its source, TLC configurations
that check them on small instances, and proofs, checked by TLAPS, that hold for
every instance.  Paths below are relative to the repository's root, under `src/`.

How to run: `tlc -config <run>.cfg <module>.tla` for each run in the tables
below, `tlapm <module>_proofs.tla` for the proofs.

## 1. The system

| component | state | operations | interacts with |
|---|---|---|---|
| **HttpRequest / HttpContext** (`HttpServer/src/http`) | per connection: parse state, the request under construction | `parseRequest` (one loop: request line, headers, body), `reset`, `setMethod`, `setQueryParameters`, `addHeader`, `swap` | reads the connection's input buffer; filled by one IO thread |
| **HttpServer** (`http/HttpServer.cpp`) | the map `sslConns_`, the callback, router, middleware chain, session manager | `onConnection`, `onMessage`, `onRequest`, `handleRequest`, registration | called by muduo in the IO thread of a connection; calls the parser, then the callback, then `TcpConnection::send`/`shutdown` |
| **HttpResponse** | status, headers, body, `closeConnection_` | setters, `appendToBuffer` | filled by handlers, written by `onRequest` |
| **Router** | two maps, two vectors of regular expressions | `registerHandler`, `registerCallback`, `addRegex...`, `route` | `handleRequest` calls it; it calls the handlers |
| **MiddlewareChain, CorsMiddleware** | a vector of middlewares; a CORS configuration | `processBefore`, `processAfter`; `before` throws the preflight response | around `route` in `handleRequest` |
| **Session, SessionStorage, SessionManager** | the map id -> session; a session's expiry, lifetime and data | `getSession`, `destorySession`, `cleanExpiredSession`, `updateSession`, `setValue`, `remove`, `clear` | shared by all IO threads, no lock; a session saves itself through its manager |
| **SslContext, SslConnection** | OpenSSL context; per connection a handshake state, two memory BIOs, buffers | `initialize`; `startHandshake`, `onRead`, `send` | between muduo and `HttpServer::onMessage` |
| **DbConnectionPool, DbConnection, MysqlUtil** | queue of connections, mutex, condition variable, a detached checking thread | `init`, `getConnection`, the deleter that returns a connection, `checkConnections`; `executeQuery`, `ping`, `reconnect` | MySQL; used by handlers |
| **AiGame** (`WebApps/GomokuServer`) | board, winner, count of moves, last move, a mutex | `humanMove`, `aiMove`, `checkWin`, `isDraw`, readers | one object per user, reached from every IO thread |
| **GomokuServer** | `aiGames_`, `onlineUsers_`, two mutexes, `maxOnline_` | start-up, `restartChessGameVsAi`, `getBackendData`, `updateMaxOnline` | uses everything above |
| handlers, FileUtil, JsonUtil, example client | - | stubs, one file, an include, a script | - |

What is hard in this code:

- *Cuts.*  TCP delivers requests in pieces; the parser keeps its place between
  calls of `onMessage`, and one call handles at most one request.
- *Errors on the way.*  Three ways to fail (a `false` result, an exception, an
  assertion) leave the context half filled, and the connection still receives
  after `shutdown`: what a client sends next meets that context.
- *Reuse.*  One context and one request object serve all requests of a
  connection; `reset` must forget everything.
- *Threads.*  IO threads share the sessions, the games, the pool and
  `sslConns_`.  Locks are missing, taken for a part of the operation, or the
  wrong ones.
- *Time.*  Sessions expire between two looks at the clock; the AI sleeps
  between its test and its move.
- *Loops.*  The loop of `parseRequest` has a state in which it never ends.

What makes each component correct, or would (the runs of section 3 say what the code
makes of it):

- parser: never reads beyond what has arrived; hands every request over at most
  once, in order, complete and unmixed; always returns; forgets on `reset`.
- HttpServer: one response per request, a 400 only for errors; no request
  takes an IO thread or the process down.
- sessions: a client gets no other client's session; a destroyed session stays
  away; an expired one is renewed; nobody dies of a stale cookie.
- AiGame: the board is exactly the moves made; the winner has a line; a
  finished game is final; the AI stays on the board and answers.
- router and middleware: the right handler is found; befores and afters nest,
  whatever is thrown; OPTIONS stays out of the handlers; every response has a status.
- SSL: what OpenSSL writes reaches the client; what is decrypted is parsed once; the
  configured version is the one in use; `sslConns_` has exactly the open connections.
- pool: a caller gets a connection, waits for one, or is told that there is none; the
  checking thread does not keep callers out.
- GomokuServer: one game per user; the maximum never shrinks below who is online;
  who logs out is offline.

## 2. Modules

    HttpRequest <- HttpContext <- HttpServer <- MCHttpServer
                                     |  \
                        RequestStream |   HttpServer_proofs
                        (abstract; INSTANCE with a refinement mapping)
    SessionManager <- MCSessionManager, SessionManager_proofs
    Gomoku <- AiGame <- MCAiGame;  Gomoku_proofs <- AiGame_proofs (extends AiGame)
    Router <- RequestPipeline <- MCRequestPipeline;
                                 Router_proofs <- RequestPipeline_proofs (extends RequestPipeline)
    SslContext, SslConnection <- SslServer <- MCSslServer, SslServer_proofs
    DbConnectionPool <- GomokuServer <- MCGomokuServer, GomokuServer_proofs

`A <- B`: B extends A.  No module declares a RECURSIVE operator, so that theorems
can be stated about each of them.  Definitions after a comment that begins with
"Bug" are variants of the definition that follows them; no
specification uses them.  They say what each property would catch.

### HttpRequest, HttpContext (pure)

A connection's bytes are a sequence of *tokens*: a line with its CRLF, or one
byte of a body.  That keeps every decision of the parser (it looks for CRLF, ':',
two spaces, a version, a known method, a length) and drops spelling.  A line that
is preceded in the buffer by left-over body bytes is *glued* to them, as
`findCRLF` would see it: a header name changes, a method is unknown, a blank
line is none.  Body bytes are assumed to contain no CRLF, ':' or space of their own.

- `AfterRequestLine` is `processRequestLine` with all it stores, also when it
  rejects the line.  `setMethod`'s result is ignored (an empty `if` at
  `HttpContext.cpp:157`), so an unknown method is accepted as `kInvalid`.
- `MethodAssertFails` is `assert(method_ == kInvalid)` of `setMethod`.  The
  repository's `build/` has no `NDEBUG`: the assertion aborts.
- `SetContentLength` converts the `int` of `std::stoi` to `uint64_t`:
  modulo `UintModulus`, so that -1 is the greatest length.
- A '?' is looked for in the whole rest of the line: one behind the second space
  (`QueryBehindVersion`) gives a query that ends before it begins, and throws.
- `KeyThrows`, `KeySlice`, `ValueSlice`, `Start` are the offset arithmetic of
  `setQueryParameters` for each pair: `substr` is applied to a copy of the pair
  with offsets of the whole string, which throws when a pair starts beyond its
  own length and shifts its key otherwise.
- `SwapWithNew` is `reset`'s `swap` with a fresh request: `content_` and
  `contentLength_` are not in it.

### HttpServer

One connection's IO thread as a program counter; callbacks of one connection run
one at a time, those of different connections interleave.

| action | code |
|---|---|
| `OnConnected`, `ClientClose` | `onConnection` without SSL |
| `ClientSend`, `Deliver` | the client and TCP: any number of tokens arrives, then `onMessage` runs; `n = 0` is a part of a line |
| `AwaitMore` ... `ReadBody`, `Spin` | one iteration of `parseRequest`, one action per branch and outcome |
| `AfterParse` | `HttpServer.cpp:123-128`: the 400 and the shutdown after every parse (the `;`), then `gotAll` |
| `OnRequest` | `onRequest` with any response, then `reset` |
| `ThrowInCallback`, `CatchException` | lines 130-142 |
| `AbortInSetMethod` | the assertion; the process ends (`alive`) |

muduo's part is external: `send` writes while connected, `shutdown`
closes the sending half only, and bytes are delivered until the client closes.
`sent` and `handled` are history variables.

### RequestStream

The abstract promise of the parsing half: messages written on a connection are
delivered each at most once, in order and unchanged.  `HttpServer!RequestsInOrder`
maps `written` to the requests the client meant and `delivered` to what the
callback saw.  A body is compared where one was declared; what is seen without one
is the subject of `StaleContent`.

### SessionManager

A session is an object, not its id: the map holds at most one session of each id,
and a handler may hold a session that is no longer in it.  Ids are numbered in the
order in which the generator yields them, and `rng` is its position.

| action | code |
|---|---|
| `BeginRequest` | a request with any id in its cookie, also one of an earlier run of the server |
| `BeginDraw`, `CreateSession` | `generateSessionId` in two steps, the position of `rng_` read and written back, and the new `Session` |
| `Load`, `DereferenceNull`, `CheckExpired`, `RemoveExpiredSession`, `Save` | the rest of `getSession` with the storage's functions |
| `BeginChange`, `SetValue`, `RemoveValue`, `Clear` | what a handler does to the values of its session; `setValue` saves it again |
| `BeginDestroy`, `Destroy`, `BeginClean`, `Clean`, `EndRequest` | `destorySession`, `cleanExpiredSession`, the end of the handler |
| `Tick` | the clock, at any point, in particular between the test in `load` and the one in `getSession` |
| `DataRace` | two threads in one map, one writing |

There is no lock anywhere.  For the two kinds of map, `sessions_` and the `data_` of
one session, `pc` says which function a thread is in, and two threads in one map, one of them writing,
are a `Race`: the nodes of the map may be torn, and the behaviour ends.  Two threads in the
generator end nothing, since a position is a number: each reads it and writes it
back advanced, so that two draws can yield one id and a slow one can take the generator back to
ids it has given before.  Anything else that a torn generator
might yield is an id like any other.  `overlapped` remembers that it has happened.

`CreateSession` takes any lifetime from a set: `maxAge_(maxAge_)` reads an
uninitialised member.  `CheckExpired` has the second look at the clock and the
refresh in one step; between them another thread could only refresh the same session.

### Gomoku, AiGame

`Gomoku` has the pure functions, with `HasLine`, the rule of the game, as
a reference for `checkWin`, which only looks through the last stone.
`AiGame` has one action per step that other threads can see, which is nearly every
statement, since only the second half of `humanMove` and the tests by `isDraw`
hold the mutex and what `aiMove` does runs beside them:

| action | code |
|---|---|
| `HumanMoveTest`, `AiMoveTest` | the tests at the beginning (`isDraw`, their last part, takes the mutex; `aiMove` then sleeps) |
| `LookAt`, `TryAi`, `CheckAi`, `DropAi`, `TryHuman`, `CheckHuman`, `Block`, `DropHuman` | step 1 of `getBestMove`: the look at a cell, each write of a trial stone and each call of `checkWin` a step |
| `RateCell`, `CollectCell`, `TakeNear`, `LookForEmpty`, `TakeEmpty`, `TakeBest` | steps 2 to 4, one cell per step; `TakeBest` is the last exit, line 231, with the cell of step 2 or, if there is none, outside of the board |
| `ReadCount`, `WriteCount` | the two halves of `moveCount_++`; those of `humanMove` wait for the mutex and keep it |
| `PutStone`, `SetLastMove`, `CheckWinner`, `SetGameOver`, `Return` | the rest of either function, one member per step; `humanMove` holds the mutex until `Return`, `aiMove` never has it |

A function that returns a move without touching anything shared in between
(`Choose`) does so in the step before.  What remains atomic is a call of `checkWin`,
`evaluateThreat` or `isNearOccupied`, each of which reads a few cells, and the access to one
cell: its `std::string` is read and written without a lock, which is a data race in C++; torn strings are
not modelled.  The handlers are not in the repository, so every thread may call either
function at any time.  A client may ask for places just off the board.

### Router, RequestPipeline

`Router` has the four tables and the search as operators: `route` yields the
handler that is called.  `RequestPipeline` is `handleRequest` with the chain around it:
first routes and middlewares are added in any way (`Register`, `addMiddleware`),
then requests are served one at a time, since the tables and the chain are only
read from then on.  HttpServer leaves open what its callback does; this is
what the callback does when a server sets none of its own.

| action | code |
|---|---|
| `BeginRequest`, `Respond` | `onRequest` around the callback |
| `BeforeReturns`, `BeforeThrows`, `Preflight` | one turn of `processBefore`; `Preflight` is the response that `CorsMiddleware::before` throws and `handleRequest` catches |
| `NotFound`, `Handle`, `HandlerThrows` | `router_.route`, with any handler |
| `AfterReturns`, `AfterThrows`, `AfterEnds` | one turn of `processAfter` and its own `catch` |

Exceptions unwind as in C++: from a before or a handler to the 500 of
`handleRequest`, which leaves what the handler has put into `*resp`; from an
after only to the end of `processAfter`.  A plain middleware does nothing but
return or throw; a handler may leave the response as it is, or fill it, and then throw.
`registered`, `granted` and `calls` are history variables: `RoutedByPrecedence`
compares the search with the list of what was registered.

### SslContext, SslConnection, SslServer

`SslContext` is a pure module: which configurations `initialize` accepts, and
which versions stay enabled (`Enabled`: `setupProtocol` sets `SSL_OP_NO_` *and the
configured version*).  `SslConnection` is one connection's TLS end as a record
with the functions `HandleHandshake` and `OnRead` on it; OpenSSL is external,
a small engine that reads `readBio_`, writes `writeBio_` and wants the client's
hello and then its second flight.  Bytes are pieces of those messages, so that a
hello can be cut and junk can be in it.

`SslServer` composes both with `HttpServer`'s set-up and `onConnection`:

| action | code |
|---|---|
| `EnableSSL`, `SetSslConfig`, `Start` | the set-up, in any order and as often as one likes; `setSslConfig` without `useSSL_` does nothing (and is no step), and aborts if `initialize` fails |
| `ConnectionUp` | `onConnection` up to the constructor of `SslConnection`, which dereferences the context: a null one ends the process |
| `InsertEntry`, `StartHandshake` | lines 72 and 73; the thread is in `sslConns_` from before the first until after the second |
| `ConnectionDown`, `EraseEntry` | the other branch; erasing destroys the `SslConnection` |
| `ClientSend`, `Deliver` | a client of any set of versions; muduo reads any number of pieces and calls `onRead`, which the constructor has put in the place of `HttpServer::onMessage` |
| `DataRace` | two threads in `sslConns_`, one writing: the behaviour ends (as in SessionManager) |

`onRead` is the connection's callback, so lines 91-120 of `onMessage` run only
if `onRead` calls them, for decrypted data, which there never is (`Silent`).
Each connection is used once and belongs to one IO thread.

### DbConnectionPool, GomokuServer

`DbConnectionPool` has the mutex, the queue's length and `initialized_`, which
`init` sets to false (`Initialized`) without creating a connection (`Opened`).
The code that lends, pings, reconnects and takes back connections is not
reached, and is left out.

`GomokuServer` extends it with the handlers that are members of the class, one
action per access to what all IO threads share.  `ChangeOnline` is a guess: no code of the
repository changes `onlineUsers_` or calls `updateMaxOnline`.

| action | code |
|---|---|
| `Receive` | a request for one of the paths whose handlers touch this state (`Routes` is `initializeRouter`; `/user/logout` leads to `LoginHandler`) |
| `ChangeOnline` | external: what LoginHandler and LogoutHandler, whose source is not in the repository, do through the members that exist for them |
| `GetCurOnline`, `LoadMax`, `StoreMax` | `updateMaxOnline(getCurOnline())`: the count under the mutex, `load` and assignment of the atomic as two steps |
| `CheckSession`, `LockGames`, `EraseGame`, `InsertGame` | `restartChessGameVsAi`, in the scope of `mutexForOnlineUsers_` |
| `GetCurOnline`, `GetMaxOnline`, `GetConnection`, `AnswerBackend` | `getBackendData`, with `getUserCount` in the pool |
| `CheckerStep` | the checking thread, which sleeps with the mutex and takes it again at once |

The file does not compile as it stands: `k2000k` (line 130), a missing `;`
(153), `setConntentType` (181) and a mutex locked in a const function (230) are
read as what they must mean.  It also switches SSL on (line 5) without ever
setting a configuration, so by `UnconfiguredServesNobody` its process is gone with
its first connection: GomokuServer says what the handlers do *if* they are called, as
they are once line 5 says `false`.  What `getSession` can do to the process is
SessionManager's subject.

## 3. Runs

| run | shows | bounds |
|---|---|---|
| `HttpServer_wellformed` | `RequestsInOrder`, `StaleContent`, `ProcessAlive` for clients that write well-formed requests, however they are cut and pipelined; the callback may throw, which costs an IO thread (`Spin`), but only on a request it was given (`SpinsOnlyOnHandled`) | 1 connection, 3 requests out of 6 kinds |
| `HttpServer_malformed` | with 12 kinds of requests, most of them wrong: `TypeOK` (also: the reader index never passes the writer index), `BodyIsBytes`, `NoSpin`, `CallbackReturns`; the assertion of `setMethod` fails in this run, and `DiesOfRejectedLine` says after what only | 1 connection, 3 requests |
| `HttpServer_badrequest` | *violated*: a well-formed request is answered with 400 | 1 request |
| `SessionManager_threads` | `TypeOK`, `NoForeignSession`, `DestroyedStaysAway`, with draws that overlap and clocks that move | 2 threads, 2 sessions, 2 ids, 1 value, clock to 1, lifetimes -1, 0, 3600 |
| `AiGame_sequential` | `TypeOK`, `BoardIsTheMoves`, `HumanWinIsALine`, `AiMeetsThreats`, `GameOverIsFinal` with one call at a time | 3 x 3 board, lines of 3, 9 calls |
| `AiGame_threads` | `StonesWerePlayed`, `CallsReturn` with two threads that take each other's cells, lose each other's increments and leave the board | 2 x 2 board, lines of 3, 3 calls |
| `AiGame_phantom` | *violated*: a human wins with a stone the AI is trying | 3 x 3, 2 threads |
| `RequestPipeline_routing` | `TypeOK`, `RoutedByPrecedence`, `CallsAreNested`, `PreflightStaysOut`, `EveryEndHasAStatus` | all servers of 2 routes (2 handlers, 2 paths, 2 patterns) and 2 middlewares, all requests to them |
| `RequestPipeline_cors` | *violated*: a granted origin cannot read the response | 1 route, 1 middleware, 2 requests |
| `SslServer_connections` | `TypeOK`, `Silent`, `EntriesAreTheConnections`, `UnconfiguredServesNobody`, `RefusalIsSeen` | 2 connections on 1 or 2 of 2 threads, 2 versions, 7 kinds of configuration, 3 pieces per client |
| `SslServer_handshake` | *violated*: a client and a server that could agree wait for each other for ever | 1 connection, 1 thread, 4 pieces |
| `GomokuServer_threads` | `TypeOK`, `MaxCoversOnline`, `RestartsExclude`, `WaitsOnlyForAMutex` | 2 users, 2 threads and the checking thread |

Why the bounds are enough.  Connections share nothing in the modelled part but
the life of the process, and each connection's properties speak of it alone, so
one connection is enough for TLC (the theorems are for any number).  Three requests cover a request after a
request after an error; each kind brings one decision of the parser.
Bodies have 0, 1 or 2 bytes: cut before, inside and after.  `UintModulus = 64` is
above any stream's length here, as 2^64 is in reality, so a negative length waits
for ever in both.  Two sessions are one to lose and one to be renewed to, or two that
get one id; lifetimes cover expired at birth, within the run, and never.  A 3 x 3 board with lines of
three has wins in every direction, at edges and through the middle, and draws;
the code's 15 and 5 are only ever used as these two parameters (`checkWin` looks
`WinLength - 1` cells far).  On a 2 x 2 board lines of three do not exist, so
every game can fill the board: three calls are two threads in every pair of places of
the two functions, with or without a move before or after; they are enough
for two threads to take one cell, to lose an increment, and to hide the empty cells from
each other until one of them writes `board_[-1][-1]`.  Two routes are a pair in every order of tables, with equal,
overlapping and separate targets; precedence is decided between pairs.  Two
middlewares have an order and a middle between their befores and afters.

Three pieces are a hello in two parts and one piece too many or too early, or junk at
any place; no client can say more, since its second flight needs the server's first.
Two connections are one to be inserted while the other is looked up or erased.  Two users
and two threads are two logins that overtake each other between `load` and
`store`, two restarts that meet, and a backend page beside them.

Deadlock checking is off, but for `GomokuServer_threads`, because the systems may
stop: a client need not write, a process may have died, and calls are bounded.

Fairness.  `HttpServer!FairSpec`: weak fairness of a connection's thread inside
`onMessage`, and of nothing else: the code does not block there, so an operating
system that schedules the thread completes it.  Clients and network owe nothing.
`AiGame!FairSpec`: weak fairness of a thread inside a call, for the same reason (the mutex
is held for one action only, and the sleep ends).  `SslServer!FairSpec`: weak fairness of an
IO thread inside `onConnection` or with bytes to read, as long as the process
lives.  `GomokuServer!FairSpec`: weak fairness of the checking thread and of each
handler.  `std::mutex` promises no order, so this is all there is, and it is not
enough for a request to be answered: the checking thread frees the pool's mutex and takes it again at
once, for ever, and TLC shows the request in front of it starve in a loop
of these two steps.  `WaitsOnlyForAMutex` is therefore what is claimed: a
request waits for nothing but a mutex, and each mutex is free again and again.

What the repository says and the code does not do is in the findings of
`PROJECT.json`, each with the line of the comment that says otherwise.  Four are
violations that TLC finds, in the runs marked so above.  The others hold
whatever anybody does, so that there would be nothing to search for; each
is met in the run the finding names:

- `HttpContext.cpp:33`: a request line that was rejected after its method is parsed again and
  breaks the assertion of `HttpRequest.cpp:28`;
- `HttpRequest.cpp:79`: the request line given as an example in the source throws;
- `SessionManager.cpp:45`: an expired session is not renewed, as line 32 says, but dereferenced as null;
- `SessionManager.cpp:94`: ids are drawn without a lock and are not unique;
- `AiGame.cpp:96`: the AI's own line does not end the game, while its stone that blocks a
  line of the human's does;
- `AiGame.cpp:231`: the last exit of `getBestMove` can write outside of the board;
- `DbConnectionPool.cpp:21`: `init` leaves a pool that is not initialised and has no connection;
- `GomokuServer.cpp:56`: `/user/logout` logs in;
- `SslContext.cpp:106`: the configured version is the one that is disabled.

More follow from lines that need no run: `reset` leaves the old body in the request
(`HttpRequest.cpp:140`; here `SwapWithNew`, and `StaleContent` says what can come of it); the 404 of
`handleRequest` sets no version, so its status line begins with a space
(`HttpResponse.cpp:38`); `Session.cpp:14` initialises `maxAge_` with itself, so
that no session has the hour of `Session.h:29` (here: any lifetime); step 3 of
`getBestMove` collects the cells that are taken, where its comment speaks of free ones
(`AiGame.cpp:201`); and step 4 overrides the best defence of step 2 wherever a cell is empty.

## 4. Theorems

Every invariant and every action property of the passing runs of section 3 is a
theorem, for every value of the constants that the modules' `ASSUME`s allow (TLC
evaluates those in the runs), and so is the refinement of RequestStream.  Where a theorem needs more than that, the
hypothesis is named here; each is satisfied by the constants of a run.

In `HttpServer_proofs`, for any connections, requests, codes and header values:

- `TypeCorrect`: `Spec => []TypeOK`.  The inductive invariant is `TypeOK` itself,
  which includes `rd <= wr <= Len(stream)`: consuming a line stays below `wr` because
  `EndsLine` finds it in the readable part, and consuming a body because of the
  test of `readableBytes`.  One lemma per kind of step says what it does to the context.
  `ReplyInv`, which others need, adds where the thread may be: once it is at `dispatch` the
  connection can no longer send.
- `DiesOfRejectedLineCorrect`, for any requests and callbacks: by `RejectedInv`: while a request line is
  expected, a method that is set came from the line that is still first in the buffer, and
  that line is one `processRequestLine` rejects.  Whether it does is a matter of the
  line alone, also if it is glued to what precedes it, and nothing but a consumed line moves it.
- `SpinsOnlyOnHandledCorrect` and `NoSpinCorrect`: by `SpinInv`: a complete
  request in the context of a thread that is not on its way to dispatch has been
  given to the callback.  `NoSpin` is for `CallbackThrows = FALSE`: then there is no such state.
- `StaleContentCorrect`, for any requests, well-formed or not, and callbacks that
  throw: by `StaleInv`, which follows the content through the context: it is the one of the
  request handled last until `ReadBody` has stored another, and what is complete but
  has left the way to `dispatch` is never handled any more.
- `BodyIsBytesCorrect`, for any requests of which each *frames itself*
  (`FramesItself`): every length it declares is the number of body bytes after its blank line,
  no number, or one above all that can ever arrive (`NeverArrives`, as a negative length is).  A
  client that declares less than it sends would have its body read as lines, and one that
  declares more would have the next request read as its body, and the property is not about those.  By
  `BodyInv`: however the parser got where it is, through rejected lines and
  errors too, the length in the context is that of the header lines it is
  among, so that in `kExpectBody` that many bytes follow.  The stream of several requests frames
  itself because each does (`FramesConcat`).
- `ProcessAliveCorrect` and `RequestsInOrderCorrect`, for any requests that are
  well-formed (`WellFormedRequest`: a good request line, header lines, a blank line, and
  for a method with a body as many bytes as declared): by `StreamInv`.  It says that there are
  offsets `off` at which the requests of a stream end (`Layout`), and that the
  parser is at `off[k]`, k requests being handled, or inside the next request with the part it
  has read in the context (`ReadUpTo`), or in the spin.  Positions as a function, with
  their existence kept by each step, take the place of an induction over the stream.  The
  refinement is then one step at a time: `DispatchRefines` (what is handled is the
  next that was written), `SendRefines`, and every other step stutters.

`MCHttpServer` has TLC evaluate the two hypotheses for the requests of the runs
(`MCRequestsAssumption`): `FramesItself` holds of all, `WellFormedRequest` of
`HttpServer_wellformed`'s.

In `SessionManager_proofs`, for any threads, sessions, values and lifetimes:

- `SessionTypeCorrect`: with the part of `TypeOK` that ties `pc` to `held` and
  `cookie`; in particular a handler always has a session.
- `NoForeignSessionCorrect`: nothing is assumed of the ids.  By `IdsAreBehind`, an
  invariant for as long as no two draws have overlapped: the id of every session is behind
  the position of the generator, which nobody but the one thread that is drawing is about to
  move.  An id that is drawn then is nobody's; and a session is
  otherwise only got from the map, by the id in the cookie.
- `DestroyedStaysAwayCorrect`: each step that inserts into the map inserts what
  a thread holds.

In `Gomoku_proofs`, for a board of any size and lines of any length:

- `CheckWinFindsLines`: `checkWin`, which counts the two runs from a cell in four
  directions, is true exactly if a line goes through that cell.  The run is the greatest number of
  stones without a gap (`RunIsGreatest`, from `NoGap`); two opposite runs make a line
  (`RunsMakeALine`) and a line makes two runs (`LineMakesRuns`).
- Its lemmas about placing a stone (`FirstLineIsFound`: on a board without a line, a
  stone completes one if and only if `checkWin` says so) are what `AiGame_proofs` needs.

In `AiGame_proofs`, for the same and any number of calls:

- For any threads: `AiGameTypeCorrect`, by `CountInv` (every thread that is still to
  count has a call of its own, which bounds `moveCount`, although increments are lost).
- `StonesWerePlayedCorrect`, by `CoverInv`: every stone on the board was played in its
  colour, or some thread is on its way to write that cell, or has moved there and not returned.
  Threads overwrite one another, so that a stone may be covered by a thread that did
  not put it there: what matters is that there is always one left to do so.
- For one thread (`OneThread`; with two they are false, as `AiGame_phantom` shows):
  `BoardIsTheMovesCorrect`, `HumanWinIsALineCorrect`,
  `AiMeetsThreatsCorrect`, `GameOverIsFinalCorrect`, by `SettledInv`: there is a board `s`, the
  one without the stone being tried, that consists of the moves; `board` differs from it as
  `pc` says, what is declared is true of `s`, and what the scans have passed in `s` was not
  worth stopping for.  With it come `RatingInv` and `CursorInv`; one thread never gets to step 3 or
  to the last exit.  The properties are about quiet
  boards only and so are not inductive: the trial has to be described.

In `RequestPipeline_proofs` (with lemmas on the search in `Router_proofs`), for any
routes, handlers, middlewares and lengths of the chain:

- `RequestPipelineTypeCorrect`, with `PhaseOK`: where the position `i` may be in each phase.
- `CallsAreNestedCorrect`: by `NestedInv`: the calls made are the beginning of the
  full sequence with some handler or none, and `pc` and `i` say how far in it.  `CallsOfAt` and
  `FullSequenceAt` say what stands at each place of that sequence.
- `EveryEndHasAStatusCorrect`: by `StatusInv`: on the way back there is a status or a
  handler that returned.
- `PreflightStaysOutCorrect`: by `OptionsInv`: an OPTIONS request gets past plain middlewares only.
- `RoutedByPrecedenceCorrect`: by `TablesInv` (a map has the last registration of
  each key, a vector all of its registrations in their order, through an increasing function) and
  `FoundInv` (the handler that was called is the one the search finds); `RouteIsBest` joins the
  two: what the four tables yield is the best of what was registered.

In `SslServer_proofs`, for any connections, threads and versions:

- `SslTypeCorrect`: by `MuteInv`, which `TypeOK` alone does not give: what is in the
  buffers of a connection is hello or junk, nothing was sent, and OpenSSL is not
  done.  The argument is a circle, which is why it must be one invariant: the client's second
  flight needs the server's first, that needs `send`, `send` needs an
  established connection, and that needs the client's second flight.
- `SilentCorrect` follows from it.
- `UnconfiguredServesNobodyCorrect`: by `ContextInv`: before `start` nothing is
  connected, and what is connected, or being served, came up with a context.
- `EntriesCorrect`: by `EntriesInv`, which says for each connection what its thread's
  place means for its entry, and that a thread only serves connections of its own.

In `GomokuServer_proofs`, for any finite set of users and any threads:

- `GomokuTypeCorrect`, and `RestartsExcludeCorrect` by the owner of the mutex.
- `MaxCoversOnlineCorrect`: a thread between counting and storing still brings a
  number that covers what has been online; without an overtaken store the value it
  loaded is the value it replaces.

Only model-checked: what holds under fairness (`CallbackReturns`, `CallsReturn`,
`RefusalIsSeen`, `WaitsOnlyForAMutex`), which the prover does not
handle.  What a recursive function computes for all inputs (`Start`, the offsets in
`setQueryParameters`) is out of its reach as well: no theorem is about the text of a query, beyond that the
pairs of a well-formed request do not throw.

## 5. Not modelled

What no code of the repository reaches: `SslConnection::send`, `bioWrite`, `bioRead`,
`bioCtrl`, `onEncrypted`, `onDecrypted`, `getLastError`, `handleError`; in the pool
everything after a connection was found (`getConnection` from line 59,
`checkConnections` from line 114: a copy of the queue is pinged and reconnected outside the lock
while borrowers may use the same objects), and all of DbConnection, since `createConnection` has no
caller.  A model of them would have states the program is never in.  The failures of
`SSL_new` and `BIO_new` for want of memory, TLS renegotiation and session
resumption are left out.  A null middleware (`processBefore` calls it, only
`processAfter` tests for it) and middlewares or handlers that throw anything but
`std::exception`, `CorsMiddleware` excepted, are left out.  The application's handlers have no
implementation in the repository.  `FileUtil`, `JsonUtil` and the example client
have no state to speak of.  Logging, formatting of responses, the text of cookies and regular
expressions are left out.

## 6. Plan

In this order, the behaviour that can hurt most first:

1. *(done)* HttpRequest, HttpContext, HttpServer, RequestStream; their types, the
   spin as theorems.
2. *(done)* SessionManager with theorems; AiGame.
3. *(done)* Router and RequestPipeline: `handleRequest`, the chain, CorsMiddleware.
4. *(done)* SslContext, SslConnection, SslServer: the useSSL_ branch and `sslConns_`,
   with theorems.
5. *(done)* GomokuServer with DbConnectionPool: online users, the maximum, the games'
   mutex, the pool's callers and its checking thread, with theorems.
6. setQueryParameters as the loop it is, checked against the slices of HttpRequest.
7. *(done)* Proofs of every invariant and action property, and of the step simulation
   of RequestStream.
