----------------------------- MODULE SslServer -----------------------------
(***************************************************************************)
(* http::HttpServer with useSSL_: its set-up, and the life of its          *)
(* connections in sslConns_, which onConnection changes in the IO thread   *)
(* of each connection and no lock protects.  Being inside that map is a    *)
(* value of pc; two threads inside, one of them writing, are a data race   *)
(* and the model ends there, for the program may then do anything.         *)
(*                                                                         *)
(* The constructor of SslConnection replaces the connection's message      *)
(* callback with its own onRead, so muduo calls that and not               *)
(* HttpServer::onMessage.                                                  *)
(***************************************************************************)
EXTENDS SslContext, SslConnection

CONSTANTS
    Connection,      \* TCP connections, each used once
    Thread,          \* the IO threads
    NoConnection,    \* a thread that serves none
    NoConfig,        \* sslCtx_ is null
    MaxPieces        \* bound on what a client sends

ASSUME SslAssumption ==
    /\ NoConnection \notin Connection
    /\ NoConfig \notin Config
    /\ MaxPieces \in Nat

VARIABLES
    useSSL,          \* useSSL_
    sslCtx,          \* the configuration of sslCtx_
    started,         \* start() was called
    fate,            \* "running", or what the process died of
    tcp,             \* the state of each TCP connection
    loop,            \* the IO thread of the connection
    speaks,          \* the versions its client knows
    said,            \* what its client has sent (history)
    net,             \* bytes on their way to the server
    ssl,             \* its SslConnection
    sslConns,        \* the connections in sslConns_
    pc, serves       \* where a thread is, and for which connection

vars == <<useSSL, sslCtx, started, fate, tcp, loop, speaks, said, net, ssl, sslConns,
          pc, serves>>
setup  == <<useSSL, sslCtx, started>>
client == <<speaks, said, net>>
thread == <<pc, serves>>

TcpState == {"new", "up", "half", "down"}    \* "half": after shutdown()
PC == {"idle", "insert", "start", "erase"}
InMap == PC \ {"idle"}
Writing == {"insert", "erase"}

Init ==
    /\ useSSL \in BOOLEAN
    /\ sslCtx = NoConfig
    /\ started = FALSE
    /\ fate = "running"
    /\ tcp = [c \in Connection |-> "new"]
    /\ loop \in [Connection -> Thread]
    /\ speaks \in [Connection -> SUBSET Version \ {{}}]
    /\ said = [c \in Connection |-> <<>>]
    /\ net = [c \in Connection |-> <<>>]
    /\ ssl = [c \in Connection |-> NewSslConnection]
    /\ sslConns = {}
    /\ pc = [t \in Thread |-> "idle"]
    /\ serves = [t \in Thread |-> NoConnection]

Open(c) == tcp[c] \in {"up", "half"}
Race == \E t, u \in Thread : t # u /\ pc[t] \in Writing /\ pc[u] \in InMap
Agreed(c) == speaks[c] \cap Enabled(sslCtx) # {}

\* c's SslConnection after handleHandshake, and conn_->shutdown().
Becomes(c, after) ==
    /\ ssl' = [ssl EXCEPT ![c] = after]
    /\ tcp' = [tcp EXCEPT ![c] = IF ShutsDown(after) THEN "half" ELSE @]

Enter(t, c, where) ==
    /\ pc[t] = "idle"
    /\ loop[c] = t
    /\ pc' = [pc EXCEPT ![t] = where]
    /\ serves' = [serves EXCEPT ![t] = c]

Leave(t) ==
    /\ pc' = [pc EXCEPT ![t] = "idle"]
    /\ serves' = [serves EXCEPT ![t] = NoConnection]

---------------------------------------------------------------------------
(* Set-up, in the main thread.                                             *)

EnableSSL(enable) ==
    /\ ~started
    /\ useSSL' = enable
    /\ UNCHANGED <<sslCtx, started, fate, tcp, loop, client, ssl, sslConns, thread>>

\* setSslConfig: without useSSL_ it does nothing, and says nothing.
SetSslConfig(config) ==
    /\ ~started
    /\ useSSL
    /\ sslCtx' = config
    /\ fate' = IF Initialize(config) THEN fate ELSE "aborted"
    /\ UNCHANGED <<useSSL, started, tcp, loop, client, ssl, sslConns, thread>>

\* A server started without useSSL_ is that of module HttpServer.
Start ==
    /\ ~started
    /\ useSSL
    /\ started' = TRUE
    /\ UNCHANGED <<useSSL, sslCtx, fate, tcp, loop, client, ssl, sslConns, thread>>

---------------------------------------------------------------------------
(* onConnection.                                                           *)

\* Bug: SslConnection's constructor tests ctx_ and gives up.
ConnectionUpTestsContext(t, c) ==
    /\ started /\ tcp[c] = "new"
    /\ Enter(t, c, "insert")
    /\ tcp' = [tcp EXCEPT ![c] = "up"]
    /\ UNCHANGED <<setup, fate, loop, client, ssl, sslConns>>

\* The SslConnection is made with sslCtx_.get(), which it dereferences.
ConnectionUp(t, c) ==
    /\ started /\ tcp[c] = "new"
    /\ pc[t] = "idle" /\ loop[c] = t
    /\ IF sslCtx = NoConfig
       THEN fate' = "null context" /\ UNCHANGED <<tcp, thread>>
       ELSE /\ Enter(t, c, "insert")
            /\ tcp' = [tcp EXCEPT ![c] = "up"]
            /\ UNCHANGED fate
    /\ UNCHANGED <<setup, loop, client, ssl, sslConns>>

\* sslConns_[conn] = std::move(sslConn)
InsertEntry(t) ==
    /\ pc[t] = "insert"
    /\ sslConns' = sslConns \cup {serves[t]}
    /\ pc' = [pc EXCEPT ![t] = "start"]
    /\ UNCHANGED <<setup, fate, tcp, loop, client, ssl, serves>>

\* sslConns_[conn]->startHandshake(), which finds readBio_ empty.
StartHandshake(t) ==
    LET c == serves[t]
    IN  /\ pc[t] = "start"
        /\ Becomes(c, HandleHandshake(ssl[c], Agreed(c)))
        /\ Leave(t)
        /\ UNCHANGED <<setup, fate, loop, client, sslConns>>

\* The client has closed, or the connection broke; what it sent and nobody
\* read is lost.
ConnectionDown(t, c) ==
    /\ Open(c)
    /\ Enter(t, c, "erase")
    /\ tcp' = [tcp EXCEPT ![c] = "down"]
    /\ net' = [net EXCEPT ![c] = <<>>]
    /\ said' = [said EXCEPT ![c] = <<>>]
    /\ UNCHANGED <<setup, fate, loop, speaks, ssl, sslConns>>

\* Bug: the entry is left to the end of the server.
EraseNothing(t) ==
    /\ pc[t] = "erase"
    /\ Leave(t)
    /\ UNCHANGED <<setup, fate, tcp, loop, client, ssl, sslConns>>

\* sslConns_.erase(conn), which destroys the SslConnection.
EraseEntry(t) ==
    /\ pc[t] = "erase"
    /\ sslConns' = sslConns \ {serves[t]}
    /\ ssl' = [ssl EXCEPT ![serves[t]] = NewSslConnection]
    /\ Leave(t)
    /\ UNCHANGED <<setup, fate, tcp, loop, client>>

---------------------------------------------------------------------------
(* Bytes.                                                                  *)

\* What a client may send next: junk, from which there is no way back, or its
\* next part of the handshake, for the later ones of which it needs the
\* server's answer.
Script == <<"head", "tail", "finish", "data">>
Needs(i) == IF i = 3 THEN {"flight"} ELSE IF i = 4 THEN {"finished"} ELSE {}
Sayable(c) ==
    {"junk"} \cup {Script[i] : i \in {j \in DOMAIN Script :
        said[c] = SubSeq(Script, 1, j - 1) /\ Needs(j) \subseteq Range(ssl[c].sent)}}

ClientSend(c, piece) ==
    /\ Open(c)
    /\ piece \in Sayable(c)
    /\ Len(said[c]) < MaxPieces
    /\ net' = [net EXCEPT ![c] = Append(@, piece)]
    /\ said' = [said EXCEPT ![c] = Append(@, piece)]
    /\ UNCHANGED <<setup, fate, tcp, loop, speaks, ssl, sslConns, thread>>

\* muduo reads n pieces and calls SslConnection::onRead.
Deliver(t, c, n) ==
    /\ pc[t] = "idle" /\ loop[c] = t
    /\ Open(c)
    /\ n \in 1..Len(net[c])
    /\ \E after \in {OnRead(ssl[c], SubSeq(net[c], 1, n), Agreed(c))} : Becomes(c, after)
    /\ net' = [net EXCEPT ![c] = SubSeq(@, n + 1, Len(@))]
    /\ UNCHANGED <<setup, fate, loop, speaks, said, sslConns, thread>>

---------------------------------------------------------------------------
DataRace ==
    /\ Race
    /\ fate' = "race"
    /\ UNCHANGED <<setup, tcp, loop, client, ssl, sslConns, thread>>

SetUpStep ==
    \/ \E enable \in BOOLEAN : EnableSSL(enable)
    \/ \E config \in Config : SetSslConfig(config)
    \/ Start

ThreadStep(t) ==
    \/ InsertEntry(t)
    \/ StartHandshake(t)
    \/ EraseEntry(t)
    \/ \E c \in Connection, n \in 1..MaxPieces : Deliver(t, c, n)

Step ==
    \/ SetUpStep
    \/ \E t \in Thread : ThreadStep(t)
    \/ \E t \in Thread, c \in Connection : ConnectionUp(t, c) \/ ConnectionDown(t, c)
    \/ \E c \in Connection, piece \in Piece : ClientSend(c, piece)

Next == fate = "running" /\ (DataRace \/ (~Race /\ Step))

Spec == Init /\ [][Next]_vars

\* A thread goes on with its callback, and its loop with what has arrived.
\* Clients, and the order of the set-up, are free.
ThreadGoesOn(t) == fate = "running" /\ ~Race /\ ThreadStep(t)
FairSpec == Spec /\ \A t \in Thread : WF_vars(ThreadGoesOn(t))

---------------------------------------------------------------------------
TypeOK ==
    /\ useSSL \in BOOLEAN
    /\ sslCtx \in Config \cup {NoConfig}
    /\ started \in BOOLEAN
    /\ fate \in {"running", "aborted", "null context", "race"}
    /\ tcp \in [Connection -> TcpState]
    /\ loop \in [Connection -> Thread]
    /\ speaks \in [Connection -> SUBSET Version]
    /\ said \in [Connection -> Seq(Piece)]
    /\ net \in [Connection -> Seq(Piece)]
    /\ ssl \in [Connection -> SslConn]
    /\ sslConns \subseteq Connection
    /\ pc \in [Thread -> PC]
    /\ serves \in [Thread -> Connection \cup {NoConnection}]
    /\ \A t \in Thread : serves[t] = NoConnection <=> pc[t] = "idle"

\* An SSL server is mute: no client ever gets a byte, so no handshake is
\* completed and no request handled.  What OpenSSL has to say stays in
\* writeBio_, for handleHandshake does not empty it, and send, which does, is
\* for established connections only (SslConnection.cpp 80-115, 202-246).
Silent == \A c \in Connection : ssl[c].sent = <<>> /\ ssl[c].state = "HANDSHAKE"

\* sslConns_ and the connections are one to one whenever no thread is in
\* between, whatever the order in which connections come and go, fail and are
\* half closed (HttpServer.cpp 64-84).
EntriesAreTheConnections ==
    fate = "running" /\ (\A t \in Thread : pc[t] = "idle") =>
        sslConns = {c \in Connection : Open(c)}

\* A server whose sslCtx_ was never set serves nobody: it is gone with its
\* first connection.  setSslConfig before enableSSL(true) leaves it unset
\* (HttpServer.cpp 51-62, 70; SslConnection.cpp 30).
UnconfiguredServesNobody ==
    sslCtx = NoConfig => \A c \in Connection : tcp[c] = "new"

\* A client none of whose versions is enabled is told so by the end of the
\* connection, once its hello is there, unless the process dies first
\* (SslConnection.cpp 236-244).
Refused(c) ==
    /\ Len(said[c]) >= 2
    /\ sslCtx # NoConfig /\ ~Agreed(c)
RefusalIsSeen ==
    \A c \in Connection : Refused(c) ~> (tcp[c] # "up" \/ Race \/ fate # "running")

\* SslConnection.cpp 234 says of WANT_READ that the handshake is normal and
\* goes on: a client that shares a version with the server, and sends what it
\* can, is in the end connected or turned away.
HandshakeGoesOn ==
    \A c \in Connection :
        said[c] = <<"head", "tail">> /\ Agreed(c) ~>
            (ssl[c].state = "ESTABLISHED" \/ tcp[c] # "up" \/ fate # "running")
=============================================================================
