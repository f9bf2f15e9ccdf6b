-------------------------- MODULE SslServer_proofs --------------------------
(***************************************************************************)
(* Proofs about SslServer, for any number of connections and threads.      *)
(***************************************************************************)
EXTENDS SslServer, SequenceTheorems, TLAPS

\* What a client can say that never hears from the server.
Early == {"head", "tail", "junk"}

\* An SslConnection that is mute: nothing was sent, and OpenSSL is not done,
\* for the client's second flight never came.
Mute == [state : {"HANDSHAKE"}, engine : {"hello", "flight", "failed"},
         readBio : Seq(Early), writeBio : Seq(Reply), buf : Seq(Early), sent : {<<>>}]

LEMMA MuteIsSslConn == Mute \subseteq SslConn
<1>1. Seq(Early) \subseteq Seq(Piece)
  BY SeqMonotonic DEF Early, Piece
<1>2. <<>> \in Seq(Reply)
  OBVIOUS
<1> QED
  BY <1>1, <1>2 DEF Mute, SslConn, SSLState, Engine

\* OpenSSL does not finish a handshake without the client's second flight.
LEMMA ReadMute ==
    ASSUME NEW s \in Mute, NEW agreed \in BOOLEAN
    PROVE  ReadMessage(agreed)[s] \in Mute
<1>1. s \in SslConn
  BY MuteIsSslConn
<1>2. s.readBio \in Seq(Early) /\ s.writeBio \in Seq(Reply)
      /\ s.engine \in {"hello", "flight", "failed"}
  BY DEF Mute
<1>3. ReadMessage(agreed)[s] =
        IF Wrong(s) \/ (Complete(s) /\ s.engine = "hello" /\ ~agreed) THEN Refuse(s)
        ELSE IF Complete(s) THEN Accept(s) ELSE s
  BY <1>1 DEF ReadMessage
<1>4. s.engine = "flight" => ~Complete(s)
  <2> SUFFICES ASSUME s.engine = "flight", IsPrefix(<<"finish">>, s.readBio) PROVE FALSE
    BY DEF Complete, Expected
  <2>1. Len(s.readBio) >= 1 /\ SubSeq(<<"finish">>, 1, 1) = SubSeq(s.readBio, 1, 1)
    BY <1>2 DEF IsPrefix
  <2>2. s.readBio[1] \in Early
    BY <1>2, <2>1
  <2>3. SubSeq(s.readBio, 1, 1)[1] = s.readBio[1] /\ SubSeq(<<"finish">>, 1, 1)[1] = "finish"
    BY <1>2, <2>1
  <2> QED
    BY <2>1, <2>2, <2>3 DEF Early
<1>5. Refuse(s) \in Mute
  <2>1. Append(s.writeBio, "alert") \in Seq(Reply)
    BY <1>2 DEF Reply
  <2> QED
    BY <2>1 DEF Refuse, Mute
<1>6. ASSUME Complete(s) PROVE s.engine = "hello" /\ Accept(s) \in Mute
  <2>1. s.engine = "hello"
    BY <1>2, <1>4, <1>6 DEF Complete, Waiting
  <2>2. Append(s.writeBio, "flight") \in Seq(Reply)
    BY <1>2 DEF Reply
  <2>3. Expected(s) = <<"head", "tail">> /\ Len(Expected(s)) = 2
    BY <2>1 DEF Expected
  <2>4. SubSeq(s.readBio, Len(Expected(s)) + 1, Len(s.readBio)) \in Seq(Early)
    BY <1>2, <2>3
  <2> HIDE DEF Expected
  <2> QED
    BY <2>1, <2>2, <2>4 DEF Accept, Mute
<1> QED
  BY <1>3, <1>5, <1>6

\* handleHandshake and onRead keep it mute.
LEMMA HandshakeMute ==
    ASSUME NEW s \in Mute, NEW agreed \in BOOLEAN
    PROVE  HandleHandshake(s, agreed) \in Mute
<1>1. DoHandshake(s, agreed) \in Mute
  BY ReadMute DEF DoHandshake
<1>2. HandleHandshake(s, agreed) = DoHandshake(s, agreed)
  BY <1>1 DEF HandleHandshake, Mute
<1> QED
  BY <1>1, <1>2

LEMMA OnReadMute ==
    ASSUME NEW s \in Mute, NEW bytes \in Seq(Early), NEW agreed \in BOOLEAN
    PROVE  OnRead(s, bytes, agreed) \in Mute
<1> DEFINE fed == [s EXCEPT !.readBio = s.readBio \o (s.buf \o bytes), !.buf = <<>>]
<1>1. s.readBio \in Seq(Early) /\ s.buf \in Seq(Early) /\ s.state = "HANDSHAKE"
  BY DEF Mute
<1>2. s.readBio \o (s.buf \o bytes) \in Seq(Early)
  BY <1>1, ConcatProperties
<1>3. fed \in Mute
  <2>1. <<>> \in Seq(Early)
    OBVIOUS
  <2> DEFINE read == s.readBio \o (s.buf \o bytes)
  <2>2. read \in Seq(Early) /\ fed = [s EXCEPT !.readBio = read, !.buf = <<>>]
    BY <1>2
  <2> HIDE DEF read, fed
  <2> QED
    BY <2>1, <2>2 DEF Mute
<1>4. OnRead(s, bytes, agreed) = HandleHandshake(fed, agreed)
  BY <1>1 DEF OnRead
<1> HIDE DEF fed
<1> QED
  BY <1>3, <1>4, HandshakeMute

---------------------------------------------------------------------------
(* Types, and silence.                                                     *)

MuteInv == ssl \in [Connection -> Mute] /\ net \in [Connection -> Seq(Early)]

LEMMA NewIsMute == /\ <<>> \in Seq(Early) /\ <<>> \in Seq(Piece)
                   /\ NewSslConnection \in Mute
<1>1. <<>> \in Seq(Early) /\ <<>> \in Seq(Reply) /\ <<>> \in Seq(Piece)
  OBVIOUS
<1> QED
  BY <1>1 DEF NewSslConnection, Mute

LEMMA InitTypes == Init => TypeOK /\ MuteInv
<1> SUFFICES ASSUME Init PROVE TypeOK /\ MuteInv
  OBVIOUS
<1>2. ssl \in [Connection -> Mute] /\ ssl \in [Connection -> SslConn]
  BY NewIsMute, MuteIsSslConn DEF Init
<1>3. /\ net \in [Connection -> Seq(Early)] /\ net \in [Connection -> Seq(Piece)]
      /\ said \in [Connection -> Seq(Piece)]
  BY DEF Init
<1>4. speaks \in [Connection -> SUBSET Version] /\ loop \in [Connection -> Thread]
  BY DEF Init
<1> QED
  BY <1>2, <1>3, <1>4, SslAssumption DEF Init, TypeOK, MuteInv, PC, TcpState

\* A client that got nothing says nothing that would need an answer.
LEMMA SaysEarly ==
    ASSUME MuteInv, NEW c \in Connection, NEW piece \in Sayable(c)
    PROVE  piece \in Early
<1>1. ssl[c].sent = <<>>
  BY DEF MuteInv, Mute
<1>2. Range(ssl[c].sent) = {}
  BY <1>1 DEF Range
<1>3. CASE piece = "junk"
  BY <1>3 DEF Early
<1>4. ASSUME NEW j \in DOMAIN Script, piece = Script[j], Needs(j) \subseteq {}
      PROVE  piece \in Early
  <2>1. j \in 1..4 /\ j # 3 /\ j # 4
    BY <1>4 DEF Needs, Script
  <2> QED
    BY <1>4, <2>1 DEF Script, Early
<1> QED
  BY <1>2, <1>3, <1>4 DEF Sayable

\* What arrives of a sequence, and what is left.
LEMMA Cut ==
    ASSUME NEW S, NEW q \in Seq(S), NEW n \in 1..Len(q)
    PROVE  SubSeq(q, 1, n) \in Seq(S) /\ SubSeq(q, n + 1, Len(q)) \in Seq(S)
OBVIOUS

LEMMA Longer ==
    ASSUME NEW S, NEW q \in Seq(S), NEW e \in S
    PROVE  Append(q, e) \in Seq(S)
OBVIOUS

\* Any step that gives c a mute SslConnection.
LEMMA BecomesTypes ==
    ASSUME TypeOK, MuteInv, NEW c \in Connection, NEW after \in Mute, Becomes(c, after)
    PROVE  /\ ssl' \in [Connection -> Mute] /\ ssl' \in [Connection -> SslConn]
           /\ tcp' \in [Connection -> TcpState]
<1>1. "half" \in TcpState
  BY DEF TcpState
<1> QED
  BY <1>1, MuteIsSslConn DEF TypeOK, MuteInv, Becomes

LEMMA TypeStep == TypeOK /\ MuteInv /\ [Next]_vars => TypeOK' /\ MuteInv'
<1> SUFFICES ASSUME TypeOK, MuteInv, [Next]_vars PROVE TypeOK' /\ MuteInv'
  OBVIOUS
<1> USE DEF TypeOK, MuteInv, setup, client, thread, Enter, Leave
<1>1. CASE SetUpStep
  <2>1. ASSUME NEW enable \in BOOLEAN, EnableSSL(enable) PROVE TypeOK' /\ MuteInv'
    BY <2>1 DEF EnableSSL
  <2>2. ASSUME NEW config \in Config, SetSslConfig(config) PROVE TypeOK' /\ MuteInv'
    BY <2>2 DEF SetSslConfig
  <2>3. CASE Start
    BY <2>3 DEF Start
  <2> QED
    BY <1>1, <2>1, <2>2, <2>3 DEF SetUpStep
<1>2. ASSUME NEW t \in Thread, NEW c \in Connection, ConnectionUp(t, c)
      PROVE  TypeOK' /\ MuteInv'
  <2>1. "insert" \in PC /\ "up" \in TcpState /\ c # NoConnection
    BY SslAssumption DEF PC, TcpState
  <2>2. CASE sslCtx = NoConfig
    BY <1>2, <2>2 DEF ConnectionUp
  <2>3. CASE sslCtx # NoConfig
    <3>1. /\ pc' = [pc EXCEPT ![t] = "insert"] /\ serves' = [serves EXCEPT ![t] = c]
          /\ tcp' = [tcp EXCEPT ![c] = "up"]
          /\ UNCHANGED <<setup, fate, loop, client, ssl, sslConns>>
      BY <1>2, <2>3 DEF ConnectionUp
    <3>2. /\ pc' \in [Thread -> PC] /\ serves' \in [Thread -> Connection \cup {NoConnection}]
          /\ tcp' \in [Connection -> TcpState]
      BY <2>1, <3>1
    <3>3. \A u \in Thread : serves'[u] = NoConnection <=> pc'[u] = "idle"
      BY <2>1, <3>1
    <3> QED
      BY <3>1, <3>2, <3>3
  <2> QED
    BY <2>2, <2>3
<1>3. ASSUME NEW t \in Thread, InsertEntry(t) PROVE TypeOK' /\ MuteInv'
  <2>1. "start" \in PC /\ serves[t] \in Connection
    BY <1>3 DEF InsertEntry, PC
  <2> QED
    BY <1>3, <2>1 DEF InsertEntry
<1>4. ASSUME NEW t \in Thread, StartHandshake(t) PROVE TypeOK' /\ MuteInv'
  <2>1. "idle" \in PC /\ serves[t] \in Connection
    BY <1>4 DEF StartHandshake, PC
  <2>2. ssl[serves[t]] \in Mute /\ Agreed(serves[t]) \in BOOLEAN
    BY <2>1 DEF Agreed
  <2>3. HandleHandshake(ssl[serves[t]], Agreed(serves[t])) \in Mute
    BY <2>2, HandshakeMute
  <2>4. /\ ssl' \in [Connection -> Mute] /\ ssl' \in [Connection -> SslConn]
        /\ tcp' \in [Connection -> TcpState]
    BY <1>4, <2>1, <2>3, BecomesTypes DEF StartHandshake
  <2> QED
    BY <1>4, <2>1, <2>4 DEF StartHandshake
<1>5. ASSUME NEW t \in Thread, NEW c \in Connection, ConnectionDown(t, c)
      PROVE  TypeOK' /\ MuteInv'
  <2>1. "erase" \in PC /\ "down" \in TcpState /\ c # NoConnection
    BY SslAssumption DEF PC, TcpState
  <2>2. /\ net' \in [Connection -> Seq(Early)] /\ net' \in [Connection -> Seq(Piece)]
        /\ said' \in [Connection -> Seq(Piece)]
    BY <1>5, NewIsMute DEF ConnectionDown
  <2>3. /\ pc' \in [Thread -> PC] /\ serves' \in [Thread -> Connection \cup {NoConnection}]
        /\ tcp' \in [Connection -> TcpState]
    BY <1>5, <2>1 DEF ConnectionDown
  <2>4. \A u \in Thread : serves'[u] = NoConnection <=> pc'[u] = "idle"
    BY <1>5, <2>1 DEF ConnectionDown
  <2> QED
    BY <1>5, <2>2, <2>3, <2>4 DEF ConnectionDown
<1>6. ASSUME NEW t \in Thread, EraseEntry(t) PROVE TypeOK' /\ MuteInv'
  <2>1. "idle" \in PC /\ serves[t] \in Connection
    BY <1>6 DEF EraseEntry, PC
  <2>3. ssl' \in [Connection -> Mute] /\ ssl' \in [Connection -> SslConn]
    BY <1>6, NewIsMute, MuteIsSslConn DEF EraseEntry
  <2> QED
    BY <1>6, <2>1, <2>3 DEF EraseEntry
<1>7. ASSUME NEW c \in Connection, NEW piece \in Piece, ClientSend(c, piece)
      PROVE  TypeOK' /\ MuteInv'
  <2>1. piece \in Early
    BY <1>7, SaysEarly DEF ClientSend
  <2>2. Append(net[c], piece) \in Seq(Early) /\ Append(net[c], piece) \in Seq(Piece)
        /\ Append(said[c], piece) \in Seq(Piece)
    BY <2>1, Longer
  <2>3. /\ net' \in [Connection -> Seq(Early)] /\ net' \in [Connection -> Seq(Piece)]
        /\ said' \in [Connection -> Seq(Piece)]
    BY <1>7, <2>2 DEF ClientSend
  <2> QED
    BY <1>7, <2>3 DEF ClientSend
<1>8. ASSUME NEW t \in Thread, NEW c \in Connection, NEW n \in 1..MaxPieces, Deliver(t, c, n)
      PROVE  TypeOK' /\ MuteInv'
  <2>1. n \in 1..Len(net[c]) /\ net[c] \in Seq(Early) /\ net[c] \in Seq(Piece)
    BY <1>8 DEF Deliver
  <2>2. /\ SubSeq(net[c], 1, n) \in Seq(Early)
        /\ SubSeq(net[c], n + 1, Len(net[c])) \in Seq(Early)
        /\ SubSeq(net[c], n + 1, Len(net[c])) \in Seq(Piece)
    BY <2>1, Cut
  <2>3. Agreed(c) \in BOOLEAN /\ ssl[c] \in Mute
    BY DEF Agreed
  <2>4. OnRead(ssl[c], SubSeq(net[c], 1, n), Agreed(c)) \in Mute
    BY <2>2, <2>3, OnReadMute
  <2>5. /\ ssl' \in [Connection -> Mute] /\ ssl' \in [Connection -> SslConn]
        /\ tcp' \in [Connection -> TcpState]
    BY <1>8, <2>4, BecomesTypes DEF Deliver
  <2> QED
    BY <1>8, <2>2, <2>5 DEF Deliver
<1>9. CASE DataRace
  BY <1>9 DEF DataRace
<1>10. CASE UNCHANGED vars
  BY <1>10 DEF vars
<1> QED
  BY <1>1, <1>2, <1>3, <1>4, <1>5, <1>6, <1>7, <1>8, <1>9, <1>10 DEF Next, Step, ThreadStep

\* The types of SslServer.
THEOREM SslTypeCorrect == Spec => [](TypeOK /\ MuteInv)
BY InitTypes, TypeStep, PTL DEF Spec

\* No client of an SSL server ever gets a byte (SslConnection.cpp 202-246):
\* the client's second flight would need the first of the server, and that
\* stays in writeBio_.
THEOREM SilentCorrect == Spec => []Silent
<1>1. MuteInv => Silent
  BY DEF MuteInv, Silent, Mute
<1> QED
  BY <1>1, SslTypeCorrect, PTL

---------------------------------------------------------------------------
(* Configuration.                                                          *)

\* No connection is up, or being served, without a context and before start.
ContextInv ==
    /\ UnconfiguredServesNobody
    /\ ~started => \A c \in Connection : tcp[c] = "new"
    /\ \A t \in Thread : serves[t] # NoConnection => tcp[serves[t]] # "new"

\* shutdown() of a connection that is up does not make it new.
LEMMA ContextBecomes ==
    ASSUME TypeOK, ContextInv, NEW c \in Connection, NEW after,
           Becomes(c, after), tcp[c] # "new", UNCHANGED <<started, sslCtx>>,
           \A t \in Thread : serves'[t] \in {serves[t], NoConnection}
    PROVE  ContextInv'
<1>1. \A d \in Connection : tcp'[d] = "new" <=> tcp[d] = "new"
  BY DEF TypeOK, Becomes
<1>2. UnconfiguredServesNobody' /\ (~started' => \A d \in Connection : tcp'[d] = "new")
  BY <1>1 DEF ContextInv, UnconfiguredServesNobody
<1>3. ASSUME NEW t \in Thread, serves'[t] # NoConnection PROVE tcp'[serves'[t]] # "new"
  <2>1. serves'[t] = serves[t] /\ serves[t] \in Connection
    BY <1>3 DEF TypeOK
  <2> QED
    BY <1>1, <1>3, <2>1 DEF ContextInv
<1> QED
  BY <1>2, <1>3 DEF ContextInv

LEMMA ContextStep == TypeOK /\ ContextInv /\ [Next]_vars => ContextInv'
<1> SUFFICES ASSUME TypeOK, ContextInv, [Next]_vars PROVE ContextInv'
  OBVIOUS
<1> USE DEF ContextInv, TypeOK, UnconfiguredServesNobody, setup, client, thread, Enter, Leave
<1>1. CASE UNCHANGED <<started, sslCtx, tcp, serves>>
  BY <1>1
<1>2. ASSUME NEW config \in Config, SetSslConfig(config) PROVE ContextInv'
  BY <1>2 DEF SetSslConfig
<1>3. CASE Start
  BY <1>3 DEF Start
<1>4. ASSUME NEW t \in Thread, NEW c \in Connection, ConnectionUp(t, c) PROVE ContextInv'
  <2>1. CASE sslCtx = NoConfig
    BY <1>1, <1>4, <2>1 DEF ConnectionUp
  <2>2. CASE sslCtx # NoConfig
    <3>1. /\ serves' = [serves EXCEPT ![t] = c] /\ tcp' = [tcp EXCEPT ![c] = "up"]
          /\ UNCHANGED <<started, sslCtx>> /\ started
      BY <1>4, <2>2 DEF ConnectionUp
    <3> QED
      BY <2>2, <3>1
  <2> QED
    BY <2>1, <2>2
<1>5. ASSUME NEW t \in Thread, StartHandshake(t) PROVE ContextInv'
  <2>1. serves[t] \in Connection /\ tcp[serves[t]] # "new"
    BY <1>5 DEF StartHandshake
  <2>2. /\ Becomes(serves[t], HandleHandshake(ssl[serves[t]], Agreed(serves[t])))
        /\ UNCHANGED <<started, sslCtx>>
        /\ \A u \in Thread : serves'[u] \in {serves[u], NoConnection}
    BY <1>5 DEF StartHandshake
  <2> QED
    BY <2>1, <2>2, ContextBecomes
<1>6. ASSUME NEW t \in Thread, NEW c \in Connection, ConnectionDown(t, c) PROVE ContextInv'
  <2>1. /\ serves' = [serves EXCEPT ![t] = c] /\ tcp' = [tcp EXCEPT ![c] = "down"]
        /\ UNCHANGED <<started, sslCtx>> /\ tcp[c] # "new"
    BY <1>6 DEF ConnectionDown, Open
  <2> QED
    BY <2>1
<1>7. ASSUME NEW t \in Thread, EraseEntry(t) PROVE ContextInv'
  BY <1>7 DEF EraseEntry
<1>8. ASSUME NEW t \in Thread, NEW c \in Connection, NEW n \in 1..MaxPieces, Deliver(t, c, n)
      PROVE  ContextInv'
  <2>1. tcp[c] # "new" /\ UNCHANGED <<started, sslCtx, serves>>
    BY <1>8 DEF Deliver, Open
  <2>2. PICK after : Becomes(c, after)
    BY <1>8 DEF Deliver
  <2> QED
    BY <2>1, <2>2, ContextBecomes
<1> QED
  BY <1>1, <1>2, <1>3, <1>4, <1>5, <1>6, <1>7, <1>8
     DEF Next, Step, SetUpStep, ThreadStep, EnableSSL, InsertEntry, ClientSend, DataRace, vars

LEMMA ContextCorrect == Spec => []ContextInv
<1>1. Init => ContextInv
  BY DEF Init, ContextInv, UnconfiguredServesNobody
<1> QED
  BY <1>1, ContextStep, SslTypeCorrect, PTL DEF Spec

\* A server that was not configured is gone with its first connection
\* (HttpServer.cpp 51-62, 70).
THEOREM UnconfiguredServesNobodyCorrect == Spec => []UnconfiguredServesNobody
BY ContextCorrect, PTL DEF ContextInv

---------------------------------------------------------------------------
(* The map.                                                                *)

\* c's thread is in onConnection for c.
Busy(c) == serves[loop[c]] = c

\* While it is, the entry of c is about to be made, is made, or is still
\* there; else it is there exactly while c is open.
EntriesInv ==
    /\ \A t \in Thread : serves[t] # NoConnection => loop[serves[t]] = t
    /\ \A c \in Connection : Busy(c) =>
         \/ pc[loop[c]] = "insert" /\ Open(c) /\ c \notin sslConns
         \/ pc[loop[c]] = "start" /\ Open(c) /\ c \in sslConns
         \/ pc[loop[c]] = "erase" /\ tcp[c] = "down" /\ c \in sslConns
    /\ \A c \in Connection : ~Busy(c) => (c \in sslConns <=> Open(c))

\* The types it needs.
MapTypes ==
    /\ tcp \in [Connection -> TcpState]
    /\ loop \in [Connection -> Thread]
    /\ sslConns \subseteq Connection
    /\ pc \in [Thread -> PC]
    /\ serves \in [Thread -> Connection \cup {NoConnection}]
    /\ \A t \in Thread : serves[t] = NoConnection <=> pc[t] = "idle"

\* Thread t takes up c, or leaves it; nothing of another connection changes.
LEMMA EntriesEnter ==
    ASSUME MapTypes, EntriesInv, NEW t \in Thread, NEW c \in Connection,
           NEW where \in {"insert", "erase"}, NEW state,
           pc[t] = "idle", loop[c] = t,
           pc' = [pc EXCEPT ![t] = where], serves' = [serves EXCEPT ![t] = c],
           tcp' = [tcp EXCEPT ![c] = state], UNCHANGED <<loop, sslConns>>,
           \/ where = "insert" /\ state = "up" /\ c \notin sslConns
           \/ where = "erase" /\ state = "down" /\ c \in sslConns
    PROVE  EntriesInv'
<1>1. c # NoConnection /\ serves[t] = NoConnection
  BY SslAssumption DEF MapTypes
<1>2. ~Busy(c) /\ Busy(c)' /\ pc'[loop'[c]] = where /\ tcp'[c] = state
  BY <1>1 DEF MapTypes, Busy
<1>3. \A d \in Connection : d # c => (Busy(d)' <=> Busy(d)) /\ tcp'[d] = tcp[d]
  BY <1>1, SslAssumption DEF MapTypes, Busy
<1>4. \A d \in Connection : Busy(d) => loop[d] # t
  BY <1>1, SslAssumption DEF Busy
<1>5. \A d \in Connection : d # c /\ Busy(d) => pc'[loop'[d]] = pc[loop[d]]
  BY <1>4 DEF MapTypes
<1>6. \A u \in Thread : serves'[u] # NoConnection => loop'[serves'[u]] = u
  BY DEF MapTypes, EntriesInv
<1>7. \A d \in Connection : d # c => (Open(d)' <=> Open(d))
  BY <1>3 DEF Open
<1>8. where = "insert" => Open(c)'
  BY <1>2 DEF Open
<1>9. \A d \in Connection : Busy(d)' =>
        \/ pc'[loop'[d]] = "insert" /\ Open(d)' /\ d \notin sslConns'
        \/ pc'[loop'[d]] = "start" /\ Open(d)' /\ d \in sslConns'
        \/ pc'[loop'[d]] = "erase" /\ tcp'[d] = "down" /\ d \in sslConns'
  <2> SUFFICES ASSUME NEW d \in Connection, Busy(d)'
               PROVE  \/ pc'[loop'[d]] = "insert" /\ Open(d)' /\ d \notin sslConns'
                      \/ pc'[loop'[d]] = "start" /\ Open(d)' /\ d \in sslConns'
                      \/ pc'[loop'[d]] = "erase" /\ tcp'[d] = "down" /\ d \in sslConns'
    OBVIOUS
  <2>1. CASE d = c
    BY <1>2, <1>8, <2>1
  <2>2. CASE d # c
    BY <1>3, <1>5, <1>7, <2>2 DEF EntriesInv
  <2> QED
    BY <2>1, <2>2
<1>10. \A d \in Connection : ~Busy(d)' => (d \in sslConns' <=> Open(d)')
  BY <1>2, <1>3, <1>7 DEF EntriesInv
<1> QED
  BY <1>6, <1>9, <1>10 DEF EntriesInv

LEMMA EntriesLeave ==
    ASSUME MapTypes, EntriesInv, NEW t \in Thread, NEW c \in Connection, serves[t] = c,
           pc' = [pc EXCEPT ![t] = "idle"], serves' = [serves EXCEPT ![t] = NoConnection],
           UNCHANGED loop, \A d \in Connection : Open(d)' <=> Open(d),
           \A d \in Connection : d # c => tcp'[d] = tcp[d],
           \/ pc[t] = "start" /\ sslConns' = sslConns
           \/ pc[t] = "erase" /\ sslConns' = sslConns \ {c}
    PROVE  EntriesInv'
<1>1. c # NoConnection /\ loop[c] = t /\ Busy(c)
  BY SslAssumption DEF EntriesInv, Busy
<1>2. ~Busy(c)'
  BY <1>1, SslAssumption DEF MapTypes, Busy
<1>3. \A d \in Connection : d # c => (Busy(d)' <=> Busy(d)) /\ (d \in sslConns' <=> d \in sslConns)
  BY <1>1, SslAssumption DEF MapTypes, Busy
<1>4. \A d \in Connection : d # c /\ Busy(d) => loop[d] # t
  BY <1>1 DEF Busy
<1>5. \A d \in Connection : d # c /\ Busy(d) => pc'[loop'[d]] = pc[loop[d]]
  BY <1>4 DEF MapTypes
<1>6. \A u \in Thread : serves'[u] # NoConnection => loop'[serves'[u]] = u
  BY DEF MapTypes, EntriesInv
<1>7. c \in sslConns' <=> Open(c)'
  BY <1>1 DEF EntriesInv, Open
<1>8. \A d \in Connection : Busy(d)' =>
        \/ pc'[loop'[d]] = "insert" /\ Open(d)' /\ d \notin sslConns'
        \/ pc'[loop'[d]] = "start" /\ Open(d)' /\ d \in sslConns'
        \/ pc'[loop'[d]] = "erase" /\ tcp'[d] = "down" /\ d \in sslConns'
  BY <1>2, <1>3, <1>5 DEF EntriesInv
<1>9. \A d \in Connection : ~Busy(d)' => (d \in sslConns' <=> Open(d)')
  BY <1>3, <1>7 DEF EntriesInv
<1> QED
  BY <1>6, <1>8, <1>9 DEF EntriesInv

LEMMA EntriesStep == TypeOK /\ EntriesInv /\ [Next]_vars => EntriesInv'
<1> SUFFICES ASSUME TypeOK, EntriesInv, [Next]_vars PROVE EntriesInv'
  OBVIOUS
<1>a. MapTypes
  BY DEF TypeOK, MapTypes
<1>1. CASE UNCHANGED <<tcp, loop, sslConns, pc, serves>>
  BY <1>1 DEF EntriesInv, Busy, Open
<1>2. ASSUME NEW t \in Thread, NEW c \in Connection, ConnectionUp(t, c) PROVE EntriesInv'
  <2>1. CASE sslCtx = NoConfig
    BY <1>1, <1>2, <2>1 DEF ConnectionUp, thread
  <2>2. CASE sslCtx # NoConfig
    <3>1. /\ pc[t] = "idle" /\ loop[c] = t /\ tcp[c] = "new"
          /\ pc' = [pc EXCEPT ![t] = "insert"] /\ serves' = [serves EXCEPT ![t] = c]
          /\ tcp' = [tcp EXCEPT ![c] = "up"] /\ UNCHANGED <<loop, sslConns>>
      BY <1>2, <2>2 DEF ConnectionUp, Enter
    <3>2. ~Busy(c)
      BY <1>a, <3>1, SslAssumption DEF MapTypes, Busy
    <3>3. c \notin sslConns
      BY <3>1, <3>2 DEF EntriesInv, Open
    <3> QED
      BY <1>a, <3>1, <3>3, EntriesEnter
  <2> QED
    BY <2>1, <2>2
<1>3. ASSUME NEW t \in Thread, InsertEntry(t) PROVE EntriesInv'
  <2>1. /\ pc[t] = "insert" /\ pc' = [pc EXCEPT ![t] = "start"]
        /\ sslConns' = sslConns \cup {serves[t]} /\ UNCHANGED <<loop, tcp, serves>>
    BY <1>3 DEF InsertEntry
  <2>2. serves[t] \in Connection /\ loop[serves[t]] = t
    BY <1>a, <2>1 DEF MapTypes, EntriesInv
  <2>3. \A d \in Connection : (Busy(d)' <=> Busy(d)) /\ (Open(d)' <=> Open(d))
    BY <2>1 DEF Busy, Open
  <2>4. \A d \in Connection : d # serves[t] /\ Busy(d) => loop[d] # t
    BY DEF Busy
  <2>5. \A d \in Connection : d # serves[t] /\ Busy(d) =>
          pc'[loop'[d]] = pc[loop[d]] /\ (d \in sslConns' <=> d \in sslConns)
    BY <1>a, <2>1, <2>4 DEF MapTypes
  <2>6. /\ Busy(serves[t]) /\ pc'[loop'[serves[t]]] = "start"
        /\ Open(serves[t]) /\ serves[t] \in sslConns'
    BY <1>a, <2>1, <2>2 DEF MapTypes, Busy, EntriesInv
  <2>7. \A d \in Connection : Busy(d)' =>
          \/ pc'[loop'[d]] = "insert" /\ Open(d)' /\ d \notin sslConns'
          \/ pc'[loop'[d]] = "start" /\ Open(d)' /\ d \in sslConns'
          \/ pc'[loop'[d]] = "erase" /\ tcp'[d] = "down" /\ d \in sslConns'
    BY <2>1, <2>2, <2>3, <2>5, <2>6 DEF EntriesInv
  <2>8. \A d \in Connection : ~Busy(d)' => (d \in sslConns' <=> Open(d)')
    BY <2>1, <2>3, <2>6 DEF EntriesInv
  <2>9. \A u \in Thread : serves'[u] # NoConnection => loop'[serves'[u]] = u
    BY <2>1 DEF EntriesInv
  <2> QED
    BY <2>7, <2>8, <2>9 DEF EntriesInv
<1>4. ASSUME NEW t \in Thread, StartHandshake(t) PROVE EntriesInv'
  <2> DEFINE c == serves[t]
  <2>1. /\ pc[t] = "start" /\ pc' = [pc EXCEPT ![t] = "idle"]
        /\ serves' = [serves EXCEPT ![t] = NoConnection] /\ UNCHANGED <<loop, sslConns>>
    BY <1>4 DEF StartHandshake, Leave
  <2>2. c \in Connection /\ loop[c] = t /\ Busy(c)
    BY <1>a, <2>1 DEF MapTypes, EntriesInv, Busy
  <2>3. tcp' = [tcp EXCEPT ![c] = "half"] \/ tcp' = tcp
    BY <1>4, <1>a DEF StartHandshake, Becomes, MapTypes
  <2> HIDE DEF c
  <2>4. Open(c)
    BY <2>1, <2>2 DEF EntriesInv
  <2>5. \A d \in Connection : (Open(d)' <=> Open(d)) /\ (d # c => tcp'[d] = tcp[d])
    BY <1>a, <2>2, <2>3, <2>4 DEF Open, MapTypes
  <2> QED
    BY <1>a, <2>1, <2>2, <2>5, EntriesLeave DEF c
<1>5. ASSUME NEW t \in Thread, NEW c \in Connection, ConnectionDown(t, c) PROVE EntriesInv'
  <2>1. /\ pc[t] = "idle" /\ loop[c] = t /\ Open(c)
        /\ pc' = [pc EXCEPT ![t] = "erase"] /\ serves' = [serves EXCEPT ![t] = c]
        /\ tcp' = [tcp EXCEPT ![c] = "down"] /\ UNCHANGED <<loop, sslConns>>
    BY <1>5 DEF ConnectionDown, Enter
  <2>2. ~Busy(c)
    BY <1>a, <2>1, SslAssumption DEF MapTypes, Busy
  <2>3. c \in sslConns
    BY <2>1, <2>2 DEF EntriesInv
  <2> QED
    BY <1>a, <2>1, <2>3, EntriesEnter
<1>6. ASSUME NEW t \in Thread, EraseEntry(t) PROVE EntriesInv'
  <2> DEFINE c == serves[t]
  <2>1. /\ pc[t] = "erase" /\ pc' = [pc EXCEPT ![t] = "idle"]
        /\ serves' = [serves EXCEPT ![t] = NoConnection]
        /\ sslConns' = sslConns \ {c} /\ UNCHANGED <<loop, tcp>>
    BY <1>6 DEF EraseEntry, Leave
  <2>2. c \in Connection
    BY <1>a, <2>1 DEF MapTypes
  <2>3. \A d \in Connection : (Open(d)' <=> Open(d)) /\ (d # c => tcp'[d] = tcp[d])
    BY <2>1 DEF Open
  <2> HIDE DEF c
  <2> QED
    BY <1>a, <2>1, <2>2, <2>3, EntriesLeave DEF c
<1>7. ASSUME NEW t \in Thread, NEW c \in Connection, NEW n \in 1..MaxPieces, Deliver(t, c, n)
      PROVE  EntriesInv'
  <2>1. /\ pc[t] = "idle" /\ loop[c] = t /\ Open(c)
        /\ UNCHANGED <<loop, sslConns, pc, serves>>
    BY <1>7 DEF Deliver, thread
  <2>2. tcp' = [tcp EXCEPT ![c] = "half"] \/ tcp' = tcp
    BY <1>7, <1>a DEF Deliver, Becomes, MapTypes
  <2>3. \A d \in Connection : (Open(d)' <=> Open(d)) /\ (d # c => tcp'[d] = tcp[d])
    BY <1>a, <2>1, <2>2 DEF Open, MapTypes
  <2>4. ~Busy(c)
    BY <1>a, <2>1, SslAssumption DEF MapTypes, Busy
  <2>5. \A d \in Connection : Busy(d)' <=> Busy(d)
    BY <2>1 DEF Busy
  <2> QED
    BY <2>1, <2>3, <2>4, <2>5 DEF EntriesInv
<1> QED
  BY <1>1, <1>2, <1>3, <1>4, <1>5, <1>6, <1>7
     DEF Next, Step, SetUpStep, ThreadStep, EnableSSL, SetSslConfig, Start, ClientSend,
         DataRace, setup, client, thread, vars

\* As long as no two threads meet in the map, it holds the open connections
\* and nothing else whenever no thread is in onConnection (ssl.md 122).
THEOREM EntriesCorrect == Spec => []EntriesAreTheConnections
<1>1. Init => EntriesInv
  BY SslAssumption DEF Init, EntriesInv, Busy, Open
<1>2. TypeOK /\ EntriesInv => EntriesAreTheConnections
  <2> SUFFICES ASSUME TypeOK, EntriesInv, \A t \in Thread : pc[t] = "idle"
               PROVE  sslConns = {c \in Connection : Open(c)}
    BY DEF EntriesAreTheConnections
  <2>1. \A c \in Connection : ~Busy(c)
    BY SslAssumption DEF TypeOK, Busy
  <2> QED
    BY <2>1 DEF EntriesInv, TypeOK
<1> QED
  BY <1>1, <1>2, EntriesStep, SslTypeCorrect, PTL DEF Spec
=============================================================================
