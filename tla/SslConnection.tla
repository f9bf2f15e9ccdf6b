--------------------------- MODULE SslConnection ---------------------------
(***************************************************************************)
(* ssl::SslConnection: the TLS end of one connection as a record, and the  *)
(* functions muduo and HttpServer call on it.  OpenSSL is external: it     *)
(* reads readBio_, writes writeBio_ and moves on through its handshake.    *)
(*                                                                         *)
(* The client's bytes are pieces: the two halves of its hello ("head" and  *)
(* "tail": TCP may cut it), its second flight ("finish"), encrypted        *)
(* requests ("data"), and bytes that are no TLS ("junk").                  *)
(*                                                                         *)
(* Without callers in the repository, and left out: send, the one function *)
(* that empties writeBio_, bioWrite, bioRead, bioCtrl, onEncrypted,        *)
(* onDecrypted, getLastError and handleError.                              *)
(***************************************************************************)
EXTENDS Integers, SequencesExt

Piece == {"head", "tail", "finish", "data", "junk"}
Reply == {"flight", "finished", "alert"}

SSLState == {"HANDSHAKE", "ESTABLISHED"}    \* no function sets the others

\* What OpenSSL waits for or has come to.
Engine == {"hello", "flight", "done", "failed"}

\* buf is the connection's input buffer; sent what was given to conn_->send.
SslConn == [state : SSLState, engine : Engine, readBio : Seq(Piece),
            writeBio : Seq(Reply), buf : Seq(Piece), sent : Seq(Reply)]

NewSslConnection ==
    [state |-> "HANDSHAKE", engine |-> "hello", readBio |-> <<>>,
     writeBio |-> <<>>, buf |-> <<>>, sent |-> <<>>]

---------------------------------------------------------------------------
(* OpenSSL.                                                                *)

Expected(s) == IF s.engine = "hello" THEN <<"head", "tail">> ELSE <<"finish">>
Waiting(s)  == s.engine \in {"hello", "flight"}
Complete(s) == Waiting(s) /\ IsPrefix(Expected(s), s.readBio)
Wrong(s)    == Waiting(s) /\ ~Complete(s) /\ ~IsPrefix(s.readBio, Expected(s))

Refuse(s) == [s EXCEPT !.engine = "failed", !.writeBio = Append(@, "alert")]

Accept(s) ==
    [s EXCEPT !.engine   = IF s.engine = "hello" THEN "flight" ELSE "done",
              !.readBio  = SubSeq(@, Len(Expected(s)) + 1, Len(@)),
              !.writeBio = Append(@, IF s.engine = "hello" THEN "flight" ELSE "finished")]

\* One message: a hello needs a version in common.
ReadMessage(agreed) == [s \in SslConn |->
    IF Wrong(s) \/ (Complete(s) /\ s.engine = "hello" /\ ~agreed) THEN Refuse(s)
    ELSE IF Complete(s) THEN Accept(s) ELSE s]

\* SSL_do_handshake goes on until it lacks input: two messages at most.
DoHandshake(s, agreed) == ReadMessage(agreed)[ReadMessage(agreed)[s]]

---------------------------------------------------------------------------
(* SslConnection.                                                          *)

\* Bug: none of the code; the loop of send, after SSL_do_handshake.
HandleHandshakeFlushes(s, agreed) ==
    LET done == DoHandshake(s, agreed)
    IN  [done EXCEPT !.state = IF done.engine = "done" THEN "ESTABLISHED" ELSE @,
                     !.sent = @ \o done.writeBio,
                     !.writeBio = <<>>]

\* Bug: an error goes to handleError, which sets state_ to ERROR.
HandleHandshakeErrs(s, agreed) ==
    LET done == DoHandshake(s, agreed)
    IN  [done EXCEPT !.state = IF done.engine = "failed" THEN "ERROR" ELSE @]

\* handleHandshake: result 1 establishes the connection; WANT_READ and
\* WANT_WRITE, and errors, leave the state alone.  writeBio_ is not read.
HandleHandshake(s, agreed) ==
    LET done == DoHandshake(s, agreed)
    IN  [done EXCEPT !.state = IF done.engine = "done" THEN "ESTABLISHED" ELSE @]

\* Bug: an error of the handshake is logged but the connection kept.
NeverShutsDown(s) == FALSE

\* handleHandshake's default case shuts the connection down.
ShutsDown(s) == s.engine = "failed"

\* onRead.  In HANDSHAKE the buffer moves to readBio_.  In ESTABLISHED it is
\* not touched: SSL_read finds what the handshake left in readBio_, each
\* record is given to messageCallback_, HttpServer::onMessage, which calls
\* onRead again and then finds decryptedBuffer_ empty, for onRead put the
\* record in a buffer of its own; so the records are consumed for nothing.
OnRead(s, bytes, agreed) ==
    LET buf == s.buf \o bytes
    IN  IF s.state = "HANDSHAKE"
        THEN HandleHandshake([s EXCEPT !.readBio = @ \o buf, !.buf = <<>>], agreed)
        ELSE [s EXCEPT !.readBio = <<>>, !.buf = buf]
=============================================================================
