----------------------------- MODULE SslContext -----------------------------
(***************************************************************************)
(* ssl::SslContext and SslConfig: what initialize makes of a               *)
(* configuration.  Files and OpenSSL calls are kept as the one thing that  *)
(* can go wrong with each, the versions as the set that stays enabled.     *)
(***************************************************************************)

CONSTANT Version     \* the versions that OpenSSL itself would negotiate

\* What may be wrong with a configuration.  A cipher list that is empty is
\* not set, and one that is set may hold no cipher OpenSSL knows.
Problem == {"none", "context", "certificate", "key", "mismatch", "chain", "ciphers"}

Config == [problem : Problem, version : Version]

\* loadCerticates: the certificate, the key, that the key fits, the chain.
LoadCerticates(config) ==
    config.problem \notin {"certificate", "key", "mismatch", "chain"}

\* setupProtocol returns false for its cipher list only.
SetupProtocol(config) == config.problem # "ciphers"

\* initialize: true if every part was.
Initialize(config) ==
    /\ config.problem # "context"
    /\ LoadCerticates(config)
    /\ SetupProtocol(config)

\* setupProtocol: the options are SSL_OP_NO_ and the configured version.
Enabled(config) == Version \ {config.version}
=============================================================================
