SPECIFICATION FairSpec
CONSTANTS
    Version = {tls12, tls13}
    Connection = {c1}
    Thread = {t1}
    NoConnection = NoConnection
    NoConfig = NoConfig
    MaxPieces = 4
PROPERTY HandshakeGoesOn
CHECK_DEADLOCK FALSE
