SPECIFICATION FairSpec
CONSTANTS
    Version = {tls12, tls13}
    Connection = {c1, c2}
    Thread = {t1, t2}
    NoConnection = NoConnection
    NoConfig = NoConfig
    MaxPieces = 3
INVARIANTS TypeOK Silent EntriesAreTheConnections UnconfiguredServesNobody
PROPERTY RefusalIsSeen
CHECK_DEADLOCK FALSE
