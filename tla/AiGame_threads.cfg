SPECIFICATION FairSpec
CONSTANTS
    BOARD_SIZE = 2
    WinLength = 3
    Thread = {t1, t2}
    MaxCalls = 3
INVARIANTS StonesWerePlayed
PROPERTY CallsReturn
CHECK_DEADLOCK FALSE
