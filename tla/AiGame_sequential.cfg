SPECIFICATION Spec
CONSTANTS
    BOARD_SIZE = 3
    WinLength = 3
    Thread = {t1}
    MaxCalls = 9
INVARIANTS TypeOK BoardIsTheMoves HumanWinIsALine AiMeetsThreats
PROPERTY GameOverIsFinal
CHECK_DEADLOCK FALSE
