SPECIFICATION Spec
CONSTANTS
    BOARD_SIZE = 3
    WinLength = 3
    Thread = {t1, t2}
    MaxCalls = 4
SYMMETRY ThreadSymmetry
INVARIANT HumanNeedsALine
CHECK_DEADLOCK FALSE
