CONSTANTS
    Thread = {t1, t2}
    Waiter = {t1, t2}
    Free = Free
    NChannels = 2
    Process = {p1, p2}
    ProcOf <- TwoProcesses
    Loops = {0, 1}
    NFrames = 2
    Moves = TRUE
    MaxInst = 2
    MaxUpdates = 1
    p1 = p1
    p2 = p2
CHECK_DEADLOCK FALSE
SPECIFICATION Spec
SYMMETRY ThreadSymmetry
INVARIANTS
    RowsAgree
    IdsAgree
    WaitedForKept
    FinishedWakes
PROPERTIES
    SlavesGiveUp
