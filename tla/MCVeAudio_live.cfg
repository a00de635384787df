CONSTANTS
    Thread = {t1}
    Waiter = {}
    Free = Free
    NChannels = 2
    Process = {p1}
    ProcOf <- OneProcess
    Loops <- MinusOneOrZero
    NFrames = 1
    Moves = FALSE
    MaxInst = 2
    MaxUpdates = 0
    p1 = p1
    p2 = p2
SPECIFICATION FairSpec
PROPERTIES
    StopEnds
    AutoDispose
