CONSTANTS
    s1 = s1
    s2 = s2
    s3 = s3
    Slave = {s1, s2}
    Async = {}
    Thread = {t1, t2}
    MpId <- IdsAreRows
    NoRow = NoRow
    LongMax = 100
    Lossy = {s1}
    MaxFrame = 1
SPECIFICATION FairSpec
PROPERTIES
    FrameCompletes
    ExitCompletes
