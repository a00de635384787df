CONSTANTS
    s1 = s1
    s2 = s2
    s3 = s3
    Slave = {s1, s2, s3}
    Async = {s3}
    Thread = {t1}
    MpId <- IdsAreRows
    NoRow = NoRow
    LongMax = 100
    Lossy = {}
    MaxFrame = 2
SPECIFICATION Spec
SYMMETRY SyncSymmetry
INVARIANTS
    ShownOnlyWhenAllDrawn
    NoUpdateWhileDrawing
    BarriersAgree
PROPERTIES
    LockStepSpec
