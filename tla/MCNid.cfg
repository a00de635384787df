CONSTANTS
    None = None
    Device = {1, 2}
    NElems <- Sizes
    Programs <- Drivers
    MaxChanges = 4
SPECIFICATION FairSpec
CHECK_DEADLOCK FALSE
INVARIANTS
    NothingSkipped
    AnswersWhatIsAsked
PROPERTIES
    ViewGoesForward
    DumpReturns
    AllArrive
