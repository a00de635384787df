CONSTANTS
    Delays = {0, 2, 4}
    BusyLimit = 2
    MaxTime = 4
    MaxAdds = 5
    MaxPending = 5
SPECIFICATION FairSpec
INVARIANTS
    EachOnce
    NoOversleep
PROPERTIES
    AllFire
