CONSTANTS
    Party = {p1, p2, p3}
    MaxRounds = 4
SPECIFICATION BarrierFairSpec
PROPERTIES
    RoundsSpec
    EveryoneReturns
