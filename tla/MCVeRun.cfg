CONSTANTS
    wall = wall
    desk = desk
    inner = inner
    sound = sound
    t1 = t1
    t2 = t2
    t3 = t3
    Slave = {wall, desk, inner, sound}
    Method <- Methods
    Unreachable = {wall, desk}
    NoSlave = NoSlave
    MAX_SLAVES = 3
    MaxPipe = 2
    MaxFlight = 2
    Delayed = {t1, t2, t3}
    Early = {t1, t2}
    Windows <- OfWindows
    Channels <- OfChannels
SPECIFICATION FairSpec
CHECK_DEADLOCK FALSE
INVARIANTS
    StartedOnce
    FirstIsInit
    EndsAgree
PROPERTIES
    AllStart
    ReliableServed
