CONSTANTS
    Device = {d1, d2}
    App = App
    Timer = Timer
    NoThread = NoThread
    d1 = d1
    d2 = d2
    n1 = n1
    n2 = n2
    AppCalls = {"queue", "discard", "unblock", "run", "process"}
    Name = {n1, n2}
    AnyName = AnyName
    Kinds = {TRUE, FALSE}
    Table <- ValuatorFirst
    Callbacks <- TwoCallbacks
    Controlled = {}
    NoEvent = NoEvent
    MaxEvents = 3
SPECIFICATION Spec
INVARIANTS
    EventsKept
    InOrder
SYMMETRY Drivers
