CONSTANTS
    Device = {d1}
    App = App
    Timer = Timer
    NoThread = NoThread
    d1 = d1
    d2 = d2
    n1 = n1
    n2 = n2
    AppCalls = {"queue", "discard", "unblock"}
    Name = {n1}
    AnyName = AnyName
    Kinds = {FALSE}
    Table <- OneFilter
    Callbacks <- OneCallback
    Controlled = {n1}
    NoEvent = NoEvent
    MaxEvents = 3
SPECIFICATION FairSpec
PROPERTIES
    EventsDone
    CallsReturn
