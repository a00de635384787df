CONSTANTS
    c1 = c1
    c2 = c2
    flag = flag
    broken = broken
    Context = {c1, c2}
    Image = {flag, broken}
    Unloadable = {broken}
    Adds <- Textures
    Options = {1}
    NoTexture = NoTexture
    Sharing = {TRUE, FALSE}
    MaxTextures = 2
    MaxCalls = 4
    MaxReserved = 1
    MaxNames = 4
    MaxRaces = 1
SPECIFICATION Spec
SYMMETRY ContextSymmetry
INVARIANTS
    LoadedIsCurrent
    SharedIdsAgree
PROPERTIES
    BindShowsTexture
