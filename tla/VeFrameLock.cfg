CONSTANTS
    Handler = {h1, h2, h3}
    Renderer = Renderer
    NoThread = NoThread
    HasAnim = TRUE
    HasIdle = TRUE
SPECIFICATION FairSpec
INVARIANTS
    NoCallbackWhileDrawing
    NoLostWakeup
PROPERTIES
    OnlyEarlyHandlersEnter
    RendererDraws
    RedisplayDrawn
