SPECIFICATION Spec
CONSTANTS
    PyThreads = {main}
    Syncer = syncer
    NoThread = NoThread
    MaxDepth = 4
    ListenersLocked = TRUE
PROPERTIES
    EveryThreadGetsIn
    CloseReturns
    ListenerCallsReturn
