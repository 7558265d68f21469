SPECIFICATION SafetySpec
CONSTANTS
    PyThreads = {main, worker}
    Syncer = syncer
    NoThread = NoThread
    MaxDepth = 4
    ListenersLocked = FALSE
INVARIANTS
    TypeOK
    PythonUnderGil
    NativeWithoutGil
PROPERTIES
    ImplementsPythonMutex
