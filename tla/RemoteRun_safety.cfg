SPECIFICATION Spec
CONSTANTS
    r1 = r1
    r2 = r2
    k1 = k1
    k2 = k2
    NoKey = NoKey
    NoConn = NoConn
    Runs <- TwoRuns
    Keys <- TwoKeys
    MaxConns = 1
    MaxOutput = 1
    LaunchMethods <- Remote
    FreshKeys = TRUE
    MaxPending = 1
    Failures <- NoFailure
SYMMETRY Symmetry
INVARIANTS
    TypeOK
    RunningKeyHasClient
    StartedOnce
    OptionsBeforeWorker
    StopAfterStart
    QuitAfterWorker
    LogComplete
    ButtonHonest
PROPERTIES
    ImplementsLifecycle
CHECK_DEADLOCK FALSE
