SPECIFICATION FairSpec
CONSTANTS
    r1 = r1
    r2 = r2
    k1 = k1
    k2 = k2
    NoKey = NoKey
    NoConn = NoConn
    Runs <- OneRun
    Keys <- OneKey
    MaxConns = 3
    MaxOutput = 1
    LaunchMethods <- LocalAndRemote
    FreshKeys = TRUE
    MaxPending = 1
    Failures <- AnyFailure
INVARIANTS
    SafeAfterRecovery
    RecoveredPeerAnonymous
PROPERTIES
    OnlyFailedLaunchMisleads
    StopTerminates
    FinishedPeerQuits
    DeadRunForgotten
CHECK_DEADLOCK FALSE
