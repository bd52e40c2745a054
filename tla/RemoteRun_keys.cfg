SPECIFICATION Spec
CONSTANTS
    r1 = r1
    r2 = r2
    k1 = k1
    k2 = k2
    NoKey = NoKey
    NoConn = NoConn
    Runs <- TwoRuns
    Keys <- OneKey
    MaxConns = 1
    MaxOutput = 0
    LaunchMethods <- Remote
    FreshKeys = FALSE
    MaxPending = 1
    Failures <- NoFailure
INVARIANTS
    KeysUnique
CHECK_DEADLOCK FALSE
