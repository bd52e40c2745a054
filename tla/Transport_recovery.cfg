SPECIFICATION Spec
CONSTANTS
    p1 = p1
    quick = quick
    box = box
    Peers = {p1}
    Calls <- TwoCalls
    Size <- BodySizes
    Spinning <- BoxCalls
    MaxConns = 2
    MaxCalls = 2
INVARIANTS
    PeersGetWhatWasSent
CHECK_DEADLOCK FALSE
