SPECIFICATION Spec
CONSTANTS
    p1 = p1
    quick = quick
    box = box
    Peers = {p1}
    Calls <- TwoCalls
    Size <- BodySizes
    Spinning <- BoxCalls
    MaxConns = 2
    MaxCalls = 2
PROPERTIES
    ImplementsCalls
    NothingFromTheGone
    CallsGetThrough
CHECK_DEADLOCK FALSE
