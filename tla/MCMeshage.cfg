CONSTANTS
    left = left
    mid = mid
    right = right
    Nodes = {left, mid, right}
    None = None
    Dials <- Line
    Targets <- FromEnd
    MaxLinks = 2
    MaxMSA = 1
    MaxSends = 1
    Faults = {"timeout"}
SPECIFICATION LineSpec
CHECK_DEADLOCK FALSE
INVARIANTS
    TypeOK
    AtMostOnce
    RoutesCurrent
PROPERTIES
    SendReturns
