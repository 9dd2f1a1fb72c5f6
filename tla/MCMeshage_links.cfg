CONSTANTS
    left = left
    mid = mid
    right = right
    Nodes = {left, mid}
    None = None
    Dials <- Pair
    Targets = {}
    MaxLinks = 2
    MaxMSA = 0
    MaxSends = 0
    Faults = {"hangup", "full"}
SPECIFICATION FairSpec
CHECK_DEADLOCK FALSE
INVARIANTS
    ClientHasHandler
PROPERTIES
    HandshakeEnds
    ClosedIsRemoved
