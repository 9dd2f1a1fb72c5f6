CONSTANTS
    UUIDs = {u}
    MaxConns = 2
    MaxCommands = 2
    MaxLoad = 4
    MaxBoots = 2
    MaxInFlight = 1
    MaxQueue = 1
    Ops = {"delete", "clear", "fail", "expire"}
SPECIFICATION Spec
CHECK_DEADLOCK FALSE
INVARIANTS
    TypeOK
    ClientsServed
PROPERTIES
    NoResend
