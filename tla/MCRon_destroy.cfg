CONSTANTS
    UUIDs = {u, v}
    MaxConns = 2
    MaxCommands = 0
    MaxLoad = 4
    MaxBoots = 1
    MaxInFlight = 1
    MaxQueue = 1
    Ops = {"destroy", "pipe"}
SPECIFICATION Spec
CHECK_DEADLOCK FALSE

    
PROPERTIES
    DestroyReturns
