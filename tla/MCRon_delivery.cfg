CONSTANTS
    UUIDs = {u}
    MaxConns = 1
    MaxCommands = 2
    MaxLoad = 4
    MaxBoots = 1
    MaxInFlight = 1
    MaxQueue = 1
    Ops = {"clear", "clearResponses", "fail"}
SPECIFICATION Spec
CHECK_DEADLOCK FALSE
PROPERTIES
    
    ReceivedIsLogged
