SPECIFICATION Spec
CONSTANTS
    a = a
    b = b
    p1 = p1
    p2 = p2
    u = u
    v = v
    l = l
    Nodes = {a, b}
    Pipes = {p1, p2}
    Readers = {1, 2, 3, 4}
    Values = {u, v}
    Pipelines = {l}
    NodeOf <- Places
    PipeOf <- Names
    Source <- Sources
    Scripts <- Scenarios
    MaxGen = 2
    Handler = Handler
    Cli = Cli
    None = None
INVARIANTS WritersSound OpenChannels DeliverySound 
CHECK_DEADLOCK FALSE
