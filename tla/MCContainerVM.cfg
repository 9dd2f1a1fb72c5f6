CONSTANTS
    br1 = br1
    br2 = br2
    MaxLaunches = 2
    Bridges = {br1, br2}
    Default = br1
    Off = Off
    Commands = {"start", "stop", "kill", "flush", "connect"}
    Faults = {"cgroup", "overlay", "alias", "pipe", "exec", "net", "veth", "addtap", "freeze", "thaw"}
SPECIFICATION Spec
CHECK_DEADLOCK FALSE
INVARIANTS
    KillSound
    FrozenUnlessRunning
    TapsFollow
PROPERTIES
    ImplementsVM
    
