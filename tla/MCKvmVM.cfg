CONSTANTS
    MaxLaunches = 2
    NICs = {nic}
    Commands = {"start", "stop", "kill", "flush", "migrate"}
    Faults = {"disk", "alias", "exec", "connect", "cont", "stop", "bridge"}
SPECIFICATION Spec
CHECK_DEADLOCK FALSE
INVARIANTS
    TypeOK
    LifeSound
    NoFatal
    KillSound
PROPERTIES
    KillReturns
    ImplementsVM
