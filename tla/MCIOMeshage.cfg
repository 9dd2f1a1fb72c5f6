CONSTANTS
    s = s
    a = a
    b = b
    f1 = f1
    f2 = f2
    empty = empty
    Nodes = {s, a, b}
    Files = {f1}
    NumParts <- Sizes
    Origin = {s}
    Job <- EveryoneOnce
    MaxAttempts = 1
    QueueLen = 1
    Between <- Line
    Absent = Absent
    Overlap = FALSE
    Faults = {"late"}
SPECIFICATION Spec
CHECK_DEADLOCK FALSE
INVARIANTS
    PartsSound
    HeldIsServed
