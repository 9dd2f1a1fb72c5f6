CONSTANTS
    s = s
    a = a
    b = b
    f1 = f1
    f2 = f2
    empty = empty
    Nodes = {s, a}
    Files = {f1, f2, empty}
    NumParts <- Small
    Origin = {s}
    Job <- Repeatedly
    MaxAttempts = 1
    QueueLen = 1
    Between <- Line
    Absent = Absent
    Overlap = FALSE
    Faults = {"late", "delete"}
SPECIFICATION Spec
CHECK_DEADLOCK FALSE

    
PROPERTIES
    TransfersEnd
