SPECIFICATION Spec
CONSTANTS
    h1 = h1
    h2 = h2
    h3 = h3
    h4 = h4
    HostNames = {h1, h2, h3, h4}
    Here = h1
    Capacity <- Sizes
    Batches <- Various
    MaxQueue = 3
    MaxVMs = 3
    MaxLost = 1
    Localhost = Localhost
    Unset = Unset
    Absent = Absent
    Ops = {"mv", "delhost", "gone"}
INVARIANTS LeastLoadedFirst AssignmentSound 
SYMMETRY Symmetry
