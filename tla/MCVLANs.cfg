CONSTANTS
    Namespaces = {n1, n2}
    Global = global
    Values = {x}
    Prefixes = {{x}}
    BlacklistedVLAN = bl
    Ids = {1, 2, 3}
    VLANStart = 1
    VLANEnd = 3
    None = None
SYMMETRY Symmetry
SPECIFICATION Spec
INVARIANTS
    TypeOK
    MapsInverse
    RangesSound
PROPERTY BlacklistKept
