SPECIFICATION Spec
CONSTANTS
    MaxNodes = 4
    MaxCalls = 3
    MaxActions = 3
    k1 = k1
    k2 = k2
    k3 = k3
    v1 = v1
    v2 = v2
    Keys = {k1, k2, k3}
    Views = {v1, v2}
    MaxHeld = 2
    MaxLookup = 2
    Ttl = 1
    MaxNow = 2
SYMMETRY Symmetry
INVARIANTS
    FlatIsTheTree
    EachCallItsOutcome
    BlameIsWarranted
    EachActionSaidOnce
    TaggedInTime
PROPERTY
    OnlyOlderLooksForget
