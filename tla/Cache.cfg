SPECIFICATION Spec
CONSTANTS
    p1 = p1
    p2 = p2
    p3 = p3
    k1 = k1
    k2 = k2
    k3 = k3
    NoKey = NoKey
    Index = Index
    Procs <- TwoProcs
    Keys <- ThreeKeys
    Names <- ThreeNames
    Capacity = 2
    MaxCrashes = 1
INVARIANT ReadyIsWhole
INVARIANT WithinCapacity
PROPERTY ItemsSafeInUse
SYMMETRY Symmetry
