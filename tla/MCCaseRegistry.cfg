SPECIFICATION Spec
CONSTANTS
    c1 = c1
    c2 = c2
    n1 = n1
    n2 = n2
    k1 = k1
    o1 = o1
    o2 = o2
    o3 = o3
    Cases = {c1, c2}
    Foreign = {c2}
    OldSchema = {c2}
    Names = {n1, n2}
    Keys = {k1}
    Ops = {o1, o2, o3}
    NoCase = NoCase
    NoName = NoName
    NoKey = NoKey
    NoOp = NoOp
SYMMETRY Symmetry
INVARIANTS
    RegisteredIsPublished
PROPERTIES
    LeaseIsKept
CHECK_DEADLOCK FALSE
