SPECIFICATION Spec
CONSTANTS
    c1 = c1
    n1 = n1
    k1 = k1
    o1 = o1
    o2 = o2
    Cases = {c1}
    Foreign = {c1}
    OldSchema = {}
    Names = {n1}
    Keys = {k1}
    Ops = {o1, o2}
    NoCase = NoCase
    NoName = NoName
    NoKey = NoKey
    NoOp = NoOp
SYMMETRY Symmetry
INVARIANTS
    RegisteredHasItsBlobs
CHECK_DEADLOCK FALSE
