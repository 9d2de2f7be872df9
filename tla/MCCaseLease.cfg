SPECIFICATION Spec
CONSTANTS
    c1 = c1
    n1 = n1
    k1 = k1
    o1 = o1
    o2 = o2
    o3 = o3
    Cases = {c1}
    Foreign = {}
    OldSchema = {}
    Names = {n1}
    Keys = {k1}
    Ops = {o1, o2, o3}
    NoCase = NoCase
    NoName = NoName
    NoKey = NoKey
    NoOp = NoOp
SYMMETRY Symmetry
INVARIANTS
    WorkBlocksOpens
CHECK_DEADLOCK FALSE
