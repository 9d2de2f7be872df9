SPECIFICATION Spec
CONSTANTS
    c1 = c1
    c2 = c2
    x1 = x1
    x2 = x2
    d1 = d1
    k1 = k1
    Calls = {c1, c2}
    Objects = {x1, x2}
    Destinations = {d1}
    Keys = {k1}
    NoCall = NoCall
    NoKey = NoKey
    NoPackage = NoPackage
    NoRequest = NoRequest
    Offered <- OneOrNone
SYMMETRY Symmetry
INVARIANTS
    DestinationsAreWhole
    SnapshotInputsAreItsCatalog
    PartialsAreSwept
PROPERTIES
    PackagesStand
    ImplementsKeyedEffects
CHECK_DEADLOCK FALSE
