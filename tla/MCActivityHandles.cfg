SPECIFICATION Spec
CONSTANTS
    a1 = a1
    a2 = a2
    e1 = e1
    e2 = e2
    h1 = h1
    h2 = h2
    b1 = b1
    Activities = {a1, a2}
    Entities = {e1, e2}
    Handles = {h1, h2}
    Blobs = {b1}
    Keys = {}
    Outcomes = {"succeeded", "interrupted"}
    Asked = {"assertion", "finding"}
    NoActivity = NoActivity
    NoEntity = NoEntity
    NoHandle = NoHandle
    NoBlob = NoBlob
    NoKey = NoKey
    NoRequest = NoRequest
SYMMETRY Symmetry
INVARIANTS
    InputsPrecedeOutputs
    TerminalFlagIsTrue
    FinishDrainsItsHandle
PROPERTIES
    ImplementsProvenance
CHECK_DEADLOCK FALSE
