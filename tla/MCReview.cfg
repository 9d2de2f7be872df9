SPECIFICATION Spec
CONSTANTS
    f1 = f1
    c1 = c1
    Calls = {c1}
    Findings = {f1}
    Entities = {1, 2, 3, 4, 5, 6, 7}
    Activities = {1, 2, 3, 4, 5}
    Outcomes = {"succeeded"}
    KindOf <- KindsInOrder
    Queries <- Offered
    Policies = {"input-bytes", "full-provenance", "finding-context"}
    MemberSets = {{1}}
    MaxUsed = 1
    MaxRunning = 1
    PageLimit = 1
    NoActivity = NoActivity
    NoEntity = NoEntity
    NoBody = NoBody
    NoRequest = NoRequest
INVARIANTS
    HistoriesAreLinear
    SelectionsAreFrozen
    ProjectionsAreClosed
    PagesArePinned
CHECK_DEADLOCK FALSE
