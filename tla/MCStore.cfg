\* Two processes, two jobs, two indexes.
SPECIFICATION Spec
CONSTANTS
    p1 = p1
    p2 = p2
    x1 = x1
    x2 = x2
    j1 = j1
    j2 = j2
    t1 = t1
    None = None
    Processes = {p1, p2}
    Indexes = {x1, x2}
    Jobs = {j1, j2}
    Targets = {t1}
    MaxRevision = 3
    MaxCrashes = 1
SYMMETRY Symmetry
INVARIANTS
    SingleAuthority
PROPERTIES
    NoBlindCommit
    ImplementsLog
