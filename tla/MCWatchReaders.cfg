\* Two rounds read concurrently, and a consumer with a cursor, beside an observer that stops, crashes and starts.
SPECIFICATION Spec
CONSTANTS
    t1 = t1
    t2 = t2
    v1 = v1
    v2 = v2
    m1 = m1
    d1 = d1
    d2 = d2
    a = a
    b = b
    x1 = x1
    x2 = x2
    None = None
    Targets = {t1, t2}
    Valid = {v1}
    Malformed = {}
    States = {"done"}
    Dialogs = {}
    Texts = {a}
    ReviewInterval = 1
    MaxDelay = 1
    StallAfter = 1
    Consumers = {x1}
    Limit = 1
    HasDeadline = FALSE
    Failures = {}
    MaxChanges = 1
    MaxCrashes = 1
SYMMETRY Symmetry
INVARIANTS
    NothingSkipped
    StoppedIsDrained
    NumbersReserved
