\* One terminal with dialogs, blind intervals and crashes.
SPECIFICATION Spec
CONSTANTS
    t1 = t1
    t2 = t2
    v1 = v1
    v2 = v2
    m1 = m1
    d1 = d1
    d2 = d2
    a = a
    b = b
    x1 = x1
    x2 = x2
    None = None
    Targets = {t1}
    Valid = {}
    Malformed = {}
    States = {"working", "blocked"}
    Dialogs = {d1}
    Texts = {a, b}
    ReviewInterval = 1
    MaxDelay = 1
    StallAfter = 1
    Consumers = {}
    Limit = 1
    HasDeadline = TRUE
    Failures = {{"transport"}}
    MaxChanges = 2
    MaxCrashes = 1
SYMMETRY Symmetry
INVARIANTS
    TypeOK
    IncidentReported
    IncidentUnbroken
    SavedIsReported
