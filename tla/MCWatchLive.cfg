\* One round seen by two watches; renewed observers, a clock that runs.
SPECIFICATION FairSpec
CONSTANTS
    t1 = t1
    t2 = t2
    v1 = v1
    v2 = v2
    m1 = m1
    d1 = d1
    d2 = d2
    a = a
    b = b
    x1 = x1
    x2 = x2
    None = None
    Targets = {t1}
    Valid = {v1, v2}
    Malformed = {m1}
    States = {"done"}
    Dialogs = {d1}
    Texts = {a}
    ReviewInterval = 1
    MaxDelay = 1
    StallAfter = 1
    Consumers = {}
    Limit = 1
    HasDeadline = FALSE
    Failures = {{"transport"}, {"file"}}
    MaxChanges = 2
    MaxCrashes = 1
INVARIANTS
    ResultIsPinned
PROPERTIES
    DialogAnnounced
    ChangeReported
