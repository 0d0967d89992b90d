\* The components beside the index and the observer, each by itself.
SPECIFICATION Spec
CONSTANTS
    p1 = p1
    p2 = p2
    g1 = g1
    g2 = g2
    n1 = n1
    v1 = v1
    a1 = a1
    r1 = r1
    r2 = r2
    w1 = w1
    x1 = x1
    x2 = x2
    t1 = t1
    t2 = t2
    Reviewers = {p1, p2}
    Issues = {g1, g2}
    Notes = {n1}
    Blank = Blank
    MaxFiles = 4
    Readers = {p1, p2}
    Rows = {1, 2}
    Versions = {v1}
    Filters = {{1, 2}, {1}}
    PageSize = 1
    Files = {g1}
    Absent = Absent
    Clerks = {p1, p2}
    Calls = {g1, g2}
    Attempts = {a1}
    Attributions = {r1, r2}
    Counters = {w1}
    Corrections = {x1, x2}
    Nothing = Nothing
    MaxCorrections = 2
    MaxPath = 2
    Contents = {g1, g2}
    Missing = Missing
    MaxWrites = 2
    MaxCommands = 2
    MaxTouches = 1
    MaxLogs = 2
    MaxBytes = 5
    ChunkBytes = 2
    Successes = {g1, g2}
    Error = Error
    Unknown = Unknown
    MaxHistory = 5
    Storages = {g1}
    Outside = Outside
    MaxRequests = 2
    MaxWatches = 1
    WorkSeconds = 2
    Stale = 2
    RenewBefore = 1
    Extent = 2
    Meters = {p1, p2}
    Turns = {t1, t2}
    Bound = {t1}
    Selected = {t1}
    MaxCalls = 2
    MaxEdits = 1
SYMMETRY Symmetry
INVARIANTS
    TypeOK
    RecordedOnce
    ViewIsDelivered
    LedgerReadable
    SnapshotIsOneInstant
    PassIsOfSnapshot
    EveryMatchReturned
    HistoryFound
    RecoveryComplete
    WorkIsCovered
    TotalsAreOfTheLog
PROPERTIES
    LeavesOnlyIfShown
    CaughtUp
    TurnKept
