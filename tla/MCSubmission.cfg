\* One job, two rounds, three attempts, two controllers that crash and take over.
SPECIFICATION Spec
CONSTANTS
    c1 = c1
    c2 = c2
    j1 = j1
    j2 = j2
    t1 = t1
    t2 = t2
    s1 = s1
    s2 = s2
    p1 = p1
    b1 = b1
    b2 = b2
    k1 = k1
    k2 = k2
    k3 = k3
    None = None
    Controllers = {c1, c2}
    Jobs = {j1}
    Targets = {t1}
    Sessions = {}
    Profiles = {}
    Bodies = {b1}
    Answers = {"blocked", "invalid"}
    Tokens = {k1, k2, k3}
    MaxLease = 1
    MaxAge = 1
    HostWindow = 1
    MaxRound = 2
    MaxAttempts = 3
    MaxControls = 0
    MaxIssues = 0
    MaxInspections = 0
SYMMETRY Symmetry
INVARIANTS
    TypeOK
    OneUsableToken
    AtMostOneInput
    SubmissionInv
PROPERTIES
    KeepsPromise
