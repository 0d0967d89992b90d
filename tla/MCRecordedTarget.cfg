\* Two jobs on one target: what references/submission.md says of begin.
SPECIFICATION Spec
CONSTANTS
    c1 = c1
    c2 = c2
    j1 = j1
    j2 = j2
    t1 = t1
    t2 = t2
    s1 = s1
    s2 = s2
    p1 = p1
    b1 = b1
    b2 = b2
    k1 = k1
    k2 = k2
    k3 = k3
    None = None
    Controllers = {c1}
    Jobs = {j1, j2}
    Targets = {t1}
    Sessions = {}
    Profiles = {}
    Bodies = {b1}
    Answers = {"success"}
    Tokens = {k1, k2}
    MaxLease = 1
    MaxAge = 1
    HostWindow = 1
    MaxRound = 1
    MaxAttempts = 1
    MaxControls = 0
    MaxIssues = 0
    MaxInspections = 0
SYMMETRY Symmetry
PROPERTIES
    BeginRejectsRecordedTarget
