\* Two controls of one job across two rounds, a launch and an attempt; or two controls and two attention incidents.
SPECIFICATION Spec
CONSTANTS
    c1 = c1
    c2 = c2
    j1 = j1
    j2 = j2
    t1 = t1
    t2 = t2
    s1 = s1
    s2 = s2
    p1 = p1
    b1 = b1
    b2 = b2
    k1 = k1
    k2 = k2
    k3 = k3
    None = None
    Controllers = {c1}
    Jobs = {j1}
    Targets = {t1}
    Sessions = {}
    Profiles = {p1}
    Bodies = {b1}
    Answers = {"blocked"}
    Tokens = {k1}
    MaxLease = 1
    MaxAge = 0
    HostWindow = 1
    MaxRound = 2
    MaxAttempts = 1
    MaxControls = 2
    MaxIssues = 2
    MaxInspections = 1
CONSTRAINT OneConcern
INVARIANTS
    ControlledIdentityHeld
    CancelledWasStopped
    OneActionPerIncident
