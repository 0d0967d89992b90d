\* One process that crashes in a registration and tries again.
SPECIFICATION Spec
CONSTANTS
    p1 = p1
    p2 = p2
    x1 = x1
    x2 = x2
    j1 = j1
    j2 = j2
    t1 = t1
    None = None
    Processes = {p1}
    Indexes = {x1}
    Jobs = {j1}
    Targets = {t1}
    MaxRevision = 1
    MaxCrashes = 1
INVARIANTS
    RegistrationRepeatable
