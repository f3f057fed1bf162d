SPECIFICATION Spec
CONSTANTS
    Requests = {r1, r2, r3}
    Subjects = {alice}
    MaxTime = 3
    Hosts = {h1}
    Allowlist = {}
    Audiences = {web}
    CustomTtls = {1}
    TtlMin = 1
    TtlMax = 3
    DefaultTtl = 3
    RefreshTtl = 3
    Kinds = {"create", "bulk"}
    Outcomes = {"ok"}
    None = None
SYMMETRY Symmetry
INVARIANT RevokesEveryActiveToken
CHECK_DEADLOCK FALSE
