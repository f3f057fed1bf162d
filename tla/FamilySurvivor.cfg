SPECIFICATION Spec
CONSTANTS
    Requests = {r1, r2, r3}
    Subjects = {alice}
    MaxTime = 1
    Hosts = {h1}
    Allowlist = {}
    Audiences = {web}
    CustomTtls = {}
    TtlMin = 1
    TtlMax = 2
    DefaultTtl = 1
    RefreshTtl = 2
    Kinds = {"pair", "refresh"}
    Outcomes = {"ok"}
    None = None
SYMMETRY Symmetry
INVARIANT KilledFamilyStaysDead
CHECK_DEADLOCK FALSE
