SPECIFICATION Spec
CONSTANTS
    Requests = {r1, r2, r3, r4}
    Subjects = {alice}
    MaxTime = 2
    Hosts = {h1}
    Allowlist = {}
    Audiences = {web}
    CustomTtls = {}
    TtlMin = 1
    TtlMax = 2
    DefaultTtl = 1
    RefreshTtl = 2
    Kinds = {"pair", "refresh"}
    Outcomes = {"ok"}
    None = None
SYMMETRY Symmetry
INVARIANT OneWinnerPerRecord
INVARIANT FamilyKillComplete
INVARIANT LivesUntilRevoked
CHECK_DEADLOCK FALSE
