SPECIFICATION Spec
CONSTANTS
    Requests = {r1, r2, r3}
    Subjects = {alice}
    MaxTime = 2
    Hosts = {h1, h2}
    Allowlist = {h1}
    Audiences = {web}
    CustomTtls = {}
    TtlMin = 1
    TtlMax = 2
    DefaultTtl = 1
    RefreshTtl = 2
    Kinds = {"pair", "refresh", "revoke"}
    Outcomes = {"ok", "lost", "late"}
    None = None
SYMMETRY Symmetry
INVARIANT OneWinnerPerRecord
INVARIANT IndexCovers
CHECK_DEADLOCK FALSE
