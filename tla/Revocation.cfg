SPECIFICATION Spec
CONSTANTS
    Requests = {r1, r2, r3}
    Subjects = {alice, bob}
    MaxTime = 2
    Hosts = {h1}
    Allowlist = {}
    Audiences = {web}
    CustomTtls = {2, 3}
    TtlMin = 1
    TtlMax = 2
    DefaultTtl = 1
    RefreshTtl = 3
    Kinds = {"create", "verify", "revoke", "bulk"}
    Outcomes = {"ok", "lost", "late"}
    None = None
SYMMETRY Symmetry
INVARIANT TypeOK
INVARIANT IndexCovers
INVARIANT BulkRevokeComplete
INVARIANT VerifyAfterRevocation
INVARIANT LivesUntilRevoked
CHECK_DEADLOCK FALSE
