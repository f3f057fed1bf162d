SPECIFICATION Spec
CONSTANTS
    Requests = {r1, r2}
    Replicas = {p1, p2}
    s1 = s1
    s2 = s2
    Secrets = {s1, s2}
    Envs <- Rotation
    Step = 2
    Skew = 1
    ReplayProtection = TRUE
    Outcomes = {"ok", "lost", "late"}
    Timeout = 1
    MaxTime = 7
    Malformed = Malformed
    None = None
SYMMETRY Symmetry
INVARIANT TypeOK
INVARIANT ReplayRefused
INVARIANT NoFalseReplay
INVARIANT NoCredentialNoEntry
CHECK_DEADLOCK FALSE
