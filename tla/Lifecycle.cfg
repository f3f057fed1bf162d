SPECIFICATION Spec
CONSTANTS
    DEFAULT_MAX_WORKERS = 2
    DEFAULT_SHUTDOWN_TIMEOUT_SECONDS = 2
    Grace = 4
    Words = {"none", "collector", "v1/traces", "v1/logs", "store"}
    Requests = {r1, r2}
    Environments <- AllEnvironments
    Listens <- Collectors
    ExportTimeout = 1
    GuardTimeout = 1
INVARIANT TypeOK
INVARIANT NothingLost
INVARIANT KillSparesRequests
 
CHECK_DEADLOCK FALSE
