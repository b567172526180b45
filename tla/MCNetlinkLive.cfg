\* One table, longer timers, fair scheduling.
SPECIFICATION LiveSpec
CONSTANTS
    p1 = p1
    p2 = p2
    denied = denied
    acl = acl
    None = None
    Prefix = {p1}
    Acls = {acl}
    Permits <- MCPermits
    NumDumps = 1
    OfFamily <- MCOfFamily
    MaxPrefixes = 2
    QueueMax = 1
    DrainBatch = 1
    RefreshInterval = 2
    ReconcileInterval = 2
    StaleTimeout = 3
    DumpTimeout = 2
    Backoff <- MCBackoff
    WatchdogPeriod = 1
INVARIANTS DirtyHasDeadline StaleBound
PROPERTIES WithdrawsOnlyAfterAttempt Converges StopHonoured
