\* A refresh interval longer than the stale timeout.
SPECIFICATION Spec
CONSTANTS
    p1 = p1
    p2 = p2
    denied = denied
    acl = acl
    None = None
    Prefix = {p1}
    Acls = {acl}
    Permits <- MCPermits
    NumDumps = 1
    OfFamily <- MCOfFamily
    MaxPrefixes = 2
    QueueMax = 1
    DrainBatch = 1
    RefreshInterval = 3
    ReconcileInterval = 1
    StaleTimeout = 2
    DumpTimeout = 1
    Backoff <- MCBackoff
    WatchdogPeriod = 1
PROPERTIES WithdrawsOnlyAfterAttempt
