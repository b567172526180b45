\* An IPv4 and an IPv6 table, of whose two prefixes the capacity allows one:
\* the IPv4 one, which the ACL denies, can use up the capacity of the other.
SPECIFICATION Spec
CONSTANTS
    p1 = p1
    p2 = p2
    denied = denied
    acl = acl
    None = None
    Prefix = {denied, p2}
    Acls = {acl}
    Permits <- MCPermits
    NumDumps = 2
    OfFamily <- MCOfFamily
    MaxPrefixes = 1
    QueueMax = 1
    DrainBatch = 1
    RefreshInterval = 1
    ReconcileInterval = 1
    StaleTimeout = 2
    DumpTimeout = 1
    Backoff <- MCBackoff
    WatchdogPeriod = 1
INVARIANTS TypeOK CleanIsCurrent
PROPERTIES PublishesCompleteSnapshots
