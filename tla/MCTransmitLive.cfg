\* An IPv4 and an IPv6 prefix, every negotiation, fair scheduling.
SPECIFICATION LiveSpec
CONSTANTS
    p4 = p4
    q4 = q4
    p6 = p6
    V4 = {p4}
    V6 = {p6}
    MaxBatch = 1
INVARIANTS TypeOK PlanReachesTarget ReplayIsPlanned
PROPERTIES MarkerMeansSynchronized KeepsPromise RefreshAnswered FulfilsPromise
