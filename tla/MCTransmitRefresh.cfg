\* Two IPv4 prefixes, batches of one: snapshots that change during a refresh.
SPECIFICATION Spec
CONSTANTS
    p4 = p4
    q4 = q4
    p6 = p6
    V4 = {p4, q4}
    V6 = {}
    MaxBatch = 1
PROPERTIES RefreshIsComplete
