\* Three connection slots, a channel of two streams, both directions.
SPECIFICATION Spec
CONSTANTS
    lo = lo
    hi = hi
    c1 = c1
    c2 = c2
    c3 = c3
    None = None
    Speakers = {lo, hi}
    Rank <- MCRank
    Conns = {c1, c2, c3}
    QueueCap = 2
    Reaches = {{lo, hi}}
SYMMETRY MCSymmetry
INVARIANTS TypeOK EstablishedIsMutual NothingUnexpected EveryStreamOwned
