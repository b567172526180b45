\* Two connection slots; both directions, or only the less preferred one.
SPECIFICATION LiveSpec
CONSTANTS
    lo = lo
    hi = hi
    c1 = c1
    c2 = c2
    c3 = c3
    None = None
    Speakers = {lo, hi}
    Rank <- MCRank
    Conns = {c1, c2}
    QueueCap = 1
    Reaches = {{lo, hi}, {lo}}
PROPERTIES Establishes
