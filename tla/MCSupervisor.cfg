\* Three configurations, of which the last has no console.
SPECIFICATION LiveSpec
CONSTANTS
    la = la
    lb = lb
    None = None
    Addr = {la, lb}
    Listen <- MCListen
    MaxVersion = 2
    Managed = {0, 1}
CHECK_DEADLOCK FALSE
INVARIANTS WorkersEnded
PROPERTIES TermHonoured ReloadTakesEffect
