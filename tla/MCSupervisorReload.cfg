\* Reloads of one configuration, a listener and a console.
SPECIFICATION Spec
CONSTANTS
    la = la
    lb = lb
    None = None
    Addr = {la, lb}
    Listen <- MCListen
    MaxVersion = 0
    Managed = {0}
CHECK_DEADLOCK FALSE
INVARIANTS FailsOnlyOnFault
