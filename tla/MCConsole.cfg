\* Two clients for one place, and limits that let an option, a subnegotiation
\* and a command of two bytes through.
SPECIFICATION LiveSpec
CONSTANTS
    k1 = k1
    k2 = k2
    far = far
    Clients = {k1, k2, far}
    Loopback = {k1, k2}
    MaxClients = 1
    MaxCommand = 2
    MaxWire = 6
INVARIANTS TypeOK ClientsBounded
PROPERTIES LineEndsOnce IdleClientsMakeRoom
