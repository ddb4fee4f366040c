\* Two storage node processes setting and reading the bit of one
\* metatile through a lossy, reordering network; one host crash.
CONSTANTS
    c1 = c1  c2 = c2
    Clients <- MCClients
    Idx = {0}
    MaxIdx = 1
    MaxCalls = 4
    MaxCrash = 1
SPECIFICATION Spec
PROPERTIES ImplementsExpiryIndex
CHECK_DEADLOCK FALSE
