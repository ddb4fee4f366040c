\* A POST that fails partway, on its stats update or on writing a part
\* (mqCache.put), after an earlier part cleared the metatile's expiry bit.
CONSTANTS
    th1 = th1  th2 = th2  s1 = s1  s2 = s2  t1 = t1  t2 = t2
    Threads <- MCOneThread
    Styles <- MCStyles
    Tiles <- MCTiles
    MaxRequests = 3
    StatsMayFail = TRUE
    DiskMayFail = TRUE
    AlsoExpireAdds = FALSE
SPECIFICATION Spec
INVARIANT ExpiryConsistent
CHECK_DEADLOCK FALSE
