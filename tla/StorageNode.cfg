\* One request thread serving four requests (POSTs of whole metatiles,
\* GETs with and without Last-Modified and X-Also-Expire) on a metatile of
\* two tiles in two styles; the expiry service answers every request.
CONSTANTS
    th1 = th1  th2 = th2  s1 = s1  s2 = s2  t1 = t1  t2 = t2
    Threads <- MCOneThread
    Styles <- MCStyles
    Tiles <- MCTiles
    MaxRequests = 4
    StatsMayFail = FALSE
    DiskMayFail = FALSE
    AlsoExpireAdds = FALSE
SPECIFICATION Spec
INVARIANTS
    TypeOK
    ExpiryConsistent
\* The bound on requests ends every behaviour.
CHECK_DEADLOCK FALSE
