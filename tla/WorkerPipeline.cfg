\* Two workers race on one metatile over two jobs; every style kind.
CONSTANTS
    Workers = {w1, w2}
    JobIds = {j1, j2}
    Keys = {k1}
    NoJob = NoJob
    PlainStyles <- MCPlainStyles
    SavedStyles <- MCSavedStyles
    ReadOnlyStyles <- MCReadOnlyStyles
    UnknownStyles <- MCUnknownStyles
    Coords <- MCCoordsShallow
    GetMetaHonoursExpiry = FALSE
    MaxExpiries = 1
    MemoryLimited = TRUE
    MaxCrashes = 1
SPECIFICATION Spec
\* Workers block in get_job once the broker has no more jobs.
CHECK_DEADLOCK FALSE
INVARIANT TypeOK
INVARIANT NoRedundantRender
 
SYMMETRY WorkerSymmetry
