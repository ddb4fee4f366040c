\* Liveness: two workers, two jobs, a saved and a read-only style.
CONSTANTS
    Workers = {w1, w2}
    JobIds = {j1, j2}
    Keys = {k1}
    NoJob = NoJob
    PlainStyles <- MCNoStyles
    SavedStyles <- MCSavedStyles
    ReadOnlyStyles <- MCReadOnlyStyles
    UnknownStyles <- MCNoStyles
    Coords <- MCCoordsShallow
    GetMetaHonoursExpiry = FALSE
    MaxExpiries = 1
    MemoryLimited = TRUE
    MaxCrashes = 1
SPECIFICATION Spec
\* Workers block in get_job once the broker has no more jobs.
CHECK_DEADLOCK FALSE
PROPERTY EveryJobAcked
