\* A failed render is acked with the status the job came with (job.satus typo).
CONSTANTS
    Workers = {w1}
    JobIds = {j1}
    Keys = {k1}
    NoJob = NoJob
    PlainStyles <- MCPlainStyles
    SavedStyles <- MCSavedStyles
    ReadOnlyStyles <- MCReadOnlyStyles
    UnknownStyles <- MCUnknownStyles
    Coords <- MCCoordsShallow
    GetMetaHonoursExpiry = FALSE
    MaxExpiries = 1
    MemoryLimited = TRUE
    MaxCrashes = 1
SPECIFICATION Spec
\* Workers block in get_job once the broker has no more jobs.
CHECK_DEADLOCK FALSE
INVARIANT AckStatusFinal
