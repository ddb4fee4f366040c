\* Three stat_inc calls of any table and duration, a collector clock of
\* five ticks with flushes when due, datagrams lost or reordered.
CONSTANTS
    Durations <- MCDurations
    UIntMax = 3
    Windows <- MCWindows
    KEEP_PERIOD = 4
    FLUSH_PERIOD = 2
    MaxTime = 5
    MaxCalls = 3
SPECIFICATION Spec
INVARIANT ReportIsMeanAndVariance
PROPERTY FlushKeepsReports
\* The clock and call bounds end every behaviour.
CHECK_DEADLOCK FALSE
