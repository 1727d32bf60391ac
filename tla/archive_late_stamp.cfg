SPECIFICATION Spec
CONSTANTS
    Histories <- MCLateHistories
    Readers <- MCReaders
    BatchSize = 10
    MaxFaults = 0
    MaxCrashes = 1
    InitialCash = 100
    BarWidths <- MCWidths
    BookDepth = 1
    FlushSeconds = 2
CHECK_DEADLOCK FALSE
INVARIANT
    ArchiveIsComplete
