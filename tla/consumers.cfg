SPECIFICATION FairSpec
CONSTANTS
    Histories <- MCHistories
    Readers <- MCReaders
    BatchSize = 5
    MaxFaults = 1
    MaxCrashes = 1
    InitialCash = 100
    BarWidths <- MCWidths
    BookDepth = 1
    FlushSeconds = 2
CHECK_DEADLOCK FALSE
INVARIANTS
    CashConserved
    ReadModelIsReplay
    ArchivedUnitsAreWhole
    TrimmedIsKept
PROPERTY
    ReadersCatchUp
