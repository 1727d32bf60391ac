SPECIFICATION Spec
CONSTANTS
    Clients = {c1}
    UserOf <- MCUserOf
    PrivateMax = 3
    WireMax = 1
    Histories <- MCHistories
    Readers <- MCReaders
    NoFetch = NoFetch
    NoRead = NoRead
    BatchSize = 10
    MaxFaults = 1
    MaxCrashes = 1
    InitialCash = 100
    BarWidths <- MCWidths
    BookDepth = 1
CHECK_DEADLOCK FALSE
INVARIANTS
    BooksAndBarsAreTrue
    TapeIsTrue
    NothingDroppedSilently
    PortfolioIsLedger
    QuietIsCurrent
