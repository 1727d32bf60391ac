SPECIFICATION Spec
CONSTANTS
    Requests <- MCRequests
    Records <- MCRecords
    EngineStates <- MCStates
    InitEngine <- MCNew
    ApplyRecord <- MCApply
    RestingIn <- MCOpen
    MaxInbound = 3
    Users <- MCUsers
    Symbols = {"s1"}
    MarketMakers <- MCMarketMakers
    Holdings <- MCHoldings
    BandBps = 500
    Calls = {c1, c2, c3}
    Asks <- MCMany
    BatchMax = 2
    NoAsk = NoAsk
    MaxLost = 0
    MaxRestarts = 0
    MaxExpiries = 1
SYMMETRY MCSymmetry
CHECK_DEADLOCK FALSE
INVARIANTS
    AppendedOnce
    AnswersAreTrue
    CommitmentsExact
    NothingPromisedTwice
