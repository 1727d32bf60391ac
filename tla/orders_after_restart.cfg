SPECIFICATION Spec
CONSTANTS
    Requests <- MCRequests
    Records <- MCRecords
    EngineStates <- MCStates
    InitEngine <- MCNew
    ApplyRecord <- MCApply
    RestingIn <- MCOpen
    MaxInbound = 3
    Users <- MCUsers
    Symbols = {"s1"}
    MarketMakers <- MCMarketMakers
    Holdings <- MCHoldings
    BandBps = 500
    Calls = {c1, c2, c3}
    Asks <- MCSells
    BatchMax = 2
    NoAsk = NoAsk
    MaxLost = 0
    MaxRestarts = 1
    MaxExpiries = 0
SYMMETRY MCSymmetry
CHECK_DEADLOCK FALSE
INVARIANTS
    RetailNeverNegative
