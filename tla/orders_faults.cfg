SPECIFICATION FairSpec
CONSTANTS
    Requests <- MCRequests
    Records <- MCRecords
    EngineStates <- MCStates
    InitEngine <- MCNew
    ApplyRecord <- MCRest
    RestingIn <- MCOpen
    MaxInbound = 2
    Users <- MCUsers
    Symbols = {"s1"}
    MarketMakers <- MCMarketMakers
    Holdings <- MCHoldings
    BandBps = 500
    Calls = {c1, c2, c3}
    Asks <- MCOne
    BatchMax = 2
    NoAsk = NoAsk
    MaxLost = 1
    MaxRestarts = 1
    MaxExpiries = 0
CHECK_DEADLOCK FALSE
INVARIANTS
    CommitmentsExactUnlessLost
    CheckpointIsReplay
PROPERTIES
    CallsAndReservationsEnd
