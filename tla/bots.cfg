SPECIFICATION Spec
CONSTANTS
    HalfSpreadBps = 2500
    SkewBps = 5000
    Size = 1
    MaxSpreadBps = 5000
    MinSize = 1
    Fairs = {5}
    None = None
    MaxDecisions = 4
    MaxInventory = 2
    MaxFaults = 1
CHECK_DEADLOCK FALSE
INVARIANTS
    QuotesAreOrders
    OrdersAreQuotes
    QuotesAreSound
