SPECIFICATION Spec
CONSTANTS
    Users = {u1, u2}
    ClientIds = {1}
    Symbols = {"s1", "s2"}
    Prices = {10, 11}
    Inputs <- MCInputs
    MaxOrders = 4
SYMMETRY MCSymmetry
INVARIANTS
    EnginesAgree
    RestoredAgrees
    BookIsSound
    ClientIndexIsExact
PROPERTIES
    OneAnchorFirst
    PriceTimePriority
