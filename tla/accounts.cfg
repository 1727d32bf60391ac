SPECIFICATION MCSpec
CONSTANTS
    c1 = c1
    c2 = c2
    c3 = c3
    Calls <- MCCalls
    NameOf <- MCNameOf
    Designated = {"ann"}
    Cookies = {"k1"}
    MaxFaults = 2
    Senders = {"u1", "u2"}
    MaxOrders = 5
    MaxTick = 5
    Rate = 2
    Unit = 2
CHECK_DEADLOCK FALSE
INVARIANTS
    RegistrationIsWhole
    AccountsHaveTheirUsers
    LimiterIsExact
PROPERTY
    GrantsLand
