SPECIFICATION Spec
CONSTANTS
    Target = 2
    QueryHistory = 2
    MaxTrades = 2
    Sleep = 2
    Basket = 1
    Space = 1
    DayLength = 3
    Price <- Prices
    Days = 2
    MaxOrders = 3
    MaxStarts = 2
INVARIANTS
    TypeOK
    OneDirection
    GrowthIsTodays
PROPERTIES
    OpensOnFreshTotals
    SleepsAfterClosing
    TargetsAreEarned
CHECK_DEADLOCK FALSE
