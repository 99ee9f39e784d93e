SPECIFICATION Spec
CONSTANTS
    Request <- OrderingWorkload
    Sweepers = {"sweep", "sweep2"}
    Pools = {"maize"}
    Price <- MCPrice
    NoKey = "no key"
    NoOrder = "no order"
    Free = "free"
    MaxQty = 10
    MaxTotal = 10
    MaxFaults = 1
INVARIANTS
    TypeOK
    LockedRowIsFresh
    StockConserved
    OneOrderPerKey
    RetryReturnsOriginal
PROPERTIES
    ImplementsLedger
