SPECIFICATION Spec
CONSTANTS
    Request <- PayoutWorkload
    Sweepers = {}
    Pools = {"maize"}
    Price <- PayoutPrice
    NoKey = "no key"
    NoOrder = "no order"
    Free = "free"
    MaxQty = 10
    MaxTotal = 5
    MaxFaults = 0
INVARIANTS
    PayoutsAreBacked
    NoUnhandledConflict
PROPERTIES
    ImplementsLedger
    RevenueIsSharedOut
