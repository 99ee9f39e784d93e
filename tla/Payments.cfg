SPECIFICATION Spec
CONSTANTS
    Request <- PaymentWorkload
    Sweepers = {"sweep"}
    Pools = {"maize"}
    Price <- MCPrice
    NoKey = "no key"
    NoOrder = "no order"
    Free = "free"
    MaxQty = 1
    MaxTotal = 10
    MaxFaults = 1
INVARIANTS
    StockConserved
    PaymentMatches
    NoUnhandledConflict
    AcknowledgedChargeIsPaid
PROPERTIES
    ImplementsLedger
