SPECIFICATION Spec
CONSTANTS
    Request <- LateRevenueWorkload
    Sweepers = {"sweep"}
    Pools = {"maize"}
    Price <- MCPrice
    NoKey = "no key"
    NoOrder = "no order"
    Free = "free"
    MaxQty = 10
    MaxTotal = 10
    MaxFaults = 0
INVARIANTS
    PayoutsEqualRevenue
