SPECIFICATION FairPooledSpec
CONSTANTS
    Request <- TwoPoolsWorkload
    Sweepers = {"sweep"}
    Pools = {"maize", "beans"}
    Price <- MCPrice
    NoKey = "no key"
    NoOrder = "no order"
    Free = "free"
    MaxQty = 10
    MaxTotal = 10
    MaxFaults = 1
    MaxConnections = 2
INVARIANTS
    OneOrderPerKey
    NoCircularWait
    HoldersAreAtWork
PROPERTIES
    AnsweredWithFew
    StaleReleased
