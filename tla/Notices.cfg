SPECIFICATION FairNotifySpec
CONSTANTS
    Request <- NoticesWorkload
    Sweepers = {"sweep"}
    Pools = {"maize"}
    Price <- MCPrice
    NoKey = "no key"
    NoOrder = "no order"
    Free = "free"
    MaxQty = 10
    MaxTotal = 1
    MaxFaults = 1
    MaxFailures = 1
INVARIANTS
    FeedTellsStock
    CopiesFollowTheFeed
    SuccessMeansSent
PROPERTIES
    AnnouncedOnce
    OwedIsSettled
