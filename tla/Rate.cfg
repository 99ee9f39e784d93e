SPECIFICATION Spec
CONSTANTS
    Keys = {"auth"}
    Processes = {"api1", "api2"}
    Skew <- OneAhead
    Capacity <- MCCapacity
    Rate <- MCRate
    Cost = 3
    Second = 2
    Unlimited = Unlimited
    MaxDelay = 1
    Horizon = 8
    MaxSetback = 2
INVARIANTS
    TypeOK
    BudgetUpToSetback
PROPERTIES
    RetryAfterSuffices
CHECK_DEADLOCK FALSE
