SPECIFICATION LiveSpec
CONSTANTS
    old = old
    new = new
    vendor = vendor
    Names <- TwoNames
    Vendor = vendor
    MetalHub = TRUE
    MaxRenames = 2
    MaxExpired = 1
    MaxFaults = 2
    MaxOrders = 7
INVARIANTS
    Inv
    FailureRestores
    OrdersBounded
PROPERTIES
    SuccessIsServed
    ReloadCostsNoOrder
    EventuallyInstalled
