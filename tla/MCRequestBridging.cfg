SPECIFICATION FairSpec
CONSTANTS
    Requests = {m1}
    GearRequests = {m1}
    Recoveries = {r1, r2}
    Supply <- MCSupply
    None = None
INVARIANTS
    NoStuckFunds
PROPERTIES
    EventuallySettled
    ImplementsBridge
