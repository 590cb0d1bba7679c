SPECIFICATION Spec
CONSTANTS
    Requests = {m1}
    GearRequests = {}
    Recoveries = {r1}
    Supply <- MCSupply
    None = None
INVARIANTS
    RefundOnce
