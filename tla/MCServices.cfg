SPECIFICATION Spec
CONSTANTS
    Clients = {"main", "archiver"}
    MaxSession = 2
    LastEth = 3
    LastGear = 3
    Posted <- MCPosted
    FromBlocks = {0, 1, 3}
    NoBlock = 0
    MAX_RETRIES = 2
    FirstSet = 1
    LastSet = 3
    MaxHeight = 4
    MaxMessages = 3
    MESSAGE_RESEND_TIMEOUT = 2
    Keys = {1, 2, 3, 4}
    Submissions = {s1, s2, s3, s4}
    TX_HISTORY_DEPTH = 2
    NoKey = NoKey
    Actors = {a1, a2}
    Deployer = a1
    Vfts = {"v1", "v2"}
    VftMaps <- MCVftMaps
    Erc20s = {e1, e2}
    Managers = {m1}
    Fields = {f1}
    Nobody = nobody
    MaxCalls = 2
    Canonical <- MCCanonical
    MadeUp <- MCMadeUp
    Receipts = {"r1", "r2", "f", "x"}
    Indices = {1, 2}
    Successful = {"r1", "r2", "x"}
    Checkpoints = {2, 4}
    Users = {u1, u2}
    Calls = {c1}
    Programs = {p1}
    NewSlots = {1, 3}
    MaxHeaders = 2
    Creator = u1
    Idle = idle
    APPROX_SESSION_DURATION_IN_BLOCKS = 2
    LastBlock = 8
    LastSetId = 3
INVARIANTS
    WrongRootsNotPassed
    ProofsReadable
    PaidOnceUnlessRaced
    TokenMapsAgree
    UpgradeLeavesNothing
    DeliveredAreCanonical
    SearchFinds
PROPERTIES
    KillSwitchFires
    RefusedStaysRefused
    SearchEnds
CHECK_DEADLOCK FALSE
