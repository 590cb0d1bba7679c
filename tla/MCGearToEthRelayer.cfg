CONSTANTS
    Messages = {1, 2, 3}
    BlockOf <- MCBlockOf
    Signer <- MCSigner
    PaidIn <- MCPaidIn
    RootsIn <- MCRootsIn
    LastGear = 4
    LastEth = 2
    Modes = {"paid", "all", "manual"}
    MESSAGES_CAPACITY = 2
    ROOTS_CAPACITY = 2
    MAX_RETRIES = 2
    MaxFailures = 1
    None = None
SPECIFICATION FairSpec
INVARIANTS
    RelayedUnderCoveringRoot
    NoCoveredMessageWaits
    RelayedOnce
PROPERTIES MessagesRelayed
CHECK_DEADLOCK FALSE
