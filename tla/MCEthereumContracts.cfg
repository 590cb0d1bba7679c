SPECIFICATION Spec
CONSTANTS
    BlockNumbers = {1, 2, 3, 5}
    BLOCK_WRAP = 4
    Roots <- MCRoots
    ZeroRoot = "zero"
    Provable <- MCProvable
    Leaves <- MCLeaves
    Messages <- MCMessages
    Tokens = {"usdc", "wvara"}
    GearSupply = {"wvara"}
    Held0 <- MCHeld0
    Amounts = {0, 1}
    VFT_MANAGER_ADDRESS = "vft-manager"
    Updater = "updater"
    Admins = {"updater", "admin"}
    Implementations = {"impl0", "impl1", "impl2"}
    Governance0 = "gov1"
    Implementation0 = "impl0"
INVARIANTS
    DeliveredAreProven
    LedgerMatchesEvents
PROPERTIES
    StopIsFinal
