SPECIFICATION RelayerFairSpec
CONSTANTS
    Chain <- MCChain
    Updates <- MCUpdates
    Beacon <- MCBeacon
    Tasks = {t1, t2, t3}
    MAX_BATCH = 2
    Genesis = 7
    SLOTS_PER_EPOCH = 2
    EPOCHS_PER_SYNC_COMMITTEE = 3
    MAX_EPOCHS_GAP = 3
    STORED_CHECKPOINTS_COUNT = 3
    SIZE_BATCH = 3
    SIZE_CHANNEL = 2
    COUNT_FAILURE = 2
    MAX_REQUEST_LIGHT_CLIENT_UPDATES = 2
    MaxFailures = 2
    None = None
PROPERTIES
    EntersPeriodsWithCommittee
    LightClientFollows
CHECK_DEADLOCK FALSE
