SPECIFICATION Spec
CONSTANTS
    Chain <- MCChain
    Updates <- MCUpdates
    FinalizedBlocks = {8, 14, 16, 18}
    Tasks = {t1, t2}
    MAX_BATCH = 2
    Genesis = 6
    SLOTS_PER_EPOCH = 2
    EPOCHS_PER_SYNC_COMMITTEE = 3
    MAX_EPOCHS_GAP = 3
    STORED_CHECKPOINTS_COUNT = 3
    None = None
CHECK_DEADLOCK FALSE
INVARIANTS
    CommitteesMatchUnlessDisturbed
    LookupIsExact
    NoGapBetweenCheckpoints
