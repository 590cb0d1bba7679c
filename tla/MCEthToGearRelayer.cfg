CONSTANTS
    Txs = {1, 2, 3}
    Unsupported = {2}
    EventsIn <- MCEventsIn
    FeesIn <- MCFeesIn
    SlotOf <- MCSlotOf
    CheckpointAt <- MCCheckpointAt
    LastGear = 4
    LastEth = 2
    Modes = {"paid", "all", "manual"}
    MAX_RETRIES = 3
    MaxFailures = 1
SPECIFICATION FairSpec
INVARIANTS
    EventsAccounted
PROPERTIES EventsProcessed
CHECK_DEADLOCK FALSE
