CONSTANTS
    LastBlock = 6
    SetId <- MCSetId
    QueueRoot <- MCQueueRoot
    FirstHead = 1
    Genesis = 0
    StartArgs = {None, 0}
    None = None
    MAX_RETRIES = 2
SPECIFICATION FairSpec
INVARIANTS
    SealedErasCovered
    SealsEndedEras
    FinalizedRootIsRelayed
PROPERTY EndedErasRelayed
