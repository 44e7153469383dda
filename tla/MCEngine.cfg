SPECIFICATION Spec
CONSTANTS
    e1 = e1
    e2 = e2
    alice = alice
    NoAuth = NoAuth
    None = None
    EpisodeIds = {e1, e2}
    BlockHashes = {b1, b2, b3}
    PubKeys = {alice}
    Participants = {"ps"}
    Commands <- MCCommands
    EpisodeStates <- MCStates
    Undos <- MCUndos
    Initialize <- MCInitialize
    Execute <- MCExecute
    Rollback <- MCRollback
    TxLists <- MCTxLists
    MaxCommands = 2
    DaaScores = {1, 2, 5, 7}
    MaxReorg = 3
    EPISODE_LIFETIME = 3
    SAMPLE_REMOVAL_TIME = 1
    MaxQueue = 2
INVARIANTS UndoTrail RevertMapFollowsChain HandlersInformed LifetimeBound StoppedOnChain
PROPERTY RevertRestores
SYMMETRY Symmetric
CHECK_DEADLOCK FALSE
