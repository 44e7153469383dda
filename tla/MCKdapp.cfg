SPECIFICATION KdappSpec
CONSTANTS
    e1 = e1
    e2 = e2
    alice = alice
    NoAuth = NoAuth
    None = None
    EpisodeIds = {e1, e2}
    BlockHashes = {b1, b2, b3}
    PubKeys = {alice}
    Participants = {"ps"}
    Commands <- MCCommands
    EpisodeStates <- MCStates
    Undos <- MCUndos
    Initialize <- MCInitialize
    Execute <- MCExecute
    Rollback <- MCRollback
    TxLists <- MCTxLists
    MaxCommands = 2
    DaaScores = {1, 2}
    MaxReorg = 3
    EPISODE_LIFETIME = 3
    SAMPLE_REMOVAL_TIME = 2
    MaxQueue = 2
    game = game
    shop = shop
    Unknown = Unknown
    MaxBlocks = 4
    Engines = {game, shop}
    Txs <- MCTxs
    BlockTxs <- MCBlockTxs
    Matches <- MCMatches
    HasHeader <- MCHasHeader
    MaxFaults = 1
INVARIANTS FedWhole
PROPERTIES ImplementsLedger ExitStopsEngine ListenerCatchesUp ExitIsAnswered
CHECK_DEADLOCK FALSE
