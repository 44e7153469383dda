SPECIFICATION ListenerSpec
CONSTANTS
    game = game
    shop = shop
    Unknown = Unknown
    MaxBlocks = 4
    Engines = {game, shop}
    Txs <- MCTxs
    BlockTxs <- MCBlockTxs
    Matches <- MCMatches
    HasHeader <- MCHasHeader
    MaxFaults = 1
INVARIANT InSync
CHECK_DEADLOCK FALSE
