SPECIFICATION AccountsSpec
CONSTANTS
    None = None
    alice = alice
    bob = bob
    p = p
    Participants = {alice, bob}
    first = alice
    web_participant = alice
    Peers = {p}
    Times = {0, 5, 6}
    WINDOW_SECS = 0
    MAX_ATTEMPTS = 2
    MAX_AGE = 0
    MaxChain = 3
    MaxReorgs = 1
    Nothing = Nothing
    Members = {m1, m2}
    Bonds = {0, 2}
    min_bond = 1
    contract_expires_at = 100
    MaxComments = 1
    MaxFaults = 1
    MaxReverts = 1
    FEE = 1
    Slack = 0
    MassLimit = 4
    Chunk = 3
    MinCount = 3
    MaxAttempts = 2
    Coins <- MCCoins
    Comments = {1, 2}
    Durations = {0, 1}
    Policies = {"timelock", "impossible"}
    Offset = 10
    DefaultLock = 1
    U64 = 16
    MaxTxs = 3
    MaxTime = 1
    Bytes = {0, 1, 2, 3}
    TimeWidth = 2
    KeyWidth = 2
    Moderators <- MCModerators
    User <- MCUser
SYMMETRY Symmetric
INVARIANTS SessionSound RateBound MirrorExplained BondsBacked CommentOnce AuthHonest StuckExplained DescriptorRoundTrip
PROPERTIES RollbackRestores
CHECK_DEADLOCK FALSE
