SPECIFICATION Spec
CONSTANTS
    None = None
    alice = alice
    bob = bob
    PubKeys = {alice, bob}
    participants <- MCParticipants
    Apps = {"tictactoe", "lottery", "comment_it", "comment_board", "mcp", "comment", "comments"}
    Moves <- MCMoves
    TicketIds = {1, 2}
    ticket_price = 1
    draw_interval_secs = 2
    Hashes = {0, 1}
    MAX_ATTEMPTS = 2
    Bonds = {0, 1, 2}
    min_bond = 2
    contract_expires_at = 4
    Tokens = {t, u}
    Window = 2
    MaxLength <- MCMaxLength
    MaxExecuted <- MCMaxExecuted
INVARIANTS MarksAlternate PoolBacked RoomSound BondsExact
PROPERTY RollbackRestores
CHECK_DEADLOCK FALSE
