SPECIFICATION Spec
CONSTANTS
    None = None
    Parts = {"anchor"}
    Bounds <- MCBounds
    PubKeys = {w, g}
    wallet = w
    MAX_ATTEMPTS = 2
    Requests = {r1, r2}
    Openings <- MCOpenings
    NumCoins = 2
    MaxPolls = 1
    Users = {u}
    Passwords = {p, q}
    Connections = {c1, c2}
    DaemonAttempts = 2
    WINDOW_SECS = 0
    MAX_AGE = 0
    DaemonPolls = 2
    MaxKeys = 2
    MaxEpisodes = 2
    Copies = 2
    Attempts = 2
    MaxStates = 3
    Episodes = {e1, e2}
    participants <- MCParticipants
    Times = {1, 2}
    RecentRows = 1
    Page = 1
    MaxExecuted = 4
    Fetches = {f1, f2}
    MaxLoads = 2
    MaxNews = 1
    MaxEvents = 5
    agent1 = agent1
    agent2 = agent2
    Broken = Broken
    Rosters <- MCPlayers
    Moves <- MCMoves
    seats <- MCSeats
    Tried <- MCTried
    OpeningMoves <- MCOpened
    Purse = 3
    MaxAsked = 3
SYMMETRY Symmetric
INVARIANT SeqStrict
CHECK_DEADLOCK FALSE
