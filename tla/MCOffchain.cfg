SPECIFICATION Spec
CONSTANTS
    None = None
    Clients = {c1, c2, c3}
    EpisodeIds = {1}
    Seqs = {0, 1}
    Attempts = 2
    MaxCrashes = 1
    MaxChannel = 2
SYMMETRY Symmetry
INVARIANTS StrictOrder AckHonest InStep NothingLost
CHECK_DEADLOCK FALSE
