------------------------------ MODULE Programs ------------------------------
(***************************************************************************)
(* Programs that stand beside an engine and serve people: the HTTP peer of *)
(* comment-it and its WebSocket peer, the daemon of kaspa-auth, the        *)
(* merchant's checkpoints and their watcher, the indexer with its page,    *)
(* the MCP server, and a pair of players of tictactoe.                     *)
(*                                                                         *)
(* They meet only through the chain, which each part has for itself, so a  *)
(* behaviour is of one of them, named by part.                             *)
(***************************************************************************)
EXTENDS Integers, Sequences

CONSTANTS
    Parts, None,
    Bounds,                      \* of requests and troubles, a record per part
    PubKeys, wallet, MAX_ATTEMPTS, Requests, Openings, NumCoins, MaxPolls,
    Users, Passwords, Connections, DaemonAttempts, WINDOW_SECS, MAX_AGE,
    DaemonPolls, MaxKeys, MaxEpisodes,
    Copies, Attempts, MaxStates,
    Episodes, participants, Times, RecentRows, Page, Fetches, MaxExecuted, MaxLoads,
    MaxNews, MaxEvents,
    agent1, agent2, Broken, Rosters, Moves,
    seats, Tried, OpeningMoves, Purse,
    MaxAsked

VARIABLES
    part, troubles,
    room, chain, waiting, coins, blockchain_episodes, pending_requests,
    used_utxos, utxo_cache, timers, req, requests, members, told, drift,
    leaked, stolen, doubtful, restarted,
    password, key, made, unlocked_identities, active_sessions, conn,
    asked, auth_episodes, crossed, halfway, lost, reverted, verified,
    states, numbered, seq, due, life, checkpoints, sending, net, held, coin,
    pending, anchors, missed,
    rooms, blocks, executed, episodes, comments, memberships, recent_order,
    cards, news, fetch, timer, last_seen, loads, feed, undone, stale, gone, again,
    disorder,
    key_files, up, queue, games, ttt_state, files, writing, called, had, unsaved,
    mined, engine, responses, pc, state, cmd, txs, shared, reorged, misled,
    handling, served, output, mempool, accepted

Peer == INSTANCE CommentPeer WITH
    MaxRequests <- Bounds.peer.requests, MaxTroubles <- Bounds.peer.troubles
Daemon == INSTANCE AuthDaemon WITH
    MAX_ATTEMPTS <- DaemonAttempts, MaxPolls <- DaemonPolls,
    MaxRequests <- Bounds.daemon.requests, MaxTroubles <- Bounds.daemon.troubles,
    requests <- asked, episodes <- auth_episodes
Anchor == INSTANCE Checkpoints WITH
    MaxTroubles <- Bounds.anchor.troubles, made <- numbered
Indexer == INSTANCE Index WITH
    MaxTroubles <- Bounds.index.troubles, chain <- blocks
Server == INSTANCE McpServer WITH
    MaxRequests <- Bounds.server.requests, MaxTroubles <- Bounds.server.troubles,
    wallet <- key_files, requests <- called
Table == INSTANCE TttPlayers WITH
    MaxTroubles <- Bounds.table.troubles
Socket == INSTANCE WsPeer WITH
    Sockets <- Connections, MaxTroubles <- Bounds.socket.troubles

peerVars == <<room, chain, waiting, coins, blockchain_episodes, pending_requests,
              used_utxos, utxo_cache, timers, req, requests, members, told,
              drift, leaked, stolen, doubtful, restarted>>
daemonVars == <<password, key, made, unlocked_identities, active_sessions, conn,
                asked, auth_episodes, crossed, halfway, lost, reverted, verified>>
anchorVars == <<states, numbered, seq, due, life, checkpoints, sending, net,
                held, coin, pending, anchors, missed>>
indexVars == <<rooms, blocks, executed, episodes, comments, memberships,
               recent_order, cards, news, fetch, timer, last_seen, loads, feed,
               undone, stale, gone, again, disorder>>
serverVars == <<key_files, up, queue, games, ttt_state, files, writing, called,
                had, unsaved>>
tableVars == <<mined, engine, responses, pc, state, cmd, txs, shared, reorged,
               misled>>
socketVars == <<handling, served, output, mempool, accepted>>
vars == <<part, troubles, peerVars, daemonVars, anchorVars, indexVars, serverVars,
          tableVars, socketVars>>

(* None is no number, and no submission of the watcher *)
ASSUME AnchorAssumption ==
    /\ Copies \in Nat
    /\ None \notin Nat
    /\ None \notin [of : Nat, coin : Nat \cup {None}, taken : BOOLEAN, tries : Nat]

(* A comment, and the state of a room *)
Notes == [id : Nat, author : PubKeys, timestamp : Nat]
Rooms == [authenticated : SUBSET PubKeys, rate_limits : [PubKeys -> Nat],
          authorized : Seq(PubKeys), active_challenges : [PubKeys -> Nat \cup {None}],
          comments : Seq(Notes), next_comment_id : Nat]

(* What the indexer answers, and a request of the page *)
Bodies == [rows : SUBSET Notes, oldest : SUBSET Nat]
Asks == [load : Nat, path : {"episode", "comments"}, episode : Episodes, after : Nat,
         answer : Bodies \cup {None}]

(* The peer has a key and outputs, None is no room, and the history that a *)
(* model starts with is one that the engine executed.                      *)
ASSUME PeerAssumption ==
    /\ wallet \in PubKeys /\ "missing" \notin PubKeys
    /\ NumCoins \in Nat /\ None \notin Nat
    /\ None \notin Rooms
    /\ \A commands \in Openings : Peer!Executable(commands)

(* Rooms have participants, blocks have times, the page asks for a number  *)
(* of rows, and None is no room of the indexer and no request.             *)
ASSUME IndexAssumption ==
    /\ participants \in Seq(PubKeys) /\ participants # <<>>
    /\ Times \subseteq Nat \ {0}
    /\ Page \in Nat
    /\ None \notin [created_at : Nat, state : Rooms]
    /\ None \notin Asks

(* None is no answer of the WebSocket peer, and no command in hand *)
ASSUME SocketAssumption ==
    /\ None \notin Nat
    /\ None \notin {"submitted", "error"}
    /\ None \notin [of : Nat, tries : Nat]

(* Participants are lists; what a file that was not written whole has is   *)
(* no snapshot, and None is no write.                                      *)
ASSUME ServerAssumption ==
    /\ \A roster \in Rosters : Len(roster) \in Nat
    /\ Broken \notin [board : [Server!Game!Cells -> {"X", "O", None}], current : {"X", "O"},
                       participants : Nat]
    /\ None \notin [episode : Nat,
                     snap : [board : [Server!Game!Cells -> {"X", "O", None}], current : {"X", "O"},
                             participants : Nat]]

(* Session tokens of kaspa-auth, whose keys are numbered *)
Tokens == [time : Nat, owner : Nat, challenge : [time : Nat, by : Nat] \cup {None}]

(* The daemon's episodes are numbered, None is no session *)
ASSUME DaemonAssumption ==
    /\ MaxEpisodes \in Nat /\ MAX_AGE \in Nat /\ None \notin Nat
    /\ None \notin Tokens
    /\ None \notin [username : Users, session_token : Tokens]

Init ==
    /\ part \in Parts
    /\ Peer!Init /\ (part = "peer" \/ chain = <<>>)
    /\ Daemon!Init /\ Anchor!Init /\ Indexer!Init /\ Server!Init
    /\ Socket!Init
    /\ Table!Init /\ (part = "table" \/ ~ (shared \/ pc[seats[1]] # "start"))

Next ==
    \/ /\ part = "peer" /\ Peer!Next
       /\ UNCHANGED <<part, daemonVars, anchorVars, indexVars, serverVars, tableVars, socketVars>>
    \/ /\ part = "daemon" /\ Daemon!Next
       /\ UNCHANGED <<part, peerVars, anchorVars, indexVars, serverVars, tableVars, socketVars>>
    \/ /\ part = "anchor" /\ Anchor!Next
       /\ UNCHANGED <<part, peerVars, daemonVars, indexVars, serverVars, tableVars, socketVars>>
    \/ /\ part = "index" /\ Indexer!Next
       /\ UNCHANGED <<part, peerVars, daemonVars, anchorVars, serverVars, tableVars, socketVars>>
    \/ /\ part = "server" /\ Server!Next
       /\ UNCHANGED <<part, peerVars, daemonVars, anchorVars, indexVars, tableVars, socketVars>>
    \/ /\ part = "table" /\ Table!Next
       /\ UNCHANGED <<part, peerVars, daemonVars, anchorVars, indexVars, serverVars, socketVars>>
    \/ /\ part = "socket" /\ Socket!Next
       /\ UNCHANGED <<part, peerVars, daemonVars, anchorVars, indexVars, serverVars, tableVars>>

Spec == Init /\ [][Next]_vars

-----------------------------------------------------------------------------
(* The properties of the parts, each stated in its module.  In comment-it, *)
(* an output and a key belong to one request, but for what the locks, the  *)
(* timers and the guards let through; where nothing is reserved, at the    *)
(* WebSocket peer, requests that meet over an output are told apart.       *)
ReservationsExplained == Peer!ReservationsExplained /\ Socket!AnswersExplained

(* comment-it's map is the engine's episode, but for a rollback and the    *)
(* word of the indexer; what it announces itself was executed              *)
MapExplained == Peer!MapExplained

(* The daemon's keys are those of the disk and its sessions those of the   *)
(* chain, but for requests that met, for what the peer's HTTP handlers     *)
(* wrote to its map, and for flows that gave up.                           *)
DaemonExplained == Daemon!DaemonExplained

(* A checkpoint is anchored once per copy that is not known to be missed,  *)
(* and in order.                                                           *)
AnchorsExplained == Anchor!AnchorsExplained

(* What the merchant's document says of the numbers of its anchors; the    *)
(* watcher anchors every copy, so they do not grow strictly.               *)
SeqStrict == Anchor!SeqStrict

(* The index and the page show what the chain has, but for what was        *)
(* reverted, and for times that do not increase.                           *)
IndexExplained == Indexer!IndexExplained

(* The MCP server shows the games as they are or, after it was started     *)
(* again, as they ended.                                                   *)
SnapshotsExplained == Server!SnapshotsExplained

(* Two players of tictactoe get stuck only over a refused move, and are    *)
(* asked for moves and dismissed when the game says so, but for lost       *)
(* blocks and the games of others.                                         *)
PlayersExplained == Table!PlayersExplained
=============================================================================
