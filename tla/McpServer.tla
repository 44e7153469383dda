------------------------------ MODULE McpServer ------------------------------
(***************************************************************************)
(* kdapp-mcp-server: two agents play the games of McpGame through a server *)
(* that takes one request after another and feeds its engine itself, from  *)
(* no chain; the engine's thread mirrors each game to a map and to a file. *)
(*                                                                         *)
(* The transactions that two of the tools send are read by nobody, and the *)
(* state does not depend on them.  Episodes are numbered as they are       *)
(* started; the code draws their identifiers at random.                    *)
(***************************************************************************)
EXTENDS Integers, Filters

CONSTANTS
    agent1, agent2, None,
    Broken,                    \* what a file has that was not written whole
    Rosters,                   \* lists of participants
    Moves,
    MaxRequests, MaxTroubles   \* bounds of the model

Agents == {agent1, agent2}

Game == INSTANCE McpGame WITH PubKeys <- Agents

VARIABLES
    wallet,                    \* the key files: None, Broken or "good"
    up, queue,                 \* the channel of the engine
    games,                     \* of the engine
    ttt_state, files,          \* the map, and episodes/<id>.json
    writing,                   \* the handler's snapshot that is not yet written
    requests,
    had,                       \* history: the snapshots each game had, in order
    unsaved,                   \* history: games of which a write failed
    troubles

storeVars == <<ttt_state, files, writing, had, unsaved>>

Trouble == troubles < MaxTroubles /\ troubles' = troubles + 1

Started == DOMAIN games

TttSnapshot(g) == [board |-> g.board, current |-> g.current, participants |-> Len(g.participants)]

-----------------------------------------------------------------------------
(* A process that dies while it writes a key leaves a file that no process *)
(* accepts.  The wallets are made one after the other.                     *)
load_or_create_for_agent(a) ==
    /\ ~ up /\ wallet[a] = None
    /\ a = agent2 => wallet[agent1] = "good"
    /\ \/ wallet' = [wallet EXCEPT ![a] = "good"] /\ UNCHANGED troubles
       \/ wallet' = [wallet EXCEPT ![a] = Broken] /\ Trouble
    /\ UNCHANGED <<up, queue, games, requests, storeVars>>

(* ServerState::new reads the snapshots, but the engine starts empty *)
new ==
    /\ ~ up /\ \A a \in Agents : wallet[a] = "good"
    /\ up' = TRUE
    /\ ttt_state' = [e \in Started |-> IF files[e] = Broken THEN None ELSE files[e]]
    /\ UNCHANGED <<wallet, queue, games, requests, files, writing, had, unsaved, troubles>>

(* The process ends, perhaps with a snapshot half written, or written and  *)
(* not yet known to be.                                                    *)
Exit ==
    /\ up /\ Trouble
    /\ up' = FALSE /\ queue' = <<>> /\ writing' = None
    /\ games' = [e \in Started |-> None]
    /\ ttt_state' = [e \in Started |-> None]
    /\ IF writing = None THEN UNCHANGED <<files, unsaved>>
       ELSE LET e == writing.episode IN
            \E f \in {files[e], Broken, writing.snap} :
                /\ files' = [files EXCEPT ![e] = f]
                /\ unsaved' = IF f = writing.snap THEN unsaved \ {e} ELSE unsaved \cup {e}
    /\ UNCHANGED <<wallet, requests, had>>

-----------------------------------------------------------------------------
(* The tools that change something.  Their answer does not say whether the *)
(* engine has done, or will accept, what was asked.                        *)

Asked(message) ==
    /\ up /\ requests < MaxRequests
    /\ requests' = requests + 1
    /\ queue' = Append(queue, message)

start_episode ==
    \E participants \in Rosters :
        /\ Asked([episode |-> Len(games) + 1, participants |-> participants])
        /\ games' = Append(games, None) /\ ttt_state' = Append(ttt_state, None)
        /\ files' = Append(files, None) /\ had' = Append(had, <<>>)
        /\ UNCHANGED <<wallet, up, writing, unsaved, troubles>>

execute_command ==
    \E e \in Started, mv \in Moves, signer \in Agents :
        /\ Asked([episode |-> e, mv |-> mv, by |-> signer])
        /\ UNCHANGED <<wallet, up, games, storeVars, troubles>>

get_episode_state(e) == ttt_state[e]

-----------------------------------------------------------------------------
(* The engine's thread *)

(* Mutant of Mirrored for SnapshotsExplained: the handler of a command     *)
(* updates the map alone.                                                  *)
Mirrored_Mutant(e, g) ==
    /\ ttt_state' = [ttt_state EXCEPT ![e] = TttSnapshot(g)]
    /\ writing' = IF g.move_history = <<>> THEN [episode |-> e, snap |-> TttSnapshot(g)] ELSE None

Mirrored(e, g) ==
    /\ ttt_state' = [ttt_state EXCEPT ![e] = TttSnapshot(g)]
    /\ writing' = [episode |-> e, snap |-> TttSnapshot(g)]

Execute ==
    LET m == Head(queue)
        e == m.episode
        r == IF "participants" \in DOMAIN m
             THEN [ok |-> games[e] = None, state |-> Game!Initialize(m.participants, 0)]
             ELSE IF games[e] = None THEN [ok |-> FALSE]
             ELSE Game!Execute(games[e], m.mv, m.by, 0) IN
    /\ up /\ writing = None /\ queue # <<>>
    /\ queue' = Tail(queue)
    /\ IF r.ok
       THEN /\ games' = [games EXCEPT ![e] = r.state]
            /\ had' = [had EXCEPT ![e] = Append(@, TttSnapshot(r.state))]
            /\ Mirrored(e, r.state)
       ELSE UNCHANGED <<games, ttt_state, writing, had>>
    /\ UNCHANGED <<wallet, up, files, requests, unsaved, troubles>>

(* A failure is ignored; a file that could be opened is empty by then *)
persist_snapshot ==
    LET e == writing.episode IN
    /\ writing # None
    /\ writing' = None
    /\ \/ /\ files' = [files EXCEPT ![e] = writing.snap]
          /\ unsaved' = unsaved \ {e}
          /\ UNCHANGED troubles
       \/ /\ Trouble
          /\ unsaved' = unsaved \cup {e}
          /\ \E f \in {files[e], Broken} : files' = [files EXCEPT ![e] = f]
    /\ UNCHANGED <<wallet, up, queue, games, ttt_state, requests, had>>

Init ==
    /\ wallet = [a \in Agents |-> None] /\ up = FALSE /\ queue = <<>>
    /\ games = <<>> /\ ttt_state = <<>> /\ files = <<>> /\ writing = None
    /\ requests = 0 /\ had = <<>> /\ unsaved = {} /\ troubles = 0

Next ==
    \/ \E a \in Agents : load_or_create_for_agent(a)
    \/ new \/ Exit \/ start_episode \/ execute_command \/ Execute \/ persist_snapshot

-----------------------------------------------------------------------------
(* A client is shown the game as it is, but for the requests that wait.  A *)
(* game of an earlier process is shown as it ended, for ever, for no move  *)
(* changes it; or as it was earlier, or not at all, if its last snapshot   *)
(* was not written.                                                        *)
SnapshotsExplained ==
    \A e \in Started :
        LET seen == had[e]
            shown == get_episode_state(e) IN
        /\ files[e] \in Contents(seen) \cup {None, Broken}
        /\ seen # <<>> /\ e \notin unsaved /\ (writing = None \/ writing.episode # e) =>
              files[e] = seen[Len(seen)]
        /\ up => /\ shown \in Contents(seen) \cup {None}
                 /\ games[e] # None => shown = TttSnapshot(games[e]) /\ shown = seen[Len(seen)]
                 /\ seen # <<>> /\ e \notin unsaved => shown = seen[Len(seen)]
=============================================================================
