------------------------------ MODULE AuthDaemon ------------------------------
(***************************************************************************)
(* The daemon of kaspa-auth: it keeps identities, each a key on the disk   *)
(* behind a password, unlocks them into memory and authenticates them with *)
(* a peer by the transactions it sends.                                    *)
(*                                                                         *)
(* Each connection is served by a task of its own; a task that waits for   *)
(* the disk, the node or the peer holds no lock.  Keys are numbered as     *)
(* they are made, and so are episodes, whose identifiers the code draws at *)
(* random.                                                                 *)
(***************************************************************************)
EXTENDS Integers, Sequences

CONSTANTS
    Users, Passwords, Connections, None,
    MAX_ATTEMPTS, WINDOW_SECS, MAX_AGE,
    MaxPolls,                          \* 10 in the code
    MaxKeys, MaxEpisodes, MaxRequests, MaxTroubles      \* bounds of the model

Keys == 1..MaxKeys

Auth == INSTANCE SimpleAuth WITH Participants <- Keys, first <- 1,
                                 Times <- 0..MAX_AGE + 1 + MaxTroubles

VARIABLES
    password, key,       \* on the disk, of each user
    made,                \* history: whose each key is, and its password
    unlocked_identities, active_sessions,
    conn, requests,
    episodes,            \* on the chain, and as the peer shows them
    crossed, halfway,    \* history: users whose creation met another request,
                         \* or stopped between the password and the key
    lost, reverted,      \* history: episodes whose session the daemon gave up,
                         \* or that lost a block or were revoked elsewhere
    verified,            \* history: episodes with the tokens that verify_auth
                         \* of the peer wrote to its map
    troubles

diskVars == <<password, key, made>>
memoryVars == <<unlocked_identities, active_sessions>>
historyVars == <<crossed, halfway, lost, reverted, verified>>

Idle == [pc |-> "idle", user |-> None, password |-> None, key |-> None, episode |-> None,
         polls |-> 0, answer |-> None]

Goto(c, step) == conn' = [conn EXCEPT ![c].pc = step]
Done(c) == conn' = [conn EXCEPT ![c] = Idle]

Creating(u) == \E c \in Connections : conn[c].user = u /\ conn[c].pc \in {"key", "created"}
Unlocking(u) == \E c \in Connections : conn[c].user = u /\ conn[c].pc \in {"load", "loaded"}

Arrives(c) ==
    /\ conn[c].pc = "idle"
    /\ requests < MaxRequests
    /\ requests' = requests + 1

(* Disks that are full, answers that are lost, blocks that leave the       *)
(* chain, revocations elsewhere and ends of the process                    *)
Trouble == troubles < MaxTroubles /\ troubles' = troubles + 1

-----------------------------------------------------------------------------
(* Identities.  A new one overwrites that of the same name. *)

store_password_hash(u, p) == password' = [password EXCEPT ![u] = p]
load_password_hash(u) == password[u]

create_identity(c) ==
    \E u \in Users, p \in Passwords :
        /\ Arrives(c)
        /\ store_password_hash(u, p)
        /\ conn' = [conn EXCEPT ![c] = [Idle EXCEPT !.pc = "key", !.user = u, !.password = p]]
        /\ crossed' = IF Creating(u) \/ Unlocking(u) THEN crossed \cup {u} ELSE crossed
        /\ UNCHANGED <<key, made, memoryVars, episodes, halfway, lost, reverted, verified, troubles>>

(* Mutant of create_wallet for DaemonExplained: the identity is loaded     *)
(* into memory before its key is on the disk.                              *)
create_wallet_Mutant(c) ==
    LET u == conn[c].user
        k == Len(made) + 1 IN
    /\ conn[c].pc = "key"
    /\ k \in Keys
    /\ made' = Append(made, [user |-> u, password |-> conn[c].password])
    /\ unlocked_identities' = [unlocked_identities EXCEPT ![u] = k]
    /\ \/ /\ key' = [key EXCEPT ![u] = k]
          /\ UNCHANGED <<halfway, troubles>>
       \/ /\ Trouble
          /\ halfway' = halfway \cup {u}
          /\ UNCHANGED key
    /\ Done(c)
    /\ UNCHANGED <<password, active_sessions, requests, episodes, crossed, lost, reverted, verified>>

create_wallet(c) ==
    LET u == conn[c].user
        k == Len(made) + 1 IN
    /\ conn[c].pc = "key"
    /\ \/ /\ k \in Keys
          /\ made' = Append(made, [user |-> u, password |-> conn[c].password])
          /\ key' = [key EXCEPT ![u] = k]
          /\ conn' = [conn EXCEPT ![c].pc = "created", ![c].key = k]
          /\ UNCHANGED <<halfway, troubles>>
       \/ /\ Trouble
          /\ halfway' = halfway \cup {u}
          /\ Done(c)
          /\ UNCHANGED <<made, key>>
    /\ UNCHANGED <<password, memoryVars, requests, episodes, crossed, lost, reverted, verified>>

verify_password(c) ==
    \E u \in Users, p \in Passwords :
        /\ Arrives(c)
        /\ load_password_hash(u) = p
        /\ conn' = [conn EXCEPT ![c] = [Idle EXCEPT !.pc = "load", !.user = u, !.password = p]]
        /\ crossed' = IF Creating(u) THEN crossed \cup {u} ELSE crossed
        /\ UNCHANGED <<diskVars, memoryVars, episodes, halfway, lost, reverted, verified, troubles>>

load_wallet(c) ==
    LET k == key[conn[c].user] IN
    /\ conn[c].pc = "load"
    /\ IF k = None THEN Done(c)
       ELSE conn' = [conn EXCEPT ![c].pc = "loaded", ![c].key = k]
    /\ UNCHANGED <<diskVars, memoryVars, requests, episodes, historyVars, troubles>>

(* Where unlock_identity and create_identity end *)
Insert(c) ==
    /\ conn[c].pc \in {"created", "loaded"}
    /\ unlocked_identities' = [unlocked_identities EXCEPT ![conn[c].user] = conn[c].key]
    /\ Done(c)
    /\ UNCHANGED <<diskVars, active_sessions, requests, episodes, historyVars, troubles>>

lock_all_identities(c) ==
    /\ Arrives(c)
    /\ unlocked_identities' = [u \in Users |-> None]
    /\ UNCHANGED <<diskVars, active_sessions, conn, episodes, historyVars, troubles>>

-----------------------------------------------------------------------------
(* The chain and the peer.  The engine's handler puts what it executed     *)
(* last into the peer's map; on_rollback leaves the map alone, and the     *)
(* HTTP handlers execute commands on it themselves, at time 0.             *)

Episode(k) ==
    [by |-> k, sent |-> <<[name |-> "NewEpisode"]>>, undo |-> <<>>, state |-> None, map |-> None]

(* The node has a transaction of the key that no block accepted, so that   *)
(* the output it lists for the key is spent.                               *)
Busy(k) == \E e \in DOMAIN episodes :
               episodes[e].by = k /\ Len(episodes[e].undo) < Len(episodes[e].sent)

(* Blocks and clocks agree, and are far from time 0 *)
Now == MAX_AGE + 1 + troubles

(* A command that fails changes nothing, and there is nothing to undo *)
Executed(ep, cmd) ==
    IF cmd.name = "NewEpisode"
    THEN [ok |-> TRUE, undo |-> None,
          state |-> [Auth!initialize(Now) EXCEPT !.owner = ep.by]]
    ELSE IF ep.state = None \/ ~ Auth!Accepts(ep.state, cmd, ep.by, Now, Now)
    THEN [ok |-> FALSE, undo |-> None, state |-> ep.state]
    ELSE [ok |-> TRUE, undo |-> Auth!Rollback(ep.state, cmd),
          state |-> Auth!Executed(ep.state, cmd, ep.by, Now)]

Accept ==
    \E e \in DOMAIN episodes :
        LET ep == episodes[e]
            r == Executed(ep, ep.sent[Len(ep.undo) + 1]) IN
        /\ Len(ep.undo) < Len(ep.sent)
        /\ episodes' = [episodes EXCEPT ![e] =
               [ep EXCEPT !.state = r.state,
                          !.undo = Append(@, [ok |-> r.ok, rollback |-> r.undo]),
                          !.map = IF r.ok THEN r.state ELSE @]]
        /\ UNCHANGED <<diskVars, memoryVars, conn, requests, historyVars, troubles>>

Revert ==
    \E e \in DOMAIN episodes :
        LET ep == episodes[e]
            last == ep.undo[Len(ep.undo)] IN
        /\ ep.undo # <<>> /\ Trouble
        /\ episodes' = [episodes EXCEPT ![e] =
               [ep EXCEPT !.undo = SubSeq(@, 1, Len(@) - 1),
                          !.state = IF ~ last.ok THEN @
                                    ELSE IF last.rollback = None THEN None
                                    ELSE Auth!RolledBack(@, last.rollback)]]
        /\ reverted' = reverted \cup {e}
        /\ UNCHANGED <<diskVars, memoryVars, conn, requests, crossed, halfway, lost, verified>>

OnMap(e, cmd) ==
    LET map == episodes[e].map IN
    /\ requests < MaxRequests
    /\ requests' = requests + 1
    /\ Auth!Accepts(map, cmd, map.owner, 0, Now)
    /\ episodes' = [episodes EXCEPT ![e].map = Auth!Executed(map, cmd, map.owner, 0)]
    /\ UNCHANGED <<diskVars, memoryVars, conn, crossed, halfway, lost, reverted, troubles>>

request_challenge ==
    \E e \in DOMAIN episodes :
        /\ episodes[e].map # None
        /\ OnMap(e, [name |-> "RequestChallenge"])
        /\ UNCHANGED verified

(* With the owner's signature, which the owner may give to any client and  *)
(* which the transaction of a response shows to everyone.  It looks at the *)
(* map twice; what it finds the second time decides.                       *)
verify_auth ==
    \E e \in DOMAIN episodes :
        LET map == episodes[e].map IN
        /\ map # None /\ map.challenge # None
        /\ OnMap(e, [name |-> "SubmitResponse", nonce |-> map.challenge])
        /\ verified' = verified \cup {<<e, Auth!SessionToken(map)>>}

-----------------------------------------------------------------------------
(* Sessions *)

(* The wallet is cloned: the flow goes on with it whatever happens to the  *)
(* identity.                                                               *)
authenticate(c) ==
    \E u \in Users :
        /\ Arrives(c)
        /\ unlocked_identities[u] # None
        /\ conn' = [conn EXCEPT ![c] =
               [Idle EXCEPT !.pc = "new", !.user = u, !.key = unlocked_identities[u]]]
        /\ UNCHANGED <<diskVars, memoryVars, episodes, historyVars, troubles>>

Fail(c) == Done(c) /\ lost' = lost \cup {conn[c].episode}

(* The node takes a transaction and the flow goes on; or it does not, or   *)
(* its answer is lost, and the flow is over.                               *)
Submit(c, sent, next) ==
    \/ sent /\ next /\ UNCHANGED <<lost, troubles>>
    \/ sent /\ Trouble /\ Done(c)
            /\ lost' = lost \cup {IF conn[c].episode = None THEN Len(episodes) + 1
                                  ELSE conn[c].episode}
    \/ Trouble /\ Fail(c) /\ UNCHANGED episodes

SendNewEpisode(c) ==
    LET k == conn[c].key IN
    /\ conn[c].pc = "new"
    /\ Len(episodes) < MaxEpisodes
    /\ IF Busy(k) THEN Fail(c) /\ UNCHANGED <<episodes, troubles>>
       ELSE Submit(c, episodes' = Append(episodes, Episode(k)),
                   conn' = [conn EXCEPT ![c].pc = "request", ![c].episode = Len(episodes) + 1])
    /\ UNCHANGED <<diskVars, memoryVars, requests, crossed, halfway, reverted, verified>>

SendCommand(c, cmd, step) ==
    /\ Submit(c, episodes' = [episodes EXCEPT ![conn[c].episode].sent = Append(@, cmd)],
              conn' = [conn EXCEPT ![c].pc = step, ![c].polls = 0, ![c].answer = None])
    /\ UNCHANGED <<diskVars, memoryVars, requests, crossed, halfway, reverted, verified>>

SendRequestChallenge(c) ==
    /\ conn[c].pc = "request"
    /\ SendCommand(c, [name |-> "RequestChallenge"], "challenge")

SendSubmitResponse(c) ==
    /\ conn[c].pc = "respond"
    /\ SendCommand(c, [name |-> "SubmitResponse", nonce |-> conn[c].answer], "token")

(* The peer answers from its map; a status that fails to come is one that  *)
(* does not have what is asked for.                                        *)
get_status(c, field) ==
    LET map == episodes[conn[c].episode].map IN IF map = None THEN None ELSE map[field]

SessionToken(c) == get_status(c, "session_token")

Poll(c) ==
    LET asked == IF conn[c].pc = "challenge" THEN get_status(c, "challenge") ELSE SessionToken(c)
        next == IF conn[c].pc = "challenge" THEN "respond" ELSE "session" IN
    /\ conn[c].pc \in {"challenge", "token"}
    /\ IF asked # None
       THEN /\ conn' = [conn EXCEPT ![c].pc = next, ![c].answer = asked]
            /\ UNCHANGED lost
       ELSE IF conn[c].polls + 1 = MaxPolls THEN Fail(c)
       ELSE conn' = [conn EXCEPT ![c].polls = @ + 1] /\ UNCHANGED lost
    /\ UNCHANGED <<diskVars, memoryVars, requests, episodes, crossed, halfway, reverted, verified,
                   troubles>>

InsertSession(c) ==
    /\ conn[c].pc = "session"
    /\ active_sessions' = [active_sessions EXCEPT ![conn[c].episode] =
           [username |-> conn[c].user, session_token |-> conn[c].answer]]
    /\ Done(c)
    /\ UNCHANGED <<diskVars, unlocked_identities, requests, episodes, historyVars, troubles>>

(* Nothing is sent to the chain *)
revoke_session(c) ==
    \E e \in 1..MaxEpisodes :
        /\ Arrives(c)
        /\ active_sessions[e] # None
        /\ active_sessions' = [active_sessions EXCEPT ![e] = None]
        /\ lost' = lost \cup {e}
        /\ UNCHANGED <<diskVars, unlocked_identities, conn, episodes, crossed, halfway,
                       reverted, verified, troubles>>

(* The command line's revocation, with the key of the episode: the daemon  *)
(* is not told.                                                            *)
run_session_revocation ==
    \E e \in DOMAIN episodes :
        /\ active_sessions[e] # None
        /\ ~ Busy(episodes[e].by) /\ Trouble
        /\ episodes' = [episodes EXCEPT ![e].sent =
               Append(@, [name |-> "RevokeSession", token |-> active_sessions[e].session_token])]
        /\ reverted' = reverted \cup {e}
        /\ UNCHANGED <<diskVars, memoryVars, conn, requests, crossed, halfway, lost, verified>>

(* Shutdown or a crash, and the daemon is started again *)
Restart ==
    /\ Trouble
    /\ unlocked_identities' = [u \in Users |-> None]
    /\ active_sessions' = [e \in 1..MaxEpisodes |-> None]
    /\ halfway' = halfway \cup {conn[c].user : c \in {d \in Connections : conn[d].pc = "key"}}
    /\ lost' = lost \cup DOMAIN episodes
    /\ conn' = [c \in Connections |-> Idle]
    /\ UNCHANGED <<diskVars, requests, episodes, crossed, reverted, verified>>

Init ==
    /\ password = [u \in Users |-> None] /\ key = [u \in Users |-> None] /\ made = <<>>
    /\ unlocked_identities = [u \in Users |-> None]
    /\ active_sessions = [e \in 1..MaxEpisodes |-> None]
    /\ conn = [c \in Connections |-> Idle] /\ requests = 0
    /\ episodes = <<>>
    /\ crossed = {} /\ halfway = {} /\ lost = {} /\ reverted = {} /\ verified = {}
    /\ troubles = 0

process_request(c) ==
    \/ create_identity(c) \/ create_wallet(c) \/ verify_password(c) \/ load_wallet(c)
    \/ Insert(c) \/ lock_all_identities(c) \/ authenticate(c) \/ SendNewEpisode(c)
    \/ SendRequestChallenge(c) \/ SendSubmitResponse(c) \/ Poll(c) \/ InsertSession(c)
    \/ revoke_session(c)

Next ==
    \/ Accept \/ Revert \/ request_challenge \/ verify_auth \/ run_session_revocation
    \/ Restart
    \/ \E c \in Connections : process_request(c)

-----------------------------------------------------------------------------
(* A key in memory is the one on the disk, made under the password that    *)
(* opens it now, unless a creation met another request for the same user   *)
(* or stopped half way.                                                    *)
IdentityExplained(u) ==
    LET k == unlocked_identities[u] IN
    k # None /\ ~ Creating(u) /\ u \notin crossed =>
        /\ k = key[u]
        /\ made[k].user = u
        /\ u \notin halfway => made[k].password = password[u]

(* A session that the daemon lists has a token for a key of that user,     *)
(* although the identity may be locked or replaced by now, and for a       *)
(* challenge that a block gave, not one that the peer made over HTTP; the  *)
(* chain has the session with that token, unless the peer gave the token   *)
(* itself when it was shown the response.  And the daemon lists every      *)
(* session of the chain, unless its flow gave up, it was revoked here, or  *)
(* the daemon was started again.                                           *)
SessionExplained(e) ==
    LET session == active_sessions[e]
        token == session.session_token
        ep == episodes[e] IN
    e \notin reverted =>
        /\ session # None =>
              /\ made[token.owner].user = session.username
              /\ token.challenge.time # 0
              /\ \/ ep.state.is_authenticated /\ ep.state.session_token = token
                 \/ <<e, token>> \in verified
        /\ ep.state # None /\ ep.state.is_authenticated /\ e \notin lost
              /\ (\A c \in Connections : conn[c].episode # e)
           => session # None

DaemonExplained ==
    /\ \A u \in Users : IdentityExplained(u)
    /\ \A e \in DOMAIN episodes : SessionExplained(e)
=============================================================================
