----------------------------- MODULE CommentPeer -----------------------------
(***************************************************************************)
(* The HTTP peer of comment-it: comment-it/src/api/http.                   *)
(*                                                                         *)
(* Handlers run at the same time and share with the engine's thread a map  *)
(* of episodes, a set of keys of requests that are in progress, a set of   *)
(* outputs that are being spent and a cache of the node's outputs.  All    *)
(* sign with the one wallet of the peer; what they send for another key    *)
(* the node refuses.  There is one room, and wallet or a guest creates it. *)
(***************************************************************************)
EXTENDS Integers, Sequences

CONSTANTS
    PubKeys, None, MAX_ATTEMPTS,
    wallet,              \* the key of the peer, others are guests
    Requests,            \* that can be open at once
    Openings,            \* commands executed before the model starts
    NumCoins,            \* outputs of the wallet's address
    MaxPolls,            \* 30 in the code
    MaxRequests, MaxTroubles       \* bounds of the model

Room == INSTANCE CommentRoom

VARIABLES
    room,                \* the engine's episode
    chain,               \* accepted transactions with their rollback objects
    waiting,             \* transactions the node has, not yet accepted
    coins,               \* the wallet's outputs that are accepted
    blockchain_episodes, pending_requests, used_utxos,
    utxo_cache,          \* None when it is too old
    timers,              \* outputs to be released after ten seconds
    req, requests,
    members,             \* whom the indexer lists for the room
    told,                \* the last broadcast to the WebSocket clients, and the
                         \* command it was made for
    drift,               \* history: the map was left or made different
    leaked, stolen,      \* history: keys without a request, and requests
                         \* that lost theirs
    doubtful,            \* history: outputs that may be chosen though spent
    troubles, restarted

chainVars == <<room, chain, coins, members, blockchain_episodes, told, drift>>
utxoVars == <<used_utxos, utxo_cache, timers, doubtful>>
keyVars == <<pending_requests, leaked, stolen>>
boundVars == <<troubles, restarted>>

Idle == [pc |-> "idle", kind |-> None, cmd |-> None, by |-> None, coin |-> None,
         polls |-> 0]

Commands == Room!Commands \cup [type : {"NewEpisode"}]

Spent(c) == \E tx \in waiting : tx.coin = c

-----------------------------------------------------------------------------
(* The engine and its handler *)

Executes(ep, tx, time) ==
    IF tx.cmd.type = "NewEpisode"
    THEN [ok |-> ep = None, state |-> Room!Initialize(<<tx.by>>, 0), undo |-> None]
    ELSE IF ep = None THEN [ok |-> FALSE]
    ELSE Room!Execute(ep, tx.cmd, tx.by, time)

Authenticated(ep) == ep # None /\ ep.authenticated # {}

(* What on_initialize and on_command broadcast, from the entry of the map  *)
(* that they replace.                                                      *)
Broadcast(cmd, ep) ==
    CASE cmd.type = "NewEpisode" -> "episode_created"
      [] cmd.type = "SubmitComment" -> "new_comment"
      [] OTHER ->
            IF Authenticated(blockchain_episodes) /\ ~ Authenticated(ep) THEN "session_revoked"
            ELSE IF Authenticated(ep) THEN "authentication_successful"
            ELSE IF \E k \in PubKeys : ep.active_challenges[k] # None THEN "challenge_issued"
            ELSE "nothing"

(* Mutant of Notified for MapExplained: the map keeps a revoked session.   *)
Notified_Mutant(cmd, ep) ==
    /\ blockchain_episodes' = IF cmd.type = "RevokeSession" THEN blockchain_episodes ELSE ep
    /\ told' = [type |-> Broadcast(cmd, ep), cmd |-> cmd.type, drift |-> drift]
    /\ drift' = FALSE

Notified(cmd, ep) ==
    /\ blockchain_episodes' = ep
    /\ told' = [type |-> Broadcast(cmd, ep), cmd |-> cmd.type, drift |-> drift]
    /\ drift' = FALSE

Change(c) == c + NumCoins

(* The indexer, whose engine is the same, lists who answered a challenge,  *)
(* and takes nobody off its list.                                          *)
Listed(list, tx) == IF tx.cmd.type = "SubmitResponse" THEN list \cup {tx.by} ELSE list

AcceptTx ==
    \E tx \in waiting :
        LET r == Executes(room, tx, Len(chain) + 1) IN
        /\ tx.coin # None => tx.coin \in coins
        /\ coins' = IF tx.coin = None THEN coins
                    ELSE (coins \ {tx.coin}) \cup {Change(tx.coin)}
        /\ waiting' = waiting \ {tx}
        /\ chain' = Append(chain, [tx |-> tx, ok |-> r.ok,
                                   undo |-> IF r.ok THEN r.undo ELSE None])
        /\ IF r.ok
           THEN /\ room' = r.state /\ Notified(tx.cmd, r.state)
                /\ members' = Listed(members, tx)
           ELSE UNCHANGED <<room, members, blockchain_episodes, told, drift>>
        /\ UNCHANGED <<req, requests, keyVars, utxoVars, boundVars>>

(* Lost answers, refusals, reorganisations and restarts *)
Trouble == troubles < MaxTroubles /\ troubles' = troubles + 1

(* on_rollback leaves the map as it is *)
Revert ==
    LET b == chain[Len(chain)] IN
    /\ chain # <<>> /\ Trouble
    /\ chain' = SubSeq(chain, 1, Len(chain) - 1)
    /\ waiting' = waiting \cup {b.tx}
    /\ coins' = IF b.tx.coin = None THEN coins
                ELSE (coins \ {Change(b.tx.coin)}) \cup {b.tx.coin}
    /\ doubtful' = IF b.tx.coin = None THEN doubtful
                   ELSE doubtful \cup {Change(b.tx.coin)}
    /\ room' = IF ~ b.ok THEN room
               ELSE IF b.tx.cmd.type = "NewEpisode" THEN None
               ELSE Room!Rollback(room, b.undo).state
    /\ drift' = (drift \/ b.ok)
    /\ UNCHANGED <<members, blockchain_episodes, told, req, requests, keyVars,
                   used_utxos, utxo_cache, timers, restarted>>

(* A guest's own peer sends something *)
Guest ==
    \E k \in PubKeys \ {wallet}, type \in {"NewEpisode", "RequestChallenge"} :
        /\ requests < MaxRequests
        /\ requests' = requests + 1
        /\ waiting' = waiting \cup {[cmd |-> [type |-> type], by |-> k, coin |-> None]}
        /\ UNCHANGED <<chainVars, req, keyVars, utxoVars, boundVars>>

-----------------------------------------------------------------------------
(* submit_episode_message_transaction, which every handler calls: the      *)
(* outputs are looked at under one lock and reserved under another.        *)

Goto(r, step) == req' = [req EXCEPT ![r].pc = step]

(* Where the handler goes on *)
Submitted(r) ==
    CASE req[r].kind = "challenge" -> Goto(r, "poll")
      [] req[r].kind = "verify" -> Goto(r, "drop")
      [] OTHER -> req' = [req EXCEPT ![r] = Idle]

Lowest(S) == CHOOSE c \in S : \A d \in S : c <= d

Choose(r) ==
    LET entries == IF utxo_cache # None THEN utxo_cache ELSE coins
        unused == entries \ used_utxos IN
    /\ req[r].pc = "choose"
    /\ IF req[r].by # wallet THEN Submitted(r) /\ UNCHANGED utxo_cache
       ELSE /\ utxo_cache' = entries
            /\ IF unused = {} THEN Submitted(r)
               ELSE req' = [req EXCEPT ![r].pc = "reserve", ![r].coin = Lowest(unused)]
    /\ UNCHANGED <<chainVars, waiting, requests, keyVars, used_utxos, timers,
                   doubtful, boundVars>>

Reserve(r) ==
    LET c == req[r].coin IN
    /\ req[r].pc = "reserve"
    /\ used_utxos' = used_utxos \cup {c}
    /\ doubtful' = IF c \in used_utxos THEN doubtful \cup {c} ELSE doubtful
    /\ Goto(r, "send")
    /\ UNCHANGED <<chainVars, waiting, requests, keyVars, utxo_cache, timers, boundVars>>

Taken(r) ==
    waiting' = waiting \cup {[cmd |-> req[r].cmd, by |-> wallet, coin |-> req[r].coin]}

Possible(r) == req[r].coin \in coins /\ ~ Spent(req[r].coin)

(* Mutant of Send for ReservationsExplained: the output is released as     *)
(* soon as the node has the transaction.                                   *)
Send_Mutant(r) ==
    /\ req[r].pc = "send"
    /\ IF Possible(r) THEN Taken(r) ELSE UNCHANGED waiting
    /\ used_utxos' = used_utxos \ {req[r].coin}
    /\ Submitted(r)
    /\ UNCHANGED <<chainVars, requests, keyVars, utxo_cache, timers, doubtful, boundVars>>

(* An error releases the output, though another handler may hold it or the *)
(* node may have the transaction and only the answer was lost.             *)
Send(r) ==
    LET c == req[r].coin IN
    /\ req[r].pc = "send"
    /\ \/ /\ Possible(r) /\ Taken(r)
          /\ timers' = timers \cup {c}
          /\ UNCHANGED <<used_utxos, doubtful, troubles>>
       \/ /\ IF Possible(r) THEN Trouble ELSE UNCHANGED troubles
          /\ used_utxos' = used_utxos \ {c}
          /\ UNCHANGED <<waiting, timers, doubtful>>
       \/ /\ Possible(r) /\ Taken(r) /\ Trouble
          /\ used_utxos' = used_utxos \ {c}
          /\ doubtful' = doubtful \cup {c}
          /\ UNCHANGED timers
    /\ Submitted(r)
    /\ UNCHANGED <<chainVars, requests, keyVars, utxo_cache, restarted>>

(* Ten seconds after a submission, and 750 ms after a query *)
Release ==
    \E c \in timers :
        /\ timers' = timers \ {c}
        /\ used_utxos' = used_utxos \ {c}
        /\ doubtful' = doubtful \cup {c}
        /\ UNCHANGED <<chainVars, waiting, req, requests, keyVars, utxo_cache, boundVars>>

Expire ==
    /\ utxo_cache # None
    /\ utxo_cache' = None
    /\ UNCHANGED <<chainVars, waiting, req, requests, keyVars, used_utxos, timers,
                   doubtful, boundVars>>

-----------------------------------------------------------------------------
(* The internal routes, which the process of an organizer posts to when    *)
(* its own engine executed a command, and anyone may post to: what they    *)
(* are told is broadcast as it is, whatever this peer's engine executed.   *)

Posted(type) ==
    /\ requests < MaxRequests
    /\ requests' = requests + 1
    /\ told' = [type |-> type, cmd |-> "posted", drift |-> drift]
    /\ UNCHANGED <<room, chain, coins, members, blockchain_episodes, drift, waiting, req,
                   keyVars, utxoVars, boundVars>>

episode_authenticated == Posted("authentication_successful")

session_revoked == Posted("session_revoked")

-----------------------------------------------------------------------------
(* The handlers.  Requests that are answered at once, and change and       *)
(* broadcast nothing, are left out: malformed ones, duplicates, those for  *)
(* a room that the map does not have.                                      *)

Arrives(r) ==
    /\ req[r].pc = "idle"
    /\ requests < MaxRequests
    /\ requests' = requests + 1
    /\ UNCHANGED <<chainVars, waiting, utxoVars, boundVars>>

Begin(r, step, kind, cmd, by) ==
    req' = [req EXCEPT ![r] = [Idle EXCEPT !.pc = step, !.kind = kind, !.cmd = cmd, !.by = by]]

(* The comment room has one creator, who is the owner *)
owner == Head(blockchain_episodes.authorized)

start_auth(r) ==
    \E k \in PubKeys :
        /\ Arrives(r)
        /\ (IF utxo_cache # None THEN utxo_cache ELSE coins) # {}
        /\ Begin(r, "choose", "start", [type |-> "NewEpisode"], k)
        /\ UNCHANGED keyVars

(* The key is set before the public key of the request is looked at, and   *)
(* removed by a guard that is made after it.                               *)
request_challenge(r) ==
    \E k \in PubKeys \cup {"malformed", "missing"} :
        LET known == k \in PubKeys \/ (k = "missing" /\ blockchain_episodes # None) IN
        /\ Arrives(r)
        /\ "challenge" \notin pending_requests
        /\ pending_requests' = pending_requests \cup {"challenge"}
        /\ leaked' = IF known THEN leaked ELSE leaked \cup {"challenge"}
        /\ IF known
           THEN Begin(r, "choose", "challenge", [type |-> "RequestChallenge"],
                      IF k = "missing" THEN owner ELSE k)
           ELSE UNCHANGED req
        /\ UNCHANGED stolen

(* The map is asked whether anyone is authenticated *)
verify_auth(r) ==
    \E ok \in BOOLEAN :
        /\ Arrives(r)
        /\ "verify" \notin pending_requests
        /\ ~ Authenticated(blockchain_episodes)
        /\ pending_requests' = pending_requests \cup {"verify"}
        /\ Begin(r, "choose", "verify", [type |-> "SubmitResponse", ok |-> ok], wallet)
        /\ UNCHANGED <<leaked, stolen>>

submit_comment(r) ==
    \E k \in PubKeys :
        /\ Arrives(r)
        /\ Begin(r, "choose", "comment", [type |-> "SubmitComment", ok |-> TRUE], k)
        /\ UNCHANGED keyVars

(* The convenience API asks the indexer first when the map does not have   *)
(* the wallet's key as authenticated.                                      *)
submit_comment_simple(r) ==
    LET needs_auth == blockchain_episodes # None /\ wallet \notin blockchain_episodes.authenticated IN
    /\ Arrives(r)
    /\ Begin(r, IF needs_auth THEN "member" ELSE "choose", "comment",
             [type |-> "SubmitComment", ok |-> TRUE], wallet)
    /\ UNCHANGED keyVars

Populate(r) ==
    /\ req[r].pc = "member"
    /\ Goto(r, "choose")
    /\ IF wallet \in members /\ blockchain_episodes # None
       THEN /\ blockchain_episodes' =
                   [blockchain_episodes EXCEPT !.authenticated = @ \cup {wallet}]
            /\ drift' = TRUE
       ELSE UNCHANGED <<blockchain_episodes, drift>>
    /\ UNCHANGED <<room, chain, coins, members, told, waiting, requests, keyVars, utxoVars,
                   boundVars>>

revoke_session(r) ==
    \E ok \in BOOLEAN :
        /\ Arrives(r)
        /\ blockchain_episodes # None
        /\ Begin(r, "choose", "revoke", [type |-> "RevokeSession", ok |-> ok], owner)
        /\ UNCHANGED keyVars

Poll(r) ==
    LET k == req[r].by IN
    /\ req[r].pc = "poll"
    /\ IF blockchain_episodes # None /\ blockchain_episodes.active_challenges[k] # None
       THEN Goto(r, "cleanup")
       ELSE IF req[r].polls + 1 = MaxPolls THEN Goto(r, "drop")
       ELSE req' = [req EXCEPT ![r].polls = @ + 1]
    /\ UNCHANGED <<chainVars, waiting, requests, keyVars, utxoVars, boundVars>>

Cleanup(r) ==
    /\ req[r].pc = "cleanup"
    /\ pending_requests' = pending_requests \ {"challenge"}
    /\ Goto(r, "cleaned")
    /\ UNCHANGED <<chainVars, waiting, requests, leaked, stolen, utxoVars, boundVars>>

(* The guard removes the key once more, which may be another request's by  *)
(* now.                                                                    *)
Drop(r) ==
    LET key == req[r].kind IN
    /\ req[r].pc \in {"drop", "cleaned"}
    /\ pending_requests' = pending_requests \ {key}
    /\ stolen' = IF req[r].pc = "cleaned" /\ key \in pending_requests
                 THEN stolen \cup {key} ELSE stolen
    /\ leaked' = leaked \ {key}
    /\ req' = [req EXCEPT ![r] = Idle]
    /\ UNCHANGED <<chainVars, waiting, requests, utxoVars, boundVars>>

(* get_status, of a snapshot of the map and if need be of the indexer *)
get_status(k) ==
    IF ~ Authenticated(blockchain_episodes) /\ k \in members
    THEN [status |-> "authenticated_via_indexer", blockchain_confirmed |-> FALSE]
    ELSE [status |-> IF blockchain_episodes = None THEN "episode_not_found"
                     ELSE IF Authenticated(blockchain_episodes) THEN "authenticated"
                     ELSE "pending",
          blockchain_confirmed |-> blockchain_episodes # None]

-----------------------------------------------------------------------------
(* The process starts again.  The listener starts at the node's sink, so   *)
(* the engine does not see older blocks, and their reversion does nothing. *)
Restart ==
    /\ Trouble
    /\ restarted' = TRUE
    /\ room' = None /\ blockchain_episodes' = None /\ told' = None /\ drift' = FALSE
    /\ chain' = [i \in DOMAIN chain |-> [chain[i] EXCEPT !.ok = FALSE]]
    /\ pending_requests' = {} /\ leaked' = {} /\ stolen' = {}
    /\ used_utxos' = {} /\ timers' = {} /\ utxo_cache' = None
    /\ doubtful' = {tx.coin : tx \in waiting \cup {chain[i].tx : i \in DOMAIN chain}}
    /\ req' = [r \in Requests |-> Idle]
    /\ UNCHANGED <<waiting, coins, members, requests>>

(* rehydrate_from_indexer: a block of no chain creates an empty room *)
Rehydrate ==
    \E i \in DOMAIN chain :
        LET tx == chain[i].tx
            ep == Room!Initialize(<<tx.by>>, 0) IN
        /\ restarted
        /\ tx.cmd.type = "NewEpisode" /\ blockchain_episodes = None /\ room = None
        /\ room' = ep
        /\ Notified(tx.cmd, ep)
        /\ UNCHANGED <<chain, coins, members, waiting, req, requests, keyVars, utxoVars, boundVars>>

(* A process that has run for a while: the wallet's owner sent commands    *)
Happens(p, cmd, time) ==
    LET tx == [cmd |-> cmd, by |-> wallet, coin |-> None]
        r == Executes(p.room, tx, time) IN
    [room |-> r.state, members |-> Listed(p.members, tx),
     chain |-> Append(p.chain, [tx |-> tx, ok |-> TRUE, undo |-> r.undo])]

Opening(commands) ==
    LET after[i \in 0 .. Len(commands)] ==
            IF i = 0 THEN [room |-> None, members |-> {}, chain |-> <<>>]
            ELSE Happens(after[i - 1], commands[i], i)
    IN after

Opened(commands) == Opening(commands)[Len(commands)]

(* The engine executed them all *)
Executable(commands) ==
    /\ commands \in Seq(Commands)
    /\ \A i \in 1 .. Len(commands) :
          Executes(Opening(commands)[i - 1].room,
                   [cmd |-> commands[i], by |-> wallet, coin |-> None], i).ok

Init ==
    /\ \E commands \in Openings :
          /\ room = Opened(commands).room
          /\ chain = Opened(commands).chain
          /\ members = Opened(commands).members
    /\ requests = 0 /\ waiting = {} /\ coins = 1..NumCoins
    /\ blockchain_episodes = room /\ pending_requests = {} /\ used_utxos = {}
    /\ utxo_cache = None /\ timers = {}
    /\ req = [r \in Requests |-> Idle]
    /\ told = None /\ drift = FALSE /\ leaked = {} /\ stolen = {} /\ doubtful = {}
    /\ troubles = 0 /\ restarted = FALSE

Handle(r) ==
    \/ start_auth(r) \/ request_challenge(r) \/ verify_auth(r) \/ submit_comment(r)
    \/ submit_comment_simple(r) \/ Populate(r) \/ revoke_session(r)
    \/ Choose(r) \/ Reserve(r) \/ Send(r) \/ Poll(r) \/ Cleanup(r) \/ Drop(r)

Next ==
    \/ AcceptTx \/ Revert \/ Guest \/ Release \/ Expire \/ Restart \/ Rehydrate
    \/ episode_authenticated \/ session_revoked
    \/ \E r \in Requests : Handle(r)

-----------------------------------------------------------------------------
(* What a handler holds is its own.  "Track used UTXOs to prevent double-   *)
(* spending": it sends an output that is spent, or that another sends too, *)
(* only if the two chose it between the locks, or ten seconds passed, the  *)
(* answer of the node was lost, a block left the chain or the process      *)
(* started again.  A key belongs to a request in progress, or to a         *)
(* malformed one, which leaves it for ever; and a request in progress has  *)
(* its key, so that it is the only one of its kind, unless a guard took    *)
(* the key away.                                                           *)
Sends(r) == req[r].pc = "send"
Holding(r, key) == req[r].kind = key /\ req[r].pc \notin {"idle", "cleaned"}

ReservationsExplained ==
    /\ \A r \in Requests :
          /\ Sends(r)
          /\ ~ Possible(r) \/ \E s \in Requests \ {r} : Sends(s) /\ req[s].coin = req[r].coin
          => req[r].coin \in doubtful
    /\ \A key \in {"challenge", "verify"} :
          /\ key \in pending_requests =>
                key \in leaked \/ \E r \in Requests : Holding(r, key)
          /\ key \notin stolen =>
                \A r, s \in Requests : Holding(r, key) =>
                    key \in pending_requests /\ (Holding(s, key) => s = r)

(* What the handlers know of the room is what the engine has, a session    *)
(* that the status confirms is one of the chain, and a revocation that the *)
(* engine's handler announces was executed: unless a block left the chain  *)
(* or the indexer's word was written to the map, and no command has come   *)
(* since.  Of an announcement that was posted to an internal route nothing *)
(* is known.                                                               *)
MapExplained ==
    /\ ~ drift => /\ blockchain_episodes = room
                  /\ \A k \in PubKeys \cup {None} :
                        LET s == get_status(k) IN
                        s.status = "authenticated" /\ s.blockchain_confirmed
                            => Authenticated(room)
    /\ told # None /\ told.type = "session_revoked" =>
          told.cmd \in {"RevokeSession", "posted"} \/ told.drift
=============================================================================
