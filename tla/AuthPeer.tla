------------------------------ MODULE AuthPeer ------------------------------
(***************************************************************************)
(* Peers of kaspa-auth that follow one chain.  The engine of each executes *)
(* the commands of one episode and takes those of removed blocks back; its *)
(* event handler copies the episode into a map that the HTTP handlers      *)
(* share, and read and change without the engine's knowledge.              *)
(*                                                                         *)
(* Every block of the chain carries one command.  The episode was created  *)
(* before and stays.  Commands reach the chain from the participants, from *)
(* what they were told by some peer, and from a peer that is asked to      *)
(* revoke a session.                                                       *)
(***************************************************************************)
EXTENDS SimpleAuth, SequencesExt

CONSTANTS
    Peers,
    web_participant,      \* the key of the wallet that peers revoke sessions with
    MaxChain,             \* bound on the length of the chain
    MaxReorgs             \* bound on the blocks it loses

ASSUME AuthPeerAssumption ==
    /\ MaxChain \in Nat /\ MaxReorgs \in Nat
    /\ Times # {0}

VARIABLES
    clock,                \* the time
    chain,                \* accepted blocks, [cmd, by, time]
    reorgs,
    engine,               \* of each peer: the episode, and the blocks it has
    mirror,               \* blockchain_episodes, of each peer
    verifying,            \* what verify_auth has read and found to match, or None
    revoking,             \* and revoke_session
    told,                 \* the last word to the pages over the WebSocket, the
                          \* command it is about, and whether touched was false
    touched               \* auxiliary: the mirror is no copy of the engine's

peerVars == <<engine, mirror, verifying, revoking, told, touched>>
vars == <<clock, chain, reorgs, peerVars>>

(* The clock is far from time 0 *)
Start == CHOOSE t \in Times \ {0} : \A u \in Times \ {0} : t <= u

Init ==
    /\ clock = Start
    /\ chain = <<>>
    /\ reorgs = 0
    /\ engine = [p \in Peers |-> [episode |-> initialize(Start), done |-> <<>>]]
    /\ mirror = [p \in Peers |-> initialize(Start)]
    /\ verifying = [p \in Peers |-> None]
    /\ revoking = [p \in Peers |-> None]
    /\ told = [p \in Peers |-> None]
    /\ touched = [p \in Peers |-> FALSE]

-----------------------------------------------------------------------------
(* Time and the chain *)

Tick ==
    /\ clock + 1 \in Times
    /\ clock' = clock + 1
    /\ UNCHANGED <<chain, reorgs, peerVars>>

(* What a participant can have seen of a peer *)
Shown == {mirror[p] : p \in Peers} \cup {engine[p].episode : p \in Peers}

Sendable ==
    {[name |-> "RequestChallenge"]}
        \cup {[name |-> "SubmitResponse", nonce |-> ep.challenge] :
                  ep \in {e \in Shown : e.challenge # None}}
        \cup {[name |-> "RevokeSession", token |-> ep.session_token] :
                  ep \in {e \in Shown : e.session_token # None}}

Mine ==
    /\ Len(chain) < MaxChain
    /\ \E cmd \in Sendable, by \in Participants :
          chain' = Append(chain, [cmd |-> cmd, by |-> by, time |-> clock])
    /\ UNCHANGED <<clock, reorgs, peerVars>>

Reorg ==
    /\ reorgs < MaxReorgs
    /\ chain # <<>>
    /\ chain' = Front(chain)
    /\ reorgs' = reorgs + 1
    /\ UNCHANGED <<clock, peerVars>>

-----------------------------------------------------------------------------
(* The engine of a peer and the event handler in its thread *)

History(p) == [i \in DOMAIN engine[p].done |-> engine[p].done[i].block]

(* on_command calls it a revocation when the map had a session before; no  *)
(* message is lost on the way to a page that keeps up                      *)
Word(before, ep) ==
    CASE ep.is_authenticated -> "authentication_successful"
      [] ~ ep.is_authenticated /\ before.is_authenticated -> "session_revoked"
      [] OTHER -> "challenge_issued"

Said(p, cmd, ep) ==
    IF ep.challenge = None THEN told[p]
    ELSE [word |-> Word(mirror[p], ep), cmd |-> cmd.name, sure |-> ~ touched[p]]

(* Mutant of BlkAccepted for MirrorExplained: the handler is told before   *)
(* the command is executed                                                 *)
BlkAccepted_Early(p) ==
    LET ep == engine[p].episode
        block == chain[Len(History(p)) + 1]
        ok == Accepts(ep, block.cmd, block.by, block.time, clock)
        new == IF ok THEN Executed(ep, block.cmd, block.by, block.time) ELSE ep
        rollback == IF ok THEN Rollback(ep, block.cmd) ELSE None IN
    /\ IsStrictPrefix(History(p), chain)
    /\ engine' = [engine EXCEPT ![p] =
           [episode |-> new,
            done |-> Append(@.done, [block |-> block, rollback |-> rollback, before |-> ep])]]
    /\ mirror' = [mirror EXCEPT ![p] = IF ok THEN ep ELSE @]
    /\ told' = [told EXCEPT ![p] = IF ok THEN Said(p, block.cmd, new) ELSE @]
    /\ touched' = [touched EXCEPT ![p] = IF ok THEN FALSE ELSE @]
    /\ UNCHANGED <<clock, chain, reorgs, verifying, revoking>>

BlkAccepted(p) ==
    LET ep == engine[p].episode
        block == chain[Len(History(p)) + 1]
        ok == Accepts(ep, block.cmd, block.by, block.time, clock)
        new == IF ok THEN Executed(ep, block.cmd, block.by, block.time) ELSE ep
        rollback == IF ok THEN Rollback(ep, block.cmd) ELSE None IN
    /\ IsStrictPrefix(History(p), chain)
    /\ engine' = [engine EXCEPT ![p] =
           [episode |-> new,
            done |-> Append(@.done, [block |-> block, rollback |-> rollback, before |-> ep])]]
    /\ mirror' = [mirror EXCEPT ![p] = IF ok THEN new ELSE @]
    /\ told' = [told EXCEPT ![p] = IF ok THEN Said(p, block.cmd, new) ELSE @]
    /\ touched' = [touched EXCEPT ![p] = IF ok THEN FALSE ELSE @]
    /\ UNCHANGED <<clock, chain, reorgs, verifying, revoking>>

(* on_rollback writes a line to the log and leaves the mirror alone *)
BlkReverted(p) ==
    LET last == Last(engine[p].done) IN
    /\ ~ IsPrefix(History(p), chain)
    /\ engine' = [engine EXCEPT ![p] =
           [episode |-> IF last.rollback = None THEN @.episode
                        ELSE RolledBack(@.episode, last.rollback),
            done |-> Front(@.done)]]
    /\ touched' = [touched EXCEPT ![p] = @ \/ last.rollback # None]
    /\ UNCHANGED <<clock, chain, reorgs, mirror, verifying, revoking, told>>

-----------------------------------------------------------------------------
(* The HTTP handlers.  They execute commands on the mirror, at time 0, and *)
(* drop the rollback object.                                               *)

OnMirror(p, cmd, by) ==
    LET ok == Accepts(mirror[p], cmd, by, 0, clock) IN
    /\ mirror' = [mirror EXCEPT ![p] = IF ok THEN Executed(@, cmd, by, 0) ELSE @]
    /\ touched' = [touched EXCEPT ![p] = @ \/ ok]
    /\ UNCHANGED <<clock, chain, reorgs, engine, told>>

RequestChallenge(p) ==
    /\ OnMirror(p, [name |-> "RequestChallenge"], mirror[p].owner)
    /\ UNCHANGED <<verifying, revoking>>

(* verify_auth gives the map back between its check and its update *)
VerifyAuth(p) ==
    /\ verifying[p] = None
    /\ ~ mirror[p].is_authenticated
    /\ mirror[p].challenge # None
    /\ verifying' = [verifying EXCEPT ![p] =
           [nonce |-> mirror[p].challenge, owner |-> mirror[p].owner]]
    /\ UNCHANGED <<clock, chain, reorgs, engine, mirror, revoking, told, touched>>

VerifyAuthUpdate(p) ==
    /\ verifying[p] # None
    /\ OnMirror(p, [name |-> "SubmitResponse", nonce |-> verifying[p].nonce],
                verifying[p].owner)
    /\ verifying' = [verifying EXCEPT ![p] = None]
    /\ UNCHANGED revoking

(* revoke_session compares the token with the map, gives the map back, and *)
(* waits two seconds before it looks for an output.  Its command is in the *)
(* name of the owner, but signed by the wallet: it counts if both are one. *)
RevokeSession(p) ==
    /\ revoking[p] = None
    /\ mirror[p].session_token # None
    /\ revoking' = [revoking EXCEPT ![p] =
           [token |-> mirror[p].session_token, owner |-> mirror[p].owner]]
    /\ UNCHANGED <<clock, chain, reorgs, engine, mirror, verifying, told, touched>>

RevokeSubmit(p) ==
    /\ revoking[p] # None
    /\ Len(chain) < MaxChain
    /\ chain' = IF revoking[p].owner # web_participant THEN chain
                ELSE Append(chain, [cmd |-> [name |-> "RevokeSession", token |-> revoking[p].token],
                                    by |-> revoking[p].owner, time |-> clock])
    /\ revoking' = [revoking EXCEPT ![p] = None]
    /\ UNCHANGED <<clock, reorgs, engine, mirror, verifying, told, touched>>

(* No output, no connection, or the node refuses the transaction *)
RevokeFails(p) ==
    /\ revoking[p] # None
    /\ revoking' = [revoking EXCEPT ![p] = None]
    /\ UNCHANGED <<clock, chain, reorgs, engine, mirror, verifying, told, touched>>

-----------------------------------------------------------------------------
Next ==
    \/ Tick \/ Mine \/ Reorg
    \/ \E p \in Peers :
          \/ BlkAccepted(p) \/ BlkReverted(p)
          \/ RequestChallenge(p) \/ VerifyAuth(p) \/ VerifyAuthUpdate(p)
          \/ RevokeSession(p) \/ RevokeSubmit(p) \/ RevokeFails(p)

Spec == Init /\ [][Next]_vars

-----------------------------------------------------------------------------
(* In the engine's episode and in the mirror, whatever was executed, taken *)
(* back or executed over HTTP, there is a session token exactly while the  *)
(* owner is authenticated, and it is one of a challenge that was issued.   *)
Session(ep) ==
    /\ ep.is_authenticated <=> ep.session_token # None
    /\ ep.is_authenticated => ep.challenge # None
    /\ ep.session_token # None => ep.session_token.time = ep.session_token.challenge.time

SessionSound == \A p \in Peers : Session(engine[p].episode) /\ Session(mirror[p])

(* On the chain no participant gets more than MAX_ATTEMPTS challenges in   *)
(* any WINDOW_SECS, although attempts that are old are dropped and a       *)
(* reorganisation takes challenges back.                                   *)
Issued(p, by, from) ==
    {i \in DOMAIN engine[p].done :
        LET d == engine[p].done[i] IN
        /\ d.rollback # None /\ d.rollback.name = "Challenge"
        /\ d.block.by = by
        /\ d.block.time \in from .. from + WINDOW_SECS}

RateBound ==
    \A p \in Peers, by \in Participants, from \in Times :
        Cardinality(Issued(p, by, from)) <= MAX_ATTEMPTS

(* The mirror is the engine's episode unless an HTTP handler has executed  *)
(* on it, or a command was taken back, since the last command.  The pages  *)
(* hear of a revocation exactly when the chain has one, unless such a      *)
(* thing had happened before the command that they hear of.                *)
MirrorExplained ==
    \A p \in Peers :
        /\ ~ touched[p] => mirror[p] = engine[p].episode
        /\ told[p] # None /\ told[p].sure =>
              (told[p].word = "session_revoked" <=> told[p].cmd = "RevokeSession")

(* A reversion gives the episode back the challenge and the session it had *)
(* before the command (and neither the owner nor the rate limits).         *)
View(ep) ==
    <<ep.challenge, ep.challenge_timestamp, ep.is_authenticated, ep.session_token>>

RollbackRestores ==
    [][\A p \in Peers :
          BlkReverted(p) => View(engine'[p].episode) = View(Last(engine[p].done).before)]_vars

-----------------------------------------------------------------------------
(* "Query from real blockchain episodes": status.rs answers from the       *)
(* mirror that the chain confirms the session.  It does not: verify_auth   *)
(* authenticates in the mirror only, and a reversion does not reach it.    *)
StatusConfirmed ==
    \A p \in Peers : mirror[p].is_authenticated => engine[p].episode.is_authenticated

=============================================================================
