----------------------------- MODULE CommentRoom -----------------------------
(***************************************************************************)
(* The episode of comment-it/src/core/episode.rs: participants prove who   *)
(* they are and then comment.  A challenge is a hash of the time at which  *)
(* it was issued; here it is that time.                                    *)
(***************************************************************************)
EXTENDS Integers, Filters

CONSTANTS
    PubKeys,
    None,              \* no authorization, no challenge
    MAX_ATTEMPTS       \* challenges a participant may get, 5 in the code

(* ok: the signature is valid, which is checked against the nonce of the   *)
(* command and not against the challenge; the text is neither empty nor    *)
(* too long.                                                               *)
Commands ==
         [type : {"RequestChallenge"}]
    \cup [type : {"SubmitResponse", "RevokeSession", "SubmitComment"}, ok : BOOLEAN]

Initialize(participants, time) ==
    [authenticated |-> {}, rate_limits |-> [k \in PubKeys |-> 0],
     authorized |-> participants, active_challenges |-> [k \in PubKeys |-> None],
     comments |-> <<>>, next_comment_id |-> 1]

(* Whoever had MAX_ATTEMPTS challenges is refused every command, comments  *)
(* and revocations too.                                                    *)
Accepts(ep, cmd, auth) ==
    /\ \E i \in DOMAIN ep.authorized : ep.authorized[i] = auth
    /\ ep.rate_limits[auth] < MAX_ATTEMPTS
    /\ (auth \in ep.authenticated) = (cmd.type \in {"RevokeSession", "SubmitComment"})
    /\ cmd.type # "RequestChallenge" => cmd.ok

(* Mutant of Challenged for RoomSound: the limit is not counted *)
Challenged_Uncounted(ep, auth, time) == [ep EXCEPT !.active_challenges[auth] = time]

Challenged(ep, auth, time) ==
    [ep EXCEPT !.active_challenges[auth] = time, !.rate_limits[auth] = @ + 1]

Executed(ep, cmd, auth, time) ==
    CASE cmd.type = "RequestChallenge" -> Challenged(ep, auth, time)
      [] cmd.type = "SubmitResponse" ->
            [ep EXCEPT !.authenticated = @ \cup {auth},
                       !.active_challenges[auth] = None]
      [] cmd.type = "RevokeSession" -> [ep EXCEPT !.authenticated = @ \ {auth}]
      [] cmd.type = "SubmitComment" ->
            [ep EXCEPT !.comments = Append(@, [id |-> ep.next_comment_id,
                                               author |-> auth, timestamp |-> time]),
                       !.next_comment_id = @ + 1]

RollbackOf(ep, cmd, auth) ==
    CASE cmd.type = "RequestChallenge" -> [type |-> "Challenge", key |-> auth]
      [] cmd.type = "SubmitResponse" ->
            [type |-> "Authentication", key |-> auth, was |-> auth \in ep.authenticated]
      [] cmd.type = "RevokeSession" ->
            [type |-> "SessionRevoked", key |-> auth, was |-> auth \in ep.authenticated]
      [] cmd.type = "SubmitComment" ->
            [type |-> "CommentAdded", comment_id |-> ep.next_comment_id]

Execute(ep, cmd, auth, time) ==
    IF Accepts(ep, cmd, auth)
    THEN [ok |-> TRUE, state |-> Executed(ep, cmd, auth, time),
          undo |-> RollbackOf(ep, cmd, auth)]
    ELSE [ok |-> FALSE, state |-> ep, undo |-> None]

(* A challenge goes without a trace of the one before it, and the limit    *)
(* and the challenge that a response used up do not come back.             *)
RolledBack(ep, u) ==
    CASE u.type = "Challenge" -> [ep EXCEPT !.active_challenges[u.key] = None]
      [] u.type = "Authentication" ->
            [ep EXCEPT !.authenticated = IF u.was THEN @ \cup {u.key} ELSE @ \ {u.key}]
      [] u.type = "SessionRevoked" ->
            [ep EXCEPT !.authenticated = IF u.was THEN @ \cup {u.key} ELSE @]
      [] u.type = "CommentAdded" ->
            [ep EXCEPT !.comments = WithoutId(@, u.comment_id),
                       !.next_comment_id = u.comment_id]

Rollback(ep, u) ==
    IF u.type = "CommentAdded" /\ \A i \in DOMAIN ep.comments : ep.comments[i].id # u.comment_id
    THEN [ok |-> FALSE, state |-> ep]
    ELSE [ok |-> TRUE, state |-> RolledBack(ep, u)]
=============================================================================
