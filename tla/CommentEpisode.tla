--------------------------- MODULE CommentEpisode ---------------------------
(***************************************************************************)
(* The episode of comment-it/src/comment.rs: whoever has a session that    *)
(* the episode was told of may comment.  Any participant may tell it of a  *)
(* session, for any key, and an author is what the command says.           *)
(*                                                                         *)
(* The identifier of the authentication episode, which nothing reads, is   *)
(* left out.                                                               *)
(***************************************************************************)
EXTENDS Integers, Filters

CONSTANTS
    PubKeys, None,
    Tokens

(* ok: the text is neither blank nor too long.  A token that two keys have *)
(* is revoked for the one that the map, a hash map, comes upon first; here *)
(* the command says which it is.  GetComments stands for both queries.     *)
Commands ==
         [type : {"SubmitComment"}, author : PubKeys, token : Tokens, ok : BOOLEAN]
    \cup [type : {"RegisterSession", "RevokeSession"}, public_key : PubKeys, token : Tokens]
    \cup [type : {"GetComments"}]

Initialize(participants, time) ==
    [comments |-> <<>>, next_id |-> 1, authorized_participants |-> participants,
     valid_sessions |-> [k \in PubKeys |-> None]]

Accepts(ep, cmd, auth) ==
    /\ \E i \in DOMAIN ep.authorized_participants : ep.authorized_participants[i] = auth
    /\ cmd.type = "SubmitComment" => cmd.ok /\ ep.valid_sessions[auth] = cmd.token
    /\ cmd.type = "RevokeSession" => ep.valid_sessions[cmd.public_key] = cmd.token

Executed(ep, cmd, time) ==
    CASE cmd.type = "SubmitComment" ->
            [ep EXCEPT !.comments = Append(@, [id |-> ep.next_id, author |-> cmd.author,
                                               timestamp |-> time, token |-> cmd.token]),
                       !.next_id = @ + 1]
      [] cmd.type = "RegisterSession" ->
            [ep EXCEPT !.valid_sessions[cmd.public_key] = cmd.token]
      [] cmd.type = "RevokeSession" -> [ep EXCEPT !.valid_sessions[cmd.public_key] = None]
      [] OTHER -> ep

RollbackOf(ep, cmd) ==
    CASE cmd.type = "SubmitComment" -> [type |-> "CommentSubmitted", comment_id |-> ep.next_id]
      [] cmd.type = "RegisterSession" ->
            [type |-> "SessionRegistered", public_key |-> cmd.public_key]
      [] cmd.type = "RevokeSession" ->
            [type |-> "SessionRevoked", public_key |-> cmd.public_key, token |-> cmd.token]
      [] OTHER -> [type |-> "CommentsQueried"]

Execute(ep, cmd, auth, time) ==
    IF Accepts(ep, cmd, auth)
    THEN [ok |-> TRUE, state |-> Executed(ep, cmd, time), undo |-> RollbackOf(ep, cmd)]
    ELSE [ok |-> FALSE, state |-> ep, undo |-> None]

(* A session that another took the place of does not come back *)
RolledBack(ep, u) ==
    CASE u.type = "CommentSubmitted" ->
            [ep EXCEPT !.comments = WithoutId(@, u.comment_id),
                       !.next_id = u.comment_id]
      [] u.type = "SessionRegistered" -> [ep EXCEPT !.valid_sessions[u.public_key] = None]
      [] u.type = "SessionRevoked" -> [ep EXCEPT !.valid_sessions[u.public_key] = u.token]
      [] OTHER -> ep

Rollback(ep, u) ==
    IF u.type = "CommentSubmitted" /\ \A i \in DOMAIN ep.comments : ep.comments[i].id # u.comment_id
    THEN [ok |-> FALSE, state |-> ep]
    ELSE [ok |-> TRUE, state |-> RolledBack(ep, u)]
=============================================================================
