------------------------------ MODULE OpenRoom ------------------------------
(***************************************************************************)
(* The episode CommentBoard of comment-board/src/comments.rs, an open room *)
(* without a contract that keeps the latest comments only.                 *)
(*                                                                         *)
(* A challenge is named after the transaction that asked for it; here a    *)
(* transaction is its signer and its time.  A session token, drawn at      *)
(* random and read by nobody, is left out.                                 *)
(***************************************************************************)
EXTENDS Integers, Filters

CONSTANTS
    PubKeys,
    None,                \* no authorization, no challenge
    Window               \* comments that are kept, 50 in the code

(* ok says of a response that its nonce is the challenge and its signature *)
(* not empty, and of a comment that its text is neither blank nor too      *)
(* long; forbidden, that it has a word that the creator may forbid.        *)
Commands ==
         [type : {"RequestChallenge", "JoinRoom"}]
    \cup [type : {"SetForbiddenWords"}, any : BOOLEAN]
    \cup [type : {"SubmitResponse"}, ok : BOOLEAN]
    \cup [type : {"SubmitComment"}, ok : BOOLEAN, forbidden : BOOLEAN]

Initialize(participants, time) ==
    [comments |-> <<>>, creator |-> IF participants = <<>> THEN None ELSE Head(participants),
     room_members |-> {}, next_comment_id |-> 1, timestamp |-> time, comment_history |-> <<>>,
     challenge |-> None, authenticated_users |-> {}, forbidden_words |-> FALSE]

(* Anyone may answer the one challenge of the room *)
Accepts(ep, cmd, auth) ==
    /\ auth # None
    /\ cmd.type = "SubmitResponse" => ep.challenge # None /\ cmd.ok
    /\ cmd.type = "SubmitComment" =>
          /\ auth \in ep.authenticated_users \cap ep.room_members
          /\ cmd.ok /\ ~ (cmd.forbidden /\ ep.forbidden_words)
    /\ cmd.type = "SetForbiddenWords" => auth = ep.creator

Commented(ep, auth) ==
    LET id == ep.next_comment_id
        new == [ep EXCEPT !.comments = Append(@, [id |-> id, author |-> auth]),
                          !.comment_history = Append(@, id),
                          !.next_comment_id = @ + 1] IN
    IF Len(new.comment_history) > Window
    THEN [new EXCEPT !.comment_history = Tail(@), !.comments = WithoutId(@, Head(new.comment_history))]
    ELSE new

Executed(ep, cmd, auth, time) ==
    [CASE cmd.type = "RequestChallenge" ->
             [ep EXCEPT !.challenge = IF @ = None THEN <<auth, time>> ELSE @]
       [] cmd.type = "SubmitResponse" ->
             [ep EXCEPT !.authenticated_users = @ \cup {auth}, !.challenge = None]
       [] cmd.type = "JoinRoom" -> [ep EXCEPT !.room_members = @ \cup {auth}]
       [] cmd.type = "SubmitComment" -> Commented(ep, auth)
       [] cmd.type = "SetForbiddenWords" -> [ep EXCEPT !.forbidden_words = cmd.any]
     EXCEPT !.timestamp = time]

RollbackOf(ep, cmd) ==
    IF cmd.type = "SubmitComment"
    THEN [type |-> "comment", comment_id |-> ep.next_comment_id, prev_timestamp |-> ep.timestamp]
    ELSE [type |-> "join", prev_timestamp |-> ep.timestamp]

Execute(ep, cmd, auth, time) ==
    IF Accepts(ep, cmd, auth)
    THEN [ok |-> TRUE, state |-> Executed(ep, cmd, auth, time), undo |-> RollbackOf(ep, cmd)]
    ELSE [ok |-> FALSE, state |-> ep, undo |-> None]

(* A comment goes, without the one that it pushed out coming back; of the  *)
(* other commands nothing is taken back but the time.                      *)
RolledBack(ep, u) ==
    IF u.type = "join" THEN [ep EXCEPT !.timestamp = u.prev_timestamp]
    ELSE [ep EXCEPT !.timestamp = u.prev_timestamp,
                    !.comments = WithoutId(@, u.comment_id),
                    !.comment_history = Keep(@, Nat \ {u.comment_id}),
                    !.next_comment_id = IF @ > 1 THEN u.comment_id ELSE @]

Rollback(ep, u) ==
    [ok |-> u.type = "comment" => Len(WithoutId(ep.comments, u.comment_id)) < Len(ep.comments),
     state |-> RolledBack(ep, u)]
=============================================================================
