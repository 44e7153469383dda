---------------------------- MODULE CommentBoard ----------------------------
(***************************************************************************)
(* The episode of comment-board/src/episode/board_with_contract.rs:        *)
(* members join and comment with bonds, which the episode adds up.         *)
(*                                                                         *)
(* The fields of the contract that no command changes are left out, among  *)
(* them the rules, whose defaults allow bonds.  A challenge is named after *)
(* the transaction that asked for it; here a transaction is its signer and *)
(* its time.                                                               *)
(***************************************************************************)
EXTENDS Integers, Filters

CONSTANTS
    PubKeys,
    None,                 \* no authorization, no challenge
    Bonds,                \* amounts that a command may declare
    min_bond,             \* of the rules
    contract_expires_at

(* ok says of a response that its nonce is the challenge and its signature *)
(* not empty, and of a comment that its text is not blank and its bond, if *)
(* it has one and the outputs are known, is among them.                    *)
Commands ==
         [type : {"JoinRoom"}, bond_amount : Bonds]
    \cup [type : {"RequestChallenge"}]
    \cup [type : {"SubmitResponse"}, ok : BOOLEAN]
    \cup [type : {"SubmitComment"}, ok : BOOLEAN, bond_amount : Bonds]

(* locked_utxos is a function from the keys that are locked to amounts.  A *)
(* key of the code is a string made of these.                              *)
Initialize(participants, time) ==
    [room_members |-> <<>>, authenticated_users |-> <<>>,
     current_challenge |-> None, comments |-> <<>>, total_comments |-> 0,
     total_locked_value |-> 0, locked_utxos |-> [u \in {} |-> 0],
     next_comment_id |-> 1]

(* Anyone who signs may join and comment *)
Accepts(ep, cmd, auth, time) ==
    /\ auth # None
    /\ time <= contract_expires_at
    /\ cmd.type = "SubmitResponse" => ep.current_challenge # None /\ cmd.ok
    /\ cmd.type = "SubmitComment" =>
          cmd.ok /\ (cmd.bond_amount > 0 => cmd.bond_amount >= min_bond)

Lock(utxos, u, amount) ==
    [v \in DOMAIN utxos \cup {u} |-> IF v = u THEN amount ELSE utxos[v]]

CommentBond(id) == <<"comment_bond", id>>

Commented(ep, auth, bond) ==
    LET id == ep.next_comment_id IN
    [ep EXCEPT
        !.comments = Append(@, [id |-> id, author |-> auth, bond_amount |-> bond]),
        !.locked_utxos = Lock(@, CommentBond(id), bond),
        !.total_comments = @ + 1,
        !.total_locked_value = @ + bond,
        !.next_comment_id = @ + 1]

(* A member's bond counts as locked without an entry in locked_utxos, and  *)
(* a member who joins twice is listed twice.                               *)
Executed(ep, cmd, auth, time) ==
    CASE cmd.type = "JoinRoom" ->
            [ep EXCEPT !.room_members = Append(@, auth),
                       !.total_locked_value = @ + cmd.bond_amount]
      [] cmd.type = "RequestChallenge" ->
            [ep EXCEPT !.current_challenge = <<auth, time>>]
      [] cmd.type = "SubmitResponse" ->
            [ep EXCEPT !.authenticated_users = Append(@, auth),
                       !.current_challenge = None]
      [] cmd.type = "SubmitComment" -> Commented(ep, auth, cmd.bond_amount)

(* ContractRollback: what it is about, and the locks to reverse *)
RollbackOf(ep, cmd, auth) ==
    CASE cmd.type = "JoinRoom" ->
            [type |-> "join_room", bond_amount |-> cmd.bond_amount,
             utxo |-> <<"join_bond", auth>>]
      [] cmd.type = "RequestChallenge" -> [type |-> "request_challenge"]
      [] cmd.type = "SubmitResponse" -> [type |-> "authenticate"]
      [] cmd.type = "SubmitComment" ->
            [type |-> "submit_comment", bond_amount |-> cmd.bond_amount,
             comment_id |-> ep.next_comment_id,
             utxo |-> CommentBond(ep.next_comment_id)]

Execute(ep, cmd, auth, time) ==
    IF Accepts(ep, cmd, auth, time)
    THEN [ok |-> TRUE, state |-> Executed(ep, cmd, auth, time),
          undo |-> RollbackOf(ep, cmd, auth)]
    ELSE [ok |-> FALSE, state |-> ep, undo |-> None]

(* A lock of nothing is taken for an unlock, so it is locked again *)
Unlocked(utxos, u, amount) ==
    IF amount > 0 THEN [v \in DOMAIN utxos \ {u} |-> utxos[v]]
    ELSE Lock(utxos, u, amount)

Less(total, n) == IF total > n THEN total - n ELSE 0

(* Mutant of Uncommented for BondsExact: the bond is not taken off *)
Uncommented_Bonded(ep, u) ==
    LET kept == WithoutId(ep.comments, u.comment_id) IN
    [ep EXCEPT !.comments = kept,
               !.total_comments = IF Len(kept) < Len(ep.comments) THEN Less(@, 1) ELSE @,
               !.locked_utxos = Unlocked(@, u.utxo, u.bond_amount)]

Uncommented(ep, u) ==
    LET kept == WithoutId(ep.comments, u.comment_id) IN
    [ep EXCEPT !.comments = kept,
               !.total_comments = IF Len(kept) < Len(ep.comments) THEN Less(@, 1) ELSE @,
               !.total_locked_value = Less(@, u.bond_amount),
               !.locked_utxos = Unlocked(@, u.utxo, u.bond_amount)]

(* Members and authenticated users stay, and so does the challenge or its  *)
(* absence; the identifier of a comment is not given out again.            *)
Rollback(ep, u) ==
    [ok |-> TRUE, state |->
        CASE u.type = "join_room" ->
                [ep EXCEPT !.total_locked_value = Less(@, u.bond_amount),
                           !.locked_utxos = Unlocked(@, u.utxo, u.bond_amount)]
          [] u.type = "submit_comment" -> Uncommented(ep, u)
          [] OTHER -> ep]
=============================================================================
