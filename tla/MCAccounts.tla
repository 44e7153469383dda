----------------------------- MODULE MCAccounts -----------------------------
(***************************************************************************)
(* AuthPeer and BoardSystem for TLC, which have nothing in common: a       *)
(* behaviour is of one of them.  The board has amounts in fees, one large  *)
(* output and two micro ones, two participants, and bytes that include     *)
(* every tag; the clocks of kaspa-auth start well after time 0.            *)
(***************************************************************************)
EXTENDS AuthPeer, BoardSystem

CONSTANTS alice, bob, p

VARIABLE program

MCCoins == <<6, 3, 2>>
MCUser == <<0, 3>>
MCModerators == {Nothing, <<>>, <<<<1, 2>>>>, <<<<2, 2>>, <<0, 1>>>>}
Symmetric == Permutations(Members)

(* The board's state that kaspa-auth leaves alone is one of its initial ones *)
AccountsInit ==
    /\ program \in {"kaspa-auth", "comment-board"} /\ Init /\ BoardInit
    /\ program = "comment-board" \/ part = "participants"

AccountsNext ==
    \/ program = "kaspa-auth" /\ Next /\ UNCHANGED <<program, boardVars>>
    \/ program = "comment-board" /\ BoardNext /\ UNCHANGED <<program, vars>>

AccountsSpec == AccountsInit /\ [][AccountsNext]_<<program, vars, boardVars>>
=============================================================================
