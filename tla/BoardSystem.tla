----------------------------- MODULE BoardSystem -----------------------------
(***************************************************************************)
(* The programs of comment-board besides the episode: the participants,    *)
(* the wallet that pays for their bonds and the codec of bond scripts.     *)
(* They share no state but the bonds' amounts, so a behaviour is of one of *)
(* them, named by part.                                                    *)
(***************************************************************************)
EXTENDS Integers, SequencesExt

CONSTANTS
    Nothing, Members, Bonds, min_bond, contract_expires_at, MaxComments,
    MaxFaults, MaxReverts,
    FEE, Slack, MassLimit, Chunk, MinCount, MaxAttempts, Coins, Comments,
    Durations, Policies, Offset, DefaultLock, U64, MaxTxs, MaxTime,
    Bytes, TimeWidth, KeyWidth, Moderators, User

(* Amounts and bytes are natural numbers, and a key is as wide as it says. *)
(* The contract expires 90 days after it is created, and a member is       *)
(* through its opening, of three transactions, before that.                *)
ASSUME BoardAssumption ==
    /\ Nothing \notin Members
    /\ \A m \in Members, n \in 1 .. 3 : Nothing # <<m, n>>
    /\ contract_expires_at \in Nat /\ contract_expires_at >= 3
    /\ FEE \in Nat /\ Chunk \in Nat /\ Coins \in Seq(Nat) /\ Bonds \subseteq Nat
    /\ Bytes \subseteq Nat /\ TimeWidth \in Nat /\ KeyWidth \in Nat \ {0}
    /\ User \in [1 .. KeyWidth -> Bytes]
    /\ \A m \in Moderators : m = Nothing \/ m \in Seq([1 .. KeyWidth -> Bytes])

VARIABLES
    part,
    descriptor, moderators,     \* what is encoded
    funds, mempool, spentBy, made, available_utxos, locked_utxos, pending_bonds,
    total_available_balance, total_locked_balance, walletPc, carried, now,
    walletFaults,
    episodes, accepted, pending, sent, utxo, pc, channel, challenge_text, lines,
    recreated, reverts, faults

Wallet == INSTANCE BondWallet WITH Bonds <- Bonds \ {0}, Start <- Coins, None <- Nothing,
                                   pc <- walletPc, faults <- walletFaults
People == INSTANCE BoardParticipant WITH Participants <- Members, None <- Nothing
Script == INSTANCE BondScript WITH None <- Nothing

scriptVars == <<descriptor, moderators>>
walletVars == <<funds, mempool, spentBy, made, available_utxos, locked_utxos,
                pending_bonds, total_available_balance, total_locked_balance,
                walletPc, carried, now, walletFaults>>
peopleVars == <<episodes, accepted, pending, sent, utxo, pc, channel,
                challenge_text, lines, recreated, reverts, faults>>
boardVars == <<part, scriptVars, walletVars, peopleVars>>

BoardInit ==
    /\ Wallet!Init /\ People!Init
    /\ \/ part \in {"wallet", "participants"} /\ descriptor = Nothing /\ moderators = Nothing
       \/ part = "script" /\ descriptor \in Script!Descriptors /\ moderators \in Moderators

BoardNext ==
    \/ part = "wallet" /\ Wallet!Next /\ UNCHANGED <<part, scriptVars, peopleVars>>
    \/ part = "participants" /\ People!Next
       /\ UNCHANGED <<part, scriptVars, walletVars>>

BoardSpec == BoardInit /\ [][BoardNext]_boardVars

-----------------------------------------------------------------------------
(* The properties of the parts, each stated in its module.  Bonds in the   *)
(* table rest on transactions the node took, each on outputs of its own,   *)
(* and the locked total covers them.                                       *)
BondsBacked == Wallet!BondsBacked

(* A comment with a bond is not submitted again when it may be on its way *)
CommentOnce == Wallet!CommentOnce

(* Who is in the room is authenticated *)
AuthHonest == People!AuthHonest

(* Nobody waits in vain for an authentication that no one crossed *)
StuckExplained == People!StuckExplained

(* A descriptor that is encoded with the keys it counts is decoded as      *)
(* itself, and otherwise not at all.                                       *)
DescriptorRoundTrip ==
    part = "script" => Script!RoundTrip(descriptor, User, moderators)
=============================================================================
