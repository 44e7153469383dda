------------------------------ MODULE ChainFeed ------------------------------
(***************************************************************************)
(* What an engine is owed by the listener of kdapp/src/proxy.rs: it hears  *)
(* of every chain block that carries transactions of its own, in chain     *)
(* order, and of every reverted block, the highest first.  Proxy is the    *)
(* program that produces this feed, EngineSystem the one that consumes it. *)
(*                                                                         *)
(* Blocks without transactions of this engine are not kept: `chain' is the *)
(* node's selected chain reduced to the others.  A reverted block may come *)
(* back on any chain its DAA score allows, which includes the one it left. *)
(***************************************************************************)
EXTENDS Integers, SequencesExt

CONSTANTS
    BlockHashes,
    None,          \* the contents of a hash no block has yet
    DaaScores,
    MaxReorg,      \* DAA below the highest score seen that a new tip can have
    TxLists        \* the transactions of one engine that a block may accept

VARIABLES
    blocks,        \* hash -> contents, once such a block exists
    peak,          \* the highest score of a block that was sent
    chain,         \* the hashes of the selected chain, oldest first
    closed,        \* Exit was sent
    receiver       \* the channel to the engine

feedVars == <<blocks, chain, peak, closed>>

Contents == [daa : DaaScores, txs : TxLists]

FeedTypeOK ==
    /\ blocks \in [BlockHashes -> Contents \cup {None}]
    /\ chain \in Seq(BlockHashes)
    /\ peak \in DaaScores \cup {0}
    /\ closed \in BOOLEAN

FeedInit ==
    /\ blocks = [h \in BlockHashes |-> None]
    /\ chain = <<>>
    /\ peak = 0
    /\ closed = FALSE

(* DAA scores increase along a chain, and finality bounds how far below    *)
(* the highest one a reorganisation can fork.                              *)
Above(daa) ==
    /\ chain # <<>> => daa > blocks[Last(chain)].daa
    /\ peak <= daa + MaxReorg

Send(m) == receiver' = Append(receiver, m)

Accepted(h, c) ==
    [type |-> "BlkAccepted", accepting_hash |-> h,
     accepting_daa |-> c.daa, associated_txs |-> c.txs]

Reverted(h) == [type |-> "BlkReverted", accepting_hash |-> h]

OnChain(h) == \E i \in 1..Len(chain) : chain[i] = h

Extend(h, c) ==
    /\ ~ closed
    /\ chain' = Append(chain, h)
    /\ peak' = IF c.daa > peak THEN c.daa ELSE peak
    /\ Send(Accepted(h, c))
    /\ UNCHANGED closed

AcceptNew ==
    \E h \in BlockHashes, c \in Contents :
        /\ blocks[h] = None
        /\ c.txs # <<>>
        /\ Above(c.daa)
        /\ Extend(h, c)
        /\ blocks' = [blocks EXCEPT ![h] = c]

(* A reorganisation brings back a block that had been reverted *)
AcceptAgain ==
    \E h \in BlockHashes :
        /\ blocks[h] # None
        /\ ~ OnChain(h)
        /\ Above(blocks[h].daa)
        /\ Extend(h, blocks[h])
        /\ UNCHANGED blocks

RevertTip ==
    /\ ~ closed
    /\ chain # <<>>
    /\ Send(Reverted(Last(chain)))
    /\ chain' = Front(chain)
    /\ UNCHANGED <<blocks, peak, closed>>

(* A reverted block without transactions of this engine is announced too *)
RevertOther ==
    /\ ~ closed
    /\ \E h \in BlockHashes : blocks[h] = None /\ Send(Reverted(h))
    /\ UNCHANGED feedVars

SendExit ==
    /\ ~ closed
    /\ closed' = TRUE
    /\ Send([type |-> "Exit"])
    /\ UNCHANGED <<blocks, chain, peak>>

FeedNext == AcceptNew \/ AcceptAgain \/ RevertTip \/ RevertOther \/ SendExit

FeedSpec == FeedInit /\ receiver = <<>> /\ [][FeedNext]_<<feedVars, receiver>>
=============================================================================
