---------------------------- MODULE EpisodeLedger ----------------------------
(***************************************************************************)
(* What the engine of kdapp/src/engine.rs promises while no episode is old *)
(* enough to be filtered: the episodes are a function of the accepted      *)
(* blocks.  A block takes effect as a whole, and reverting the last block  *)
(* brings back the episodes as they were before it, without recourse to    *)
(* any rollback object: history keeps all earlier versions.                *)
(***************************************************************************)
EXTENDS Integers, SequencesExt

CONSTANTS
    EpisodeIds, BlockHashes, EpisodeStates, NoAuth, None, DaaScores, TxLists,
    Initialize(_, _),
    Execute(_, _, _, _)

VARIABLE history      \* the episodes before the first block, after it, ...

NoEpisodes == [id \in EpisodeIds |-> None]

(* The episodes after one transaction of a block with metadata m *)
Apply(states, p, m) ==
    CASE p.kind = "NewEpisode" /\ states[p.id] = None ->
            [states EXCEPT ![p.id] = Initialize(p.participants, m)]
      [] p.kind = "UnsignedCommand" /\ states[p.id] # None ->
            [states EXCEPT ![p.id] = Execute(@, p.cmd, NoAuth, m).state]
      [] p.kind = "SignedCommand" /\ p.sig /\ states[p.id] # None ->
            [states EXCEPT ![p.id] = Execute(@, p.cmd, p.pubkey, m).state]
      [] OTHER -> states

(* The episodes after each transaction of a block, and after the block *)
Course(states, txs, m) ==
    LET after[n \in 0..Len(txs)] ==
            IF n = 0 THEN states ELSE Apply(after[n - 1], txs[n], m)
    IN  after

ApplyBlock(states, txs, m) == Course(states, txs, m)[Len(txs)]

LedgerInit == history = <<NoEpisodes>>

AcceptBlock ==
    \E h \in BlockHashes, daa \in DaaScores, txs \in TxLists :
        history' = Append(history,
            ApplyBlock(Last(history), txs,
                       [accepting_hash |-> h, accepting_daa |-> daa]))

RevertBlock ==
    /\ Len(history) > 1
    /\ history' = Front(history)

LedgerSpec == LedgerInit /\ [][AcceptBlock \/ RevertBlock]_history
=============================================================================
