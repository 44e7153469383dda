------------------------------- MODULE Engine -------------------------------
(***************************************************************************)
(* kdapp/src/engine.rs: the thread that owns every episode of one type.    *)
(* It receives EngineMsg values over an mpsc channel, executes the         *)
(* transactions of an accepted block one by one, remembers in revert_map   *)
(* which episodes the block touched, and when the block leaves the chain   *)
(* pops the rollback objects in the opposite order.                        *)
(*                                                                         *)
(* The episode itself is a parameter: Initialize, Execute and Rollback are *)
(* the methods of the trait of kdapp/src/episode.rs.  The message being    *)
(* processed stays at the head of receiver until the loop body is over,    *)
(* and `handled' counts the transactions of it that were handled.          *)
(***************************************************************************)
EXTENDS Integers, SequencesExt

CONSTANTS
    EpisodeIds,            \* EpisodeId
    BlockHashes,           \* hashes of accepting blocks
    Commands,              \* G::Command, with the transaction data it reads
    Participants,          \* participant lists a NewEpisode may carry
    PubKeys,               \* keys that sign commands
    NoAuth,                \* the authorization None of an unsigned command
    None,                  \* the value of a key that a map does not have
    EpisodeStates,         \* values of G
    Undos,                 \* values of G::CommandRollback
    DaaScores,             \* the DAA scores of accepting blocks
    EPISODE_LIFETIME,
    SAMPLE_REMOVAL_TIME,
    Initialize(_, _),      \* Initialize(participants, metadata) : a state
    Execute(_, _, _, _),   \* Execute(state, cmd, auth, metadata) : [ok, state, undo]
    Rollback(_, _)         \* Rollback(state, undo) : [ok, state]

(* PayloadMetadata; the transaction's own fields are part of the command. *)
PayloadMetadata == [accepting_hash : BlockHashes, accepting_daa : DaaScores]

Auths == PubKeys \cup {NoAuth}

ASSUME ConstantsAssumption ==
    /\ DaaScores \subseteq Nat
    /\ EPISODE_LIFETIME \in Nat
    /\ SAMPLE_REMOVAL_TIME \in Nat

ASSUME EpisodeTyping ==
    /\ \A ps \in Participants, m \in PayloadMetadata :
          Initialize(ps, m) \in EpisodeStates
    /\ \A s \in EpisodeStates, c \in Commands, a \in Auths, m \in PayloadMetadata :
          Execute(s, c, a, m) \in [ok : BOOLEAN, state : EpisodeStates, undo : Undos]
    /\ \A s \in EpisodeStates, u \in Undos :
          Rollback(s, u) \in [ok : BOOLEAN, state : EpisodeStates]

(* The contract in the trait's comment: the rollback object returned by    *)
(* execute leads "from the currently obtained state back to the state      *)
(* prior to this call".                                                    *)
ASSUME RollbackContract ==
    \A s \in EpisodeStates, c \in Commands, a \in Auths, m \in PayloadMetadata :
        LET r == Execute(s, c, a, m) IN
        r.ok => Rollback(r.state, r.undo) = [ok |-> TRUE, state |-> s]

(* A command that is rejected leaves the episode as it was: nothing else   *)
(* undoes it, and no handler hears of it.                                  *)
ASSUME RejectionContract ==
    \A s \in EpisodeStates, c \in Commands, a \in Auths, m \in PayloadMetadata :
        LET r == Execute(s, c, a, m) IN ~ r.ok => r.state = s

-----------------------------------------------------------------------------
(* Payloads after borsh decoding; sig says whether verify_signature holds. *)
NewEpisodes      == [kind : {"NewEpisode"}, id : EpisodeIds, participants : Participants]
SignedCommands   == [kind : {"SignedCommand"}, id : EpisodeIds, cmd : Commands,
                     pubkey : PubKeys, sig : BOOLEAN]
UnsignedCommands == [kind : {"UnsignedCommand"}, id : EpisodeIds, cmd : Commands]
Ignored          == [kind : {"Revert", "ParsingError"}]
Payloads == NewEpisodes \cup SignedCommands \cup UnsignedCommands \cup Ignored

EngineMsgs ==
         [type : {"BlkAccepted"}, accepting_hash : BlockHashes,
          accepting_daa : DaaScores, associated_txs : Seq(Payloads)]
    \cup [type : {"BlkReverted"}, accepting_hash : BlockHashes]
    \cup [type : {"Exit"}]

EpisodeWrappers == [episode : EpisodeStates, rollback_stack : Seq(Undos)]

(* A HashMap is a total function whose value is None outside its keys *)
ASSUME NoneAssumption ==
    /\ None \notin EpisodeWrappers
    /\ None \notin EpisodeStates
    /\ None \notin Seq(EpisodeIds)
    /\ None \notin DaaScores

VARIABLES
    receiver,                 \* the channel, unbounded and in order
    episodes,                 \* live episodes
    revert_map,               \* accepting hash -> episodes to revert, in order
    next_filtering,
    episode_creation_times,
    pc,                       \* where the loop of start() stands
    handled,                  \* transactions of the current block handled so far
    revert_vec,               \* built by an acceptance, consumed by a reversion
    observed                  \* the state the event handlers were last given

engineVars == <<episodes, revert_map, next_filtering, episode_creation_times,
                pc, handled, revert_vec, observed>>

Episodes == [EpisodeIds -> EpisodeWrappers \cup {None}]

EngineTypeOK ==
    /\ receiver \in Seq(EngineMsgs)
    /\ episodes \in Episodes
    /\ revert_map \in [BlockHashes -> Seq(EpisodeIds) \cup {None}]
    /\ next_filtering \in DaaScores \cup {0}
    /\ episode_creation_times \in [EpisodeIds -> DaaScores \cup {None}]
    /\ pc \in {"recv", "accept", "revert", "stopped"}
    /\ handled \in Nat
    /\ revert_vec \in Seq(EpisodeIds)
    /\ observed \in [EpisodeIds -> EpisodeStates \cup {None}]
    /\ \A id \in EpisodeIds :
          episodes[id] = None <=> episode_creation_times[id] = None

EngineInit ==
    /\ receiver = <<>>
    /\ episodes = [id \in EpisodeIds |-> None]
    /\ revert_map = [h \in BlockHashes |-> None]
    /\ next_filtering = 0
    /\ episode_creation_times = [id \in EpisodeIds |-> None]
    /\ pc = "recv"
    /\ handled = 0
    /\ revert_vec = <<>>
    /\ observed = [id \in EpisodeIds |-> None]

-----------------------------------------------------------------------------
(* Receiving a message *)

msg == Head(receiver)

Receives(type) == pc = "recv" /\ receiver # <<>> /\ msg.type = type

(* The ids filter_old_episodes removes: creation_time is compared with the *)
(* saturating difference of the score and the lifetime.                    *)
Filtering_Mutant(daa) == daa > next_filtering + EPISODE_LIFETIME + SAMPLE_REMOVAL_TIME

Filtering(daa) == daa > next_filtering + SAMPLE_REMOVAL_TIME

TooOld(daa) ==
    {id \in EpisodeIds :
        /\ episode_creation_times[id] # None
        /\ episode_creation_times[id] + EPISODE_LIFETIME < daa}

Without(map, keys) == [k \in DOMAIN map |-> IF k \in keys THEN None ELSE map[k]]

FilteredOut(daa) == IF Filtering(daa) THEN TooOld(daa) ELSE {}

filter_old_episodes(daa) ==
    /\ episodes' = Without(episodes, FilteredOut(daa))
    /\ episode_creation_times' = Without(episode_creation_times, FilteredOut(daa))
    /\ next_filtering' = IF Filtering(daa) THEN daa ELSE next_filtering

RecvBlkAccepted ==
    /\ Receives("BlkAccepted")
    /\ filter_old_episodes(msg.accepting_daa)
    /\ pc' = "accept"
    /\ handled' = 0
    /\ revert_vec' = <<>>
    /\ UNCHANGED <<receiver, revert_map, observed>>

(* mutant: the entry of a reverted block is read but not removed *)
RecvBlkReverted_Mutant ==
    /\ Receives("BlkReverted")
    /\ revert_map[msg.accepting_hash] # None
    /\ revert_vec' = revert_map[msg.accepting_hash]
    /\ pc' = "revert"
    /\ UNCHANGED <<receiver, episodes, revert_map, next_filtering,
                   episode_creation_times, handled, observed>>

RecvBlkReverted ==
    /\ Receives("BlkReverted")
    /\ revert_map[msg.accepting_hash] # None
    /\ revert_vec' = revert_map[msg.accepting_hash]
    /\ revert_map' = [revert_map EXCEPT ![msg.accepting_hash] = None]
    /\ pc' = "revert"
    /\ UNCHANGED <<receiver, episodes, next_filtering, episode_creation_times,
                   handled, observed>>

RecvUnknownReverted ==
    /\ Receives("BlkReverted")
    /\ revert_map[msg.accepting_hash] = None
    /\ receiver' = Tail(receiver)
    /\ UNCHANGED engineVars

(* mutant: Exit overtakes the messages before it *)
RecvExit_Mutant ==
    /\ pc = "recv"
    /\ \E i \in 1..Len(receiver) : receiver[i].type = "Exit"
    /\ receiver' = Tail(receiver)
    /\ pc' = "stopped"
    /\ UNCHANGED <<episodes, revert_map, next_filtering, episode_creation_times,
                   handled, revert_vec, observed>>

RecvExit ==
    /\ Receives("Exit")
    /\ receiver' = Tail(receiver)
    /\ pc' = "stopped"
    /\ UNCHANGED <<episodes, revert_map, next_filtering, episode_creation_times,
                   handled, revert_vec, observed>>

-----------------------------------------------------------------------------
(* One transaction of an accepted block: handle_message *)

Pending == pc = "accept" /\ handled < Len(msg.associated_txs)

payload == msg.associated_txs[handled + 1]

metadata == [accepting_hash |-> msg.accepting_hash, accepting_daa |-> msg.accepting_daa]

Live(id) == episodes[id] # None

Advance ==
    /\ handled' = handled + 1
    /\ UNCHANGED <<receiver, revert_map, next_filtering, pc>>

(* mutant: a creation replaces an episode that is there already *)
CreateEpisode_Mutant ==
    LET s == Initialize(payload.participants, metadata) IN
    /\ Pending
    /\ payload.kind = "NewEpisode"
    /\ episodes' = [episodes EXCEPT ![payload.id] = [episode |-> s, rollback_stack |-> <<>>]]
    /\ episode_creation_times' =
          [episode_creation_times EXCEPT ![payload.id] = msg.accepting_daa]
    /\ observed' = [observed EXCEPT ![payload.id] = s]
    /\ revert_vec' = Append(revert_vec, payload.id)
    /\ Advance

CreateEpisode ==
    LET s == Initialize(payload.participants, metadata) IN
    /\ Pending
    /\ payload.kind = "NewEpisode"
    /\ ~ Live(payload.id)
    /\ episodes' = [episodes EXCEPT ![payload.id] = [episode |-> s, rollback_stack |-> <<>>]]
    /\ episode_creation_times' =
          [episode_creation_times EXCEPT ![payload.id] = msg.accepting_daa]
    /\ observed' = [observed EXCEPT ![payload.id] = s]
    /\ revert_vec' = Append(revert_vec, payload.id)
    /\ Advance

IsCommand(p) == p.kind \in {"SignedCommand", "UnsignedCommand"}

Authorization(p) == IF p.kind = "SignedCommand" THEN p.pubkey ELSE NoAuth

(* mutant: any signature will do *)
SignatureHolds_Mutant(p) == TRUE

SignatureHolds(p) == p.kind = "SignedCommand" => p.sig

(* G::execute runs: the episode is live and the signature, if any, holds *)
Runs == /\ Pending
        /\ IsCommand(payload)
        /\ Live(payload.id)
        /\ SignatureHolds(payload)

Outcome == Execute(episodes[payload.id].episode, payload.cmd,
                   Authorization(payload), metadata)

ExecuteCommand ==
    /\ Runs
    /\ Outcome.ok
    /\ episodes' = [episodes EXCEPT ![payload.id] =
          [episode |-> Outcome.state,
           rollback_stack |-> Append(@.rollback_stack, Outcome.undo)]]
    /\ observed' = [observed EXCEPT ![payload.id] = Outcome.state]
    /\ revert_vec' = Append(revert_vec, payload.id)
    /\ UNCHANGED episode_creation_times
    /\ Advance

(* The error leaves no rollback object, whatever execute did to the state *)
RejectCommand ==
    /\ Runs
    /\ ~ Outcome.ok
    /\ episodes' = [episodes EXCEPT ![payload.id] =
          [episode |-> Outcome.state, rollback_stack |-> @.rollback_stack]]
    /\ UNCHANGED <<episode_creation_times, observed, revert_vec>>
    /\ Advance

(* Payloads that reach no episode *)
Unhandled ==
    \/ payload.kind \in {"Revert", "ParsingError"}
    \/ payload.kind = "NewEpisode" /\ Live(payload.id)
    \/ IsCommand(payload) /\ ~ Live(payload.id)
    \/ IsCommand(payload) /\ ~ SignatureHolds(payload)

SkipPayload ==
    /\ Pending
    /\ Unhandled
    /\ UNCHANGED <<episodes, episode_creation_times, observed, revert_vec>>
    /\ Advance

FinishAccepted ==
    /\ pc = "accept"
    /\ handled = Len(msg.associated_txs)
    /\ revert_map' = [revert_map EXCEPT ![msg.accepting_hash] = revert_vec]
    /\ receiver' = Tail(receiver)
    /\ pc' = "recv"
    /\ handled' = 0
    /\ revert_vec' = <<>>
    /\ UNCHANGED <<episodes, next_filtering, episode_creation_times, observed>>

-----------------------------------------------------------------------------
(* One reversion: handle_message on EpisodeMessage::Revert *)

Reverting == pc = "revert" /\ revert_vec # <<>>

(* mutant: the reversions run in the order of the acceptance *)
target_Mutant == Head(revert_vec)

target == Last(revert_vec)

RevertOne ==
    /\ revert_vec' = Front(revert_vec)
    /\ UNCHANGED <<receiver, revert_map, next_filtering, pc, handled>>

(* mutant: the handlers do not hear of a rollback *)
UndoCommand_Mutant ==
    LET w == episodes[target]
        s == Rollback(w.episode, Last(w.rollback_stack)).state IN
    /\ Reverting
    /\ Live(target)
    /\ w.rollback_stack # <<>>
    /\ episodes' = [episodes EXCEPT
          ![target] = [episode |-> s, rollback_stack |-> Front(w.rollback_stack)]]
    /\ UNCHANGED <<observed, episode_creation_times>>
    /\ RevertOne

UndoCommand ==
    LET w == episodes[target]
        s == Rollback(w.episode, Last(w.rollback_stack)).state IN
    /\ Reverting
    /\ Live(target)
    /\ w.rollback_stack # <<>>
    /\ episodes' = [episodes EXCEPT
          ![target] = [episode |-> s, rollback_stack |-> Front(w.rollback_stack)]]
    /\ observed' = [observed EXCEPT ![target] = s]
    /\ UNCHANGED episode_creation_times
    /\ RevertOne

(* The stack is empty: the creation is reverted.  on_rollback is called    *)
(* with the initial state before the episode is removed.                   *)
UndoCreation ==
    /\ Reverting
    /\ Live(target)
    /\ episodes[target].rollback_stack = <<>>
    /\ observed' = [observed EXCEPT ![target] = episodes[target].episode]
    /\ episodes' = [episodes EXCEPT ![target] = None]
    /\ episode_creation_times' = [episode_creation_times EXCEPT ![target] = None]
    /\ RevertOne

UndoMissing ==
    /\ Reverting
    /\ ~ Live(target)
    /\ UNCHANGED <<episodes, episode_creation_times, observed>>
    /\ RevertOne

(* mutant: an entry whose block reverted no episode is never finished *)
FinishReverted_Mutant ==
    /\ pc = "revert"
    /\ revert_vec = <<>>
    /\ \E id \in EpisodeIds : Live(id)
    /\ receiver' = Tail(receiver)
    /\ pc' = "recv"
    /\ UNCHANGED <<episodes, revert_map, next_filtering, episode_creation_times,
                   handled, revert_vec, observed>>

FinishReverted ==
    /\ pc = "revert"
    /\ revert_vec = <<>>
    /\ receiver' = Tail(receiver)
    /\ pc' = "recv"
    /\ UNCHANGED <<episodes, revert_map, next_filtering, episode_creation_times,
                   handled, revert_vec, observed>>

EngineStep ==
    \/ RecvBlkAccepted \/ RecvBlkReverted \/ RecvUnknownReverted \/ RecvExit
    \/ CreateEpisode \/ ExecuteCommand \/ RejectCommand \/ SkipPayload
    \/ FinishAccepted
    \/ UndoCommand \/ UndoCreation \/ UndoMissing \/ FinishReverted
=============================================================================
