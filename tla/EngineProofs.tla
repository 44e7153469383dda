---------------------------- MODULE EngineProofs ----------------------------
(***************************************************************************)
(* The invariant IInv of EngineSystem is inductive, and the properties     *)
(* of EngineSystem follow from it.  First come the types, one kind of step *)
(* at a time: there the lemmas on steps that shorten a sequence assume     *)
(* that it is not empty, and the invariant says so.  Each further part of  *)
(* IInv has a lemma: a step from a state with IInv preserves that part.    *)
(* The refinement of EpisodeLedger is last.                                *)
(***************************************************************************)
EXTENDS EngineSystem, SequenceTheorems, WellFoundedInduction, TLAPS

(* The fields of an acceptance at the head of the channel *)
LEMMA AcceptedMsg ==
  ASSUME TypeOK, receiver # <<>>, msg.type = "BlkAccepted"
  PROVE  /\ msg.accepting_hash \in BlockHashes
         /\ msg.accepting_daa \in DaaScores
         /\ msg.associated_txs \in Seq(Payloads)
<1>1. msg \in EngineMsgs
  BY DEF TypeOK, EngineTypeOK, msg
<1> QED
  BY <1>1 DEF EngineMsgs

(* The field of a reversion at the head of the channel *)
LEMMA RevertedMsg ==
  ASSUME TypeOK, receiver # <<>>, msg.type = "BlkReverted"
  PROVE  msg.accepting_hash \in BlockHashes
<1>1. msg \in EngineMsgs
  BY DEF TypeOK, EngineTypeOK, msg
<1> QED
  BY <1>1 DEF EngineMsgs

(* The message at the head does not change while the feed sends others *)
LEMMA HeadStays ==
  ASSUME NEW S, NEW q \in Seq(S), NEW m \in S, q # <<>>
  PROVE  /\ Head(Append(q, m)) = Head(q)
         /\ Append(q, m) # <<>>
         /\ Len(Append(q, m)) = Len(q) + 1
OBVIOUS

(* The length of a prefix *)
LEMMA PrefixLength ==
  ASSUME NEW S, NEW s \in Seq(S), NEW n \in 0..Len(s)
  PROVE  Len(SubSeq(s, 1, n)) = n
OBVIOUS

(* What Front and Last return for a sequence that is not empty *)
LEMMA FrontType ==
  ASSUME NEW S, NEW s \in Seq(S), s # <<>>
  PROVE  /\ Front(s) \in Seq(S)
         /\ Last(s) \in S
         /\ Len(s) \in Nat \ {0}
         /\ Len(Front(s)) = Len(s) - 1
         /\ \A i \in 1..(Len(s) - 1) : Front(s)[i] = s[i]
<1>1. Len(s) \in Nat \ {0}
  OBVIOUS
<1>2. Last(s) \in S
  BY <1>1 DEF Last
<1>3. Front(s) \in Seq(S)
  BY <1>1 DEF Front
<1>4. ASSUME NEW i \in 1..(Len(s) - 1)
      PROVE  Front(s)[i] = s[i]
  BY <1>1 DEF Front
<1>5. Len(s) - 1 \in 0..Len(s)
  BY <1>1
<1>6. Len(Front(s)) = Len(s) - 1
  BY <1>5, PrefixLength, Zenon DEF Front
<1> QED
  BY <1>1, <1>2, <1>3, <1>4, <1>6

(* The feed's copies of Front and Last are those of the engine *)
LEMMA FeedFront == \A s : Feed!Front(s) = Front(s) /\ Feed!Last(s) = Last(s)
BY DEF Front, Last, Feed!Front, Feed!Last

(* Front and Last take apart what Append builds *)
LEMMA FrontOfAppend ==
  ASSUME NEW S, NEW s \in Seq(S), NEW e \in S
  PROVE  Front(Append(s, e)) = s /\ Last(Append(s, e)) = e
BY DEF Front, Last

(* The listener sends one message at a time *)
LEMMA FeedMessages ==
  ASSUME TypeOK, Feed!FeedNext
  PROVE  \E m \in EngineMsgs : receiver' = Append(receiver, m)
<1> USE DEF TypeOK, Feed!FeedTypeOK, Feed!Contents, Feed!Send
<1>0. \A txs \in TxLists : txs \in Seq(Payloads)
  BY TxListsAssumption
<1>1. CASE Feed!AcceptNew
  BY <1>0, <1>1 DEF Feed!AcceptNew, Feed!Extend, Feed!Accepted, EngineMsgs
<1>2. CASE Feed!AcceptAgain
  BY <1>0, <1>2, NoneAssumption DEF Feed!AcceptAgain, Feed!Extend, Feed!Accepted, EngineMsgs
<1>3. CASE Feed!RevertTip
  <2>1. Last(chain) \in BlockHashes
    BY <1>3, FrontType DEF Feed!RevertTip
  <2> QED
    BY <1>3, <2>1, FeedFront DEF Feed!RevertTip, Feed!Reverted, EngineMsgs
<1>4. CASE Feed!RevertOther
  BY <1>4 DEF Feed!RevertOther, Feed!Reverted, EngineMsgs
<1>5. CASE Feed!SendExit
  BY <1>5 DEF Feed!SendExit, EngineMsgs
<1> QED
  BY <1>1, <1>2, <1>3, <1>4, <1>5 DEF Feed!FeedNext

(* The listener keeps the types of its own variables *)
LEMMA FeedTyping ==
  ASSUME TypeOK, Feed!FeedNext
  PROVE  Feed!FeedTypeOK'
<1> USE DEF TypeOK, Feed!FeedTypeOK, Feed!Contents
<1>1. CASE Feed!AcceptNew
  BY <1>1 DEF Feed!AcceptNew, Feed!Extend
<1>2. CASE Feed!AcceptAgain
  BY <1>2 DEF Feed!AcceptAgain, Feed!Extend
<1>3. CASE Feed!RevertTip
  <2>1. chain' \in Seq(BlockHashes)
    BY <1>3, FrontType, FeedFront DEF Feed!RevertTip
  <2> QED
    BY <1>3, <2>1 DEF Feed!RevertTip
<1>4. CASE Feed!RevertOther
  BY <1>4 DEF Feed!RevertOther, feedVars, Feed!feedVars
<1>5. CASE Feed!SendExit
  BY <1>5 DEF Feed!SendExit
<1> QED
  BY <1>1, <1>2, <1>3, <1>4, <1>5 DEF Feed!FeedNext

(* The transaction handle_message looks at, and its metadata *)
LEMMA PayloadTyping ==
  ASSUME TypeOK, receiver # <<>>, msg.type = "BlkAccepted", Pending
  PROVE  /\ payload \in Payloads
         /\ metadata \in PayloadMetadata
         /\ payload.kind = "NewEpisode" =>
               payload.id \in EpisodeIds /\ payload.participants \in Participants
         /\ IsCommand(payload) =>
               /\ payload.id \in EpisodeIds
               /\ payload.cmd \in Commands
               /\ Authorization(payload) \in Auths
<1>1. payload \in Payloads
  BY AcceptedMsg DEF TypeOK, EngineTypeOK, Pending, payload
<1>2. metadata \in PayloadMetadata
  BY AcceptedMsg DEF metadata, PayloadMetadata
<1> QED
  BY <1>1, <1>2 DEF Payloads, NewEpisodes, SignedCommands, UnsignedCommands,
                    Ignored, IsCommand, Authorization, Auths

-----------------------------------------------------------------------------
(* Types and the message being processed, one kind of step at a time *)

(* The types hold when the engine starts *)
LEMMA TypedInit == Init => Typed
<1> SUFFICES ASSUME Init PROVE Typed
  OBVIOUS
<1>1. EngineTypeOK
  <2> USE DEF Init, EngineInit, Episodes
  <2>1. receiver \in Seq(EngineMsgs) /\ revert_vec \in Seq(EpisodeIds)
    OBVIOUS
  <2>2. /\ episodes \in Episodes
        /\ revert_map \in [BlockHashes -> Seq(EpisodeIds) \cup {None}]
        /\ episode_creation_times \in [EpisodeIds -> DaaScores \cup {None}]
        /\ observed \in [EpisodeIds -> EpisodeStates \cup {None}]
    OBVIOUS
  <2>3. pc \in {"recv", "accept", "revert", "stopped"} /\ handled \in Nat
    OBVIOUS
  <2>4. next_filtering \in DaaScores \cup {0}
    OBVIOUS
  <2>5. \A id \in EpisodeIds :
           episodes[id] = None <=> episode_creation_times[id] = None
    OBVIOUS
  <2> QED
    BY <2>1, <2>2, <2>3, <2>4, <2>5 DEF EngineTypeOK
<1>2. Feed!FeedTypeOK
  <2>1. closed \in BOOLEAN
    BY Zenon DEF Init, Feed!FeedInit
  <2>2. /\ blocks \in [BlockHashes -> Feed!Contents \cup {None}]
        /\ chain \in Seq(BlockHashes)
        /\ peak \in DaaScores \cup {0}
    BY DEF Init, Feed!FeedInit
  <2> QED
    BY <2>1, <2>2 DEF Feed!FeedTypeOK
<1>3. PcInv
  BY DEF Init, EngineInit, PcInv
<1> QED
  BY <1>1, <1>2, <1>3 DEF Init, Typed, TypeOK

(* Each kind of step of the engine, on the types of its own variables. *)
LEMMA TypedAccept ==
  ASSUME Typed, Accept
  PROVE  Typed'
<1> USE DEF Typed, TypeOK, EngineTypeOK, Episodes, PcInv, Accept, RecvBlkAccepted, Receives,
            feedVars, Feed!FeedTypeOK
<1>1. /\ receiver # <<>>
      /\ msg' = msg
      /\ msg.type = "BlkAccepted"
  BY DEF msg
<1>2. /\ msg.accepting_hash \in BlockHashes
      /\ msg.accepting_daa \in DaaScores
      /\ msg.associated_txs \in Seq(Payloads)
  BY <1>1, AcceptedMsg
<1>3. /\ episodes' \in Episodes
      /\ episode_creation_times' \in [EpisodeIds -> DaaScores \cup {None}]
      /\ next_filtering' \in DaaScores \cup {0}
      /\ \A id \in EpisodeIds :
            episodes'[id] = None <=> episode_creation_times'[id] = None
  BY <1>2 DEF filter_old_episodes, Without, Filtering
<1>4. applied' \in Seq(Marks) /\ expired' \subseteq EpisodeIds
  BY <1>2, LenProperties DEF Marks, FilteredOut, TooOld
<1>5. handled' = 0 /\ 0 <= Len(msg.associated_txs)
  BY <1>2, LenProperties
<1> QED
  BY <1>1, <1>2, <1>3, <1>4, <1>5

(* ... when the listener sends a message *)
LEMMA TypedFeed ==
  ASSUME Typed, FeedStep
  PROVE  Typed'
<1> USE DEF Typed, TypeOK, EngineTypeOK, Episodes, PcInv, FeedStep, engineVars
<1>1. PICK m \in EngineMsgs : receiver' = Append(receiver, m)
  BY FeedMessages
<1>2. receiver' \in Seq(EngineMsgs)
  BY <1>1
<1>3. receiver # <<>> => receiver' # <<>> /\ msg' = msg
  BY <1>1, HeadStays DEF msg
<1>4. Feed!FeedTypeOK'
  BY FeedTyping
<1>5. views' \in Seq(Seq(BlockHashes))
  BY <1>4 DEF Feed!FeedTypeOK
<1> QED
  BY <1>2, <1>3, <1>4, <1>5

(* ... when a creation or a command takes effect *)
LEMMA TypedEffect ==
  ASSUME Typed, Effect
  PROVE  Typed'
<1> USE DEF Typed, TypeOK, EngineTypeOK, Episodes, PcInv, Effect, Advance, feedVars,
            Feed!FeedTypeOK
<1>0. (Pending /\ payload.kind = "NewEpisode") \/ Runs
  BY DEF CreateEpisode, ExecuteCommand
<1>1. /\ Pending
      /\ receiver # <<>>
      /\ msg.type = "BlkAccepted"
      /\ pc = "accept"
  BY <1>0 DEF Pending, Runs
<1>2. /\ msg' = msg
      /\ handled' = handled + 1
      /\ UNCHANGED <<receiver, revert_map, next_filtering, pc>>
  BY DEF CreateEpisode, ExecuteCommand, msg
<1>3. /\ handled < Len(msg.associated_txs)
      /\ Len(msg.associated_txs) \in Nat
  BY <1>1, AcceptedMsg, LenProperties DEF Pending
<1>4. /\ payload.id \in EpisodeIds
      /\ metadata \in PayloadMetadata
  BY <1>0, <1>1, PayloadTyping DEF Runs
<1>5. trail' \in Seq(Effects) /\ revert_vec' \in Seq(EpisodeIds)
  <2>1. revert_vec' = Append(revert_vec, payload.id)
    BY DEF CreateEpisode, ExecuteCommand
  <2> QED
    BY <1>4, <2>1 DEF Effects
<1>6. /\ episodes' \in Episodes
      /\ episode_creation_times' \in [EpisodeIds -> DaaScores \cup {None}]
      /\ observed' \in [EpisodeIds -> EpisodeStates \cup {None}]
      /\ \A id \in EpisodeIds :
            episodes'[id] = None <=> episode_creation_times'[id] = None
  <2>1. CASE CreateEpisode
    <3> DEFINE s == Initialize(payload.participants, metadata)
               w == [episode |-> s, rollback_stack |-> <<>>]
    <3>1. s \in EpisodeStates
      BY <2>1, <1>1, PayloadTyping, EpisodeTyping DEF CreateEpisode
    <3>2. w \in EpisodeWrappers
      BY <3>1 DEF EpisodeWrappers
    <3>3. msg.accepting_daa \in DaaScores
      BY <1>1, AcceptedMsg
    <3>4. /\ episodes' = [episodes EXCEPT ![payload.id] = w]
          /\ observed' = [observed EXCEPT ![payload.id] = s]
          /\ episode_creation_times' =
                [episode_creation_times EXCEPT ![payload.id] = msg.accepting_daa]
      BY <2>1 DEF CreateEpisode
    <3> HIDE DEF s, w
    <3> QED
      BY <3>1, <3>2, <3>3, <3>4, <1>4, NoneAssumption
  <2>2. CASE ExecuteCommand
    <3>1. Outcome \in [ok : BOOLEAN, state : EpisodeStates, undo : Undos]
      BY <2>2, <1>1, <1>4, PayloadTyping, EpisodeTyping
         DEF ExecuteCommand, Runs, Live, Outcome, EpisodeWrappers
    <3>2. episodes[payload.id] \in EpisodeWrappers
      BY <2>2, <1>4 DEF ExecuteCommand, Runs, Live
    <3> DEFINE w == [episode |-> Outcome.state,
                     rollback_stack |-> Append(episodes[payload.id].rollback_stack,
                                               Outcome.undo)]
    <3>3. w \in EpisodeWrappers
      BY <3>1, <3>2 DEF EpisodeWrappers
    <3>4. episodes' = [episodes EXCEPT ![payload.id] = w]
      BY <2>2, <3>2, <1>4 DEF ExecuteCommand, EpisodeWrappers
    <3>5. /\ observed' = [observed EXCEPT ![payload.id] = Outcome.state]
          /\ UNCHANGED episode_creation_times
      BY <2>2 DEF ExecuteCommand
    <3>6. episodes[payload.id] # None
      BY <2>2 DEF ExecuteCommand, Runs, Live
    <3> HIDE DEF w
    <3> QED
      BY <3>1, <3>3, <3>4, <3>5, <3>6, <1>4, NoneAssumption
  <2> QED
    BY <2>1, <2>2
<1> QED
  BY <1>1, <1>2, <1>3, <1>5, <1>6

(* ... when a payload has no effect, and when a reversion begins *)
LEMMA TypedNoEffect ==
  ASSUME Typed, NoEffect
  PROVE  Typed'
<1> USE DEF Typed, TypeOK, EngineTypeOK, Episodes, PcInv, NoEffect, Advance, feedVars,
            auxVars, Feed!FeedTypeOK
<1>1. CASE RejectCommand
  <2>1. /\ Pending
        /\ receiver # <<>>
        /\ msg.type = "BlkAccepted"
        /\ pc = "accept"
        /\ payload.id \in EpisodeIds
        /\ episodes[payload.id] # None
    BY <1>1, PayloadTyping DEF RejectCommand, Runs, Pending, Live
  <2>2. /\ handled < Len(msg.associated_txs)
        /\ Len(msg.associated_txs) \in Nat
    BY <2>1, AcceptedMsg, LenProperties DEF Pending
  <2>3. episodes[payload.id] \in EpisodeWrappers
    BY <2>1
  <2>4. Outcome.state \in EpisodeStates
    BY <1>1, <2>1, <2>3, PayloadTyping, EpisodeTyping
       DEF RejectCommand, Runs, Outcome, EpisodeWrappers
  <2> DEFINE w == [episode |-> Outcome.state,
                   rollback_stack |-> episodes[payload.id].rollback_stack]
  <2>5. w \in EpisodeWrappers
    BY <2>3, <2>4 DEF EpisodeWrappers
  <2>6. episodes' = [episodes EXCEPT ![payload.id] = w]
    BY <1>1 DEF RejectCommand
  <2>7. /\ UNCHANGED <<episode_creation_times, observed, revert_vec>>
        /\ handled' = handled + 1
        /\ UNCHANGED <<receiver, revert_map, next_filtering, pc>>
        /\ msg' = msg
    BY <1>1 DEF RejectCommand, msg
  <2> HIDE DEF w
  <2> QED
    BY <2>1, <2>2, <2>5, <2>6, <2>7, NoneAssumption
<1>2. CASE SkipPayload
  <2>1. /\ receiver # <<>>
        /\ msg.type = "BlkAccepted"
        /\ pc = "accept"
    BY <1>2 DEF SkipPayload, Pending
  <2>2. /\ handled < Len(msg.associated_txs)
        /\ Len(msg.associated_txs) \in Nat
    BY <1>2, <2>1, AcceptedMsg, LenProperties DEF SkipPayload, Pending
  <2>3. /\ UNCHANGED <<episodes, episode_creation_times, observed, revert_vec>>
        /\ handled' = handled + 1
        /\ UNCHANGED <<receiver, revert_map, next_filtering, pc>>
        /\ msg' = msg
    BY <1>2 DEF SkipPayload, msg
  <2> QED
    BY <2>1, <2>2, <2>3
<1>3. CASE RecvBlkReverted
  <2>1. /\ receiver # <<>>
        /\ msg.type = "BlkReverted"
        /\ msg' = msg
        /\ revert_map[msg.accepting_hash] # None
    BY <1>3 DEF RecvBlkReverted, Receives, msg
  <2>2. msg.accepting_hash \in BlockHashes
    BY <2>1, RevertedMsg
  <2>3. /\ revert_vec' = revert_map[msg.accepting_hash]
        /\ revert_map' = [revert_map EXCEPT ![msg.accepting_hash] = None]
        /\ pc' = "revert"
        /\ UNCHANGED <<receiver, episodes, next_filtering, episode_creation_times,
                       handled, observed>>
    BY <1>3 DEF RecvBlkReverted
  <2> QED
    BY <2>1, <2>2, <2>3
<1> QED
  BY <1>1, <1>2, <1>3 DEF NoEffect

(* The channel after a message was taken off it *)
LEMMA TailTyping ==
  ASSUME TypeOK, receiver # <<>>
  PROVE  Tail(receiver) \in Seq(EngineMsgs)
BY HeadTailProperties DEF TypeOK, EngineTypeOK

(* ... when a block is finished and its entry of revert_map written *)
LEMMA TypedAccepted ==
  ASSUME Typed, Accepted, views # <<>>
  PROVE  Typed'
<1> USE DEF Typed, TypeOK, EngineTypeOK, Episodes, PcInv, Accepted, FinishAccepted, feedVars,
            Feed!FeedTypeOK
<1>1. /\ receiver # <<>>
      /\ msg.accepting_hash \in BlockHashes
  BY AcceptedMsg
<1>2. receiver' \in Seq(EngineMsgs) /\ views' \in Seq(Seq(BlockHashes))
  BY <1>1, TailTyping, HeadTailProperties
<1>3. revert_map' \in [BlockHashes -> Seq(EpisodeIds) \cup {None}]
  BY <1>1
<1> QED
  BY <1>2, <1>3

(* ... when the last reversion of a block is done *)
LEMMA TypedReverted ==
  ASSUME Typed, Reverted, views # <<>>, applied # <<>>
  PROVE  Typed'
<1> USE DEF Typed, TypeOK, EngineTypeOK, Episodes, PcInv, Reverted, FinishReverted, feedVars,
            Feed!FeedTypeOK
<1>1. receiver' \in Seq(EngineMsgs) /\ views' \in Seq(Seq(BlockHashes))
  BY TailTyping, HeadTailProperties
<1>2. applied' \in Seq(Marks)
  BY FrontType
<1> QED
  BY <1>1, <1>2

(* ... when an unknown reversion is dropped, and at Exit *)
LEMMA TypedDiscard ==
  ASSUME Typed, Discard, views # <<>>
  PROVE  Typed'
<1> USE DEF Typed, TypeOK, EngineTypeOK, Episodes, PcInv, Discard, feedVars, engineVars,
            Feed!FeedTypeOK
<1>1. /\ receiver # <<>>
      /\ pc = "recv"
      /\ receiver' = Tail(receiver)
      /\ pc' \in {"recv", "stopped"}
      /\ UNCHANGED <<episodes, revert_map, next_filtering, episode_creation_times,
                     handled, revert_vec, observed>>
  BY DEF RecvUnknownReverted, RecvExit, Receives
<1>2. receiver' \in Seq(EngineMsgs) /\ views' \in Seq(Seq(BlockHashes))
  BY <1>1, TailTyping, HeadTailProperties
<1> QED
  BY <1>1, <1>2

(* ... when one effect is reverted *)
LEMMA TypedUndo ==
  ASSUME Typed, Undo, trail # <<>>
  PROVE  Typed'
<1> USE DEF Typed, TypeOK, EngineTypeOK, Episodes, PcInv, Undo, RevertOne, feedVars,
            Feed!FeedTypeOK
<1>1. /\ pc = "revert"
      /\ revert_vec # <<>>
      /\ revert_vec' = Front(revert_vec)
      /\ UNCHANGED <<receiver, revert_map, next_filtering, pc, handled>>
      /\ msg' = msg
  BY DEF UndoCommand, UndoCreation, UndoMissing, Reverting, msg
<1>2. revert_vec' \in Seq(EpisodeIds) /\ target \in EpisodeIds
  BY <1>1, FrontType DEF target
<1>3. trail' \in Seq(Effects)
  BY FrontType
<1>4. /\ episodes' \in Episodes
      /\ episode_creation_times' \in [EpisodeIds -> DaaScores \cup {None}]
      /\ observed' \in [EpisodeIds -> EpisodeStates \cup {None}]
      /\ \A id \in EpisodeIds :
            episodes'[id] = None <=> episode_creation_times'[id] = None
  <2>1. CASE UndoCommand
    <3> DEFINE w == episodes[target]
               s == Rollback(w.episode, Last(w.rollback_stack)).state
               v == [episode |-> s, rollback_stack |-> Front(w.rollback_stack)]
    <3>1. w # None /\ w.rollback_stack # <<>>
      BY <2>1 DEF UndoCommand, Live
    <3>2. /\ w.episode \in EpisodeStates
          /\ w.rollback_stack \in Seq(Undos)
      BY <1>2, <3>1 DEF EpisodeWrappers
    <3>3. /\ Front(w.rollback_stack) \in Seq(Undos)
          /\ Last(w.rollback_stack) \in Undos
      BY <3>1, <3>2, FrontType
    <3>4. s \in EpisodeStates
      BY <3>2, <3>3, EpisodeTyping
    <3>5. v \in EpisodeWrappers
      BY <3>3, <3>4 DEF EpisodeWrappers
    <3>6. /\ episodes' = [episodes EXCEPT ![target] = v]
          /\ observed' = [observed EXCEPT ![target] = s]
          /\ UNCHANGED episode_creation_times
      BY <2>1 DEF UndoCommand
    <3> HIDE DEF s, v
    <3> QED
      BY <1>2, <3>1, <3>4, <3>5, <3>6, NoneAssumption
  <2>2. CASE UndoCreation
    <3>1. episodes[target] # None
      BY <2>2 DEF UndoCreation, Live
    <3>2. episodes[target].episode \in EpisodeStates
      BY <1>2, <3>1 DEF EpisodeWrappers
    <3>3. /\ observed' = [observed EXCEPT ![target] = episodes[target].episode]
          /\ episodes' = [episodes EXCEPT ![target] = None]
          /\ episode_creation_times' = [episode_creation_times EXCEPT ![target] = None]
      BY <2>2 DEF UndoCreation
    <3> QED
      BY <1>2, <3>2, <3>3
  <2>3. CASE UndoMissing
    BY <2>3 DEF UndoMissing
  <2> QED
    BY <2>1, <2>2, <2>3
<1> QED
  BY <1>1, <1>2, <1>3, <1>4

-----------------------------------------------------------------------------
(* What Tail does to the elements of a sequence *)
LEMMA TailFacts ==
  ASSUME NEW S, NEW s \in Seq(S), s # <<>>
  PROVE  /\ Tail(s) \in Seq(S)
         /\ Head(s) = s[1]
         /\ Len(s) \in Nat \ {0}
         /\ Len(Tail(s)) = Len(s) - 1
         /\ \A i \in 1..(Len(s) - 1) : Tail(s)[i] = s[i + 1]
         /\ Tail(s) = <<>> <=> Len(s) = 1
<1>1. /\ Len(s) \in Nat \ {0}
      /\ Tail(s) \in Seq(S)
      /\ Len(Tail(s)) = Len(s) - 1
      /\ Head(s) = s[1]
  BY HeadTailProperties, EmptySeq, LenProperties
<1>2. \A i \in 1..(Len(s) - 1) : Tail(s)[i] = s[i + 1]
  BY <1>1
<1> QED
  BY <1>1, <1>2, EmptySeq

(* What Append does to the elements of a sequence *)
LEMMA AppendFacts ==
  ASSUME NEW S, NEW s \in Seq(S), NEW e \in S
  PROVE  /\ Append(s, e) \in Seq(S)
         /\ Append(s, e) # <<>>
         /\ Len(s) \in Nat
         /\ Len(Append(s, e)) = Len(s) + 1
         /\ \A i \in 1..Len(s) : Append(s, e)[i] = s[i]
         /\ Append(s, e)[Len(s) + 1] = e
         /\ Last(Append(s, e)) = e
         /\ Front(Append(s, e)) = s
<1>1. Last(Append(s, e)) = e /\ Front(Append(s, e)) = s
  BY FrontOfAppend
<1>2. /\ Append(s, e) \in Seq(S)
      /\ Append(s, e) # <<>>
      /\ Len(s) \in Nat
      /\ Len(Append(s, e)) = Len(s) + 1
      /\ \A i \in 1..Len(s) : Append(s, e)[i] = s[i]
      /\ Append(s, e)[Len(s) + 1] = e
  OBVIOUS
<1> QED
  BY <1>1, <1>2

(* The hashes of the applied blocks are a sequence of their own *)
LEMMA HeightsType ==
  ASSUME TypeOK
  PROVE  /\ Heights \in Seq(BlockHashes)
         /\ Len(applied) \in Nat
         /\ Len(Heights) = Len(applied)
         /\ \A k \in 1..Len(applied) : Heights[k] = applied[k].hash
         /\ Heights = <<>> <=> applied = <<>>
<1>1. applied \in Seq(Marks)
  BY DEF TypeOK
<1>2. Len(applied) \in Nat /\ \A k \in 1..Len(applied) : applied[k] \in Marks
  BY <1>1
<1>3. \A k \in 1..Len(applied) : applied[k].hash \in BlockHashes
  BY <1>2 DEF Marks
<1>4. /\ Heights \in Seq(BlockHashes)
      /\ Len(Heights) = Len(applied)
  BY <1>2, <1>3 DEF Heights
<1>5. \A k \in 1..Len(applied) : Heights[k] = applied[k].hash
  BY DEF Heights
<1>6. Heights = <<>> <=> applied = <<>>
  BY <1>1, <1>4, EmptySeq
<1> QED
  BY <1>2, <1>4, <1>5, <1>6

(* What a step of the listener does to the channel and to the chain *)
LEMMA FeedShape ==
  ASSUME Typed, InOrder, FeedStep
  PROVE  /\ ~ closed
         /\ peak \in Nat /\ peak' \in Nat /\ peak <= peak'
         /\ \A j \in 1..Len(chain') : blocks'[chain'[j]] # None
         /\ \E m \in EngineMsgs :
               /\ receiver' = Append(receiver, m)
               /\ Leads(m, chain, chain')
               /\ m.type = "Exit" => closed'
               /\ m.type = "BlkAccepted" =>
                     /\ m.accepting_daa \in DaaScores
                     /\ m.accepting_daa <= peak'
                     /\ peak <= m.accepting_daa + MaxReorg
<1> USE DEF Typed, TypeOK, Feed!FeedTypeOK
<1>0. /\ \A txs \in TxLists : txs \in Seq(Payloads)
      /\ DaaScores \subseteq Nat
      /\ MaxReorg \in Nat
      /\ chain \in Seq(BlockHashes)
      /\ Len(chain) \in Nat
      /\ \A j \in 1..Len(chain) : blocks[chain[j]] # None /\ chain[j] \in BlockHashes
  BY TxListsAssumption, ConstantsAssumption, ReorgAssumption DEF InOrder
<1>1. ASSUME NEW h \in BlockHashes, NEW c \in Feed!Contents,
             Feed!Above(c.daa), Feed!Extend(h, c), ~ On(h, chain),
             \A x \in BlockHashes : blocks[x] # None => blocks'[x] # None,
             blocks'[h] # None
      PROVE  /\ ~ closed
             /\ peak \in Nat /\ peak' \in Nat /\ peak <= peak'
             /\ \A j \in 1..Len(chain') : blocks'[chain'[j]] # None
             /\ \E m \in EngineMsgs :
                   /\ receiver' = Append(receiver, m)
                   /\ Leads(m, chain, chain')
                   /\ m.type = "Exit" => closed'
                   /\ m.type = "BlkAccepted" =>
                         /\ m.accepting_daa \in DaaScores
                         /\ m.accepting_daa <= peak'
                         /\ peak <= m.accepting_daa + MaxReorg
  <2>1. c.daa \in DaaScores /\ c.txs \in TxLists
    BY DEF Feed!Contents
  <2> DEFINE m == Feed!Accepted(h, c)
  <2>2. /\ m \in EngineMsgs
        /\ m.type = "BlkAccepted"
        /\ m.accepting_hash = h
        /\ m.accepting_daa = c.daa
    BY <1>0, <2>1 DEF Feed!Accepted, EngineMsgs
  <2>3. /\ receiver' = Append(receiver, m)
        /\ chain' = Append(chain, h)
        /\ ~ closed
        /\ peak' = IF c.daa > peak THEN c.daa ELSE peak
    BY <1>1 DEF Feed!Extend, Feed!Send
  <2>4. peak <= c.daa + MaxReorg /\ peak \in Nat
    <3>1. peak <= c.daa + MaxReorg
      BY <1>1 DEF Feed!Above
    <3>2. peak \in DaaScores \cup {0} /\ DaaScores \subseteq Nat
      BY <1>0
    <3> QED
      BY <3>1, <3>2
  <2> HIDE DEF m
  <2>5. Leads(m, chain, chain')
    BY <1>1, <2>2, <2>3 DEF Leads
  <2>6. \A j \in 1..Len(chain') : blocks'[chain'[j]] # None
    BY <1>0, <1>1, <2>3
  <2>7. peak' \in Nat /\ peak <= peak' /\ c.daa <= peak'
    <3>1. c.daa \in Nat
      BY <1>0, <2>1
    <3> DEFINE d == c.daa
    <3>2. d \in Nat /\ peak \in Nat /\ peak' = IF d > peak THEN d ELSE peak
      BY <2>3, <2>4, <3>1
    <3> HIDE DEF d
    <3>3. peak' \in Nat /\ peak <= peak' /\ d <= peak'
      BY <3>2
    <3> QED
      BY <3>3 DEF d
  <2>8. m.type # "Exit"
    BY <2>2
  <2>9. \E n \in EngineMsgs :
           /\ receiver' = Append(receiver, n)
           /\ Leads(n, chain, chain')
           /\ n.type = "Exit" => closed'
           /\ n.type = "BlkAccepted" =>
                 /\ n.accepting_daa \in DaaScores
                 /\ n.accepting_daa <= peak'
                 /\ peak <= n.accepting_daa + MaxReorg
    BY <2>1, <2>2, <2>3, <2>4, <2>5, <2>7, <2>8, Zenon
  <2> QED
    BY <2>3, <2>4, <2>6, <2>7, <2>9, Zenon
<1>2. CASE Feed!AcceptNew
  <2>1. PICK h \in BlockHashes, c \in Feed!Contents :
           /\ blocks[h] = None
           /\ Feed!Above(c.daa)
           /\ Feed!Extend(h, c)
           /\ blocks' = [blocks EXCEPT ![h] = c]
    BY <1>2 DEF Feed!AcceptNew
  <2>2. ~ On(h, chain)
    BY <1>0, <2>1 DEF On
  <2>3. c # None
    BY NoBlockAssumption
  <2>4. blocks'[h] = c /\ \A x \in BlockHashes : x # h => blocks'[x] = blocks[x]
    BY <2>1
  <2> QED
    BY <1>1, <2>1, <2>2, <2>3, <2>4
<1>3. CASE Feed!AcceptAgain
  <2>1. PICK h \in BlockHashes :
           /\ blocks[h] # None
           /\ ~ Feed!OnChain(h)
           /\ Feed!Above(blocks[h].daa)
           /\ Feed!Extend(h, blocks[h])
           /\ blocks' = blocks
    BY <1>3 DEF Feed!AcceptAgain
  <2>2. ~ On(h, chain)
    BY <2>1 DEF On, Feed!OnChain
  <2>3. blocks[h] \in Feed!Contents
    BY <2>1
  <2> QED
    BY <1>1, <2>1, <2>2, <2>3
<1>4. CASE Feed!RevertTip
  <2>1. /\ ~ closed
        /\ chain # <<>>
        /\ receiver' = Append(receiver, Feed!Reverted(Last(chain)))
        /\ chain' = Front(chain)
        /\ blocks' = blocks
        /\ peak' = peak
    BY <1>4, FeedFront DEF Feed!RevertTip, Feed!Send
  <2>2. /\ Last(chain) \in BlockHashes
        /\ Front(chain) \in Seq(BlockHashes)
        /\ Len(Front(chain)) = Len(chain) - 1
        /\ \A j \in 1..(Len(chain) - 1) : Front(chain)[j] = chain[j]
    BY <1>0, <2>1, FrontType
  <2> DEFINE m == Feed!Reverted(Last(chain))
  <2>3. /\ m \in EngineMsgs
        /\ m.type = "BlkReverted"
        /\ m.accepting_hash = Last(chain)
    BY <2>2 DEF Feed!Reverted, EngineMsgs
  <2>4. receiver' = Append(receiver, m)
    BY <2>1
  <2> HIDE DEF m
  <2>5. Leads(m, chain, chain')
    BY <2>1, <2>3 DEF Leads
  <2>6. \A j \in 1..Len(chain') : blocks'[chain'[j]] # None
    BY <1>0, <2>1, <2>2
  <2> QED
    BY <1>0, <2>1, <2>3, <2>4, <2>5, <2>6
<1>5. CASE Feed!RevertOther
  <2>1. PICK h \in BlockHashes : blocks[h] = None /\ Feed!Send(Feed!Reverted(h))
    BY <1>5 DEF Feed!RevertOther
  <2> DEFINE m == Feed!Reverted(h)
  <2>2. /\ m \in EngineMsgs
        /\ m.type = "BlkReverted"
        /\ m.accepting_hash = h
    BY DEF Feed!Reverted, EngineMsgs
  <2>3. /\ receiver' = Append(receiver, m)
        /\ ~ closed
        /\ blocks' = blocks
        /\ chain' = chain
        /\ peak' = peak
    BY <1>5, <2>1 DEF Feed!RevertOther, Feed!Send, Feed!feedVars
  <2> HIDE DEF m
  <2>4. Leads(m, chain, chain')
    BY <1>0, <2>1, <2>2, <2>3 DEF Leads, On
  <2>5. peak \in Nat /\ peak <= peak
    BY <1>0
  <2> QED
    BY <1>0, <2>2, <2>3, <2>4, <2>5, Zenon
<1>6. CASE Feed!SendExit
  <2> DEFINE m == [type |-> "Exit"]
  <2>1. m \in EngineMsgs /\ m.type = "Exit"
    BY DEF EngineMsgs
  <2>2. /\ receiver' = Append(receiver, m)
        /\ ~ closed
        /\ closed'
        /\ blocks' = blocks
        /\ chain' = chain
        /\ peak' = peak
    BY <1>6 DEF Feed!SendExit, Feed!Send
  <2> HIDE DEF m
  <2>3. Leads(m, chain, chain')
    BY <2>1, <2>2 DEF Leads
  <2> QED
    BY <1>0, <2>1, <2>2, <2>3
<1> QED
  BY <1>2, <1>3, <1>4, <1>5, <1>6 DEF FeedStep, Feed!FeedNext

-----------------------------------------------------------------------------
(* The channel and the chain *)

(* The message at the head leads from the engine's chain to the next view *)
LEMMA HeadLeads ==
  ASSUME Typed, InOrder, receiver # <<>>
  PROVE  /\ Leads(msg, EngineChain, views[1])
         /\ views # <<>>
         /\ msg = receiver[1]
<1>1. receiver \in Seq(EngineMsgs) /\ views \in Seq(Seq(BlockHashes))
  BY DEF Typed, TypeOK, EngineTypeOK
<1>2. Len(receiver) \in Nat \ {0} /\ msg = receiver[1]
  BY <1>1, TailFacts DEF msg
<1>3. Leads(receiver[1], Before(1), views[1]) /\ Len(views) = Len(receiver)
  BY <1>2 DEF InOrder
<1>4. Before(1) = EngineChain
  BY DEF Before
<1>5. views # <<>>
  BY <1>1, <1>2, <1>3, EmptySeq
<1> QED
  BY <1>2, <1>3, <1>4, <1>5

(* A block whose reversion finds an entry is the last applied one: the     *)
(* entry of revert_map is there, so the block is on the engine's chain.    *)
LEMMA EntryIsLast ==
  ASSUME Typed, InOrder, EntriesFollow, pc = "recv", receiver # <<>>,
         msg.type = "BlkReverted"
  PROVE  IF revert_map[msg.accepting_hash] = None
         THEN views[1] = EngineChain
         ELSE applied # <<>> /\ Last(applied).hash = msg.accepting_hash
<1>1. EngineChain = Heights
  BY DEF EngineChain
<1>2. TypeOK
  BY DEF Typed
<1>3. msg.accepting_hash \in BlockHashes
  BY <1>2, RevertedMsg
<1>4. revert_map[msg.accepting_hash] # None
         <=> \E k \in 1..Len(applied) : applied[k].hash = msg.accepting_hash
  BY <1>3 DEF EntriesFollow, InProgress
<1>5. revert_map[msg.accepting_hash] # None <=> On(msg.accepting_hash, Heights)
  BY <1>2, <1>4, HeightsType DEF On
<1>6. Leads(msg, Heights, views[1])
  BY <1>1, HeadLeads
<1>7. Heights # <<>> => /\ Len(applied) \in 1..Len(applied)
                        /\ Last(Heights) = Last(applied).hash
                        /\ On(Last(Heights), Heights)
  <2> SUFFICES ASSUME Heights # <<>>
               PROVE  /\ Len(applied) \in 1..Len(applied)
                      /\ Last(Heights) = Last(applied).hash
                      /\ On(Last(Heights), Heights)
    OBVIOUS
  <2>1. Len(applied) \in Nat \ {0}
    BY <1>2, HeightsType, EmptySeq
  <2>2. Last(Heights) = Heights[Len(applied)]
    BY <1>2, HeightsType DEF Last
  <2>3. Heights[Len(applied)] = applied[Len(applied)].hash
    BY <1>2, <2>1, HeightsType
  <2> QED
    BY <1>2, <2>1, <2>2, <2>3, HeightsType DEF Last, On
<1>8. CASE revert_map[msg.accepting_hash] = None
  <2>1. ~ On(msg.accepting_hash, Heights)
    BY <1>5, <1>8
  <2>2. ~ (Heights # <<>> /\ Last(Heights) = msg.accepting_hash)
    BY <1>7, <2>1
  <2> QED
    BY <1>1, <1>6, <1>8, <2>2 DEF Leads
<1>9. CASE revert_map[msg.accepting_hash] # None
  <2>1. Heights # <<>> /\ Last(Heights) = msg.accepting_hash
    BY <1>5, <1>6, <1>9 DEF Leads
  <2> QED
    BY <1>2, <1>7, <1>9, <2>1, HeightsType
<1> QED
  BY <1>8, <1>9

(* The steps inside the processing of a message *)
Quiet == Accept \/ Effect \/ NoEffect \/ Undo

(* They leave the channel and the engine's chain alone *)
LEMMA QuietShape ==
  ASSUME Typed, Quiet
  PROVE  /\ UNCHANGED <<receiver, views, feedVars>>
         /\ EngineChain' = EngineChain
         /\ msg' = msg
         /\ pc' # "stopped"
         /\ receiver # <<>>
<1> USE DEF feedVars, auxVars
<1>1. CASE Accept
  <2>1. /\ pc = "recv"
        /\ pc' = "accept"
        /\ receiver # <<>>
        /\ msg.type = "BlkAccepted"
        /\ UNCHANGED <<receiver, views, feedVars>>
        /\ applied' = Append(applied, [hash |-> msg.accepting_hash,
                                       from |-> Len(trail), before |-> episodes])
    BY <1>1 DEF Accept, RecvBlkAccepted, Receives
  <2> DEFINE mk == [hash |-> msg.accepting_hash, from |-> Len(trail), before |-> episodes]
  <2>2. mk \in Marks /\ mk.hash = msg.accepting_hash
    BY <2>1, AcceptedMsg, LenProperties DEF Typed, TypeOK, EngineTypeOK, Marks
  <2>3. applied \in Seq(Marks) /\ applied' = Append(applied, mk)
    BY <2>1 DEF Typed, TypeOK
  <2> HIDE DEF mk
  <2>4. /\ Len(applied) \in Nat
        /\ Len(applied') = Len(applied) + 1
        /\ \A k \in 1..Len(applied) : applied'[k] = applied[k]
        /\ applied'[Len(applied) + 1] = mk
    BY <2>2, <2>3, AppendFacts
  <2>5. Heights' = Append(Heights, mk.hash)
    BY <2>2, <2>4, HeightsType DEF Heights, Marks, Typed
  <2>6. Front(Heights') = Heights
    BY <2>2, <2>5, HeightsType, FrontOfAppend DEF Marks, Typed
  <2> QED
    BY <2>1, <2>6 DEF EngineChain, msg
<1>2. CASE Effect
  <2>1. /\ pc = "accept"
        /\ UNCHANGED <<receiver, pc, views, applied, feedVars>>
    BY <1>2 DEF Effect, CreateEpisode, ExecuteCommand, Runs, Pending, Advance
  <2> QED
    BY <2>1 DEF EngineChain, Heights, msg, Typed, PcInv
<1>3. CASE NoEffect
  <2>1. UNCHANGED <<receiver, views, applied, feedVars>>
    BY <1>3 DEF NoEffect, RejectCommand, SkipPayload, RecvBlkReverted, Advance
  <2>2. \/ pc = "accept" /\ pc' = pc
        \/ pc = "recv" /\ pc' = "revert" /\ receiver # <<>>
    BY <1>3 DEF NoEffect, RejectCommand, SkipPayload, RecvBlkReverted, Advance,
                Runs, Pending, Receives
  <2> QED
    BY <2>1, <2>2 DEF EngineChain, Heights, msg, Typed, PcInv
<1>4. CASE Undo
  <2>1. /\ pc = "revert"
        /\ UNCHANGED <<receiver, pc, views, applied, feedVars>>
    BY <1>4 DEF Undo, UndoCommand, UndoCreation, UndoMissing, Reverting, RevertOne
  <2> QED
    BY <2>1 DEF EngineChain, Heights, msg, Typed, PcInv
<1> QED
  BY <1>1, <1>2, <1>3, <1>4 DEF Quiet

(* The steps that end the processing of a message *)
Consumes == Accepted \/ Reverted \/ Discard

(* They take the message off the channel and leave the engine on the chain *)
(* that the message leads to.                                              *)
LEMMA ConsumesShape ==
  ASSUME Typed, Current, InOrder, EntriesFollow, Consumes
  PROVE  /\ receiver # <<>>
         /\ views # <<>>
         /\ receiver' = Tail(receiver)
         /\ views' = Tail(views)
         /\ UNCHANGED feedVars
         /\ EngineChain' = views[1]
         /\ pc' = "recv" \/ (pc' = "stopped" /\ receiver[1].type = "Exit")
<1>1. CASE Accepted
  <2>1. /\ pc = "accept"
        /\ receiver # <<>>
        /\ msg.type = "BlkAccepted"
        /\ applied # <<>>
        /\ Last(applied).hash = msg.accepting_hash
        /\ pc' = "recv"
        /\ receiver' = Tail(receiver)
        /\ views' = Tail(views)
        /\ UNCHANGED applied
        /\ UNCHANGED feedVars
    BY <1>1 DEF Accepted, FinishAccepted, Typed, PcInv, Current
  <2>2. views # <<>> /\ views[1] = Append(Front(Heights), msg.accepting_hash)
    BY <2>1, HeadLeads DEF Leads, EngineChain
  <2>3. Heights # <<>> /\ Last(Heights) = msg.accepting_hash
    <3>1. Len(applied) \in Nat \ {0}
      BY <2>1, HeightsType, EmptySeq DEF Typed, TypeOK
    <3> QED
      BY <2>1, <3>1, HeightsType DEF Last, Typed
  <2>4. Heights = Append(Front(Heights), Last(Heights))
    <3>1. Heights \in Seq(BlockHashes)
      BY HeightsType DEF Typed
    <3>2. /\ Front(Heights) \in Seq(BlockHashes)
          /\ Last(Heights) \in BlockHashes
          /\ Len(Heights) \in Nat \ {0}
          /\ Len(Front(Heights)) = Len(Heights) - 1
          /\ \A i \in 1..(Len(Heights) - 1) : Front(Heights)[i] = Heights[i]
          /\ Last(Heights) = Heights[Len(Heights)]
      BY <2>3, <3>1, FrontType DEF Last
    <3> DEFINE f == Front(Heights)
               a == Append(f, Last(Heights))
    <3>3. /\ a \in Seq(BlockHashes)
          /\ Len(a) = Len(Heights)
          /\ \A i \in 1..(Len(Heights) - 1) : a[i] = f[i]
          /\ a[Len(Heights)] = Last(Heights)
      BY <3>2, AppendFacts
    <3>4. \A i \in 1..Len(Heights) : a[i] = Heights[i]
      BY <3>2, <3>3
    <3> HIDE DEF a
    <3>5. Heights = a
      BY <3>1, <3>3, <3>4, SeqEqual
    <3> QED
      BY <3>5 DEF a
  <2>5. EngineChain' = Heights
    BY <2>1 DEF EngineChain, Heights
  <2>6. EngineChain' = views[1]
    BY <2>2, <2>3, <2>4, <2>5
  <2> QED
    BY <2>1, <2>2, <2>6
<1>2. CASE Reverted
  <2>1. /\ pc = "revert"
        /\ receiver # <<>>
        /\ msg.type = "BlkReverted"
        /\ applied # <<>>
        /\ Last(applied).hash = msg.accepting_hash
        /\ pc' = "recv"
        /\ receiver' = Tail(receiver)
        /\ views' = Tail(views)
        /\ applied' = Front(applied)
        /\ UNCHANGED feedVars
    BY <1>2 DEF Reverted, FinishReverted, Typed, PcInv, Current
  <2>2. views # <<>> /\ Leads(msg, Heights, views[1])
    BY <2>1, HeadLeads DEF EngineChain
  <2>3. On(msg.accepting_hash, Heights)
    <3>1. Len(applied) \in Nat \ {0}
      BY <2>1, HeightsType, EmptySeq DEF Typed, TypeOK
    <3> QED
      BY <2>1, <3>1, HeightsType DEF Last, Typed, On
  <2>4. views[1] = Front(Heights)
    BY <2>1, <2>2, <2>3 DEF Leads
  <2>5. EngineChain' = Heights'
    BY <2>1 DEF EngineChain
  <2>6. Heights' = Front(Heights)
    <3>1. /\ Len(applied) \in Nat \ {0}
          /\ Len(applied') = Len(applied) - 1
          /\ \A i \in 1..(Len(applied) - 1) : applied'[i] = applied[i]
      BY <2>1, FrontType DEF Typed, TypeOK
    <3>2. /\ Len(Heights) = Len(applied)
          /\ \A i \in 1..Len(applied) : Heights[i] = applied[i].hash
          /\ Heights \in Seq(BlockHashes)
          /\ Heights # <<>>
      BY <2>1, HeightsType DEF Typed
    <3>3. /\ Front(Heights) \in Seq(BlockHashes)
          /\ Len(Front(Heights)) = Len(applied) - 1
          /\ \A i \in 1..(Len(applied) - 1) : Front(Heights)[i] = Heights[i]
      BY <3>2, FrontType
    <3>4. /\ Heights' \in Seq(BlockHashes)
          /\ Len(Heights') = Len(applied) - 1
          /\ \A i \in 1..(Len(applied) - 1) : Heights'[i] = applied[i].hash
      <4>1. Heights' = [k \in 1..(Len(applied) - 1) |-> applied[k].hash]
        BY <3>1 DEF Heights
      <4>2. \A k \in 1..(Len(applied) - 1) : applied[k].hash \in BlockHashes
        <5>1. \A k \in 1..(Len(applied) - 1) : applied[k] \in Marks
          BY <3>1 DEF Typed, TypeOK
        <5> QED
          BY <5>1 DEF Marks
      <4> QED
        BY <3>1, <4>1, <4>2
    <3> QED
      BY <3>1, <3>2, <3>3, <3>4, SeqEqual
  <2>7. EngineChain' = views[1]
    BY <2>4, <2>5, <2>6
  <2> QED
    BY <2>1, <2>2, <2>7
<1>3. CASE Discard
  <2>1. /\ pc = "recv"
        /\ receiver # <<>>
        /\ receiver' = Tail(receiver)
        /\ views' = Tail(views)
        /\ UNCHANGED applied
        /\ UNCHANGED feedVars
        /\ \/ msg.type = "Exit" /\ pc' = "stopped"
           \/ /\ msg.type = "BlkReverted"
              /\ revert_map[msg.accepting_hash] = None
              /\ pc' = "recv"
    BY <1>3 DEF Discard, RecvUnknownReverted, RecvExit, Receives, engineVars
  <2>2. /\ views # <<>>
        /\ Leads(msg, EngineChain, views[1])
        /\ msg = receiver[1]
    BY <2>1, HeadLeads
  <2>3. views[1] = EngineChain
    BY <2>1, <2>2, EntryIsLast DEF Leads
  <2>4. EngineChain' = EngineChain
    BY <2>1 DEF EngineChain, Heights
  <2>5. EngineChain' = views[1]
    BY <2>3, <2>4
  <2>6. receiver # <<>> /\ views # <<>> /\ receiver' = Tail(receiver) /\ views' = Tail(views)
    BY <2>1, <2>2
  <2>7. UNCHANGED feedVars
    BY <2>1
  <2>8. pc' = "recv" \/ (pc' = "stopped" /\ receiver[1].type = "Exit")
    BY <2>1, <2>2
  <2> QED
    BY <2>5, <2>6, <2>7, <2>8
<1> QED
  BY <1>1, <1>2, <1>3 DEF Consumes

(* The message being processed is about the last applied block: a reversion
   that finds its entry in revert_map is about the tip of the chain. *)
LEMMA CurrentStep ==
  ASSUME Typed, Current, InOrder, EntriesFollow, Next
  PROVE  Current'
<1>1. CASE FeedStep
  <2>1. UNCHANGED <<pc, applied>>
    BY <1>1 DEF FeedStep, engineVars
  <2>2. PICK m \in EngineMsgs : receiver' = Append(receiver, m)
    BY <1>1, FeedMessages DEF Typed, FeedStep
  <2>3. pc \in {"accept", "revert"} => msg' = msg
    <3>1. pc \in {"accept", "revert"} => receiver # <<>>
      BY DEF Typed, PcInv
    <3>2. receiver \in Seq(EngineMsgs)
      BY DEF Typed, TypeOK, EngineTypeOK
    <3> QED
      BY <2>2, <3>1, <3>2, HeadStays DEF msg
  <2> QED
    BY <2>1, <2>3 DEF Current
<1>2. CASE Accept
  <2>1. /\ receiver # <<>>
        /\ msg.type = "BlkAccepted"
        /\ applied' = Append(applied, [hash |-> msg.accepting_hash,
                                       from |-> Len(trail), before |-> episodes])
        /\ msg' = msg
    BY <1>2 DEF Accept, RecvBlkAccepted, Receives, msg
  <2> DEFINE mk == [hash |-> msg.accepting_hash, from |-> Len(trail), before |-> episodes]
  <2>2. mk \in Marks /\ mk.hash = msg.accepting_hash
    BY <2>1, AcceptedMsg, LenProperties DEF Typed, TypeOK, EngineTypeOK, Marks
  <2>3. applied \in Seq(Marks) /\ applied' = Append(applied, mk)
    BY <2>1 DEF Typed, TypeOK
  <2> HIDE DEF mk
  <2>4. Last(applied') = mk /\ applied' # <<>>
    BY <2>2, <2>3, AppendFacts
  <2> QED
    BY <2>1, <2>2, <2>4 DEF Current
<1>3. CASE Effect
  <2>1. UNCHANGED <<receiver, pc, applied>>
    BY <1>3 DEF Effect, CreateEpisode, ExecuteCommand, Advance
  <2> QED
    BY <2>1 DEF Current, msg
<1>4. CASE NoEffect
  <2>1. CASE RecvBlkReverted
    <3>1. /\ pc = "recv"
          /\ receiver # <<>>
          /\ msg.type = "BlkReverted"
          /\ revert_map[msg.accepting_hash] # None
          /\ UNCHANGED <<receiver, applied>>
      BY <1>4, <2>1 DEF NoEffect, RecvBlkReverted, Receives, auxVars
    <3> QED
      BY <3>1, EntryIsLast DEF Current, msg
  <2>2. CASE RejectCommand \/ SkipPayload
    <3>1. UNCHANGED <<receiver, pc, applied>>
      BY <1>4, <2>2 DEF NoEffect, RejectCommand, SkipPayload, Advance, auxVars
    <3> QED
      BY <3>1 DEF Current, msg
  <2> QED
    BY <1>4, <2>1, <2>2 DEF NoEffect
<1>5. CASE Undo
  <2>1. UNCHANGED <<receiver, pc, applied>>
    BY <1>5 DEF Undo, UndoCommand, UndoCreation, UndoMissing, RevertOne
  <2> QED
    BY <2>1 DEF Current, msg
<1>6. CASE Consumes
  BY <1>6, ConsumesShape DEF Current
<1> QED
  BY <1>1, <1>2, <1>3, <1>4, <1>5, <1>6 DEF Next, EngineProgress, Consumes

(* Each message leads from the chain before it to the chain after it, and
   the last one to the chain of the listener. *)
LEMMA InOrderStep ==
  ASSUME Typed, Current, InOrder, EntriesFollow, Next
  PROVE  InOrder'
<1>0. /\ receiver \in Seq(EngineMsgs)
      /\ views \in Seq(Seq(BlockHashes))
      /\ Len(receiver) \in Nat
      /\ Len(views) = Len(receiver)
      /\ chain \in Seq(BlockHashes)
  BY LenProperties DEF Typed, TypeOK, EngineTypeOK, InOrder, Feed!FeedTypeOK
<1>1. CASE FeedStep
  <2>1. PICK m \in EngineMsgs :
           /\ receiver' = Append(receiver, m)
           /\ Leads(m, chain, chain')
    BY <1>1, FeedShape
  <2>2. /\ views' = Append(views, chain')
        /\ chain' \in Seq(BlockHashes)
        /\ UNCHANGED <<pc, applied>>
    BY <1>1, FeedTyping DEF FeedStep, engineVars, Typed, Feed!FeedTypeOK
  <2>3. /\ Len(receiver') = Len(receiver) + 1
        /\ Len(views') = Len(receiver) + 1
        /\ receiver'[Len(receiver) + 1] = m
        /\ views'[Len(receiver) + 1] = chain'
        /\ \A i \in 1..Len(receiver) : receiver'[i] = receiver[i] /\ views'[i] = views[i]
        /\ receiver' # <<>>
    <3>1. /\ Len(receiver') = Len(receiver) + 1
          /\ receiver'[Len(receiver) + 1] = m
          /\ \A i \in 1..Len(receiver) : receiver'[i] = receiver[i]
          /\ receiver' # <<>>
      BY <1>0, <2>1, AppendFacts
    <3>2. /\ Len(views') = Len(views) + 1
          /\ views'[Len(views) + 1] = chain'
          /\ \A i \in 1..Len(views) : views'[i] = views[i]
      BY <1>0, <2>2, AppendFacts
    <3> QED
      BY <1>0, <3>1, <3>2
  <2>4. EngineChain' = EngineChain
    BY <2>2 DEF EngineChain, Heights
  <2>5. ASSUME NEW i \in 1..Len(receiver)
        PROVE  Leads(receiver'[i], Before(i)', views'[i])
    <3>1. Before(i)' = Before(i)
      <4>1. CASE i = 1
        BY <4>1, <2>4 DEF Before
      <4>2. CASE i # 1
        <5>1. i - 1 \in 1..Len(receiver)
          BY <1>0, <4>2
        <5> QED
          BY <4>2, <5>1, <2>3 DEF Before
      <4> QED
        BY <4>1, <4>2
    <3>2. Leads(receiver[i], Before(i), views[i])
      BY DEF InOrder
    <3> QED
      BY <2>3, <3>1, <3>2
  <2>6. ASSUME NEW i, i = Len(receiver) + 1
        PROVE  Before(i)' = chain
    <3>1. CASE receiver = <<>>
      <4>1. i = 1
        BY <2>6, <3>1, EmptySeq
      <4> QED
        BY <3>1, <4>1, <2>4 DEF Before, InOrder
    <3>2. CASE receiver # <<>>
      <4>1. Len(receiver) \in 1..Len(receiver) /\ i - 1 = Len(receiver) /\ i # 1
        BY <1>0, <2>6, <3>2, EmptySeq
      <4>2. views'[Len(receiver)] = views[Len(receiver)]
        BY <2>3, <4>1
      <4>3. chain = views[Len(receiver)]
        BY <3>2 DEF InOrder
      <4> QED
        BY <4>1, <4>2, <4>3 DEF Before
    <3> QED
      BY <3>1, <3>2
  <2>7. \A i \in 1..Len(receiver') : Leads(receiver'[i], Before(i)', views'[i])
    <3> TAKE i \in 1..Len(receiver')
    <3>1. i \in 1..Len(receiver) \/ i = Len(receiver) + 1
      BY <1>0, <2>3
    <3>2. CASE i \in 1..Len(receiver)
      BY <3>2, <2>5
    <3>3. CASE i = Len(receiver) + 1
      <4>1. Before(i)' = chain
        BY <3>3, <2>6
      <4> QED
        BY <3>3, <4>1, <2>1, <2>3
    <3> QED
      BY <3>1, <3>2, <3>3
  <2>8. \A j \in 1..Len(chain') : blocks'[chain'[j]] # None
    BY <1>1, FeedShape
  <2> QED
    BY <2>3, <2>7, <2>8 DEF InOrder
<1>2. CASE Quiet
  <2>1. /\ UNCHANGED <<receiver, views, feedVars>>
        /\ EngineChain' = EngineChain
    BY <1>2, QuietShape
  <2> QED
    BY <2>1 DEF InOrder, Before, feedVars
<1>3. CASE Consumes
  <2>1. /\ receiver # <<>>
        /\ views # <<>>
        /\ receiver' = Tail(receiver)
        /\ views' = Tail(views)
        /\ UNCHANGED feedVars
        /\ EngineChain' = views[1]
    BY <1>3, ConsumesShape
  <2>2. /\ Len(receiver) \in Nat \ {0}
        /\ Len(receiver') = Len(receiver) - 1
        /\ Len(views') = Len(receiver) - 1
        /\ \A i \in 1..(Len(receiver) - 1) :
              receiver'[i] = receiver[i + 1] /\ views'[i] = views[i + 1]
        /\ receiver' = <<>> <=> Len(receiver) = 1
    BY <1>0, <2>1, TailFacts
  <2>3. \A i \in 1..Len(receiver') : Leads(receiver'[i], Before(i)', views'[i])
    <3> TAKE i \in 1..Len(receiver')
    <3>1. i + 1 \in 1..Len(receiver) /\ i \in 1..(Len(receiver) - 1)
      BY <2>2
    <3>2. Leads(receiver[i + 1], Before(i + 1), views[i + 1])
      BY <3>1 DEF InOrder
    <3>3. Before(i)' = Before(i + 1)
      <4>1. CASE i = 1
        BY <4>1, <2>1 DEF Before
      <4>2. CASE i # 1
        <5>1. i - 1 \in 1..(Len(receiver) - 1) /\ (i - 1) + 1 = i /\ (i + 1) - 1 = i
              /\ i + 1 # 1
          BY <3>1, <4>2, <2>2
        <5>2. views'[i - 1] = views[i]
          BY <5>1, <2>2
        <5> QED
          BY <4>2, <5>1, <5>2 DEF Before
      <4> QED
        BY <4>1, <4>2
    <3> QED
      BY <2>2, <3>1, <3>2, <3>3
  <2>4. chain = IF receiver' = <<>> THEN EngineChain' ELSE views'[Len(receiver')]
    <3>1. chain = views[Len(receiver)]
      BY <2>1 DEF InOrder
    <3>2. CASE Len(receiver) = 1
      BY <2>1, <2>2, <3>1, <3>2
    <3>3. CASE Len(receiver) # 1
      <4>1. Len(receiver) - 1 \in 1..(Len(receiver) - 1)
        BY <2>2, <3>3
      <4>2. views'[Len(receiver) - 1] = views[(Len(receiver) - 1) + 1]
        BY <2>2, <4>1
      <4>3. (Len(receiver) - 1) + 1 = Len(receiver)
        BY <2>2
      <4> QED
        BY <2>2, <3>1, <3>3, <4>2, <4>3
    <3> QED
      BY <3>2, <3>3
  <2> QED
    BY <2>1, <2>2, <2>3, <2>4 DEF InOrder, feedVars
<1> QED
  BY <1>1, <1>2, <1>3 DEF Next, EngineProgress, Consumes, Quiet

(* Exit is the last message, and nothing is left when it was received. *)
LEMMA ExitLastStep ==
  ASSUME Typed, Current, InOrder, EntriesFollow, ExitLast, Next
  PROVE  ExitLast'
<1>0. receiver \in Seq(EngineMsgs) /\ Len(receiver) \in Nat
  BY LenProperties DEF Typed, TypeOK, EngineTypeOK
<1>1. CASE FeedStep
  <2>1. PICK m \in EngineMsgs :
           receiver' = Append(receiver, m) /\ (m.type = "Exit" => closed')
    BY <1>1, FeedShape
  <2>2. ~ closed
    BY <1>1, FeedShape
  <2>3. pc' # "stopped"
    BY <1>1, <2>2 DEF FeedStep, engineVars, ExitLast
  <2>4. \A i \in 1..Len(receiver) : receiver[i].type # "Exit"
    BY <2>2 DEF ExitLast
  <2>5. ASSUME NEW i \in 1..Len(receiver'), receiver'[i].type = "Exit"
        PROVE  closed' /\ i = Len(receiver')
    <3>1. /\ Len(receiver') = Len(receiver) + 1
          /\ receiver'[Len(receiver) + 1] = m
          /\ \A k \in 1..Len(receiver) : receiver'[k] = receiver[k]
      BY <1>0, <2>1, AppendFacts
    <3>2. i = Len(receiver) + 1
      <4>1. i \in 1..Len(receiver) => receiver'[i] = receiver[i]
        BY <3>1
      <4> QED
        BY <1>0, <2>4, <2>5, <3>1, <4>1
    <3>3. m.type = "Exit"
      BY <2>5, <3>1, <3>2
    <3> QED
      BY <2>1, <3>1, <3>2, <3>3
  <2> QED
    BY <2>3, <2>5 DEF ExitLast
<1>2. CASE Quiet
  <2>1. UNCHANGED <<receiver, closed>> /\ pc' # "stopped"
    BY <1>2, QuietShape DEF feedVars
  <2> QED
    BY <2>1 DEF ExitLast
<1>3. CASE Consumes
  <2>1. /\ receiver # <<>>
        /\ receiver' = Tail(receiver)
        /\ pc' = "recv" \/ (pc' = "stopped" /\ receiver[1].type = "Exit")
    BY <1>3, ConsumesShape
  <2>2. closed' = closed
    BY <1>3, ConsumesShape DEF feedVars
  <2>3. /\ Len(receiver) \in Nat \ {0}
        /\ Len(receiver') = Len(receiver) - 1
        /\ \A i \in 1..(Len(receiver) - 1) : receiver'[i] = receiver[i + 1]
        /\ receiver' = <<>> <=> Len(receiver) = 1
    BY <1>0, <2>1, TailFacts
  <2>4. ASSUME NEW i \in 1..Len(receiver'), receiver'[i].type = "Exit"
        PROVE  closed' /\ i = Len(receiver')
    <3>1. /\ i \in 1..(Len(receiver) - 1)
          /\ i + 1 \in 1..Len(receiver)
      BY <2>3
    <3>2. receiver[i + 1].type = "Exit"
      BY <2>3, <2>4, <3>1
    <3>3. closed /\ i + 1 = Len(receiver)
      BY <3>1, <3>2 DEF ExitLast
    <3> QED
      BY <2>2, <2>3, <3>1, <3>3
  <2>5. ASSUME pc' = "stopped"
        PROVE  closed' /\ receiver' = <<>>
    <3>1. receiver[1].type = "Exit" /\ 1 \in 1..Len(receiver)
      BY <2>1, <2>3, <2>5
    <3>2. closed /\ 1 = Len(receiver)
      BY <3>1 DEF ExitLast
    <3> QED
      BY <2>2, <2>3, <3>2
  <2> QED
    BY <2>4, <2>5 DEF ExitLast
<1> QED
  BY <1>1, <1>2, <1>3 DEF Next, EngineProgress, Consumes, Quiet

-----------------------------------------------------------------------------
(* The episodes, what undoes their changes and what the handlers know *)

(* A rejected command leaves the map of episodes as it was. *)
LEMMA RejectKeeps ==
  ASSUME Typed, RejectCommand
  PROVE  episodes' = episodes
<1>1. /\ Pending
      /\ receiver # <<>>
      /\ msg.type = "BlkAccepted"
      /\ IsCommand(payload)
      /\ episodes[payload.id] # None
      /\ ~ Outcome.ok
  BY DEF RejectCommand, Runs, Pending, Live, Typed, PcInv
<1>2. /\ payload.id \in EpisodeIds
      /\ payload.cmd \in Commands
      /\ Authorization(payload) \in Auths
      /\ metadata \in PayloadMetadata
  BY <1>1, PayloadTyping DEF Typed
<1>3. episodes[payload.id] \in EpisodeWrappers /\ episodes \in Episodes
  BY <1>1, <1>2 DEF Typed, TypeOK, EngineTypeOK, Episodes
<1>4. Outcome.state = episodes[payload.id].episode
  BY <1>1, <1>2, <1>3, RejectionContract DEF Outcome, EpisodeWrappers
<1>5. episodes' = [episodes EXCEPT ![payload.id] =
                     [episode |-> Outcome.state,
                      rollback_stack |-> episodes[payload.id].rollback_stack]]
  BY <1>2, <1>3 DEF RejectCommand, Episodes
<1>6. [episode |-> Outcome.state,
       rollback_stack |-> episodes[payload.id].rollback_stack] = episodes[payload.id]
  BY <1>3, <1>4 DEF EpisodeWrappers
<1> QED
  BY <1>2, <1>3, <1>5, <1>6 DEF Episodes

(* A creation or a command changes one episode, in a way that Undone undoes *)
LEMMA EffectUndone ==
  ASSUME Typed, CreateEpisode \/ ExecuteCommand
  PROVE  /\ payload.id \in EpisodeIds
         /\ episodes'[payload.id] # None
         /\ Undone(episodes'[payload.id]) = episodes[payload.id]
         /\ \A id \in EpisodeIds : id # payload.id => episodes'[id] = episodes[id]
         /\ observed' = [observed EXCEPT ![payload.id] = episodes'[payload.id].episode]
<1>0. episodes \in Episodes /\ observed \in [EpisodeIds -> EpisodeStates \cup {None}]
  BY DEF Typed, TypeOK, EngineTypeOK
<1>1. CASE CreateEpisode
  <2>1. /\ Pending
        /\ receiver # <<>>
        /\ msg.type = "BlkAccepted"
        /\ payload.kind = "NewEpisode"
        /\ episodes[payload.id] = None
    BY <1>1 DEF CreateEpisode, Pending, Typed, PcInv, Live
  <2>2. /\ payload.id \in EpisodeIds
        /\ payload.participants \in Participants
        /\ metadata \in PayloadMetadata
    BY <2>1, PayloadTyping DEF Typed
  <2> DEFINE s == Initialize(payload.participants, metadata)
             w == [episode |-> s, rollback_stack |-> <<>>]
  <2>3. /\ episodes' = [episodes EXCEPT ![payload.id] = w]
        /\ observed' = [observed EXCEPT ![payload.id] = s]
    BY <1>1 DEF CreateEpisode
  <2>4. w \in EpisodeWrappers /\ w.rollback_stack = <<>> /\ w.episode = s
    BY <2>2, EpisodeTyping DEF EpisodeWrappers
  <2> HIDE DEF s, w
  <2>5. /\ episodes'[payload.id] = w
        /\ \A id \in EpisodeIds : id # payload.id => episodes'[id] = episodes[id]
    BY <1>0, <2>2, <2>3 DEF Episodes
  <2>6. w # None
    BY <2>4, NoneAssumption
  <2>7. Undone(w) = None
    BY <2>4 DEF Undone
  <2> QED
    BY <2>1, <2>2, <2>3, <2>4, <2>5, <2>6, <2>7
<1>2. CASE ExecuteCommand
  <2>1. /\ Pending
        /\ receiver # <<>>
        /\ msg.type = "BlkAccepted"
        /\ IsCommand(payload)
        /\ episodes[payload.id] # None
        /\ Outcome.ok
    BY <1>2 DEF ExecuteCommand, Runs, Pending, Live, Typed, PcInv
  <2>2. /\ payload.id \in EpisodeIds
        /\ payload.cmd \in Commands
        /\ Authorization(payload) \in Auths
        /\ metadata \in PayloadMetadata
    BY <2>1, PayloadTyping DEF Typed
  <2> DEFINE v == episodes[payload.id]
             w == [episode |-> Outcome.state,
                   rollback_stack |-> Append(v.rollback_stack, Outcome.undo)]
  <2>3. /\ v \in EpisodeWrappers
        /\ v.episode \in EpisodeStates
        /\ v.rollback_stack \in Seq(Undos)
        /\ v = [episode |-> v.episode, rollback_stack |-> v.rollback_stack]
    BY <1>0, <2>1, <2>2 DEF Episodes, EpisodeWrappers
  <2>4. Outcome.undo \in Undos /\ Outcome.state \in EpisodeStates
    BY <2>2, <2>3, EpisodeTyping DEF Outcome
  <2>5. Rollback(Outcome.state, Outcome.undo) = [ok |-> TRUE, state |-> v.episode]
    BY <2>1, <2>2, <2>3, RollbackContract DEF Outcome
  <2>6. /\ episodes' = [episodes EXCEPT ![payload.id] = w]
        /\ observed' = [observed EXCEPT ![payload.id] = Outcome.state]
    BY <1>0, <1>2, <2>2 DEF ExecuteCommand, Episodes
  <2>7. /\ w \in EpisodeWrappers
        /\ w.episode = Outcome.state
        /\ w.rollback_stack # <<>>
        /\ Last(w.rollback_stack) = Outcome.undo
        /\ Front(w.rollback_stack) = v.rollback_stack
    BY <2>3, <2>4, AppendFacts DEF EpisodeWrappers
  <2> HIDE DEF v, w
  <2>8. /\ episodes'[payload.id] = w
        /\ \A id \in EpisodeIds : id # payload.id => episodes'[id] = episodes[id]
    BY <1>0, <2>2, <2>6 DEF Episodes
  <2>9. w # None
    BY <2>7, NoneAssumption
  <2>10. Undone(w) = v
    BY <2>3, <2>5, <2>7, <2>9 DEF Undone
  <2> QED
    BY <2>2, <2>6, <2>7, <2>8, <2>9, <2>10 DEF v
<1> QED
  BY <1>1, <1>2

(* A reversion undoes the last change of its target and of no other *)
LEMMA UndoUndone ==
  ASSUME Typed, Undo
  PROVE  /\ target \in EpisodeIds
         /\ \A id \in EpisodeIds :
               episodes'[id] = IF id = target THEN Undone(episodes[id]) ELSE episodes[id]
         /\ \A id \in EpisodeIds :
               episodes'[id] # None =>
                  IF id = target THEN observed'[id] = episodes'[id].episode
                                 ELSE observed'[id] = observed[id]
<1>0. /\ episodes \in Episodes
      /\ observed \in [EpisodeIds -> EpisodeStates \cup {None}]
      /\ target \in EpisodeIds
  <2>1. revert_vec # <<>>
    BY DEF Undo, UndoCommand, UndoCreation, UndoMissing, Reverting
  <2> QED
    BY <2>1, FrontType DEF Typed, TypeOK, EngineTypeOK, target
<1>1. CASE UndoCommand
  <2> DEFINE w == episodes[target]
             s == Rollback(w.episode, Last(w.rollback_stack)).state
             v == [episode |-> s, rollback_stack |-> Front(w.rollback_stack)]
  <2>1. /\ w # None
        /\ w.rollback_stack # <<>>
        /\ episodes' = [episodes EXCEPT ![target] = v]
        /\ observed' = [observed EXCEPT ![target] = s]
    BY <1>1 DEF UndoCommand, Live
  <2>2. Undone(w) = v /\ v.episode = s
    BY <2>1 DEF Undone
  <2> HIDE DEF s, v
  <2> QED
    BY <1>0, <2>1, <2>2 DEF Episodes
<1>2. CASE UndoCreation
  <2>1. /\ episodes[target].rollback_stack = <<>>
        /\ episodes' = [episodes EXCEPT ![target] = None]
        /\ observed' = [observed EXCEPT ![target] = episodes[target].episode]
    BY <1>2 DEF UndoCreation
  <2>2. Undone(episodes[target]) = None
    BY <2>1 DEF Undone
  <2> QED
    BY <1>0, <2>1, <2>2 DEF Episodes
<1>3. CASE UndoMissing
  <2>1. /\ episodes[target] = None
        /\ UNCHANGED <<episodes, observed>>
    BY <1>3 DEF UndoMissing, Live
  <2>2. Undone(episodes[target]) = None
    BY <2>1 DEF Undone
  <2> QED
    BY <1>0, <2>1, <2>2
<1> QED
  BY <1>0, <1>1, <1>2, <1>3 DEF Undo

(* Every change of an episode is followed by a call of its handlers. *)
LEMMA HandlersStep ==
  ASSUME Typed, HandlersInformed, Next
  PROVE  HandlersInformed'
<1>0. /\ episodes \in Episodes
      /\ observed \in [EpisodeIds -> EpisodeStates \cup {None}]
  BY DEF Typed, TypeOK, EngineTypeOK
<1>1. CASE UNCHANGED <<episodes, observed>>
  BY <1>1 DEF HandlersInformed, Live
<1>2. CASE Accept
  <2>1. /\ \A id \in EpisodeIds : episodes'[id] # None => episodes'[id] = episodes[id]
        /\ observed' = observed
    BY <1>0, <1>2 DEF Accept, RecvBlkAccepted, filter_old_episodes, Without, Episodes
  <2> QED
    BY <2>1 DEF HandlersInformed, Live
<1>3. CASE Effect
  BY <1>0, <1>3, EffectUndone DEF Effect, HandlersInformed, Live
<1>4. CASE RejectCommand
  <2>1. episodes' = episodes /\ observed' = observed
    BY <1>4, RejectKeeps DEF RejectCommand
  <2> QED
    BY <1>1, <2>1
<1>5. CASE Undo
  <2> SUFFICES ASSUME NEW id \in EpisodeIds, episodes'[id] # None
               PROVE  observed'[id] = episodes'[id].episode
    BY DEF HandlersInformed, Live
  <2>1. IF id = target THEN observed'[id] = episodes'[id].episode
        ELSE observed'[id] = observed[id] /\ episodes'[id] = episodes[id]
    BY <1>5, UndoUndone
  <2> QED
    BY <2>1 DEF HandlersInformed, Live
<1>6. Next => \/ Accept \/ Effect \/ RejectCommand \/ Undo
              \/ UNCHANGED <<episodes, observed>>
  BY DEF Next, EngineProgress, FeedStep, NoEffect, SkipPayload, RecvBlkReverted, Accepted,
         FinishAccepted, Reverted, FinishReverted, Discard, RecvUnknownReverted, RecvExit,
         engineVars
<1> QED
  BY <1>1, <1>2, <1>3, <1>4, <1>5, <1>6

-----------------------------------------------------------------------------
(* The entries of revert_map and the applied blocks *)

(* What the beginning of a block does to the variables of the invariant *)
LEMMA AcceptShape ==
  ASSUME Typed, InOrder, Accept
  PROVE  /\ pc = "recv" /\ pc' = "accept"
         /\ revert_vec' = <<>>
         /\ UNCHANGED <<revert_map, trail, views, receiver>>
         /\ msg.type = "BlkAccepted" /\ receiver # <<>>
         /\ Len(trail) \in Nat
         /\ ~ On(msg.accepting_hash, Heights)
         /\ \E mk \in Marks :
               /\ mk.hash = msg.accepting_hash
               /\ mk.from = Len(trail)
               /\ mk.before = episodes
               /\ applied' = Append(applied, mk)
<1>1. /\ pc = "recv" /\ pc' = "accept"
      /\ revert_vec' = <<>>
      /\ UNCHANGED <<revert_map, trail, views, receiver>>
      /\ msg.type = "BlkAccepted" /\ receiver # <<>>
      /\ applied' = Append(applied, [hash |-> msg.accepting_hash,
                                     from |-> Len(trail), before |-> episodes])
  BY DEF Accept, RecvBlkAccepted, Receives
<1>2. Len(trail) \in Nat /\ episodes \in Episodes
  BY LenProperties DEF Typed, TypeOK, EngineTypeOK
<1>3. msg.accepting_hash \in BlockHashes
  BY <1>1, AcceptedMsg DEF Typed
<1> DEFINE mk == [hash |-> msg.accepting_hash, from |-> Len(trail), before |-> episodes]
<1>4. /\ mk \in Marks
      /\ mk.hash = msg.accepting_hash
      /\ mk.from = Len(trail)
      /\ mk.before = episodes
      /\ applied' = Append(applied, mk)
  BY <1>1, <1>2, <1>3 DEF Marks
<1>5. ~ On(msg.accepting_hash, Heights)
  BY <1>1, HeadLeads DEF Leads, EngineChain
<1> HIDE DEF mk
<1> QED
  BY <1>1, <1>2, <1>4, <1>5

(* The entries of revert_map are those of the applied blocks. *)
LEMMA EntriesStep ==
  ASSUME Typed, Current, InOrder, EntriesFollow, Next
  PROVE  EntriesFollow'
<1>0. /\ applied \in Seq(Marks)
      /\ Len(applied) \in Nat
      /\ revert_map \in [BlockHashes -> Seq(EpisodeIds) \cup {None}]
      /\ \A k \in 1..Len(applied) : applied[k].hash = Heights[k]
  BY LenProperties, HeightsType DEF Typed, TypeOK, EngineTypeOK
<1>1. CASE UNCHANGED <<pc, applied, revert_map>>
  BY <1>1 DEF EntriesFollow, InProgress
<1>2. CASE Accept
  <2>1. PICK mk \in Marks : mk.hash = msg.accepting_hash /\ applied' = Append(applied, mk)
    BY <1>2, AcceptShape
  <2>2. /\ Len(applied') = Len(applied) + 1
        /\ \A k \in 1..Len(applied) : applied'[k] = applied[k]
        /\ applied'[Len(applied) + 1] = mk
    BY <1>0, <2>1, AppendFacts
  <2>3. /\ pc = "recv" /\ pc' = "accept"
        /\ revert_map' = revert_map
        /\ ~ On(msg.accepting_hash, Heights)
    BY <1>2, AcceptShape
  <2>4. \A k \in 1..Len(applied) : applied[k].hash # mk.hash
    BY <1>0, <2>1, <2>3, HeightsType DEF On, Typed
  <2>5. \A k \in 1..(Len(applied) + 1) : k \in 1..Len(applied) \/ k = Len(applied) + 1
    BY <1>0
  <2>6. \A k : InProgress(k)' <=> k = Len(applied) + 1
    BY <2>2, <2>3 DEF InProgress
  <2>7. \A k : ~ InProgress(k)
    BY <2>3 DEF InProgress
  <2>8. \A h \in BlockHashes :
           revert_map'[h] # None <=>
              \E k \in 1..Len(applied') : ~ InProgress(k)' /\ applied'[k].hash = h
    <3> TAKE h \in BlockHashes
    <3>1. (\E k \in 1..Len(applied') : ~ InProgress(k)' /\ applied'[k].hash = h)
             <=> \E k \in 1..Len(applied) : applied[k].hash = h
      BY <1>0, <2>2, <2>5, <2>6
    <3> QED
      BY <2>3, <2>7, <3>1 DEF EntriesFollow
  <2>9. \A j, k \in 1..Len(applied') : applied'[j].hash = applied'[k].hash => j = k
    BY <2>2, <2>4, <2>5 DEF EntriesFollow
  <2> QED
    BY <2>8, <2>9 DEF EntriesFollow
<1>3. CASE RecvBlkReverted /\ UNCHANGED auxVars
  <2>1. /\ pc = "recv" /\ pc' = "revert"
        /\ receiver # <<>>
        /\ msg.type = "BlkReverted"
        /\ revert_map[msg.accepting_hash] # None
        /\ revert_map' = [revert_map EXCEPT ![msg.accepting_hash] = None]
        /\ applied' = applied
    BY <1>3 DEF RecvBlkReverted, Receives, auxVars
  <2>2. /\ applied # <<>>
        /\ applied[Len(applied)].hash = msg.accepting_hash
        /\ msg.accepting_hash \in BlockHashes
    BY <2>1, EntryIsLast, RevertedMsg DEF Last, Typed
  <2>3. Len(applied) \in 1..Len(applied)
    BY <1>0, <2>2, EmptySeq
  <2>4. \A k : (InProgress(k)' <=> k = Len(applied)) /\ ~ InProgress(k)
    BY <2>1 DEF InProgress
  <2>5. \A k \in 1..Len(applied) :
           applied[k].hash = msg.accepting_hash <=> k = Len(applied)
    BY <2>2, <2>3 DEF EntriesFollow
  <2>6. \A h \in BlockHashes :
           revert_map'[h] # None <=>
              \E k \in 1..Len(applied) : k # Len(applied) /\ applied[k].hash = h
    BY <1>0, <2>1, <2>2, <2>4, <2>5 DEF EntriesFollow
  <2> QED
    BY <2>1, <2>4, <2>6 DEF EntriesFollow
<1>4. CASE Accepted
  <2>1. /\ pc = "accept" /\ pc' = "recv"
        /\ receiver # <<>>
        /\ msg.type = "BlkAccepted"
        /\ revert_map' = [revert_map EXCEPT ![msg.accepting_hash] = revert_vec]
        /\ applied' = applied
        /\ applied # <<>>
        /\ applied[Len(applied)].hash = msg.accepting_hash
    BY <1>4 DEF Accepted, FinishAccepted, Current, Typed, PcInv, Last
  <2>2. /\ revert_vec # None
        /\ msg.accepting_hash \in BlockHashes
        /\ Len(applied) \in 1..Len(applied)
    BY <1>0, <2>1, AcceptedMsg, EmptySeq, NoneAssumption DEF Typed, TypeOK, EngineTypeOK
  <2>3. \A k : (InProgress(k) <=> k = Len(applied)) /\ ~ InProgress(k)'
    BY <2>1 DEF InProgress
  <2>4. \A h \in BlockHashes :
           revert_map'[h] # None <=> \E k \in 1..Len(applied) : applied[k].hash = h
    BY <1>0, <2>1, <2>2, <2>3 DEF EntriesFollow
  <2> QED
    BY <2>1, <2>3, <2>4 DEF EntriesFollow
<1>5. CASE Reverted
  <2>1. /\ pc = "revert" /\ pc' = "recv"
        /\ revert_map' = revert_map
        /\ applied' = Front(applied)
        /\ applied # <<>>
    BY <1>5 DEF Reverted, FinishReverted, Current
  <2>2. /\ Len(applied) \in Nat \ {0}
        /\ Len(applied') = Len(applied) - 1
        /\ \A k \in 1..(Len(applied) - 1) : applied'[k] = applied[k]
    BY <1>0, <2>1, FrontType
  <2>3. \A k : (InProgress(k) <=> k = Len(applied)) /\ ~ InProgress(k)'
    BY <2>1 DEF InProgress
  <2>4. \A k : k \in 1..(Len(applied) - 1) <=> k \in 1..Len(applied) /\ k # Len(applied)
    BY <2>2
  <2>5. \A h \in BlockHashes :
           revert_map'[h] # None <=>
              \E k \in 1..(Len(applied) - 1) : applied'[k].hash = h
    BY <2>1, <2>2, <2>3, <2>4 DEF EntriesFollow
  <2>6. \A j, k \in 1..(Len(applied) - 1) : applied'[j].hash = applied'[k].hash => j = k
    BY <2>2, <2>4 DEF EntriesFollow
  <2> QED
    BY <2>2, <2>3, <2>5, <2>6 DEF EntriesFollow
<1>6. CASE Discard
  <2>1. /\ pc = "recv" /\ pc' \in {"recv", "stopped"}
        /\ UNCHANGED <<revert_map, applied>>
    BY <1>6 DEF Discard, RecvUnknownReverted, RecvExit, Receives, engineVars
  <2>2. \A k : ~ InProgress(k) /\ ~ InProgress(k)'
    BY <2>1 DEF InProgress
  <2> QED
    BY <2>1, <2>2 DEF EntriesFollow
<1>7. CASE FeedStep
  BY <1>1, <1>7 DEF FeedStep, engineVars
<1>8. CASE Effect
  BY <1>1, <1>8 DEF Effect, CreateEpisode, ExecuteCommand, Advance
<1>9. CASE NoEffect
  <2>1. RejectCommand \/ SkipPayload => UNCHANGED <<pc, applied, revert_map>>
    BY <1>9 DEF NoEffect, RejectCommand, SkipPayload, Advance, auxVars
  <2> QED
    BY <1>1, <1>3, <1>9, <2>1 DEF NoEffect, auxVars
<1>10. CASE Undo
  BY <1>1, <1>10 DEF Undo, UndoCommand, UndoCreation, UndoMissing, RevertOne
<1> QED
  BY <1>2, <1>4, <1>5, <1>6, <1>7, <1>8, <1>9, <1>10 DEF Next, EngineProgress

-----------------------------------------------------------------------------
(* The segments of the trail *)

(* What Typed and Segments say of the marks and of the trail *)
LEMMA MarksTyped ==
  ASSUME Typed, Segments
  PROVE  /\ applied \in Seq(Marks) /\ trail \in Seq(Effects)
         /\ Len(applied) \in Nat /\ Len(trail) \in Nat
         /\ \A k \in 1..Len(applied) :
               /\ applied[k] \in Marks
               /\ applied[k].from \in Nat
               /\ applied[k].from <= Until(k)
               /\ Until(k) \in Nat
               /\ Until(k) <= Len(trail)
         /\ applied # <<>> => Len(applied) \in 1..Len(applied)
<1>1. /\ applied \in Seq(Marks) /\ trail \in Seq(Effects)
      /\ Len(applied) \in Nat /\ Len(trail) \in Nat
      /\ applied # <<>> => Len(applied) \in 1..Len(applied)
  BY LenProperties, EmptySeq DEF Typed, TypeOK
<1>2. \A k \in 1..Len(applied) : applied[k] \in Marks /\ applied[k].from \in Nat
  <2>1. \A k \in 1..Len(applied) : applied[k] \in Marks
    BY <1>1
  <2> QED
    BY <2>1 DEF Marks
<1>3. ASSUME NEW k \in 1..Len(applied)
      PROVE  /\ applied[k].from <= Until(k)
             /\ Until(k) \in Nat
             /\ Until(k) <= Len(trail)
  <2>1. CASE k = Len(applied)
    BY <1>1, <2>1 DEF Until, Segments
  <2>2. CASE k # Len(applied)
    <3>1. k + 1 \in 1..Len(applied) /\ k <= k + 1
      BY <1>1, <2>2
    <3> QED
      BY <1>2, <2>2, <3>1 DEF Until, Segments
  <2> QED
    BY <2>1, <2>2
<1> QED
  BY <1>1, <1>2, <1>3

(* A reversion undoes the last effect of the trail *)
LEMMA UndoPops ==
  ASSUME Typed, Current, Segments, Undo
  PROVE  /\ trail # <<>>
         /\ target = Last(trail).id
         /\ pc = "revert"
         /\ \A k \in 1..Len(applied) : applied[k].from <= Len(trail) - 1
         /\ revert_vec # <<>>
         /\ revert_vec' = Front(revert_vec)
         /\ UNCHANGED <<pc, applied, revert_map>>
<1>1. /\ pc = "revert"
      /\ revert_vec # <<>>
      /\ revert_vec' = Front(revert_vec)
      /\ UNCHANGED <<pc, applied, revert_map>>
  BY DEF Undo, UndoCommand, UndoCreation, UndoMissing, Reverting, RevertOne
<1>2. applied # <<>>
  BY <1>1 DEF Current
<1> DEFINE n == Len(applied)
           v == Len(revert_vec)
           f == applied[n].from
<1>3. /\ n \in 1..n
      /\ Reversions(n) = revert_vec
      /\ Until(n) = Len(trail)
  BY <1>1, <1>2, MarksTyped DEF Reversions, InProgress, Until
<1>4. /\ v \in Nat \ {0}
      /\ Last(revert_vec) = revert_vec[v]
  BY <1>1, EmptySeq, LenProperties DEF Typed, TypeOK, EngineTypeOK, Last
<1>5. v = Len(trail) - f
  BY <1>3 DEF Segments
<1>6. \A i \in 1..v : revert_vec[i] = trail[f + i].id
  BY <1>3 DEF Segments
<1>7. f \in Nat /\ Len(trail) \in Nat
  BY <1>3, MarksTyped
<1>8. f + v = Len(trail) /\ v \in 1..v /\ f <= Len(trail) - 1 /\ Len(trail) # 0
  BY <1>4, <1>5, <1>7
<1>9. revert_vec[v] = trail[Len(trail)].id
  BY <1>6, <1>8
<1>10. \A k \in 1..Len(applied) : applied[k].from <= Len(trail) - 1
  <2> TAKE k \in 1..Len(applied)
  <2>1. applied[k].from <= f
    BY <1>3, MarksTyped DEF Segments
  <2> QED
    BY <1>7, <1>8, <2>1, MarksTyped
<1>11. trail # <<>>
  BY <1>8, EmptySeq, MarksTyped
<1> QED
  BY <1>1, <1>4, <1>9, <1>10, <1>11 DEF target, Last

(* Nothing that Segments speaks of changes *)
LEMMA SegmentsStutter ==
  ASSUME Segments, UNCHANGED <<pc, applied, revert_map, revert_vec, trail>>
  PROVE  Segments'
BY DEF Segments, Until, Reversions, InProgress

(* A block that begins has an empty segment at the end of the trail. *)
LEMMA SegmentsAccept ==
  ASSUME Typed, InOrder, Segments, Accept
  PROVE  Segments'
<1>0. /\ applied \in Seq(Marks)
      /\ Len(applied) \in Nat /\ Len(trail) \in Nat
      /\ \A k \in 1..Len(applied) : applied[k].from \in Nat
  BY MarksTyped
<1>1. PICK mk \in Marks : mk.from = Len(trail) /\ applied' = Append(applied, mk)
  BY AcceptShape
<1>2. /\ pc = "recv" /\ pc' = "accept"
      /\ revert_vec' = <<>>
      /\ UNCHANGED <<revert_map, trail>>
  BY AcceptShape
<1>3. /\ Len(applied') = Len(applied) + 1
      /\ \A k \in 1..Len(applied) : applied'[k] = applied[k]
      /\ applied'[Len(applied) + 1] = mk
  BY <1>0, <1>1, AppendFacts
<1>4. \A k \in 1..Len(applied') : k \in 1..Len(applied) \/ k = Len(applied) + 1
  BY <1>0, <1>3
<1>5. \A k \in 1..Len(applied') : applied'[k].from <= Len(trail')
  BY <1>0, <1>1, <1>2, <1>3, <1>4 DEF Segments
<1>6. \A j, k \in 1..Len(applied') : j <= k => applied'[j].from <= applied'[k].from
  <2> TAKE j, k \in 1..Len(applied')
  <2> HAVE j <= k
  <2>1. CASE k = Len(applied) + 1
    BY <1>1, <1>2, <1>3, <1>5, <2>1
  <2>2. CASE k \in 1..Len(applied)
    <3>1. j \in 1..Len(applied)
      BY <1>0, <2>2
    <3> QED
      BY <1>3, <2>2, <3>1 DEF Segments
  <2> QED
    BY <1>4, <2>1, <2>2
<1>7. ASSUME NEW k \in 1..Len(applied)
      PROVE  Reversions(k)' = Reversions(k) /\ Until(k)' = Until(k)
  <2>1. k # Len(applied) + 1
    BY <1>0
  <2>2. Reversions(k)' = Reversions(k)
    BY <1>2, <1>3, <2>1 DEF Reversions, InProgress
  <2>3. Until(k)' = Until(k)
    <3>1. CASE k = Len(applied)
      BY <1>1, <1>2, <1>3, <2>1, <3>1 DEF Until
    <3>2. CASE k # Len(applied)
      <4>1. k + 1 \in 1..Len(applied)
        BY <1>0, <3>2
      <4> QED
        BY <1>3, <2>1, <3>2, <4>1 DEF Until
    <3> QED
      BY <3>1, <3>2
  <2> QED
    BY <2>2, <2>3
<1>8. ASSUME NEW k, k = Len(applied) + 1
      PROVE  Reversions(k)' = <<>> /\ Until(k)' = Len(trail)
  BY <1>2, <1>3, <1>8 DEF Reversions, InProgress, Until
<1>9. \A k \in 1..Len(applied') :
         /\ Reversions(k)' \in Seq(EpisodeIds)
         /\ Len(Reversions(k)') = Until(k)' - applied'[k].from
         /\ \A i \in 1..Len(Reversions(k)') :
               Reversions(k)'[i] = trail'[applied'[k].from + i].id
  <2> TAKE k \in 1..Len(applied')
  <2>1. CASE k \in 1..Len(applied)
    BY <1>2, <1>3, <1>7, <2>1 DEF Segments
  <2>2. CASE k = Len(applied) + 1
    <3>1. Reversions(k)' = <<>> /\ Until(k)' = Len(trail) /\ applied'[k].from = Len(trail)
      BY <1>1, <1>3, <1>8, <2>2
    <3>2. Len(trail) - Len(trail) = 0
      BY <1>0
    <3> QED
      BY <3>1, <3>2, EmptySeq
  <2> QED
    BY <1>4, <2>1, <2>2
<1> QED
  BY <1>5, <1>6, <1>9 DEF Segments

(* An effect extends the segment of the block being executed. *)
LEMMA SegmentsEffect ==
  ASSUME Typed, Current, Segments, Effect
  PROVE  Segments'
<1>0. /\ applied \in Seq(Marks) /\ trail \in Seq(Effects)
      /\ Len(applied) \in Nat /\ Len(trail) \in Nat
      /\ \A k \in 1..Len(applied) : /\ applied[k].from \in Nat
                                    /\ Until(k) \in Nat /\ Until(k) <= Len(trail)
  BY MarksTyped
<1> DEFINE e == [id |-> payload.id, before |-> episodes]
<1>1. /\ pc = "accept"
      /\ revert_vec' = Append(revert_vec, payload.id)
      /\ trail' = Append(trail, e)
      /\ UNCHANGED <<pc, applied, revert_map>>
  BY DEF Effect, CreateEpisode, ExecuteCommand, Runs, Pending, Advance
<1>2. /\ e \in Effects
      /\ e.id = payload.id
      /\ payload.id \in EpisodeIds
      /\ revert_vec \in Seq(EpisodeIds)
  BY EffectUndone DEF Effect, Effects, Typed, TypeOK, EngineTypeOK
<1> HIDE DEF e
<1>3. /\ Len(trail') = Len(trail) + 1
      /\ \A i \in 1..Len(trail) : trail'[i] = trail[i]
      /\ trail'[Len(trail) + 1] = e
  BY <1>0, <1>1, <1>2, AppendFacts
<1>4. /\ revert_vec' \in Seq(EpisodeIds)
      /\ Len(revert_vec') = Len(revert_vec) + 1
      /\ Len(revert_vec) \in Nat
      /\ \A i \in 1..Len(revert_vec) : revert_vec'[i] = revert_vec[i]
      /\ revert_vec'[Len(revert_vec) + 1] = payload.id
  BY <1>1, <1>2, AppendFacts
<1>5. \A k \in 1..Len(applied) : applied[k].from <= Len(trail')
  BY <1>0, <1>3 DEF Segments
<1>6. \A k \in 1..Len(applied) :
         /\ Reversions(k)' \in Seq(EpisodeIds)
         /\ Len(Reversions(k)') = Until(k)' - applied[k].from
         /\ \A i \in 1..Len(Reversions(k)') :
               Reversions(k)'[i] = trail'[applied[k].from + i].id
  <2> TAKE k \in 1..Len(applied)
  <2> DEFINE f == applied[k].from
  <2>1. CASE k # Len(applied)
    <3>1. Reversions(k)' = Reversions(k) /\ Until(k)' = Until(k)
      BY <1>1, <2>1 DEF Reversions, InProgress, Until
    <3>2. \A i \in 1..Len(Reversions(k)) : f + i \in 1..Len(trail)
      <4>1. Len(Reversions(k)) = Until(k) - f
        BY DEF Segments
      <4> QED
        BY <1>0, <4>1
    <3> QED
      BY <1>3, <3>1, <3>2 DEF Segments
  <2>2. CASE k = Len(applied)
    <3>1. /\ Reversions(k) = revert_vec /\ Reversions(k)' = revert_vec'
          /\ Until(k) = Len(trail) /\ Until(k)' = Len(trail')
      BY <1>1, <2>2 DEF Reversions, InProgress, Until
    <3>2. /\ Len(revert_vec) = Len(trail) - f
          /\ \A i \in 1..Len(revert_vec) : revert_vec[i] = trail[f + i].id
      BY <3>1 DEF Segments
    <3>3. f \in Nat
      BY <1>0
    <3> HIDE DEF f
    <3>4. Len(revert_vec') = Len(trail') - f
      <4>1. Len(trail) \in Nat
        BY <1>0
      <4> QED
        BY <1>3, <1>4, <3>2, <3>3, <4>1
    <3>5. \A i \in 1..Len(revert_vec') : revert_vec'[i] = trail'[f + i].id
      <4> TAKE i \in 1..Len(revert_vec')
      <4>1. CASE i \in 1..Len(revert_vec)
        <5>1. f + i \in 1..Len(trail)
          BY <1>0, <3>2, <3>3, <4>1
        <5> QED
          BY <1>3, <1>4, <3>2, <4>1, <5>1
      <4>2. CASE i = Len(revert_vec) + 1
        <5>1. f + i = Len(trail) + 1
          BY <1>0, <1>4, <3>2, <3>3, <4>2
        <5> QED
          BY <1>2, <1>3, <1>4, <4>2, <5>1
      <4> QED
        BY <1>4, <4>1, <4>2
    <3> QED
      BY <1>4, <3>1, <3>4, <3>5 DEF f
  <2> QED
    BY <2>1, <2>2
<1> QED
  BY <1>1, <1>5, <1>6 DEF Segments

(* A reversion shortens the segment of the block being reverted. *)
LEMMA SegmentsUndo ==
  ASSUME Typed, Current, Segments, Undo
  PROVE  Segments'
<1>0. /\ applied \in Seq(Marks) /\ trail \in Seq(Effects)
      /\ Len(applied) \in Nat /\ Len(trail) \in Nat
      /\ \A k \in 1..Len(applied) : /\ applied[k].from \in Nat
                                    /\ Until(k) \in Nat /\ Until(k) <= Len(trail)
  BY MarksTyped
<1>1. /\ pc = "revert"
      /\ trail # <<>>
      /\ trail' = Front(trail)
      /\ revert_vec # <<>>
      /\ revert_vec' = Front(revert_vec)
      /\ \A k \in 1..Len(applied) : applied[k].from <= Len(trail) - 1
      /\ UNCHANGED <<pc, applied, revert_map>>
  BY UndoPops DEF Undo
<1>2. /\ Len(trail') = Len(trail) - 1
      /\ \A i \in 1..(Len(trail) - 1) : trail'[i] = trail[i]
  BY <1>0, <1>1, FrontType
<1>3. /\ revert_vec' \in Seq(EpisodeIds)
      /\ Len(revert_vec) \in Nat \ {0}
      /\ Len(revert_vec') = Len(revert_vec) - 1
      /\ \A i \in 1..(Len(revert_vec) - 1) : revert_vec'[i] = revert_vec[i]
  BY <1>1, FrontType DEF Typed, TypeOK, EngineTypeOK
<1>4. \A k \in 1..Len(applied) :
         /\ Reversions(k)' \in Seq(EpisodeIds)
         /\ Len(Reversions(k)') = Until(k)' - applied[k].from
         /\ \A i \in 1..Len(Reversions(k)') :
               Reversions(k)'[i] = trail'[applied[k].from + i].id
  <2> TAKE k \in 1..Len(applied)
  <2> DEFINE f == applied[k].from
  <2>1. f \in Nat
    BY <1>0
  <2>2. CASE k # Len(applied)
    <3>1. Reversions(k)' = Reversions(k) /\ Until(k)' = Until(k)
      BY <1>1, <2>2 DEF Reversions, InProgress, Until
    <3>2. Until(k) <= Len(trail) - 1
      <4>1. k + 1 \in 1..Len(applied)
        BY <1>0, <2>2
      <4> QED
        BY <1>1, <2>2, <4>1 DEF Until
    <3>3. \A i \in 1..Len(Reversions(k)) : f + i \in 1..(Len(trail) - 1)
      <4>1. Len(Reversions(k)) = Until(k) - f
        BY DEF Segments
      <4> QED
        BY <1>0, <2>1, <3>2, <4>1
    <3> QED
      BY <1>2, <3>1, <3>3 DEF Segments
  <2>3. CASE k = Len(applied)
    <3>1. /\ Reversions(k) = revert_vec /\ Reversions(k)' = revert_vec'
          /\ Until(k) = Len(trail) /\ Until(k)' = Len(trail')
      BY <1>1, <2>3 DEF Reversions, InProgress, Until
    <3>2. /\ Len(revert_vec) = Len(trail) - f
          /\ \A i \in 1..Len(revert_vec) : revert_vec[i] = trail[f + i].id
      BY <3>1 DEF Segments
    <3> HIDE DEF f
    <3>3. Len(revert_vec') = Len(trail') - f
      BY <1>0, <1>2, <1>3, <2>1, <3>2
    <3>4. \A i \in 1..Len(revert_vec') : revert_vec'[i] = trail'[f + i].id
      <4> TAKE i \in 1..Len(revert_vec')
      <4>1. /\ i \in 1..(Len(revert_vec) - 1) /\ i \in 1..Len(revert_vec)
            /\ f + i \in 1..(Len(trail) - 1)
        <5>1. Len(trail) \in Nat
          BY <1>0
        <5> QED
          BY <1>3, <2>1, <3>2, <5>1
      <4> QED
        BY <1>2, <1>3, <3>2, <4>1
    <3> QED
      BY <1>3, <3>1, <3>3, <3>4 DEF f
  <2> QED
    BY <2>2, <2>3
<1>5. \A k \in 1..Len(applied) : applied[k].from <= Len(trail')
  BY <1>1, <1>2
<1> QED
  BY <1>1, <1>4, <1>5 DEF Segments

(* The entry of a block in revert_map names its segment of the trail. *)
LEMMA SegmentsStep ==
  ASSUME Typed, Current, InOrder, EntriesFollow, Segments, Next
  PROVE  Segments'
<1>0. /\ applied \in Seq(Marks) /\ Len(applied) \in Nat /\ Len(trail) \in Nat
      /\ applied # <<>> => Len(applied) \in 1..Len(applied)
      /\ \A k \in 1..Len(applied) : applied[k].from \in Nat /\ applied[k].hash \in BlockHashes
  <2>1. \A k \in 1..Len(applied) : applied[k] \in Marks
    BY MarksTyped
  <2> QED
    BY <2>1, MarksTyped DEF Marks
<1>1. CASE RecvBlkReverted /\ UNCHANGED auxVars
  <2>1. /\ pc = "recv" /\ pc' = "revert"
        /\ receiver # <<>>
        /\ msg.type = "BlkReverted"
        /\ revert_map[msg.accepting_hash] # None
        /\ revert_vec' = revert_map[msg.accepting_hash]
        /\ revert_map' = [revert_map EXCEPT ![msg.accepting_hash] = None]
        /\ UNCHANGED <<applied, trail>>
    BY <1>1 DEF RecvBlkReverted, Receives, auxVars
  <2>2. /\ applied # <<>>
        /\ applied[Len(applied)].hash = msg.accepting_hash
        /\ revert_map \in [BlockHashes -> Seq(EpisodeIds) \cup {None}]
        /\ msg.accepting_hash \in BlockHashes
    BY <2>1, EntryIsLast, RevertedMsg DEF Last, Typed, TypeOK, EngineTypeOK
  <2>3. \A k \in 1..Len(applied) : Reversions(k)' = Reversions(k) /\ Until(k)' = Until(k)
    <3> TAKE k \in 1..Len(applied)
    <3>1. Until(k)' = Until(k)
      BY <2>1 DEF Until
    <3>2. Reversions(k) = revert_map[applied[k].hash]
      BY <2>1 DEF Reversions, InProgress
    <3>3. CASE k = Len(applied)
      BY <2>1, <2>2, <3>1, <3>2, <3>3 DEF Reversions, InProgress
    <3>4. CASE k # Len(applied)
      <4>1. applied[k].hash # msg.accepting_hash
        BY <1>0, <2>2, <3>4 DEF EntriesFollow
      <4>2. Reversions(k)' = revert_map'[applied[k].hash]
        BY <2>1, <3>4 DEF Reversions, InProgress
      <4>3. revert_map'[applied[k].hash] = revert_map[applied[k].hash]
        BY <1>0, <2>1, <2>2, <4>1
      <4> QED
        BY <3>1, <3>2, <4>2, <4>3
    <3> QED
      BY <3>3, <3>4
  <2> QED
    BY <2>1, <2>3 DEF Segments
<1>2. CASE Accepted
  <2>1. /\ pc = "accept" /\ pc' = "recv"
        /\ receiver # <<>>
        /\ msg.type = "BlkAccepted"
        /\ revert_map' = [revert_map EXCEPT ![msg.accepting_hash] = revert_vec]
        /\ UNCHANGED <<applied, trail>>
        /\ applied # <<>>
        /\ applied[Len(applied)].hash = msg.accepting_hash
    BY <1>2 DEF Accepted, FinishAccepted, Current, Typed, PcInv, Last
  <2>2. /\ revert_map \in [BlockHashes -> Seq(EpisodeIds) \cup {None}]
        /\ msg.accepting_hash \in BlockHashes
    BY <2>1, AcceptedMsg DEF Typed, TypeOK, EngineTypeOK
  <2>3. \A k \in 1..Len(applied) : Reversions(k)' = Reversions(k) /\ Until(k)' = Until(k)
    <3> TAKE k \in 1..Len(applied)
    <3>1. Until(k)' = Until(k)
      BY <2>1 DEF Until
    <3>2. Reversions(k)' = revert_map'[applied[k].hash]
      BY <2>1 DEF Reversions, InProgress
    <3>3. CASE k = Len(applied)
      BY <2>1, <2>2, <3>1, <3>2, <3>3 DEF Reversions, InProgress
    <3>4. CASE k # Len(applied)
      <4>1. applied[k].hash # msg.accepting_hash
        BY <1>0, <2>1, <3>4 DEF EntriesFollow
      <4>2. Reversions(k) = revert_map[applied[k].hash]
        BY <2>1, <3>4 DEF Reversions, InProgress
      <4>3. revert_map'[applied[k].hash] = revert_map[applied[k].hash]
        BY <1>0, <2>1, <2>2, <4>1
      <4> QED
        BY <3>1, <3>2, <4>2, <4>3
    <3> QED
      BY <3>3, <3>4
  <2> QED
    BY <2>1, <2>3 DEF Segments
<1>3. CASE Reverted
  <2>1. /\ pc = "revert" /\ pc' = "recv"
        /\ revert_vec = <<>>
        /\ UNCHANGED <<revert_map, trail>>
        /\ applied' = Front(applied)
        /\ applied # <<>>
    BY <1>3 DEF Reverted, FinishReverted, Current
  <2>2. /\ Len(applied') = Len(applied) - 1
        /\ \A k \in 1..(Len(applied) - 1) : applied'[k] = applied[k]
        /\ \A k \in 1..(Len(applied) - 1) : k \in 1..Len(applied)
    <3>1. /\ Len(applied') = Len(applied) - 1
          /\ \A k \in 1..(Len(applied) - 1) : applied'[k] = applied[k]
      BY <1>0, <2>1, FrontType
    <3> QED
      BY <1>0, <3>1
  <2>3. applied[Len(applied)].from = Len(trail)
    <3> DEFINE n == Len(applied)
    <3>1. /\ n \in 1..n
          /\ Reversions(n) = <<>>
          /\ Until(n) = Len(trail)
      BY <1>0, <2>1 DEF Reversions, InProgress, Until
    <3>2. Len(Reversions(n)) = Until(n) - applied[n].from /\ applied[n].from \in Nat
      BY <1>0, <3>1 DEF Segments
    <3> HIDE DEF n
    <3>3. 0 = Len(trail) - applied[n].from
      BY <3>1, <3>2, EmptySeq
    <3>4. applied[n].from = Len(trail)
      BY <1>0, <3>2, <3>3
    <3> QED
      BY <3>4 DEF n
  <2>4. \A k \in 1..(Len(applied) - 1) : Reversions(k)' = Reversions(k) /\ Until(k)' = Until(k)
    <3> TAKE k \in 1..(Len(applied) - 1)
    <3>1. k # Len(applied) /\ Len(applied) - 1 \in Nat
      BY <1>0
    <3>2. Reversions(k)' = Reversions(k)
      BY <2>1, <2>2, <3>1 DEF Reversions, InProgress
    <3>3. CASE k = Len(applied) - 1
      <4>1. k + 1 = Len(applied)
        BY <1>0, <3>3
      <4> QED
        BY <2>1, <2>2, <2>3, <3>1, <3>2, <3>3, <4>1 DEF Until
    <3>4. CASE k # Len(applied) - 1
      <4>1. k + 1 \in 1..(Len(applied) - 1)
        BY <1>0, <3>4
      <4> QED
        BY <2>1, <2>2, <3>1, <3>2, <3>4, <4>1 DEF Until
    <3> QED
      BY <3>3, <3>4
  <2>5. \A k \in 1..Len(applied') : applied'[k].from <= Len(trail')
    BY <2>1, <2>2 DEF Segments
  <2>6. \A j, k \in 1..Len(applied') : j <= k => applied'[j].from <= applied'[k].from
    BY <2>2 DEF Segments
  <2>7. \A k \in 1..Len(applied') :
           /\ Reversions(k)' \in Seq(EpisodeIds)
           /\ Len(Reversions(k)') = Until(k)' - applied'[k].from
           /\ \A i \in 1..Len(Reversions(k)') :
                 Reversions(k)'[i] = trail'[applied'[k].from + i].id
    BY <2>1, <2>2, <2>4 DEF Segments
  <2> QED
    BY <2>5, <2>6, <2>7 DEF Segments
<1>4. CASE Discard
  <2>1. /\ pc = "recv" /\ pc' \in {"recv", "stopped"}
        /\ UNCHANGED <<revert_map, applied, trail>>
    BY <1>4 DEF Discard, RecvUnknownReverted, RecvExit, Receives, engineVars
  <2>2. \A k : Reversions(k)' = Reversions(k) /\ Until(k)' = Until(k)
    BY <2>1 DEF Reversions, InProgress, Until
  <2> QED
    BY <2>1, <2>2 DEF Segments
<1>5. CASE FeedStep
  <2>1. UNCHANGED <<pc, applied, revert_map, revert_vec, trail>>
    BY <1>5 DEF FeedStep, engineVars
  <2> QED
    BY <2>1, SegmentsStutter
<1>6. CASE NoEffect
  <2>1. CASE RejectCommand \/ SkipPayload
    <3>1. UNCHANGED <<pc, applied, revert_map, revert_vec, trail>>
      BY <1>6, <2>1 DEF NoEffect, RejectCommand, SkipPayload, Advance, auxVars
    <3> QED
      BY <3>1, SegmentsStutter
  <2> QED
    BY <1>1, <1>6, <2>1 DEF NoEffect, auxVars
<1> QED
  BY <1>2, <1>3, <1>4, <1>5, <1>6, SegmentsAccept, SegmentsEffect, SegmentsUndo
     DEF Next, EngineProgress

-----------------------------------------------------------------------------
(* The trail and the episodes it leads back to *)

(* The steps that change no episode and no record of one *)
Still == UNCHANGED <<episodes, trail, expired>>

(* Every step keeps the episodes, begins a block, has an effect or undoes one. *)
LEMMA StepKinds ==
  ASSUME Typed, Next
  PROVE  Still \/ Accept \/ Effect \/ Undo
<1>1. RejectCommand => episodes' = episodes
  BY RejectKeeps
<1> QED
  BY <1>1 DEF Next, EngineProgress, Still, FeedStep, NoEffect, SkipPayload, RecvBlkReverted,
         Accepted, FinishAccepted, Reverted, FinishReverted, Discard, RecvUnknownReverted,
         RecvExit, engineVars, auxVars

(* No step changes the past: the trail grows or shrinks at its end, and    *)
(* the episodes after each effect that remains stay the same, but for      *)
(* those that are filtered.                                                *)
LEMMA PastStays ==
  ASSUME Typed, Current, Segments, UndoTrail, Next
  PROVE  /\ Kept' \subseteq Kept
         /\ \A i \in 0..Len(trail) : i <= Len(trail') =>
               \A id \in Kept' : After(i)'[id] = After(i)[id]
         /\ \A i \in 1..Len(trail) : i <= Len(trail') => trail'[i] = trail[i]
<1>0. /\ trail \in Seq(Effects) /\ Len(trail) \in Nat
      /\ episodes \in Episodes
  BY LenProperties DEF Typed, TypeOK, EngineTypeOK
<1>1. CASE Still
  BY <1>1 DEF Still, Kept, After
<1>2. CASE Accept
  <2>1. /\ episodes' = Without(episodes, FilteredOut(msg.accepting_daa))
        /\ expired' = expired \cup FilteredOut(msg.accepting_daa)
        /\ trail' = trail
    BY <1>2 DEF Accept, RecvBlkAccepted, filter_old_episodes
  <2>2. \A id \in Kept' : id \in Kept /\ episodes'[id] = episodes[id]
    BY <1>0, <2>1 DEF Kept, Without, Episodes
  <2> QED
    BY <2>1, <2>2 DEF After
<1>3. CASE Effect
  <2> DEFINE e == [id |-> payload.id, before |-> episodes]
  <2>1. trail' = Append(trail, e) /\ expired' = expired
    BY <1>3 DEF Effect
  <2>2. e \in Effects /\ e.before = episodes
    BY <1>0, <1>3, EffectUndone DEF Effect, Effects
  <2> HIDE DEF e
  <2>3. /\ Len(trail') = Len(trail) + 1
        /\ \A i \in 1..Len(trail) : trail'[i] = trail[i]
        /\ trail'[Len(trail) + 1] = e
    BY <1>0, <2>1, <2>2, AppendFacts
  <2>4. ASSUME NEW i \in 0..Len(trail)
        PROVE  After(i)' = After(i)
    <3>1. i # Len(trail')
      BY <1>0, <2>3
    <3>2. After(i)' = trail'[i + 1].before
      BY <3>1 DEF After
    <3>3. CASE i = Len(trail)
      BY <2>2, <2>3, <3>2, <3>3 DEF After
    <3>4. CASE i # Len(trail)
      <4>1. i + 1 \in 1..Len(trail)
        BY <1>0, <3>4
      <4> QED
        BY <2>3, <3>2, <3>4, <4>1 DEF After
    <3> QED
      BY <3>3, <3>4
  <2> QED
    BY <2>1, <2>3, <2>4 DEF Kept
<1>4. CASE Undo
  <2>1. /\ trail # <<>>
        /\ trail' = Front(trail)
        /\ expired' = expired
        /\ target = Last(trail).id
    BY <1>4, UndoPops DEF Undo
  <2>2. /\ Len(trail) \in Nat \ {0}
        /\ Len(trail') = Len(trail) - 1
        /\ \A i \in 1..(Len(trail) - 1) : trail'[i] = trail[i]
    BY <1>0, <2>1, FrontType
  <2>3. ASSUME NEW id \in Kept
        PROVE  episodes'[id] = After(Len(trail) - 1)[id]
    <3>1. episodes'[id] = IF id = target THEN Undone(episodes[id]) ELSE episodes[id]
      BY <1>4, UndoUndone DEF Kept
    <3>2. /\ Len(trail) \in 1..Len(trail)
          /\ (Len(trail) - 1) + 1 = Len(trail)
          /\ Len(trail) - 1 # Len(trail)
      BY <2>2
    <3>3. trail[Len(trail)].before[id] =
             IF id = trail[Len(trail)].id THEN Undone(episodes[id]) ELSE episodes[id]
      BY <3>2 DEF UndoTrail, After
    <3>4. After(Len(trail) - 1) = trail[Len(trail)].before
      BY <3>2 DEF After
    <3> QED
      BY <2>1, <3>1, <3>3, <3>4 DEF Last
  <2>4. ASSUME NEW i \in 0..Len(trail), i <= Len(trail'), NEW id \in Kept
        PROVE  After(i)'[id] = After(i)[id]
    <3>1. CASE i = Len(trail')
      <4>1. After(i)' = episodes'
        BY <3>1 DEF After
      <4>2. i = Len(trail) - 1
        BY <2>2, <3>1
      <4> QED
        BY <2>3, <4>1, <4>2
    <3>2. CASE i # Len(trail')
      <4>1. i + 1 \in 1..(Len(trail) - 1) /\ i # Len(trail)
        BY <2>2, <2>4, <3>2
      <4> QED
        BY <2>2, <3>2, <4>1 DEF After
    <3> QED
      BY <3>1, <3>2
  <2> QED
    BY <2>1, <2>2, <2>4 DEF Kept
<1> QED
  BY <1>1, <1>2, <1>3, <1>4, StepKinds

(* Each rollback object undoes the effect it was returned for. *)
LEMMA UndoTrailStep ==
  ASSUME Typed, Current, Segments, UndoTrail, Next
  PROVE  UndoTrail'
<1>0. Len(trail) \in Nat
  BY LenProperties DEF Typed, TypeOK
<1>1. ASSUME NEW i \in 1..Len(trail'), i <= Len(trail), NEW id \in Kept'
      PROVE  trail'[i].before[id] =
                IF id = trail'[i].id THEN Undone(After(i)'[id]) ELSE After(i)'[id]
  <2>1. i \in 0..Len(trail) /\ i \in 1..Len(trail) /\ i <= Len(trail')
    BY <1>0, <1>1, LenProperties
  <2>2. trail'[i] = trail[i] /\ After(i)'[id] = After(i)[id] /\ id \in Kept
    BY <2>1, PastStays
  <2>3. trail[i].before[id] =
           IF id = trail[i].id THEN Undone(After(i)[id]) ELSE After(i)[id]
    BY <2>1, <2>2 DEF UndoTrail
  <2> QED
    BY <2>2, <2>3
<1>2. ASSUME NEW i \in 1..Len(trail'), ~ i <= Len(trail), NEW id \in Kept'
      PROVE  trail'[i].before[id] =
                IF id = trail'[i].id THEN Undone(After(i)'[id]) ELSE After(i)'[id]
  <2> DEFINE e == [id |-> payload.id, before |-> episodes]
  <2>1. CASE Effect
    <3>1. trail' = Append(trail, e) /\ expired' = expired
      BY <2>1 DEF Effect
    <3>2. /\ e \in Effects
          /\ e.before = episodes
          /\ e.id = payload.id
          /\ trail \in Seq(Effects)
      BY <2>1, EffectUndone DEF Effect, Effects, Typed, TypeOK, EngineTypeOK
    <3> HIDE DEF e
    <3>3. Len(trail') = Len(trail) + 1 /\ trail'[Len(trail) + 1] = e
      BY <3>1, <3>2, AppendFacts
    <3>4. i = Len(trail')
      BY <1>0, <1>2, <3>3
    <3>5. After(i)' = episodes'
      BY <3>4 DEF After
    <3>6. trail'[i] = e
      BY <3>3, <3>4
    <3>7. id \in EpisodeIds
      BY DEF Kept
    <3>8. episodes[id] = IF id = payload.id THEN Undone(episodes'[id]) ELSE episodes'[id]
      BY <2>1, <3>7, EffectUndone DEF Effect
    <3> QED
      BY <3>2, <3>5, <3>6, <3>8
  <2>2. CASE ~ Effect
    <3>1. Len(trail') <= Len(trail)
      <4>1. CASE Undo
        <5>1. trail' = Front(trail) /\ trail # <<>> /\ trail \in Seq(Effects)
          BY <4>1, UndoPops DEF Undo, Typed, TypeOK
        <5> QED
          BY <1>0, <5>1, FrontType
      <4>2. CASE Still \/ Accept
        BY <1>0, <4>2 DEF Still, Accept
      <4> QED
        BY <2>2, <4>1, <4>2, StepKinds
    <3> QED
      BY <1>0, <1>2, <3>1, LenProperties
  <2> QED
    BY <2>1, <2>2
<1> QED
  BY <1>1, <1>2 DEF UndoTrail

(* What a step does to the marks *)
LEMMA MarkKinds ==
  ASSUME Typed, Current, InOrder, Segments, Next
  PROVE  \A k \in 1..Len(applied') :
            \/ k \in 1..Len(applied) /\ applied'[k] = applied[k]
            \/ /\ Accept
               /\ k = Len(applied')
               /\ applied'[k].from = Len(trail)
               /\ applied'[k].before = episodes
<1>0. applied \in Seq(Marks) /\ Len(applied) \in Nat
  BY MarksTyped
<1>1. CASE Accept
  <2>1. PICK mk \in Marks : /\ mk.from = Len(trail)
                            /\ mk.before = episodes
                            /\ applied' = Append(applied, mk)
    BY <1>1, AcceptShape
  <2>2. /\ Len(applied') = Len(applied) + 1
        /\ \A k \in 1..Len(applied) : applied'[k] = applied[k]
        /\ applied'[Len(applied) + 1] = mk
    BY <1>0, <2>1, AppendFacts
  <2>3. \A k \in 1..Len(applied') : k \in 1..Len(applied) \/ k = Len(applied')
    BY <1>0, <2>2
  <2> QED
    BY <1>1, <2>1, <2>2, <2>3
<1>2. CASE Reverted
  <2>1. applied # <<>> /\ applied' = Front(applied)
    BY <1>2 DEF Reverted, FinishReverted, Current
  <2>2. /\ Len(applied) \in Nat \ {0}
        /\ Len(applied') = Len(applied) - 1
        /\ \A k \in 1..(Len(applied) - 1) : applied'[k] = applied[k]
    BY <1>0, <2>1, FrontType
  <2> QED
    BY <2>2
<1>3. Accept \/ Reverted \/ applied' = applied
  BY DEF Next, EngineProgress, FeedStep, Effect, NoEffect, Accepted, Undo, Discard, auxVars
<1> QED
  BY <1>1, <1>2, <1>3

(* The episodes before a block are those before its first effect. *)
LEMMA MarkedStep ==
  ASSUME Typed, Current, InOrder, Segments, UndoTrail, Marked, Segments', Next
  PROVE  Marked'
<1>0. /\ Len(applied) \in Nat /\ Len(trail) \in Nat
      /\ \A k \in 1..Len(applied) : applied[k].from \in Nat
      /\ \A k \in 1..Len(applied') : applied'[k].from <= Len(trail')
  BY MarksTyped DEF Segments
<1> SUFFICES ASSUME NEW k \in 1..Len(applied'), NEW id \in Kept', NEW f,
                    f = applied'[k].from
             PROVE  applied'[k].before[id] = After(f)'[id]
  BY DEF Marked
<1>1. f <= Len(trail')
  BY <1>0
<1>2. CASE k \in 1..Len(applied) /\ applied'[k] = applied[k]
  <2>1. f \in 0..Len(trail)
    BY <1>0, <1>2 DEF Segments
  <2>2. After(f)'[id] = After(f)[id] /\ id \in Kept
    BY <1>1, <2>1, PastStays
  <2>3. applied[k].before[id] = After(f)[id]
    BY <1>2, <2>2 DEF Marked
  <2> QED
    BY <1>2, <2>2, <2>3
<1>3. CASE /\ Accept
           /\ applied'[k].from = Len(trail)
           /\ applied'[k].before = episodes
  <2>1. f \in 0..Len(trail) /\ f = Len(trail)
    BY <1>0, <1>3
  <2>2. After(f)'[id] = After(f)[id]
    BY <1>1, <2>1, PastStays
  <2>3. After(f) = episodes
    BY <2>1 DEF After
  <2> QED
    BY <1>3, <2>2, <2>3
<1> QED
  BY <1>2, <1>3, MarkKinds

-----------------------------------------------------------------------------
(* The age of the episodes and of the messages *)

(* A new message is not much older than those before it. *)
LEMMA AgesFeed ==
  ASSUME Typed, InOrder, Ages, FeedStep
  PROVE  Ages'
<1>0. /\ receiver \in Seq(EngineMsgs) /\ Len(receiver) \in Nat
      /\ peak \in Nat /\ peak' \in Nat /\ peak <= peak'
      /\ next_filtering \in Nat /\ next_filtering <= peak
      /\ MaxReorg \in Nat
  BY FeedShape, LenProperties, ConstantsAssumption, ReorgAssumption
     DEF Typed, TypeOK, EngineTypeOK, Ages
<1>1. PICK m \in EngineMsgs :
         /\ receiver' = Append(receiver, m)
         /\ m.type = "BlkAccepted" =>
               /\ m.accepting_daa \in DaaScores
               /\ m.accepting_daa <= peak'
               /\ peak <= m.accepting_daa + MaxReorg
  BY FeedShape
<1>2. /\ Len(receiver') = Len(receiver) + 1
      /\ \A i \in 1..Len(receiver) : receiver'[i] = receiver[i]
      /\ receiver'[Len(receiver) + 1] = m
  BY <1>0, <1>1, AppendFacts
<1>3. UNCHANGED <<episodes, episode_creation_times, next_filtering, pc>>
  BY DEF FeedStep, engineVars
<1>4. \A i \in 1..Len(receiver') : i \in 1..Len(receiver) \/ i = Len(receiver) + 1
  BY <1>0, <1>2
<1>5. \A i \in 1..Len(receiver) : receiver[i].type = "BlkAccepted" =>
         /\ receiver[i].accepting_daa \in Nat
         /\ receiver[i].accepting_daa <= peak
         /\ receiver[i].accepting_daa <= peak'
  <2> TAKE i \in 1..Len(receiver)
  <2> HAVE receiver[i].type = "BlkAccepted"
  <2>1. receiver[i] \in EngineMsgs
    BY <1>0
  <2>2. receiver[i].accepting_daa \in DaaScores
    BY <2>1 DEF EngineMsgs
  <2>3. receiver[i].accepting_daa <= peak
    BY DEF Ages
  <2> DEFINE d == receiver[i].accepting_daa
  <2>4. d \in Nat /\ d <= peak
    BY <2>2, <2>3, ConstantsAssumption
  <2> HIDE DEF d
  <2>5. d \in Nat /\ d <= peak /\ d <= peak'
    BY <1>0, <2>4
  <2> QED
    BY <2>5 DEF d
<1>6. ASSUME NEW i \in 1..Len(receiver'), receiver'[i].type = "BlkAccepted"
      PROVE  /\ next_filtering' <= receiver'[i].accepting_daa + MaxReorg
             /\ receiver'[i].accepting_daa <= peak'
             /\ \A j \in 1..i : receiver'[j].type = "BlkAccepted" =>
                   receiver'[j].accepting_daa <= receiver'[i].accepting_daa + MaxReorg
  <2>1. CASE i \in 1..Len(receiver)
    <3>1. \A j \in 1..i : j \in 1..Len(receiver)
      BY <1>0, <2>1
    <3> QED
      BY <1>2, <1>3, <1>5, <1>6, <2>1, <3>1 DEF Ages
  <2>2. CASE i = Len(receiver) + 1
    <3> DEFINE d == m.accepting_daa
    <3>1. receiver'[i] = m /\ d \in Nat /\ d <= peak' /\ peak <= d + MaxReorg
      BY <1>1, <1>2, <1>6, <2>2, ConstantsAssumption
    <3> HIDE DEF d
    <3>2. next_filtering <= d + MaxReorg
      BY <1>0, <3>1
    <3>3. ASSUME NEW j \in 1..i, receiver'[j].type = "BlkAccepted"
          PROVE  receiver'[j].accepting_daa <= d + MaxReorg
      <4>1. CASE j \in 1..Len(receiver)
        <5> DEFINE c == receiver[j].accepting_daa
        <5>1. c \in Nat /\ c <= peak /\ receiver'[j] = receiver[j]
          BY <1>2, <1>5, <3>3, <4>1
        <5> HIDE DEF c
        <5>2. c <= d + MaxReorg
          BY <1>0, <3>1, <5>1
        <5> QED
          BY <5>1, <5>2 DEF c
      <4>2. CASE j = Len(receiver) + 1
        <5>1. receiver'[j].accepting_daa = d
          BY <2>2, <3>1, <4>2 DEF d
        <5> QED
          BY <1>0, <3>1, <5>1
      <4> QED
        BY <1>0, <2>2, <4>1, <4>2
    <3> QED
      BY <1>3, <3>1, <3>2, <3>3 DEF d
  <2> QED
    BY <1>4, <2>1, <2>2
<1>7. pc' = "accept" => msg'.accepting_daa <= next_filtering' + SAMPLE_REMOVAL_TIME
  <2>1. pc = "accept" => receiver # <<>>
    BY DEF Typed, PcInv
  <2>2. receiver # <<>> => msg' = msg
    BY <1>0, <1>1, HeadStays DEF msg
  <2> QED
    BY <1>3, <2>1, <2>2 DEF Ages
<1>8. next_filtering' <= peak'
  BY <1>0, <1>3
<1>9. \A id \in EpisodeIds :
         Live(id)' => next_filtering' <= episode_creation_times'[id] + EPISODE_LIFETIME
  BY <1>3 DEF Ages, Live
<1> QED
  BY <1>6, <1>7, <1>8, <1>9 DEF Ages

(* Filtering removes the episodes that are too old for the new bound. *)
LEMMA AgesAccept ==
  ASSUME Typed, InOrder, Ages, Accept
  PROVE  Ages'
<1> DEFINE d == msg.accepting_daa
<1>0. /\ receiver \in Seq(EngineMsgs) /\ Len(receiver) \in Nat
      /\ episodes \in Episodes
      /\ episode_creation_times \in [EpisodeIds -> DaaScores \cup {None}]
      /\ next_filtering \in Nat
      /\ DaaScores \subseteq Nat
      /\ MaxReorg \in Nat /\ EPISODE_LIFETIME \in Nat /\ SAMPLE_REMOVAL_TIME \in Nat
      /\ \A id \in EpisodeIds : episodes[id] = None <=> episode_creation_times[id] = None
  BY LenProperties, ConstantsAssumption, ReorgAssumption DEF Typed, TypeOK, EngineTypeOK
<1>1. /\ receiver # <<>>
      /\ msg.type = "BlkAccepted"
      /\ episodes' = Without(episodes, FilteredOut(d))
      /\ episode_creation_times' = Without(episode_creation_times, FilteredOut(d))
      /\ next_filtering' = IF Filtering(d) THEN d ELSE next_filtering
      /\ UNCHANGED <<receiver, peak>>
      /\ msg' = msg
  BY DEF Accept, RecvBlkAccepted, Receives, filter_old_episodes, feedVars, msg
<1>2. d \in Nat /\ msg = receiver[1] /\ 1 \in 1..Len(receiver)
  <2>1. d \in DaaScores /\ msg = receiver[1] /\ Len(receiver) \in Nat \ {0}
    BY <1>0, <1>1, AcceptedMsg, HeadLeads, EmptySeq DEF Typed
  <2>2. d \in Nat
    BY <2>1, ConstantsAssumption
  <2>3. 1 \in 1..Len(receiver)
    BY <2>1
  <2> QED
    BY <2>1, <2>2, <2>3
<1>3. d <= peak /\ next_filtering <= peak
  BY <1>1, <1>2 DEF Ages
<1> HIDE DEF d
<1>4. next_filtering' <= peak'
  BY <1>1, <1>3
<1>5. d <= next_filtering' + SAMPLE_REMOVAL_TIME
  <2>1. CASE Filtering(d)
    BY <1>0, <1>1, <1>2, <2>1
  <2>2. CASE ~ Filtering(d)
    BY <1>0, <1>1, <1>2, <2>2 DEF Filtering
  <2> QED
    BY <2>1, <2>2
<1>6. ASSUME NEW i \in 1..Len(receiver), receiver[i].type = "BlkAccepted"
      PROVE  next_filtering' <= receiver[i].accepting_daa + MaxReorg
  <2>1. 1 \in 1..i
    OBVIOUS
  <2>2. d <= receiver[i].accepting_daa + MaxReorg
    BY <1>1, <1>2, <1>6, <2>1 DEF Ages, d
  <2>3. next_filtering <= receiver[i].accepting_daa + MaxReorg
    BY <1>6 DEF Ages
  <2> QED
    BY <1>1, <2>2, <2>3
<1>7. ASSUME NEW id \in EpisodeIds, episodes'[id] # None
      PROVE  next_filtering' <= episode_creation_times'[id] + EPISODE_LIFETIME
  <2> DEFINE c == episode_creation_times[id]
  <2>1. /\ id \notin FilteredOut(d)
        /\ episodes[id] # None
        /\ episode_creation_times'[id] = c
    BY <1>0, <1>1, <1>7 DEF Without, Episodes
  <2>2. c \in Nat /\ c # None
    <3>1. c # None /\ c \in DaaScores \cup {None}
      BY <1>0, <2>1
    <3> QED
      BY <1>0, <3>1
  <2>3. next_filtering <= c + EPISODE_LIFETIME
    BY <2>1 DEF Ages, Live
  <2>4. Filtering(d) => ~ (c + EPISODE_LIFETIME < d)
    BY <2>1, <2>2 DEF FilteredOut, TooOld
  <2> HIDE DEF c
  <2>5. Filtering(d) => d <= c + EPISODE_LIFETIME
    BY <1>0, <1>2, <2>2, <2>4
  <2>6. next_filtering' <= c + EPISODE_LIFETIME
    BY <1>1, <2>3, <2>5
  <2> QED
    BY <2>1, <2>6
<1> QED
  BY <1>1, <1>4, <1>5, <1>6, <1>7 DEF Ages, Live, d

(* A new episode is younger than a lifetime at the last filtering. *)
LEMMA AgesEffect ==
  ASSUME Typed, Ages, Effect
  PROVE  Ages'
<1>0. /\ episodes \in Episodes
      /\ episode_creation_times \in [EpisodeIds -> DaaScores \cup {None}]
      /\ next_filtering \in Nat
      /\ DaaScores \subseteq Nat
      /\ MaxReorg \in Nat /\ EPISODE_LIFETIME \in Nat /\ MaxReorg <= EPISODE_LIFETIME
  BY ConstantsAssumption, ReorgAssumption DEF Typed, TypeOK, EngineTypeOK
<1>1. /\ pc = "accept"
      /\ UNCHANGED <<receiver, pc, next_filtering, peak>>
      /\ msg' = msg
  BY DEF Effect, CreateEpisode, ExecuteCommand, Runs, Pending, Advance, feedVars, msg
<1>2. /\ payload.id \in EpisodeIds
      /\ \A id \in EpisodeIds : id # payload.id => episodes'[id] = episodes[id]
  BY EffectUndone DEF Effect
<1>3. CASE CreateEpisode
  <2> DEFINE d == msg.accepting_daa
  <2>1. episode_creation_times' = [episode_creation_times EXCEPT ![payload.id] = d]
    BY <1>3 DEF CreateEpisode
  <2>2. /\ receiver # <<>>
        /\ receiver \in Seq(EngineMsgs)
        /\ msg.type = "BlkAccepted"
        /\ d \in DaaScores
    BY <1>1, AcceptedMsg DEF Typed, PcInv, TypeOK, EngineTypeOK
  <2>3. msg = receiver[1] /\ 1 \in 1..Len(receiver)
    BY <2>2, TailFacts DEF msg
  <2>4. next_filtering <= d + MaxReorg
    BY <2>2, <2>3 DEF Ages
  <2>5. d \in Nat
    BY <1>0, <2>2
  <2> HIDE DEF d
  <2>6. next_filtering <= d + EPISODE_LIFETIME
    BY <1>0, <2>4, <2>5
  <2>7. \A id \in EpisodeIds :
           episodes'[id] # None =>
              next_filtering <= episode_creation_times'[id] + EPISODE_LIFETIME
    BY <1>0, <1>2, <2>1, <2>6 DEF Ages, Live
  <2> QED
    BY <1>1, <2>7 DEF Ages, Live
<1>4. CASE ExecuteCommand
  <2>1. episode_creation_times' = episode_creation_times /\ episodes[payload.id] # None
    BY <1>4 DEF ExecuteCommand, Runs, Live
  <2> QED
    BY <1>1, <1>2, <2>1 DEF Ages, Live
<1> QED
  BY <1>3, <1>4 DEF Effect

(* The messages that remain are ordered as before. *)
LEMMA AgesConsumes ==
  ASSUME Typed, Current, InOrder, EntriesFollow, Ages, Consumes
  PROVE  Ages'
<1>1. /\ receiver # <<>>
      /\ receiver' = Tail(receiver)
      /\ peak' = peak
      /\ pc' # "accept"
  <2>1. pc' = "recv" \/ (pc' = "stopped" /\ receiver[1].type = "Exit")
    BY ConsumesShape
  <2> QED
    BY <2>1, ConsumesShape DEF feedVars
<1>2. receiver \in Seq(EngineMsgs)
  BY DEF Typed, TypeOK, EngineTypeOK
<1>3. UNCHANGED <<episodes, episode_creation_times, next_filtering>>
  BY DEF Consumes, Accepted, FinishAccepted, Reverted, FinishReverted, Discard,
         RecvUnknownReverted, RecvExit, engineVars
<1>4. /\ Len(receiver) \in Nat \ {0}
      /\ Len(receiver') = Len(receiver) - 1
      /\ \A i \in 1..(Len(receiver) - 1) : receiver'[i] = receiver[i + 1]
  BY <1>1, <1>2, TailFacts
<1>5. ASSUME NEW i \in 1..Len(receiver'), receiver'[i].type = "BlkAccepted"
      PROVE  /\ next_filtering' <= receiver'[i].accepting_daa + MaxReorg
             /\ receiver'[i].accepting_daa <= peak'
             /\ \A j \in 1..i : receiver'[j].type = "BlkAccepted" =>
                   receiver'[j].accepting_daa <= receiver'[i].accepting_daa + MaxReorg
  <2>1. /\ i + 1 \in 1..Len(receiver)
        /\ receiver'[i] = receiver[i + 1]
        /\ \A j \in 1..i : j + 1 \in 1..(i + 1) /\ receiver'[j] = receiver[j + 1]
    BY <1>4
  <2>2. /\ next_filtering <= receiver[i + 1].accepting_daa + MaxReorg
        /\ receiver[i + 1].accepting_daa <= peak
        /\ \A j \in 1..(i + 1) : receiver[j].type = "BlkAccepted" =>
              receiver[j].accepting_daa <= receiver[i + 1].accepting_daa + MaxReorg
    BY <1>5, <2>1 DEF Ages
  <2> QED
    BY <1>1, <1>3, <2>1, <2>2
<1> QED
  BY <1>1, <1>3, <1>5 DEF Ages, Live

(* The bounds on ages survive every step. *)
LEMMA AgesStep ==
  ASSUME Typed, Current, InOrder, EntriesFollow, Ages, Next
  PROVE  Ages'
<1>1. CASE NoEffect
  <2>1. RejectCommand => episodes' = episodes
    BY RejectKeeps
  <2>2. UNCHANGED <<receiver, episodes, episode_creation_times, next_filtering, peak>>
    BY <1>1, <2>1 DEF NoEffect, RejectCommand, SkipPayload, RecvBlkReverted, Advance, feedVars
  <2>3. pc' = "accept" => pc = "accept"
    BY <1>1 DEF NoEffect, RejectCommand, SkipPayload, RecvBlkReverted, Advance
  <2> QED
    BY <2>2, <2>3 DEF Ages, Live, msg
<1>2. CASE Undo
  <2>1. /\ UNCHANGED <<receiver, next_filtering, peak, pc>>
        /\ pc = "revert"
    BY <1>2 DEF Undo, UndoCommand, UndoCreation, UndoMissing, Reverting, RevertOne, feedVars
  <2>2. \A id \in EpisodeIds : episodes'[id] # None =>
           episodes[id] # None /\ episode_creation_times'[id] = episode_creation_times[id]
    <3>1. target \in EpisodeIds
      BY <1>2, UndoUndone
    <3> QED
      BY <1>2, <3>1 DEF Undo, UndoCommand, UndoCreation, UndoMissing, Live, Typed, TypeOK,
                        EngineTypeOK, Episodes
  <2> QED
    BY <2>1, <2>2 DEF Ages, Live
<1> QED
  BY <1>1, <1>2, AgesFeed, AgesAccept, AgesEffect, AgesConsumes
     DEF Next, EngineProgress, Consumes

-----------------------------------------------------------------------------
(* The invariant, and the properties that follow from it *)

(* The types survive every step: the invariant says the sequences that
   are shortened are not empty. *)
LEMMA TypedStep ==
  ASSUME IInv, Next
  PROVE  Typed'
<1>1. CASE Consumes
  <2>1. views # <<>>
    BY <1>1, ConsumesShape DEF IInv
  <2>2. Reverted => applied # <<>>
    BY DEF Reverted, FinishReverted, IInv, Current
  <2> QED
    BY <1>1, <2>1, <2>2, TypedAccepted, TypedReverted, TypedDiscard DEF Consumes, IInv
<1>2. CASE Undo
  BY <1>2, UndoPops, TypedUndo DEF IInv
<1> QED
  BY <1>1, <1>2, TypedFeed, TypedAccept, TypedEffect, TypedNoEffect
     DEF Next, EngineProgress, Consumes, IInv

(* The invariant holds when the engine starts. *)
LEMMA InvariantInit == Init => IInv
<1> SUFFICES ASSUME Init PROVE IInv
  OBVIOUS
<1>1. Typed
  BY TypedInit
<1>2. /\ receiver = <<>> /\ views = <<>> /\ applied = <<>> /\ trail = <<>>
      /\ chain = <<>> /\ pc = "recv" /\ ~ closed /\ peak = 0 /\ next_filtering = 0
      /\ revert_map = [h \in BlockHashes |-> None]
      /\ episodes = [id \in EpisodeIds |-> None]
  BY DEF Init, EngineInit, Feed!FeedInit
<1>3. Len(receiver) = 0 /\ Len(views) = 0 /\ Len(applied) = 0 /\ Len(trail) = 0 /\ Len(chain) = 0
  BY <1>2, EmptySeq
<1>4. Current /\ ExitLast
  BY <1>2, <1>3 DEF Current, ExitLast
<1>5. InOrder
  <2>1. Heights \in Seq(BlockHashes) /\ Heights = <<>>
    BY <1>1, <1>2, HeightsType DEF Typed
  <2>2. EngineChain = <<>>
    BY <1>2, <2>1 DEF EngineChain
  <2> QED
    BY <1>2, <1>3, <2>2 DEF InOrder
<1>6. EntriesFollow /\ Segments
  BY <1>2, <1>3 DEF EntriesFollow, Segments
<1>7. UndoTrail /\ Marked
  BY <1>3 DEF UndoTrail, Marked
<1>8. HandlersInformed
  BY <1>2 DEF HandlersInformed, Live
<1>9. Ages
  BY <1>2, <1>3 DEF Ages, Live
<1> QED
  BY <1>1, <1>4, <1>5, <1>6, <1>7, <1>8, <1>9 DEF IInv

(* Every step of the engine or of the listener keeps the invariant. *)
LEMMA InvariantStep == IInv /\ [Next]_vars => IInv'
<1> SUFFICES ASSUME IInv, [Next]_vars PROVE IInv'
  OBVIOUS
<1> USE DEF IInv
<1>1. CASE Next
  <2>1. Typed'
    BY <1>1, TypedStep
  <2>2. Current' /\ InOrder' /\ ExitLast' /\ EntriesFollow'
    BY <1>1, CurrentStep, InOrderStep, ExitLastStep, EntriesStep
  <2>3. Segments' /\ UndoTrail' /\ HandlersInformed' /\ Ages'
    BY <1>1, SegmentsStep, UndoTrailStep, HandlersStep, AgesStep
  <2>4. Marked'
    BY <1>1, <2>3, MarkedStep
  <2> QED
    BY <2>1, <2>2, <2>3, <2>4
<1>2. CASE UNCHANGED vars
  <2> USE <1>2 DEF vars, engineVars, feedVars, auxVars
  <2>1. Typed'
    BY DEF Typed, TypeOK, EngineTypeOK, Feed!FeedTypeOK, PcInv, msg
  <2>2. Current' /\ InOrder' /\ ExitLast' /\ EntriesFollow'
    <3>1. Heights' = Heights /\ EngineChain' = EngineChain /\ \A i : Before(i)' = Before(i)
      BY DEF Heights, EngineChain, Before
    <3>2. Current' /\ ExitLast'
      BY DEF Current, ExitLast, msg
    <3>3. InOrder'
      BY <3>1 DEF InOrder
    <3>4. EntriesFollow'
      BY DEF EntriesFollow, InProgress
    <3> QED
      BY <3>2, <3>3, <3>4
  <2>3. Segments'
    BY SegmentsStutter
  <2>4. UndoTrail' /\ Marked'
    BY DEF UndoTrail, Marked, Kept, After
  <2>5. HandlersInformed' /\ Ages'
    BY DEF HandlersInformed, Ages, Live, msg
  <2> QED
    BY <2>1, <2>2, <2>3, <2>4, <2>5
<1> QED
  BY <1>1, <1>2

(* In every behaviour of the engine and its listener IInv holds throughout,
   for any episode type that honours the two contracts. *)
THEOREM Inductive == Spec => []IInv
BY InvariantInit, InvariantStep, PTL DEF Spec

(* Whatever the blocks of the chain carry, every variable of the engine    *)
(* keeps its type: in particular episodes and episode_creation_times of    *)
(* engine.rs always have the same keys.                                    *)
THEOREM TypeCorrect == Spec => []TypeOK
<1>1. IInv => TypeOK
  BY DEF IInv, Typed
<1> QED
  BY <1>1, Inductive, PTL

(* Popping the rollback objects leads back through the past of every       *)
(* episode that was never filtered, for any episode type that honours the  *)
(* contract of execute and rollback.                                       *)
THEOREM RollbackObjectsSound == Spec => []UndoTrail
<1>1. IInv => UndoTrail
  BY DEF IInv
<1> QED
  BY <1>1, Inductive, PTL

(* on_initialize, on_command and on_rollback together tell the handlers    *)
(* of every state a live episode is in.                                    *)
THEOREM HandlersAlwaysInformed == Spec => []HandlersInformed
<1>1. IInv => HandlersInformed
  BY DEF IInv
<1> QED
  BY <1>1, Inductive, PTL

(* revert_map has exactly the entries that a reversion will need, and each *)
(* names the effects of its block and no other.                            *)
THEOREM RevertMapExact == Spec => []RevertMapFollowsChain
<1>1. ASSUME IInv
      PROVE  RevertMapFollowsChain
  <2>1. {h \in BlockHashes : revert_map[h] # None} =
           {applied[k].hash : k \in {j \in 1..Len(applied) : ~ InProgress(j)}}
    <3>1. \A k \in 1..Len(applied) : applied[k].hash \in BlockHashes
      <4>1. \A k \in 1..Len(applied) : applied[k] \in Marks
        BY <1>1, MarksTyped DEF IInv
      <4> QED
        BY <4>1 DEF Marks
    <3> QED
      BY <1>1, <3>1 DEF IInv, EntriesFollow
  <2>2. \A j, k \in 1..Len(applied) : applied[j].hash = applied[k].hash => j = k
    BY <1>1 DEF IInv, EntriesFollow
  <2>3. ASSUME NEW k \in 1..Len(applied)
        PROVE  Reversions(k) = [i \in 1..(Until(k) - applied[k].from) |->
                                   trail[applied[k].from + i].id]
    <3> DEFINE r == Reversions(k)
               f == applied[k].from
               n == Until(k) - f
    <3>1. /\ r \in Seq(EpisodeIds)
          /\ Len(r) = n
          /\ \A i \in 1..Len(r) : r[i] = trail[f + i].id
      BY <1>1 DEF IInv, Segments
    <3> HIDE DEF r, n, f
    <3>2. r = [i \in 1..Len(r) |-> r[i]]
      BY <3>1
    <3>3. r = [i \in 1..n |-> trail[f + i].id]
      BY <3>1, <3>2
    <3> QED
      BY <3>3 DEF r, n, f
  <2> QED
    BY <2>1, <2>2, <2>3 DEF RevertMapFollowsChain
<1> QED
  BY <1>1, Inductive, PTL

(* When the last reversion of a block is done, its effects are undone. *)
LEMMA Restored ==
  ASSUME IInv, Reverted
  PROVE  \A id \in Kept : episodes[id] = Last(applied).before[id]
<1>1. pc = "revert" /\ revert_vec = <<>> /\ applied # <<>>
  BY DEF Reverted, FinishReverted, IInv, Current
<1> DEFINE n == Len(applied)
<1>2. /\ n \in 1..n
      /\ applied[n].from \in Nat
      /\ Len(trail) \in Nat
  BY <1>1, MarksTyped DEF IInv
<1>3. Reversions(n) = <<>> /\ Until(n) = Len(trail)
  BY <1>1 DEF Reversions, InProgress, Until
<1>4. 0 = Len(trail) - applied[n].from
  BY <1>2, <1>3, EmptySeq DEF IInv, Segments
<1>5. After(applied[n].from) = episodes
  BY <1>2, <1>4 DEF After
<1>6. \A id \in Kept : applied[n].before[id] = episodes[id]
  BY <1>2, <1>5 DEF IInv, Marked
<1> QED
  BY <1>6 DEF Last

(* When BlkReverted has been processed, every episode that was never       *)
(* filtered is back to what it was before BlkAccepted.                     *)
THEOREM ReversionRestores == Spec => RevertRestores
<1>1. IInv => (Reverted => \A id \in Kept : episodes[id] = Last(applied).before[id])
  BY Restored
<1> QED
  BY <1>1, Inductive, PTL DEF RevertRestores

(* No episode is executed on when it is older than EPISODE_LIFETIME and    *)
(* the sampling interval of filter_old_episodes.                           *)
THEOREM LifetimeBounded == Spec => []LifetimeBound
<1>1. ASSUME IInv, pc = "accept", NEW id \in EpisodeIds, Live(id)
      PROVE  msg.accepting_daa - episode_creation_times[id]
                <= EPISODE_LIFETIME + SAMPLE_REMOVAL_TIME
  <2> DEFINE d == msg.accepting_daa
             c == episode_creation_times[id]
             n == next_filtering
  <2>1. d \in Nat
    BY <1>1, AcceptedMsg, ConstantsAssumption DEF IInv, Typed, PcInv
  <2>2. c \in Nat
    <3>1. c # None /\ c \in DaaScores \cup {None}
      BY <1>1 DEF IInv, Typed, TypeOK, EngineTypeOK, Live
    <3> QED
      BY <3>1, ConstantsAssumption
  <2>3. n \in Nat /\ EPISODE_LIFETIME \in Nat /\ SAMPLE_REMOVAL_TIME \in Nat
    BY <1>1, ConstantsAssumption DEF IInv, Typed, TypeOK, EngineTypeOK
  <2>4. n <= c + EPISODE_LIFETIME /\ d <= n + SAMPLE_REMOVAL_TIME
    BY <1>1 DEF IInv, Ages
  <2> HIDE DEF d, c, n
  <2>5. d - c <= EPISODE_LIFETIME + SAMPLE_REMOVAL_TIME
    BY <2>1, <2>2, <2>3, <2>4
  <2> QED
    BY <2>5 DEF d, c
<1>2. IInv => LifetimeBound
  BY <1>1 DEF LifetimeBound
<1> QED
  BY <1>2, Inductive, PTL

(* An engine stops on the listener's last chain, with nothing left to do.  *)
THEOREM StopsOnChain == Spec => []StoppedOnChain
<1>1. ASSUME IInv, pc = "stopped"
      PROVE  [k \in 1..Len(applied) |-> applied[k].hash] = chain
  <2>1. receiver = <<>>
    BY <1>1 DEF IInv, ExitLast
  <2> QED
    BY <1>1, <2>1 DEF IInv, InOrder, EngineChain, Heights
<1>2. IInv => StoppedOnChain
  BY <1>1 DEF StoppedOnChain
<1> QED
  BY <1>2, Inductive, PTL

-----------------------------------------------------------------------------
(* EngineSystem implements EpisodeLedger as long as no episode expires:    *)
(* under Versions, the end of an acceptance is an AcceptBlock, the start   *)
(* of a reversion a RevertBlock, and every other step a stutter.           *)

(* Every set of natural numbers has a least element. *)
LEMMA LeastNumber ==
  ASSUME NEW T \in SUBSET Nat, T # {}
  PROVE  \E k \in T : \A j \in T : k <= j
<1> DEFINE R == OpToRel(<, Nat)
<1>1. IsWellFoundedOn(R, Nat)
  BY NatLessThanWellFounded
<1>2. \A j, k \in Nat : <<j, k>> \in R <=> j < k
  BY DEF OpToRel
<1> HIDE DEF R
<1>3. \E k \in T : \A j \in T : ~ (<<j, k>> \in R)
  BY <1>1, WFMin
<1>4. \A j, k \in Nat : ~ (j < k) => k <= j
  OBVIOUS
<1> QED
  BY <1>2, <1>3, <1>4

(* The course of a block is what its definition says: it exists for every  *)
(* list of transactions, by induction on the length.                       *)
LEMMA CourseSteps ==
  ASSUME NEW states, NEW txs, Len(txs) \in Nat, NEW m
  PROVE  /\ Ledger!Course(states, txs, m)[0] = states
         /\ \A n \in 1 .. Len(txs) :
               Ledger!Course(states, txs, m)[n] =
                  Ledger!Apply(Ledger!Course(states, txs, m)[n - 1], txs[n], m)
<1> DEFINE N == Len(txs)
           Good(f, k) ==
              f = [n \in 0 .. k |->
                     IF n = 0 THEN states ELSE Ledger!Apply(f[n - 1], txs[n], m)]
           T == {k \in 0 .. N : ~ \E f : Good(f, k)}
<1>1. Good([n \in 0 .. 0 |-> states], 0)
  OBVIOUS
<1>2. ASSUME NEW k \in 1 .. N, NEW f, Good(f, k - 1)
      PROVE  \E g : Good(g, k)
  <2> DEFINE last == Ledger!Apply(f[k - 1], txs[k], m)
             g == [n \in 0 .. k |-> IF n = k THEN last ELSE f[n]]
  <2>1. k \in Nat /\ k # 0 /\ k - 1 \in 0 .. k /\ k - 1 # k
    OBVIOUS
  <2>2. g[0] = f[0] /\ f[0] = states
    BY <1>2, <2>1
  <2>3. ASSUME NEW n \in 0 .. k, n # 0, n # k
        PROVE  g[n] = Ledger!Apply(g[n - 1], txs[n], m)
    <3>1. n \in 0 .. k - 1 /\ n - 1 \in 0 .. k /\ n - 1 # k
      BY <2>3
    <3>2. g[n] = f[n] /\ g[n - 1] = f[n - 1]
      BY <2>3, <3>1
    <3>3. f[n] = Ledger!Apply(f[n - 1], txs[n], m)
      BY <1>2, <2>3, <3>1
    <3> QED  BY <3>2, <3>3
  <2>4. g[k] = Ledger!Apply(g[k - 1], txs[k], m)
    BY <2>1
  <2>5. g = [n \in 0 .. k |-> g[n]]
    OBVIOUS
  <2> HIDE DEF g
  <2>6. \A n \in 0 .. k :
           g[n] = IF n = 0 THEN states ELSE Ledger!Apply(g[n - 1], txs[n], m)
    BY <2>2, <2>3, <2>4
  <2> QED  BY <2>5, <2>6
<1>3. T = {}
  <2>1. SUFFICES ASSUME T # {} PROVE FALSE
    OBVIOUS
  <2>2. PICK k \in T : \A j \in T : k <= j
    <3>1. T \in SUBSET Nat
      OBVIOUS
    <3> HIDE DEF T
    <3> QED  BY <2>1, <3>1, LeastNumber
  <2>3. k \in 0 .. N /\ k # 0
    BY <1>1
  <2>4. k \in 1 .. N /\ k - 1 \in 0 .. N /\ ~ (k <= k - 1)
    BY <2>3
  <2>5. PICK f : Good(f, k - 1)
    BY <2>2, <2>4
  <2>6. \E g : Good(g, k)
    BY <1>2, <2>4, <2>5
  <2> QED  BY <2>6
<1>4. \E f : Good(f, N)
  BY <1>3
<1>5. Good(Ledger!Course(states, txs, m), N)
  BY <1>4 DEF Ledger!Course
<1> QED
  BY <1>5

(* The ledger's own copies of Front and Last are the engine's *)
LEMMA LedgerFront == \A s : Ledger!Front(s) = Front(s) /\ Ledger!Last(s) = Last(s)
BY DEF Front, Last, Ledger!Front, Ledger!Last

-----------------------------------------------------------------------------
(* The transactions under way are ones the listener may send *)
Known ==
    \A i \in 1..Len(receiver) : receiver[i].type = "BlkAccepted" =>
        receiver[i].associated_txs \in TxLists

(* Half way through a block the episodes are half way through its course *)
InCourse ==
    expired = {} /\ pc = "accept" =>
        StatesOf(episodes) =
            Ledger!Course(StatesOf(Last(applied).before), msg.associated_txs, metadata)[handled]

NothingExpired == expired = {}

LInv == IInv /\ Known /\ InCourse

(* The versions the engine can go back to, without the one it is at *)
Pasts == [k \in 1..Len(applied) |-> StatesOf(applied[k].before)]

LedgerStates == {StatesOf(eps) : eps \in Episodes}

(* With a typed state, the versions are the pasts and, between messages,   *)
(* the present.                                                            *)
LEMMA VersionsShape ==
  ASSUME Typed
  PROVE  /\ Pasts \in Seq(LedgerStates)
         /\ Pasts = <<>> <=> applied = <<>>
         /\ applied # <<>> => Last(Pasts) = StatesOf(Last(applied).before)
         /\ StatesOf(episodes) \in LedgerStates
         /\ Versions = IF pc \in {"recv", "stopped"}
                       THEN Append(Pasts, StatesOf(episodes)) ELSE Pasts
<1>1. applied \in Seq(Marks) /\ Len(applied) \in Nat /\ episodes \in Episodes
  BY LenProperties DEF Typed, TypeOK, EngineTypeOK
<1>2. \A k \in 1..Len(applied) : applied[k].before \in Episodes
  <2>1. \A k \in 1..Len(applied) : applied[k] \in Marks
    BY <1>1, ElementOfSeq
  <2> QED
    BY <2>1 DEF Marks
<1>3. Pasts \in Seq(LedgerStates) /\ Len(Pasts) = Len(applied)
  BY <1>1, <1>2 DEF Pasts, LedgerStates
<1>4. Pasts = <<>> <=> applied = <<>>
  BY <1>1, <1>3, EmptySeq
<1>5. applied # <<>> => Last(Pasts) = StatesOf(Last(applied).before)
  <2> SUFFICES ASSUME applied # <<>>
               PROVE  Last(Pasts) = StatesOf(Last(applied).before)
    OBVIOUS
  <2>1. Len(applied) \in 1..Len(applied)
    BY <1>1, EmptySeq
  <2>2. Last(Pasts) = Pasts[Len(applied)] /\ Last(applied) = applied[Len(applied)]
    BY <1>3 DEF Last
  <2> QED
    BY <2>1, <2>2 DEF Pasts
<1>6. StatesOf(episodes) \in LedgerStates
  BY <1>1 DEF LedgerStates
<1>7. Versions = Pasts \o (IF pc \in {"recv", "stopped"} THEN <<StatesOf(episodes)>> ELSE <<>>)
  BY DEF Versions, Pasts
<1>8. Pasts \o <<>> = Pasts /\ Pasts \o <<StatesOf(episodes)>> = Append(Pasts, StatesOf(episodes))
  BY <1>3, <1>6, ConcatEmptySeq, AppendIsConcat
<1> QED
  BY <1>3, <1>4, <1>5, <1>6, <1>7, <1>8

VersionsAre ==
    Versions = IF pc \in {"recv", "stopped"} THEN Append(Pasts, StatesOf(episodes)) ELSE Pasts

(* The same of the state after a step *)
LEMMA VersionsAfter == Typed' => VersionsAre'
<1>1. Typed => VersionsAre
  BY VersionsShape DEF VersionsAre
<1> QED
  BY <1>1, PTL

(* One transaction of the engine is one transaction of the ledger *)
LEMMA OneTransaction ==
  ASSUME Typed, Effect \/ RejectCommand \/ SkipPayload
  PROVE  /\ StatesOf(episodes)' = Ledger!Apply(StatesOf(episodes), payload, metadata)
         /\ pc = "accept" /\ pc' = "accept" /\ handled + 1 \in 1..Len(msg.associated_txs)
         /\ handled' = handled + 1 /\ UNCHANGED receiver
<1>1. Pending /\ pc' = pc /\ handled' = handled + 1 /\ UNCHANGED receiver
  BY DEF Effect, CreateEpisode, ExecuteCommand, RejectCommand, SkipPayload, Runs, Advance
<1>2. /\ receiver # <<>> /\ msg.type = "BlkAccepted" /\ pc = "accept"
      /\ handled \in Nat /\ handled < Len(msg.associated_txs)
  BY <1>1 DEF Pending, Typed, PcInv, TypeOK, EngineTypeOK
<1>3. /\ payload \in Payloads /\ metadata \in PayloadMetadata
      /\ payload.kind = "NewEpisode" \/ IsCommand(payload) => payload.id \in EpisodeIds
      /\ Len(msg.associated_txs) \in Nat
  BY <1>1, <1>2, PayloadTyping, AcceptedMsg, LenProperties DEF Typed
<1>4. handled + 1 \in 1..Len(msg.associated_txs)
  BY <1>2, <1>3
<1>5. episodes \in Episodes
  BY DEF Typed, TypeOK, EngineTypeOK
<1>6. \A id \in EpisodeIds : /\ StatesOf(episodes)[id] = None <=> ~ Live(id)
                             /\ Live(id) => StatesOf(episodes)[id] = episodes[id].episode
  <2>1. \A id \in EpisodeIds : Live(id) => episodes[id].episode \in EpisodeStates
    BY <1>5 DEF Episodes, EpisodeWrappers, Live
  <2> QED
    BY <2>1, NoneAssumption DEF StatesOf, Live
(* If only one wrapper changes, so does only one state *)
<1>7. ASSUME NEW id \in EpisodeIds, NEW w \in EpisodeWrappers,
             episodes' = [episodes EXCEPT ![id] = w]
      PROVE  StatesOf(episodes)' = [StatesOf(episodes) EXCEPT ![id] = w.episode]
  <2>1. w # None
    BY NoneAssumption
  <2> QED
    BY <1>5, <1>7, <2>1 DEF StatesOf, Episodes
<1>8. CASE CreateEpisode
  <2> DEFINE s == Initialize(payload.participants, metadata)
             w == [episode |-> s, rollback_stack |-> <<>>]
  <2>1. /\ payload.kind = "NewEpisode" /\ payload.id \in EpisodeIds /\ ~ Live(payload.id)
        /\ episodes' = [episodes EXCEPT ![payload.id] = w]
    BY <1>3, <1>8 DEF CreateEpisode
  <2>2. s \in EpisodeStates
    BY <1>1, <1>2, <2>1, PayloadTyping, EpisodeTyping DEF Typed
  <2>3. w \in EpisodeWrappers /\ w.episode = s
    BY <2>2 DEF EpisodeWrappers
  <2>4. Ledger!Apply(StatesOf(episodes), payload, metadata)
           = [StatesOf(episodes) EXCEPT ![payload.id] = s]
    BY <1>6, <2>1 DEF Ledger!Apply
  <2> HIDE DEF w, s
  <2>5. StatesOf(episodes)' = [StatesOf(episodes) EXCEPT ![payload.id] = s]
    BY <1>7, <2>1, <2>3
  <2> QED
    BY <1>1, <1>2, <1>4, <2>4, <2>5
<1>9. CASE ExecuteCommand \/ RejectCommand
  <2>1. /\ IsCommand(payload) /\ payload.id \in EpisodeIds
        /\ Live(payload.id) /\ SignatureHolds(payload)
    BY <1>3, <1>9 DEF ExecuteCommand, RejectCommand, Runs
  <2>2. /\ Outcome \in [ok : BOOLEAN, state : EpisodeStates, undo : Undos]
        /\ episodes[payload.id] \in EpisodeWrappers
    <3>1. episodes[payload.id] \in EpisodeWrappers
      BY <1>5, <2>1 DEF Episodes, Live
    <3> QED
      BY <1>1, <1>2, <2>1, <3>1, PayloadTyping, EpisodeTyping
         DEF Typed, Outcome, EpisodeWrappers
  <2>3. PICK w \in EpisodeWrappers :
           episodes' = [episodes EXCEPT ![payload.id] = w] /\ w.episode = Outcome.state
    <3>1. CASE ExecuteCommand
      <4> DEFINE w == [episode |-> Outcome.state,
                       rollback_stack |-> Append(episodes[payload.id].rollback_stack,
                                                 Outcome.undo)]
      <4>1. w \in EpisodeWrappers /\ w.episode = Outcome.state
        BY <2>2 DEF EpisodeWrappers
      <4>2. episodes' = [episodes EXCEPT ![payload.id] = w]
        BY <3>1 DEF ExecuteCommand
      <4> HIDE DEF w
      <4> QED  BY <4>1, <4>2
    <3>2. CASE RejectCommand
      <4> DEFINE w == [episode |-> Outcome.state,
                       rollback_stack |-> episodes[payload.id].rollback_stack]
      <4>1. w \in EpisodeWrappers /\ w.episode = Outcome.state
        BY <2>2 DEF EpisodeWrappers
      <4>2. episodes' = [episodes EXCEPT ![payload.id] = w]
        BY <3>2 DEF RejectCommand
      <4> HIDE DEF w
      <4> QED  BY <4>1, <4>2
    <3> QED  BY <1>9, <3>1, <3>2
  <2>4. Ledger!Apply(StatesOf(episodes), payload, metadata)
           = [StatesOf(episodes) EXCEPT ![payload.id] = Outcome.state]
    BY <1>6, <2>1 DEF Ledger!Apply, Outcome, IsCommand, SignatureHolds, Authorization
  <2> QED
    BY <1>1, <1>2, <1>4, <1>7, <2>1, <2>3, <2>4
<1>10. CASE SkipPayload
  <2>1. Unhandled /\ episodes' = episodes
    BY <1>10 DEF SkipPayload
  <2>2. Ledger!Apply(StatesOf(episodes), payload, metadata) = StatesOf(episodes)
    BY <1>3, <1>6, <2>1 DEF Ledger!Apply, Unhandled, IsCommand, SignatureHolds
  <2> QED
    BY <1>1, <1>2, <1>4, <2>1, <2>2 DEF StatesOf
<1> QED
  BY <1>1, <1>2, <1>4, <1>8, <1>9, <1>10 DEF Effect
(* The listener sends blocks of TxLists only, and the engine alters none *)
LEMMA KnownStep ==
  ASSUME IInv, Known, Next
  PROVE  Known'
<1>0. receiver \in Seq(EngineMsgs)
  BY DEF IInv, Typed, TypeOK, EngineTypeOK
<1>1. CASE FeedStep
  <2>1. PICK m \in EngineMsgs :
           /\ receiver' = Append(receiver, m)
           /\ m.type = "BlkAccepted" => m.associated_txs \in TxLists
    <3>0. ASSUME NEW c \in Feed!Contents, NEW h \in BlockHashes
          PROVE  /\ Feed!Accepted(h, c) \in EngineMsgs
                 /\ Feed!Accepted(h, c).associated_txs \in TxLists
      <4>1. c.daa \in DaaScores /\ c.txs \in TxLists /\ c.txs \in Seq(Payloads)
        BY TxListsAssumption DEF Feed!Contents
      <4> QED
        BY <4>1 DEF Feed!Accepted, EngineMsgs
    <3>1. CASE Feed!AcceptNew
      <4>1. PICK h \in BlockHashes, c \in Feed!Contents :
               receiver' = Append(receiver, Feed!Accepted(h, c))
        BY <3>1 DEF Feed!AcceptNew, Feed!Extend, Feed!Send
      <4> QED
        BY <3>0, <4>1
    <3>2. CASE Feed!AcceptAgain
      <4>1. PICK h \in BlockHashes :
               /\ blocks[h] # None
               /\ receiver' = Append(receiver, Feed!Accepted(h, blocks[h]))
        BY <3>2 DEF Feed!AcceptAgain, Feed!Extend, Feed!Send
      <4>2. blocks[h] \in Feed!Contents
        BY <4>1 DEF IInv, Typed, TypeOK, Feed!FeedTypeOK
      <4> QED
        BY <3>0, <4>1, <4>2
    <3>3. CASE Feed!RevertTip
      <4>1. receiver' = Append(receiver, Feed!Reverted(Last(chain))) /\ Last(chain) \in BlockHashes
        <5>1. chain \in Seq(BlockHashes) /\ chain # <<>>
          BY <3>3 DEF Feed!RevertTip, IInv, Typed, TypeOK, Feed!FeedTypeOK
        <5> QED
          BY <3>3, <5>1, FeedFront DEF Feed!RevertTip, Feed!Send, Last
      <4>2. /\ Feed!Reverted(Last(chain)) \in EngineMsgs
            /\ Feed!Reverted(Last(chain)).type = "BlkReverted"
        BY <4>1 DEF Feed!Reverted, EngineMsgs
      <4> QED
        BY <4>1, <4>2
    <3>4. CASE Feed!RevertOther
      <4>1. PICK h \in BlockHashes : receiver' = Append(receiver, Feed!Reverted(h))
        BY <3>4 DEF Feed!RevertOther, Feed!Send
      <4>2. Feed!Reverted(h) \in EngineMsgs /\ Feed!Reverted(h).type = "BlkReverted"
        BY DEF Feed!Reverted, EngineMsgs
      <4> QED
        BY <4>1, <4>2
    <3>5. CASE Feed!SendExit
      BY <3>5 DEF Feed!SendExit, Feed!Send, EngineMsgs
    <3> QED
      BY <1>1, <3>1, <3>2, <3>3, <3>4, <3>5 DEF FeedStep, Feed!FeedNext
  <2>2. /\ Len(receiver) \in Nat
        /\ Len(receiver') = Len(receiver) + 1
        /\ \A i \in 1..Len(receiver) : receiver'[i] = receiver[i]
        /\ receiver'[Len(receiver) + 1] = m
    BY <1>0, <2>1, AppendFacts
  <2>3. \A i \in 1..Len(receiver) + 1 : i \in 1..Len(receiver) \/ i = Len(receiver) + 1
    BY <2>2
  <2> QED
    BY <2>1, <2>2, <2>3 DEF Known
<1>2. CASE Quiet
  BY <1>2, QuietShape DEF IInv, Known
<1>3. CASE Consumes
  <2>1. receiver # <<>> /\ receiver' = Tail(receiver)
    BY <1>3, ConsumesShape DEF IInv
  <2>2. /\ Len(receiver) \in Nat
        /\ Len(receiver') = Len(receiver) - 1
        /\ \A i \in 1..(Len(receiver) - 1) : receiver'[i] = receiver[i + 1]
    BY <1>0, <2>1, TailFacts
  <2>3. \A i \in 1..(Len(receiver) - 1) : i + 1 \in 1..Len(receiver)
    BY <2>2
  <2> QED
    BY <2>2, <2>3 DEF Known
<1> QED
  BY <1>1, <1>2, <1>3 DEF Next, EngineProgress, Quiet, Consumes

(* Each transaction handled is one step of the block's course *)
LEMMA CourseStep ==
  ASSUME IInv, InCourse, Next
  PROVE  InCourse'
<1>0. Typed
  BY DEF IInv
<1>1. CASE FeedStep
  <2>1. UNCHANGED <<episodes, pc, handled, applied, expired>>
    BY <1>1 DEF FeedStep, engineVars
  <2>2. pc = "accept" => msg' = msg
    <3>1. PICK m \in EngineMsgs : receiver' = Append(receiver, m)
      BY <1>0, <1>1, FeedMessages DEF FeedStep, Typed
    <3> QED
      BY <1>0, <3>1, HeadStays DEF Typed, PcInv, TypeOK, EngineTypeOK, msg
  <2> QED
    BY <2>1, <2>2 DEF InCourse, StatesOf, metadata
<1>2. CASE Accept
  <2> SUFFICES ASSUME expired' = {}
               PROVE  StatesOf(episodes)' =
                         Ledger!Course(StatesOf(Last(applied).before), msg.associated_txs,
                                       metadata)[handled]'
    BY DEF InCourse
  <2> DEFINE mk == [hash |-> msg.accepting_hash, from |-> Len(trail), before |-> episodes]
  <2>1. /\ receiver # <<>> /\ msg.type = "BlkAccepted" /\ msg' = msg
        /\ applied' = Append(applied, mk) /\ handled' = 0
        /\ episodes' = Without(episodes, FilteredOut(msg.accepting_daa))
        /\ FilteredOut(msg.accepting_daa) = {}
    BY <1>2 DEF Accept, RecvBlkAccepted, Receives, filter_old_episodes, msg
  <2>2. episodes' = episodes
    BY <1>0, <2>1 DEF Without, Typed, TypeOK, EngineTypeOK, Episodes
  <2>3. mk \in Marks /\ mk.before = episodes
    BY <1>0, <2>1, AcceptedMsg, LenProperties DEF Typed, TypeOK, EngineTypeOK, Marks
  <2> HIDE DEF mk
  <2>4. Last(applied') = mk
    BY <1>0, <2>1, <2>3, AppendFacts DEF Typed, TypeOK
  <2>5. Len(msg.associated_txs) \in Nat
    BY <1>0, <2>1, AcceptedMsg, LenProperties DEF Typed
  <2>6. \A m : Ledger!Course(StatesOf(episodes), msg.associated_txs, m)[0] = StatesOf(episodes)
    BY <2>5, CourseSteps
  <2>7. StatesOf(episodes)' = StatesOf(episodes)
    BY <2>2 DEF StatesOf
  <2>8. StatesOf(Last(applied).before)' = StatesOf(episodes)
    BY <2>3, <2>4 DEF StatesOf
  <2> QED
    BY <2>1, <2>6, <2>7, <2>8
<1>3. CASE (Effect \/ RejectCommand \/ SkipPayload) /\ UNCHANGED <<applied, expired>>
  <2> DEFINE before == StatesOf(Last(applied).before)
             txs == msg.associated_txs
             m == metadata
  <2>1. /\ StatesOf(episodes)' = Ledger!Apply(StatesOf(episodes), payload, m)
        /\ pc = "accept" /\ handled + 1 \in 1..Len(txs)
        /\ handled' = handled + 1 /\ UNCHANGED receiver
    BY <1>0, <1>3, OneTransaction
  <2>2. UNCHANGED <<applied, expired>>
    BY <1>3
  <2>3. txs' = txs /\ m' = m /\ before' = before
    BY <2>1, <2>2 DEF msg, metadata, StatesOf
  <2>4. Len(txs) \in Nat /\ handled \in Nat
    BY <1>0, <2>1, AcceptedMsg, LenProperties DEF Typed, PcInv, TypeOK, EngineTypeOK
  <2>5. expired = {} => StatesOf(episodes) = Ledger!Course(before, txs, m)[handled]
    BY <2>1 DEF InCourse
  <2>6. payload = txs[handled + 1]
    BY DEF payload
  <2> HIDE DEF before, txs, m
  <2>7. Ledger!Course(before, txs, m)[handled + 1] =
           Ledger!Apply(Ledger!Course(before, txs, m)[handled], txs[handled + 1], m)
    <3>1. \A n \in 1..Len(txs) :
             Ledger!Course(before, txs, m)[n] =
                Ledger!Apply(Ledger!Course(before, txs, m)[n - 1], txs[n], m)
      BY <2>4, CourseSteps
    <3>2. PICK n \in 1..Len(txs) : n = handled + 1
      BY <2>1
    <3>3. n - 1 = handled
      BY <2>4, <3>2
    <3> QED
      BY <3>1, <3>2, <3>3
  <2>8. expired = {} => StatesOf(episodes)' = Ledger!Course(before, txs, m)[handled']
    BY <2>1, <2>5, <2>6, <2>7
  <2>9. (Ledger!Course(before, txs, m)[handled])' = Ledger!Course(before, txs, m)[handled']
    BY <2>3 DEF Ledger!Course, Ledger!Apply
  <2> QED
    BY <2>2, <2>8, <2>9 DEF InCourse, before, txs, m
<1>4. CASE RecvBlkReverted
  BY <1>4 DEF RecvBlkReverted, InCourse
<1>5. CASE Consumes
  BY <1>5, ConsumesShape DEF IInv, InCourse
<1>6. CASE Undo
  BY <1>6, UndoPops DEF IInv, InCourse
<1> QED
  BY <1>1, <1>2, <1>3, <1>4, <1>5, <1>6
     DEF Next, EngineProgress, Effect, NoEffect, Consumes, auxVars

(* Every step is a step of the ledger or a stutter.  A reversion is the    *)
(* ledger's as soon as its message is taken: when its last rollback object *)
(* is applied the episodes are the version that was the last one already.  *)
LEMMA LedgerStep ==
  ASSUME LInv, Next, NothingExpired'
  PROVE  Ledger!AcceptBlock \/ Ledger!RevertBlock \/ Versions' = Versions
<1>0. Typed /\ Typed' /\ IInv
  BY InvariantStep DEF LInv, IInv
<1>1. /\ Pasts \in Seq(LedgerStates)
      /\ Pasts = <<>> <=> applied = <<>>
      /\ applied # <<>> => Last(Pasts) = StatesOf(Last(applied).before)
      /\ StatesOf(episodes) \in LedgerStates
      /\ Versions = IF pc \in {"recv", "stopped"}
                    THEN Append(Pasts, StatesOf(episodes)) ELSE Pasts
  BY <1>0, VersionsShape
<1>2. Versions' = IF pc' \in {"recv", "stopped"}
                  THEN Append(Pasts', StatesOf(episodes)') ELSE Pasts'
  BY <1>0, VersionsAfter DEF VersionsAre
<1>3. applied' = applied => Pasts' = Pasts
  BY DEF Pasts, StatesOf
<1>4. episodes' = episodes => StatesOf(episodes)' = StatesOf(episodes)
  BY DEF StatesOf
<1>5. CASE FeedStep \/ Discard
  <2>1. UNCHANGED <<applied, episodes>>
    BY <1>5 DEF FeedStep, Discard, RecvUnknownReverted, RecvExit, engineVars
  <2>2. pc \in {"recv", "stopped"} <=> pc' \in {"recv", "stopped"}
    BY <1>5 DEF FeedStep, Discard, RecvUnknownReverted, RecvExit, Receives, engineVars
  <2> QED
    BY <1>1, <1>2, <1>3, <1>4, <2>1, <2>2
<1>6. CASE Accept
  <2> DEFINE mk == [hash |-> msg.accepting_hash, from |-> Len(trail), before |-> episodes]
  <2>1. /\ receiver # <<>> /\ msg.type = "BlkAccepted" /\ pc = "recv" /\ pc' = "accept"
        /\ applied' = Append(applied, mk)
    BY <1>6 DEF Accept, RecvBlkAccepted, Receives
  <2>2. mk \in Marks /\ mk.before = episodes /\ applied \in Seq(Marks)
    BY <1>0, <2>1, AcceptedMsg, LenProperties DEF Typed, TypeOK, EngineTypeOK, Marks
  <2> HIDE DEF mk
  <2>3. /\ Len(applied) \in Nat /\ Len(applied') = Len(applied) + 1
        /\ \A i \in 1..Len(applied) : applied'[i] = applied[i]
        /\ applied'[Len(applied) + 1] = mk
    BY <2>1, <2>2, AppendFacts
  <2>4. Pasts' = [k \in 1..(Len(applied) + 1) |-> StatesOf(applied'[k].before)]
    BY <2>3 DEF Pasts, StatesOf
  <2>5. \A k \in 1..(Len(applied) + 1) :
           Pasts'[k] = IF k = Len(applied) + 1 THEN StatesOf(episodes) ELSE Pasts[k]
    BY <2>2, <2>3, <2>4 DEF Pasts
  <2>6. Len(Pasts) = Len(applied)
    BY <2>3 DEF Pasts
  <2>7. Pasts' = Append(Pasts, StatesOf(episodes))
    <3> DEFINE P == Pasts
               P1 == Pasts'
               s == StatesOf(episodes)
               n == Len(applied)
    <3>1. P \in Seq(LedgerStates) /\ s \in LedgerStates /\ n \in Nat /\ Len(P) = n
      BY <1>1, <2>3, <2>6
    <3>2. \A k \in 1..(n + 1) : P1[k] = IF k = n + 1 THEN s ELSE P[k]
      BY <2>5
    <3>3. P1 = [k \in 1..(n + 1) |-> P1[k]]
      BY <2>4
    <3> HIDE DEF P, P1, s, n
    <3>4. P1 = [k \in 1..(n + 1) |-> IF k = n + 1 THEN s ELSE P[k]]
      BY <3>2, <3>3
    <3>5. Append(P, s) = [k \in 1..(n + 1) |-> IF k = n + 1 THEN s ELSE P[k]]
      <4>1. /\ Append(P, s) \in Seq(LedgerStates) /\ Len(Append(P, s)) = n + 1
            /\ \A k \in 1..n : Append(P, s)[k] = P[k]
            /\ Append(P, s)[n + 1] = s
        BY <3>1, AppendFacts
      <4>2. \A k \in 1..(n + 1) : Append(P, s)[k] = IF k = n + 1 THEN s ELSE P[k]
        BY <3>1, <4>1
      <4>3. Append(P, s) = [k \in 1..(n + 1) |-> Append(P, s)[k]]
        <5> DEFINE q == Append(P, s)
        <5>1. q \in Seq(LedgerStates) /\ Len(q) = n + 1
          BY <4>1
        <5> HIDE DEF q
        <5>2. q = [k \in 1..Len(q) |-> q[k]]
          BY <5>1
        <5>3. q = [k \in 1..(n + 1) |-> q[k]]
          BY <5>1, <5>2
        <5> QED
          BY <5>3 DEF q
      <4> QED
        BY <4>2, <4>3
    <3>6. P1 = Append(P, s)
      BY <3>4, <3>5
    <3> QED
      BY <3>6 DEF P, P1, s
  <2> QED
    BY <1>1, <1>2, <2>1, <2>7
<1>7. CASE Effect \/ ((RejectCommand \/ SkipPayload) /\ UNCHANGED auxVars) \/ Undo
  <2>1. applied' = applied /\ pc' = pc
    BY <1>7 DEF Effect, CreateEpisode, ExecuteCommand, RejectCommand, SkipPayload, Advance, Undo,
                UndoCommand, UndoCreation, UndoMissing, RevertOne, auxVars
  <2>2. pc \in {"accept", "revert"}
    BY <1>7 DEF Effect, CreateEpisode, ExecuteCommand, RejectCommand, SkipPayload, Undo, Runs,
                UndoCommand, UndoCreation, UndoMissing, Pending, Reverting
  <2> QED
    BY <1>1, <1>2, <1>3, <2>1, <2>2
<1>8. CASE RecvBlkReverted /\ UNCHANGED auxVars
  <2>1. /\ pc = "recv" /\ receiver # <<>> /\ msg.type = "BlkReverted"
        /\ revert_map[msg.accepting_hash] # None /\ pc' = "revert"
    BY <1>8 DEF RecvBlkReverted, Receives
  <2>2. applied # <<>>
    BY <1>0, <2>1, EntryIsLast DEF IInv
  <2>3. Versions = Append(Pasts, StatesOf(episodes)) /\ Versions' = Pasts
    BY <1>1, <1>2, <1>3, <1>8, <2>1 DEF auxVars
  <2>4. Ledger!Front(Versions) = Pasts
    <3>1. Front(Append(Pasts, StatesOf(episodes))) = Pasts
      BY <1>1, FrontOfAppend
    <3> QED
      BY <2>3, <3>1, LedgerFront
  <2>5. Len(Versions) > 1
    <3>1. Len(Pasts) \in Nat \ {0} /\ Len(Versions) = Len(Pasts) + 1
      BY <1>1, <2>2, <2>3, EmptySeq, AppendFacts
    <3> QED
      BY <3>1
  <2> QED
    BY <2>3, <2>4, <2>5 DEF Ledger!RevertBlock
<1>9. CASE Accepted
  <2> DEFINE before == StatesOf(Last(applied).before)
  <2>1. /\ pc = "accept" /\ pc' = "recv" /\ handled = Len(msg.associated_txs)
        /\ UNCHANGED <<episodes, applied, expired>>
    BY <1>9 DEF Accepted, FinishAccepted
  <2>2. /\ receiver # <<>> /\ msg.type = "BlkAccepted" /\ applied # <<>>
    BY <1>0, <2>1 DEF Typed, PcInv, IInv, Current
  <2>3. /\ msg.accepting_hash \in BlockHashes /\ msg.accepting_daa \in DaaScores
        /\ metadata = [accepting_hash |-> msg.accepting_hash, accepting_daa |-> msg.accepting_daa]
    BY <1>0, <2>2, AcceptedMsg DEF Typed, metadata
  <2>4. msg.associated_txs \in TxLists
    <3>1. receiver \in Seq(EngineMsgs)
      BY <1>0 DEF Typed, TypeOK, EngineTypeOK
    <3>2. 1 \in 1..Len(receiver) /\ msg = receiver[1]
      BY <2>2, <3>1, TailFacts DEF msg
    <3> QED
      BY <2>2, <3>2 DEF LInv, Known
  <2>5. StatesOf(episodes) = Ledger!ApplyBlock(before, msg.associated_txs, metadata)
    BY <2>1 DEF LInv, InCourse, NothingExpired, Ledger!ApplyBlock
  <2>6. Versions = Pasts /\ Versions' = Append(Pasts, StatesOf(episodes))
    BY <1>1, <1>2, <1>3, <1>4, <2>1
  <2>7. Ledger!Last(Versions) = before
    BY <1>1, <2>2, <2>6, LedgerFront
  <2> HIDE DEF before
  <2>8. Versions' = Append(Versions, Ledger!ApplyBlock(Ledger!Last(Versions), msg.associated_txs,
                         [accepting_hash |-> msg.accepting_hash,
                          accepting_daa |-> msg.accepting_daa]))
    BY <2>3, <2>5, <2>6, <2>7
  <2> QED
    BY <2>3, <2>4, <2>8 DEF Ledger!AcceptBlock
<1>10. CASE Reverted
  <2>1. /\ pc = "revert" /\ pc' = "recv" /\ UNCHANGED <<episodes, expired>>
        /\ applied' = Front(applied)
    BY <1>10 DEF Reverted, FinishReverted
  <2>2. applied # <<>> /\ applied \in Seq(Marks)
    BY <1>0, <2>1 DEF IInv, Current, Typed, TypeOK
  <2>3. \A id \in EpisodeIds : episodes[id] = Last(applied).before[id]
    BY <1>0, <1>10, <2>1, Restored DEF NothingExpired, Kept
  <2>4. StatesOf(episodes) = Last(Pasts)
    BY <1>1, <2>2, <2>3 DEF StatesOf
  <2>5. Pasts' = Front(Pasts)
    <3>1. /\ Len(applied) \in Nat \ {0} /\ Len(applied') = Len(applied) - 1
          /\ \A i \in 1..(Len(applied) - 1) : applied'[i] = applied[i]
      BY <2>1, <2>2, FrontType
    <3>2. Pasts' = [k \in 1..(Len(applied) - 1) |-> StatesOf(applied[k].before)]
      BY <3>1 DEF Pasts, StatesOf
    <3>3. Len(Pasts) = Len(applied)
      BY <3>1 DEF Pasts
    <3>4. \A k \in 1..(Len(applied) - 1) : Pasts[k] = StatesOf(applied[k].before)
      BY <3>1 DEF Pasts
    <3> QED
      BY <1>1, <3>1, <3>2, <3>3, <3>4 DEF Front
  <2>6. Append(Front(Pasts), Last(Pasts)) = Pasts
    BY <1>1, <2>2, EmptySeq DEF Front, Last
  <2> QED
    BY <1>1, <1>2, <1>4, <2>1, <2>4, <2>5, <2>6
<1> QED
  <2>1. CASE FeedStep \/ Accept \/ Effect \/ Accepted \/ Undo \/ Reverted \/ Discard
    BY <1>5, <1>6, <1>7, <1>9, <1>10, <2>1
  <2>2. CASE NoEffect
    BY <1>7, <1>8, <2>2 DEF NoEffect
  <2> QED
    BY <2>1, <2>2 DEF LInv, Next, EngineProgress

(* The invariant of the refinement *)
LEMMA LedgerInvariance == Spec => []LInv
<1>1. Init => LInv
  <2> SUFFICES ASSUME Init PROVE LInv
    OBVIOUS
  <2>1. receiver = <<>> /\ pc = "recv"
    BY DEF Init, EngineInit
  <2> QED
    BY <2>1, InvariantInit, EmptySeq DEF LInv, Known, InCourse
<1>2. LInv /\ [Next]_vars => LInv'
  <2> SUFFICES ASSUME LInv, [Next]_vars PROVE LInv'
    OBVIOUS
  <2>1. CASE Next
    BY <2>1, InvariantStep, KnownStep, CourseStep DEF LInv
  <2>2. CASE UNCHANGED vars
    <3>1. Known' /\ InCourse'
      BY <2>2 DEF LInv, Known, InCourse, StatesOf, metadata, msg, vars, engineVars, auxVars
    <3> QED
      BY <2>2, <3>1, InvariantStep DEF LInv
  <2> QED
    BY <2>1, <2>2
<1> QED
  BY <1>1, <1>2, PTL DEF Spec

(* As long as no episode expires, the engine, which executes blocks one    *)
(* transaction at a time and reverts them with rollback objects, behaves   *)
(* as the ledger that applies them as a whole and keeps old versions.      *)
THEOREM EngineImplementsLedger == Spec /\ []NothingExpired => ImplementsLedger
<1>1. Init => Ledger!LedgerInit
  <2> SUFFICES ASSUME Init PROVE Versions = <<Ledger!NoEpisodes>>
    BY DEF Ledger!LedgerInit
  <2>1. pc = "recv" /\ applied = <<>> /\ episodes = [id \in EpisodeIds |-> None]
    BY DEF Init, EngineInit
  <2>2. StatesOf(episodes) = Ledger!NoEpisodes
    BY <2>1 DEF StatesOf, Ledger!NoEpisodes
  <2>3. Pasts = <<>> /\ Versions = Append(Pasts, StatesOf(episodes))
    BY <2>1, TypedInit, VersionsShape
  <2> QED
    BY <2>2, <2>3
<1>2. LInv /\ NothingExpired' /\ [Next]_vars => [Ledger!AcceptBlock \/ Ledger!RevertBlock]_Versions
  <2> SUFFICES ASSUME LInv, NothingExpired', [Next]_vars
               PROVE  Ledger!AcceptBlock \/ Ledger!RevertBlock \/ Versions' = Versions
    OBVIOUS
  <2>1. CASE Next
    BY <2>1, LedgerStep
  <2>2. CASE UNCHANGED vars
    BY <2>2 DEF vars, engineVars, auxVars, Versions, StatesOf
  <2> QED
    BY <2>1, <2>2
<1> QED
  BY <1>1, <1>2, LedgerInvariance, PTL DEF Spec, ImplementsLedger, Ledger!LedgerSpec
=============================================================================
