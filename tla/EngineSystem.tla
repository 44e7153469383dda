---------------------------- MODULE EngineSystem ----------------------------
(***************************************************************************)
(* An engine fed by ChainFeed, with what is needed to say what a           *)
(* reversion must restore.  The auxiliary variables record and decide      *)
(* nothing: views, the chain that each message of the channel leads to;    *)
(* applied, the blocks the engine has accepted and not reverted, each with *)
(* the episodes before it; trail, the messages that changed an episode,    *)
(* each with the episodes before it; expired, the ids whose episode        *)
(* filter_old_episodes has ever removed.                                   *)
(***************************************************************************)
EXTENDS Engine

CONSTANTS
    TxLists,     \* the transactions of this engine that a block may accept
    MaxReorg,    \* DAA below the highest score seen that a new tip can have
    MaxQueue     \* bound on the lag of the engine behind the listener

(* Kaspa's finality window is far shorter than the life of an episode *)
ASSUME ReorgAssumption == MaxReorg \in Nat /\ MaxReorg <= EPISODE_LIFETIME

ASSUME TxListsAssumption == TxLists \subseteq Seq(Payloads)

VARIABLES blocks, chain, peak, closed, views, applied, trail, expired

feedVars == <<blocks, chain, peak, closed>>
auxVars == <<views, applied, trail, expired>>
vars == <<receiver, engineVars, feedVars, auxVars>>

Feed == INSTANCE ChainFeed

ASSUME NoBlockAssumption == None \notin Feed!Contents

Marks == [hash : BlockHashes, from : Nat, before : Episodes]
Effects == [id : EpisodeIds, before : Episodes]

TypeOK ==
    /\ EngineTypeOK
    /\ Feed!FeedTypeOK
    /\ views \in Seq(Seq(BlockHashes))
    /\ applied \in Seq(Marks)
    /\ trail \in Seq(Effects)
    /\ expired \subseteq EpisodeIds

Init ==
    /\ EngineInit
    /\ Feed!FeedInit
    /\ views = <<>>
    /\ applied = <<>>
    /\ trail = <<>>
    /\ expired = {}

FeedStep ==
    /\ Len(receiver) < MaxQueue
    /\ Feed!FeedNext
    /\ views' = Append(views, chain')
    /\ UNCHANGED <<engineVars, applied, trail, expired>>

Accept ==
    /\ RecvBlkAccepted
    /\ applied' = Append(applied, [hash |-> msg.accepting_hash,
                                   from |-> Len(trail), before |-> episodes])
    /\ expired' = expired \cup FilteredOut(msg.accepting_daa)
    /\ UNCHANGED <<views, trail, feedVars>>

Effect ==
    /\ CreateEpisode \/ ExecuteCommand
    /\ trail' = Append(trail, [id |-> payload.id, before |-> episodes])
    /\ UNCHANGED <<views, applied, expired, feedVars>>

NoEffect ==
    /\ RejectCommand \/ SkipPayload \/ RecvBlkReverted
    /\ UNCHANGED <<auxVars, feedVars>>

Accepted ==
    /\ FinishAccepted
    /\ views' = Tail(views)
    /\ UNCHANGED <<applied, trail, expired, feedVars>>

Undo ==
    /\ UndoCommand \/ UndoCreation \/ UndoMissing
    /\ trail' = Front(trail)
    /\ UNCHANGED <<views, applied, expired, feedVars>>

Reverted ==
    /\ FinishReverted
    /\ applied' = Front(applied)
    /\ views' = Tail(views)
    /\ UNCHANGED <<trail, expired, feedVars>>

Discard ==
    /\ RecvUnknownReverted \/ RecvExit
    /\ views' = Tail(views)
    /\ UNCHANGED <<applied, trail, expired, feedVars>>

EngineProgress ==
    Accept \/ Effect \/ NoEffect \/ Accepted \/ Undo \/ Reverted \/ Discard

Next == FeedStep \/ EngineProgress

(* The engine thread blocks only in recv(), so it runs while it has a      *)
(* message or a message to finish.                                         *)
Spec == Init /\ [][Next]_vars /\ WF_vars(EngineProgress)

-----------------------------------------------------------------------------
(* What one Revert makes of the wrapper of its episode *)
Undone(w) ==
    IF w = None \/ w.rollback_stack = <<>> THEN None
    ELSE [episode |-> Rollback(w.episode, Last(w.rollback_stack)).state,
          rollback_stack |-> Front(w.rollback_stack)]

(* The episodes right after the i-th effect of the trail *)
After(i) == IF i = Len(trail) THEN episodes ELSE trail[i + 1].before

Kept == EpisodeIds \ expired

(* Popping one rollback object leads from the episodes after each effect   *)
(* back to the episodes before it: EpisodeWrapper::rollback, for every     *)
(* episode that was never filtered, however many effects are undone.       *)
UndoTrail ==
    \A i \in 1..Len(trail), id \in Kept :
        trail[i].before[id] =
            IF id = trail[i].id THEN Undone(After(i)[id]) ELSE After(i)[id]

(* revert_map has an entry for each block that is applied and not in       *)
(* progress, and the entry of a block names, in order, the episodes its    *)
(* transactions changed: a reversion undoes these effects and no others.   *)
InProgress(k) == k = Len(applied) /\ pc \in {"accept", "revert"}

Until(k) == IF k = Len(applied) THEN Len(trail) ELSE applied[k + 1].from

Reversions(k) == IF InProgress(k) THEN revert_vec ELSE revert_map[applied[k].hash]

RevertMapFollowsChain ==
    /\ {h \in BlockHashes : revert_map[h] # None} =
          {applied[k].hash : k \in {j \in 1..Len(applied) : ~ InProgress(j)}}
    /\ \A j, k \in 1..Len(applied) : applied[j].hash = applied[k].hash => j = k
    /\ \A k \in 1..Len(applied) :
          Reversions(k) = [i \in 1..(Until(k) - applied[k].from) |->
                              trail[applied[k].from + i].id]

(* When the last reversion of a block is done, every episode that was      *)
(* never filtered is what it was before the block was accepted, rollback   *)
(* stack included: BlkReverted undoes BlkAccepted.                         *)
RevertRestores ==
    [][Reverted => \A id \in Kept :
          episodes[id] = Last(applied).before[id]]_vars

(* Every live episode is in the state its event handlers last saw, so a    *)
(* handler that keeps a copy (the indexer, the merchant) is never behind.  *)
HandlersInformed ==
    \A id \in EpisodeIds : Live(id) => observed[id] = episodes[id].episode

(* Filtering is sampled, so an episode outlives EPISODE_LIFETIME, but      *)
(* never by more than SAMPLE_REMOVAL_TIME when a block is executed.        *)
LifetimeBound ==
    pc = "accept" =>
        \A id \in EpisodeIds : Live(id) =>
            msg.accepting_daa - episode_creation_times[id]
                <= EPISODE_LIFETIME + SAMPLE_REMOVAL_TIME

(* Exit is the last message, so an engine that stops has applied the       *)
(* listener's whole chain, and it does stop.                               *)
StoppedOnChain ==
    pc = "stopped" => [k \in 1..Len(applied) |-> applied[k].hash] = chain

ExitStopsEngine == closed ~> pc = "stopped"

(* The versions of the episodes the engine can go back to.  While a block  *)
(* is executed or reverted the version under construction is not one.      *)
StatesOf(eps) == [id \in EpisodeIds |-> IF eps[id] = None THEN None ELSE eps[id].episode]

Versions ==
    [k \in 1..Len(applied) |-> StatesOf(applied[k].before)]
    \o (IF pc \in {"recv", "stopped"} THEN <<StatesOf(episodes)>> ELSE <<>>)

Ledger == INSTANCE EpisodeLedger WITH history <- Versions

(* As long as no episode expires, the engine, which executes a block one   *)
(* transaction at a time and reverts it with rollback objects, implements  *)
(* the ledger that applies blocks atomically and goes back to old versions.*)
ImplementsLedger == Ledger!LedgerSpec

-----------------------------------------------------------------------------
(***************************************************************************)
(* The inductive invariant.  UndoTrail speaks of single effects and        *)
(* RevertMapFollowsChain of the entries of revert_map; neither survives a  *)
(* step without knowing that messages arrive in an order that makes the    *)
(* reverted block the last applied one (InOrder, Current), and that the    *)
(* effects of a block are one segment of the trail (Segments, Marked).     *)
(***************************************************************************)

(* While a message is processed it stays at the head of the channel. *)
PcInv ==
    /\ pc = "accept" => /\ receiver # <<>>
                        /\ msg.type = "BlkAccepted"
                        /\ handled <= Len(msg.associated_txs)
    /\ pc = "revert" => receiver # <<>> /\ msg.type = "BlkReverted"
    /\ pc \in {"recv", "stopped"} => revert_vec = <<>>

Typed == TypeOK /\ PcInv

(* The block that is executed or reverted is the last applied one. *)
Current ==
    pc \in {"accept", "revert"} =>
        applied # <<>> /\ Last(applied).hash = msg.accepting_hash

(* The chain the engine is on when it turns to the message at the head *)
Heights == [k \in 1..Len(applied) |-> applied[k].hash]

EngineChain == IF pc = "accept" THEN Front(Heights) ELSE Heights

On(h, c) == \E j \in 1..Len(c) : c[j] = h

(* Message m leads from chain c to chain d *)
Leads(m, c, d) ==
    \/ /\ m.type = "BlkAccepted"
       /\ ~ On(m.accepting_hash, c)
       /\ d = Append(c, m.accepting_hash)
    \/ /\ m.type = "BlkReverted"
       /\ ~ On(m.accepting_hash, c)
       /\ d = c
    \/ /\ m.type = "BlkReverted"
       /\ c # <<>>
       /\ Last(c) = m.accepting_hash
       /\ d = Front(c)
    \/ /\ m.type = "Exit"
       /\ d = c

Before(i) == IF i = 1 THEN EngineChain ELSE views[i - 1]

InOrder ==
    /\ Len(views) = Len(receiver)
    /\ \A i \in 1..Len(receiver) : Leads(receiver[i], Before(i), views[i])
    /\ chain = IF receiver = <<>> THEN EngineChain ELSE views[Len(receiver)]
    /\ \A j \in 1..Len(chain) : blocks[chain[j]] # None

ExitLast ==
    /\ \A i \in 1..Len(receiver) :
          receiver[i].type = "Exit" => closed /\ i = Len(receiver)
    /\ pc = "stopped" => closed /\ receiver = <<>>

EntriesFollow ==
    /\ \A h \in BlockHashes :
          revert_map[h] # None <=>
              \E k \in 1..Len(applied) : ~ InProgress(k) /\ applied[k].hash = h
    /\ \A j, k \in 1..Len(applied) : applied[j].hash = applied[k].hash => j = k

Segments ==
    /\ \A k \in 1..Len(applied) : applied[k].from <= Len(trail)
    /\ \A j, k \in 1..Len(applied) : j <= k => applied[j].from <= applied[k].from
    /\ \A k \in 1..Len(applied) :
          /\ Reversions(k) \in Seq(EpisodeIds)
          /\ Len(Reversions(k)) = Until(k) - applied[k].from
          /\ \A i \in 1..Len(Reversions(k)) :
                Reversions(k)[i] = trail[applied[k].from + i].id

Marked ==
    \A k \in 1..Len(applied), id \in Kept :
        applied[k].before[id] = After(applied[k].from)[id]

(* No live episode is older than a lifetime at the last filtering, and no  *)
(* message on its way is much older than the last filtering or than the    *)
(* messages before it.                                                     *)
Ages ==
    /\ \A id \in EpisodeIds :
          Live(id) => next_filtering <= episode_creation_times[id] + EPISODE_LIFETIME
    /\ \A i \in 1..Len(receiver) : receiver[i].type = "BlkAccepted" =>
          /\ next_filtering <= receiver[i].accepting_daa + MaxReorg
          /\ receiver[i].accepting_daa <= peak
          /\ \A j \in 1..i : receiver[j].type = "BlkAccepted" =>
                receiver[j].accepting_daa <= receiver[i].accepting_daa + MaxReorg
    /\ next_filtering <= peak
    /\ pc = "accept" => msg.accepting_daa <= next_filtering + SAMPLE_REMOVAL_TIME

IInv ==
    /\ Typed
    /\ Current
    /\ InOrder
    /\ ExitLast
    /\ EntriesFollow
    /\ Segments
    /\ UndoTrail
    /\ Marked
    /\ HandlersInformed
    /\ Ages
=============================================================================
