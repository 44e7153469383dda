-------------------------------- MODULE Proxy --------------------------------
(***************************************************************************)
(* run_listener of kdapp/src/proxy.rs and the Kaspa node it polls.  Once a *)
(* second the listener asks for the selected chain from its sink, announces*)
(* the blocks that left it, then fetches the blocks that joined it one by  *)
(* one and hands each engine its transactions.  The node mines and         *)
(* reorganises, and RPC calls fail, between any two of these steps.        *)
(*                                                                         *)
(* fed[e] is what engine e has in effect once it has worked off its        *)
(* channel: BlkAccepted appends a block, BlkReverted takes one away.       *)
(***************************************************************************)
EXTENDS Integers, SequencesExt, Filters

CONSTANTS
    MaxBlocks,           \* bound on the blocks the node mines
    Unknown,
    Engines,             \* one per PrefixType, with its PatternType
    Txs,                 \* transactions
    BlockTxs,             \* those a block may accept, coinbase left out
    Matches(_, _),       \* check_pattern(id, pattern of the engine)
    HasHeader(_, _),     \* Payload::check_header(payload, prefix of the engine)
    MaxFaults            \* bound on the RPC calls that fail

(* Blocks are named in the order they are mined; what the node knows at    *)
(* the outset is one block.                                                *)
Blocks == 1..MaxBlocks
Genesis == 0

(* What the node knows of a block, and what an engine is fed of it *)
Records == [path : Seq(Blocks), txs : BlockTxs]
Batches == [hash : Blocks, txs : Seq(Txs)]

ASSUME ProxyAssumption ==
    /\ MaxBlocks \in Nat
    /\ MaxFaults \in Nat
    /\ BlockTxs \subseteq Seq(Txs)
    /\ Unknown \notin Records
    \* the prefix is unique per engine
    /\ \A t \in Txs, d, e \in Engines : HasHeader(t, d) /\ HasHeader(t, e) => d = e

VARIABLES
    dag,           \* hash -> [path, txs] of the blocks the node knows
    tip,           \* the node's sink
    stage,         \* start, tick, ask, dispatch, engines, done
    sink,          \* the listener's
    added,         \* chain blocks still to be fetched, oldest first
    todo,          \* engines still to be looked at for the fetched block
    required,      \* its required transactions no engine has consumed yet
    fed,
    exit_signal,
    faults,        \* RPC calls that failed
    floor,         \* auxiliary: length of the part of the chain never announced
    lost           \* auxiliary: a block or a reversion was given up

nodeVars == <<dag, tip>>
listenerVars == <<dag, tip, stage, sink, added, todo, required, fed, exit_signal, faults,
          floor, lost>>

Known == {h \in Blocks : dag[h] # Unknown}

Path(h) == IF h = Genesis THEN <<>> ELSE dag[h].path

ListenerInit ==
    /\ dag = [h \in Blocks |-> Unknown]
    /\ tip = Genesis
    /\ stage = "start"
    /\ sink = Genesis
    /\ added = <<>>
    /\ todo = {}
    /\ required = <<>>
    /\ fed = [e \in Engines |-> <<>>]
    /\ exit_signal = FALSE
    /\ faults = 0
    /\ floor = 0
    /\ lost = FALSE

-----------------------------------------------------------------------------
(* The node: a mined block becomes the sink if its chain is the heaviest,  *)
(* and may or may not if it is as heavy as the selected one.               *)

Mine ==
    LET h == Cardinality(Known) + 1 IN
    \E parent \in Known \cup {Genesis}, txs \in BlockTxs :
        /\ h <= MaxBlocks
        /\ dag' = [dag EXCEPT ![h] =
                      [path |-> Append(Path(parent), h), txs |-> txs]]
        /\ \/ tip' = h /\ Len(Path(parent)) + 1 >= Len(Path(tip))
           \/ tip' = tip /\ Len(Path(parent)) + 1 <= Len(Path(tip))
        /\ UNCHANGED <<stage, sink, added, todo, required, fed, exit_signal,
                       faults, floor, lost>>

RaiseExit ==
    /\ ~ exit_signal
    /\ exit_signal' = TRUE
    /\ UNCHANGED <<dag, tip, stage, sink, added, todo, required, fed, faults,
                   floor, lost>>

-----------------------------------------------------------------------------
(* The listener *)

Fault == faults < MaxFaults /\ faults' = faults + 1

(* get_block_dag_info, possibly after one reconnection *)
Start ==
    /\ stage = "start"
    /\ stage' = "tick"
    /\ sink' = tip
    /\ floor' = Len(Path(tip))
    /\ \/ UNCHANGED faults
       \/ Fault
    /\ UNCHANGED <<nodeVars, added, todo, required, fed, exit_signal, lost>>

(* The reconnection, or the second call, fails: the engines see their      *)
(* channels close without an Exit.                                         *)
StartFails ==
    /\ stage = "start"
    /\ Fault
    /\ stage' = "done"
    /\ UNCHANGED <<nodeVars, sink, added, todo, required, fed, exit_signal,
                   floor, lost>>

(* The top of the loop: exit_signal is read, then the listener sleeps *)
Wake ==
    /\ stage = "tick"
    /\ ~ exit_signal
    /\ stage' = "ask"
    /\ UNCHANGED <<nodeVars, sink, added, todo, required, fed, exit_signal,
                   faults, floor, lost>>

(* Exit goes to every engine *)
SendExit ==
    /\ stage = "tick"
    /\ exit_signal
    /\ stage' = "done"
    /\ UNCHANGED <<nodeVars, sink, added, todo, required, fed, exit_signal,
                   faults, floor, lost>>

(* How long a prefix the chains of two blocks share *)
Fork(p, q) ==
    Cardinality({i \in 1..Len(p) : i <= Len(q) /\ SubSeq(p, 1, i) = SubSeq(q, 1, i)})

(* BlkReverted for each removed block, to every engine: one without an     *)
(* entry for it takes no notice.                                           *)
Announce(removed) ==
    fed' = [e \in Engines |-> Keep(fed[e], {b \in Batches : b.hash \notin removed})]

(* get_virtual_chain_from_block succeeds and added is not empty *)
Poll ==
    LET old == Path(sink)
        new == Path(tip)
        n == Fork(old, new) IN
    /\ stage = "ask"
    /\ Len(new) > n
    /\ sink' = Last(new)
    /\ Announce({old[i] : i \in (n + 1)..Len(old)})
    /\ added' = SubSeq(new, n + 1, Len(new))
    /\ floor' = IF n < floor THEN n ELSE floor
    /\ stage' = "dispatch"
    /\ UNCHANGED <<nodeVars, todo, required, exit_signal, faults, lost>>

(* mutant: the next request follows without a look at exit_signal *)
NoNews_Mutant ==
    /\ stage = "ask"
    /\ Len(Path(tip)) = Fork(Path(sink), Path(tip))
    /\ UNCHANGED listenerVars

(* No block was added, which the listener takes to mean none was removed *)
NoNews ==
    /\ stage = "ask"
    /\ Len(Path(tip)) = Fork(Path(sink), Path(tip))
    /\ stage' = "tick"
    /\ UNCHANGED <<nodeVars, sink, added, todo, required, fed, exit_signal,
                   faults, floor, lost>>

(* The call fails, and so does the reconnection or get_block_dag_info after *)
(* it: the sink stays and the next tick asks again.                         *)
PollFails ==
    /\ stage = "ask"
    /\ Fault
    /\ stage' = "tick"
    /\ UNCHANGED <<nodeVars, sink, added, todo, required, fed, exit_signal,
                   floor, lost>>

(* The call fails and the reconnection succeeds: the sink is replaced by   *)
(* the node's, without announcing what lies between the two.               *)
ResetSink ==
    /\ stage = "ask"
    /\ Fault
    /\ stage' = "tick"
    /\ sink' = tip
    /\ lost' = (lost \/ tip # sink)
    /\ UNCHANGED <<nodeVars, added, todo, required, fed, exit_signal, floor>>

Fetching == stage = "dispatch" /\ added # <<>>

block == Head(added)

(* Transactions some engine's pattern asks for, in acceptance order *)
Asked == {t \in Txs : \E e \in Engines : Matches(t, e)}
RequiredOf(h) == Keep(dag[h].txs, Asked)

NextBlock ==
    /\ added' = Tail(added)
    /\ UNCHANGED <<nodeVars, sink, fed, exit_signal, floor>>

(* mutant: a block without required transactions is looked at again *)
NothingRequired_Mutant ==
    /\ Fetching
    /\ RequiredOf(block) = <<>>
    /\ UNCHANGED listenerVars

(* required_num = 0 *)
NothingRequired ==
    /\ Fetching
    /\ RequiredOf(block) = <<>>
    /\ NextBlock
    /\ UNCHANGED <<stage, todo, required, faults, lost>>

(* The accepting block and enough of its mergeset are fetched to find all  *)
(* required transactions.                                                  *)
Fetch ==
    /\ Fetching
    /\ RequiredOf(block) # <<>>
    /\ required' = RequiredOf(block)
    /\ todo' = Engines
    /\ stage' = "engines"
    /\ UNCHANGED <<nodeVars, sink, added, fed, exit_signal, faults, floor, lost>>

(* mutant: what was found of an incomplete mergeset is dispatched *)
SkipBlock_Mutant ==
    /\ Fetching
    /\ RequiredOf(block) # <<>>
    /\ Fault
    /\ lost' = TRUE
    /\ required' = Tail(RequiredOf(block))
    /\ todo' = Engines
    /\ stage' = "engines"
    /\ UNCHANGED <<nodeVars, sink, added, fed, exit_signal, floor>>

(* get_block fails, for the accepting block or for a merged block that     *)
(* holds a required transaction, or there is no verbose data: the block is *)
(* not dispatched at all.                                                  *)
SkipBlock ==
    /\ Fetching
    /\ RequiredOf(block) # <<>>
    /\ Fault
    /\ lost' = TRUE
    /\ NextBlock
    /\ UNCHANGED <<stage, todo, required>>

(* The transactions of the fetched block that engine e consumes *)
Consumed == [e \in Engines |-> {t \in Txs : Matches(t, e) /\ HasHeader(t, e)}]
ForEngine(e, txs) == Keep(txs, Consumed[e])

(* One turn of the loop over the engines, in the order of the HashMap; the *)
(* loop ends when every required transaction was consumed.                 *)
Dispatch ==
    /\ stage = "engines"
    /\ \E e \in todo :
        LET txs  == ForEngine(e, required)
            rest == Keep(required, Txs \ {txs[i] : i \in DOMAIN txs})
            over == todo = {e} \/ rest = <<>> IN
        /\ fed' = IF txs = <<>> THEN fed
                  ELSE [fed EXCEPT ![e] = Append(@, [hash |-> block, txs |-> txs])]
        /\ todo' = IF over THEN {} ELSE todo \ {e}
        /\ required' = IF over THEN <<>> ELSE rest
        /\ added' = IF over THEN Tail(added) ELSE added
        /\ stage' = IF over THEN "dispatch" ELSE "engines"
    /\ UNCHANGED <<nodeVars, sink, exit_signal, faults, floor, lost>>

BatchDone ==
    /\ stage = "dispatch"
    /\ added = <<>>
    /\ stage' = "tick"
    /\ UNCHANGED <<nodeVars, sink, added, todo, required, fed, exit_signal,
                   faults, floor, lost>>

Listen ==
    \/ Start \/ Wake \/ SendExit \/ Poll \/ NoNews
    \/ NothingRequired \/ Fetch \/ Dispatch \/ BatchDone
    \/ StartFails \/ PollFails \/ ResetSink \/ SkipBlock

ListenerNext == Mine \/ RaiseExit \/ Listen

(* An RPC call returns, with an answer or an error, and the listener goes  *)
(* on; nothing obliges the node to mine.                                   *)
ListenerSpec == ListenerInit /\ [][ListenerNext]_listenerVars /\ WF_listenerVars(Listen)

-----------------------------------------------------------------------------
(* What engine e should have in effect on the listener's chain *)
Due(e) ==
    LET news == SubSeq(Path(sink), floor + 1, Len(Path(sink)))
        pending == {added[i] : i \in DOMAIN added}
        mine == Keep(news, {h \in Range(news) \ pending :
                    ForEngine(e, dag[h].txs) # <<>>}) IN
    [i \in DOMAIN mine |-> [hash |-> mine[i], txs |-> ForEngine(e, dag[mine[i]].txs)]]

(* Between two blocks, each engine has in effect its transactions of the   *)
(* listener's chain: all of them, in chain order, once, and nothing that   *)
(* was reorganised away.                                                   *)
InSync == stage # "engines" => \A e \in Engines : fed[e] = Due(e)

(* As long as no RPC failure made it give up blocks, the listener keeps    *)
(* every engine on its chain, however the node reorganises between calls   *)
(* and however often a poll fails without a reconnection.  And a block is  *)
(* handed over with all transactions of the engine or not at all ("to      *)
(* avoid partial delivery"), also when blocks were lost.                   *)
FedWhole ==
    /\ ~ lost => InSync
    /\ \A e \in Engines : \A i \in DOMAIN fed[e] :
          fed[e][i].txs = ForEngine(e, dag[fed[e][i].hash].txs)

(* The listener stops when asked to, and otherwise reaches the node's      *)
(* chain whenever the node rests.                                          *)
CatchesUp == <>[](stage = "done" \/ (stage \in {"tick", "ask"} /\ sink = tip))

ExitIsAnswered == exit_signal ~> stage = "done"
=============================================================================
