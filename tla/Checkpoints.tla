----------------------------- MODULE Checkpoints -----------------------------
(***************************************************************************)
(* The checkpoints of the merchant: its event handler sends a hash of the  *)
(* episode's state to the watcher, which anchors it in a transaction.      *)
(*                                                                         *)
(* A state is a number, new for each command.  The watcher never answers,  *)
(* so each checkpoint is sent three times, with the engine's thread        *)
(* waiting; the watcher takes one datagram at a time.  Its address has one *)
(* large output, which every anchor spends and pays back; the merchant's   *)
(* own commands and kas-draw spend it too when they have the same key.     *)
(***************************************************************************)
EXTENDS Integers, Filters

CONSTANTS
    None,
    Copies,              \* 3 in the code
    Attempts,            \* of a submission, 3 in the code
    MaxStates, MaxTroubles         \* bounds of the model

VARIABLES
    states,              \* of the episode, the last one is the present
    made,                \* how many there have been
    seq, due,            \* SEQS; sixty seconds have passed since LAST_CKPT
    life,                \* history: how often the episode was initialized
    checkpoints,         \* history: all that were sent, [life, seq, root]
    sending,             \* the copies of the last one that are still to go
    net,                 \* datagrams, each the index of its checkpoint
    held,                \* what the watcher is submitting
    coin, pending,       \* the output, and the transaction that spends it
    anchors,             \* the checkpoints of accepted transactions
    missed,              \* history: copies that are not anchored, and why is known
    troubles

engineVars == <<states, made, seq, due, life, checkpoints, sending>>
watcherVars == <<net, held, missed>>
nodeVars == <<coin, pending, anchors>>

Trouble == troubles < MaxTroubles /\ troubles' = troubles + 1

-----------------------------------------------------------------------------
(* The engine's thread *)

Waiting == sending > 0
New == made + 1

emit_checkpoint(n, number, root) ==
    /\ seq' = number
    /\ due' = FALSE
    /\ checkpoints' = Append(checkpoints, [life |-> n, seq |-> number, root |-> root])
    /\ sending' = Copies

on_initialize ==
    /\ ~ Waiting /\ states = <<>> /\ made < MaxStates
    /\ states' = <<New>> /\ made' = New
    /\ life' = life + 1
    /\ emit_checkpoint(life + 1, 1, New)
    /\ UNCHANGED <<watcherVars, nodeVars, troubles>>

(* An AckReceipt is sent at once *)
on_command ==
    \E force \in BOOLEAN :
        /\ ~ Waiting /\ states # <<>> /\ made < MaxStates
        /\ states' = Append(states, New) /\ made' = New
        /\ IF force \/ due THEN emit_checkpoint(life, seq + 1, New)
           ELSE UNCHANGED <<seq, due, checkpoints, sending>>
        /\ UNCHANGED <<life, watcherVars, nodeVars, troubles>>

(* The checkpoint that was sent of the state remains *)
on_rollback ==
    /\ ~ Waiting /\ states # <<>> /\ Trouble
    /\ states' = SubSeq(states, 1, Len(states) - 1)
    /\ UNCHANGED <<made, seq, due, life, checkpoints, sending, watcherVars, nodeVars>>

(* Sixty seconds pass *)
Interval ==
    /\ ~ due
    /\ due' = TRUE
    /\ UNCHANGED <<states, made, seq, life, checkpoints, sending, watcherVars, nodeVars, troubles>>

send_with_retry ==
    /\ Waiting
    /\ sending' = sending - 1
    /\ \/ /\ net' = Append(net, Len(checkpoints))
          /\ UNCHANGED <<missed, troubles>>
       \/ /\ missed' = Append(missed, Len(checkpoints))
          /\ Trouble
          /\ UNCHANGED net
    /\ UNCHANGED <<states, made, seq, due, life, checkpoints, held, nodeVars>>

(* The process of the merchant starts again, with no episode *)
Restart ==
    /\ Trouble
    /\ states' = <<>> /\ seq' = 0 /\ due' = TRUE /\ sending' = 0
    /\ missed' = missed \o [i \in 1..sending |-> Len(checkpoints)]
    /\ UNCHANGED <<made, life, checkpoints, net, held, nodeVars>>

-----------------------------------------------------------------------------
(* The watcher *)

run ==
    /\ held = None /\ net # <<>>
    /\ held' = [of |-> Head(net), coin |-> None, taken |-> FALSE, tries |-> 0]
    /\ net' = Tail(net)
    /\ UNCHANGED <<engineVars, missed, nodeVars, troubles>>

(* The node does not know of the transactions it has not seen accepted     *)
submit_checkpoint_tx ==
    /\ held # None /\ held.coin = None
    /\ held' = [held EXCEPT !.coin = coin]
    /\ UNCHANGED <<engineVars, net, missed, nodeVars, troubles>>

GiveUp ==
    /\ held' = None
    /\ missed' = IF held.taken THEN missed ELSE Append(missed, held.of)

Retry(h) == IF h.tries + 1 = Attempts THEN None ELSE [h EXCEPT !.tries = @ + 1]

(* Mutant of Again for AnchorsExplained: a new transaction for every try   *)
Again_Mutant(h) == IF Retry(h) = None THEN None ELSE [Retry(h) EXCEPT !.coin = None]

Again(h) == Retry(h)

(* A connection that breaks hides whether the node has the transaction,    *)
(* and it is sent again; any other refusal but of a transaction that was   *)
(* accepted before is final.                                               *)
submit_tx_retry ==
    /\ held # None /\ held.coin # None
    /\ IF held.coin = coin /\ pending = None
       THEN \/ /\ pending' = held.of
               /\ held' = None
               /\ UNCHANGED <<missed, troubles>>
            \/ /\ pending' = held.of /\ Trouble
               /\ held' = Again([held EXCEPT !.taken = TRUE])
               /\ UNCHANGED missed
            \/ /\ Trouble
               /\ held' = Again(held)
               /\ missed' = IF held' = None THEN Append(missed, held.of) ELSE missed
               /\ UNCHANGED pending
       ELSE GiveUp /\ UNCHANGED <<pending, troubles>>
    /\ UNCHANGED <<engineVars, net, coin, anchors>>

(* The watcher starts again, without what its socket had received *)
RestartWatcher ==
    /\ Trouble
    /\ held' = None /\ net' = <<>>
    /\ missed' = missed \o net \o
           (IF held = None \/ (held # None /\ held.taken) THEN <<>> ELSE <<held.of>>)
    /\ UNCHANGED <<engineVars, nodeVars>>

-----------------------------------------------------------------------------
(* The node.  Index 0 is a transaction of another program. *)

submit_tx_flow ==
    /\ pending = None /\ Trouble
    /\ pending' = 0
    /\ UNCHANGED <<engineVars, watcherVars, coin, anchors>>

Accept ==
    /\ pending # None
    /\ pending' = None
    /\ coin' = coin + 1
    /\ anchors' = IF pending = 0 THEN anchors ELSE Append(anchors, pending)
    /\ UNCHANGED <<engineVars, watcherVars, troubles>>

Init ==
    /\ states = <<>> /\ made = 0 /\ seq = 0 /\ due = TRUE /\ life = 0
    /\ checkpoints = <<>> /\ sending = 0
    /\ net = <<>> /\ held = None /\ missed = <<>>
    /\ coin = 1 /\ pending = None /\ anchors = <<>>
    /\ troubles = 0

Next ==
    \/ on_initialize \/ on_command \/ on_rollback \/ Interval \/ send_with_retry \/ Restart
    \/ run \/ submit_checkpoint_tx \/ submit_tx_retry \/ RestartWatcher
    \/ submit_tx_flow \/ Accept

-----------------------------------------------------------------------------
(* Every copy of a checkpoint is on its way, anchored once, or known to be *)
(* missed: a submission that is tried again does not anchor it twice.      *)
Count(s, n) == Len(Keep(s, {n}))

CopiesCounted ==
    \A n \in DOMAIN checkpoints :
        Copies = Count(anchors, n) + Count(net, n) + Count(missed, n)
                 + Count(<<pending>>, n)
                 + (IF n = Len(checkpoints) THEN sending ELSE 0)
                 + (IF held # None /\ ~ held.taken THEN Count(<<held.of>>, n) ELSE 0)

(* The anchors follow one another as the checkpoints did, and two of one   *)
(* number that differ are from before and after the episode was made anew. *)
AnchorsOrdered ==
    \A i, j \in DOMAIN anchors :
        LET a == checkpoints[anchors[i]]
            b == checkpoints[anchors[j]] IN
        /\ i < j => anchors[i] <= anchors[j]
        /\ a.seq = b.seq /\ a.root # b.root => a.life # b.life

AnchorsExplained == CopiesCounted /\ AnchorsOrdered

(* What onlyKAS-merchant.md says of seq: it only grows from one anchor to  *)
(* the next, because watchers ignore a checkpoint that is out of order.    *)
(* The watcher compares no numbers, so it anchors the copies of one, and   *)
(* the handler starts again from 1 with the episode.                       *)
SeqStrict ==
    \A i, j \in DOMAIN anchors :
        i < j => checkpoints[anchors[i]].seq < checkpoints[anchors[j]].seq
=============================================================================
