------------------------------- MODULE WsPeer -------------------------------
(***************************************************************************)
(* The ws-peer of comment-it's main.rs.  It has a task per connection,     *)
(* which reads one command after the other, signs it with the peer's own   *)
(* key, and answers when the node has taken it, or has not.  The tasks     *)
(* share a wallet, of one output, and reserve nothing.                     *)
(*                                                                         *)
(* Commands differ in what they carry to the chain only.  They are two: a  *)
(* response and a revocation have the field of a RequestChallenge, which   *)
(* is tried before them, and are taken for one.  A message that is no      *)
(* command is answered without a transaction.                              *)
(***************************************************************************)
EXTENDS Integers, Filters

CONSTANTS
    None,
    Sockets,                 \* connections of pages
    Attempts,                \* of submit_tx_retry
    MaxAsked, MaxTroubles    \* bounds of the model

VARIABLES
    handling,                \* of each connection, [of, tries] or None
    served,                  \* commands so far, [coin, answer, broken]: the output
                             \* to spend, what the page was told, and (history)
                             \* whether the node could not be reached
    output,                  \* the number of the wallet's output
    mempool,                 \* the command whose transaction spends it, or None
    accepted,                \* those on the chain
    troubles

Trouble == troubles < MaxTroubles /\ troubles' = troubles + 1

Init ==
    /\ handling = [c \in Sockets |-> None]
    /\ served = <<>>
    /\ output = 1
    /\ mempool = None
    /\ accepted = <<>>
    /\ troubles = 0

FrontendCommand(c) ==
    /\ handling[c] = None
    /\ Len(served) < MaxAsked
    /\ served' = Append(served, [coin |-> None, answer |-> None, broken |-> FALSE])
    /\ handling' = [handling EXCEPT ![c] = [of |-> Len(served'), tries |-> 0]]
    /\ UNCHANGED <<output, mempool, accepted, troubles>>

(* The node lists the output until a block spends it *)
GetUtxos(c) ==
    /\ handling[c] # None /\ served[handling[c].of].coin = None
    /\ served' = [served EXCEPT ![handling[c].of].coin = output]
    /\ UNCHANGED <<handling, output, mempool, accepted, troubles>>

(* The task ends when a call fails outside submit_tx_retry, when the page  *)
(* is gone, or on an identifier of more than 32 bits                       *)
Close(c) ==
    /\ handling[c] # None /\ Trouble
    /\ handling' = [handling EXCEPT ![c] = None]
    /\ UNCHANGED <<served, output, mempool, accepted>>

Answer(c, word) ==
    /\ served' = [served EXCEPT ![handling[c].of].answer = word]
    /\ handling' = [handling EXCEPT ![c] = None]

(* One transaction for all attempts *)
Again(c, broken) ==
    LET n == handling[c].of
        over == handling[c].tries + 1 >= Attempts IN
    /\ served' = [served EXCEPT ![n].broken = @ \/ broken,
                                ![n].answer = IF over THEN "error" ELSE @]
    /\ handling' = [handling EXCEPT ![c] = IF over THEN None ELSE [of |-> n, tries |-> @.tries + 1]]

(* The connection breaks before the node has the transaction, or after *)
Disconnected(c) ==
    /\ handling[c] # None /\ served[handling[c].of].coin # None /\ Trouble
    /\ Again(c, TRUE)
    /\ \/ UNCHANGED mempool
       \/ /\ mempool = None /\ output = served[handling[c].of].coin
          /\ mempool' = handling[c].of
    /\ UNCHANGED <<output, accepted>>

(* The node refuses an output that another transaction is to spend, the    *)
(* transaction it has, and as an orphan one whose output is spent.  To be  *)
(* accepted already is as good as to be taken.                             *)
submit_tx_retry(c) ==
    /\ handling[c] # None
    /\ LET n == handling[c].of
           coin == served[n].coin IN
       /\ coin # None
       /\ \/ /\ coin = output /\ mempool = None
             /\ mempool' = n
             /\ Answer(c, "submitted")
          \/ /\ coin = output /\ mempool # None
             /\ Answer(c, "error")
             /\ UNCHANGED mempool
          \/ /\ coin # output /\ n \in Contents(accepted)
             /\ Answer(c, "submitted")
             /\ UNCHANGED mempool
          \/ /\ coin # output /\ n \notin Contents(accepted)
             /\ Again(c, FALSE)
             /\ UNCHANGED mempool
    /\ UNCHANGED <<output, accepted, troubles>>

Accept ==
    /\ mempool # None
    /\ accepted' = Append(accepted, mempool)
    /\ output' = output + 1
    /\ mempool' = None
    /\ UNCHANGED <<handling, served, troubles>>

Next ==
    \/ Accept
    \/ \E c \in Sockets :
          \/ FrontendCommand(c) \/ GetUtxos(c) \/ Close(c)
          \/ submit_tx_retry(c) \/ Disconnected(c)

-----------------------------------------------------------------------------
(* A command is on the chain once at most, and there or about to be when   *)
(* the page hears "submitted".  When it hears "error", the connection to   *)
(* the node broke, or another command has the output and this one never    *)
(* gets to the chain.                                                      *)
Taken(n) == mempool = n \/ n \in Contents(accepted)

AnswersExplained ==
    /\ \A i, j \in DOMAIN accepted : accepted[i] = accepted[j] => i = j
    /\ \A n \in DOMAIN served :
          /\ served[n].answer = "submitted" => Taken(n)
          /\ served[n].answer = "error" =>
                \/ served[n].broken
                \/ /\ ~ Taken(n)
                   /\ \E m \in DOMAIN served : m # n /\ Taken(m) /\ served[m].coin = served[n].coin
=============================================================================
