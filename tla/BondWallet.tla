----------------------------- MODULE BondWallet -----------------------------
(***************************************************************************)
(* The wallet of a comment-board participant:                              *)
(* comment-board/src/wallet/utxo_manager.rs, the codec of                  *)
(* kaspa_scripts.rs left to BondScript.                                    *)
(*                                                                         *)
(* The manager keeps a list of the outputs it believes it can spend, which *)
(* only a refresh or a split changes, and a table of bonds by comment.     *)
(* The node knows better: an output may be spent by a transaction that is  *)
(* mined, or that waits in the mempool and does not show yet.  Methods     *)
(* take the manager exclusively; one that waits for the node several times *)
(* is a step for each time, and pc names what is under way.                *)
(***************************************************************************)
EXTENDS Integers, SequencesExt

CONSTANTS
    FEE,              \* amounts are in units of it
    Slack,            \* the 1000 sompi asked for on top
    MassLimit,        \* largest input of a bond proof, largest micro-UTXO
    Chunk,            \* target_chunk_size
    MinCount,         \* micro-UTXOs wanted
    MaxAttempts,      \* of ensure_micro_utxos, 30 in the code
    Start,            \* the amounts in the wallet at first, by outpoint
    Comments, Bonds, Durations, Policies,
    Offset,           \* added to the identifier of a bond that is upgraded
    DefaultLock,      \* of an upgrade when the old lock is over
    U64,              \* number of values of a balance
    None,
    MaxTxs, MaxFaults, MaxTime   \* bounds of the model

VARIABLES
    funds,            \* the outputs the node reports for the address
    mempool,          \* accepted transactions that are not mined
    spentBy,          \* history: which bond or comment spent an outpoint
    made,             \* history: transactions accepted
    available_utxos, locked_utxos, pending_bonds,
    total_available_balance, total_locked_balance,
    pc,               \* the method under way, and what it needs to go on
    carried,          \* history: carriers accepted for the comment under way
    now, faults

nodeVars == <<funds, mempool, spentBy, made>>
bookVars == <<locked_utxos, pending_bonds, total_locked_balance>>
coinVars == <<available_utxos, total_available_balance>>
walletVars == <<nodeVars, bookVars, coinVars, pc, carried, now, faults>>

Sum(utxos) == FoldSet(LAMBDA u, n : u.amount + n, 0, utxos)
SumBonds(locks) == FoldSet(LAMBDA c, n : locks[c].bond_amount + n, 0, DOMAIN locks)

Idle == pc = [at |-> "idle"]

-----------------------------------------------------------------------------
(* The node *)

SpentInMempool == UNION {t.inputs : t \in mempool}

(* Outputs to the own address; those of a script bond are not *)
Outputs(amounts) ==
    {[id |-> <<made + 1, i>>, amount |-> amounts[i]] :
        i \in {j \in DOMAIN amounts : amounts[j] > 0}}

Accept(inputs, amounts, label) ==
    /\ made < MaxTxs
    /\ made' = made + 1
    /\ mempool' = mempool \cup {[inputs |-> inputs, outputs |-> Outputs(amounts)]}
    /\ spentBy' = [id \in DOMAIN spentBy \cup {u.id : u \in inputs} |->
                      IF id \in DOMAIN spentBy THEN spentBy[id] ELSE label]
    /\ UNCHANGED funds

(* submit_with_retry, and a single submission: what the call returns and   *)
(* whether the node took the transaction.  A connection may fail before    *)
(* the node has it, for all attempts, or after: then an attempt that says  *)
(* "already accepted" is a success, and one that finds it in the mempool   *)
(* is an error.                                                            *)
Results == {"ok", "duplicate", "disconnected", "orphan", "double spend"}

Submit(inputs, amounts, label, r) ==
    LET spendable == inputs \subseteq funds \ SpentInMempool
        Fault == faults < MaxFaults /\ faults' = faults + 1 IN
    \/ r = "ok" /\ spendable /\ Accept(inputs, amounts, label) /\ UNCHANGED faults
    \/ r = "duplicate" /\ spendable /\ Accept(inputs, amounts, label) /\ Fault
    \/ r = "disconnected" /\ spendable /\ UNCHANGED nodeVars /\ Fault
    \/ r = "orphan" /\ ~ inputs \subseteq funds /\ UNCHANGED <<nodeVars, faults>>
    \/ r = "double spend" /\ inputs \cap SpentInMempool # {} /\ UNCHANGED <<nodeVars, faults>>

Mine ==
    \E t \in mempool :
        /\ mempool' = mempool \ {t}
        /\ funds' = (funds \ t.inputs) \cup t.outputs
        /\ UNCHANGED <<spentBy, made, bookVars, coinVars, pc, carried, now, faults>>

Tick ==
    /\ now < MaxTime
    /\ now' = now + 1
    /\ UNCHANGED <<nodeVars, bookVars, coinVars, pc, carried, faults>>

-----------------------------------------------------------------------------
(* Balances *)

get_available_balance == (total_available_balance - total_locked_balance) % U64
can_afford_bond(amount) == get_available_balance >= amount

(* refresh_utxos, whose failure its callers ignore *)
Refreshed ==
    \/ /\ available_utxos' = funds
       /\ total_available_balance' = Sum(funds)
       /\ UNCHANGED faults
    \/ /\ faults < MaxFaults /\ faults' = faults + 1
       /\ UNCHANGED coinVars

(* "balance", and after a comment *)
Refresh ==
    /\ Idle
    /\ Refreshed
    /\ UNCHANGED <<nodeVars, bookVars, pc, carried, now>>

-----------------------------------------------------------------------------
(* Coin selection *)

(* The smallest inputs, until they reach the total; of equal ones the      *)
(* order of the node decides.                                              *)
Selections(total) ==
    {s \in SUBSET available_utxos :
        /\ Sum(s) >= total
        /\ \A u \in s : \A v \in available_utxos \ s : u.amount <= v.amount
        /\ \E u \in s : /\ \A v \in s : v.amount <= u.amount
                        /\ Sum(s \ {u}) < total}

Smallest(s) == CHOOSE u \in s : \A v \in s : u.amount <= v.amount

(* The smallest output that covers a proof *)
ProofInputs ==
    LET fit == {u \in available_utxos : u.amount >= FEE * 2 + Slack}
    IN {u \in fit : \A v \in fit : u.amount <= v.amount}

(* create_bond_transaction: the proof and the change pay no fee *)
ProofAmounts(u) == <<FEE * 2, u.amount - FEE * 2>>

-----------------------------------------------------------------------------
(* Bonds *)

Lock(c, u, amount, until, level) ==
    /\ locked_utxos' = [d \in DOMAIN locked_utxos \cup {c} |->
          IF d = c THEN [outpoint |-> u.id, bond_amount |-> amount,
                         unlock_time |-> until, level |-> level, confirmed |-> FALSE]
          ELSE locked_utxos[d]]
    /\ pending_bonds' = pending_bonds \cup {c}
    /\ total_locked_balance' = total_locked_balance + amount

Bond(level, c, amount) == <<level, c, amount>>

(* Mutant of LockUtxo for BondsBacked: the bond is tracked before the      *)
(* node's answer is known                                                  *)
LockUtxo_Mutant(c, amount, duration) ==
    /\ Idle
    /\ can_afford_bond(amount)
    /\ \E u \in ProofInputs, r \in Results :
        /\ u.amount <= MassLimit
        /\ ProofAmounts(u)[2] >= FEE
        /\ Submit({u}, ProofAmounts(u), Bond("application", c, amount), r)
        /\ Lock(c, u, amount, now + duration, "application")
    /\ UNCHANGED <<coinVars, pc, carried, now>>

(* lock_utxo_for_comment: the transaction proves the bond and pays it to   *)
(* the own address.  Nothing is tracked unless it is accepted; the output  *)
(* it spends stays in the list.                                            *)
LockUtxo(c, amount, duration) ==
    /\ Idle
    /\ can_afford_bond(amount)
    /\ \E u \in ProofInputs, r \in Results :
        /\ u.amount <= MassLimit
        /\ ProofAmounts(u)[2] >= FEE
        /\ Submit({u}, ProofAmounts(u), Bond("application", c, amount), r)
        /\ IF r = "ok" THEN Lock(c, u, amount, now + duration, "application")
           ELSE UNCHANGED bookVars
    /\ UNCHANGED <<coinVars, pc, carried, now>>

(* validate_script_conditions; with moderators, and more signatures asked  *)
(* than there are moderators, the policy is "impossible"                   *)
ConditionsHold(policy, until) == until > now /\ policy # "impossible"

(* create_script_based_bond up to its bookkeeping, from the outputs s *)
ScriptBond(c, amount, duration, policy, s, r) ==
    /\ can_afford_bond(amount)
    /\ ConditionsHold(policy, now + duration)
    /\ s \in Selections(amount + FEE)
    /\ Submit(s, <<0, Sum(s) - amount - FEE>>, Bond("script", c, amount), r)

CreateScriptBond(c, amount, duration, policy) ==
    /\ Idle
    /\ \E s \in Selections(amount + FEE), r \in Results :
        /\ ScriptBond(c, amount, duration, policy, s, r)
        /\ IF r = "ok" THEN Lock(c, Smallest(s), amount, now + duration, "script")
           ELSE UNCHANGED bookVars
    /\ UNCHANGED <<coinVars, pc, carried, now>>

Without(f, cs) == [c \in DOMAIN f \ cs |-> f[c]]

(* upgrade_bond_to_script_based: the new bond is added to the total and    *)
(* the old one is not taken off.                                           *)
Upgrade(c, policy) ==
    LET old  == locked_utxos[c]
        left == IF old.unlock_time > now THEN old.unlock_time - now ELSE DefaultLock IN
    /\ Idle
    /\ c \in DOMAIN locked_utxos
    /\ old.level = "application"
    /\ \E s \in Selections(old.bond_amount + FEE), r \in Results :
        /\ ScriptBond(c + Offset, old.bond_amount, left, policy, s, r)
        /\ IF r = "ok"
           THEN /\ locked_utxos' = Without(
                      [d \in DOMAIN locked_utxos \cup {c + Offset} |->
                          IF d = c + Offset
                          THEN [outpoint |-> Smallest(s).id, bond_amount |-> old.bond_amount,
                                unlock_time |-> now + left, level |-> "script",
                                confirmed |-> FALSE]
                          ELSE locked_utxos[d]], {c})
                /\ pending_bonds' = (pending_bonds \cup {c + Offset}) \ {c}
                /\ total_locked_balance' = total_locked_balance + old.bond_amount
           ELSE UNCHANGED bookVars
    /\ UNCHANGED <<coinVars, pc, carried, now>>

can_unlock_bond(c) == now >= locked_utxos[c].unlock_time

(* Mutant of Release for BondsBacked: the total goes down twice *)
Release_Mutant(cs) ==
    /\ locked_utxos' = Without(locked_utxos, cs)
    /\ total_locked_balance' = total_locked_balance - 2 * SumBonds([c \in cs |-> locked_utxos[c]])
    /\ UNCHANGED pending_bonds

(* Pending entries stay *)
Release(cs) ==
    /\ locked_utxos' = Without(locked_utxos, cs)
    /\ total_locked_balance' = total_locked_balance - SumBonds([c \in cs |-> locked_utxos[c]])
    /\ UNCHANGED pending_bonds

(* "unlock": every bond that can be *)
Unlock ==
    LET ready == {c \in DOMAIN locked_utxos : can_unlock_bond(c)} IN
    /\ Idle
    /\ ready # {}
    /\ Release(ready)
    /\ UNCHANGED <<nodeVars, coinVars, pc, carried, now, faults>>

Forfeit(c) ==
    /\ Idle
    /\ c \in DOMAIN locked_utxos
    /\ Release({c})
    /\ UNCHANGED <<nodeVars, coinVars, pc, carried, now, faults>>

(* scan_pending_bonds: any output at the address confirms every bond; a    *)
(* call that fails leaves its bond pending.                                *)
ScanPending ==
    /\ Idle
    /\ \E seen \in SUBSET pending_bonds :
        LET bonds == IF funds = {} THEN {} ELSE seen \cap DOMAIN locked_utxos IN
        /\ IF seen = pending_bonds THEN UNCHANGED faults
           ELSE faults < MaxFaults /\ faults' = faults + 1
        /\ bonds # {}
        /\ locked_utxos' = [c \in DOMAIN locked_utxos |->
              [locked_utxos[c] EXCEPT !.confirmed = @ \/ c \in bonds]]
        /\ pending_bonds' = pending_bonds \ bonds
    /\ UNCHANGED <<nodeVars, coinVars, total_locked_balance, pc, carried, now>>

-----------------------------------------------------------------------------
(* A comment and its bond in one transaction *)

(* Mutant of Retries for CommentOnce: any error is worth a second attempt *)
Retries_Mutant(r, attempt) == r # "ok" /\ attempt = 0

Retries(r, attempt) == r = "orphan" /\ attempt = 0

Attempt(amount, script, attempt) ==
    \E s \in Selections(amount + FEE), r \in Results :
        /\ Submit(s, <<IF script THEN 0 ELSE amount, Sum(s) - amount - FEE>>, "comment", r)
        /\ carried' = (IF attempt = 0 THEN 0 ELSE carried)
                       + (IF r \in {"ok", "duplicate"} THEN 1 ELSE 0)
        /\ pc' = IF Retries(r, attempt)
                 THEN [at |-> "retry", amount |-> amount, script |-> script]
                 ELSE [at |-> "idle"]

(* submit_comment_with_bond_payload, first attempt; the bond is not        *)
(* tracked.                                                                *)
Comment(amount, script) ==
    /\ Idle
    /\ Attempt(amount, script, 0)
    /\ UNCHANGED <<bookVars, coinVars, now>>

(* The refresh before the second attempt, which is then made with what the *)
(* list has                                                                *)
RetryRefresh ==
    /\ pc.at = "retry"
    /\ Refreshed
    /\ pc' = [pc EXCEPT !.at = "again"]
    /\ UNCHANGED <<nodeVars, bookVars, carried, now>>

CommentAgain ==
    /\ pc.at = "again"
    /\ IF Selections(pc.amount + FEE) = {}
       THEN pc' = [at |-> "idle"] /\ UNCHANGED <<nodeVars, carried, faults>>
       ELSE Attempt(pc.amount, pc.script, 1)
    /\ UNCHANGED <<bookVars, coinVars, now>>

-----------------------------------------------------------------------------
(* Micro-UTXOs *)

Large == {u \in available_utxos : u.amount > MassLimit}
Enough == Cardinality(available_utxos \ Large) >= MinCount

(* ensure_micro_utxos, called once at the start *)
EnsureEnds ==
    /\ pc.at = "ensure"
    /\ Enough \/ pc.attempts >= MaxAttempts
    /\ pc' = [at |-> "idle"]
    /\ UNCHANGED <<nodeVars, bookVars, coinVars, carried, now, faults>>

(* split_large_utxo; without a large output it has nothing to do and       *)
(* reports success.                                                        *)
Split ==
    /\ pc.at = "ensure"
    /\ ~ Enough
    /\ pc.attempts < MaxAttempts
    /\ IF Large = {}
       THEN /\ pc' = [pc EXCEPT !.at = "settle"]
            /\ UNCHANGED <<nodeVars, available_utxos, faults>>
       ELSE \E u \in Large :
            IF u.amount - FEE <= Chunk + Slack
            THEN /\ pc' = [at |-> "idle"]
                 /\ UNCHANGED <<nodeVars, available_utxos, faults>>
            ELSE \E r \in Results :
                 /\ Submit({u}, <<Chunk, u.amount - FEE - Chunk>>, "split", r)
                 /\ IF r = "ok"
                    THEN /\ available_utxos' = available_utxos \ {u}
                         /\ pc' = [pc EXCEPT !.at = "settle"]
                    ELSE pc' = [at |-> "idle"] /\ UNCHANGED available_utxos
    /\ UNCHANGED <<bookVars, total_available_balance, carried, now>>

(* After the sleep, in which the split may or may not have been mined *)
Settle ==
    /\ pc.at = "settle"
    /\ Refreshed
    /\ pc' = [at |-> "ensure", attempts |-> pc.attempts + 1]
    /\ UNCHANGED <<nodeVars, bookVars, carried, now>>

-----------------------------------------------------------------------------
Init ==
    /\ funds = {[id |-> <<0, i>>, amount |-> Start[i]] : i \in DOMAIN Start}
    /\ mempool = {} /\ spentBy = [id \in {} |-> None] /\ made = 0
    /\ available_utxos = funds
    /\ total_available_balance = Sum(funds)
    /\ locked_utxos = [c \in {} |-> None]
    /\ pending_bonds = {}
    /\ total_locked_balance = 0
    /\ pc = [at |-> "ensure", attempts |-> 0]
    /\ carried = 0
    /\ now = 0
    /\ faults = 0

Next ==
    \/ Mine \/ Tick \/ Refresh
    \/ \E c \in Comments, b \in Bonds, d \in Durations :
          LockUtxo(c, b, d) \/ \E p \in Policies : CreateScriptBond(c, b, d, p)
    \/ \E c \in DOMAIN locked_utxos : Forfeit(c) \/ \E p \in Policies : Upgrade(c, p)
    \/ Unlock \/ ScanPending
    \/ \E b \in Bonds, script \in BOOLEAN : Comment(b, script)
    \/ RetryRefresh \/ CommentAgain
    \/ EnsureEnds \/ Split \/ Settle

Spec == Init /\ [][Next]_walletVars

-----------------------------------------------------------------------------
(* Every bond in the table is one whose transaction the node took, and no  *)
(* two bonds rest on the same output, though a spent output stays in the   *)
(* list of available ones until the next refresh.  The locked total covers *)
(* them, so that unlocking and forfeiting never take it below zero, though *)
(* an upgrade and a second bond for a comment leave it too high for good.  *)
BondsBacked ==
    /\ \A c \in DOMAIN locked_utxos :
          LET b == locked_utxos[c] IN
          /\ b.outpoint \in DOMAIN spentBy
          /\ spentBy[b.outpoint] = Bond(b.level, c, b.bond_amount)
    /\ total_locked_balance >= SumBonds(locked_utxos)

(* A comment is carried to the chain at most once by a call, whatever the  *)
(* node answers and however stale the list of outputs is.                  *)
CommentOnce == carried <= 1
=============================================================================
