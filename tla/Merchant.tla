------------------------------- MODULE Merchant -------------------------------
(***************************************************************************)
(* kdapp-merchant: the ReceiptEpisode of episode.rs as an engine executes  *)
(* and rolls it back, the sled trees of storage.rs it writes through to,   *)
(* the scheduler thread that reads these trees, and what the end of a      *)
(* process leaves of all of it.                                            *)
(*                                                                         *)
(* merchant.db serves one process at a time.  main.rs runs it in one of    *)
(* six modes: `proxy' follows the chain, so its commands can be reverted;  *)
(* `router' takes commands off-chain, all of them under the same default   *)
(* transaction id; `demo' creates an episode and starts the scheduler;     *)
(* `serve' starts the scheduler and the HTTP server, `once' is any command *)
(* line that makes one command, as `create' and `pay', and neither creates *)
(* the episode that the command is for; `new' does nothing else.           *)
(*                                                                         *)
(* The auxiliary variables decide nothing: trail holds the episodes before *)
(* each command on rollback_stack, chain the carrier transactions that     *)
(* are accepted.                                                           *)
(***************************************************************************)
EXTENDS Integers, SequencesExt, Filters

CONSTANTS
    InvoiceIds, SubscriptionIds,
    PubKeys,
    merchant_keys,        \* the participants of NewEpisode
    ChainTxs,             \* transactions that carry a MarkPaid
    pays(_),              \* the invoice that MarkPaid names
    tx_outputs(_),        \* a set of [value, script], as the proxy knows them
    DefaultTx,            \* Hash::default(), the id of an off-chain command
    Amounts,
    interval,             \* of every subscription
    None,
    MaxTime,              \* bound on the clock
    MaxStack,             \* bound on the commands of one episode
    MaxQueue,             \* bound on the engine's lag behind the scheduler
    MaxListed             \* bound on a list of subscriptions, which crashes lengthen

TxIds == ChainTxs \cup {DefaultTx}

(* Left out are an invoice's id, memo and created_at, which no command      *)
(* changes once the invoice is there.                                      *)
Invoices ==
    [amount : Amounts, status : {"Open", "Paid", "Acked", "Canceled"},
     payer : PubKeys \cup {None}, carrier_tx : TxIds \cup {None}, last_update : Nat]

Subscriptions == [customer : PubKeys, amount : Amounts, next_run : Nat]
CustomerInfos == [invoices : Seq(InvoiceIds), subscriptions : Seq(SubscriptionIds)]

Episodes ==
    [invoices : [InvoiceIds -> Invoices \cup {None}],
     subscriptions : [SubscriptionIds -> Subscriptions \cup {None}],
     customers : [PubKeys -> CustomerInfos \cup {None}],
     used_carrier_txs : SUBSET TxIds]

Rollbacks ==
         [type : {"UndoCreate", "UndoPaid", "UndoAck", "UndoCancel"}, id : InvoiceIds]
    \cup [type : {"UndoCreateSubscription"}, id : SubscriptionIds]
    \cup [type : {"UndoProcessSubscription"}, id : SubscriptionIds, prev : Nat]
    \cup [type : {"UndoCancelSubscription"}, id : SubscriptionIds, subscription : Subscriptions]

ASSUME MerchantAssumption ==
    /\ merchant_keys \subseteq PubKeys
    /\ SubscriptionIds \subseteq Nat /\ IsFiniteSet(SubscriptionIds)
    /\ Amounts \subseteq Nat
    /\ interval \in Nat
    /\ DefaultTx \notin ChainTxs
    /\ None \notin PubKeys \cup ChainTxs \cup {DefaultTx}
    /\ None \notin Invoices /\ None \notin Subscriptions
    /\ None \notin CustomerInfos /\ None \notin Episodes

VARIABLES
    mode,                 \* of the process that holds merchant.db, or "off"
    episode,              \* the live ReceiptEpisode, or None
    rollback_stack,
    store,                \* versions of the trees since the durable one, the first
    pc,                   \* "idle", or "on_command" before the event handler ran
    queue,                \* what the scheduler, the HTTP server or the command line
                          \* has forwarded to the engine
    now,
    trail, chain          \* auxiliary

vars == <<mode, episode, rollback_stack, store, pc, queue, now, trail, chain>>

TreesOf(e) ==
    [invoices |-> e.invoices, subscriptions |-> e.subscriptions, customers |-> e.customers]

db == Last(store)

(* What the HTTP server lists, and the command list-customers *)
list_invoices == db.invoices
list_subscriptions == db.subscriptions
list_customers == db.customers

CarriersOf(invoices) ==
    {invoices[i].carrier_tx : i \in {j \in InvoiceIds : invoices[j] # None}} \ {None}

Init ==
    /\ mode = "off"
    /\ episode = None
    /\ rollback_stack = <<>>
    /\ store = <<[invoices |-> [i \in InvoiceIds |-> None],
                  subscriptions |-> [s \in SubscriptionIds |-> None],
                  customers |-> [c \in PubKeys |-> None]]>>
    /\ pc = "idle"
    /\ queue = <<>>
    /\ now = 0
    /\ trail = <<>>
    /\ chain = {}

-----------------------------------------------------------------------------
(* Processes and the life of the episode *)

Start(m) ==
    /\ mode = "off"
    /\ mode' = m
    /\ UNCHANGED <<episode, rollback_stack, store, pc, queue, now, trail, chain>>

(* The command RegisterCustomer replaces an entry that is there already.   *)
(* It is a process of its own that ends without a flush: its entry reaches *)
(* the disk, or the action may as well not have happened.                  *)
RegisterCustomer(c) ==
    /\ mode = "off"
    /\ store' = <<[db EXCEPT !.customers[c] = [invoices |-> <<>>, subscriptions |-> <<>>]]>>
    /\ UNCHANGED <<mode, episode, rollback_stack, pc, queue, now, trail, chain>>

(* mutant: payments made before the start are forgotten *)
Initialize_NoCarriers ==
    /\ mode \in {"proxy", "router", "demo", "new"}
    /\ episode = None
    /\ episode' = [invoices |-> db.invoices, subscriptions |-> db.subscriptions,
                   customers |-> db.customers, used_carrier_txs |-> {}]
    /\ UNCHANGED <<mode, rollback_stack, store, pc, queue, now, trail, chain>>

(* NewEpisode: initialize loads whatever the trees hold *)
Initialize ==
    /\ mode \in {"proxy", "router", "demo", "new"}
    /\ episode = None
    /\ episode' = [invoices |-> db.invoices, subscriptions |-> db.subscriptions,
                   customers |-> db.customers,
                   used_carrier_txs |-> CarriersOf(db.invoices)]
    /\ UNCHANGED <<mode, rollback_stack, store, pc, queue, now, trail, chain>>

(* The block of the NewEpisode is reverted, or the episode's lifetime is   *)
(* over, which the demo does not reach.  The trees stay.                   *)
RemoveEpisode ==
    /\ episode # None /\ pc = "idle"
    /\ mode = "router" \/ mode = "proxy"
    /\ episode' = None
    /\ rollback_stack' = <<>>
    /\ trail' = <<>>
    /\ UNCHANGED <<mode, store, pc, queue, now, chain>>

(* A process ends, by a crash or not, without a flush: lost are the engine,*)
(* its channel, and the writes after some version of the trees.            *)
Stop ==
    /\ mode # "off"
    /\ mode' = "off"
    /\ episode' = None
    /\ rollback_stack' = <<>>
    /\ \E k \in DOMAIN store : store' = <<store[k]>>
    /\ pc' = "idle"
    /\ queue' = <<>>
    /\ trail' = <<>>
    /\ UNCHANGED <<now, chain>>

(* sled writes to disk by itself now and then *)
BackgroundFlush ==
    /\ Len(store) > 1
    /\ \E k \in 2..Len(store) : store' = SubSeq(store, k, Len(store))
    /\ UNCHANGED <<mode, episode, rollback_stack, pc, queue, now, trail, chain>>

Tick ==
    /\ now < MaxTime
    /\ now' = now + 1
    /\ UNCHANGED <<mode, episode, rollback_stack, store, pc, queue, trail, chain>>

-----------------------------------------------------------------------------
(* execute *)

Ready == episode # None /\ pc = "idle"

Serving == Ready /\ mode \in {"proxy", "router"} /\ Len(rollback_stack) < MaxStack
Demo == Ready /\ mode = "demo" /\ Len(rollback_stack) < MaxStack

inv(i) == episode.invoices[i]
sub(s) == episode.subscriptions[s]
info(c) == episode.customers[c]

PutInvoice(trees, e, i) == [trees EXCEPT !.invoices[i] = e.invoices[i]]
PutCustomer(trees, e, c) == [trees EXCEPT !.customers[c] = e.customers[c]]
PutSubscription(trees, e, s) == [trees EXCEPT !.subscriptions[s] = e.subscriptions[s]]

Executed(e, puts, undo) ==
    /\ episode' = e
    /\ store' = store \o puts
    /\ rollback_stack' = Append(rollback_stack, undo)
    /\ trail' = Append(trail, episode)
    /\ pc' = "on_command"
    /\ UNCHANGED <<mode, now>>

CreateInvoice(i, amount, auth) ==
    LET e == [episode EXCEPT !.invoices[i] =
                 [amount |-> amount, status |-> "Open", payer |-> None,
                  carrier_tx |-> None, last_update |-> now]] IN
    /\ Serving \/ Demo
    /\ inv(i) = None
    /\ amount # 0
    /\ auth \in merchant_keys
    /\ Executed(e, <<PutInvoice(db, e, i)>>, [type |-> "UndoCreate", id |-> i])
    /\ UNCHANGED <<queue, chain>>

(* The outputs the proxy knows must hold the amount, and where scripts are *)
(* known one large enough must pay a merchant key.                         *)
OutputsPay(outs, amount) ==
    LET large == {o \in outs : o.value >= amount} IN
    /\ large # {}
    /\ (\E o \in large : o.script # None) => \E o \in large : o.script \in merchant_keys

(* A MarkPaid is carried by a chain transaction that names the invoice and *)
(* is not on the chain yet, or comes off-chain, under the default id and   *)
(* without outputs.                                                        *)
Carries(tx, i) ==
    CASE mode = "proxy"  -> tx \in ChainTxs \ chain /\ pays(tx) = i
      [] mode = "router" -> tx = DefaultTx

MarkPaid(i, payer, auth, tx) ==
    LET paid == [inv(i) EXCEPT !.status = "Paid", !.payer = payer,
                               !.carrier_tx = tx, !.last_update = now]
        e == [episode EXCEPT
                 !.invoices[i] = paid,
                 !.used_carrier_txs = @ \cup {tx},
                 !.customers[payer].invoices = IF Contains(@, i) THEN @ ELSE Append(@, i)] IN
    /\ Serving /\ Carries(tx, i)
    /\ auth = payer
    /\ tx \notin episode.used_carrier_txs
    /\ inv(i) # None /\ inv(i).status = "Open"
    /\ info(payer) # None
    /\ tx # DefaultTx => OutputsPay(tx_outputs(tx), inv(i).amount)
    /\ Executed(e, <<PutInvoice(db, e, i), PutCustomer(PutInvoice(db, e, i), e, payer)>>,
                [type |-> "UndoPaid", id |-> i])
    /\ chain' = chain \cup ({tx} \ {DefaultTx})
    /\ UNCHANGED queue

(* Neither of the next two looks at the authorization *)
AckReceipt(i) ==
    LET e == [episode EXCEPT !.invoices[i].status = "Acked",
                             !.invoices[i].last_update = now] IN
    /\ Serving \/ Demo
    /\ inv(i) # None /\ inv(i).status = "Paid"
    /\ Executed(e, <<PutInvoice(db, e, i)>>, [type |-> "UndoAck", id |-> i])
    /\ UNCHANGED <<queue, chain>>

(* mutant: a paid invoice can be canceled *)
CancelInvoice_Mutant(i) ==
    LET e == [episode EXCEPT !.invoices[i].status = "Canceled",
                             !.invoices[i].last_update = now] IN
    /\ Serving
    /\ inv(i) # None /\ inv(i).status \in {"Open", "Paid"}
    /\ Executed(e, <<PutInvoice(db, e, i)>>, [type |-> "UndoCancel", id |-> i])
    /\ UNCHANGED <<queue, chain>>

CancelInvoice(i) ==
    LET e == [episode EXCEPT !.invoices[i].status = "Canceled",
                             !.invoices[i].last_update = now] IN
    /\ Serving
    /\ inv(i) # None /\ inv(i).status = "Open"
    /\ Executed(e, <<PutInvoice(db, e, i)>>, [type |-> "UndoCancel", id |-> i])
    /\ UNCHANGED <<queue, chain>>

CreateSubscription(s, c, amount, auth) ==
    LET e == [episode EXCEPT
                 !.subscriptions[s] = [customer |-> c, amount |-> amount,
                                       next_run |-> now + interval],
                 !.customers[c].subscriptions = Append(@, s)] IN
    /\ Serving
    /\ sub(s) = None
    /\ amount # 0 /\ interval # 0
    /\ auth \in merchant_keys
    /\ info(c) # None
    /\ Len(info(c).subscriptions) < MaxListed
    /\ Executed(e, <<PutCustomer(db, e, c), PutSubscription(PutCustomer(db, e, c), e, s)>>,
                [type |-> "UndoCreateSubscription", id |-> s])
    /\ UNCHANGED <<queue, chain>>

(* next_run is taken from the time of the command, due or not *)
Process(s, time) ==
    LET e == [episode EXCEPT !.subscriptions[s].next_run = time + interval] IN
    /\ sub(s) # None
    /\ Executed(e, <<PutSubscription(db, e, s)>>,
                [type |-> "UndoProcessSubscription", id |-> s, prev |-> sub(s).next_run])
    /\ UNCHANGED chain

ProcessSubscription(s) ==
    /\ Serving
    /\ Process(s, now)
    /\ UNCHANGED queue

CancelSubscription(s) ==
    LET c == sub(s).customer
        known == info(c) # None
        e == [episode EXCEPT
                 !.subscriptions[s] = None,
                 !.customers[c] = IF known
                     THEN [info(c) EXCEPT !.subscriptions = Keep(@, SubscriptionIds \ {s})]
                     ELSE None]
        listed == IF known THEN <<PutCustomer(db, e, c)>> ELSE <<>> IN
    /\ Serving
    /\ sub(s) # None
    /\ Executed(e, listed \o <<PutSubscription(PutCustomer(db, e, c), e, s)>>,
                [type |-> "UndoCancelSubscription", id |-> s, subscription |-> sub(s)])
    /\ UNCHANGED <<queue, chain>>

(* on_command of handler.rs flushes the trees *)
OnCommand ==
    /\ pc = "on_command"
    /\ store' = <<db>>
    /\ pc' = "idle"
    /\ UNCHANGED <<mode, episode, rollback_stack, queue, now, trail, chain>>

-----------------------------------------------------------------------------
(* rollback: on_rollback of handler.rs only logs, so nothing is flushed.   *)
(* An invoice keeps the last_update of the command that is rolled back.    *)

Reverting(type) ==
    Ready /\ mode = "proxy" /\ rollback_stack # <<>> /\ Last(rollback_stack).type = type

undo == Last(rollback_stack)

Popped(e, puts) ==
    /\ episode' = e
    /\ store' = store \o puts
    /\ rollback_stack' = Front(rollback_stack)
    /\ trail' = Front(trail)
    /\ UNCHANGED <<mode, pc, queue, now>>

UndoCreate ==
    LET e == [episode EXCEPT !.invoices[undo.id] = None] IN
    /\ Reverting("UndoCreate")
    /\ Popped(e, <<PutInvoice(db, e, undo.id)>>)
    /\ UNCHANGED chain

UndoPaid_Reordered ==
    LET i == undo.id
        c == inv(i).payer
        tx == inv(i).carrier_tx
        e == [episode EXCEPT
                 !.invoices[i].status = "Open",
                 !.invoices[i].payer = None,
                 !.invoices[i].carrier_tx = None,
                 !.used_carrier_txs = @ \ {tx},
                 !.customers[c].invoices = Keep(@, InvoiceIds \ {i})] IN
    /\ Reverting("UndoPaid")
    /\ Popped(e, <<PutInvoice(db, e, i), PutCustomer(PutInvoice(db, e, i), e, c)>>)
    /\ chain' = chain \ {tx}

(* The customer is written first *)
UndoPaid ==
    LET i == undo.id
        c == inv(i).payer
        tx == inv(i).carrier_tx
        e == [episode EXCEPT
                 !.invoices[i].status = "Open",
                 !.invoices[i].payer = None,
                 !.invoices[i].carrier_tx = None,
                 !.used_carrier_txs = @ \ {tx},
                 !.customers[c].invoices = Keep(@, InvoiceIds \ {i})] IN
    /\ Reverting("UndoPaid")
    /\ Popped(e, <<PutCustomer(db, e, c), PutInvoice(PutCustomer(db, e, c), e, i)>>)
    /\ chain' = chain \ {tx}

Reopened(status) ==
    LET e == [episode EXCEPT !.invoices[undo.id].status = status] IN
    /\ Popped(e, <<PutInvoice(db, e, undo.id)>>)
    /\ UNCHANGED chain

UndoAck == Reverting("UndoAck") /\ Reopened("Paid")
UndoCancel == Reverting("UndoCancel") /\ Reopened("Open")

(* The subscription leaves its tree before the customer is written *)
UndoCreateSubscription ==
    LET s == undo.id
        c == sub(s).customer
        e == [episode EXCEPT
                 !.subscriptions[s] = None,
                 !.customers[c].subscriptions = Keep(@, SubscriptionIds \ {s})] IN
    /\ Reverting("UndoCreateSubscription")
    /\ Popped(e, <<PutSubscription(db, e, s), PutCustomer(PutSubscription(db, e, s), e, c)>>)
    /\ UNCHANGED chain

(* mutant: the next run is computed again *)
UndoProcessSubscription_Mutant ==
    LET e == [episode EXCEPT !.subscriptions[undo.id].next_run = now + interval] IN
    /\ Reverting("UndoProcessSubscription")
    /\ Popped(e, <<PutSubscription(db, e, undo.id)>>)
    /\ UNCHANGED chain

UndoProcessSubscription ==
    LET e == [episode EXCEPT !.subscriptions[undo.id].next_run = undo.prev] IN
    /\ Reverting("UndoProcessSubscription")
    /\ Popped(e, <<PutSubscription(db, e, undo.id)>>)
    /\ UNCHANGED chain

(* The subscription returns to the end of its customer's list *)
UndoCancelSubscription ==
    LET s == undo.id
        c == undo.subscription.customer
        listed == info(c) = None \/ Contains(info(c).subscriptions, s)
        put == [episode EXCEPT !.subscriptions[s] = undo.subscription]
        e == IF listed THEN put ELSE [put EXCEPT !.customers[c].subscriptions = Append(@, s)] IN
    /\ Reverting("UndoCancelSubscription")
    /\ Popped(e, <<PutSubscription(db, e, s), TreesOf(e)>>)
    /\ UNCHANGED chain

Undo ==
    \/ UndoCreate \/ UndoPaid \/ UndoAck \/ UndoCancel
    \/ UndoCreateSubscription \/ UndoProcessSubscription \/ UndoCancelSubscription

(* A reorganisation takes a transaction off the chain whose block this     *)
(* process's engine has no reversion for.                                  *)
ChainDrops(tx) ==
    /\ tx \in chain
    /\ \A k \in DOMAIN rollback_stack :
          LET o == rollback_stack[k] IN o.type = "UndoPaid" => inv(o.id).carrier_tx # tx
    /\ chain' = chain \ {tx}
    /\ UNCHANGED <<mode, episode, rollback_stack, store, pc, queue, now, trail>>

-----------------------------------------------------------------------------
(* scheduler.rs *)

(* One pass of the thread, in the order of the ids.  It starts after       *)
(* NewEpisode was sent, if it is.                                          *)
Scan ==
    LET due == {s \in SubscriptionIds :
                   /\ db.subscriptions[s] # None
                   /\ db.subscriptions[s].next_run <= now}
        n == Cardinality(due) IN
    /\ mode = "serve" \/ (mode = "demo" /\ episode # None)
    /\ due # {}
    /\ Len(queue) + n <= MaxQueue
    /\ \E ids \in [1..n -> due] :
          /\ \A j, k \in 1..n : j < k => ids[j] < ids[k]
          /\ queue' = queue \o [k \in 1..n |-> [id |-> ids[k], time |-> now]]
    /\ UNCHANGED <<mode, episode, rollback_stack, store, pc, now, trail, chain>>

ScheduledProcess ==
    /\ Ready /\ mode = "demo" /\ queue # <<>>
    /\ Process(Head(queue).id, Head(queue).time)
    /\ queue' = Tail(queue)

-----------------------------------------------------------------------------
(* server.rs and the command line.  Which command it is makes no           *)
(* difference here.                                                        *)

Forwarded == Append(queue, [id |-> None, time |-> now])

(* create_invoice, pay_invoice and create_subscription answer 202 ACCEPTED *)
Request ==
    /\ mode = "serve"
    /\ Len(queue) < MaxQueue
    /\ queue' = Forwarded
    /\ UNCHANGED <<mode, episode, rollback_stack, store, pc, now, trail, chain>>

OneShot ==
    /\ mode = "off"
    /\ mode' = "once"
    /\ queue' = Forwarded
    /\ UNCHANGED <<episode, rollback_stack, store, pc, now, trail, chain>>

(* "Episode not found": these processes have none *)
Drop ==
    /\ queue # <<>> /\ episode = None
    /\ queue' = Tail(queue)
    /\ UNCHANGED <<mode, episode, rollback_stack, store, pc, now, trail, chain>>

-----------------------------------------------------------------------------
Client ==
    \/ \E i \in InvoiceIds :
          \/ \E amount \in Amounts, auth \in PubKeys \cup {None} : CreateInvoice(i, amount, auth)
          \/ \E payer \in PubKeys, auth \in PubKeys \cup {None}, tx \in TxIds :
                MarkPaid(i, payer, auth, tx)
          \/ AckReceipt(i)
          \/ CancelInvoice(i)
    \/ \E s \in SubscriptionIds :
          \/ \E c \in PubKeys, amount \in Amounts, auth \in PubKeys \cup {None} :
                CreateSubscription(s, c, amount, auth)
          \/ ProcessSubscription(s)
          \/ CancelSubscription(s)

Environment ==
    \/ \E m \in {"proxy", "router", "demo", "serve", "new"} : Start(m)
    \/ \E c \in PubKeys \ merchant_keys : RegisterCustomer(c)
    \/ \E tx \in ChainTxs : ChainDrops(tx)
    \/ RemoveEpisode \/ Stop \/ BackgroundFlush \/ Tick

Next ==
    \/ Environment \/ Initialize \/ Client \/ OnCommand \/ Undo
    \/ Scan \/ ScheduledProcess \/ Request \/ OneShot \/ Drop

(* Safety only: every process may stop at any moment *)
Spec == Init /\ [][Next]_vars

-----------------------------------------------------------------------------
Settled(invoice) == invoice # None /\ invoice.status \in {"Paid", "Acked"}

(* What the scheduler and the listings read is what the engine works on,   *)
(* after every command and every rollback; the check for duplicate         *)
(* payments sees every payment, those loaded from disk too, and forgets    *)
(* exactly those rolled back; and a command that the scheduler enqueued    *)
(* from the disk finds its subscription in the engine's copy.              *)
CopiesMatch ==
    episode # None =>
        /\ episode.invoices = list_invoices
        /\ episode.subscriptions = list_subscriptions
        /\ episode.customers = list_customers
        /\ episode.used_carrier_txs = CarriersOf(episode.invoices)
        /\ \A k \in DOMAIN queue : sub(queue[k].id) # None

(* Whatever version of the trees is found after a crash, a carrier paid    *)
(* one invoice, an invoice names payer and carrier exactly if paid, and a  *)
(* customer's list names only invoices the customer paid, each once:       *)
(* MarkPaid writes the invoice before the list, UndoPaid after it.         *)
PaymentsExact(invoices) ==
    LET created == {i \in InvoiceIds : invoices[i] # None} IN
    /\ \A i \in created :
          /\ Settled(invoices[i]) <=> invoices[i].carrier_tx # None
          /\ Settled(invoices[i]) <=> invoices[i].payer # None
    /\ \A i, j \in created :
          invoices[i].carrier_tx # None /\ invoices[i].carrier_tx = invoices[j].carrier_tx
              => i = j

IndexSound(t) ==
    \A c \in PubKeys :
        t.customers[c] # None =>
            LET list == t.customers[c].invoices IN
            /\ \A i \in ToSet(list) : t.invoices[i] # None /\ t.invoices[i].payer = c
            /\ IsInjective(list)

DiskSound == \A k \in DOMAIN store : PaymentsExact(store[k].invoices) /\ IndexSound(store[k])

(* A payment that every version of the trees knows is still known to every *)
(* version after a command, a stop or a restart: only a rollback takes it  *)
(* back.                                                                   *)
Known(versions, i, tx) ==
    \A k \in DOMAIN versions :
        Settled(versions[k].invoices[i]) /\ versions[k].invoices[i].carrier_tx = tx

SettledStays ==
    [][~ Undo => \A i \in InvoiceIds, tx \in TxIds : Known(store, i, tx) => Known(store', i, tx)]_vars

Undated(invoice) == IF invoice = None THEN None ELSE [invoice EXCEPT !.last_update = 0]

(* What a rollback must bring back: all but the customers' lists of        *)
(* subscriptions, and the time at which an invoice was last changed.       *)
Image(e) ==
    [invoices |-> [i \in InvoiceIds |-> Undated(e.invoices[i])],
     subscriptions |-> e.subscriptions,
     paid |-> [c \in PubKeys |->
         IF e.customers[c] = None THEN None ELSE e.customers[c].invoices],
     used |-> e.used_carrier_txs]

(* The customer's own subscriptions that its list names, in whatever       *)
(* order.  A crash leaves other ids there too, a second registration none. *)
Listed(e, c) ==
    IF e.customers[c] = None THEN {}
    ELSE {s \in ToSet(e.customers[c].subscriptions) :
             e.subscriptions[s] # None /\ e.subscriptions[s].customer = c}

(* Each rollback object takes the episode back to what it was before its   *)
(* command, but for the times at which invoices were last changed, and no  *)
(* subscription leaves its customer's list.                                *)
RollbackRestores ==
    [][Undo =>
        /\ Image(episode') = Image(Last(trail))
        /\ \A c \in PubKeys : Listed(Last(trail), c) \subseteq Listed(episode', c)]_vars

(* episode.rs of kdapp: the rollback object takes the episode back "to the *)
(* state prior to this call".  The invoices are then those before the      *)
(* command; they keep its last_update instead, which the listing shows and *)
(* a checkpoint's hash of the episode covers.                              *)
PriorInvoices == [][Undo => episode'.invoices = Last(trail).invoices]_vars

(* onlyKAS-merchant.md: "Rollbacks mirror each action for DAG reorg        *)
(* safety."  An invoice that the trees show as paid by a chain transaction *)
(* is then paid on the chain, across a restart too.                        *)
ReorgSafe ==
    \A i \in InvoiceIds :
        Settled(db.invoices[i]) /\ db.invoices[i].carrier_tx \in ChainTxs
            => db.invoices[i].carrier_tx \in chain
=============================================================================
