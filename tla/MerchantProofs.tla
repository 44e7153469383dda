---------------------------- MODULE MerchantProofs ----------------------------
(***************************************************************************)
(* Merchant, proved for any invoices, subscriptions, keys and transactions,*)
(* stacks, queues and lists of any length.                                 *)
(*                                                                         *)
(* That a rollback restores what its command changed is a statement about  *)
(* one step, but holds because of all commands before: Linked relates each *)
(* rollback object with the episodes before and after its command.  The    *)
(* order of a customer's list of subscriptions does not survive a rollback,*)
(* so the episode after a command is known by its Image only.              *)
(***************************************************************************)
EXTENDS Merchant, FilterLemmas

Trees ==
    [invoices : [InvoiceIds -> Invoices \cup {None}],
     subscriptions : [SubscriptionIds -> Subscriptions \cup {None}],
     customers : [PubKeys -> CustomerInfos \cup {None}]]

Modes == {"off", "proxy", "router", "demo", "serve", "new", "once"}

SoundTrees == {t \in Trees : PaymentsExact(t.invoices) /\ IndexSound(t)}

SoundEpisodes ==
    {e \in Episodes : TreesOf(e) \in SoundTrees /\ e.used_carrier_txs = CarriersOf(e.invoices)}

TypeOK ==
    /\ mode \in Modes
    /\ episode \in SoundEpisodes \cup {None}
    /\ rollback_stack \in Seq(Rollbacks)
    /\ store \in Seq(SoundTrees) /\ store # <<>>
    /\ pc \in {"idle", "on_command"}
    /\ queue \in Seq([id : SubscriptionIds \cup {None}, time : Nat])
    /\ now \in Nat
    /\ trail \in Seq(SoundEpisodes) /\ Len(trail) = Len(rollback_stack)
    /\ chain \subseteq ChainTxs

-----------------------------------------------------------------------------
(* An invoice before its payment, and with another status *)
Unpaid(x) == [x EXCEPT !.status = "Open", !.payer = None, !.carrier_tx = None]
WithStatus(x, status) == [x EXCEPT !.status = status]

(* The image before a command, from the image of the episode f after it *)
shown(f, i) == Image(f).invoices[i]

PaidBefore(u, f) ==
    LET paid == Image(f).paid
        payer == shown(f, u.id).payer IN
    IF u.type = "UndoPaid"
    THEN [paid EXCEPT ![payer] = Keep(@, InvoiceIds \ {u.id})] ELSE paid

UsedBefore(u, f) ==
    IF u.type = "UndoPaid" THEN Image(f).used \ {shown(f, u.id).carrier_tx}
    ELSE Image(f).used

InvoiceBefore(u, f) ==
    CASE u.type = "UndoCreate" -> None
      [] u.type = "UndoPaid" -> Unpaid(shown(f, u.id))
      [] u.type = "UndoAck" -> WithStatus(shown(f, u.id), "Paid")
      [] u.type = "UndoCancel" -> WithStatus(shown(f, u.id), "Open")

SubscriptionBefore(u, f) ==
    CASE u.type = "UndoCreateSubscription" -> None
      [] u.type = "UndoProcessSubscription" ->
            [f.subscriptions[u.id] EXCEPT !.next_run = u.prev]
      [] u.type = "UndoCancelSubscription" -> u.subscription

OfInvoice(u) == u.type \in {"UndoCreate", "UndoPaid", "UndoAck", "UndoCancel"}

ImageBefore(u, f) ==
    [invoices |-> IF OfInvoice(u) THEN [Image(f).invoices EXCEPT ![u.id] = InvoiceBefore(u, f)]
                  ELSE Image(f).invoices,
     subscriptions |-> IF OfInvoice(u) THEN f.subscriptions
                       ELSE [f.subscriptions EXCEPT ![u.id] = SubscriptionBefore(u, f)],
     paid |-> PaidBefore(u, f),
     used |-> UsedBefore(u, f)]

(* The object finds what it needs. *)
Undoable(u, f) ==
    /\ OfInvoice(u) => shown(f, u.id) # None
    /\ u.type = "UndoPaid" =>
          /\ shown(f, u.id).status = "Paid" /\ shown(f, u.id).payer \in PubKeys
          /\ f.customers[shown(f, u.id).payer] # None
    /\ u.type = "UndoCreateSubscription" =>
          /\ f.subscriptions[u.id] # None /\ f.subscriptions[u.id].customer \in PubKeys
          /\ f.customers[f.subscriptions[u.id].customer] # None
    /\ u.type = "UndoProcessSubscription" => f.subscriptions[u.id] # None

(* The subscription that a command took off its customer's list *)
Lost(u) == IF u.type = "UndoCancelSubscription" THEN {u.id} ELSE {}

(* e shows what g does, and lists what g does. *)
Like(e, g) ==
    /\ Image(e) = Image(g)
    /\ \A c \in PubKeys :
          /\ e.customers[c] = None <=> g.customers[c] = None
          /\ Listed(g, c) \subseteq Listed(e, c)

(* u is the rollback object of a command that made f of g. *)
Linked(g, u, f) ==
    /\ Undoable(u, f)
    /\ Image(g) = ImageBefore(u, f)
    /\ \A c \in PubKeys :
          /\ g.customers[c] = None <=> f.customers[c] = None
          /\ Listed(g, c) \ Lost(u) \subseteq Listed(f, c)

After(k) == IF k = Len(trail) THEN episode ELSE trail[k + 1]

Trailed == \A k \in 1..Len(trail) : Linked(trail[k], rollback_stack[k], After(k))

(* Where the process stands, and what its channel can hold *)
Placed ==
    /\ episode # None =>
          /\ mode \in {"proxy", "router", "demo", "new"}
          /\ TreesOf(episode) = db
          /\ \A k \in 1..Len(queue) :
                /\ queue[k].id \in SubscriptionIds
                /\ episode.subscriptions[queue[k].id] # None
    /\ episode = None => trail = <<>>
    /\ queue # <<>> => mode \in {"serve", "once"} \/ (mode = "demo" /\ episode # None)

IInv == TypeOK /\ Trailed /\ Placed
-----------------------------------------------------------------------------
(* The fields of an episode and of the trees *)
LEMMA EpisodeFields ==
  ASSUME NEW e \in Episodes
  PROVE  /\ e.invoices \in [InvoiceIds -> Invoices \cup {None}]
         /\ e.subscriptions \in [SubscriptionIds -> Subscriptions \cup {None}]
         /\ e.customers \in [PubKeys -> CustomerInfos \cup {None}]
         /\ e.used_carrier_txs \in SUBSET TxIds
BY DEF Episodes

LEMMA TreesFields ==
  ASSUME NEW t \in Trees
  PROVE  /\ t.invoices \in [InvoiceIds -> Invoices \cup {None}]
         /\ t.subscriptions \in [SubscriptionIds -> Subscriptions \cup {None}]
         /\ t.customers \in [PubKeys -> CustomerInfos \cup {None}]
         /\ t = [invoices |-> t.invoices, subscriptions |-> t.subscriptions,
                 customers |-> t.customers]
BY DEF Trees

LEMMA InvoiceFields ==
  ASSUME NEW x \in Invoices
  PROVE  /\ x.amount \in Amounts
         /\ x.status \in {"Open", "Paid", "Acked", "Canceled"}
         /\ x.payer \in PubKeys \cup {None}
         /\ x.carrier_tx \in TxIds \cup {None}
         /\ x.last_update \in Nat
         /\ x = [amount |-> x.amount, status |-> x.status, payer |-> x.payer,
                 carrier_tx |-> x.carrier_tx, last_update |-> x.last_update]
BY DEF Invoices

LEMMA InfoFields ==
  ASSUME NEW r \in CustomerInfos
  PROVE  /\ r.invoices \in Seq(InvoiceIds) /\ r.subscriptions \in Seq(SubscriptionIds)
         /\ r = [invoices |-> r.invoices, subscriptions |-> r.subscriptions]
BY DEF CustomerInfos

LEMMA Nothing ==
  /\ None \notin Invoices /\ None \notin Subscriptions /\ None \notin CustomerInfos
  /\ None \notin Episodes /\ None \notin PubKeys /\ None \notin TxIds
BY MerchantAssumption DEF TxIds

(* Whether a customer's list names i *)
LEMMA Named ==
  ASSUME NEW S, NEW s \in Seq(S), NEW x
  PROVE  x \in ToSet(s) <=> \E k \in 1..Len(s) : s[k] = x
<1>1. DOMAIN s = 1..Len(s)
  BY LenProperties
<1> QED  BY <1>1 DEF ToSet

-----------------------------------------------------------------------------
(* One entry of a sound tree is replaced by one that fits. *)
LEMMA InvoicePut ==
  ASSUME NEW t \in SoundTrees, NEW i \in InvoiceIds, NEW x \in Invoices \cup {None},
         x # None => /\ Settled(x) <=> x.carrier_tx # None
                     /\ Settled(x) <=> x.payer # None,
         x # None => \A j \in InvoiceIds \ {i} :
                         t.invoices[j] # None /\ x.carrier_tx # None
                             => t.invoices[j].carrier_tx # x.carrier_tx,
         \A c \in PubKeys :
             t.customers[c] # None /\ i \in ToSet(t.customers[c].invoices)
                 => x # None /\ x.payer = c
  PROVE  [t EXCEPT !.invoices[i] = x] \in SoundTrees
<1> DEFINE v == [t EXCEPT !.invoices[i] = x]
<1>1. t \in Trees /\ PaymentsExact(t.invoices) /\ IndexSound(t)
  BY DEF SoundTrees
<1>2. /\ v.invoices = [t.invoices EXCEPT ![i] = x]
      /\ v.subscriptions = t.subscriptions /\ v.customers = t.customers
  BY <1>1 DEF Trees
<1>3. v \in Trees
  BY <1>1 DEF Trees
<1>4. v.invoices[i] = x /\ \A j \in InvoiceIds \ {i} : v.invoices[j] = t.invoices[j]
  BY <1>1, <1>2, TreesFields
<1> HIDE DEF v
<1>5. PaymentsExact(v.invoices)
  <2>1. ASSUME NEW j \in InvoiceIds, v.invoices[j] # None
        PROVE  /\ Settled(v.invoices[j]) <=> v.invoices[j].carrier_tx # None
               /\ Settled(v.invoices[j]) <=> v.invoices[j].payer # None
    <3>1. CASE j = i
      BY <1>4, <2>1, <3>1
    <3>2. CASE j # i
      BY <1>1, <1>4, <2>1, <3>2 DEF PaymentsExact
    <3> QED  BY <3>1, <3>2
  <2>2. ASSUME NEW j \in InvoiceIds, NEW k \in InvoiceIds,
               v.invoices[j] # None, v.invoices[k] # None,
               v.invoices[j].carrier_tx # None,
               v.invoices[j].carrier_tx = v.invoices[k].carrier_tx
        PROVE  j = k
    <3>1. CASE j # i /\ k # i
      BY <1>1, <1>4, <2>2, <3>1 DEF PaymentsExact
    <3>2. CASE j = i /\ k # i
      BY <1>4, <2>2, <3>2
    <3>3. CASE j # i /\ k = i
      BY <1>4, <2>2, <3>3
    <3> QED  BY <3>1, <3>2, <3>3
  <2> QED  BY <2>1, <2>2 DEF PaymentsExact
<1>6. IndexSound(v)
  <2> SUFFICES ASSUME NEW c \in PubKeys, v.customers[c] # None
               PROVE  LET list == v.customers[c].invoices IN
                      /\ \A j \in ToSet(list) : v.invoices[j] # None /\ v.invoices[j].payer = c
                      /\ IsInjective(list)
    BY DEF IndexSound
  <2> DEFINE list == t.customers[c].invoices
  <2>1. v.customers[c].invoices = list /\ t.customers[c] # None
    BY <1>2
  <2>2. IsInjective(list) /\ \A j \in ToSet(list) : t.invoices[j] # None /\ t.invoices[j].payer = c
    BY <1>1, <2>1 DEF IndexSound
  <2>3. \A j \in ToSet(list) : j \in InvoiceIds
    <3>1. t.customers[c] \in CustomerInfos
      BY <1>1, <2>1, TreesFields
    <3>2. list \in Seq(InvoiceIds)
      BY <3>1, InfoFields
    <3> HIDE DEF list
    <3> QED  BY <3>2, Named, ElementOfSeq
  <2>4. ASSUME NEW j \in ToSet(list) PROVE v.invoices[j] # None /\ v.invoices[j].payer = c
    <3>1. CASE j = i
      BY <1>4, <2>1, <2>4, <3>1
    <3>2. CASE j # i
      BY <1>4, <2>2, <2>3, <2>4, <3>2
    <3> QED  BY <3>1, <3>2
  <2> HIDE DEF list
  <2> QED  BY <2>1, <2>2, <2>4
<1> QED  BY <1>3, <1>5, <1>6 DEF SoundTrees, v

LEMMA CustomerPut ==
  ASSUME NEW t \in SoundTrees, NEW c \in PubKeys, NEW r \in CustomerInfos \cup {None},
         r # None => /\ \A i \in ToSet(r.invoices) :
                           t.invoices[i] # None /\ t.invoices[i].payer = c
                     /\ IsInjective(r.invoices)
  PROVE  [t EXCEPT !.customers[c] = r] \in SoundTrees
<1> DEFINE v == [t EXCEPT !.customers[c] = r]
<1>1. t \in Trees /\ PaymentsExact(t.invoices) /\ IndexSound(t)
  BY DEF SoundTrees
<1>2. /\ v.customers = [t.customers EXCEPT ![c] = r]
      /\ v.subscriptions = t.subscriptions /\ v.invoices = t.invoices
  BY <1>1 DEF Trees
<1>3. v \in Trees
  BY <1>1 DEF Trees
<1>4. v.customers[c] = r /\ \A d \in PubKeys \ {c} : v.customers[d] = t.customers[d]
  BY <1>1, <1>2, TreesFields
<1> HIDE DEF v
<1>5. PaymentsExact(v.invoices)
  BY <1>1, <1>2
<1>6. IndexSound(v)
  <2> SUFFICES ASSUME NEW d \in PubKeys, v.customers[d] # None
               PROVE  LET list == v.customers[d].invoices IN
                      /\ \A j \in ToSet(list) : v.invoices[j] # None /\ v.invoices[j].payer = d
                      /\ IsInjective(list)
    BY DEF IndexSound
  <2>1. CASE d = c
    BY <1>2, <1>4, <2>1
  <2>2. CASE d # c
    BY <1>1, <1>2, <1>4, <2>2 DEF IndexSound
  <2> QED  BY <2>1, <2>2
<1> QED  BY <1>3, <1>5, <1>6 DEF SoundTrees, v

LEMMA SubscriptionPut ==
  ASSUME NEW t \in SoundTrees, NEW s \in SubscriptionIds, NEW r \in Subscriptions \cup {None}
  PROVE  [t EXCEPT !.subscriptions[s] = r] \in SoundTrees
<1> DEFINE v == [t EXCEPT !.subscriptions[s] = r]
<1>1. t \in Trees /\ PaymentsExact(t.invoices) /\ IndexSound(t)
  BY DEF SoundTrees
<1>2. v.customers = t.customers /\ v.invoices = t.invoices
  BY <1>1 DEF Trees
<1>3. v \in Trees
  BY <1>1 DEF Trees
<1> HIDE DEF v
<1>4. IndexSound(v)
  BY <1>1, <1>2 DEF IndexSound
<1> QED  BY <1>1, <1>2, <1>3, <1>4 DEF SoundTrees, v
-----------------------------------------------------------------------------
(* Versions of the trees *)
LEMMA Written ==
  ASSUME NEW S, NEW s \in Seq(S), NEW p \in Seq(S), p # <<>>
  PROVE  s \o p \in Seq(S) /\ s \o p # <<>> /\ Last(s \o p) = Last(p)
<1>1. Len(p) \in Nat \ {0} /\ Len(s) \in Nat
  BY EmptySeq, LenProperties
<1>2. /\ s \o p \in Seq(S) /\ Len(s \o p) = Len(s) + Len(p)
      /\ \A i \in 1..Len(s) + Len(p) : (s \o p)[i] = IF i <= Len(s) THEN s[i] ELSE p[i - Len(s)]
  BY <1>1, ConcatProperties
<1>3. (s \o p)[Len(s) + Len(p)] = p[Len(p)]
  <2>1. Len(s) + Len(p) \in 1..Len(s) + Len(p) /\ ~ (Len(s) + Len(p) <= Len(s))
        /\ (Len(s) + Len(p)) - Len(s) = Len(p)
    BY <1>1
  <2> QED  BY <1>2, <2>1
<1>4. s \o p # <<>>
  BY <1>1, <1>2, EmptySeq
<1> QED  BY <1>2, <1>3, <1>4 DEF Last

LEMMA OnePut ==
  ASSUME NEW S, NEW a \in S
  PROVE  <<a>> \in Seq(S) /\ <<a>> # <<>> /\ Last(<<a>>) = a
BY DEF Last

LEMMA TwoPuts ==
  ASSUME NEW S, NEW a \in S, NEW b \in S
  PROVE  <<a, b>> \in Seq(S) /\ <<a, b>> # <<>> /\ Last(<<a, b>>) = b
BY DEF Last

(* The last version is sound. *)
LEMMA DbSound ==
  ASSUME IInv
  PROVE  db \in SoundTrees
BY FrontLast DEF IInv, TypeOK, db

(* What the live episode is *)
LEMMA EpisodeSound ==
  ASSUME IInv, episode # None
  PROVE  /\ episode \in SoundEpisodes /\ episode \in Episodes
         /\ TreesOf(episode) = db /\ db \in SoundTrees
         /\ db.invoices = episode.invoices /\ db.subscriptions = episode.subscriptions
         /\ db.customers = episode.customers
         /\ PaymentsExact(episode.invoices) /\ IndexSound(db)
         /\ episode.used_carrier_txs = CarriersOf(episode.invoices)
<1>1. episode \in SoundEpisodes /\ TreesOf(episode) = db /\ db \in SoundTrees
  BY DbSound DEF IInv, TypeOK, Placed
<1>2. episode \in Episodes /\ episode.used_carrier_txs = CarriersOf(episode.invoices)
  BY <1>1 DEF SoundEpisodes
<1>3. db.invoices = episode.invoices /\ db.subscriptions = episode.subscriptions
      /\ db.customers = episode.customers
  <2>1. /\ TreesOf(episode).invoices = episode.invoices
        /\ TreesOf(episode).subscriptions = episode.subscriptions
        /\ TreesOf(episode).customers = episode.customers
    BY DEF TreesOf
  <2> QED  BY <1>1, <2>1
<1>4. PaymentsExact(db.invoices) /\ IndexSound(db)
  BY <1>1 DEF SoundTrees
<1> QED  BY <1>1, <1>2, <1>3, <1>4

(* An executed command keeps the invariant if what it writes is sound, its *)
(* last write leaves the trees as the episode, and its object leads back.  *)
LEMMA ExecutedKeeps ==
  ASSUME IInv, Ready, NEW e \in SoundEpisodes, NEW puts, NEW u \in Rollbacks,
         Executed(e, puts, u),
         puts \in Seq(SoundTrees), puts # <<>>, Last(puts) = TreesOf(e),
         Linked(episode, u, e),
         queue' = queue \/ (queue # <<>> /\ queue' = Tail(queue)),
         mode = "demo" => \A s \in SubscriptionIds :
                              episode.subscriptions[s] # None => e.subscriptions[s] # None,
         chain' \subseteq ChainTxs
  PROVE  IInv'
<1>1. /\ episode' = e /\ store' = store \o puts
      /\ rollback_stack' = Append(rollback_stack, u) /\ trail' = Append(trail, episode)
      /\ pc' = "on_command" /\ mode' = mode /\ now' = now
  BY DEF Executed
<1>2. TypeOK
  BY DEF IInv
<1>3. episode # None /\ episode \in SoundEpisodes
  BY EpisodeSound DEF Ready
<1>4. e # None
  BY Nothing DEF SoundEpisodes
<1>5. store' \in Seq(SoundTrees) /\ store' # <<>> /\ db' = TreesOf(e)
  BY <1>1, <1>2, Written DEF TypeOK, db
<1>6. /\ rollback_stack' \in Seq(Rollbacks) /\ trail' \in Seq(SoundEpisodes)
      /\ Len(trail') = Len(trail) + 1 /\ Len(rollback_stack') = Len(rollback_stack) + 1
      /\ Len(trail) \in Nat /\ Len(trail) = Len(rollback_stack)
      /\ \A k \in 1..Len(trail) : trail'[k] = trail[k] /\ rollback_stack'[k] = rollback_stack[k]
      /\ trail'[Len(trail) + 1] = episode /\ rollback_stack'[Len(trail) + 1] = u
  BY <1>1, <1>2, <1>3, AppendProperties, LenProperties DEF TypeOK
<1> DEFINE Q == Seq([id : SubscriptionIds \cup {None}, time : Nat])
<1>7. queue' \in Q
  <2>1. queue \in Q
    BY <1>2 DEF TypeOK
  <2> HIDE DEF Q
  <2>2. CASE queue' = queue
    BY <2>1, <2>2
  <2>3. CASE queue # <<>> /\ queue' = Tail(queue)
    BY <2>1, <2>3, HeadTailProperties DEF Q
  <2> QED  BY <2>2, <2>3
<1>8. ASSUME NEW k \in 1..Len(queue')
      PROVE  \E j \in 1..Len(queue) : queue'[k] = queue[j]
  <2>1. queue \in Q /\ Len(queue) \in Nat
    BY <1>2, LenProperties DEF TypeOK
  <2> HIDE DEF Q
  <2>2. CASE queue' = queue
    BY <2>2
  <2>3. CASE queue # <<>> /\ queue' = Tail(queue)
    <3>1. Tail(queue) \in Q /\ Len(Tail(queue)) = Len(queue) - 1
      BY <2>1, <2>3, HeadTailProperties DEF Q
    <3> DEFINE n == Len(queue)
    <3>4. Len(queue') = n - 1
      BY <2>3, <3>1
    <3>2. k \in 1..n - 1 /\ k + 1 \in 1..n
      <4>1. n \in Nat /\ k \in 1..n - 1
        BY <2>1, <3>4
      <4> HIDE DEF n
      <4> QED  BY <4>1
    <3>3. queue'[k] = queue[k + 1]
      BY <2>1, <2>3, <3>2 DEF Q
    <3> QED  BY <3>2, <3>3
  <2> QED  BY <2>2, <2>3
<1>9. Placed'
  <2>1. mode \in {"proxy", "router", "demo", "new"}
        /\ \A k \in 1..Len(queue) : queue[k].id \in SubscriptionIds
                                    /\ episode.subscriptions[queue[k].id] # None
        /\ (queue # <<>> => mode = "demo")
    BY <1>3 DEF IInv, Placed
  <2>2. ASSUME NEW k \in 1..Len(queue')
        PROVE  queue'[k].id \in SubscriptionIds /\ e.subscriptions[queue'[k].id] # None
    <3>1. PICK j \in 1..Len(queue) : queue'[k] = queue[j]
      BY <1>8
    <3>2. queue # <<>>
      BY <3>1, EmptySeq
    <3> QED  BY <2>1, <3>1, <3>2
  <2>3. queue' # <<>> => queue # <<>>
    OBVIOUS
  <2> QED  BY <1>1, <1>4, <1>5, <2>1, <2>2, <2>3 DEF Placed
<1>10. Trailed'
  <2>1. ASSUME NEW k \in 1..Len(trail') PROVE Linked(trail'[k], rollback_stack'[k], After(k)')
    <3>1. CASE k \in 1..Len(trail) - 1
      <4>1. k \in 1..Len(trail) /\ k + 1 \in 1..Len(trail) /\ k # Len(trail) /\ k # Len(trail')
        BY <1>6, <3>1
      <4>2. After(k) = trail[k + 1] /\ After(k)' = trail[k + 1]
        BY <1>6, <4>1 DEF After
      <4>3. Linked(trail[k], rollback_stack[k], After(k))
        BY <4>1 DEF IInv, Trailed
      <4> QED  BY <1>6, <4>1, <4>2, <4>3
    <3>2. CASE k = Len(trail) /\ k # 0
      <4>1. k \in 1..Len(trail) /\ k # Len(trail')
        BY <1>6, <3>2
      <4>2. After(k) = episode /\ After(k)' = episode
        BY <1>6, <3>2, <4>1 DEF After
      <4>3. Linked(trail[k], rollback_stack[k], After(k))
        BY <4>1 DEF IInv, Trailed
      <4> QED  BY <1>6, <4>1, <4>2, <4>3
    <3>3. CASE k = Len(trail) + 1
      BY <1>1, <1>6, <3>3 DEF After
    <3> QED  BY <1>6, <3>1, <3>2, <3>3
  <2> QED  BY <2>1 DEF Trailed
<1>11. TypeOK'
  BY <1>1, <1>2, <1>5, <1>6, <1>7 DEF TypeOK
<1> QED  BY <1>9, <1>10, <1>11 DEF IInv
-----------------------------------------------------------------------------
(* What an invoice without its date tells *)
LEMMA UndatedFields ==
  ASSUME NEW x \in Invoices
  PROVE  /\ Undated(x) \in Invoices /\ Undated(x) # None /\ x # None
         /\ Undated(x).amount = x.amount /\ Undated(x).status = x.status
         /\ Undated(x).payer = x.payer /\ Undated(x).carrier_tx = x.carrier_tx
<1>1. x # None
  BY Nothing
<1>2. Undated(x) = [x EXCEPT !.last_update = 0]
  BY <1>1 DEF Undated
<1>3. Undated(x) \in Invoices
  BY <1>2 DEF Invoices
<1> QED  BY <1>1, <1>2, <1>3, Nothing DEF Invoices

(* What an episode's image tells *)
LEMMA ImageOf ==
  ASSUME NEW e
  PROVE  /\ Image(e).invoices = [i \in InvoiceIds |-> Undated(e.invoices[i])]
         /\ Image(e).subscriptions = e.subscriptions
         /\ Image(e).paid = [c \in PubKeys |->
               IF e.customers[c] = None THEN None ELSE e.customers[c].invoices]
         /\ Image(e).used = e.used_carrier_txs
         /\ Image(e) = [invoices |-> Image(e).invoices, subscriptions |-> e.subscriptions,
                        paid |-> Image(e).paid, used |-> e.used_carrier_txs]
BY DEF Image

LEMMA ShownOf ==
  ASSUME NEW e, NEW i \in InvoiceIds
  PROVE  shown(e, i) = Undated(e.invoices[i])
BY DEF Image, shown

(* Episodes that differ in one invoice *)
AsideFrom(e, f, i) == \A j \in InvoiceIds : j # i => e.invoices[j] = f.invoices[j]

LEMMA ImagePut ==
  ASSUME NEW e, NEW f, NEW i \in InvoiceIds, AsideFrom(e, f, i)
  PROVE  Image(e).invoices = [Image(f).invoices EXCEPT ![i] = Undated(e.invoices[i])]
<1> DEFINE A == [j \in InvoiceIds |-> Undated(e.invoices[j])]
           B == [j \in InvoiceIds |-> Undated(f.invoices[j])]
<1>1. Image(e).invoices = A /\ Image(f).invoices = B
  BY DEF Image
<1>2. A = [B EXCEPT ![i] = Undated(e.invoices[i])]
  BY DEF AsideFrom
<1> QED  BY <1>1, <1>2

LEMMA ImageFields ==
  ASSUME NEW e, NEW g, Image(e) = Image(g)
  PROVE  /\ \A i \in InvoiceIds : Undated(e.invoices[i]) = Undated(g.invoices[i])
         /\ e.subscriptions = g.subscriptions
         /\ e.used_carrier_txs = g.used_carrier_txs
         /\ \A c \in PubKeys : e.customers[c] # None /\ g.customers[c] # None
               => e.customers[c].invoices = g.customers[c].invoices
<1>1. /\ \A i \in InvoiceIds : /\ Image(e).invoices[i] = Undated(e.invoices[i])
                              /\ Image(g).invoices[i] = Undated(g.invoices[i])
      /\ Image(e).subscriptions = e.subscriptions /\ Image(g).subscriptions = g.subscriptions
      /\ Image(e).used = e.used_carrier_txs /\ Image(g).used = g.used_carrier_txs
      /\ \A c \in PubKeys :
            /\ Image(e).paid[c] = IF e.customers[c] = None THEN None ELSE e.customers[c].invoices
            /\ Image(g).paid[c] = IF g.customers[c] = None THEN None ELSE g.customers[c].invoices
  BY DEF Image
<1> QED  BY <1>1

LEMMA LikeSound ==
  ASSUME NEW e \in Episodes, NEW g \in SoundEpisodes, Like(e, g)
  PROVE  e \in SoundEpisodes
<1>1. /\ \A i \in InvoiceIds : Undated(e.invoices[i]) = Undated(g.invoices[i])
      /\ e.used_carrier_txs = g.used_carrier_txs
      /\ \A c \in PubKeys : e.customers[c] # None
            => g.customers[c] # None /\ e.customers[c].invoices = g.customers[c].invoices
  BY ImageFields DEF Like
<1>2. /\ TreesOf(g) \in SoundTrees /\ g.used_carrier_txs = CarriersOf(g.invoices)
  BY DEF SoundEpisodes
<1>3. /\ TreesOf(g).invoices = g.invoices /\ TreesOf(g).customers = g.customers
      /\ TreesOf(e).invoices = e.invoices /\ TreesOf(e).customers = e.customers
      /\ TreesOf(e) \in Trees
  BY EpisodeFields DEF TreesOf, Trees
<1>4. PaymentsExact(g.invoices) /\ IndexSound(TreesOf(g))
  BY <1>2, <1>3 DEF SoundTrees
<1>7. ASSUME NEW i \in InvoiceIds
      PROVE  /\ e.invoices[i] = None <=> g.invoices[i] = None
             /\ e.invoices[i] # None =>
                   /\ e.invoices[i].status = g.invoices[i].status
                   /\ e.invoices[i].payer = g.invoices[i].payer
                   /\ e.invoices[i].carrier_tx = g.invoices[i].carrier_tx
  <2>1. g \in Episodes
    BY DEF SoundEpisodes
  <2>2. e.invoices[i] \in Invoices \cup {None} /\ g.invoices[i] \in Invoices \cup {None}
    BY <2>1, EpisodeFields
  <2>3. Undated(e.invoices[i]) = Undated(g.invoices[i])
    BY <1>1
  <2>4. Undated(None) = None
    BY DEF Undated
  <2> QED  BY <2>2, <2>3, <2>4, UndatedFields
<1>8. PaymentsExact(e.invoices)
  <2>1. \A i \in InvoiceIds : e.invoices[i] # None => (Settled(e.invoices[i]) <=> Settled(g.invoices[i]))
    BY <1>7 DEF Settled
  <2> QED  BY <1>4, <1>7, <2>1 DEF PaymentsExact
<1>9. CarriersOf(e.invoices) = CarriersOf(g.invoices)
  BY <1>7 DEF CarriersOf
<1>5. IndexSound(TreesOf(e))
  <2> SUFFICES ASSUME NEW c \in PubKeys, e.customers[c] # None
               PROVE  LET list == e.customers[c].invoices IN
                      /\ \A j \in ToSet(list) : e.invoices[j] # None /\ e.invoices[j].payer = c
                      /\ IsInjective(list)
    BY <1>3 DEF IndexSound
  <2>1. g.customers[c] # None /\ e.customers[c].invoices = g.customers[c].invoices
    BY <1>1
  <2>2. LET list == g.customers[c].invoices IN
        /\ \A j \in ToSet(list) : g.invoices[j] # None /\ g.invoices[j].payer = c
        /\ IsInjective(list)
    BY <1>3, <1>4, <2>1 DEF IndexSound
  <2>3. e.customers[c].invoices \in Seq(InvoiceIds)
    BY EpisodeFields, InfoFields
  <2>4. ASSUME NEW j \in ToSet(e.customers[c].invoices)
        PROVE  e.invoices[j] # None /\ e.invoices[j].payer = c
    <3>1. j \in InvoiceIds
      BY <2>3, Named, ElementOfSeq
    <3>2. g.invoices[j] # None /\ g.invoices[j].payer = c
      BY <2>1, <2>2
    <3> QED  BY <1>7, <3>1, <3>2
  <2> QED  BY <2>1, <2>2, <2>4
<1>6. TreesOf(e) \in SoundTrees
  BY <1>3, <1>5, <1>8 DEF SoundTrees
<1> QED  BY <1>1, <1>2, <1>6, <1>9 DEF SoundEpisodes

LEMMA LikeLinked ==
  ASSUME NEW g, NEW u, NEW f, NEW e, Linked(g, u, f), Like(e, f)
  PROVE  Linked(g, u, e)
<1>1. /\ Image(e) = Image(f) /\ e.subscriptions = f.subscriptions
      /\ \A i : shown(e, i) = shown(f, i)
  BY ImageFields DEF Like, shown
<1>2. \A c \in PubKeys : /\ e.customers[c] = None <=> f.customers[c] = None
                         /\ Listed(f, c) \subseteq Listed(e, c)
  BY DEF Like
<1>3. Undoable(u, e)
  BY <1>1, <1>2 DEF Linked, Undoable
<1>4. /\ PaidBefore(u, e) = PaidBefore(u, f) /\ UsedBefore(u, e) = UsedBefore(u, f)
      /\ InvoiceBefore(u, e) = InvoiceBefore(u, f)
      /\ SubscriptionBefore(u, e) = SubscriptionBefore(u, f)
  BY <1>1 DEF PaidBefore, UsedBefore, InvoiceBefore, SubscriptionBefore
<1>5. ImageBefore(u, e) = ImageBefore(u, f)
  BY <1>1, <1>4 DEF ImageBefore
<1> QED  BY <1>2, <1>3, <1>5 DEF Linked

(* A rollback keeps the invariant if it makes an episode like the one      *)
(* before its command, what it writes is sound, and its last write leaves  *)
(* the trees as the episode.                                               *)
LEMMA PoppedKeeps ==
  ASSUME IInv, Ready, mode = "proxy", rollback_stack # <<>>,
         NEW e \in Episodes, NEW puts, Popped(e, puts),
         puts \in Seq(SoundTrees), puts # <<>>, Last(puts) = TreesOf(e),
         Like(e, Last(trail)), chain' \subseteq ChainTxs
  PROVE  IInv'
<1>1. /\ episode' = e /\ store' = store \o puts
      /\ rollback_stack' = Front(rollback_stack) /\ trail' = Front(trail)
      /\ pc' = pc /\ mode' = mode /\ now' = now /\ queue' = queue
  BY DEF Popped
<1>2. TypeOK
  BY DEF IInv
<1>3. trail # <<>>
  BY <1>2, EmptySeq DEF TypeOK
<1> DEFINE n == Len(trail)
<1>4. /\ rollback_stack' \in Seq(Rollbacks) /\ trail' \in Seq(SoundEpisodes)
      /\ n \in Nat \ {0} /\ n = Len(rollback_stack)
      /\ Len(trail') = n - 1 /\ Len(rollback_stack') = n - 1
      /\ \A k \in 1..n - 1 : trail'[k] = trail[k] /\ rollback_stack'[k] = rollback_stack[k]
      /\ Last(trail) = trail[n] /\ Last(trail) \in SoundEpisodes
  BY <1>1, <1>2, <1>3, FrontLast DEF TypeOK
<1>5. e \in SoundEpisodes
  BY <1>4, LikeSound
<1>6. store' \in Seq(SoundTrees) /\ store' # <<>> /\ db' = TreesOf(e)
  BY <1>1, <1>2, Written DEF TypeOK, db
<1>7. queue = <<>> /\ e # None
  BY Nothing DEF Ready, IInv, Placed
<1>8. Placed'
  BY <1>1, <1>6, <1>7 DEF Placed
<1>9. Trailed'
  <2>1. ASSUME NEW k \in 1..Len(trail') PROVE Linked(trail'[k], rollback_stack'[k], After(k)')
    <3>1. k \in 1..n - 1
      BY <1>4
    <3>2. k \in 1..n /\ k # n /\ k + 1 \in 1..n
      <4> HIDE DEF n
      <4> QED  BY <1>4, <3>1
    <3>3. Linked(trail[k], rollback_stack[k], trail[k + 1])
      BY <3>2 DEF IInv, Trailed, After
    <3>4. CASE k = n - 1
      <4>1. After(k)' = e /\ k + 1 = n
        BY <1>1, <1>4, <3>4 DEF After
      <4> QED  BY <1>4, <3>1, <3>3, <4>1, LikeLinked
    <3>5. CASE k # n - 1
      <4>1. k + 1 \in 1..n - 1
        <5> HIDE DEF n
        <5> QED  BY <1>4, <3>1, <3>5
      <4>2. After(k)' = trail[k + 1]
        BY <1>4, <3>5, <4>1 DEF After
      <4> QED  BY <1>4, <3>1, <3>3, <4>2
    <3> QED  BY <3>4, <3>5
  <2> QED  BY <2>1 DEF Trailed
<1>10. TypeOK'
  BY <1>1, <1>2, <1>4, <1>5, <1>6 DEF TypeOK
<1> QED  BY <1>8, <1>9, <1>10 DEF IInv
-----------------------------------------------------------------------------
(* The commands on an invoice that leave its payer and carrier alone:      *)
(* `payment' is what an invoice says of its payment.                       *)
payment(x) == IF x = None THEN <<None, None>> ELSE <<x.payer, x.carrier_tx>>

LEMMA CarriersSame ==
  ASSUME NEW v \in [InvoiceIds -> Invoices \cup {None}], NEW i \in InvoiceIds,
         NEW x \in Invoices \cup {None}, payment(x) = payment(v[i])
  PROVE  CarriersOf([v EXCEPT ![i] = x]) = CarriersOf(v)
<1> DEFINE w == [v EXCEPT ![i] = x]
<1>1. w[i] = x /\ \A j \in InvoiceIds \ {i} : w[j] = v[j]
  OBVIOUS
<1>2. (IF x = None THEN None ELSE x.carrier_tx) = IF v[i] = None THEN None ELSE v[i].carrier_tx
  BY DEF payment
<1> HIDE DEF w
<1>3. ASSUME NEW tx, tx # None
      PROVE  (\E j \in InvoiceIds : w[j] # None /\ w[j].carrier_tx = tx)
                <=> (\E j \in InvoiceIds : v[j] # None /\ v[j].carrier_tx = tx)
  BY <1>1, <1>2, <1>3
<1>4. \A tx : tx \in CarriersOf(w) <=> tx \in CarriersOf(v)
  BY <1>3 DEF CarriersOf
<1>5. CarriersOf(w) = CarriersOf(v)
  BY <1>4
<1> QED  BY <1>5 DEF w

LEMMA InvoiceCommand ==
  ASSUME IInv, Ready, NEW i \in InvoiceIds, NEW x \in Invoices, NEW u \in Rollbacks,
         OfInvoice(u), u.type # "UndoPaid", u.id = i,
         NEW e, e = [episode EXCEPT !.invoices[i] = x],
         Executed(e, <<PutInvoice(db, e, i)>>, u),
         payment(x) = payment(episode.invoices[i]),
         Settled(x) <=> Settled(episode.invoices[i]),
         Undated(episode.invoices[i]) = InvoiceBefore(u, e),
         queue' = queue, chain' \subseteq ChainTxs
  PROVE  IInv'
<1> DEFINE v == episode.invoices
<1>1. /\ episode \in Episodes /\ TreesOf(episode) = db /\ db \in SoundTrees
      /\ db.invoices = v /\ db.customers = episode.customers
      /\ PaymentsExact(v) /\ IndexSound(db)
      /\ episode.used_carrier_txs = CarriersOf(v)
  BY EpisodeSound DEF Ready
<1>2. v \in [InvoiceIds -> Invoices \cup {None}]
  BY <1>1, EpisodeFields
<1>3. /\ e.invoices = [v EXCEPT ![i] = x] /\ e.subscriptions = episode.subscriptions
      /\ e.customers = episode.customers /\ e.used_carrier_txs = episode.used_carrier_txs
      /\ e \in Episodes
  BY <1>1 DEF Episodes
<1>4. e.invoices[i] = x /\ x # None
  BY <1>2, <1>3, Nothing
<1>5. [db EXCEPT !.invoices[i] = x] \in SoundTrees
  <2>1. /\ Settled(x) <=> x.carrier_tx # None
        /\ Settled(x) <=> x.payer # None
    <3>1. CASE v[i] = None
      BY <1>4, <3>1 DEF payment, Settled
    <3>2. CASE v[i] # None
      BY <1>1, <1>4, <3>2 DEF payment, PaymentsExact
    <3> QED  BY <3>1, <3>2
  <2>2. ASSUME NEW j \in InvoiceIds \ {i}, v[j] # None, x.carrier_tx # None
        PROVE  v[j].carrier_tx # x.carrier_tx
    <3>1. v[i] # None /\ v[i].carrier_tx = x.carrier_tx
      BY <1>4, <2>2 DEF payment
    <3> QED  BY <1>1, <2>2, <3>1 DEF PaymentsExact
  <2>3. ASSUME NEW c \in PubKeys, db.customers[c] # None, i \in ToSet(db.customers[c].invoices)
        PROVE  x.payer = c
    <3>1. v[i] # None /\ v[i].payer = c
      BY <1>1, <2>3 DEF IndexSound
    <3> QED  BY <1>4, <3>1 DEF payment
  <2> HIDE DEF v
  <2> QED  BY <1>1, <1>4, <2>1, <2>2, <2>3, InvoicePut
<1>6. PutInvoice(db, e, i) = TreesOf(e)
  <2>1. db = [invoices |-> v, subscriptions |-> episode.subscriptions,
              customers |-> episode.customers]
    BY <1>1 DEF TreesOf
  <2> QED  BY <1>3, <1>4, <2>1 DEF PutInvoice, TreesOf
<1>7. PutInvoice(db, e, i) \in SoundTrees
  BY <1>4, <1>5 DEF PutInvoice
<1>8. e \in SoundEpisodes
  <2>1. CarriersOf(e.invoices) = CarriersOf(v)
    BY <1>2, <1>3, CarriersSame
  <2> QED  BY <1>1, <1>3, <1>6, <1>7, <2>1 DEF SoundEpisodes
<1>9. Linked(episode, u, e)
  <2>1. Undoable(u, e)
    <3>1. shown(e, i) # None
      <4>1. shown(e, i) = Undated(x)
        BY <1>4, ShownOf
      <4>2. Undated(x) # None
        BY UndatedFields
      <4> QED  BY <4>1, <4>2
    <3> QED  BY <3>1 DEF Undoable, OfInvoice
  <2>2. Image(e).paid = Image(episode).paid
    BY <1>3 DEF Image
  <2>3. ImageBefore(u, e) = [invoices |-> Image(episode).invoices,
                             subscriptions |-> episode.subscriptions,
                             paid |-> Image(episode).paid, used |-> episode.used_carrier_txs]
    <3>1. [Image(e).invoices EXCEPT ![i] = InvoiceBefore(u, e)] = Image(episode).invoices
      <4>1. AsideFrom(episode, e, i)
        BY <1>2, <1>3 DEF AsideFrom
      <4> QED  BY <4>1, ImagePut
    <3>2. PaidBefore(u, e) = Image(e).paid /\ UsedBefore(u, e) = e.used_carrier_txs
      BY ImageOf DEF PaidBefore, UsedBefore
    <3> QED  BY <1>3, <2>2, <3>1, <3>2 DEF ImageBefore
  <2>4. Image(episode) = ImageBefore(u, e)
    BY <2>3, ImageOf
  <2>5. \A c \in PubKeys : Listed(e, c) = Listed(episode, c)
    BY <1>3 DEF Listed
  <2> QED  BY <1>3, <2>1, <2>4, <2>5 DEF Linked
<1>10. <<PutInvoice(db, e, i)>> \in Seq(SoundTrees) /\ <<PutInvoice(db, e, i)>> # <<>>
       /\ Last(<<PutInvoice(db, e, i)>>) = TreesOf(e)
  BY <1>6, <1>7, OnePut
<1>11. \A s \in SubscriptionIds :
          episode.subscriptions[s] # None => e.subscriptions[s] # None
  BY <1>3
<1> DEFINE puts == <<PutInvoice(db, e, i)>>
<1>12. puts \in Seq(SoundTrees) /\ puts # <<>> /\ Last(puts) = TreesOf(e) /\ Executed(e, puts, u)
  BY <1>10
<1> HIDE DEF puts
<1> QED  BY <1>8, <1>9, <1>11, <1>12, ExecutedKeeps
LEMMA CreateInvoiceStep ==
  ASSUME IInv, NEW i \in InvoiceIds, NEW amount \in Amounts, NEW auth,
         CreateInvoice(i, amount, auth)
  PROVE  IInv'
<1> DEFINE x == [amount |-> amount, status |-> "Open", payer |-> None,
                 carrier_tx |-> None, last_update |-> now]
           e == [episode EXCEPT !.invoices[i] = x]
           u == [type |-> "UndoCreate", id |-> i]
<1>1. Ready /\ episode.invoices[i] = None /\ queue' = queue /\ chain' = chain
      /\ Executed(e, <<PutInvoice(db, e, i)>>, u)
  BY DEF CreateInvoice, Serving, Demo, inv
<1>2. x \in Invoices /\ u \in Rollbacks /\ OfInvoice(u) /\ u.type # "UndoPaid" /\ u.id = i
  BY DEF Invoices, Rollbacks, OfInvoice, IInv, TypeOK
<1>3. x # None
  BY <1>2, Nothing
<1>4. ~ Settled(x) /\ ~ Settled(episode.invoices[i])
  BY <1>1 DEF Settled
<1>5. payment(x) = payment(episode.invoices[i])
  BY <1>1, <1>3 DEF payment
<1>6. InvoiceBefore(u, e) = Undated(episode.invoices[i])
  BY <1>1 DEF InvoiceBefore, Undated
<1>7. chain' \subseteq ChainTxs
  BY <1>1 DEF IInv, TypeOK
<1>8. e = [episode EXCEPT !.invoices[i] = x]
  OBVIOUS
<1> HIDE DEF x, e, u
<1> QED  BY <1>1, <1>2, <1>4, <1>5, <1>6, <1>7, <1>8, InvoiceCommand

(* A created invoice whose status and date alone change *)
Stamped(x, status, time) == [x EXCEPT !.status = status, !.last_update = time]

Restates(x, y, status) ==
    /\ x \in Invoices /\ x # None /\ y # None
    /\ x.status = status /\ x.amount = y.amount
    /\ payment(x) = payment(y)
    /\ x.payer = y.payer /\ x.carrier_tx = y.carrier_tx
    /\ Settled(x) <=> status \in {"Paid", "Acked"}
    /\ Settled(y) <=> y.status \in {"Paid", "Acked"}
    /\ WithStatus(Undated(x), y.status) = Undated(y)

LEMMA Restated ==
  ASSUME NEW y \in Invoices, NEW status \in {"Open", "Paid", "Acked", "Canceled"},
         NEW time \in Nat
  PROVE  Restates(Stamped(y, status, time), y, status)
<1> PICK x : x = Stamped(y, status, time)
  OBVIOUS
<1>1. x \in Invoices /\ x.status = status /\ x.payer = y.payer /\ x.carrier_tx = y.carrier_tx
      /\ x.amount = y.amount
  BY DEF Invoices, Stamped
<1>2. x # None /\ y # None
  BY <1>1, Nothing
<1>3. WithStatus(Undated(x), y.status) = Undated(y)
  <2>1. Undated(x) = [x EXCEPT !.last_update = 0] /\ Undated(y) = [y EXCEPT !.last_update = 0]
    BY <1>2 DEF Undated
  <2> QED  BY <2>1 DEF Invoices, WithStatus, Stamped
<1>4. payment(x) = payment(y)
  BY <1>1, <1>2 DEF payment
<1>5. (Settled(x) <=> status \in {"Paid", "Acked"}) /\ (Settled(y) <=> y.status \in {"Paid", "Acked"})
  BY <1>1, <1>2 DEF Settled
<1> QED  BY <1>1, <1>2, <1>3, <1>4, <1>5 DEF Restates

LEMMA StatusCommand ==
  ASSUME IInv, Ready, NEW i \in InvoiceIds, episode.invoices[i] # None,
         NEW status \in {"Acked", "Canceled"},
         NEW kind \in {"UndoAck", "UndoCancel"},
         status = "Acked" => episode.invoices[i].status = "Paid" /\ kind = "UndoAck",
         status = "Canceled" => episode.invoices[i].status = "Open" /\ kind = "UndoCancel",
         NEW e, e = [episode EXCEPT !.invoices[i] = Stamped(episode.invoices[i], status, now)],
         Executed(e, <<PutInvoice(db, e, i)>>, [type |-> kind, id |-> i]),
         queue' = queue, chain' = chain
  PROVE  IInv'
<1> DEFINE y == episode.invoices[i]
           x == Stamped(y, status, now)
           u == [type |-> kind, id |-> i]
<1>1. episode \in Episodes /\ now \in Nat
  BY EpisodeSound DEF Ready, IInv, TypeOK
<1>2. y \in Invoices
  BY <1>1, EpisodeFields
<1>3. e = [episode EXCEPT !.invoices[i] = x]
  OBVIOUS
<1>4. u \in Rollbacks /\ OfInvoice(u) /\ u.type # "UndoPaid" /\ u.id = i /\ u.type = kind
  BY DEF Rollbacks, OfInvoice
<1>5. /\ x \in Invoices /\ payment(x) = payment(y)
      /\ Settled(x) <=> status \in {"Paid", "Acked"}
      /\ Settled(y) <=> y.status \in {"Paid", "Acked"}
      /\ WithStatus(Undated(x), y.status) = Undated(y)
  <2>1. Restates(Stamped(y, status, now), y, status)
    <3> HIDE DEF y
    <3> QED  BY <1>1, <1>2, Restated
  <2>2. Restates(x, y, status)
    BY <2>1
  <2> HIDE DEF x, y
  <2> QED  BY <2>2 DEF Restates
<1>6. Settled(x) <=> Settled(y)
  BY <1>5
<1> HIDE DEF x
<1>7. shown(e, i) = Undated(x)
  <2>1. e.invoices[i] = x
    <3>1. e.invoices = [episode.invoices EXCEPT ![i] = x]
      BY <1>1, <1>3 DEF Episodes
    <3> QED  BY <1>1, <3>1, EpisodeFields
  <2> QED  BY <2>1, ShownOf
<1>8. InvoiceBefore(u, e) = Undated(y)
  <2>1. CASE status = "Acked"
    <3>1. InvoiceBefore(u, e) = WithStatus(Undated(x), "Paid") /\ y.status = "Paid"
      BY <1>4, <1>7, <2>1 DEF InvoiceBefore
    <3> QED  BY <1>5, <3>1
  <2>2. CASE status = "Canceled"
    <3>1. InvoiceBefore(u, e) = WithStatus(Undated(x), "Open") /\ y.status = "Open"
      BY <1>4, <1>7, <2>2 DEF InvoiceBefore
    <3> QED  BY <1>5, <3>1
  <2> QED  BY <2>1, <2>2
<1>9. chain' \subseteq ChainTxs
  BY DEF IInv, TypeOK
<1>10. Executed(e, <<PutInvoice(db, e, i)>>, u)
  OBVIOUS
<1> HIDE DEF u
<1> QED  BY <1>3, <1>4, <1>5, <1>6, <1>8, <1>9, <1>10, InvoiceCommand

LEMMA AckReceiptStep ==
  ASSUME IInv, NEW i \in InvoiceIds, AckReceipt(i)
  PROVE  IInv'
<1> DEFINE e == [episode EXCEPT !.invoices[i].status = "Acked", !.invoices[i].last_update = now]
<1>1. /\ Ready /\ episode.invoices[i] # None /\ episode.invoices[i].status = "Paid"
      /\ Executed(e, <<PutInvoice(db, e, i)>>, [type |-> "UndoAck", id |-> i])
      /\ queue' = queue /\ chain' = chain
  BY DEF AckReceipt, Serving, Demo, inv
<1>2. e = [episode EXCEPT !.invoices[i] = Stamped(episode.invoices[i], "Acked", now)]
  <2>1. episode \in Episodes /\ episode.invoices[i] \in Invoices
    BY <1>1, EpisodeSound, EpisodeFields DEF Ready
  <2> QED  BY <2>1 DEF Stamped, Episodes, Invoices
<1> HIDE DEF e
<1> QED  BY <1>1, <1>2, StatusCommand

LEMMA CancelInvoiceStep ==
  ASSUME IInv, NEW i \in InvoiceIds, CancelInvoice(i)
  PROVE  IInv'
<1> DEFINE e == [episode EXCEPT !.invoices[i].status = "Canceled", !.invoices[i].last_update = now]
<1>1. /\ Ready /\ episode.invoices[i] # None /\ episode.invoices[i].status = "Open"
      /\ Executed(e, <<PutInvoice(db, e, i)>>, [type |-> "UndoCancel", id |-> i])
      /\ queue' = queue /\ chain' = chain
  BY DEF CancelInvoice, Serving, inv
<1>2. e = [episode EXCEPT !.invoices[i] = Stamped(episode.invoices[i], "Canceled", now)]
  <2>1. episode \in Episodes /\ episode.invoices[i] \in Invoices
    BY <1>1, EpisodeSound, EpisodeFields DEF Ready
  <2> QED  BY <2>1 DEF Stamped, Episodes, Invoices
<1> HIDE DEF e
<1> QED  BY <1>1, <1>2, StatusCommand
-----------------------------------------------------------------------------
(* MarkPaid: payer c pays the open invoice y with tx and makes it x.       *)
Payed(y, c, tx, time) ==
    [y EXCEPT !.status = "Paid", !.payer = c, !.carrier_tx = tx, !.last_update = time]
WithInvoices(r, list) == [r EXCEPT !.invoices = list]

LEMMA Paying ==
  ASSUME NEW y \in Invoices, NEW c \in PubKeys, NEW tx \in TxIds, NEW time \in Nat,
         NEW x, x = Payed(y, c, tx, time),
         y.status = "Open", y.payer = None, y.carrier_tx = None
  PROVE  /\ x \in Invoices /\ x # None
         /\ x.status = "Paid" /\ x.payer = c /\ x.carrier_tx = tx
         /\ x.carrier_tx # None /\ x.payer # None
         /\ Settled(x) /\ Unpaid(Undated(x)) = Undated(y)
<1>1. x \in Invoices /\ x.status = "Paid" /\ x.payer = c /\ x.carrier_tx = tx
  BY DEF Payed, Invoices
<1>3. x # None /\ tx # None /\ c # None /\ y # None
  BY <1>1, Nothing
<1>2. Unpaid(Undated(x)) = Undated(y)
  <2>1. Undated(x) = [x EXCEPT !.last_update = 0] /\ Undated(y) = [y EXCEPT !.last_update = 0]
    BY <1>3 DEF Undated
  <2> QED  BY <2>1 DEF Payed, Invoices, Unpaid
<1> QED  BY <1>1, <1>2, <1>3 DEF Settled

LEMMA CarriersPaid ==
  ASSUME NEW v \in [InvoiceIds -> Invoices \cup {None}], NEW i \in InvoiceIds,
         NEW x, x # None, x.carrier_tx # None,
         v[i] # None, v[i].carrier_tx = None
  PROVE  CarriersOf([v EXCEPT ![i] = x]) = CarriersOf(v) \cup {x.carrier_tx}
<1> DEFINE w == [v EXCEPT ![i] = x]
<1>1. w[i] = x /\ \A j \in InvoiceIds \ {i} : w[j] = v[j]
  OBVIOUS
<1> HIDE DEF w
<1>2. ASSUME NEW tx, tx # None
      PROVE  (\E j \in InvoiceIds : w[j] # None /\ w[j].carrier_tx = tx)
                <=> \/ \E j \in InvoiceIds : v[j] # None /\ v[j].carrier_tx = tx
                    \/ tx = x.carrier_tx
  BY <1>1, <1>2
<1>3. \A tx : tx \in CarriersOf(w) <=> tx \in CarriersOf(v) \cup {x.carrier_tx}
  BY <1>2 DEF CarriersOf
<1>4. CarriersOf(w) = CarriersOf(v) \cup {x.carrier_tx}
  BY <1>3
<1> QED  BY <1>4 DEF w

LEMMA InfoWithInvoices ==
  ASSUME NEW r \in CustomerInfos, NEW list \in Seq(InvoiceIds), NEW q, q = WithInvoices(r, list)
  PROVE  /\ q \in CustomerInfos /\ q # None
         /\ q.invoices = list /\ q.subscriptions = r.subscriptions
<1>1. q \in CustomerInfos /\ q.invoices = list /\ q.subscriptions = r.subscriptions
  BY DEF WithInvoices, CustomerInfos
<1> QED  BY <1>1, Nothing

(* What is listed, when customers keep their lists of subscriptions *)
LEMMA SameListed ==
  ASSUME NEW e, NEW f, e.subscriptions = f.subscriptions,
         \A c \in PubKeys : /\ e.customers[c] = None <=> f.customers[c] = None
                            /\ e.customers[c] # None =>
                                  e.customers[c].subscriptions = f.customers[c].subscriptions
  PROVE  \A c \in PubKeys : Listed(e, c) = Listed(f, c)
BY DEF Listed

LEMMA MarkPaidStep ==
  ASSUME IInv, NEW i \in InvoiceIds, NEW c \in PubKeys, NEW auth, NEW tx \in TxIds,
         MarkPaid(i, c, auth, tx)
  PROVE  IInv'
<1> DEFINE v == episode.invoices
           y == v[i]
           x == Payed(y, c, tx, now)
           info0 == episode.customers[c]
           l == info0.invoices
           m == Append(l, i)
           r == WithInvoices(info0, m)
           e == [episode EXCEPT
                    !.invoices[i] = [inv(i) EXCEPT !.status = "Paid", !.payer = c,
                                                   !.carrier_tx = tx, !.last_update = now],
                    !.used_carrier_txs = @ \cup {tx},
                    !.customers[c].invoices = IF Contains(@, i) THEN @ ELSE Append(@, i)]
           u == [type |-> "UndoPaid", id |-> i]
           puts == <<PutInvoice(db, e, i), PutCustomer(PutInvoice(db, e, i), e, c)>>
<1>1. /\ Ready /\ Executed(e, puts, u) /\ queue' = queue /\ mode \in {"proxy", "router"}
      /\ tx \notin episode.used_carrier_txs /\ y # None /\ y.status = "Open" /\ info0 # None
      /\ chain' = chain \cup ({tx} \ {DefaultTx})
  BY DEF MarkPaid, Serving, inv, info
<1>2. /\ episode \in Episodes /\ TreesOf(episode) = db /\ db \in SoundTrees
      /\ db.invoices = v /\ db.customers = episode.customers
      /\ PaymentsExact(v) /\ IndexSound(db)
      /\ episode.used_carrier_txs = CarriersOf(v)
  BY <1>1, EpisodeSound DEF Ready
<1>3. /\ v \in [InvoiceIds -> Invoices \cup {None}] /\ y \in Invoices
      /\ episode.customers \in [PubKeys -> CustomerInfos \cup {None}] /\ info0 \in CustomerInfos
      /\ l \in Seq(InvoiceIds)
  BY <1>1, <1>2, EpisodeFields, InfoFields
<1>4. y.payer = None /\ y.carrier_tx = None
  BY <1>1, <1>2 DEF PaymentsExact, Settled
<1>5. /\ x \in Invoices /\ x # None
      /\ x.status = "Paid" /\ x.payer = c /\ x.carrier_tx = tx
      /\ x.carrier_tx # None /\ x.payer # None
      /\ Settled(x) /\ Unpaid(Undated(x)) = Undated(y)
  <2>1. now \in Nat
    BY DEF IInv, TypeOK
  <2> HIDE DEF x, y
  <2> QED  BY <1>1, <1>3, <1>4, <2>1, Paying DEF x
<1>6. (\A k \in 1..Len(l) : l[k] # i) /\ ~ Contains(l, i) /\ IsInjective(l)
  <2>1. /\ \A j \in ToSet(l) : v[j] # None /\ v[j].payer = c
        /\ IsInjective(l)
    BY <1>1, <1>2 DEF IndexSound
  <2>2. i \notin ToSet(l)
    BY <1>4, <2>1, Nothing
  <2>3. \A k \in 1..Len(l) : l[k] # i
    <3> HIDE DEF l
    <3> QED  BY <1>3, <2>2, Named
  <2> QED  BY <2>1, <2>3 DEF Contains
<1>7. /\ m \in Seq(InvoiceIds) /\ IsInjective(m) /\ Keep(m, InvoiceIds \ {i}) = l
      /\ \A j : j \in ToSet(m) <=> j \in ToSet(l) \/ j = i
  <2> HIDE DEF l
  <2>1. /\ m \in Seq(InvoiceIds) /\ IsInjective(m) /\ Keep(m, InvoiceIds \ {i}) = l
        /\ Len(m) = Len(l) + 1 /\ Len(l) \in Nat
        /\ m[Len(l) + 1] = i /\ \A k \in 1..Len(l) : m[k] = l[k]
    BY <1>3, <1>6, AppendNew, AppendProperties, LenProperties
  <2>2. \A k : k \in 1..Len(m) <=> k \in 1..Len(l) \/ k = Len(l) + 1
    BY <2>1
  <2> HIDE DEF m
  <2>3. ASSUME NEW j PROVE j \in ToSet(m) <=> j \in ToSet(l) \/ j = i
    <3>1. /\ j \in ToSet(m) <=> \E k \in 1..Len(m) : m[k] = j
          /\ j \in ToSet(l) <=> \E k \in 1..Len(l) : l[k] = j
      BY <1>3, <2>1, Named
    <3> QED  BY <2>1, <2>2, <3>1
  <2> QED  BY <2>1, <2>3
<1>8. r \in CustomerInfos /\ r # None /\ r.invoices = m /\ r.subscriptions = info0.subscriptions
  <2> HIDE DEF r, m, info0
  <2> QED  BY <1>3, <1>7, InfoWithInvoices DEF r
<1>9. e = [episode EXCEPT !.invoices[i] = x, !.used_carrier_txs = @ \cup {tx}, !.customers[c] = r]
  BY <1>2, <1>6 DEF inv, Payed, WithInvoices, Episodes
<1>10. /\ e.invoices = [v EXCEPT ![i] = x] /\ e.subscriptions = episode.subscriptions
       /\ e.customers = [episode.customers EXCEPT ![c] = r]
       /\ e.used_carrier_txs = episode.used_carrier_txs \cup {tx}
       /\ e \in Episodes
  <2> HIDE DEF e, x, r
  <2> QED  BY <1>2, <1>5, <1>8, <1>9 DEF Episodes
<1>11. e.invoices[i] = x /\ e.customers[c] = r
  <2> HIDE DEF e, x, r
  <2> QED  BY <1>3, <1>10
<1> HIDE DEF e, x, r, m, l, info0
<1> DEFINE t == [db EXCEPT !.invoices[i] = x]
<1>12. t \in SoundTrees
  <2>1. ASSUME NEW j \in InvoiceIds \ {i}, v[j] # None
        PROVE  v[j].carrier_tx # x.carrier_tx
    BY <1>1, <1>2, <1>5, <2>1 DEF CarriersOf
  <2>2. ASSUME NEW d \in PubKeys, db.customers[d] # None, i \in ToSet(db.customers[d].invoices)
        PROVE  FALSE
    BY <1>2, <1>4, <2>2, Nothing DEF IndexSound
  <2> HIDE DEF v
  <2> QED  BY <1>2, <1>5, <2>1, <2>2, InvoicePut
<1>13. t.invoices[i] = x /\ (\A j \in InvoiceIds \ {i} : t.invoices[j] = v[j]) /\ t.customers = db.customers
  <2>1. db \in Trees
    BY <1>2 DEF SoundTrees
  <2>2. t.invoices = [v EXCEPT ![i] = x] /\ t.customers = db.customers
    BY <1>2, <2>1 DEF Trees
  <2> QED  BY <1>3, <2>2
<1> HIDE DEF t
<1>14. [t EXCEPT !.customers[c] = r] \in SoundTrees
  <2>1. ASSUME NEW j \in ToSet(r.invoices) PROVE t.invoices[j] # None /\ t.invoices[j].payer = c
    <3>1. CASE j = i
      BY <1>5, <1>13, <3>1
    <3>2. CASE j # i
      <4>1. j \in ToSet(l)
        BY <1>7, <1>8, <3>2
      <4>2. j \in InvoiceIds
        BY <1>3, <4>1, Named, ElementOfSeq
      <4>3. v[j] # None /\ v[j].payer = c
        BY <1>1, <1>2, <4>1 DEF IndexSound, l, info0
      <4> QED  BY <1>13, <3>2, <4>2, <4>3
    <3> QED  BY <3>1, <3>2
  <2> QED  BY <1>7, <1>8, <1>12, <2>1, CustomerPut
<1>15. PutInvoice(db, e, i) = t /\ PutCustomer(t, e, c) = [t EXCEPT !.customers[c] = r]
  BY <1>11 DEF PutInvoice, PutCustomer, t
<1>16. PutCustomer(t, e, c) = TreesOf(e)
  <2>1. db = [invoices |-> v, subscriptions |-> episode.subscriptions,
              customers |-> episode.customers]
    BY <1>2 DEF TreesOf
  <2> QED  BY <1>10, <1>15, <2>1 DEF TreesOf, t
<1>17. puts \in Seq(SoundTrees) /\ puts # <<>> /\ Last(puts) = TreesOf(e)
  <2>1. puts = <<t, PutCustomer(t, e, c)>>
    BY <1>15
  <2>2. t \in SoundTrees /\ PutCustomer(t, e, c) \in SoundTrees
    BY <1>12, <1>14, <1>15
  <2> HIDE DEF puts
  <2> QED  BY <1>16, <2>1, <2>2, TwoPuts
<1>18. e \in SoundEpisodes
  <2>1. CarriersOf(e.invoices) = CarriersOf(v) \cup {tx}
    BY <1>1, <1>3, <1>4, <1>5, <1>10, CarriersPaid
  <2> QED  BY <1>2, <1>10, <1>14, <1>15, <1>16, <2>1 DEF SoundEpisodes
<1>19. u \in Rollbacks /\ OfInvoice(u) /\ u.type = "UndoPaid" /\ u.id = i
  BY DEF Rollbacks, OfInvoice
<1>20. Linked(episode, u, e)
  <2> HIDE DEF u
  <2>9. /\ shown(e, i) = Undated(x) /\ shown(e, i) # None
        /\ shown(e, i).status = "Paid" /\ shown(e, i).payer = c /\ shown(e, i).carrier_tx = tx
    <3>1. shown(e, i) = Undated(x)
      BY <1>11, ShownOf
    <3> QED  BY <1>5, <3>1, UndatedFields
  <2>1. Undoable(u, e)
    BY <1>8, <1>11, <1>19, <2>9 DEF Undoable, OfInvoice
  <2>2. \A d \in PubKeys : d # c => e.customers[d] = episode.customers[d]
    BY <1>3, <1>10
  <2>3. \A d \in PubKeys : e.customers[d] = None <=> episode.customers[d] = None
    BY <1>1, <1>8, <1>11, <2>2 DEF info0
  <2>4. \A d \in PubKeys : Listed(e, d) = Listed(episode, d)
    <3>1. \A d \in PubKeys : e.customers[d] # None =>
             e.customers[d].subscriptions = episode.customers[d].subscriptions
      BY <1>8, <1>11, <2>2 DEF info0
    <3>2. e.subscriptions = episode.subscriptions
      BY <1>10
    <3> QED  BY <2>3, <3>1, <3>2, SameListed
  <2>5. PaidBefore(u, e) = Image(episode).paid
    <3> DEFINE P == Image(e).paid
               Q == Image(episode).paid
    <3>1. /\ P = [d \in PubKeys |-> IF e.customers[d] = None THEN None ELSE e.customers[d].invoices]
          /\ Q = [d \in PubKeys |->
                    IF episode.customers[d] = None THEN None ELSE episode.customers[d].invoices]
      BY DEF Image
    <3>2. P[c] = m /\ Q[c] = l /\ \A d \in PubKeys : d # c => P[d] = Q[d]
      BY <1>1, <1>8, <1>11, <2>2, <3>1 DEF l, info0
    <3>3. PaidBefore(u, e) = [P EXCEPT ![c] = Keep(P[c], InvoiceIds \ {i})]
      BY <1>19, <2>9 DEF PaidBefore
    <3>4. \A d \in PubKeys : PaidBefore(u, e)[d] = Q[d]
      BY <1>7, <3>1, <3>2, <3>3
    <3>5. PaidBefore(u, e) = [d \in PubKeys |-> PaidBefore(u, e)[d]]
      BY <3>1, <3>3
    <3>6. Q = [d \in PubKeys |-> Q[d]]
      BY <3>1
    <3> QED  BY <3>4, <3>5, <3>6
  <2>6. UsedBefore(u, e) = episode.used_carrier_txs
    BY <1>1, <1>10, <1>19, <2>9, ImageOf DEF UsedBefore
  <2>7. [Image(e).invoices EXCEPT ![u.id] = InvoiceBefore(u, e)] = Image(episode).invoices
    <3>1. InvoiceBefore(u, e) = Undated(y)
      BY <1>5, <1>19, <2>9 DEF InvoiceBefore
    <3>2. AsideFrom(episode, e, i)
      BY <1>3, <1>10 DEF AsideFrom
    <3> QED  BY <1>19, <3>1, <3>2, ImagePut
  <2>8. Image(episode) = ImageBefore(u, e)
    <3>1. ImageBefore(u, e) = [invoices |-> Image(episode).invoices,
                               subscriptions |-> episode.subscriptions,
                               paid |-> Image(episode).paid, used |-> episode.used_carrier_txs]
      BY <1>10, <1>19, <2>5, <2>6, <2>7 DEF ImageBefore
    <3> QED  BY <3>1, ImageOf
  <2> QED  BY <2>1, <2>3, <2>4, <2>8 DEF Linked
<1>21. chain' \subseteq ChainTxs
  BY <1>1 DEF IInv, TypeOK, TxIds
<1>22. mode # "demo"
  BY <1>1
<1> HIDE DEF puts, u
<1> QED  BY <1>1, <1>17, <1>18, <1>19, <1>20, <1>21, <1>22, ExecutedKeeps
-----------------------------------------------------------------------------
(* The commands on a subscription: trees and payments stay sound, and it   *)
(* is left to show what is listed.                                         *)

(* A customer whose list of subscriptions changes *)
WithSubscriptions(r, list) == [r EXCEPT !.subscriptions = list]

LEMMA InfoWithSubscriptions ==
  ASSUME NEW r \in CustomerInfos, NEW list \in Seq(SubscriptionIds),
         NEW q, q = WithSubscriptions(r, list)
  PROVE  /\ q \in CustomerInfos /\ q # None
         /\ q.subscriptions = list /\ q.invoices = r.invoices
<1>1. q \in CustomerInfos /\ q.subscriptions = list /\ q.invoices = r.invoices
  BY DEF WithSubscriptions, CustomerInfos
<1> QED  BY <1>1, Nothing

(* A subscription s becomes x, and its customer's entry r. *)
Resubscribed(f, s, x, c, r) == [f EXCEPT !.subscriptions[s] = x, !.customers[c] = r]

LEMMA ResubscribedType ==
  ASSUME NEW f \in Episodes, NEW s \in SubscriptionIds, NEW x \in Subscriptions \cup {None},
         NEW c \in PubKeys, NEW r \in CustomerInfos \cup {None}
  PROVE  Resubscribed(f, s, x, c, r) \in Episodes
BY DEF Resubscribed, Episodes

LEMMA ResubscribedFields ==
  ASSUME NEW f \in Episodes, NEW s \in SubscriptionIds, NEW x \in Subscriptions \cup {None},
         NEW c \in PubKeys, NEW r \in CustomerInfos \cup {None}
  PROVE  LET e == Resubscribed(f, s, x, c, r) IN
         /\ e.invoices = f.invoices
         /\ e.used_carrier_txs = f.used_carrier_txs
         /\ e.subscriptions = [f.subscriptions EXCEPT ![s] = x]
         /\ e.customers = [f.customers EXCEPT ![c] = r]
         /\ e.subscriptions[s] = x /\ e.customers[c] = r
         /\ \A d \in PubKeys : d # c => e.customers[d] = f.customers[d]
         /\ \A z \in SubscriptionIds : z # s => e.subscriptions[z] = f.subscriptions[z]
<1> DEFINE e == Resubscribed(f, s, x, c, r)
<1>1. /\ e \in Episodes /\ e.invoices = f.invoices
      /\ e.used_carrier_txs = f.used_carrier_txs
      /\ e.subscriptions = [f.subscriptions EXCEPT ![s] = x]
      /\ e.customers = [f.customers EXCEPT ![c] = r]
  BY DEF Resubscribed, Episodes
<1> QED  BY <1>1, EpisodeFields

(* The trees with one of the two writes, and with both *)
LEMMA ResubscribedPuts ==
  ASSUME NEW f \in Episodes, NEW t \in SoundTrees, TreesOf(f) = t,
         NEW s \in SubscriptionIds, NEW x \in Subscriptions \cup {None},
         NEW c \in PubKeys, NEW r \in CustomerInfos \cup {None},
         r # None => f.customers[c] # None /\ r.invoices = f.customers[c].invoices
  PROVE  LET e == Resubscribed(f, s, x, c, r) IN
         /\ PutSubscription(t, e, s) \in SoundTrees
         /\ PutCustomer(t, e, c) \in SoundTrees
         /\ PutCustomer(PutSubscription(t, e, s), e, c) = TreesOf(e)
         /\ PutSubscription(PutCustomer(t, e, c), e, s) = TreesOf(e)
         /\ TreesOf(e) \in SoundTrees
<1> DEFINE e == Resubscribed(f, s, x, c, r)
<1>1. /\ e \in Episodes /\ e.invoices = f.invoices
      /\ e.subscriptions = [f.subscriptions EXCEPT ![s] = x]
      /\ e.customers = [f.customers EXCEPT ![c] = r]
      /\ e.subscriptions[s] = x /\ e.customers[c] = r
  BY ResubscribedFields, ResubscribedType
<1>2. t = [invoices |-> f.invoices, subscriptions |-> f.subscriptions, customers |-> f.customers]
  BY DEF TreesOf
<1>3. PutSubscription(t, e, s) \in SoundTrees
  BY <1>1, SubscriptionPut DEF PutSubscription
<1>4. PutCustomer(t, e, c) \in SoundTrees
  <2>1. t.customers = f.customers /\ IndexSound(t)
    BY <1>2 DEF SoundTrees
  <2>2. r # None => /\ \A i \in ToSet(r.invoices) : t.invoices[i] # None /\ t.invoices[i].payer = c
                    /\ IsInjective(r.invoices)
    BY <2>1 DEF IndexSound
  <2> QED  BY <1>1, <2>2, CustomerPut DEF PutCustomer
<1>5. /\ PutCustomer(PutSubscription(t, e, s), e, c) = TreesOf(e)
      /\ PutSubscription(PutCustomer(t, e, c), e, s) = TreesOf(e)
  <2>1. TreesOf(e) = [invoices |-> f.invoices,
                      subscriptions |-> [f.subscriptions EXCEPT ![s] = x],
                      customers |-> [f.customers EXCEPT ![c] = r]]
    BY <1>1 DEF TreesOf
  <2>2. PutCustomer(PutSubscription(t, e, s), e, c) =
           [invoices |-> f.invoices,
            subscriptions |-> [f.subscriptions EXCEPT ![s] = x],
            customers |-> [f.customers EXCEPT ![c] = r]]
    <3>1. PutSubscription(t, e, s) = [invoices |-> f.invoices,
                                      subscriptions |-> [f.subscriptions EXCEPT ![s] = x],
                                      customers |-> f.customers]
      BY <1>1, <1>2 DEF PutSubscription
    <3> QED  BY <1>1, <3>1 DEF PutCustomer
  <2>3. PutSubscription(PutCustomer(t, e, c), e, s) =
           [invoices |-> f.invoices,
            subscriptions |-> [f.subscriptions EXCEPT ![s] = x],
            customers |-> [f.customers EXCEPT ![c] = r]]
    <3>1. PutCustomer(t, e, c) = [invoices |-> f.invoices, subscriptions |-> f.subscriptions,
                                  customers |-> [f.customers EXCEPT ![c] = r]]
      BY <1>1, <1>2 DEF PutCustomer
    <3> QED  BY <1>1, <3>1 DEF PutSubscription
  <2> QED  BY <2>1, <2>2, <2>3
<1>6. PutSubscription(PutCustomer(t, e, c), e, s) \in SoundTrees
  <2> DEFINE w == PutCustomer(t, e, c)
  <2> HIDE DEF w
  <2>1. [w EXCEPT !.subscriptions[s] = x] \in SoundTrees
    BY <1>4, SubscriptionPut DEF w
  <2> QED  BY <1>1, <2>1 DEF PutSubscription, w
<1> QED  BY <1>3, <1>4, <1>5, <1>6

LEMMA ResubscribedSound ==
  ASSUME NEW f \in SoundEpisodes,
         NEW s \in SubscriptionIds, NEW x \in Subscriptions \cup {None},
         NEW c \in PubKeys, NEW r \in CustomerInfos \cup {None},
         r # None => f.customers[c] # None /\ r.invoices = f.customers[c].invoices
  PROVE  LET e == Resubscribed(f, s, x, c, r) IN
         e \in SoundEpisodes
<1> DEFINE e == Resubscribed(f, s, x, c, r)
<1>1. f \in Episodes /\ TreesOf(f) \in SoundTrees /\ f.used_carrier_txs = CarriersOf(f.invoices)
  BY DEF SoundEpisodes
<1>2. TreesOf(e) \in SoundTrees
  BY <1>1, ResubscribedPuts
<1>3. e.invoices = f.invoices /\ e.used_carrier_txs = f.used_carrier_txs
  BY <1>1 DEF Resubscribed, Episodes
<1>4. e \in Episodes
  BY <1>1, ResubscribedType
<1> QED  BY <1>1, <1>2, <1>3, <1>4 DEF SoundEpisodes

(* The image and the object of such a command *)
LEMMA ResubscribedImage ==
  ASSUME NEW f \in Episodes,
         NEW s \in SubscriptionIds, NEW x \in Subscriptions \cup {None},
         NEW c \in PubKeys, NEW r \in CustomerInfos \cup {None},
         r = None <=> f.customers[c] = None,
         r # None => r.invoices = f.customers[c].invoices
  PROVE  LET e == Resubscribed(f, s, x, c, r) IN
         /\ Image(e) = [invoices |-> Image(f).invoices,
                        subscriptions |-> [f.subscriptions EXCEPT ![s] = x],
                        paid |-> Image(f).paid, used |-> f.used_carrier_txs]
         /\ \A d \in PubKeys : e.customers[d] = None <=> f.customers[d] = None
<1> DEFINE e == Resubscribed(f, s, x, c, r)
<1>1. /\ e.invoices = f.invoices /\ e.used_carrier_txs = f.used_carrier_txs
      /\ e.subscriptions = [f.subscriptions EXCEPT ![s] = x]
      /\ e.customers = [f.customers EXCEPT ![c] = r]
  BY DEF Resubscribed, Episodes
<1>5. e.customers[c] = r /\ \A d \in PubKeys : d # c => e.customers[d] = f.customers[d]
  BY <1>1, EpisodeFields
<1>2. \A d \in PubKeys : e.customers[d] = None <=> f.customers[d] = None
  BY <1>5
<1>3. \A d \in PubKeys : e.customers[d] # None => e.customers[d].invoices = f.customers[d].invoices
  BY <1>5
<1>4. Image(e).paid = Image(f).paid
  BY <1>2, <1>3 DEF Image
<1>6. Image(e).invoices = Image(f).invoices
  BY <1>1 DEF Image
<1> HIDE DEF e
<1>7. Image(e) = [invoices |-> Image(f).invoices,
                  subscriptions |-> [f.subscriptions EXCEPT ![s] = x],
                  paid |-> Image(f).paid, used |-> f.used_carrier_txs]
  BY <1>1, <1>4, <1>6, ImageOf
<1> QED  BY <1>2, <1>7 DEF e
(* Elements of a list to which one is added, or from which one is taken *)
LEMMA Elements ==
  ASSUME NEW S, NEW l \in Seq(S), NEW x \in S, NEW y
  PROVE  /\ y \in ToSet(Append(l, x)) <=> y \in ToSet(l) \/ y = x
         /\ y \in ToSet(Keep(l, S \ {x})) <=> y \in ToSet(l) /\ y # x
         /\ y \in ToSet(l) => y \in S
         /\ y \in ToSet(l) <=> Contains(l, y)
<1> DEFINE m == Append(l, x)
<1>1. /\ m \in Seq(S) /\ Len(m) = Len(l) + 1 /\ Len(l) \in Nat
      /\ m[Len(l) + 1] = x /\ \A k \in 1..Len(l) : m[k] = l[k]
  BY AppendProperties, LenProperties
<1> HIDE DEF m
<1>2. \A k : k \in 1..Len(m) <=> k \in 1..Len(l) \/ k = Len(l) + 1
  BY <1>1
<1>3. /\ y \in ToSet(m) <=> \E k \in 1..Len(m) : m[k] = y
      /\ y \in ToSet(l) <=> \E k \in 1..Len(l) : l[k] = y
  BY <1>1, Named
<1>4. y \in ToSet(m) <=> y \in ToSet(l) \/ y = x
  BY <1>1, <1>2, <1>3
<1>5. y \in ToSet(l) => y \in S
  BY <1>3, ElementOfSeq
<1>6. y \in ToSet(l) <=> Contains(l, y)
  BY <1>3 DEF Contains
<1>7. y \in ToSet(Keep(l, S \ {x})) <=> y \in ToSet(l) /\ y # x
  <2> DEFINE n == Keep(l, S \ {x})
  <2>1. n \in Seq(S) /\ (Contains(n, y) <=> y \in S \ {x} /\ Contains(l, y))
    BY KeepSeq, KeepMembers
  <2> HIDE DEF n
  <2>2. y \in ToSet(n) <=> Contains(n, y)
    BY <2>1, Named DEF Contains
  <2> QED  BY <1>5, <1>6, <2>1, <2>2 DEF n
<1> QED  BY <1>4, <1>5, <1>6, <1>7 DEF m

(* What is still listed after such a command *)
LEMMA StaysListed ==
  ASSUME NEW f \in Episodes,
         NEW s \in SubscriptionIds, NEW x \in Subscriptions \cup {None},
         NEW c \in PubKeys, NEW r \in CustomerInfos \cup {None},
         NEW e, e = Resubscribed(f, s, x, c, r),
         NEW d \in PubKeys, NEW z \in Listed(f, d),
         z = s => x # None /\ x.customer = d,
         d = c => r # None /\ z \in ToSet(r.subscriptions)
  PROVE  z \in Listed(e, d)
<1>1. /\ e.subscriptions = [f.subscriptions EXCEPT ![s] = x]
      /\ e.customers = [f.customers EXCEPT ![c] = r]
  BY DEF Resubscribed, Episodes
<1>2. /\ e.customers[c] = r /\ (d # c => e.customers[d] = f.customers[d])
      /\ e.subscriptions[s] = x
      /\ \A y \in SubscriptionIds : y # s => e.subscriptions[y] = f.subscriptions[y]
  BY <1>1, EpisodeFields
<1>3. /\ f.customers[d] # None /\ z \in ToSet(f.customers[d].subscriptions)
      /\ f.subscriptions[z] # None /\ f.subscriptions[z].customer = d
  BY DEF Listed
<1>4. z \in SubscriptionIds
  <2>1. f.customers[d] \in CustomerInfos
    BY <1>3, EpisodeFields
  <2>2. f.customers[d].subscriptions \in Seq(SubscriptionIds)
    BY <2>1, InfoFields
  <2> DEFINE l == f.customers[d].subscriptions
  <2> HIDE DEF l
  <2> QED  BY <1>3, <2>2, Named, ElementOfSeq DEF l
<1>5. e.subscriptions[z] # None /\ e.subscriptions[z].customer = d
  BY <1>2, <1>3, <1>4
<1>6. e.customers[d] # None /\ z \in ToSet(e.customers[d].subscriptions)
  BY <1>2, <1>3
<1> QED  BY <1>5, <1>6 DEF Listed

LEMMA SubscriptionCommand ==
  ASSUME IInv, Ready,
         NEW s \in SubscriptionIds, NEW x \in Subscriptions \cup {None},
         NEW c \in PubKeys, NEW r \in CustomerInfos \cup {None},
         r = None <=> episode.customers[c] = None,
         r # None => r.invoices = episode.customers[c].invoices,
         NEW e, e = Resubscribed(episode, s, x, c, r),
         NEW u \in Rollbacks, ~ OfInvoice(u), u.id = s, Undoable(u, e),
         episode.subscriptions[s] = SubscriptionBefore(u, e),
         \A d \in PubKeys : Listed(episode, d) \ Lost(u) \subseteq Listed(e, d),
         NEW puts, puts \in Seq(SoundTrees), puts # <<>>, Last(puts) = TreesOf(e),
         Executed(e, puts, u),
         queue' = queue \/ (queue # <<>> /\ queue' = Tail(queue)),
         mode = "demo" => x # None,
         chain' = chain
  PROVE  IInv'
<1>1. episode \in SoundEpisodes /\ episode \in Episodes
  BY EpisodeSound DEF Ready
<1>2. e \in SoundEpisodes
  BY <1>1, ResubscribedSound
<1>3. /\ Image(e) = [invoices |-> Image(episode).invoices,
                     subscriptions |-> [episode.subscriptions EXCEPT ![s] = x],
                     paid |-> Image(episode).paid, used |-> episode.used_carrier_txs]
      /\ \A d \in PubKeys : e.customers[d] = None <=> episode.customers[d] = None
  BY <1>1, ResubscribedImage
<1>4. /\ e.invoices = episode.invoices /\ e.used_carrier_txs = episode.used_carrier_txs
      /\ e.subscriptions = [episode.subscriptions EXCEPT ![s] = x]
  BY <1>1 DEF Resubscribed, Episodes
<1>5. Image(episode) = ImageBefore(u, e)
  <2>1. PaidBefore(u, e) = Image(episode).paid /\ UsedBefore(u, e) = episode.used_carrier_txs
    <3>1. Image(e).paid = Image(episode).paid
      BY <1>3
    <3>2. u.type # "UndoPaid"
      BY DEF OfInvoice
    <3> QED  BY <1>3, <3>1, <3>2 DEF PaidBefore, UsedBefore
  <2>2. [e.subscriptions EXCEPT ![s] = SubscriptionBefore(u, e)] = episode.subscriptions
    <3>1. episode.subscriptions \in [SubscriptionIds -> Subscriptions \cup {None}]
      BY <1>1, EpisodeFields
    <3> QED  BY <1>4, <3>1
  <2>3. ImageBefore(u, e) = [invoices |-> Image(episode).invoices,
                             subscriptions |-> episode.subscriptions,
                             paid |-> Image(episode).paid, used |-> episode.used_carrier_txs]
    BY <1>3, <1>4, <2>1, <2>2 DEF ImageBefore
  <2> QED  BY <2>3, ImageOf
<1>6. Linked(episode, u, e)
  BY <1>3, <1>5 DEF Linked
<1>7. mode = "demo" => \A z \in SubscriptionIds :
          episode.subscriptions[z] # None => e.subscriptions[z] # None
  <2>1. \A z \in SubscriptionIds : z # s => e.subscriptions[z] = episode.subscriptions[z]
    BY <1>1, <1>4, EpisodeFields
  <2>2. e.subscriptions[s] = x
    BY <1>1, <1>4, EpisodeFields
  <2> QED  BY <2>1, <2>2
<1>8. chain' \subseteq ChainTxs
  BY DEF IInv, TypeOK
<1> QED  BY <1>2, <1>6, <1>7, <1>8, ExecutedKeeps
(* The customer of a subscription, and its entry *)
LEMMA SubscriptionFields ==
  ASSUME NEW y \in Subscriptions
  PROVE  /\ y.customer \in PubKeys /\ y.amount \in Amounts /\ y.next_run \in Nat
         /\ y # None
BY Nothing DEF Subscriptions

LEMMA CreateSubscriptionStep ==
  ASSUME IInv, NEW s \in SubscriptionIds, NEW c \in PubKeys, NEW amount \in Amounts, NEW auth,
         CreateSubscription(s, c, amount, auth)
  PROVE  IInv'
<1> DEFINE x == [customer |-> c, amount |-> amount, next_run |-> now + interval]
           info0 == episode.customers[c]
           l == info0.subscriptions
           m == Append(l, s)
           r == WithSubscriptions(info0, m)
           e == [episode EXCEPT !.subscriptions[s] = x,
                                !.customers[c].subscriptions = Append(@, s)]
           u == [type |-> "UndoCreateSubscription", id |-> s]
           puts == <<PutCustomer(db, e, c), PutSubscription(PutCustomer(db, e, c), e, s)>>
<1>1. /\ Ready /\ Executed(e, puts, u) /\ queue' = queue /\ chain' = chain
      /\ episode.subscriptions[s] = None /\ info0 # None
  BY DEF CreateSubscription, Serving, sub, info
<1>2. episode \in Episodes /\ TreesOf(episode) = db /\ db \in SoundTrees
  BY <1>1, EpisodeSound DEF Ready
<1>3. info0 \in CustomerInfos /\ l \in Seq(SubscriptionIds)
  BY <1>1, <1>2, EpisodeFields, InfoFields
<1>4. x \in Subscriptions /\ x # None /\ x.customer = c
  <2>1. now + interval \in Nat
    BY MerchantAssumption DEF IInv, TypeOK
  <2>2. x \in Subscriptions
    BY <2>1 DEF Subscriptions
  <2> QED  BY <2>2, Nothing
<1>5. m \in Seq(SubscriptionIds)
  <2> HIDE DEF l
  <2> QED  BY <1>3, AppendProperties
<1>6. r \in CustomerInfos /\ r # None /\ r.subscriptions = m /\ r.invoices = info0.invoices
  <2> HIDE DEF r, m, info0
  <2> QED  BY <1>3, <1>5, InfoWithSubscriptions DEF r
<1>7. e = Resubscribed(episode, s, x, c, r)
  BY <1>2 DEF Resubscribed, WithSubscriptions, Episodes
<1> HIDE DEF x, r, m, e
<1>8. puts \in Seq(SoundTrees) /\ puts # <<>> /\ Last(puts) = TreesOf(e)
  <2>1. /\ PutCustomer(db, e, c) \in SoundTrees
        /\ PutSubscription(PutCustomer(db, e, c), e, s) = TreesOf(e)
        /\ TreesOf(e) \in SoundTrees
    BY <1>1, <1>2, <1>4, <1>6, <1>7, ResubscribedPuts
  <2> HIDE DEF puts
  <2> QED  BY <2>1, TwoPuts DEF puts
<1>9. e.subscriptions[s] = x /\ e.customers[c] = r
  <2>1. /\ e.subscriptions = [episode.subscriptions EXCEPT ![s] = x]
        /\ e.customers = [episode.customers EXCEPT ![c] = r]
    BY <1>2, <1>7 DEF Resubscribed, Episodes
  <2> QED  BY <1>2, <2>1, EpisodeFields
<1>10. /\ u \in Rollbacks /\ ~ OfInvoice(u) /\ u.id = s /\ u.type = "UndoCreateSubscription"
       /\ Lost(u) = {}
  BY DEF Rollbacks, OfInvoice, Lost
<1> HIDE DEF u
<1>11. Undoable(u, e) /\ SubscriptionBefore(u, e) = None
  BY <1>4, <1>6, <1>9, <1>10 DEF Undoable, OfInvoice, SubscriptionBefore
<1>12. ASSUME NEW d \in PubKeys, NEW z \in Listed(episode, d) PROVE z \in Listed(e, d)
  <2>1. z # s /\ z \in ToSet(episode.customers[d].subscriptions)
    BY <1>1 DEF Listed
  <2>2. d = c => z \in ToSet(m)
    <3>1. z \in ToSet(l) => z \in ToSet(m)
      <4> HIDE DEF l
      <4> QED  BY <1>3, Elements DEF m
    <3> QED  BY <2>1, <3>1
  <2> QED  BY <1>2, <1>4, <1>6, <1>7, <2>1, <2>2, StaysListed
<1> HIDE DEF puts, info0
<1>13. r = None <=> episode.customers[c] = None
  BY <1>1, <1>6 DEF info0
<1>14. r.invoices = episode.customers[c].invoices
  BY <1>6 DEF info0
<1>15. \A d \in PubKeys : Listed(episode, d) \ Lost(u) \subseteq Listed(e, d)
  BY <1>12
<1> QED
  BY <1>1, <1>4, <1>6, <1>7, <1>8, <1>10, <1>11, <1>13, <1>14, <1>15, SubscriptionCommand

LEMMA ProcessStep ==
  ASSUME IInv, Ready, NEW s \in SubscriptionIds, NEW time \in Nat, Process(s, time),
         queue' = queue \/ (queue # <<>> /\ queue' = Tail(queue))
  PROVE  IInv'
<1> DEFINE y == episode.subscriptions[s]
           x == [y EXCEPT !.next_run = time + interval]
           c == y.customer
           r == episode.customers[c]
           e == [episode EXCEPT !.subscriptions[s].next_run = time + interval]
           u == [type |-> "UndoProcessSubscription", id |-> s, prev |-> y.next_run]
           puts == <<PutSubscription(db, e, s)>>
<1>1. /\ Executed(e, puts, u) /\ chain' = chain /\ y # None
  BY DEF Process, sub
<1>2. episode \in Episodes /\ TreesOf(episode) = db /\ db \in SoundTrees
  BY EpisodeSound DEF Ready
<1>3. y \in Subscriptions /\ c \in PubKeys /\ y.next_run \in Nat
  BY <1>1, <1>2, EpisodeFields, SubscriptionFields
<1>4. r \in CustomerInfos \cup {None}
  BY <1>2, <1>3, EpisodeFields
<1>5. x \in Subscriptions /\ x # None /\ x.customer = c /\ [x EXCEPT !.next_run = y.next_run] = y
  <2>1. time + interval \in Nat
    BY MerchantAssumption
  <2>2. x \in Subscriptions /\ x.customer = c /\ [x EXCEPT !.next_run = y.next_run] = y
    BY <1>3, <2>1 DEF Subscriptions
  <2> QED  BY <2>2, Nothing
<1>6. e = Resubscribed(episode, s, x, c, r)
  <2>1. [episode.customers EXCEPT ![c] = r] = episode.customers
    BY <1>2, <1>3, EpisodeFields
  <2>2. Resubscribed(episode, s, x, c, r) =
           [episode EXCEPT !.subscriptions = [episode.subscriptions EXCEPT ![s] = x],
                           !.customers = [episode.customers EXCEPT ![c] = r]]
    BY <1>2 DEF Resubscribed, Episodes
  <2>3. e = [episode EXCEPT !.subscriptions = [episode.subscriptions EXCEPT ![s] = x],
                            !.customers = episode.customers]
    BY <1>2 DEF Episodes
  <2> HIDE DEF e, r
  <2> QED  BY <2>1, <2>2, <2>3
<1>7. e.subscriptions = [episode.subscriptions EXCEPT ![s] = x]
      /\ e.customers = episode.customers /\ e.invoices = episode.invoices
  BY <1>2 DEF Episodes
<1>8. [e.subscriptions[s] EXCEPT !.next_run = y.next_run] = y /\ e.subscriptions[s] = x
  <2>1. e.subscriptions[s] = x
    <3> HIDE DEF e, x
    <3> QED  BY <1>2, <1>7, EpisodeFields
  <2> HIDE DEF e, x
  <2> QED  BY <1>5, <2>1
<1>9. /\ u \in Rollbacks /\ ~ OfInvoice(u) /\ u.id = s /\ u.type = "UndoProcessSubscription"
      /\ Lost(u) = {} /\ u.prev = y.next_run
  BY <1>3 DEF Rollbacks, OfInvoice, Lost
<1> HIDE DEF x, e, u
<1>10. puts \in Seq(SoundTrees) /\ puts # <<>> /\ Last(puts) = TreesOf(e)
  <2>1. PutSubscription(db, e, s) \in SoundTrees
    BY <1>2, <1>5, <1>8, SubscriptionPut DEF PutSubscription
  <2>2. PutSubscription(db, e, s) = TreesOf(e)
    <3>1. db = [invoices |-> episode.invoices, subscriptions |-> episode.subscriptions,
                customers |-> episode.customers]
      BY <1>2 DEF TreesOf
    <3> QED  BY <1>7, <1>8, <3>1 DEF PutSubscription, TreesOf
  <2> HIDE DEF puts
  <2> QED  BY <2>1, <2>2, OnePut DEF puts
<1>11. Undoable(u, e) /\ SubscriptionBefore(u, e) = y
  BY <1>5, <1>8, <1>9 DEF Undoable, OfInvoice, SubscriptionBefore
<1>12. ASSUME NEW d \in PubKeys, NEW z \in Listed(episode, d) PROVE z \in Listed(e, d)
  <2>1. z = s => x # None /\ x.customer = d
    BY <1>5 DEF Listed
  <2>2. d = c => r # None /\ z \in ToSet(r.subscriptions)
    BY DEF Listed
  <2> HIDE DEF r, c
  <2> QED  BY <1>2, <1>3, <1>4, <1>5, <1>6, <2>1, <2>2, StaysListed
<1>13. \A d \in PubKeys : Listed(episode, d) \ Lost(u) \subseteq Listed(e, d)
  BY <1>12
<1>14. /\ r = None <=> episode.customers[c] = None
       /\ r # None => r.invoices = episode.customers[c].invoices
  OBVIOUS
<1> HIDE DEF puts, r, c
<1>15. episode.subscriptions[s] = SubscriptionBefore(u, e)
  BY <1>11
<1> QED
  BY <1>1, <1>3, <1>4, <1>5, <1>6, <1>9, <1>10, <1>11, <1>13, <1>14, <1>15, SubscriptionCommand

LEMMA CancelSubscriptionStep ==
  ASSUME IInv, NEW s \in SubscriptionIds, CancelSubscription(s)
  PROVE  IInv'
<1> DEFINE y == episode.subscriptions[s]
           c == y.customer
           info0 == episode.customers[c]
           known == info0 # None
           m == Keep(info0.subscriptions, SubscriptionIds \ {s})
           r == IF known THEN WithSubscriptions(info0, m) ELSE None
           e == [episode EXCEPT
                    !.subscriptions[s] = None,
                    !.customers[c] = IF known
                        THEN [info0 EXCEPT !.subscriptions = Keep(@, SubscriptionIds \ {s})]
                        ELSE None]
           listed == IF known THEN <<PutCustomer(db, e, c)>> ELSE <<>>
           last == PutSubscription(PutCustomer(db, e, c), e, s)
           puts == listed \o <<last>>
           u == [type |-> "UndoCancelSubscription", id |-> s, subscription |-> y]
<1>1. /\ Ready /\ Executed(e, puts, u) /\ queue' = queue /\ chain' = chain /\ y # None
      /\ mode \in {"proxy", "router"}
  BY DEF CancelSubscription, Serving, sub, info
<1>2. episode \in Episodes /\ TreesOf(episode) = db /\ db \in SoundTrees
  BY <1>1, EpisodeSound DEF Ready
<1>3. y \in Subscriptions /\ c \in PubKeys
  BY <1>1, <1>2, EpisodeFields, SubscriptionFields
<1>4. info0 \in CustomerInfos \cup {None}
  BY <1>2, <1>3, EpisodeFields
<1>5. ASSUME known
      PROVE  /\ info0.subscriptions \in Seq(SubscriptionIds) /\ m \in Seq(SubscriptionIds)
             /\ r \in CustomerInfos /\ r # None
             /\ r.subscriptions = m /\ r.invoices = info0.invoices
  <2>1. info0 \in CustomerInfos /\ info0.subscriptions \in Seq(SubscriptionIds)
    BY <1>4, <1>5, InfoFields
  <2>2. m \in Seq(SubscriptionIds)
    BY <2>1, KeepSeq
  <2>3. r = WithSubscriptions(info0, m)
    BY <1>5
  <2> HIDE DEF r, m, info0
  <2> QED  BY <2>1, <2>2, <2>3, InfoWithSubscriptions
<1>6. /\ r \in CustomerInfos \cup {None} /\ (r = None <=> info0 = None)
      /\ r # None => r.invoices = info0.invoices
  BY <1>5
<1>7. e = Resubscribed(episode, s, None, c, r)
  <2> DEFINE q == IF known THEN [info0 EXCEPT !.subscriptions = Keep(@, SubscriptionIds \ {s})]
                  ELSE None
  <2>1. q = r
    BY DEF WithSubscriptions
  <2>2. e = [episode EXCEPT !.subscriptions[s] = None, !.customers[c] = q]
    OBVIOUS
  <2> HIDE DEF q, r, e
  <2> QED  BY <2>1, <2>2 DEF Resubscribed
<1> HIDE DEF e
<1>8. puts \in Seq(SoundTrees) /\ puts # <<>> /\ Last(puts) = TreesOf(e)
  <2>1. PutCustomer(db, e, c) \in SoundTrees /\ last = TreesOf(e) /\ TreesOf(e) \in SoundTrees
    <3> HIDE DEF r, c, info0
    <3> QED  BY <1>2, <1>3, <1>6, <1>7, ResubscribedPuts DEF info0
  <2>2. listed \in Seq(SoundTrees)
    <3>1. CASE known
      BY <2>1, <3>1, OnePut
    <3>2. CASE ~ known
      BY <3>2, EmptySeq
    <3> QED  BY <3>1, <3>2
  <2>3. <<last>> \in Seq(SoundTrees) /\ <<last>> # <<>> /\ Last(<<last>>) = last
    BY <2>1, OnePut
  <2> DEFINE q == <<last>>
  <2>4. q \in Seq(SoundTrees) /\ q # <<>> /\ Last(q) = last
    BY <2>3
  <2>5. listed \o q \in Seq(SoundTrees) /\ listed \o q # <<>> /\ Last(listed \o q) = last
    <3> HIDE DEF q, listed, last
    <3> QED  BY <2>2, <2>4, Written
  <2> QED  BY <2>1, <2>5
<1>9. /\ u \in Rollbacks /\ ~ OfInvoice(u) /\ u.id = s /\ u.type = "UndoCancelSubscription"
      /\ Lost(u) = {s} /\ u.subscription = y
  BY <1>3 DEF Rollbacks, OfInvoice, Lost
<1> HIDE DEF u, puts
<1>10. Undoable(u, e) /\ SubscriptionBefore(u, e) = y
  BY <1>9 DEF Undoable, OfInvoice, SubscriptionBefore
<1>11. ASSUME NEW d \in PubKeys, NEW z \in Listed(episode, d), z # s PROVE z \in Listed(e, d)
  <2>1. d = c => r # None /\ z \in ToSet(r.subscriptions)
    <3> SUFFICES ASSUME d = c PROVE r # None /\ z \in ToSet(r.subscriptions)
      OBVIOUS
    <3>1. known /\ z \in ToSet(info0.subscriptions)
      BY DEF Listed
    <3> DEFINE l == info0.subscriptions
    <3>2. l \in Seq(SubscriptionIds) /\ z \in ToSet(l) /\ r.subscriptions = m /\ r # None
      BY <1>5, <3>1
    <3>3. z \in ToSet(Keep(l, SubscriptionIds \ {s}))
      <4> HIDE DEF l
      <4> QED  BY <1>11, <3>2, Elements
    <3> QED  BY <3>2, <3>3
  <2> HIDE DEF r, c
  <2> QED  BY <1>2, <1>3, <1>6, <1>7, <1>11, <2>1, StaysListed
<1>12. \A d \in PubKeys : Listed(episode, d) \ Lost(u) \subseteq Listed(e, d)
  BY <1>9, <1>11
<1> HIDE DEF r, c, info0
<1>13. /\ r \in CustomerInfos \cup {None} /\ (r = None <=> episode.customers[c] = None)
       /\ r # None => r.invoices = episode.customers[c].invoices
       /\ None \in Subscriptions \cup {None}
  BY <1>6 DEF info0
<1>14. episode.subscriptions[s] = SubscriptionBefore(u, e) /\ mode # "demo"
  BY <1>1, <1>10
<1> QED
  BY <1>1, <1>3, <1>7, <1>8, <1>9, <1>10, <1>12, <1>13, <1>14, SubscriptionCommand
-----------------------------------------------------------------------------
(* Rollbacks *)
LEMMA LastLinked ==
  ASSUME IInv, Ready, rollback_stack # <<>>
  PROVE  /\ undo \in Rollbacks /\ Last(trail) \in SoundEpisodes /\ Last(trail) \in Episodes
         /\ Linked(Last(trail), undo, episode)
<1>1. /\ rollback_stack \in Seq(Rollbacks) /\ trail \in Seq(SoundEpisodes)
      /\ Len(trail) = Len(rollback_stack)
  BY DEF IInv, TypeOK
<1>2. /\ undo \in Rollbacks /\ undo = rollback_stack[Len(rollback_stack)]
      /\ Len(rollback_stack) \in Nat \ {0}
  BY <1>1, FrontLast DEF undo
<1>3. trail # <<>>
  BY <1>1, <1>2, EmptySeq
<1>4. Last(trail) \in SoundEpisodes /\ Last(trail) = trail[Len(trail)]
  BY <1>1, <1>3, FrontLast
<1>5. Len(trail) \in 1..Len(trail)
  BY <1>1, <1>2
<1>6. Linked(trail[Len(trail)], rollback_stack[Len(trail)], After(Len(trail)))
  BY <1>5 DEF IInv, Trailed
<1>7. After(Len(trail)) = episode
  BY DEF After
<1> QED  BY <1>1, <1>2, <1>4, <1>6, <1>7 DEF SoundEpisodes

(* The rollback objects that put back one invoice and nothing else *)
LEMMA InvoiceUndo ==
  ASSUME IInv, Ready, mode = "proxy", rollback_stack # <<>>,
         OfInvoice(undo), undo.type # "UndoPaid",
         NEW x \in Invoices \cup {None}, Undated(x) = InvoiceBefore(undo, episode),
         NEW e, e = [episode EXCEPT !.invoices[undo.id] = x],
         Popped(e, <<PutInvoice(db, e, undo.id)>>), chain' = chain
  PROVE  IInv' /\ Like(episode', Last(trail))
<1> DEFINE g == Last(trail)
           u == undo
           i == u.id
<1>1. u \in Rollbacks /\ g \in SoundEpisodes /\ g \in Episodes /\ Linked(g, u, episode)
  BY LastLinked
<1>2. i \in InvoiceIds
  BY <1>1 DEF Rollbacks, OfInvoice
<1>3. /\ episode \in Episodes /\ TreesOf(episode) = db /\ db \in SoundTrees
  BY EpisodeSound DEF Ready
<1> HIDE DEF g, u
<1>5. /\ e.invoices = [episode.invoices EXCEPT ![i] = x]
      /\ e.subscriptions = episode.subscriptions
      /\ e.customers = episode.customers /\ e.used_carrier_txs = episode.used_carrier_txs
      /\ e \in Episodes
  BY <1>2, <1>3 DEF Episodes, u
<1>6. e.invoices[i] = x
  <2> HIDE DEF i
  <2> QED  BY <1>2, <1>3, <1>5, EpisodeFields
<1>7. Like(e, g)
  <2>1. Image(e).paid = Image(episode).paid
    BY <1>5 DEF Image
  <2>2. ImageBefore(u, episode) =
           [invoices |-> [Image(episode).invoices EXCEPT ![i] = Undated(x)],
            subscriptions |-> episode.subscriptions,
            paid |-> Image(episode).paid, used |-> episode.used_carrier_txs]
    BY ImageOf DEF ImageBefore, PaidBefore, UsedBefore, u
  <2>6. Image(e).invoices = [Image(episode).invoices EXCEPT ![i] = Undated(x)]
    <3>1. AsideFrom(e, episode, i)
      BY <1>2, <1>3, <1>5, EpisodeFields DEF AsideFrom
    <3> HIDE DEF i
    <3>2. Image(e).invoices = [Image(episode).invoices EXCEPT ![i] = Undated(e.invoices[i])]
      BY ONLY <1>2, <3>1, ImagePut
    <3> QED  BY ONLY <1>6, <3>2
  <2>3. Image(e) = ImageBefore(u, episode)
    <3>1. Image(e) = [invoices |-> Image(e).invoices, subscriptions |-> e.subscriptions,
                      paid |-> Image(e).paid, used |-> e.used_carrier_txs]
      BY ImageOf
    <3> QED  BY <1>5, <2>1, <2>2, <2>6, <3>1
  <2>4. \A c \in PubKeys : Listed(e, c) = Listed(episode, c)
    BY <1>5 DEF Listed
  <2>5. Lost(u) = {}
    BY DEF Lost, OfInvoice, u
  <2> QED  BY <1>1, <1>5, <2>3, <2>4, <2>5 DEF Linked, Like
<1>8. PutInvoice(db, e, i) = TreesOf(e)
  <2>1. db = [invoices |-> episode.invoices, subscriptions |-> episode.subscriptions,
              customers |-> episode.customers]
    BY <1>3 DEF TreesOf
  <2> QED  BY <1>5, <1>6, <2>1 DEF PutInvoice, TreesOf
<1>9. TreesOf(e) \in SoundTrees
  BY <1>1, <1>5, <1>7, LikeSound DEF SoundEpisodes
<1> DEFINE puts == <<PutInvoice(db, e, i)>>
<1>10. puts \in Seq(SoundTrees) /\ puts # <<>> /\ Last(puts) = TreesOf(e)
  BY <1>8, <1>9, OnePut
<1>11. Popped(e, puts) /\ episode' = e
  BY DEF Popped, u
<1>12. chain' \subseteq ChainTxs
  BY DEF IInv, TypeOK
<1> HIDE DEF puts
<1>13. IInv'
  BY <1>5, <1>7, <1>10, <1>11, <1>12, PoppedKeeps DEF g
<1> QED  BY <1>7, <1>11, <1>13 DEF g

LEMMA UndoCreateStep ==
  ASSUME IInv, UndoCreate
  PROVE  IInv' /\ Like(episode', Last(trail))
<1> DEFINE e == [episode EXCEPT !.invoices[undo.id] = None]
<1>1. /\ Ready /\ mode = "proxy" /\ rollback_stack # <<>> /\ undo.type = "UndoCreate"
      /\ Popped(e, <<PutInvoice(db, e, undo.id)>>) /\ chain' = chain
  BY DEF UndoCreate, Reverting, undo
<1>2. /\ None \in Invoices \cup {None} /\ Undated(None) = InvoiceBefore(undo, episode)
      /\ OfInvoice(undo) /\ undo.type # "UndoPaid"
  BY <1>1 DEF InvoiceBefore, OfInvoice, Undated
<1>3. e = [episode EXCEPT !.invoices[undo.id] = None]
  OBVIOUS
<1> HIDE DEF e
<1> QED  BY <1>1, <1>2, <1>3, InvoiceUndo

LEMMA ReopenedStep ==
  ASSUME IInv, UndoAck \/ UndoCancel
  PROVE  IInv' /\ Like(episode', Last(trail))
<1> DEFINE status == IF UndoAck THEN "Paid" ELSE "Open"
           x == WithStatus(episode.invoices[undo.id], status)
           e == [episode EXCEPT !.invoices[undo.id].status = status]
<1>1. /\ Ready /\ mode = "proxy" /\ rollback_stack # <<>>
      /\ undo.type = IF UndoAck THEN "UndoAck" ELSE "UndoCancel"
      /\ Reopened(status)
  BY DEF UndoAck, UndoCancel, Reverting, undo
<1> HIDE DEF status
<1>2. Popped(e, <<PutInvoice(db, e, undo.id)>>) /\ chain' = chain
  BY <1>1 DEF Reopened
<1>3. OfInvoice(undo) /\ undo.type # "UndoPaid"
  BY <1>1 DEF OfInvoice
<1>6. episode \in Episodes /\ undo.id \in InvoiceIds
  BY <1>1, <1>3, EpisodeSound, LastLinked DEF Ready, Rollbacks, OfInvoice
<1> DEFINE y == episode.invoices[undo.id]
<1>7. y \in Invoices
  <2>1. shown(episode, undo.id) # None
    BY <1>1, <1>3, LastLinked DEF Linked, Undoable
  <2>2. shown(episode, undo.id) = Undated(y)
    BY <1>6, ShownOf
  <2> QED  BY <1>6, <2>1, <2>2, EpisodeFields DEF Undated
<1>8. status \in {"Open", "Paid"}
  BY DEF status
<1>9. x \in Invoices /\ Undated(x) = WithStatus(Undated(y), status)
  <2>1. x \in Invoices
    BY <1>7, <1>8 DEF Invoices, WithStatus
  <2>2. Undated(x) = [x EXCEPT !.last_update = 0] /\ Undated(y) = [y EXCEPT !.last_update = 0]
    BY <1>7, <2>1, Nothing DEF Undated
  <2> QED  BY <1>7, <2>1, <2>2 DEF Invoices, WithStatus
<1>4. Undated(x) = InvoiceBefore(undo, episode)
  <2>1. shown(episode, undo.id) = Undated(y)
    BY <1>6, ShownOf
  <2> HIDE DEF x, y
  <2> QED  BY <1>1, <1>9, <2>1 DEF InvoiceBefore, status
<1>5. e = [episode EXCEPT !.invoices[undo.id] = x]
  BY <1>6 DEF WithStatus, Episodes
<1> HIDE DEF e, x
<1> QED  BY <1>1, <1>2, <1>3, <1>4, <1>5, <1>9, InvoiceUndo
LEMMA UndoPaidStep ==
  ASSUME IInv, UndoPaid
  PROVE  IInv' /\ Like(episode', Last(trail))
<1> DEFINE g == Last(trail)
           u == undo
           i == undo.id
           v == episode.invoices
           y == v[i]
           c == y.payer
           x == Unpaid(y)
           info0 == episode.customers[c]
           l == info0.invoices
           m == Keep(l, InvoiceIds \ {i})
           r == WithInvoices(info0, m)
           e == [episode EXCEPT
                    !.invoices[i].status = "Open",
                    !.invoices[i].payer = None,
                    !.invoices[i].carrier_tx = None,
                    !.used_carrier_txs = @ \ {inv(i).carrier_tx},
                    !.customers[inv(i).payer].invoices = Keep(@, InvoiceIds \ {i})]
           puts == <<PutCustomer(db, e, c), PutInvoice(PutCustomer(db, e, c), e, i)>>
<1>1. /\ Ready /\ mode = "proxy" /\ rollback_stack # <<>> /\ undo.type = "UndoPaid"
      /\ Popped(e, puts) /\ chain' = chain \ {y.carrier_tx}
  BY DEF UndoPaid, Reverting, undo, inv
<1>2. u \in Rollbacks /\ g \in SoundEpisodes /\ g \in Episodes /\ Linked(g, u, episode)
  BY <1>1, LastLinked
<1>3. OfInvoice(u) /\ u.type = "UndoPaid"
  BY <1>1 DEF OfInvoice
<1>4. i \in InvoiceIds
  BY <1>2, <1>3 DEF Rollbacks, OfInvoice
<1>5. /\ episode \in Episodes /\ TreesOf(episode) = db /\ db \in SoundTrees
      /\ db.invoices = v /\ db.customers = episode.customers /\ IndexSound(db)
  BY <1>1, EpisodeSound DEF Ready
<1>21. y \in Invoices /\ shown(episode, i) = Undated(y)
  <2>1. shown(episode, i) # None /\ shown(episode, i) = Undated(y)
    BY <1>2, <1>3, <1>4, ShownOf DEF Linked, Undoable
  <2> QED  BY <1>4, <1>5, <2>1, EpisodeFields DEF Undated
<1>6. y # None /\ y.status = "Paid" /\ c \in PubKeys /\ info0 # None
  <2>1. /\ Undated(y).status = "Paid" /\ Undated(y).payer \in PubKeys
        /\ episode.customers[Undated(y).payer] # None
    BY <1>2, <1>3, <1>21 DEF Linked, Undoable
  <2> HIDE DEF y
  <2> QED  BY <1>21, <2>1, UndatedFields
<1>7. /\ v \in [InvoiceIds -> Invoices \cup {None}] /\ y \in Invoices
      /\ episode.customers \in [PubKeys -> CustomerInfos \cup {None}] /\ info0 \in CustomerInfos
      /\ l \in Seq(InvoiceIds)
  BY <1>4, <1>5, <1>6, EpisodeFields, InfoFields
<1>8. x \in Invoices
  BY <1>7 DEF Unpaid, Invoices
<1>9. /\ IsInjective(l) /\ m \in Seq(InvoiceIds) /\ IsInjective(m)
      /\ \A j : j \in ToSet(m) => j \in ToSet(l)
  <2>1. IsInjective(l)
    BY <1>5, <1>6 DEF IndexSound
  <2> HIDE DEF l
  <2>2. m \in Seq(InvoiceIds) /\ IsInjective(m)
    BY <1>7, <2>1, KeepSeq, KeepInjective
  <2>3. \A j : j \in ToSet(m) => j \in ToSet(l)
    BY <1>4, <1>7, Elements
  <2> QED  BY <2>1, <2>2, <2>3
<1>10. r \in CustomerInfos /\ r # None /\ r.invoices = m /\ r.subscriptions = info0.subscriptions
  <2> HIDE DEF r, m, info0
  <2> QED  BY <1>7, <1>9, InfoWithInvoices DEF r
<1>11. e = [episode EXCEPT !.invoices[i] = x, !.used_carrier_txs = @ \ {y.carrier_tx},
                           !.customers[c] = r]
  BY <1>4, <1>5, <1>7 DEF inv, Unpaid, WithInvoices, Episodes
<1>12. /\ e.invoices = [v EXCEPT ![i] = x] /\ e.subscriptions = episode.subscriptions
       /\ e.customers = [episode.customers EXCEPT ![c] = r]
       /\ e.used_carrier_txs = episode.used_carrier_txs \ {y.carrier_tx}
       /\ e \in Episodes
  <2> HIDE DEF e, x, r, c
  <2> QED  BY <1>5, <1>6, <1>8, <1>10, <1>11 DEF Episodes
<1>13. /\ e.invoices[i] = x /\ e.customers[c] = r
       /\ \A d \in PubKeys : d # c => e.customers[d] = episode.customers[d]
  <2> HIDE DEF e, x, r, c
  <2> QED  BY <1>4, <1>6, <1>7, <1>12
<1> HIDE DEF e, x, r, m, l, info0
<1> DEFINE t == [db EXCEPT !.customers[c] = r]
<1>14. PutCustomer(db, e, c) = t /\ PutInvoice(t, e, i) = TreesOf(e)
  <2>1. PutCustomer(db, e, c) = t
    BY <1>13 DEF PutCustomer
  <2>2. db = [invoices |-> v, subscriptions |-> episode.subscriptions,
              customers |-> episode.customers]
    BY <1>5 DEF TreesOf
  <2>3. t = [invoices |-> v, subscriptions |-> episode.subscriptions, customers |-> e.customers]
    BY <1>12, <2>2
  <2>4. e.subscriptions = episode.subscriptions /\ e.invoices = [v EXCEPT ![i] = x]
        /\ e.invoices[i] = x
    BY <1>12, <1>13
  <2> HIDE DEF t
  <2> QED  BY <2>1, <2>3, <2>4 DEF PutInvoice, TreesOf
<1>15. t \in SoundTrees
  <2>1. ASSUME NEW j \in ToSet(r.invoices) PROVE db.invoices[j] # None /\ db.invoices[j].payer = c
    <3>1. j \in ToSet(l)
      BY <1>9, <1>10, <2>1
    <3> QED  BY <1>5, <1>6, <3>1 DEF IndexSound, l, info0
  <2> HIDE DEF c
  <2> QED  BY <1>5, <1>6, <1>9, <1>10, <2>1, CustomerPut
<1>16. Like(e, g)
  <2>9. shown(episode, i).payer = c /\ shown(episode, i).carrier_tx = y.carrier_tx
    BY <1>21, UndatedFields
  <2>1. \A d \in PubKeys : e.customers[d] = None <=> episode.customers[d] = None
    BY <1>6, <1>10, <1>13 DEF info0
  <2>2. \A d \in PubKeys : e.customers[d] # None =>
           e.customers[d].subscriptions = episode.customers[d].subscriptions
    BY <1>10, <1>13 DEF info0
  <2>3. \A d \in PubKeys : Listed(e, d) = Listed(episode, d)
    <3>1. e.subscriptions = episode.subscriptions
      BY <1>12
    <3> QED  BY <2>1, <2>2, <3>1, SameListed
  <2>4. PaidBefore(u, episode) = Image(e).paid
    <3> DEFINE P == Image(episode).paid
               Q == Image(e).paid
    <3>1. /\ P = [d \in PubKeys |->
                    IF episode.customers[d] = None THEN None ELSE episode.customers[d].invoices]
          /\ Q = [d \in PubKeys |-> IF e.customers[d] = None THEN None ELSE e.customers[d].invoices]
      BY DEF Image
    <3>2. P[c] = l /\ Q[c] = m /\ \A d \in PubKeys : d # c => P[d] = Q[d]
      BY <1>6, <1>10, <1>13, <3>1 DEF l, info0
    <3>3. PaidBefore(u, episode) = [P EXCEPT ![c] = Keep(P[c], InvoiceIds \ {i})]
      BY <1>3, <2>9 DEF PaidBefore
    <3>4. \A d \in PubKeys : PaidBefore(u, episode)[d] = Q[d]
      BY <3>1, <3>2, <3>3 DEF m
    <3>5. PaidBefore(u, episode) = [d \in PubKeys |-> PaidBefore(u, episode)[d]]
      BY <3>1, <3>3
    <3>6. Q = [d \in PubKeys |-> Q[d]]
      BY <3>1
    <3> QED  BY <3>4, <3>5, <3>6
  <2>5. UsedBefore(u, episode) = e.used_carrier_txs
    BY <1>3, <1>12, <2>9, ImageOf DEF UsedBefore
  <2>6. InvoiceBefore(u, episode) = Undated(x)
    <3>1. InvoiceBefore(u, episode) = Unpaid(Undated(y))
      BY <1>3, <1>21 DEF InvoiceBefore
    <3>2. Undated(x) = [x EXCEPT !.last_update = 0] /\ Undated(y) = [y EXCEPT !.last_update = 0]
      BY <1>6, <1>8, Nothing DEF Undated
    <3>3. Unpaid(Undated(y)) = Undated(x)
      BY <1>8, <1>21, <3>2 DEF Unpaid, Invoices, x
    <3> QED  BY <3>1, <3>3
  <2>10. Image(e).invoices = [Image(episode).invoices EXCEPT ![i] = Undated(x)]
    <3>1. AsideFrom(e, episode, i)
      BY <1>4, <1>7, <1>12 DEF AsideFrom
    <3> QED  BY <1>4, <1>13, <3>1, ImagePut
  <2>7. Image(e) = ImageBefore(u, episode)
    <3>1. ImageBefore(u, episode) =
             [invoices |-> Image(e).invoices, subscriptions |-> episode.subscriptions,
              paid |-> Image(e).paid, used |-> e.used_carrier_txs]
      BY <1>3, <2>4, <2>5, <2>6, <2>10 DEF ImageBefore
    <3> QED  BY <1>12, <3>1, ImageOf
  <2>8. Lost(u) = {}
    BY <1>3 DEF Lost
  <2> QED  BY <1>2, <2>1, <2>3, <2>7, <2>8 DEF Linked, Like
<1>17. TreesOf(e) \in SoundTrees
  BY <1>2, <1>12, <1>16, LikeSound DEF SoundEpisodes
<1>18. puts \in Seq(SoundTrees) /\ puts # <<>> /\ Last(puts) = TreesOf(e)
  <2>1. puts = <<t, TreesOf(e)>>
    BY <1>14
  <2> HIDE DEF puts, t
  <2> QED  BY <1>15, <1>17, <2>1, TwoPuts
<1>19. chain' \subseteq ChainTxs /\ episode' = e
  BY <1>1 DEF IInv, TypeOK, Popped
<1> HIDE DEF puts
<1>20. IInv'
  BY <1>1, <1>12, <1>16, <1>18, <1>19, PoppedKeeps
<1> QED  BY <1>16, <1>19, <1>20
(* The rollback objects of a subscription *)
LEMMA SubscriptionUndo ==
  ASSUME IInv, Ready, mode = "proxy", rollback_stack # <<>>, ~ OfInvoice(undo),
         NEW x, x = SubscriptionBefore(undo, episode),
         NEW c \in PubKeys, NEW r \in CustomerInfos \cup {None},
         r = None <=> episode.customers[c] = None,
         r # None => r.invoices = episode.customers[c].invoices,
         NEW e, e = Resubscribed(episode, undo.id, x, c, r),
         \A d \in PubKeys : Listed(Last(trail), d) \subseteq Listed(e, d),
         NEW puts, Popped(e, puts),
         \A t \in SoundTrees : t = TreesOf(e) =>
             puts \in Seq(SoundTrees) /\ puts # <<>> /\ Last(puts) = t,
         chain' = chain
  PROVE  IInv' /\ Like(episode', Last(trail))
<1> DEFINE g == Last(trail)
           u == undo
           s == u.id
<1>1. u \in Rollbacks /\ g \in SoundEpisodes /\ g \in Episodes /\ Linked(g, u, episode)
  BY LastLinked
<1>2. s \in SubscriptionIds
  BY <1>1 DEF Rollbacks, OfInvoice
<1>3. episode \in Episodes
  BY EpisodeSound DEF Ready
<1> HIDE DEF g, u
<1>4. x \in Subscriptions \cup {None}
  <2>1. g.subscriptions = [episode.subscriptions EXCEPT ![s] = x]
    <3>1. Image(g).subscriptions = g.subscriptions
      BY DEF Image
    <3>2. ImageBefore(u, episode).subscriptions = [episode.subscriptions EXCEPT ![s] = x]
      BY DEF ImageBefore, u
    <3> QED  BY <1>1, <3>1, <3>2 DEF Linked
  <2>2. g.subscriptions[s] = x
    <3>1. episode.subscriptions \in [SubscriptionIds -> Subscriptions \cup {None}]
      BY <1>3, EpisodeFields
    <3> HIDE DEF s
    <3> QED  BY <1>2, <2>1, <3>1
  <2> QED  BY <1>1, <1>2, <2>2, EpisodeFields
<1>5. e \in Episodes
  BY <1>2, <1>3, <1>4, ResubscribedType DEF u
<1>6. /\ Image(e) = [invoices |-> Image(episode).invoices,
                     subscriptions |-> [episode.subscriptions EXCEPT ![s] = x],
                     paid |-> Image(episode).paid, used |-> episode.used_carrier_txs]
      /\ \A d \in PubKeys : e.customers[d] = None <=> episode.customers[d] = None
  BY <1>2, <1>3, <1>4, ResubscribedImage DEF u
<1>7. ImageBefore(u, episode) = Image(e)
  <2>1. ~ OfInvoice(u) /\ u.type # "UndoPaid" /\ x = SubscriptionBefore(u, episode)
    BY DEF OfInvoice, u
  <2>2. PaidBefore(u, episode) = Image(episode).paid
        /\ UsedBefore(u, episode) = episode.used_carrier_txs
    BY <2>1, ImageOf DEF PaidBefore, UsedBefore
  <2> QED  BY <1>6, <2>1, <2>2 DEF ImageBefore
<1>8. Like(e, g)
  BY <1>1, <1>6, <1>7 DEF Linked, Like, g
<1>9. TreesOf(e) \in SoundTrees
  BY <1>1, <1>5, <1>8, LikeSound DEF SoundEpisodes
<1>10. puts \in Seq(SoundTrees) /\ puts # <<>> /\ Last(puts) = TreesOf(e)
  BY <1>9
<1>11. chain' \subseteq ChainTxs /\ episode' = e
  BY DEF IInv, TypeOK, Popped
<1>12. IInv'
  BY <1>5, <1>8, <1>10, <1>11, PoppedKeeps DEF g
<1> QED  BY <1>8, <1>11, <1>12 DEF g

LEMMA UndoCreateSubscriptionStep ==
  ASSUME IInv, UndoCreateSubscription
  PROVE  IInv' /\ Like(episode', Last(trail))
<1> DEFINE g == Last(trail)
           s == undo.id
           y == episode.subscriptions[s]
           c == y.customer
           info0 == episode.customers[c]
           l == info0.subscriptions
           m == Keep(l, SubscriptionIds \ {s})
           r == WithSubscriptions(info0, m)
           e == [episode EXCEPT
                    !.subscriptions[s] = None,
                    !.customers[sub(s).customer].subscriptions = Keep(@, SubscriptionIds \ {s})]
           puts == <<PutSubscription(db, e, s), PutCustomer(PutSubscription(db, e, s), e, c)>>
<1>1. /\ Ready /\ mode = "proxy" /\ rollback_stack # <<>>
      /\ undo.type = "UndoCreateSubscription"
      /\ Popped(e, puts) /\ chain' = chain
  BY DEF UndoCreateSubscription, Reverting, undo, sub
<1>2. undo \in Rollbacks /\ Linked(g, undo, episode) /\ ~ OfInvoice(undo)
      /\ Lost(undo) = {} /\ SubscriptionBefore(undo, episode) = None
  BY <1>1, LastLinked DEF OfInvoice, Lost, SubscriptionBefore
<1>3. s \in SubscriptionIds /\ y # None /\ c \in PubKeys /\ info0 # None
  BY <1>1, <1>2 DEF Rollbacks, OfInvoice, Linked, Undoable
<1>4. episode \in Episodes /\ TreesOf(episode) = db /\ db \in SoundTrees
  BY <1>1, EpisodeSound DEF Ready
<1>5. info0 \in CustomerInfos /\ l \in Seq(SubscriptionIds)
  BY <1>3, <1>4, EpisodeFields, InfoFields
<1>6. m \in Seq(SubscriptionIds)
  <2> HIDE DEF l
  <2> QED  BY <1>5, KeepSeq
<1>7. r \in CustomerInfos /\ r # None /\ r.subscriptions = m /\ r.invoices = info0.invoices
  <2> HIDE DEF r, m, info0
  <2> QED  BY <1>5, <1>6, InfoWithSubscriptions DEF r
<1>8. e = Resubscribed(episode, s, None, c, r)
  BY <1>4 DEF Resubscribed, WithSubscriptions, Episodes, sub
<1> HIDE DEF g, r, m, e, info0
<1>9. \A t \in SoundTrees : t = TreesOf(e) =>
          puts \in Seq(SoundTrees) /\ puts # <<>> /\ Last(puts) = t
  <2>1. /\ PutSubscription(db, e, s) \in SoundTrees
        /\ PutCustomer(PutSubscription(db, e, s), e, c) = TreesOf(e)
        /\ TreesOf(e) \in SoundTrees
    <3> HIDE DEF s, c
    <3> QED  BY <1>3, <1>4, <1>7, <1>8, ResubscribedPuts DEF info0
  <2> HIDE DEF puts
  <2> QED  BY <2>1, TwoPuts DEF puts
<1>10. ASSUME NEW d \in PubKeys, NEW z \in Listed(g, d) PROVE z \in Listed(e, d)
  <2>1. z # s
    <3>1. Image(g).subscriptions[s] = None
      <4>1. ImageBefore(undo, episode).subscriptions = [episode.subscriptions EXCEPT ![s] = None]
        BY <1>2 DEF ImageBefore
      <4> HIDE DEF s
      <4> QED  BY <1>2, <1>3, <1>4, <4>1, EpisodeFields DEF Linked
    <3>2. g.subscriptions[s] = None
      BY <3>1 DEF Image
    <3> QED  BY <1>10, <3>2 DEF Listed
  <2>2. z \in Listed(episode, d)
    BY <1>2, <1>10 DEF Linked
  <2>3. d = c => z \in ToSet(m)
    <3>1. d = c => z \in ToSet(l)
      BY <2>2 DEF Listed, info0
    <3> HIDE DEF l, s
    <3> QED  BY <1>3, <1>5, <2>1, <3>1, Elements DEF m
  <2> HIDE DEF s, c
  <2> QED  BY <1>3, <1>4, <1>7, <1>8, <2>1, <2>2, <2>3, StaysListed
<1> HIDE DEF puts, c, l
<1>11. /\ r \in CustomerInfos \cup {None} /\ (r = None <=> episode.customers[c] = None)
       /\ r.invoices = episode.customers[c].invoices
  BY <1>3, <1>7 DEF info0
<1>12. \A d \in PubKeys : Listed(Last(trail), d) \subseteq Listed(e, d)
  BY <1>10 DEF g
<1>13. e = Resubscribed(episode, undo.id, None, c, r)
  BY <1>8
<1> QED  BY <1>1, <1>2, <1>3, <1>9, <1>11, <1>12, <1>13, SubscriptionUndo
LEMMA UndoProcessSubscriptionStep ==
  ASSUME IInv, UndoProcessSubscription
  PROVE  IInv' /\ Like(episode', Last(trail))
<1> DEFINE g == Last(trail)
           s == undo.id
           y == episode.subscriptions[s]
           x == [y EXCEPT !.next_run = undo.prev]
           c == y.customer
           r == episode.customers[c]
           e == [episode EXCEPT !.subscriptions[s].next_run = undo.prev]
           puts == <<PutSubscription(db, e, s)>>
<1>1. /\ Ready /\ mode = "proxy" /\ rollback_stack # <<>>
      /\ undo.type = "UndoProcessSubscription"
      /\ Popped(e, puts) /\ chain' = chain
  BY DEF UndoProcessSubscription, Reverting, undo
<1>2. undo \in Rollbacks /\ Linked(g, undo, episode) /\ ~ OfInvoice(undo)
      /\ Lost(undo) = {} /\ SubscriptionBefore(undo, episode) = x
  BY <1>1, LastLinked DEF OfInvoice, Lost, SubscriptionBefore
<1>3. s \in SubscriptionIds /\ undo.prev \in Nat /\ y # None
  BY <1>1, <1>2 DEF Rollbacks, OfInvoice, Linked, Undoable
<1>4. episode \in Episodes /\ TreesOf(episode) = db /\ db \in SoundTrees
  BY <1>1, EpisodeSound DEF Ready
<1>5. y \in Subscriptions /\ c \in PubKeys
  <2>1. y \in Subscriptions
    <3> HIDE DEF s
    <3> QED  BY <1>3, <1>4, EpisodeFields
  <2> QED  BY <2>1, SubscriptionFields
<1>6. x \in Subscriptions /\ x # None /\ x.customer = c
  <2>1. x \in Subscriptions /\ x.customer = c
    BY <1>3, <1>5 DEF Subscriptions
  <2> QED  BY <2>1, Nothing
<1>7. r \in CustomerInfos \cup {None}
  <2> HIDE DEF c
  <2> QED  BY <1>4, <1>5, EpisodeFields
<1>8. e = Resubscribed(episode, s, x, c, r)
  <2>1. [episode.customers EXCEPT ![c] = r] = episode.customers
    <3> HIDE DEF c
    <3> QED  BY <1>4, <1>5, EpisodeFields
  <2>2. Resubscribed(episode, s, x, c, r) =
           [episode EXCEPT !.subscriptions = [episode.subscriptions EXCEPT ![s] = x],
                           !.customers = [episode.customers EXCEPT ![c] = r]]
    BY <1>4 DEF Resubscribed, Episodes
  <2>3. e = [episode EXCEPT !.subscriptions = [episode.subscriptions EXCEPT ![s] = x],
                            !.customers = episode.customers]
    BY <1>4 DEF Episodes
  <2> HIDE DEF e, r
  <2> QED  BY <2>1, <2>2, <2>3
<1>9. /\ e.subscriptions = [episode.subscriptions EXCEPT ![s] = x]
      /\ e.customers = episode.customers /\ e.invoices = episode.invoices
  BY <1>4 DEF Episodes
<1>10. e.subscriptions[s] = x
  <2> HIDE DEF e, x, s
  <2> QED  BY <1>3, <1>4, <1>9, EpisodeFields
<1> HIDE DEF g, x, e
<1>11. \A t \in SoundTrees : t = TreesOf(e) =>
          puts \in Seq(SoundTrees) /\ puts # <<>> /\ Last(puts) = t
  <2>1. PutSubscription(db, e, s) = TreesOf(e)
    <3>1. db = [invoices |-> episode.invoices, subscriptions |-> episode.subscriptions,
                customers |-> episode.customers]
      BY <1>4 DEF TreesOf
    <3> QED  BY <1>9, <1>10, <3>1 DEF PutSubscription, TreesOf
  <2> HIDE DEF puts
  <2> QED  BY <2>1, OnePut DEF puts
<1>12. ASSUME NEW d \in PubKeys, NEW z \in Listed(g, d) PROVE z \in Listed(e, d)
  <2>1. z \in Listed(episode, d)
    BY <1>2, <1>12 DEF Linked
  <2>2. z = s => x # None /\ x.customer = d
    BY <1>6, <2>1 DEF Listed
  <2>3. d = c => r # None /\ z \in ToSet(r.subscriptions)
    BY <2>1 DEF Listed
  <2> HIDE DEF r, c, s
  <2> QED  BY <1>3, <1>4, <1>5, <1>6, <1>7, <1>8, <2>1, <2>2, <2>3, StaysListed
<1>13. /\ r = None <=> episode.customers[c] = None
       /\ r # None => r.invoices = episode.customers[c].invoices
  OBVIOUS
<1>14. \A d \in PubKeys : Listed(Last(trail), d) \subseteq Listed(e, d)
  BY <1>12 DEF g
<1> HIDE DEF puts, r, c
<1>15. e = Resubscribed(episode, undo.id, x, c, r) /\ x = SubscriptionBefore(undo, episode)
  BY <1>2, <1>8
<1> QED  BY <1>1, <1>2, <1>5, <1>7, <1>11, <1>13, <1>14, <1>15, SubscriptionUndo

LEMMA UndoCancelSubscriptionStep ==
  ASSUME IInv, UndoCancelSubscription
  PROVE  IInv' /\ Like(episode', Last(trail))
<1> DEFINE g == Last(trail)
           s == undo.id
           x == undo.subscription
           c == x.customer
           info0 == episode.customers[c]
           l == info0.subscriptions
           listed == info0 = None \/ Contains(l, s)
           m == Append(l, s)
           r == IF listed THEN info0 ELSE WithSubscriptions(info0, m)
           put == [episode EXCEPT !.subscriptions[s] = x]
           e == IF listed THEN put ELSE [put EXCEPT !.customers[c].subscriptions = Append(@, s)]
           puts == <<PutSubscription(db, e, s), TreesOf(e)>>
<1>1. /\ Ready /\ mode = "proxy" /\ rollback_stack # <<>>
      /\ undo.type = "UndoCancelSubscription"
      /\ Popped(e, puts) /\ chain' = chain
  BY DEF UndoCancelSubscription, Reverting, undo, info
<1>2. undo \in Rollbacks /\ Linked(g, undo, episode) /\ ~ OfInvoice(undo)
      /\ Lost(undo) = {s} /\ SubscriptionBefore(undo, episode) = x
  BY <1>1, LastLinked DEF OfInvoice, Lost, SubscriptionBefore
<1>3. s \in SubscriptionIds /\ x \in Subscriptions
  BY <1>1, <1>2 DEF Rollbacks
<1>4. c \in PubKeys /\ x # None
  <2> HIDE DEF x
  <2> QED  BY <1>3, SubscriptionFields
<1>5. episode \in Episodes /\ TreesOf(episode) = db /\ db \in SoundTrees
  BY <1>1, EpisodeSound DEF Ready
<1>6. info0 \in CustomerInfos \cup {None}
  <2> HIDE DEF c
  <2> QED  BY <1>4, <1>5, EpisodeFields
<1>7. info0 # None => l \in Seq(SubscriptionIds)
  <2> HIDE DEF info0
  <2> QED  BY <1>6, InfoFields
<1>8. /\ r \in CustomerInfos \cup {None} /\ (r = None <=> info0 = None)
      /\ r # None => r.invoices = info0.invoices
      /\ r # None => s \in ToSet(r.subscriptions)
                     /\ \A z \in ToSet(l) : z \in ToSet(r.subscriptions)
  <2>1. CASE info0 = None
    BY <2>1
  <2>2. CASE info0 # None /\ Contains(l, s)
    <3>1. s \in ToSet(l) /\ r = info0
      <4> HIDE DEF l, s
      <4> QED  BY <1>3, <1>7, <2>2, Elements
    <3> QED  BY <1>6, <2>2, <3>1
  <2>3. CASE info0 # None /\ ~ Contains(l, s)
    <3>1. /\ m \in Seq(SubscriptionIds) /\ s \in ToSet(m)
          /\ \A z \in ToSet(l) : z \in ToSet(m)
      <4> HIDE DEF l, s
      <4> QED  BY <1>3, <1>7, <2>3, AppendProperties, Elements
    <3>2. r = WithSubscriptions(info0, m) /\ info0 \in CustomerInfos
      BY <1>6, <2>3
    <3>3. r \in CustomerInfos /\ r # None /\ r.subscriptions = m /\ r.invoices = info0.invoices
      <4> HIDE DEF r, m, info0
      <4> QED  BY <3>1, <3>2, InfoWithSubscriptions
    <3> QED  BY <2>3, <3>1, <3>3
  <2> QED  BY <2>1, <2>2, <2>3
<1>9. e = Resubscribed(episode, s, x, c, r)
  <2>1. put.customers = episode.customers
    BY <1>5 DEF Episodes
  <2>2. Resubscribed(episode, s, x, c, r) =
           [put EXCEPT !.customers = [put.customers EXCEPT ![c] = r]]
    BY DEF Resubscribed
  <2>3. CASE listed
    <3>1. [put.customers EXCEPT ![c] = r] = put.customers
      <4>1. r = info0
        BY <2>3
      <4> HIDE DEF put, c, r
      <4> QED  BY <1>4, <1>5, <2>1, <4>1, EpisodeFields
    <3>2. put = [put EXCEPT !.customers = put.customers]
      BY <1>5 DEF Episodes
    <3> HIDE DEF put, r
    <3> QED  BY <2>2, <2>3, <3>1, <3>2
  <2>4. CASE ~ listed
    <3>1. r = [put.customers[c] EXCEPT !.subscriptions = Append(@, s)]
      BY <2>1, <2>4 DEF WithSubscriptions
    <3>2. e = [put EXCEPT !.customers[c].subscriptions = Append(@, s)]
      BY <2>4
    <3> HIDE DEF put, r, e
    <3> QED  BY <2>2, <3>1, <3>2
  <2> QED  BY <2>3, <2>4
<1> HIDE DEF g, r, e, info0
<1>10. \A t \in SoundTrees : t = TreesOf(e) =>
          puts \in Seq(SoundTrees) /\ puts # <<>> /\ Last(puts) = t
  <2>1. PutSubscription(db, e, s) \in SoundTrees
    <3>1. e.subscriptions[s] = x
      <4>1. e.subscriptions = [episode.subscriptions EXCEPT ![s] = x]
        BY <1>5, <1>9 DEF Resubscribed, Episodes
      <4> HIDE DEF s, x
      <4> QED  BY <1>3, <1>5, <4>1, EpisodeFields
    <3> HIDE DEF s, x
    <3> QED  BY <1>3, <1>5, <3>1, SubscriptionPut DEF PutSubscription
  <2> HIDE DEF puts
  <2> QED  BY <2>1, TwoPuts DEF puts
<1>11. g.subscriptions[s] = x
  <2>1. Image(g).subscriptions = [episode.subscriptions EXCEPT ![s] = x]
    <3>1. ImageBefore(undo, episode).subscriptions = [episode.subscriptions EXCEPT ![s] = x]
      BY <1>2 DEF ImageBefore
    <3> QED  BY <1>2, <3>1 DEF Linked
  <2>2. g.subscriptions = [episode.subscriptions EXCEPT ![s] = x]
    BY <2>1 DEF Image
  <2> HIDE DEF s, x
  <2> QED  BY <1>3, <1>5, <2>2, EpisodeFields
<1>12. \A d \in PubKeys : g.customers[d] = None <=> episode.customers[d] = None
  BY <1>2 DEF Linked
<1>13. ASSUME NEW d \in PubKeys, NEW z \in Listed(g, d) PROVE z \in Listed(e, d)
  <2>1. CASE z # s
    <3>1. z \in Listed(episode, d)
      BY <1>2, <1>13, <2>1 DEF Linked
    <3>2. d = c => r # None /\ z \in ToSet(r.subscriptions)
      BY <1>8, <3>1 DEF Listed, info0
    <3> HIDE DEF s, x, c
    <3> QED  BY <1>3, <1>4, <1>5, <1>8, <1>9, <2>1, <3>1, <3>2, StaysListed
  <2>2. CASE z = s
    <3>1. g.customers[d] # None /\ x.customer = d
      BY <1>11, <1>13, <2>2 DEF Listed
    <3>2. info0 # None /\ d = c
      BY <1>12, <3>1 DEF info0
    <3>3. r # None /\ s \in ToSet(r.subscriptions)
      BY <1>8, <3>2
    <3>4. e.subscriptions[s] = x /\ e.customers[c] = r
      <4>1. /\ e.subscriptions = [episode.subscriptions EXCEPT ![s] = x]
            /\ e.customers = [episode.customers EXCEPT ![c] = r]
        BY <1>5, <1>9 DEF Resubscribed, Episodes
      <4> HIDE DEF s, x, c
      <4> QED  BY <1>3, <1>4, <1>5, <4>1, EpisodeFields
    <3> QED  BY <1>4, <2>2, <3>1, <3>2, <3>3, <3>4 DEF Listed
  <2> QED  BY <2>1, <2>2
<1>14. /\ r = None <=> episode.customers[c] = None
       /\ r # None => r.invoices = episode.customers[c].invoices
  BY <1>8 DEF info0
<1>15. \A d \in PubKeys : Listed(Last(trail), d) \subseteq Listed(e, d)
  BY <1>13 DEF g
<1> HIDE DEF puts, c, l, x
<1>16. e = Resubscribed(episode, undo.id, x, c, r) /\ x = SubscriptionBefore(undo, episode)
  BY <1>2, <1>9
<1> QED  BY <1>1, <1>2, <1>4, <1>8, <1>10, <1>14, <1>15, <1>16, SubscriptionUndo
LEMMA UndoStep ==
  ASSUME IInv, Undo
  PROVE  IInv' /\ Like(episode', Last(trail))
BY UndoCreateStep, UndoPaidStep, ReopenedStep, UndoCreateSubscriptionStep,
   UndoProcessSubscriptionStep, UndoCancelSubscriptionStep DEF Undo
-----------------------------------------------------------------------------
(* The steps that touch neither the episode nor its stack *)
Requests == [id : SubscriptionIds \cup {None}, time : Nat]

LEMMA Quiet ==
  ASSUME IInv, UNCHANGED <<episode, rollback_stack, trail>>,
         mode' \in Modes, mode' = mode \/ episode = None,
         store' \in Seq(SoundTrees), store' # <<>>, db' = db \/ episode = None,
         pc' \in {"idle", "on_command"}, now' \in Nat, chain' \subseteq ChainTxs,
         queue' \in Seq(Requests),
         episode # None => \A k \in 1..Len(queue') :
                               /\ queue'[k].id \in SubscriptionIds
                               /\ episode.subscriptions[queue'[k].id] # None,
         queue' # <<>> => mode' \in {"serve", "once"} \/ (mode' = "demo" /\ episode # None)
  PROVE  IInv'
<1>1. TypeOK'
  BY DEF IInv, TypeOK, Requests
<1>2. Trailed'
  BY DEF IInv, Trailed, After
<1>3. Placed'
  BY DEF IInv, Placed
<1> QED  BY <1>1, <1>2, <1>3 DEF IInv

(* What a process starts and ends with *)
LEMMA Emptied ==
  ASSUME IInv, rollback_stack' = <<>>, trail' = <<>>,
         mode' \in Modes, episode' \in SoundEpisodes \cup {None},
         episode' # None => mode' \in {"proxy", "router", "demo", "new"} /\ TreesOf(episode') = db',
         store' \in Seq(SoundTrees), store' # <<>>,
         pc' \in {"idle", "on_command"}, now' \in Nat, chain' \subseteq ChainTxs,
         queue' = <<>>
  PROVE  IInv'
<1>1. /\ <<>> \in Seq(Rollbacks) /\ <<>> \in Seq(SoundEpisodes) /\ <<>> \in Seq(Requests)
      /\ Len(<<>>) = 0
  BY EmptySeq
<1>2. TypeOK'
  BY <1>1 DEF IInv, TypeOK, Requests
<1>3. Trailed'
  BY <1>1 DEF Trailed
<1>4. Placed'
  BY <1>1 DEF Placed
<1> QED  BY <1>2, <1>3, <1>4 DEF IInv

LEMMA StartStep ==
  ASSUME IInv, NEW m \in {"proxy", "router", "demo", "serve", "new"}, Start(m)
  PROVE  IInv'
<1>1. mode = "off" /\ episode = None /\ queue = <<>> /\ TypeOK
  BY DEF Start, IInv, Placed
<1>2. UNCHANGED <<episode, rollback_stack, store, pc, queue, now, trail, chain>> /\ mode' = m
  BY DEF Start
<1>3. queue' = <<>> /\ m \in Modes
  BY <1>1, <1>2 DEF Modes
<1> QED  BY <1>1, <1>2, <1>3, Quiet DEF TypeOK, Requests

LEMMA RegisterCustomerStep ==
  ASSUME IInv, NEW c \in PubKeys, RegisterCustomer(c)
  PROVE  IInv'
<1> DEFINE r == [invoices |-> <<>>, subscriptions |-> <<>>]
           t == [db EXCEPT !.customers[c] = r]
<1>1. mode = "off" /\ episode = None /\ queue = <<>> /\ TypeOK
  BY DEF RegisterCustomer, IInv, Placed
<1>2. /\ UNCHANGED <<mode, episode, rollback_stack, pc, queue, now, trail, chain>>
      /\ store' = <<t>>
  BY DEF RegisterCustomer
<1>3. r \in CustomerInfos /\ r.invoices = <<>>
  BY EmptySeq DEF CustomerInfos
<1>4. IsInjective(<<>>) /\ \A i : i \notin ToSet(<<>>)
  <2>1. <<>> \in Seq(InvoiceIds) /\ Len(<<>>) = 0 /\ DOMAIN <<>> = {}
    BY EmptySeq, LenProperties
  <2> QED  BY <2>1 DEF IsInjective, ToSet
<1>5. t \in SoundTrees
  <2> HIDE DEF r
  <2> QED  BY <1>3, <1>4, DbSound, CustomerPut
<1> HIDE DEF t
<1>6. <<t>> \in Seq(SoundTrees) /\ <<t>> # <<>>
  BY <1>5, OnePut
<1> DEFINE v == <<t>>
<1>7. v \in Seq(SoundTrees) /\ v # <<>> /\ store' = v
  BY <1>2, <1>6
<1> HIDE DEF v
<1>8. store' \in Seq(SoundTrees) /\ store' # <<>>
  BY <1>7
<1> QED  BY <1>1, <1>2, <1>8, Quiet DEF TypeOK, Requests

LEMMA CarriersType ==
  ASSUME NEW v \in [InvoiceIds -> Invoices \cup {None}]
  PROVE  CarriersOf(v) \subseteq TxIds
<1>1. \A i \in InvoiceIds : v[i] # None => v[i].carrier_tx \in TxIds \cup {None}
  BY InvoiceFields
<1> QED  BY <1>1 DEF CarriersOf

LEMMA InitializeStep ==
  ASSUME IInv, Initialize
  PROVE  IInv'
<1> DEFINE e == [invoices |-> db.invoices, subscriptions |-> db.subscriptions,
                 customers |-> db.customers, used_carrier_txs |-> CarriersOf(db.invoices)]
<1>1. /\ mode \in {"proxy", "router", "demo", "new"} /\ episode = None /\ episode' = e
      /\ UNCHANGED <<mode, rollback_stack, store, pc, queue, now, trail, chain>>
  BY DEF Initialize
<1>2. TypeOK /\ trail = <<>> /\ queue = <<>>
  BY <1>1 DEF IInv, Placed
<1>3. rollback_stack = <<>>
  BY <1>2, EmptySeq DEF TypeOK
<1>4. db \in SoundTrees /\ db \in Trees
  BY DbSound DEF SoundTrees
<1>5. e \in Episodes
  BY <1>4, TreesFields, CarriersType DEF Episodes
<1>6. TreesOf(e) = db
  BY <1>4, TreesFields DEF TreesOf
<1>7. e \in SoundEpisodes
  BY <1>4, <1>5, <1>6 DEF SoundEpisodes
<1> HIDE DEF e
<1>8. TreesOf(episode') = db'
  BY <1>1, <1>6 DEF db
<1> QED  BY <1>1, <1>2, <1>3, <1>7, <1>8, Emptied DEF TypeOK

LEMMA RemoveEpisodeStep ==
  ASSUME IInv, RemoveEpisode
  PROVE  IInv'
<1>1. /\ episode' = None /\ rollback_stack' = <<>> /\ trail' = <<>>
      /\ UNCHANGED <<mode, store, pc, queue, now, chain>> /\ mode \in {"proxy", "router"}
  BY DEF RemoveEpisode
<1>2. TypeOK /\ queue = <<>>
  BY <1>1 DEF IInv, Placed
<1> QED  BY <1>1, <1>2, Emptied DEF TypeOK

LEMMA StopStep ==
  ASSUME IInv, Stop
  PROVE  IInv'
<1>1. /\ mode' = "off" /\ episode' = None /\ rollback_stack' = <<>> /\ trail' = <<>>
      /\ pc' = "idle" /\ queue' = <<>> /\ UNCHANGED <<now, chain>>
      /\ \E k \in DOMAIN store : store' = <<store[k]>>
  BY DEF Stop
<1>2. TypeOK
  BY DEF IInv
<1>3. PICK k \in DOMAIN store : store' = <<store[k]>>
  BY <1>1
<1>4. store[k] \in SoundTrees
  <2>1. store \in Seq(SoundTrees) /\ k \in 1..Len(store)
    BY <1>2, LenProperties DEF TypeOK
  <2> QED  BY <2>1, ElementOfSeq
<1> DEFINE v == <<store[k]>>
<1>5. v \in Seq(SoundTrees) /\ v # <<>> /\ store' = v
  BY <1>3, <1>4, OnePut
<1> HIDE DEF v
<1>6. store' \in Seq(SoundTrees) /\ store' # <<>> /\ mode' \in Modes
  BY <1>1, <1>5 DEF Modes
<1> QED  BY <1>1, <1>2, <1>6, Emptied DEF TypeOK
(* A channel that holds nothing new *)
LEMMA SameQueue ==
  ASSUME IInv
  PROVE  /\ TypeOK /\ queue \in Seq(Requests)
         /\ episode # None => \A k \in 1..Len(queue) :
                                 /\ queue[k].id \in SubscriptionIds
                                 /\ episode.subscriptions[queue[k].id] # None
         /\ queue # <<>> => mode \in {"serve", "once"} \/ (mode = "demo" /\ episode # None)
BY DEF IInv, TypeOK, Placed, Requests

LEMMA BackgroundFlushStep ==
  ASSUME IInv, BackgroundFlush
  PROVE  IInv'
<1>1. /\ UNCHANGED <<mode, episode, rollback_stack, pc, queue, now, trail, chain>>
      /\ \E k \in 2..Len(store) : store' = SubSeq(store, k, Len(store))
  BY DEF BackgroundFlush
<1>2. TypeOK
  BY DEF IInv
<1>3. PICK k \in 2..Len(store) : store' = SubSeq(store, k, Len(store))
  BY <1>1
<1> DEFINE n == Len(store)
<1>4. store \in Seq(SoundTrees) /\ n \in Nat /\ k \in 2..n
  BY <1>2, LenProperties DEF TypeOK
<1>5. \A i \in k..n : store[i] \in SoundTrees
  <2>1. \A i \in k..n : i \in 1..n
    <3> HIDE DEF n
    <3> QED  BY <1>4
  <2> QED  BY <1>4, <2>1, ElementOfSeq
<1>6. k \in Int /\ n \in Int /\ k <= n /\ n - k + 1 \in 1..(n - k + 1) /\ k + (n - k + 1) - 1 = n
      /\ n - k + 1 # 0
  <2> HIDE DEF n
  <2> QED  BY <1>3, <1>4
<1>7. /\ store' \in Seq(SoundTrees) /\ Len(store') = n - k + 1
      /\ \A i \in 1..(n - k + 1) : store'[i] = store[k + i - 1]
  <2> HIDE DEF n
  <2> QED  BY <1>3, <1>4, <1>5, <1>6, SubSeqProperties DEF n
<1>8. store' # <<>>
  BY <1>6, <1>7, EmptySeq
<1>9. db' = db
  BY <1>6, <1>7 DEF db, Last
<1> QED  BY <1>1, <1>2, <1>7, <1>8, <1>9, SameQueue, Quiet DEF TypeOK

LEMMA OnCommandStep ==
  ASSUME IInv, OnCommand
  PROVE  IInv'
<1>1. /\ store' = <<db>> /\ pc' = "idle"
      /\ UNCHANGED <<mode, episode, rollback_stack, queue, now, trail, chain>>
  BY DEF OnCommand
<1> DEFINE v == <<db>>
<1>2. v \in Seq(SoundTrees) /\ v # <<>> /\ Last(v) = db /\ store' = v
  BY <1>1, DbSound, OnePut
<1> HIDE DEF v
<1>3. store' \in Seq(SoundTrees) /\ store' # <<>> /\ Last(store') = db
  BY <1>2
<1>4. db' = db
  BY <1>3 DEF db
<1> QED  BY <1>1, <1>3, <1>4, SameQueue, Quiet DEF TypeOK

(* The clock, the chain and a request that is dropped *)
LEMMA TickStep ==
  ASSUME IInv, Tick
  PROVE  IInv'
<1>1. now' = now + 1
      /\ UNCHANGED <<mode, episode, rollback_stack, store, pc, queue, trail, chain>>
  BY DEF Tick
<1>2. TypeOK /\ now' \in Nat /\ db' = db
  BY <1>1 DEF IInv, TypeOK, db
<1> QED  BY <1>1, <1>2, SameQueue, Quiet DEF TypeOK

LEMMA ChainDropsStep ==
  ASSUME IInv, NEW tx, ChainDrops(tx)
  PROVE  IInv'
<1>1. chain' = chain \ {tx}
      /\ UNCHANGED <<mode, episode, rollback_stack, store, pc, queue, now, trail>>
  BY DEF ChainDrops
<1>2. TypeOK /\ chain' \subseteq ChainTxs /\ db' = db
  BY <1>1 DEF IInv, TypeOK, db
<1> QED  BY <1>1, <1>2, SameQueue, Quiet DEF TypeOK

LEMMA StutterStep ==
  ASSUME IInv, UNCHANGED vars
  PROVE  IInv'
<1>1. UNCHANGED <<mode, episode, rollback_stack, store, pc, queue, now, trail, chain>>
  BY DEF vars
<1>2. TypeOK /\ db' = db
  BY <1>1 DEF IInv, TypeOK, db
<1> QED  BY <1>1, <1>2, SameQueue, Quiet DEF TypeOK

(* A request in the channel *)
LEMMA ForwardedType ==
  ASSUME IInv
  PROVE  Forwarded \in Seq(Requests)
<1>1. queue \in Seq(Requests) /\ now \in Nat
  BY DEF IInv, TypeOK, Requests
<1>2. [id |-> None, time |-> now] \in Requests
  BY <1>1 DEF Requests
<1> QED  BY <1>1, <1>2, AppendProperties DEF Forwarded

LEMMA RequestStep ==
  ASSUME IInv, Request
  PROVE  IInv'
<1>1. mode = "serve" /\ queue' = Forwarded
      /\ UNCHANGED <<mode, episode, rollback_stack, store, pc, now, trail, chain>>
  BY DEF Request
<1>2. TypeOK /\ db' = db /\ episode = None
  BY <1>1 DEF IInv, TypeOK, Placed, db
<1> QED  BY <1>1, <1>2, ForwardedType, Quiet DEF TypeOK

LEMMA OneShotStep ==
  ASSUME IInv, OneShot
  PROVE  IInv'
<1>1. mode = "off" /\ mode' = "once" /\ queue' = Forwarded
      /\ UNCHANGED <<episode, rollback_stack, store, pc, now, trail, chain>>
  BY DEF OneShot
<1>2. TypeOK /\ db' = db /\ episode = None
  BY <1>1 DEF IInv, TypeOK, Placed, db
<1>3. mode' \in Modes
  BY <1>1 DEF Modes
<1> QED  BY <1>1, <1>2, <1>3, ForwardedType, Quiet DEF TypeOK

LEMMA DropStep ==
  ASSUME IInv, Drop
  PROVE  IInv'
<1>1. queue # <<>> /\ episode = None /\ queue' = Tail(queue)
      /\ UNCHANGED <<mode, episode, rollback_stack, store, pc, now, trail, chain>>
  BY DEF Drop
<1>2. TypeOK /\ db' = db
  BY <1>1 DEF IInv, TypeOK, db
<1>3. queue' \in Seq(Requests) /\ mode \in {"serve", "once"}
  BY <1>1, SameQueue, HeadTailProperties
<1> QED  BY <1>1, <1>2, <1>3, Quiet DEF TypeOK

LEMMA ScheduledProcessStep ==
  ASSUME IInv, ScheduledProcess
  PROVE  IInv'
<1>1. /\ Ready /\ mode = "demo" /\ queue # <<>> /\ queue' = Tail(queue)
      /\ Process(Head(queue).id, Head(queue).time)
  BY DEF ScheduledProcess
<1>2. Head(queue) \in Requests /\ Head(queue) = queue[1] /\ 1 \in 1..Len(queue)
  <2>1. queue \in Seq(Requests) /\ Len(queue) \in Nat /\ Len(queue) # 0
    BY <1>1, SameQueue, LenProperties, EmptySeq
  <2>2. 1 \in 1..Len(queue)
    BY <2>1
  <2> QED  BY <1>1, <2>1, <2>2, HeadTailProperties
<1>3. Head(queue).id \in SubscriptionIds
  BY <1>1, <1>2, SameQueue DEF Ready
<1>4. Head(queue).time \in Nat
  BY <1>2 DEF Requests
<1> QED  BY <1>1, <1>3, <1>4, ProcessStep

LEMMA ScanStep ==
  ASSUME IInv, Scan
  PROVE  IInv'
<1> DEFINE due == {s \in SubscriptionIds :
                     /\ db.subscriptions[s] # None
                     /\ db.subscriptions[s].next_run <= now}
           n == Cardinality(due)
           batch(ids) == [k \in 1..n |-> [id |-> ids[k], time |-> now]]
<1>1. /\ mode = "serve" \/ (mode = "demo" /\ episode # None)
      /\ \E ids \in [1..n -> due] : queue' = queue \o batch(ids)
      /\ UNCHANGED <<mode, episode, rollback_stack, store, pc, now, trail, chain>>
  BY DEF Scan
<1>2. TypeOK /\ db' = db /\ now \in Nat
  BY <1>1 DEF IInv, TypeOK, db
<1>3. n \in Nat
  <2>1. due \subseteq SubscriptionIds
    OBVIOUS
  <2> HIDE DEF due
  <2> QED  BY <2>1, MerchantAssumption, FS_Subset, FS_CardinalityType
<1>4. PICK ids \in [1..n -> due] : queue' = queue \o batch(ids)
  BY <1>1
<1> DEFINE b == batch(ids)
<1>5. \A k \in 1..n : /\ b[k] \in Requests /\ b[k].id \in SubscriptionIds
                      /\ db.subscriptions[b[k].id] # None
  BY <1>2, <1>4 DEF Requests
<1>6. b \in Seq(Requests) /\ Len(b) = n
  <2>1. b \in [1..n -> Requests]
    BY <1>5
  <2> HIDE DEF b, n
  <2>2. b \in Seq(Requests)
    BY <1>3, <2>1, SeqDef
  <2> QED  BY <1>3, <2>1, <2>2, LenProperties
<1> DEFINE p == Len(queue)
<1> HIDE DEF b, n, due, batch
<1>7. queue \in Seq(Requests) /\ p \in Nat
  BY SameQueue, LenProperties
<1> HIDE DEF p
<1>8. /\ queue' \in Seq(Requests) /\ Len(queue') = p + n
      /\ \A k \in 1..p + n : queue'[k] = IF k <= p THEN queue[k] ELSE b[k - p]
  BY <1>4, <1>6, <1>7, ConcatProperties DEF b, p
<1>9. ASSUME episode # None, NEW k \in 1..Len(queue')
      PROVE  queue'[k].id \in SubscriptionIds /\ episode.subscriptions[queue'[k].id] # None
  <2>1. CASE k <= p
    <3>1. k \in 1..p
      BY <1>3, <1>7, <1>8, <2>1
    <3> QED  BY <1>8, <1>9, <2>1, <3>1, SameQueue DEF p
  <2>2. CASE ~ (k <= p)
    <3>1. k - p \in 1..n
      BY <1>3, <1>7, <1>8, <2>2
    <3>2. queue'[k] = b[k - p]
      BY <1>8, <2>2
    <3>3. db.subscriptions = episode.subscriptions
      BY <1>9, EpisodeSound
    <3> QED  BY <1>5, <3>1, <3>2, <3>3
  <2> QED  BY <2>1, <2>2
<1> QED  BY <1>1, <1>2, <1>8, <1>9, Quiet DEF TypeOK
-----------------------------------------------------------------------------
LEMMA InitStep ==
  ASSUME Init
  PROVE  IInv
<1> DEFINE t == [invoices |-> [i \in InvoiceIds |-> None],
                 subscriptions |-> [s \in SubscriptionIds |-> None],
                 customers |-> [c \in PubKeys |-> None]]
<1>1. /\ mode = "off" /\ episode = None /\ rollback_stack = <<>> /\ store = <<t>>
      /\ pc = "idle" /\ queue = <<>> /\ now = 0 /\ trail = <<>> /\ chain = {}
  BY DEF Init
<1>2. t \in SoundTrees
  <2>1. t \in Trees
    BY DEF Trees
  <2>2. PaymentsExact(t.invoices) /\ IndexSound(t)
    BY DEF PaymentsExact, IndexSound
  <2> QED  BY <2>1, <2>2 DEF SoundTrees
<1> HIDE DEF t
<1> DEFINE v == <<t>>
<1>3. v \in Seq(SoundTrees) /\ v # <<>> /\ store = v
  BY <1>1, <1>2, OnePut
<1> HIDE DEF v
<1>4. /\ <<>> \in Seq(Rollbacks) /\ <<>> \in Seq(SoundEpisodes)
      /\ <<>> \in Seq([id : SubscriptionIds \cup {None}, time : Nat]) /\ Len(<<>>) = 0
  BY EmptySeq
<1>5. TypeOK
  BY <1>1, <1>3, <1>4 DEF TypeOK, Modes
<1>6. Trailed /\ Placed
  BY <1>1, <1>4 DEF Trailed, Placed
<1> QED  BY <1>5, <1>6 DEF IInv

LEMMA ClientStep ==
  ASSUME IInv, Client
  PROVE  IInv'
<1>1. CASE \E i \in InvoiceIds : \E amount \in Amounts, auth \in PubKeys \cup {None} :
              CreateInvoice(i, amount, auth)
  BY <1>1, CreateInvoiceStep
<1>2. CASE \E i \in InvoiceIds :
              \E payer \in PubKeys, auth \in PubKeys \cup {None}, tx \in TxIds :
                 MarkPaid(i, payer, auth, tx)
  BY <1>2, MarkPaidStep
<1>3. CASE \E i \in InvoiceIds : AckReceipt(i) \/ CancelInvoice(i)
  BY <1>3, AckReceiptStep, CancelInvoiceStep
<1>4. CASE \E s \in SubscriptionIds :
              \E c \in PubKeys, amount \in Amounts, auth \in PubKeys \cup {None} :
                 CreateSubscription(s, c, amount, auth)
  BY <1>4, CreateSubscriptionStep
<1>5. CASE \E s \in SubscriptionIds : ProcessSubscription(s)
  <2>1. PICK s \in SubscriptionIds : ProcessSubscription(s)
    BY <1>5
  <2>2. Ready /\ Process(s, now) /\ queue' = queue /\ now \in Nat
    BY <2>1 DEF ProcessSubscription, Serving, IInv, TypeOK
  <2> QED  BY <2>2, ProcessStep
<1>6. CASE \E s \in SubscriptionIds : CancelSubscription(s)
  BY <1>6, CancelSubscriptionStep
<1> QED  BY <1>1, <1>2, <1>3, <1>4, <1>5, <1>6 DEF Client

LEMMA NextStep ==
  ASSUME IInv, [Next]_vars
  PROVE  IInv'
<1>1. CASE Environment
  BY <1>1, StartStep, RegisterCustomerStep, ChainDropsStep, RemoveEpisodeStep, StopStep,
     BackgroundFlushStep, TickStep DEF Environment
<1>2. CASE Initialize \/ Client \/ OnCommand
  BY <1>2, InitializeStep, ClientStep, OnCommandStep
<1>3. CASE Undo
  BY <1>3, UndoStep
<1>4. CASE Scan \/ ScheduledProcess \/ Request \/ OneShot \/ Drop
  BY <1>4, ScanStep, ScheduledProcessStep, RequestStep, OneShotStep, DropStep
<1>5. CASE UNCHANGED vars
  BY <1>5, StutterStep
<1> QED  BY <1>1, <1>2, <1>3, <1>4, <1>5 DEF Next

(* Types, the trail of rollbacks, and where the channel's requests belong  *)
THEOREM Inductive == Spec => []IInv
<1>1. Init => IInv
  BY InitStep
<1>2. IInv /\ [Next]_vars => IInv'
  BY NextStep
<1> QED  BY <1>1, <1>2, PTL DEF Spec
(* At any moment the engine, the scheduler and the listings see the same   *)
(* invoices, subscriptions and customers, and the duplicate check knows    *)
(* exactly the carriers of the payments.                                   *)
THEOREM Copies == Spec => []CopiesMatch
<1>1. IInv => CopiesMatch
  <2> SUFFICES ASSUME IInv, episode # None
               PROVE  /\ episode.invoices = db.invoices
                      /\ episode.subscriptions = db.subscriptions
                      /\ episode.customers = db.customers
                      /\ episode.used_carrier_txs = CarriersOf(episode.invoices)
                      /\ \A k \in DOMAIN queue : episode.subscriptions[queue[k].id] # None
    BY DEF CopiesMatch, list_invoices, list_subscriptions, list_customers, sub
  <2>1. DOMAIN queue = 1..Len(queue)
    BY SameQueue, LenProperties
  <2> QED  BY <2>1, EpisodeSound, SameQueue
<1> QED  BY <1>1, Inductive, PTL

(* Whatever version of the trees a crash leaves, its payments are exact    *)
(* and its customers' lists true.                                          *)
THEOREM Disk == Spec => []DiskSound
<1>1. IInv => DiskSound
  <2> SUFFICES ASSUME IInv, NEW k \in DOMAIN store
               PROVE  PaymentsExact(store[k].invoices) /\ IndexSound(store[k])
    BY DEF DiskSound
  <2>1. store \in Seq(SoundTrees)
    BY DEF IInv, TypeOK
  <2>2. store[k] \in SoundTrees
    BY <2>1, LenProperties, ElementOfSeq
  <2> QED  BY <2>2 DEF SoundTrees
<1> QED  BY <1>1, Inductive, PTL

(* A rollback object brings back what its command changed, after any       *)
(* number of other commands and their rollbacks: all of the invoices but   *)
(* the time of their last change, all of the subscriptions, the payments   *)
(* listed for each customer and the carriers used.                         *)
THEOREM Restores == Spec => RollbackRestores
<1>1. IInv /\ [Next]_vars =>
        [Undo => /\ Image(episode') = Image(Last(trail))
                 /\ \A c \in PubKeys : Listed(Last(trail), c) \subseteq Listed(episode', c)]_vars
  BY UndoStep DEF Like
<1> QED  BY <1>1, Inductive, PTL DEF Spec, RollbackRestores
-----------------------------------------------------------------------------
(* What a step other than a rollback leaves of a payment *)
PaidIn(t, i, tx) == Settled(t.invoices[i]) /\ t.invoices[i].carrier_tx = tx

(* A version of the trees that forgets no payment of the last one *)
Remembers(t) == \A i \in InvoiceIds, tx \in TxIds : PaidIn(db, i, tx) => PaidIn(t, i, tx)

SettledKept == \A i \in InvoiceIds, tx \in TxIds : Known(store, i, tx) => Known(store', i, tx)

LEMMA LastVersion ==
  ASSUME IInv
  PROVE  /\ store \in Seq(SoundTrees) /\ DOMAIN store = 1..Len(store)
         /\ Len(store) \in 1..Len(store) /\ db = store[Len(store)]
         /\ db \in SoundTrees /\ db \in Trees
<1>1. store \in Seq(SoundTrees) /\ store # <<>>
  BY DEF IInv, TypeOK
<1>2. Len(store) \in Nat \ {0} /\ db = store[Len(store)] /\ DOMAIN store = 1..Len(store)
  BY <1>1, FrontLast, LenProperties DEF db
<1> QED  BY <1>1, <1>2, DbSound DEF SoundTrees

(* Versions are added that remember, or some of the old ones go. *)
LEMMA VersionsKept ==
  ASSUME IInv, NEW P, \A t \in P : Remembers(t), NEW puts \in Seq(P), store' = store \o puts
  PROVE  SettledKept
<1> SUFFICES ASSUME NEW i \in InvoiceIds, NEW tx \in TxIds, Known(store, i, tx)
             PROVE  Known(store', i, tx)
  BY DEF SettledKept
<1>1. /\ store \in Seq(SoundTrees) /\ DOMAIN store = 1..Len(store)
      /\ Len(store) \in 1..Len(store) /\ db = store[Len(store)]
  BY LastVersion
<1>2. \A k \in 1..Len(store) : PaidIn(store[k], i, tx)
  BY <1>1 DEF Known, PaidIn
<1>3. \A t \in P : PaidIn(t, i, tx)
  BY <1>1, <1>2 DEF Remembers
<1> DEFINE R == SoundTrees \cup P
           n == Len(store)
           m == Len(puts)
<1>4. /\ store' \in Seq(R) /\ Len(store') = n + m /\ n \in Nat /\ m \in Nat
      /\ \A k \in 1..n + m : store'[k] = IF k <= n THEN store[k] ELSE puts[k - n]
  <2>1. store \in Seq(R) /\ puts \in Seq(R)
    BY <1>1, SeqMonotonic
  <2> HIDE DEF R
  <2> QED  BY <2>1, ConcatProperties, LenProperties
<1>5. DOMAIN store' = 1..n + m
  BY <1>4, LenProperties
<1>6. \A k \in 1..m : PaidIn(puts[k], i, tx)
  BY <1>3, ElementOfSeq
<1>7. ASSUME NEW k \in 1..n + m PROVE PaidIn(store'[k], i, tx)
  <2>1. CASE k <= n
    <3>1. k \in 1..n
      BY <1>4, <1>7, <2>1
    <3> QED  BY <1>2, <1>4, <2>1, <3>1
  <2>2. CASE ~ (k <= n)
    <3>1. k - n \in 1..m
      BY <1>4, <1>7, <2>2
    <3> QED  BY <1>4, <1>6, <2>2, <3>1
  <2> QED  BY <2>1, <2>2
<1> QED  BY <1>5, <1>7 DEF Known, PaidIn

LEMMA VersionsLeft ==
  ASSUME IInv, \A k \in DOMAIN store' : \E j \in DOMAIN store : store'[k] = store[j]
  PROVE  SettledKept
BY DEF SettledKept, Known
(* The writes of a command *)
Shaped(t) == t = [invoices |-> t.invoices, subscriptions |-> t.subscriptions,
                  customers |-> t.customers]

LEMMA OtherPuts ==
  ASSUME NEW t, Shaped(t), NEW e, NEW x
  PROVE  /\ Shaped(PutCustomer(t, e, x)) /\ PutCustomer(t, e, x).invoices = t.invoices
         /\ Shaped(PutSubscription(t, e, x)) /\ PutSubscription(t, e, x).invoices = t.invoices
BY DEF Shaped, PutCustomer, PutSubscription

LEMMA OthersRemember ==
  ASSUME IInv, NEW t, Shaped(t), Remembers(t), NEW e, NEW x
  PROVE  Remembers(PutCustomer(t, e, x)) /\ Remembers(PutSubscription(t, e, x))
BY OtherPuts DEF Remembers, PaidIn

LEMMA DbRemembers ==
  ASSUME IInv
  PROVE  Shaped(db) /\ Remembers(db)
BY LastVersion, TreesFields DEF Shaped, Remembers

LEMMA InvoiceRemembers ==
  ASSUME IInv, NEW j \in InvoiceIds, NEW e,
         Settled(db.invoices[j]) =>
             Settled(e.invoices[j]) /\ e.invoices[j].carrier_tx = db.invoices[j].carrier_tx
  PROVE  Remembers(PutInvoice(db, e, j)) /\ Shaped(PutInvoice(db, e, j))
<1> DEFINE t == PutInvoice(db, e, j)
<1>1. db \in Trees
  BY LastVersion
<1>2. Shaped(t) /\ t.invoices = [db.invoices EXCEPT ![j] = e.invoices[j]]
  BY <1>1, TreesFields DEF PutInvoice, Shaped
<1>3. t.invoices[j] = e.invoices[j] /\ \A i \in InvoiceIds : i # j => t.invoices[i] = db.invoices[i]
  <2> HIDE DEF t
  <2> QED  BY <1>1, <1>2, TreesFields
<1> HIDE DEF t
<1>4. Remembers(t)
  BY <1>3 DEF Remembers, PaidIn
<1> QED  BY <1>2, <1>4 DEF t

LEMMA OneKept ==
  ASSUME IInv, NEW a, Remembers(a), store' = store \o <<a>>
  PROVE  SettledKept
<1> DEFINE P == {a}
           puts == <<a>>
<1>1. puts \in Seq(P) /\ store' = store \o puts /\ \A t \in P : Remembers(t)
  BY OnePut
<1> HIDE DEF P, puts
<1> QED  BY <1>1, VersionsKept

LEMMA TwoKept ==
  ASSUME IInv, NEW a, NEW b, Remembers(a), Remembers(b), store' = store \o <<a, b>>
  PROVE  SettledKept
<1> DEFINE P == {a, b}
           puts == <<a, b>>
<1>1. puts \in Seq(P) /\ store' = store \o puts /\ \A t \in P : Remembers(t)
  BY TwoPuts
<1> HIDE DEF P, puts
<1> QED  BY <1>1, VersionsKept

LEMMA InvoiceKept ==
  ASSUME IInv, NEW i \in InvoiceIds,
         \/ \E amount \in Amounts, auth \in PubKeys \cup {None} : CreateInvoice(i, amount, auth)
         \/ \E payer \in PubKeys, auth \in PubKeys \cup {None}, tx \in TxIds :
               MarkPaid(i, payer, auth, tx)
         \/ AckReceipt(i) \/ CancelInvoice(i)
  PROVE  SettledKept
<1>6. Ready
  <2>1. ASSUME NEW amount, NEW auth, CreateInvoice(i, amount, auth) PROVE Serving \/ Demo
    BY <2>1 DEF CreateInvoice
  <2>2. ASSUME NEW payer, NEW auth, NEW tx, MarkPaid(i, payer, auth, tx) PROVE Serving
    BY <2>2 DEF MarkPaid
  <2>3. AckReceipt(i) \/ CancelInvoice(i) => Serving \/ Demo
    BY DEF AckReceipt, CancelInvoice
  <2>4. Serving \/ Demo
    BY <2>1, <2>2, <2>3
  <2> QED  BY <2>4 DEF Serving, Demo
<1>1. Ready /\ db.invoices[i] = episode.invoices[i] /\ episode \in Episodes
  BY <1>6, EpisodeSound DEF Ready
<1>2. ASSUME NEW amount \in Amounts, NEW auth, CreateInvoice(i, amount, auth)
      PROVE  SettledKept
  <2> DEFINE e == [episode EXCEPT !.invoices[i] =
                      [amount |-> amount, status |-> "Open", payer |-> None,
                       carrier_tx |-> None, last_update |-> now]]
  <2>1. episode.invoices[i] = None /\ store' = store \o <<PutInvoice(db, e, i)>>
    BY <1>2 DEF CreateInvoice, Executed, inv
  <2> HIDE DEF e
  <2>2. ~ Settled(db.invoices[i])
    BY <1>1, <2>1 DEF Settled
  <2> QED  BY <2>1, <2>2, InvoiceRemembers, OneKept
<1>3. ASSUME NEW c \in PubKeys, NEW auth, NEW tx \in TxIds, MarkPaid(i, c, auth, tx)
      PROVE  SettledKept
  <2> DEFINE e == [episode EXCEPT
                      !.invoices[i] = [inv(i) EXCEPT !.status = "Paid", !.payer = c,
                                                   !.carrier_tx = tx, !.last_update = now],
                      !.used_carrier_txs = @ \cup {tx},
                      !.customers[c].invoices = IF Contains(@, i) THEN @ ELSE Append(@, i)]
             a == PutInvoice(db, e, i)
  <2>1. /\ episode.invoices[i] # None /\ episode.invoices[i].status = "Open"
        /\ store' = store \o <<a, PutCustomer(a, e, c)>>
    BY <1>3 DEF MarkPaid, Executed, inv
  <2> HIDE DEF e
  <2>2. ~ Settled(db.invoices[i])
    BY <1>1, <2>1 DEF Settled
  <2>3. Remembers(a) /\ Shaped(a)
    BY <2>2, InvoiceRemembers
  <2> HIDE DEF a
  <2>4. Remembers(PutCustomer(a, e, c))
    BY <2>3, OthersRemember
  <2> QED  BY <2>1, <2>3, <2>4, TwoKept
<1>4. ASSUME AckReceipt(i) PROVE SettledKept
  <2> DEFINE e == [episode EXCEPT !.invoices[i].status = "Acked", !.invoices[i].last_update = now]
             y == episode.invoices[i]
  <2>1. y # None /\ store' = store \o <<PutInvoice(db, e, i)>>
    BY <1>4 DEF AckReceipt, Executed, inv
  <2>2. e.invoices[i] = Stamped(y, "Acked", now) /\ y \in Invoices /\ now \in Nat
    <3>2. y \in Invoices
      BY <1>1, <2>1, EpisodeFields
    <3>1. e.invoices = [episode.invoices EXCEPT ![i] = Stamped(y, "Acked", now)] /\ now \in Nat
      BY <1>1, <3>2 DEF Episodes, Stamped, Invoices, IInv, TypeOK
    <3> HIDE DEF e
    <3> QED  BY <1>1, <2>1, <3>1, EpisodeFields
  <2> HIDE DEF e, y
  <2>3. Settled(e.invoices[i]) /\ e.invoices[i].carrier_tx = y.carrier_tx
    <3>1. Restates(Stamped(y, "Acked", now), y, "Acked")
      BY <2>2, Restated
    <3>2. Restates(e.invoices[i], y, "Acked")
      BY <2>2, <3>1
    <3> QED  BY <3>2 DEF Restates
  <2>4. db.invoices[i] = y
    BY <1>1 DEF y
  <2> QED  BY <2>1, <2>3, <2>4, InvoiceRemembers, OneKept
<1>5. ASSUME CancelInvoice(i) PROVE SettledKept
  <2> DEFINE e == [episode EXCEPT !.invoices[i].status = "Canceled", !.invoices[i].last_update = now]
  <2>1. /\ episode.invoices[i] # None /\ episode.invoices[i].status = "Open"
        /\ store' = store \o <<PutInvoice(db, e, i)>>
    BY <1>5 DEF CancelInvoice, Executed, inv
  <2> HIDE DEF e
  <2>2. ~ Settled(db.invoices[i])
    BY <1>1, <2>1 DEF Settled
  <2> QED  BY <2>1, <2>2, InvoiceRemembers, OneKept
<1> QED  BY <1>2, <1>3, <1>4, <1>5
LEMMA SubscriptionKept ==
  ASSUME IInv, NEW s,
         \/ \E c, amount, auth : CreateSubscription(s, c, amount, auth)
         \/ \E time : Process(s, time)
         \/ CancelSubscription(s)
  PROVE  SettledKept
<1>1. ASSUME NEW c, NEW amount, NEW auth, CreateSubscription(s, c, amount, auth)
      PROVE  SettledKept
  <2> DEFINE e == [episode EXCEPT
                      !.subscriptions[s] = [customer |-> c, amount |-> amount,
                                            next_run |-> now + interval],
                      !.customers[c].subscriptions = Append(@, s)]
             a == PutCustomer(db, e, c)
             b == PutSubscription(a, e, s)
  <2>1. store' = store \o <<a, b>>
    BY <1>1 DEF CreateSubscription, Executed
  <2> HIDE DEF e
  <2>2. Remembers(a) /\ Shaped(a)
    BY DbRemembers, OthersRemember, OtherPuts
  <2> HIDE DEF a
  <2>3. Remembers(b)
    BY <2>2, OthersRemember
  <2> HIDE DEF b
  <2> QED  BY <2>1, <2>2, <2>3, TwoKept
<1>2. ASSUME NEW time, Process(s, time) PROVE SettledKept
  <2> DEFINE e == [episode EXCEPT !.subscriptions[s].next_run = time + interval]
             a == PutSubscription(db, e, s)
  <2>1. store' = store \o <<a>>
    BY <1>2 DEF Process, Executed
  <2> HIDE DEF e
  <2>2. Remembers(a)
    BY DbRemembers, OthersRemember
  <2> HIDE DEF a
  <2> QED  BY <2>1, <2>2, OneKept
<1>3. ASSUME CancelSubscription(s) PROVE SettledKept
  <2> DEFINE c == sub(s).customer
             known == info(c) # None
             e == [episode EXCEPT
                      !.subscriptions[s] = None,
                      !.customers[c] = IF known
                          THEN [info(c) EXCEPT !.subscriptions = Keep(@, SubscriptionIds \ {s})]
                          ELSE None]
             a == PutCustomer(db, e, c)
             b == PutSubscription(a, e, s)
             listed == IF known THEN <<a>> ELSE <<>>
  <2>1. store' = store \o (listed \o <<b>>)
    BY <1>3 DEF CancelSubscription, Executed
  <2> HIDE DEF e
  <2>2. Remembers(a) /\ Shaped(a)
    BY DbRemembers, OthersRemember, OtherPuts
  <2> HIDE DEF a
  <2>3. Remembers(b)
    BY <2>2, OthersRemember
  <2> HIDE DEF b
  <2> DEFINE P == {a, b}
             q == <<b>>
  <2>4. listed \in Seq(P) /\ q \in Seq(P) /\ \A t \in P : Remembers(t)
    <3>1. <<a>> \in Seq(P) /\ q \in Seq(P) /\ <<>> \in Seq(P)
      BY OnePut, EmptySeq
    <3> QED  BY <2>2, <2>3, <3>1
  <2> HIDE DEF P, q, listed
  <2>5. listed \o q \in Seq(P)
    BY <2>4, ConcatProperties
  <2> QED  BY <2>1, <2>4, <2>5, VersionsKept DEF q
<1> QED  BY <1>1, <1>2, <1>3

LEMMA StepKept ==
  ASSUME IInv, [Next]_vars, ~ Undo
  PROVE  SettledKept
<1>1. ASSUME store' = store PROVE SettledKept
  BY <1>1 DEF SettledKept
<1>2. ASSUME NEW c \in PubKeys, RegisterCustomer(c) PROVE SettledKept
  <2> DEFINE r == [invoices |-> <<>>, subscriptions |-> <<>>]
             t == [db EXCEPT !.customers[c] = r]
  <2>1. store' = <<t>>
    BY <1>2 DEF RegisterCustomer
  <2>2. t.invoices = db.invoices
    BY LastVersion DEF Trees
  <2> HIDE DEF t
  <2>3. SUFFICES ASSUME NEW i \in InvoiceIds, NEW tx \in TxIds, Known(store, i, tx)
                 PROVE  Known(store', i, tx)
    BY DEF SettledKept
  <2>4. Settled(db.invoices[i]) /\ db.invoices[i].carrier_tx = tx
    BY <2>3, LastVersion DEF Known
  <2>5. \A k \in DOMAIN store' : store'[k] = t
    BY <2>1
  <2> QED  BY <2>2, <2>4, <2>5 DEF Known
<1>3. ASSUME Stop PROVE SettledKept
  <2>1. PICK k \in DOMAIN store : store' = <<store[k]>>
    BY <1>3 DEF Stop
  <2>2. \A j \in DOMAIN store' : store'[j] = store[k]
    BY <2>1
  <2> QED  BY <2>2, VersionsLeft
<1>4. ASSUME OnCommand PROVE SettledKept
  <2>1. store' = <<db>>
    BY <1>4 DEF OnCommand
  <2>2. \A j \in DOMAIN store' : store'[j] = store[Len(store)]
    BY <2>1, LastVersion
  <2> QED  BY <2>2, LastVersion, VersionsLeft
<1>5. ASSUME BackgroundFlush PROVE SettledKept
  <2> DEFINE n == Len(store)
  <2>1. PICK k \in 2..n : store' = SubSeq(store, k, n)
    BY <1>5 DEF BackgroundFlush
  <2>2. store \in Seq(SoundTrees) /\ DOMAIN store = 1..n /\ n \in Nat
    BY LastVersion
  <2> HIDE DEF n
  <2>3. k \in Int /\ n \in Int /\ k <= n /\ \A i \in k..n : i \in 1..n
    BY <2>1, <2>2
  <2>4. \A i \in k..n : store[i] \in SoundTrees
    BY <2>2, <2>3, ElementOfSeq DEF n
  <2>5. /\ store' \in Seq(SoundTrees) /\ Len(store') = n - k + 1
        /\ \A i \in 1..(n - k + 1) : store'[i] = store[k + i - 1]
    BY <2>1, <2>2, <2>3, <2>4, SubSeqProperties DEF n
  <2>6. DOMAIN store' = 1..n - k + 1
    BY <2>5, LenProperties
  <2>7. ASSUME NEW i \in 1..n - k + 1 PROVE k + i - 1 \in 1..n
    BY <2>1, <2>2, <2>7
  <2> QED  BY <2>2, <2>5, <2>6, <2>7, VersionsLeft
<1>6. CASE Environment
  BY <1>1, <1>2, <1>3, <1>5, <1>6 DEF Environment, Start, ChainDrops, RemoveEpisode, Tick
<1>7. CASE Client
  <2>1. CASE \E i \in InvoiceIds :
                \/ \E amount \in Amounts, auth \in PubKeys \cup {None} : CreateInvoice(i, amount, auth)
                \/ \E payer \in PubKeys, auth \in PubKeys \cup {None}, tx \in TxIds :
                      MarkPaid(i, payer, auth, tx)
                \/ AckReceipt(i) \/ CancelInvoice(i)
    BY <2>1, InvoiceKept
  <2>2. CASE \E s \in SubscriptionIds :
                \/ \E c \in PubKeys, amount \in Amounts, auth \in PubKeys \cup {None} :
                      CreateSubscription(s, c, amount, auth)
                \/ ProcessSubscription(s) \/ CancelSubscription(s)
    BY <2>2, SubscriptionKept DEF ProcessSubscription
  <2> QED  BY <1>7, <2>1, <2>2 DEF Client
<1>8. CASE ScheduledProcess
  BY <1>8, SubscriptionKept DEF ScheduledProcess
<1>9. CASE Initialize \/ Scan \/ Request \/ OneShot \/ Drop \/ UNCHANGED vars
  <2>1. store' = store
    BY <1>9 DEF Initialize, Scan, Request, OneShot, Drop, vars
  <2> QED  BY <1>1, <2>1
<1> QED  BY <1>4, <1>6, <1>7, <1>8, <1>9 DEF Next

(* A payment that every version of the trees knows survives every command, *)
(* stop and restart: only a rollback takes it back.                        *)
THEOREM Settlements == Spec => SettledStays
<1>1. IInv /\ [Next]_vars =>
        [~ Undo => \A i \in InvoiceIds, tx \in TxIds :
                       Known(store, i, tx) => Known(store', i, tx)]_vars
  BY StepKept DEF SettledKept
<1> QED  BY <1>1, Inductive, PTL DEF Spec, SettledStays
=============================================================================
