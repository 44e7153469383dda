--------------------------- MODULE ProgramsProofs ---------------------------
(***************************************************************************)
(* The checkpoints, the MCP server and the daemon of kaspa-auth, proved    *)
(* for any requests, connections and troubles, and any number of them.     *)
(* Those of comment-it are in CommentItProofs.                             *)
(***************************************************************************)
EXTENDS Programs, FilterLemmas

-----------------------------------------------------------------------------
(* The checkpoints *)

Indexes == 1 .. Len(checkpoints)
Submissions == [of : Nat, coin : Nat \cup {None}, taken : BOOLEAN, tries : Nat]

AnchorType ==
    /\ states \in Seq(Nat) /\ numbered \in Nat /\ seq \in Nat /\ life \in Nat
    /\ checkpoints \in Seq([life : Nat, seq : Nat, root : Nat])
    /\ sending \in Nat /\ (sending > 0 => checkpoints # <<>>)
    /\ net \in Seq(Indexes) /\ missed \in Seq(Indexes) /\ anchors \in Seq(Indexes)
    /\ held \in Submissions \cup {None} /\ (held # None => held.of \in Indexes)
    /\ coin \in Nat /\ pending \in Indexes \cup {0, None}

(* The node takes what the watcher tries again, once it has it, no more:   *)
(* its output is spent, or about to be.                                    *)
SpentOnce ==
    held # None =>
        /\ held.coin # None => held.coin <= coin
        /\ held.taken => held.coin # None /\ (held.coin = coin => pending # None)

(* Checkpoints go through the socket, the watcher's hands and the node to  *)
(* the chain, none overtakes another.                                      *)
InLine ==
    /\ \A i, j \in 1 .. Len(anchors) : i < j => anchors[i] <= anchors[j]
    /\ \A i, j \in 1 .. Len(net) : i < j => net[i] <= net[j]
    /\ \A i \in 1 .. Len(anchors), j \in 1 .. Len(net) : anchors[i] <= net[j]
    /\ pending \notin {0, None} =>
          /\ \A i \in 1 .. Len(anchors) : anchors[i] <= pending
          /\ \A i \in 1 .. Len(net) : pending <= net[i]
    /\ held # None =>
          /\ \A i \in 1 .. Len(anchors) : anchors[i] <= held.of
          /\ \A i \in 1 .. Len(net) : held.of <= net[i]
          /\ pending \notin {0, None} => pending <= held.of

(* A life of the episode numbers its checkpoints upwards *)
Before(a, b) == a.life < b.life \/ (a.life = b.life /\ a.seq < b.seq)

Chronological ==
    /\ \A i, j \in Indexes : i < j => Before(checkpoints[i], checkpoints[j])
    /\ \A i \in Indexes :
          /\ checkpoints[i].life <= life
          /\ states # <<>> /\ checkpoints[i].life = life => checkpoints[i].seq <= seq

AnchorInv ==
    AnchorType /\ SpentOnce /\ InLine /\ Chronological /\ Anchor!CopiesCounted

(* How often a sequence has a value *)
LEMMA CountIsKeep == ASSUME NEW s, NEW n PROVE Anchor!Count(s, n) = Len(Keep(s, {n}))
  BY DEF Anchor!Count, Anchor!Keep, Keep, Anchor!Sifted, Sifted

One(x, n) == IF x = n THEN 1 ELSE 0

LEMMA Counts ==
  ASSUME NEW S, NEW s \in Seq(S), NEW n
  PROVE  /\ Anchor!Count(s, n) \in Nat
         /\ \A x \in S : Anchor!Count(Append(s, x), n) = Anchor!Count(s, n) + One(x, n)
         /\ \A r \in Seq(S) : Anchor!Count(s \o r, n) = Anchor!Count(s, n) + Anchor!Count(r, n)
         /\ n \notin S => Anchor!Count(s, n) = 0
<1>1. Anchor!Count(s, n) \in Nat
  BY KeepSeq, CountIsKeep
<1>2. ASSUME NEW x \in S PROVE Anchor!Count(Append(s, x), n) = Anchor!Count(s, n) + One(x, n)
  <2>1. Keep(s, {n}) \in Seq(S)
    BY KeepSeq
  <2>2. x = n => Keep(Append(s, x), {n}) = Append(Keep(s, {n}), x)
    BY KeepAppend
  <2>3. x # n => Keep(Append(s, x), {n}) = Keep(s, {n})
    BY KeepAppend
  <2>4. Len(Append(Keep(s, {n}), x)) = Len(Keep(s, {n})) + 1
    BY <2>1, AppendProperties
  <2>5. /\ Anchor!Count(Append(s, x), n) = Len(Keep(Append(s, x), {n}))
        /\ Anchor!Count(s, n) = Len(Keep(s, {n}))
    BY CountIsKeep
  <2>6. CASE x = n
    BY <2>2, <2>4, <2>5, <2>6 DEF One
  <2>7. CASE x # n
    BY <2>3, <2>5, <2>7, <1>1 DEF One
  <2> QED  BY <2>6, <2>7
<1>3. ASSUME NEW r \in Seq(S)
      PROVE  Anchor!Count(s \o r, n) = Anchor!Count(s, n) + Anchor!Count(r, n)
  <2>1. Keep(s, {n}) \in Seq(S) /\ Keep(r, {n}) \in Seq(S)
    BY KeepSeq
  <2>2. Keep(s \o r, {n}) = Keep(s, {n}) \o Keep(r, {n})
    BY KeepConcat
  <2>3. Len(Keep(s, {n}) \o Keep(r, {n})) = Len(Keep(s, {n})) + Len(Keep(r, {n}))
    BY <2>1, ConcatProperties
  <2> QED  BY <2>2, <2>3, CountIsKeep
<1>4. ASSUME n \notin S PROVE Anchor!Count(s, n) = 0
  <2>1. \A i \in 1 .. Len(s) : s[i] \notin {n}
    BY <1>4, ElementOfSeq
  <2>2. Keep(s, {n}) = <<>>
    BY <2>1, KeepNone
  <2> QED  BY <2>2, CountIsKeep
<1> QED  BY <1>1, <1>2, <1>3, <1>4

LEMMA CountFew ==
  /\ \A n : Anchor!Count(<<>>, n) = 0
  /\ \A x, n : Anchor!Count(<<x>>, n) = One(x, n)
<1>1. ASSUME NEW n PROVE Anchor!Count(<<>>, n) = 0
  <2>1. Keep(<<>>, {n}) = <<>>
    BY KeepEmpty
  <2>2. Anchor!Count(<<>>, n) = Len(Keep(<<>>, {n}))
    BY CountIsKeep
  <2> QED  BY <2>1, <2>2
<1>2. ASSUME NEW x, NEW n PROVE Anchor!Count(<<x>>, n) = One(x, n)
  <2>1. <<>> \in Seq({x}) /\ <<x>> = Append(<<>>, x)
    OBVIOUS
  <2>2. Anchor!Count(Append(<<>>, x), n) = Anchor!Count(<<>>, n) + One(x, n)
    <3>1. ASSUME NEW t \in Seq({x}), NEW y \in {x}
          PROVE  Anchor!Count(Append(t, y), n) = Anchor!Count(t, n) + One(y, n)
      BY Counts
    <3> QED  BY <2>1, <3>1
  <2> QED  BY <2>1, <2>2, <1>1 DEF One
<1> QED  BY <1>1, <1>2

LEMMA CountHead ==
  ASSUME NEW S, NEW s \in Seq(S), s # <<>>, NEW n
  PROVE  Anchor!Count(s, n) = One(Head(s), n) + Anchor!Count(Tail(s), n)
<1>1. s = <<s[1]>> \o Tail(s) /\ s[1] \in S /\ Head(s) = s[1] /\ Tail(s) \in Seq(S)
  BY HeadAndTail
<1>2. <<s[1]>> \in Seq(S)
  BY <1>1
<1>3. Anchor!Count(<<s[1]>> \o Tail(s), n) = Anchor!Count(<<s[1]>>, n) + Anchor!Count(Tail(s), n)
  <2>1. ASSUME NEW t \in Seq(S), NEW r \in Seq(S)
        PROVE  Anchor!Count(t \o r, n) = Anchor!Count(t, n) + Anchor!Count(r, n)
    BY Counts
  <2> QED  BY <2>1, <1>1, <1>2
<1> QED  BY <1>1, <1>3, CountFew

LEMMA CountSame ==
  ASSUME NEW S, NEW s \in Seq(S), NEW x, \A i \in 1 .. Len(s) : s[i] = x, NEW n
  PROVE  Anchor!Count(s, n) = IF x = n THEN Len(s) ELSE 0
<1>1. CASE x = n
  <2>1. Keep(s, {n}) = s
    BY <1>1, KeepAll
  <2> QED  BY <1>1, <2>1, CountIsKeep
<1>2. CASE x # n
  <2>1. Keep(s, {n}) = <<>>
    BY <1>2, KeepNone
  <2> QED  BY <1>2, <2>1, CountIsKeep
<1> QED  BY <1>1, <1>2

-----------------------------------------------------------------------------
HeldCount(n) == IF held # None /\ ~ held.taken THEN Anchor!Count(<<held.of>>, n) ELSE 0
Waits(n) == IF n = Len(checkpoints) THEN sending ELSE 0

CountedAt(n) ==
    Copies = Anchor!Count(anchors, n) + Anchor!Count(net, n) + Anchor!Count(missed, n)
             + Anchor!Count(<<pending>>, n) + Waits(n) + HeldCount(n)

LEMMA CountedEach ==
  ASSUME AnchorType
  PROVE  /\ Len(checkpoints) \in Nat /\ DOMAIN checkpoints = Indexes
         /\ Anchor!CopiesCounted <=> \A n \in Indexes : CountedAt(n)
         /\ \A n : /\ Anchor!Count(anchors, n) \in Nat /\ Anchor!Count(net, n) \in Nat
                   /\ Anchor!Count(missed, n) \in Nat /\ Anchor!Count(<<pending>>, n) \in Nat
                   /\ Waits(n) \in Nat /\ HeldCount(n) \in Nat
<1>1. Len(checkpoints) \in Nat /\ DOMAIN checkpoints = Indexes
  BY DEF AnchorType, Indexes
<1>2. Anchor!CopiesCounted <=> \A n \in Indexes : CountedAt(n)
  BY <1>1 DEF Anchor!CopiesCounted, CountedAt, Waits, HeldCount
<1>3. ASSUME NEW n
      PROVE  /\ Anchor!Count(anchors, n) \in Nat /\ Anchor!Count(net, n) \in Nat
             /\ Anchor!Count(missed, n) \in Nat /\ Anchor!Count(<<pending>>, n) \in Nat
             /\ Waits(n) \in Nat /\ HeldCount(n) \in Nat
  <2>1. anchors \in Seq(Indexes) /\ net \in Seq(Indexes) /\ missed \in Seq(Indexes)
        /\ sending \in Nat
    BY DEF AnchorType
  <2>2. Anchor!Count(anchors, n) \in Nat /\ Anchor!Count(net, n) \in Nat
        /\ Anchor!Count(missed, n) \in Nat
    BY <2>1, Counts
  <2> QED  BY <2>1, <2>2, CountFew DEF Waits, HeldCount, One
<1> QED  BY <1>1, <1>2, <1>3

LEMMA CountedLater ==
  ASSUME DOMAIN checkpoints' = Indexes', \A n \in Indexes' : CountedAt(n)'
  PROVE  Anchor!CopiesCounted'
  BY DEF Anchor!CopiesCounted, CountedAt, Waits, HeldCount

(* A checkpoint is sent: all of its copies are still to go *)
LEMMA EmitInv ==
  ASSUME AnchorInv, NEW n \in Nat, NEW number \in Nat, sending = 0,
         \/ n = life + 1
         \/ n = life /\ number = seq + 1 /\ states # <<>>,
         states' \in Seq(Nat), numbered' \in Nat, life' = n, numbered' = numbered + 1,
         Anchor!emit_checkpoint(n, number, numbered'),
         UNCHANGED <<net, held, missed, coin, pending, anchors>>
  PROVE  AnchorInv'
<1> DEFINE c == [life |-> n, seq |-> number, root |-> numbered']
           N == Len(checkpoints)
<1>1. AnchorType /\ Copies \in Nat /\ None \notin Nat
  BY AnchorAssumption DEF AnchorInv
<1>2. /\ checkpoints' = Append(checkpoints, c) /\ seq' = number /\ sending' = Copies
      /\ c \in [life : Nat, seq : Nat, root : Nat]
      /\ checkpoints \in Seq([life : Nat, seq : Nat, root : Nat])
  BY <1>1 DEF Anchor!emit_checkpoint, AnchorType
<1>3. /\ N \in Nat /\ Len(checkpoints') = N + 1 /\ checkpoints' \in Seq([life : Nat, seq : Nat, root : Nat])
      /\ \A i \in 1 .. N : checkpoints'[i] = checkpoints[i]
      /\ checkpoints'[N + 1] = c /\ checkpoints' # <<>>
  BY <1>2, AppendProperties
<1> HIDE DEF c
<1>4. Indexes = 1 .. N /\ Indexes' = 1 .. N + 1 /\ Indexes \subseteq Indexes'
  BY <1>3 DEF Indexes
<1>5. AnchorType'
  <2>1. net' \in Seq(Indexes') /\ missed' \in Seq(Indexes') /\ anchors' \in Seq(Indexes')
    <3>1. net \in Seq(Indexes) /\ missed \in Seq(Indexes) /\ anchors \in Seq(Indexes)
      BY <1>1 DEF AnchorType
    <3>2. net \in Seq(Indexes') /\ missed \in Seq(Indexes') /\ anchors \in Seq(Indexes')
      BY <1>4, <3>1, SeqGrows
    <3> QED  BY <3>2
  <2> QED  BY <1>1, <1>2, <1>3, <1>4, <2>1 DEF AnchorType, Submissions
<1>6. SpentOnce'
  BY DEF AnchorInv, SpentOnce
<1>7. InLine'
  BY DEF AnchorInv, InLine
<1>8. Chronological'
  <2>1. /\ \A i, j \in Indexes : i < j => Before(checkpoints[i], checkpoints[j])
        /\ \A i \in Indexes :
              /\ checkpoints[i].life <= life
              /\ states # <<>> /\ checkpoints[i].life = life => checkpoints[i].seq <= seq
    BY DEF AnchorInv, Chronological
  <2>2. life \in Nat /\ seq \in Nat /\ c.life = n /\ c.seq = number
    BY <1>1 DEF AnchorType, c
  <2>3. \A i \in Indexes : checkpoints[i].life \in Nat /\ checkpoints[i].seq \in Nat
    <3>1. \A i \in Indexes : checkpoints[i] \in [life : Nat, seq : Nat, root : Nat]
      BY <1>2, <1>4, ElementOfSeq
    <3> QED  BY <3>1
  <2>4. \A i \in Indexes : Before(checkpoints[i], c)
    BY <2>1, <2>2, <2>3, SMTT(20) DEF Before
  <2>5. ASSUME NEW i \in Indexes', NEW j \in Indexes', i < j
        PROVE  Before(checkpoints'[i], checkpoints'[j])
    <3>1. i \in Indexes
      BY <2>5, <1>3, <1>4
    <3>2. CASE j \in Indexes
      BY <2>1, <2>5, <3>1, <3>2, <1>3, <1>4
    <3>3. CASE j = N + 1
      BY <2>4, <3>1, <3>3, <1>3, <1>4
    <3> QED  BY <3>2, <3>3, <1>3, <1>4
  <2>6. ASSUME NEW i \in Indexes'
        PROVE  /\ checkpoints'[i].life <= n
               /\ checkpoints'[i].life = n => checkpoints'[i].seq <= number
    <3>1. CASE i \in Indexes
      <4>1. checkpoints'[i] = checkpoints[i]
        BY <3>1, <1>3, <1>4
      <4>2. Before(checkpoints[i], c) /\ checkpoints[i].life \in Nat /\ checkpoints[i].seq \in Nat
        BY <2>3, <2>4, <3>1
      <4> QED  BY <2>2, <4>1, <4>2 DEF Before
    <3>2. CASE i = N + 1
      BY <2>2, <3>2, <1>3
    <3> QED  BY <3>1, <3>2, <1>3, <1>4
  <2> QED  BY <2>5, <2>6, <1>2 DEF Chronological
<1>9. Anchor!CopiesCounted'
  <2> SUFFICES ASSUME NEW k \in Indexes' PROVE CountedAt(k)'
    BY <1>3, <1>4, CountedLater
  <2>1. CASE k \in Indexes
    <3>1. CountedAt(k)
      BY <1>1, <2>1, CountedEach DEF AnchorInv
    <3>2. Waits(k) = 0 /\ Waits(k)' = 0
      BY <2>1, <1>3, <1>4 DEF Waits
    <3>3. HeldCount(k)' = HeldCount(k)
      BY DEF HeldCount
    <3> QED  BY <3>1, <3>2, <3>3 DEF CountedAt
  <2>2. CASE k = N + 1
    <3>1. k \notin Indexes
      BY <2>2, <1>3, <1>4
    <3>2. Anchor!Count(anchors, k) = 0 /\ Anchor!Count(net, k) = 0 /\ Anchor!Count(missed, k) = 0
      BY <1>1, <3>1, Counts DEF AnchorType
    <3>3. Anchor!Count(<<pending>>, k) = 0
      BY <1>1, <2>2, <1>3, <3>1, CountFew, SMTT(20) DEF AnchorType, One
    <3>4. HeldCount(k)' = 0
      BY <1>1, <3>1, CountFew DEF AnchorType, One, HeldCount
    <3>5. Waits(k)' = Copies
      BY <2>2, <1>2, <1>3 DEF Waits
    <3> QED  BY <1>1, <3>2, <3>3, <3>4, <3>5 DEF CountedAt
  <2> QED  BY <2>1, <2>2, <1>3, <1>4
<1> QED  BY <1>5, <1>6, <1>7, <1>8, <1>9 DEF AnchorInv

LEMMA CountAppend ==
  ASSUME NEW S, NEW s \in Seq(S), NEW x \in S, NEW n
  PROVE  Anchor!Count(Append(s, x), n) = Anchor!Count(s, n) + One(x, n)
  BY Counts

LEMMA CountConcat ==
  ASSUME NEW S, NEW s \in Seq(S), NEW r \in Seq(S), NEW n
  PROVE  Anchor!Count(s \o r, n) = Anchor!Count(s, n) + Anchor!Count(r, n)
  BY Counts

(* The parts of AnchorType that the steps below need, as facts of their own *)
LEMMA AnchorParts ==
  ASSUME AnchorInv
  PROVE  /\ Len(checkpoints) \in Nat /\ Indexes = 1 .. Len(checkpoints)
         /\ DOMAIN checkpoints = Indexes
         /\ net \in Seq(Indexes) /\ missed \in Seq(Indexes) /\ anchors \in Seq(Indexes)
         /\ sending \in Nat /\ coin \in Nat
         /\ pending \in Indexes \cup {0, None}
         /\ None \notin Nat /\ 0 \notin Indexes /\ None \notin Indexes
         /\ held # None => held \in Submissions /\ held.of \in Indexes
         /\ \A k \in Indexes : CountedAt(k)
         /\ \A k : /\ Anchor!Count(anchors, k) \in Nat /\ Anchor!Count(net, k) \in Nat
                   /\ Anchor!Count(missed, k) \in Nat /\ Anchor!Count(<<pending>>, k) \in Nat
                   /\ Waits(k) \in Nat /\ HeldCount(k) \in Nat
<1>1. AnchorType /\ Anchor!CopiesCounted
  BY DEF AnchorInv
<1>2. /\ Len(checkpoints) \in Nat /\ DOMAIN checkpoints = Indexes
      /\ \A k \in Indexes : CountedAt(k)
      /\ \A k : /\ Anchor!Count(anchors, k) \in Nat /\ Anchor!Count(net, k) \in Nat
                /\ Anchor!Count(missed, k) \in Nat /\ Anchor!Count(<<pending>>, k) \in Nat
                /\ Waits(k) \in Nat /\ HeldCount(k) \in Nat
  BY <1>1, CountedEach
<1>3. None \notin Nat /\ Indexes = 1 .. Len(checkpoints)
  BY AnchorAssumption DEF Indexes
<1>4. 0 \notin Indexes /\ None \notin Indexes
  BY <1>2, <1>3
<1>5. /\ net \in Seq(Indexes) /\ missed \in Seq(Indexes) /\ anchors \in Seq(Indexes)
      /\ sending \in Nat /\ coin \in Nat
      /\ pending \in Indexes \cup {0, None}
      /\ held # None => held \in Submissions /\ held.of \in Indexes
  BY <1>1 DEF AnchorType
<1> QED  BY <1>2, <1>3, <1>4, <1>5

LEMMA CalmInv ==
  ASSUME AnchorInv, Anchor!on_rollback \/ Anchor!Interval
  PROVE  AnchorInv'
<1>1. /\ states' \in Seq(Nat) /\ (states' # <<>> => states # <<>>)
      /\ UNCHANGED <<numbered, seq, life, checkpoints, sending, net, held, missed, coin,
                     pending, anchors>>
  <2>1. CASE Anchor!on_rollback
    <3>1. states \in Seq(Nat) /\ states # <<>> /\ states' = SubSeq(states, 1, Len(states) - 1)
      BY <2>1 DEF Anchor!on_rollback, AnchorInv, AnchorType
    <3>2. states' \in Seq(Nat)
      BY <3>1
    <3> QED  BY <2>1, <3>1, <3>2 DEF Anchor!on_rollback, Anchor!watcherVars, Anchor!nodeVars
  <2>2. CASE Anchor!Interval
    BY <2>2 DEF Anchor!Interval, Anchor!watcherVars, Anchor!nodeVars, AnchorInv, AnchorType
  <2> QED  BY <2>1, <2>2
<1>2. AnchorType'
  BY <1>1 DEF AnchorInv, AnchorType, Indexes
<1>3. SpentOnce' /\ InLine'
  BY <1>1 DEF AnchorInv, SpentOnce, InLine
<1>4. Chronological'
  BY <1>1 DEF AnchorInv, Chronological, Indexes
<1>5. Anchor!CopiesCounted'
  BY <1>1 DEF AnchorInv, Anchor!CopiesCounted
<1> QED  BY <1>2, <1>3, <1>4, <1>5 DEF AnchorInv

LEMMA SendInv ==
  ASSUME AnchorInv, Anchor!send_with_retry
  PROVE  AnchorInv'
<1> DEFINE N == Len(checkpoints)
<1>1. /\ sending > 0 /\ sending' = sending - 1 /\ N \in Indexes
      /\ UNCHANGED <<states, numbered, seq, life, checkpoints, held, coin, pending, anchors>>
      /\ \/ net' = Append(net, N) /\ missed' = missed
         \/ missed' = Append(missed, N) /\ net' = net
  BY DEF Anchor!send_with_retry, Anchor!Waiting, Anchor!nodeVars, AnchorInv, AnchorType, Indexes
<1>2. Indexes' = Indexes
  BY <1>1 DEF Indexes
<1>3. AnchorType'
  <2>1. net' \in Seq(Indexes) /\ missed' \in Seq(Indexes)
    <3>1. net \in Seq(Indexes) /\ missed \in Seq(Indexes)
      BY AnchorParts
    <3>2. Append(net, N) \in Seq(Indexes) /\ Append(missed, N) \in Seq(Indexes)
      BY <1>1, <3>1, AppendProperties
    <3> QED  BY <1>1, <3>1, <3>2
  <2> QED  BY <1>1, <1>2, <2>1 DEF AnchorInv, AnchorType
<1>4. SpentOnce'
  BY <1>1 DEF AnchorInv, SpentOnce
<1>5. InLine'
  <2>1. CASE net' = net
    BY <1>1, <2>1 DEF AnchorInv, InLine
  <2>2. CASE net' = Append(net, N)
    <3>1. /\ Len(net) \in Nat /\ Len(net') = Len(net) + 1 /\ net'[Len(net) + 1] = N
          /\ \A i \in 1 .. Len(net) : net'[i] = net[i]
      BY <2>2, AnchorParts, AppendProperties
    <3>2. /\ \A i \in 1 .. Len(net) : net[i] <= N
          /\ \A i \in 1 .. Len(anchors) : anchors[i] <= N
          /\ pending \notin {0, None} => pending <= N
          /\ held # None => held.of <= N
      <4>1. /\ \A i \in 1 .. Len(net) : net[i] \in Indexes
            /\ \A i \in 1 .. Len(anchors) : anchors[i] \in Indexes
        BY AnchorParts, ElementOfSeq
      <4> QED  BY <4>1, AnchorParts
    <3>3. \A i, j \in 1 .. Len(net') : i < j => net'[i] <= net'[j]
      <4> SUFFICES ASSUME NEW i \in 1 .. Len(net'), NEW j \in 1 .. Len(net'), i < j
                   PROVE  net'[i] <= net'[j]
        OBVIOUS
      <4>1. i \in 1 .. Len(net)
        BY <3>1
      <4>2. CASE j \in 1 .. Len(net)
        BY <3>1, <4>1, <4>2 DEF AnchorInv, InLine
      <4>3. CASE j = Len(net) + 1
        BY <3>1, <3>2, <4>1, <4>3
      <4> QED  BY <3>1, <4>2, <4>3
    <3>4. \A y \in 1 .. Len(net') : net'[y] = N \/ \E z \in 1 .. Len(net) : net'[y] = net[z]
      BY <3>1
    <3> QED  BY <1>1, <3>2, <3>3, <3>4 DEF AnchorInv, InLine
  <2> QED  BY <1>1, <2>1, <2>2
<1>6. Chronological'
  BY <1>1, <1>2 DEF AnchorInv, Chronological
<1>7. Anchor!CopiesCounted'
  <2> SUFFICES ASSUME NEW k \in Indexes PROVE CountedAt(k)'
    BY <1>1, <1>2, AnchorParts, CountedLater
  <2>1. CountedAt(k) /\ HeldCount(k)' = HeldCount(k)
    BY <1>1, AnchorParts DEF HeldCount
  <2>2. Waits(k) = Waits(k)' + One(N, k)
    BY <1>1, AnchorParts DEF Waits, One
  <2>3. Anchor!Count(net, k)' + Anchor!Count(missed, k)'
        = Anchor!Count(net, k) + Anchor!Count(missed, k) + One(N, k)
    <3>1. /\ Anchor!Count(Append(net, N), k) = Anchor!Count(net, k) + One(N, k)
          /\ Anchor!Count(Append(missed, N), k) = Anchor!Count(missed, k) + One(N, k)
      BY <1>1, AnchorParts, CountAppend, ZenonT(40)
    <3>2. One(N, k) \in Nat
      BY DEF One
    <3>3. Anchor!Count(net, k) \in Nat /\ Anchor!Count(missed, k) \in Nat
      BY AnchorParts
    <3>4. CASE net' = Append(net, N) /\ missed' = missed
      BY <3>1, <3>2, <3>3, <3>4
    <3>5. CASE missed' = Append(missed, N) /\ net' = net
      BY <3>1, <3>2, <3>3, <3>5
    <3> QED  BY <1>1, <3>4, <3>5
  <2>4. Waits(k)' \in Nat /\ One(N, k) \in Nat /\ Anchor!Count(net, k)' \in Nat
        /\ Anchor!Count(missed, k)' \in Nat
    <3>1. net' \in Seq(Indexes) /\ missed' \in Seq(Indexes) /\ sending' \in Nat
      BY <1>2, <1>3 DEF AnchorType
    <3>2. Anchor!Count(net, k)' \in Nat /\ Anchor!Count(missed, k)' \in Nat
      BY <3>1, Counts
    <3> QED  BY <3>1, <3>2 DEF Waits, One
  <2>5. /\ Anchor!Count(anchors, k)' = Anchor!Count(anchors, k)
        /\ Anchor!Count(<<pending>>, k)' = Anchor!Count(<<pending>>, k)
    BY <1>1
  <2>6. /\ Anchor!Count(anchors, k) \in Nat /\ Anchor!Count(net, k) \in Nat
        /\ Anchor!Count(missed, k) \in Nat /\ Anchor!Count(<<pending>>, k) \in Nat
        /\ Waits(k) \in Nat /\ HeldCount(k) \in Nat
    BY AnchorParts
  <2>7. Copies = Anchor!Count(anchors, k) + Anchor!Count(net, k) + Anchor!Count(missed, k)
                 + Anchor!Count(<<pending>>, k) + Waits(k) + HeldCount(k)
    BY <2>1 DEF CountedAt
  <2>8. PICK a \in Nat, b \in Nat, m \in Nat, p \in Nat, w \in Nat, h \in Nat :
           /\ a = Anchor!Count(anchors, k) /\ b = Anchor!Count(net, k)
           /\ m = Anchor!Count(missed, k) /\ p = Anchor!Count(<<pending>>, k)
           /\ w = Waits(k) /\ h = HeldCount(k)
    BY <2>6
  <2>9. PICK b2 \in Nat, m2 \in Nat, w2 \in Nat, o \in Nat :
           /\ b2 = Anchor!Count(net, k)' /\ m2 = Anchor!Count(missed, k)'
           /\ w2 = Waits(k)' /\ o = One(N, k)
    BY <2>4
  <2>10. Copies = a + b2 + m2 + p + w2 + h
    <3>1. w = w2 + o
      BY <2>2, <2>8, <2>9
    <3>2. b2 + m2 = b + m + o
      BY <2>3, <2>8, <2>9
    <3>3. Copies = a + b + m + p + w + h
      BY <2>7, <2>8
    <3> QED  BY <3>1, <3>2, <3>3
  <2> QED  BY <2>1, <2>5, <2>8, <2>9, <2>10 DEF CountedAt
<1> QED  BY <1>3, <1>4, <1>5, <1>6, <1>7 DEF AnchorInv

(* The counts at hand and after a step, as numbers *)
LEMMA Numbers ==
  ASSUME AnchorInv, NEW k \in Indexes
  PROVE  \E a, b, m, p, w, h \in Nat :
            /\ a = Anchor!Count(anchors, k) /\ b = Anchor!Count(net, k)
            /\ m = Anchor!Count(missed, k) /\ p = Anchor!Count(<<pending>>, k)
            /\ w = Waits(k) /\ h = HeldCount(k)
            /\ Copies = a + b + m + p + w + h
<1>1. /\ Anchor!Count(anchors, k) \in Nat /\ Anchor!Count(net, k) \in Nat
      /\ Anchor!Count(missed, k) \in Nat /\ Anchor!Count(<<pending>>, k) \in Nat
      /\ Waits(k) \in Nat /\ HeldCount(k) \in Nat
  BY AnchorParts
<1>2. CountedAt(k)
  BY AnchorParts
<1> QED  BY <1>1, <1>2 DEF CountedAt

(* One: None of another, nor is there an index of nothing *)
LEMMA OneNat == /\ \A x, n : One(x, n) \in Nat
                /\ \A n \in Indexes : One(None, n) = 0 /\ One(0, n) = 0
  BY AnchorAssumption DEF One, Indexes

LEMMA RestartInv ==
  ASSUME AnchorInv, Anchor!Restart
  PROVE  AnchorInv'
<1> DEFINE N == Len(checkpoints)
           r == [i \in 1 .. sending |-> N]
<1>1. /\ states' = <<>> /\ seq' = 0 /\ sending' = 0 /\ missed' = missed \o r
      /\ UNCHANGED <<numbered, life, checkpoints, net, held, coin, pending, anchors>>
  BY DEF Anchor!Restart, Anchor!nodeVars
<1>2. Indexes' = Indexes
  BY <1>1 DEF Indexes
<1>3. /\ sending \in Nat /\ N \in Nat /\ missed \in Seq(Indexes)
      /\ sending > 0 => N \in Indexes
  BY DEF AnchorInv, AnchorType, Indexes
<1>4. r \in Seq(Indexes)
  <2>1. CASE sending > 0
    BY <1>3, <2>1
  <2>2. CASE sending = 0
    BY <2>2
  <2> QED  BY <1>3, <2>1, <2>2
<1>5. AnchorType'
  <2>1. missed' \in Seq(Indexes)
    BY <1>1, <1>3, <1>4, ConcatProperties
  <2> QED  BY <1>1, <1>2, <2>1 DEF AnchorInv, AnchorType
<1>6. SpentOnce' /\ InLine'
  BY <1>1 DEF AnchorInv, SpentOnce, InLine
<1>7. Chronological'
  BY <1>1, <1>2 DEF AnchorInv, Chronological
<1>8. Anchor!CopiesCounted'
  <2> SUFFICES ASSUME NEW k \in Indexes PROVE CountedAt(k)'
    BY <1>1, <1>2, AnchorParts, CountedLater
  <2>1. PICK a \in Nat, b \in Nat, m \in Nat, p \in Nat, w \in Nat, h \in Nat :
            /\ a = Anchor!Count(anchors, k) /\ b = Anchor!Count(net, k)
            /\ m = Anchor!Count(missed, k) /\ p = Anchor!Count(<<pending>>, k)
            /\ w = Waits(k) /\ h = HeldCount(k)
            /\ Copies = a + b + m + p + w + h
    BY Numbers
  <2>2. Waits(k)' = 0
    BY <1>1, <1>3 DEF Waits
  <2>3. Anchor!Count(missed, k)' = m + w
    <3>1. Anchor!Count(missed \o r, k) = Anchor!Count(missed, k) + Anchor!Count(r, k)
      BY <1>3, <1>4, CountConcat
    <3>2. Anchor!Count(r, k) = IF N = k THEN sending ELSE 0
      <4>1. Len(r) = sending /\ \A i \in 1 .. Len(r) : r[i] = N
        BY <1>3
      <4> HIDE DEF r
      <4> QED  BY <1>4, <4>1, CountSame
    <3>3. Anchor!Count(r, k) = w
      BY <2>1, <3>2 DEF Waits
    <3> QED  BY <1>1, <2>1, <3>1, <3>3
  <2>4. HeldCount(k)' = h /\ Anchor!Count(anchors, k)' = a /\ Anchor!Count(net, k)' = b
        /\ Anchor!Count(<<pending>>, k)' = p
    BY <1>1, <2>1 DEF HeldCount
  <2>5. Copies = a + b + (m + w) + p + 0 + h
    BY <2>1
  <2> QED  BY <2>2, <2>3, <2>4, <2>5 DEF CountedAt
<1> QED  BY <1>5, <1>6, <1>7, <1>8 DEF AnchorInv

LEMMA RunInv ==
  ASSUME AnchorInv, Anchor!run
  PROVE  AnchorInv'
<1> DEFINE d == Head(net)
           hold == [of |-> d, coin |-> None, taken |-> FALSE, tries |-> 0]
<1>1. /\ held = None /\ net # <<>> /\ held' = hold /\ net' = Tail(net)
      /\ UNCHANGED <<states, numbered, seq, life, checkpoints, sending, missed, coin, pending, anchors>>
  BY DEF Anchor!run, Anchor!engineVars, Anchor!nodeVars
<1>2. Indexes' = Indexes
  BY <1>1 DEF Indexes
<1>3. /\ net \in Seq(Indexes) /\ d = net[1] /\ d \in Indexes /\ net' \in Seq(Indexes)
      /\ Len(net) \in Nat \ {0} /\ Len(net') = Len(net) - 1
      /\ \A i \in 1 .. Len(net) - 1 : net'[i] = net[i + 1]
  <2>1. net \in Seq(Indexes)
    BY AnchorParts
  <2> QED  BY <1>1, <2>1, HeadAndTail
<1>4. hold \in Submissions /\ hold # None /\ hold.of = d /\ ~ hold.taken /\ hold.coin = None
  <2>1. hold \in Submissions /\ hold.of = d /\ ~ hold.taken /\ hold.coin = None
    BY <1>3 DEF Submissions, Indexes
  <2>2. None \notin Submissions
    BY AnchorAssumption DEF Submissions
  <2> QED  BY <2>1, <2>2
<1> HIDE DEF hold
<1>5. AnchorType'
  BY <1>1, <1>2, <1>3, <1>4 DEF AnchorInv, AnchorType
<1>6. SpentOnce'
  BY <1>1, <1>4 DEF SpentOnce
<1>7. InLine'
  <2>1. /\ \A i, j \in 1 .. Len(net) : i < j => net[i] <= net[j]
        /\ \A i \in 1 .. Len(anchors), j \in 1 .. Len(net) : anchors[i] <= net[j]
        /\ pending \notin {0, None} => \A i \in 1 .. Len(net) : pending <= net[i]
    BY DEF AnchorInv, InLine
  <2>2. \A i \in 1 .. Len(net') : net'[i] = net[i + 1] /\ i + 1 \in 1 .. Len(net) /\ 1 \in 1 .. Len(net)
    BY <1>3
  <2>3. \A i, j \in 1 .. Len(net') : i < j => net'[i] <= net'[j]
    BY <2>1, <2>2
  <2>4. \A i \in 1 .. Len(net') : d <= net'[i]
    <3> SUFFICES ASSUME NEW i \in 1 .. Len(net') PROVE d <= net'[i]
      OBVIOUS
    <3>1. 1 < i + 1
      BY <1>3
    <3> QED  BY <1>3, <2>1, <2>2, <3>1
  <2>5. 1 \in 1 .. Len(net)
    BY <1>3
  <2>6. /\ \A i \in 1 .. Len(anchors) : anchors[i] <= d
        /\ pending \notin {0, None} => pending <= d
    BY <1>3, <2>1, <2>5
  <2>7. /\ \A i \in 1 .. Len(anchors), j \in 1 .. Len(net') : anchors[i] <= net'[j]
        /\ pending \notin {0, None} => \A i \in 1 .. Len(net') : pending <= net'[i]
    BY <2>1, <2>2
  <2> QED  BY <1>1, <1>4, <2>3, <2>4, <2>6, <2>7 DEF AnchorInv, InLine
<1>8. Chronological'
  BY <1>1, <1>2 DEF AnchorInv, Chronological
<1>9. Anchor!CopiesCounted'
  <2> SUFFICES ASSUME NEW k \in Indexes PROVE CountedAt(k)'
    BY <1>1, <1>2, AnchorParts, CountedLater
  <2>1. PICK a \in Nat, b \in Nat, m \in Nat, p \in Nat, w \in Nat, h \in Nat :
            /\ a = Anchor!Count(anchors, k) /\ b = Anchor!Count(net, k)
            /\ m = Anchor!Count(missed, k) /\ p = Anchor!Count(<<pending>>, k)
            /\ w = Waits(k) /\ h = HeldCount(k)
            /\ Copies = a + b + m + p + w + h
    BY Numbers
  <2>2. h = 0 /\ HeldCount(k)' = One(d, k)
    BY <1>1, <1>4, <2>1, CountFew DEF HeldCount
  <2>3. PICK b2 \in Nat, o \in Nat : b2 = Anchor!Count(net', k) /\ o = One(d, k)
    BY <1>3, Counts, OneNat
  <2>4. b = o + b2
    <3>1. Anchor!Count(net, k) = One(d, k) + Anchor!Count(Tail(net), k)
      BY <1>1, <1>3, CountHead
    <3> QED  BY <1>1, <2>1, <2>3, <3>1
  <2>5. Copies = a + b2 + m + p + w + o
    BY <2>1, <2>2, <2>4
  <2>6. Anchor!Count(anchors, k)' = a /\ Anchor!Count(missed, k)' = m
        /\ Anchor!Count(<<pending>>, k)' = p /\ Waits(k)' = w
    BY <1>1, <2>1 DEF Waits
  <2> QED  BY <2>2, <2>3, <2>5, <2>6 DEF CountedAt
<1> QED  BY <1>5, <1>6, <1>7, <1>8, <1>9 DEF AnchorInv

LEMMA TakeCoinInv ==
  ASSUME AnchorInv, Anchor!submit_checkpoint_tx
  PROVE  AnchorInv'
<1>1. /\ held # None /\ held.coin = None /\ held' = [held EXCEPT !.coin = coin]
      /\ UNCHANGED <<states, numbered, seq, life, checkpoints, sending, net, missed, coin,
                     pending, anchors>>
  BY DEF Anchor!submit_checkpoint_tx, Anchor!engineVars, Anchor!nodeVars
<1>2. Indexes' = Indexes
  BY <1>1 DEF Indexes
<1>3. held \in Submissions /\ held.of \in Indexes /\ coin \in Nat /\ ~ held.taken
  BY <1>1, AnchorParts DEF AnchorInv, SpentOnce
<1>4. /\ held' \in Submissions /\ held'.of = held.of /\ held'.coin = coin /\ ~ held'.taken
      /\ held' # None
  <2>1. held' \in Submissions /\ held'.of = held.of /\ held'.coin = coin /\ held'.taken = held.taken
    BY <1>1, <1>3 DEF Submissions
  <2>2. None \notin Submissions
    BY AnchorAssumption DEF Submissions
  <2> QED  BY <1>3, <2>1, <2>2
<1>5. AnchorType'
  BY <1>1, <1>2, <1>3, <1>4 DEF AnchorInv, AnchorType
<1>6. SpentOnce'
  BY <1>1, <1>3, <1>4 DEF SpentOnce
<1>7. InLine'
  BY <1>1, <1>4 DEF AnchorInv, InLine
<1>8. Chronological'
  BY <1>1, <1>2 DEF AnchorInv, Chronological
<1>9. Anchor!CopiesCounted'
  <2> SUFFICES ASSUME NEW k \in Indexes PROVE CountedAt(k)'
    BY <1>1, <1>2, AnchorParts, CountedLater
  <2>1. CountedAt(k)
    BY AnchorParts
  <2>2. HeldCount(k)' = HeldCount(k) /\ Waits(k)' = Waits(k)
    BY <1>1, <1>3, <1>4 DEF HeldCount, Waits
  <2> QED  BY <1>1, <2>1, <2>2 DEF CountedAt
<1> QED  BY <1>5, <1>6, <1>7, <1>8, <1>9 DEF AnchorInv

(* A submission goes on, with another try, or ends *)
LEMMA Retrying ==
  ASSUME NEW h \in Submissions
  PROVE  /\ Anchor!Again(h) = None \/ (/\ Anchor!Again(h) \in Submissions
                                       /\ Anchor!Again(h) # None
                                       /\ Anchor!Again(h).of = h.of
                                       /\ Anchor!Again(h).coin = h.coin
                                       /\ Anchor!Again(h).taken = h.taken)
<1> DEFINE g == [h EXCEPT !.tries = @ + 1]
<1>1. /\ g \in Submissions /\ g.of = h.of /\ g.coin = h.coin /\ g.taken = h.taken
  BY DEF Submissions
<1>2. None \notin Submissions
  BY AnchorAssumption DEF Submissions
<1>3. Anchor!Again(h) = None \/ Anchor!Again(h) = g
  BY DEF Anchor!Again, Anchor!Retry
<1> QED  BY <1>1, <1>2, <1>3

(* What the watcher's attempt leaves, by its outcome *)
SubmitOutcome(of, fresh) ==
    \/ (* the node has it *)
       /\ fresh /\ pending = None /\ pending' = of /\ missed' = missed
       /\ held' = None \/ (held'.taken /\ held'.coin = coin)
    \/ (* a try that the node has not seen *)
       /\ fresh /\ pending' = pending /\ missed' = missed
       /\ held' # None /\ ~ held'.taken
    \/ (* given up *)
       /\ pending' = pending /\ held' = None
       /\ missed' = IF fresh THEN Append(missed, of) ELSE missed

LEMMA SubmitOutcomes ==
  ASSUME AnchorInv, Anchor!submit_tx_retry
  PROVE  /\ held # None /\ held \in Submissions /\ held.of \in Indexes
         /\ held' # None => /\ held' \in Submissions /\ held'.of = held.of
                            /\ held'.coin = held.coin
         /\ held.coin # None /\ held.coin <= coin
         /\ SubmitOutcome(held.of, ~ held.taken)
         /\ UNCHANGED <<states, numbered, seq, life, checkpoints, sending, net, coin, anchors>>
<1>1. /\ held # None /\ held.coin # None
      /\ UNCHANGED <<states, numbered, seq, life, checkpoints, sending, net, coin, anchors>>
  BY DEF Anchor!submit_tx_retry, Anchor!engineVars
<1>2. /\ held \in Submissions /\ held.of \in Indexes /\ held.coin <= coin
      /\ held.taken => (held.coin = coin => pending # None)
      /\ held.taken \in BOOLEAN
  BY <1>1, AnchorParts DEF AnchorInv, SpentOnce, Submissions
<1> DEFINE t == [held EXCEPT !.taken = TRUE]
<1>3. t \in Submissions /\ t.of = held.of /\ t.coin = held.coin /\ t.taken
  BY <1>2 DEF Submissions
<1> HIDE DEF t
<1>4. CASE held.coin = coin /\ pending = None
  <2>1. ~ held.taken
    BY <1>2, <1>4
  <2>2. \/ pending' = held.of /\ held' = None /\ missed' = missed
        \/ pending' = held.of /\ held' = Anchor!Again(t) /\ missed' = missed
        \/ /\ held' = Anchor!Again(held) /\ pending' = pending
           /\ missed' = IF held' = None THEN Append(missed, held.of) ELSE missed
    BY <1>4 DEF Anchor!submit_tx_retry, t
  <2>3. CASE pending' = held.of /\ held' = None /\ missed' = missed
    BY <1>1, <1>2, <1>4, <2>1, <2>3 DEF SubmitOutcome
  <2>4. CASE pending' = held.of /\ held' = Anchor!Again(t) /\ missed' = missed
    <3>1. held' = None \/ (/\ held' \in Submissions /\ held' # None /\ held'.of = t.of
                           /\ held'.coin = t.coin /\ held'.taken = t.taken)
      BY <1>3, <2>4, Retrying
    <3> QED  BY <1>1, <1>2, <1>3, <1>4, <2>1, <2>4, <3>1 DEF SubmitOutcome
  <2>5. CASE /\ held' = Anchor!Again(held) /\ pending' = pending
             /\ missed' = IF held' = None THEN Append(missed, held.of) ELSE missed
    <3>1. held' = None \/ (/\ held' \in Submissions /\ held' # None /\ held'.of = held.of
                           /\ held'.coin = held.coin /\ held'.taken = held.taken)
      BY <1>2, <2>5, Retrying
    <3> QED  BY <1>1, <1>2, <2>1, <2>5, <3>1 DEF SubmitOutcome
  <2> QED  BY <2>2, <2>3, <2>4, <2>5
<1>5. CASE ~ (held.coin = coin /\ pending = None)
  <2>1. /\ held' = None /\ pending' = pending
        /\ missed' = IF held.taken THEN missed ELSE Append(missed, held.of)
    BY <1>5 DEF Anchor!submit_tx_retry, Anchor!GiveUp
  <2> QED  BY <1>1, <1>2, <2>1 DEF SubmitOutcome
<1> QED  BY <1>4, <1>5

LEMMA SubmitInv ==
  ASSUME AnchorInv, Anchor!submit_tx_retry
  PROVE  AnchorInv'
<1>1. /\ held # None /\ held \in Submissions /\ held.of \in Indexes
      /\ held' # None => /\ held' \in Submissions /\ held'.of = held.of
                         /\ held'.coin = held.coin
      /\ held.coin # None /\ held.coin <= coin
      /\ SubmitOutcome(held.of, ~ held.taken)
      /\ UNCHANGED <<states, numbered, seq, life, checkpoints, sending, net, coin, anchors>>
  BY SubmitOutcomes
<1>2. Indexes' = Indexes
  BY <1>1 DEF Indexes
<1>3. /\ pending' = pending \/ (pending' = held.of /\ pending = None)
      /\ missed' = missed \/ missed' = Append(missed, held.of)
  BY <1>1 DEF SubmitOutcome
<1>4. None \notin Nat /\ 0 \notin Indexes /\ None \notin Indexes /\ held.of \in Nat
  BY <1>1, AnchorParts
<1>5. AnchorType'
  <2>1. missed' \in Seq(Indexes)
    <3>1. missed \in Seq(Indexes)
      BY AnchorParts
    <3> QED  BY <1>1, <1>3, <3>1, AppendProperties
  <2> QED  BY <1>1, <1>2, <1>3, <2>1 DEF AnchorInv, AnchorType
<1>6. SpentOnce'
  <2>1. held' # None /\ held'.taken => pending' # None
    BY <1>1, <1>4 DEF SubmitOutcome
  <2> QED  BY <1>1, <2>1 DEF SpentOnce
<1>7. InLine'
  BY <1>1, <1>3, <1>4 DEF AnchorInv, InLine
<1>8. Chronological'
  BY <1>1, <1>2 DEF AnchorInv, Chronological
<1>9. Anchor!CopiesCounted'
  <2> SUFFICES ASSUME NEW k \in Indexes PROVE CountedAt(k)'
    BY <1>1, <1>2, AnchorParts, CountedLater
  <2>1. PICK a \in Nat, b \in Nat, m \in Nat, p \in Nat, w \in Nat, h \in Nat :
            /\ a = Anchor!Count(anchors, k) /\ b = Anchor!Count(net, k)
            /\ m = Anchor!Count(missed, k) /\ p = Anchor!Count(<<pending>>, k)
            /\ w = Waits(k) /\ h = HeldCount(k)
            /\ Copies = a + b + m + p + w + h
    BY Numbers
  <2>2. Anchor!Count(anchors, k)' = a /\ Anchor!Count(net, k)' = b /\ Waits(k)' = w
    BY <1>1, <2>1 DEF Waits
  <2>3. PICK o \in Nat : o = One(held.of, k)
    BY OneNat
  <2>4. h = (IF held.taken THEN 0 ELSE o)
    BY <1>1, <2>1, <2>3, CountFew DEF HeldCount
  <2>5. pending = None => p = 0
    BY <2>1, CountFew, OneNat
  <2>6. Anchor!Count(Append(missed, held.of), k) = m + o
    <3>1. missed \in Seq(Indexes)
      BY AnchorParts
    <3> QED  BY <1>1, <2>1, <2>3, <3>1, CountAppend
  <2>7. CASE /\ ~ held.taken /\ pending = None /\ pending' = held.of /\ missed' = missed
             /\ held' = None \/ (held'.taken /\ held'.coin = coin)
    <3>1. HeldCount(k)' = 0 /\ Anchor!Count(<<pending>>, k)' = o /\ Anchor!Count(missed, k)' = m
      BY <2>1, <2>3, <2>7, CountFew DEF HeldCount
    <3>2. Copies = a + b + m + o + w + 0
      BY <2>1, <2>4, <2>5, <2>7
    <3> QED  BY <2>2, <3>1, <3>2 DEF CountedAt
  <2>8. CASE /\ ~ held.taken /\ pending' = pending /\ missed' = missed
             /\ held' # None /\ ~ held'.taken
    <3>1. HeldCount(k)' = h /\ Anchor!Count(<<pending>>, k)' = p /\ Anchor!Count(missed, k)' = m
      BY <1>1, <2>1, <2>8 DEF HeldCount
    <3> QED  BY <2>1, <2>2, <3>1 DEF CountedAt
  <2>9. CASE /\ pending' = pending /\ held' = None
             /\ missed' = IF held.taken THEN missed ELSE Append(missed, held.of)
    <3>1. HeldCount(k)' = 0 /\ Anchor!Count(<<pending>>, k)' = p
      BY <2>1, <2>9 DEF HeldCount
    <3>2. Anchor!Count(missed, k)' = m + h
      <4>1. CASE held.taken
        BY <2>1, <2>4, <2>9, <4>1
      <4>2. CASE ~ held.taken
        <5>1. missed' = Append(missed, held.of) /\ h = o
          BY <2>4, <2>9, <4>2
        <5> QED  BY <2>6, <5>1
      <4> QED  BY <4>1, <4>2
    <3>3. Copies = a + b + (m + h) + p + w + 0
      BY <2>1
    <3> QED  BY <2>2, <3>1, <3>2, <3>3 DEF CountedAt
  <2> QED  BY <1>1, <2>7, <2>8, <2>9 DEF SubmitOutcome
<1> QED  BY <1>5, <1>6, <1>7, <1>8, <1>9 DEF AnchorInv

LEMMA RestartWatcherInv ==
  ASSUME AnchorInv, Anchor!RestartWatcher
  PROVE  AnchorInv'
<1> DEFINE rest == IF held = None \/ (held # None /\ held.taken) THEN <<>> ELSE <<held.of>>
<1>1. /\ held' = None /\ net' = <<>> /\ missed' = missed \o net \o rest
      /\ UNCHANGED <<states, numbered, seq, life, checkpoints, sending, coin, pending, anchors>>
  BY DEF Anchor!RestartWatcher, Anchor!engineVars, Anchor!nodeVars
<1>2. Indexes' = Indexes
  BY <1>1 DEF Indexes
<1>3. missed \in Seq(Indexes) /\ net \in Seq(Indexes) /\ rest \in Seq(Indexes)
  BY AnchorParts
<1>4. missed \o net \in Seq(Indexes)
  BY <1>3, ConcatProperties
<1>5. ASSUME NEW k PROVE Anchor!Count(rest, k) = HeldCount(k)
  BY CountFew DEF HeldCount
<1> HIDE DEF rest
<1>6. missed' \in Seq(Indexes) /\ net' \in Seq(Indexes)
  BY <1>1, <1>3, <1>4, ConcatProperties
<1>7. AnchorType'
  BY <1>1, <1>2, <1>6 DEF AnchorInv, AnchorType
<1>8. SpentOnce' /\ InLine'
  BY <1>1 DEF AnchorInv, SpentOnce, InLine
<1>9. Chronological'
  BY <1>1, <1>2 DEF AnchorInv, Chronological
<1>10. Anchor!CopiesCounted'
  <2> SUFFICES ASSUME NEW k \in Indexes PROVE CountedAt(k)'
    BY <1>1, <1>2, AnchorParts, CountedLater
  <2>1. PICK a \in Nat, b \in Nat, m \in Nat, p \in Nat, w \in Nat, h \in Nat :
            /\ a = Anchor!Count(anchors, k) /\ b = Anchor!Count(net, k)
            /\ m = Anchor!Count(missed, k) /\ p = Anchor!Count(<<pending>>, k)
            /\ w = Waits(k) /\ h = HeldCount(k)
            /\ Copies = a + b + m + p + w + h
    BY Numbers
  <2>2. Anchor!Count(missed, k)' = m + b + h
    <3>1. Anchor!Count(missed \o net, k) = m + b
      BY <1>3, <2>1, CountConcat
    <3>2. Anchor!Count((missed \o net) \o rest, k) = Anchor!Count(missed \o net, k) + Anchor!Count(rest, k)
      BY <1>3, <1>4, CountConcat
    <3>3. Anchor!Count(rest, k) = h
      BY <1>5, <2>1
    <3> QED  BY <1>1, <3>1, <3>2, <3>3
  <2>3. /\ Anchor!Count(anchors, k)' = a /\ Anchor!Count(net, k)' = 0 /\ Waits(k)' = w
        /\ Anchor!Count(<<pending>>, k)' = p /\ HeldCount(k)' = 0
    BY <1>1, <2>1, CountFew DEF Waits, HeldCount
  <2>4. Copies = a + 0 + (m + b + h) + p + w + 0
    BY <2>1
  <2> QED  BY <2>2, <2>3, <2>4 DEF CountedAt
<1> QED  BY <1>7, <1>8, <1>9, <1>10 DEF AnchorInv

LEMMA OtherSpendsInv ==
  ASSUME AnchorInv, Anchor!submit_tx_flow
  PROVE  AnchorInv'
<1>1. /\ pending = None /\ pending' = 0
      /\ UNCHANGED <<states, numbered, seq, life, checkpoints, sending, net, held, missed,
                     coin, anchors>>
  BY DEF Anchor!submit_tx_flow, Anchor!engineVars, Anchor!watcherVars
<1>2. Indexes' = Indexes
  BY <1>1 DEF Indexes
<1>3. None # 0
  BY AnchorAssumption
<1>4. AnchorType'
  BY <1>1, <1>2 DEF AnchorInv, AnchorType
<1>5. SpentOnce'
  BY <1>1, <1>3 DEF AnchorInv, SpentOnce
<1>6. InLine'
  BY <1>1 DEF AnchorInv, InLine
<1>7. Chronological'
  BY <1>1, <1>2 DEF AnchorInv, Chronological
<1>8. Anchor!CopiesCounted'
  <2> SUFFICES ASSUME NEW k \in Indexes PROVE CountedAt(k)'
    BY <1>1, <1>2, AnchorParts, CountedLater
  <2>1. CountedAt(k)
    BY AnchorParts
  <2>2. Anchor!Count(<<pending>>, k)' = Anchor!Count(<<pending>>, k)
    BY <1>1, CountFew, OneNat
  <2>3. HeldCount(k)' = HeldCount(k) /\ Waits(k)' = Waits(k)
    BY <1>1 DEF HeldCount, Waits
  <2> QED  BY <1>1, <2>1, <2>2, <2>3 DEF CountedAt
<1> QED  BY <1>4, <1>5, <1>6, <1>7, <1>8 DEF AnchorInv

LEMMA AcceptInv ==
  ASSUME AnchorInv, Anchor!Accept
  PROVE  AnchorInv'
<1>1. /\ pending # None /\ pending' = None /\ coin' = coin + 1
      /\ anchors' = (IF pending = 0 THEN anchors ELSE Append(anchors, pending))
      /\ UNCHANGED <<states, numbered, seq, life, checkpoints, sending, net, held, missed>>
  BY DEF Anchor!Accept, Anchor!engineVars, Anchor!watcherVars
<1>2. Indexes' = Indexes
  BY <1>1 DEF Indexes
<1>3. /\ anchors \in Seq(Indexes) /\ coin \in Nat
      /\ pending # 0 => pending \in Indexes
      /\ held # None => held \in Submissions
  BY <1>1, AnchorParts
<1>4. anchors' \in Seq(Indexes)
  BY <1>1, <1>3, AppendProperties
<1>5. AnchorType'
  BY <1>1, <1>2, <1>3, <1>4 DEF AnchorInv, AnchorType
<1>6. SpentOnce'
  BY <1>1, <1>3, AnchorAssumption DEF AnchorInv, SpentOnce, Submissions
<1>7. InLine'
  <2>1. CASE pending = 0
    BY <1>1, <2>1 DEF AnchorInv, InLine
  <2>2. CASE pending # 0
    <3>1. /\ Len(anchors) \in Nat /\ Len(anchors') = Len(anchors) + 1
          /\ anchors'[Len(anchors) + 1] = pending
          /\ \A i \in 1 .. Len(anchors) : anchors'[i] = anchors[i]
      BY <1>1, <1>3, <2>2, AppendProperties
    <3>2. /\ \A i \in 1 .. Len(anchors) : anchors[i] <= pending
          /\ \A i \in 1 .. Len(net) : pending <= net[i]
          /\ held # None => pending <= held.of
      BY <1>1, <2>2 DEF AnchorInv, InLine
    <3>3. \A i, j \in 1 .. Len(anchors') : i < j => anchors'[i] <= anchors'[j]
      <4> SUFFICES ASSUME NEW i \in 1 .. Len(anchors'), NEW j \in 1 .. Len(anchors'), i < j
                   PROVE  anchors'[i] <= anchors'[j]
        OBVIOUS
      <4>1. i \in 1 .. Len(anchors)
        BY <3>1
      <4>2. CASE j \in 1 .. Len(anchors)
        BY <3>1, <4>1, <4>2 DEF AnchorInv, InLine
      <4>3. CASE j = Len(anchors) + 1
        BY <3>1, <3>2, <4>1, <4>3
      <4> QED  BY <3>1, <4>2, <4>3
    <3>4. \A i \in 1 .. Len(anchors') :
             anchors'[i] = pending \/ \E z \in 1 .. Len(anchors) : anchors'[i] = anchors[z]
      BY <3>1
    <3> QED  BY <1>1, <3>2, <3>3, <3>4 DEF AnchorInv, InLine
  <2> QED  BY <2>1, <2>2
<1>8. Chronological'
  BY <1>1, <1>2 DEF AnchorInv, Chronological
<1>9. Anchor!CopiesCounted'
  <2> SUFFICES ASSUME NEW k \in Indexes PROVE CountedAt(k)'
    BY <1>1, <1>2, AnchorParts, CountedLater
  <2>1. PICK a \in Nat, b \in Nat, m \in Nat, p \in Nat, w \in Nat, h \in Nat :
            /\ a = Anchor!Count(anchors, k) /\ b = Anchor!Count(net, k)
            /\ m = Anchor!Count(missed, k) /\ p = Anchor!Count(<<pending>>, k)
            /\ w = Waits(k) /\ h = HeldCount(k)
            /\ Copies = a + b + m + p + w + h
    BY Numbers
  <2>2. Anchor!Count(anchors, k)' = a + p
    <3>1. p = One(pending, k)
      BY <2>1, CountFew
    <3>2. CASE pending = 0
      BY <1>1, <2>1, <3>1, <3>2, OneNat
    <3>3. CASE pending # 0
      <4>1. Anchor!Count(Append(anchors, pending), k) = a + p
        BY <1>3, <2>1, <3>1, <3>3, CountAppend
      <4> QED  BY <1>1, <3>3, <4>1
    <3> QED  BY <3>2, <3>3
  <2>3. /\ Anchor!Count(net, k)' = b /\ Anchor!Count(missed, k)' = m /\ Waits(k)' = w
        /\ Anchor!Count(<<pending>>, k)' = 0 /\ HeldCount(k)' = h
    BY <1>1, <2>1, CountFew, OneNat DEF Waits, HeldCount
  <2>4. Copies = (a + p) + b + m + 0 + w + h
    BY <2>1
  <2> QED  BY <2>2, <2>3, <2>4 DEF CountedAt
<1> QED  BY <1>5, <1>6, <1>7, <1>8, <1>9 DEF AnchorInv

LEMMA AnchorNext == AnchorInv /\ Anchor!Next => AnchorInv'
<1> SUFFICES ASSUME AnchorInv, Anchor!Next PROVE AnchorInv'
  OBVIOUS
<1>1. CASE Anchor!on_initialize
  <2>1. /\ sending \in Nat /\ numbered \in Nat /\ life \in Nat
    BY DEF AnchorInv, AnchorType
  <2>2. /\ sending = 0 /\ states' = <<numbered + 1>> /\ numbered' = numbered + 1 /\ life' = life + 1
        /\ Anchor!emit_checkpoint(life + 1, 1, numbered')
        /\ UNCHANGED <<net, held, missed, coin, pending, anchors>>
    BY <1>1, <2>1 DEF Anchor!on_initialize, Anchor!Waiting, Anchor!New, Anchor!watcherVars, Anchor!nodeVars
  <2>3. states' \in Seq(Nat) /\ numbered' \in Nat /\ life + 1 \in Nat
    BY <2>1, <2>2
  <2> QED  BY <2>2, <2>3, EmitInv
<1>2. CASE Anchor!on_command
  <2>1. /\ sending \in Nat /\ numbered \in Nat /\ life \in Nat /\ seq \in Nat /\ states \in Seq(Nat)
    BY DEF AnchorInv, AnchorType
  <2>2. /\ sending = 0 /\ states # <<>> /\ states' = Append(states, numbered + 1)
        /\ numbered' = numbered + 1 /\ UNCHANGED <<life, net, held, missed, coin, pending, anchors>>
        /\ \/ Anchor!emit_checkpoint(life, seq + 1, numbered')
           \/ UNCHANGED <<seq, checkpoints, sending>>
    BY <1>2, <2>1 DEF Anchor!on_command, Anchor!Waiting, Anchor!New, Anchor!watcherVars, Anchor!nodeVars
  <2>3. states' \in Seq(Nat) /\ numbered' \in Nat /\ seq + 1 \in Nat
    BY <2>1, <2>2
  <2>4. CASE Anchor!emit_checkpoint(life, seq + 1, numbered')
    BY <2>1, <2>2, <2>3, <2>4, EmitInv
  <2>5. CASE UNCHANGED <<seq, checkpoints, sending>>
    <3>1. AnchorType'
      BY <2>2, <2>3, <2>5 DEF AnchorInv, AnchorType, Indexes
    <3>2. SpentOnce' /\ InLine'
      BY <2>2, <2>5 DEF AnchorInv, SpentOnce, InLine
    <3>3. Chronological'
      BY <2>2, <2>5 DEF AnchorInv, Chronological, Indexes
    <3>4. Anchor!CopiesCounted'
      BY <2>2, <2>5 DEF AnchorInv, Anchor!CopiesCounted
    <3> QED  BY <3>1, <3>2, <3>3, <3>4 DEF AnchorInv
  <2> QED  BY <2>2, <2>4, <2>5
<1>3. CASE Anchor!on_rollback
  BY <1>3, CalmInv
<1>4. CASE Anchor!Interval
  BY <1>4, CalmInv
<1>5. CASE Anchor!send_with_retry
  BY <1>5, SendInv
<1>6. CASE Anchor!Restart
  BY <1>6, RestartInv
<1>7. CASE Anchor!run
  BY <1>7, RunInv
<1>8. CASE Anchor!submit_checkpoint_tx
  BY <1>8, TakeCoinInv
<1>9. CASE Anchor!submit_tx_retry
  BY <1>9, SubmitInv
<1>10. CASE Anchor!RestartWatcher
  BY <1>10, RestartWatcherInv
<1>11. CASE Anchor!submit_tx_flow
  BY <1>11, OtherSpendsInv
<1>12. CASE Anchor!Accept
  BY <1>12, AcceptInv
<1> QED
  BY <1>1, <1>2, <1>3, <1>4, <1>5, <1>6, <1>7, <1>8, <1>9, <1>10, <1>11, <1>12 DEF Anchor!Next

LEMMA AnchorStays == AnchorInv /\ UNCHANGED anchorVars => AnchorInv'
<1> SUFFICES ASSUME AnchorInv, UNCHANGED anchorVars PROVE AnchorInv'
  OBVIOUS
<1>1. UNCHANGED <<states, numbered, seq, due, life, checkpoints, sending, net,
                  held, coin, pending, anchors, missed>>
  BY DEF anchorVars
<1>2. AnchorType' /\ SpentOnce' /\ InLine' /\ Chronological'
  BY <1>1 DEF AnchorInv, AnchorType, SpentOnce, InLine, Chronological, Indexes
<1>3. Anchor!CopiesCounted'
  BY <1>1 DEF AnchorInv, Anchor!CopiesCounted
<1> QED  BY <1>2, <1>3 DEF AnchorInv

LEMMA AnchorInit == Anchor!Init => AnchorInv
<1> SUFFICES ASSUME Anchor!Init PROVE AnchorInv
  OBVIOUS
<1> USE DEF Anchor!Init
<1>1. checkpoints = <<>> /\ Indexes = {} /\ \A S : <<>> \in Seq(S)
  BY DEF Indexes
<1>2. AnchorType
  BY <1>1 DEF AnchorType
<1>3. SpentOnce /\ InLine /\ Chronological
  BY <1>1 DEF SpentOnce, InLine, Chronological
<1>4. Anchor!CopiesCounted
  BY <1>1 DEF Anchor!CopiesCounted
<1> QED  BY <1>2, <1>3, <1>4 DEF AnchorInv

(* Two checkpoints of one life have different numbers *)
LEMMA AnchorInvExplains == AnchorInv => AnchorsExplained
<1> SUFFICES ASSUME AnchorInv PROVE AnchorsExplained
  OBVIOUS
<1>1. Anchor!CopiesCounted
  BY DEF AnchorInv
<1>2. Anchor!AnchorsOrdered
  <2> SUFFICES ASSUME NEW i \in DOMAIN anchors, NEW j \in DOMAIN anchors
               PROVE  /\ i < j => anchors[i] <= anchors[j]
                      /\ checkpoints[anchors[i]].seq = checkpoints[anchors[j]].seq
                         /\ checkpoints[anchors[i]].root # checkpoints[anchors[j]].root
                         => checkpoints[anchors[i]].life # checkpoints[anchors[j]].life
    BY DEF Anchor!AnchorsOrdered
  <2>1. anchors \in Seq(Indexes) /\ Indexes \subseteq Nat
    BY AnchorParts
  <2>2. i \in 1 .. Len(anchors) /\ j \in 1 .. Len(anchors)
    BY <2>1
  <2>3. anchors[i] \in Indexes /\ anchors[j] \in Indexes
    BY <2>1, <2>2, ElementOfSeq
  <2>4. i < j => anchors[i] <= anchors[j]
    BY <2>2 DEF AnchorInv, InLine
  <2>5. \A x \in Indexes : checkpoints[x].life \in Nat /\ checkpoints[x].seq \in Nat
    <3>1. checkpoints \in Seq([life : Nat, seq : Nat, root : Nat])
      BY DEF AnchorInv, AnchorType
    <3>2. \A x \in Indexes : checkpoints[x] \in [life : Nat, seq : Nat, root : Nat]
      BY <3>1, ElementOfSeq DEF Indexes
    <3> QED  BY <3>2
  <2>6. \A x, y \in Indexes :
           checkpoints[x].seq = checkpoints[y].seq /\ checkpoints[x].life = checkpoints[y].life => x = y
    <3> SUFFICES ASSUME NEW x \in Indexes, NEW y \in Indexes, x < y,
                        checkpoints[x].seq = checkpoints[y].seq,
                        checkpoints[x].life = checkpoints[y].life
                 PROVE  FALSE
      BY <2>1
    <3>1. Before(checkpoints[x], checkpoints[y])
      BY DEF AnchorInv, Chronological
    <3> QED  BY <2>5, <3>1 DEF Before
  <2> QED  BY <2>3, <2>4, <2>6
<1> QED  BY <1>1, <1>2 DEF AnchorsExplained, Anchor!AnchorsExplained

(* A checkpoint's copies are anchored once each that is not known to be    *)
(* missed, however datagrams, connections and processes fail, and the      *)
(* anchors are in the order of the checkpoints.                            *)
THEOREM Anchors == Spec => []AnchorsExplained
<1>1. Init => AnchorInv
  BY AnchorInit DEF Init
<1>2. AnchorInv /\ [Next]_vars => AnchorInv'
  <2>1. [Next]_vars => Anchor!Next \/ UNCHANGED anchorVars
    BY DEF Next, vars
  <2> QED  BY <2>1, AnchorNext, AnchorStays
<1>3. AnchorInv => AnchorsExplained
  BY AnchorInvExplains
<1> QED  BY <1>1, <1>2, <1>3, PTL DEF Spec
-----------------------------------------------------------------------------
(* The MCP server *)

Marks == {"X", "O"}
Snaps == [board : [Server!Game!Cells -> Marks \cup {None}], current : Marks, participants : Nat]
Games == [board : [Server!Game!Cells -> Marks \cup {None}], current : Marks,
          participants : Rosters, move_history : Seq(Server!Game!Cells)]
Messages == [episode : Nat, participants : Rosters]
            \cup [episode : Nat, mv : Moves, by : {agent1, agent2}]
Writes == [episode : Nat, snap : Snaps]

ServerType ==
    /\ games \in Seq(Games \cup {None}) /\ queue \in Seq(Messages)
    /\ ttt_state \in Seq(Snaps \cup {None}) /\ files \in Seq(Snaps \cup {None, Broken})
    /\ had \in Seq(Seq(Snaps))
    /\ Len(ttt_state) = Len(games) /\ Len(files) = Len(games) /\ Len(had) = Len(games)
    /\ \A i \in 1 .. Len(queue) : queue[i].episode \in 1 .. Len(games)
    /\ writing \in Writes \cup {None}
    /\ ~ up => writing = None

Latest(e) == had[e][Len(had[e])]

(* What is being written is what the map has, which is the last snapshot *)
Written ==
    writing # None => LET e == writing.episode IN
        /\ e \in 1 .. Len(games) /\ had[e] # <<>>
        /\ writing.snap = Latest(e) /\ ttt_state[e] = Latest(e)

Stored(e) ==
    /\ files[e] \in Contents(had[e]) \cup {None, Broken}
    /\ had[e] # <<>> /\ e \notin unsaved /\ (writing = None \/ writing.episode # e) =>
          files[e] = Latest(e)
    /\ IF ~ up THEN games[e] = None
       ELSE /\ ttt_state[e] \in Contents(had[e]) \cup {None}
            /\ games[e] # None => /\ had[e] # <<>> /\ ttt_state[e] = Latest(e)
                                  /\ ttt_state[e] = Server!TttSnapshot(games[e])
            /\ had[e] # <<>> /\ e \notin unsaved => ttt_state[e] = Latest(e)

ServerInv == ServerType /\ Written /\ \A e \in 1 .. Len(games) : Stored(e)

LEMMA ServerParts ==
  ASSUME ServerInv, NEW n, n = Len(games)
  PROVE  /\ n \in Nat /\ DOMAIN games = 1 .. n
         /\ \A e \in 1 .. n : /\ games[e] \in Games \cup {None}
                              /\ ttt_state[e] \in Snaps \cup {None}
                              /\ files[e] \in Snaps \cup {None, Broken}
                              /\ had[e] \in Seq(Snaps)
         /\ \A e \in 1 .. n : had[e] # <<>> =>
               Latest(e) \in Snaps /\ Latest(e) # Broken /\ Latest(e) \in Contents(had[e])
         /\ writing # None => writing \in Writes /\ writing.episode \in 1 .. n /\ writing.snap \in Snaps
         /\ Broken \notin Snaps /\ None \notin Writes
<1>1. /\ n \in Nat /\ games \in Seq(Games \cup {None}) /\ ttt_state \in Seq(Snaps \cup {None})
      /\ files \in Seq(Snaps \cup {None, Broken}) /\ had \in Seq(Seq(Snaps))
      /\ Len(ttt_state) = n /\ Len(files) = n /\ Len(had) = n
  BY DEF ServerInv, ServerType
<1>2. /\ DOMAIN games = 1 .. n
      /\ \A e \in 1 .. n : /\ games[e] \in Games \cup {None}
                           /\ ttt_state[e] \in Snaps \cup {None}
                           /\ files[e] \in Snaps \cup {None, Broken}
                           /\ had[e] \in Seq(Snaps)
  BY <1>1, ElementOfSeq
<1>3. Broken \notin Snaps /\ None \notin Writes
  BY ServerAssumption DEF Snaps, Marks, Writes
<1>4. ASSUME NEW e \in 1 .. n, had[e] # <<>>
      PROVE  Latest(e) \in Snaps /\ Latest(e) # Broken /\ Latest(e) \in Contents(had[e])
  <2> PICK s : s = had[e]
    OBVIOUS
  <2>1. s \in Seq(Snaps) /\ s # <<>>
    BY <1>2, <1>4
  <2>2. Len(s) \in DOMAIN s /\ s[Len(s)] \in Snaps
    BY <2>1
  <2> QED  BY <1>3, <2>2 DEF Latest, Contents
<1>5. writing # None => writing \in Writes /\ writing.episode \in 1 .. n /\ writing.snap \in Snaps
  BY DEF ServerInv, ServerType, Written, Writes
<1> QED  BY <1>1, <1>2, <1>3, <1>4, <1>5

(* A game of which nothing changes *)
LEMMA StoredStays ==
  ASSUME NEW e, Stored(e), up' = up, games'[e] = games[e], ttt_state'[e] = ttt_state[e],
         files'[e] = files[e], had'[e] = had[e], e \in unsaved' <=> e \in unsaved,
         writing' = None \/ writing'.episode # e => writing = None \/ writing.episode # e
  PROVE  Stored(e)'
BY DEF Stored, Latest

LEMMA ServerKeys ==
  ASSUME ServerInv, UNCHANGED <<up, queue, games, ttt_state, files, writing, had, unsaved>>
  PROVE  ServerInv'
BY DEF ServerInv, ServerType, Written, Stored, Latest

LEMMA NewInv == ASSUME ServerInv, Server!new PROVE ServerInv'
<1> PICK n : n = Len(games)
  OBVIOUS
<1>1. /\ ~ up /\ up' = TRUE
      /\ ttt_state' = [e \in 1 .. n |-> IF files[e] = Broken THEN None ELSE files[e]]
      /\ UNCHANGED <<queue, games, files, writing, had, unsaved>>
  BY ServerParts DEF Server!new, Server!Started
<1>2. n \in Nat /\ writing = None /\ \A e \in 1 .. n : Stored(e) /\ games[e] = None
  BY <1>1, ServerParts DEF ServerInv, ServerType, Stored
<1>3. ttt_state' \in Seq(Snaps \cup {None}) /\ Len(ttt_state') = n
  <2>1. \A e \in 1 .. n : ttt_state'[e] \in Snaps \cup {None}
    BY <1>1, ServerParts
  <2>2. ttt_state' \in [1 .. n -> Snaps \cup {None}]
    BY <1>1, <2>1
  <2> QED  BY <1>2, <2>2, Sequential
<1>4. ServerType' /\ Written'
  BY <1>1, <1>2, <1>3 DEF ServerInv, ServerType, Written
<1>5. ASSUME NEW e \in 1 .. n PROVE Stored(e)'
  <2>1. /\ files[e] \in Contents(had[e]) \cup {None, Broken}
        /\ had[e] # <<>> /\ e \notin unsaved => files[e] = Latest(e)
        /\ had[e] # <<>> => Latest(e) # Broken
    BY <1>2, ServerParts DEF Stored
  <2>2. /\ files'[e] = files[e] /\ had'[e] = had[e] /\ games'[e] = None /\ up' = TRUE
        /\ writing' = None /\ Latest(e)' = Latest(e) /\ (e \in unsaved' <=> e \in unsaved)
        /\ ttt_state'[e] = IF files[e] = Broken THEN None ELSE files[e]
    BY <1>1, <1>2 DEF Latest
  <2>3. /\ ttt_state'[e] \in Contents(had[e]) \cup {None}
        /\ had[e] # <<>> /\ e \notin unsaved => ttt_state'[e] = Latest(e)
    BY <2>1, <2>2
  <2> QED  BY <2>1, <2>2, <2>3 DEF Stored
<1> QED  BY <1>1, <1>4, <1>5 DEF ServerInv

LEMMA ExitInv == ASSUME ServerInv, Server!Exit PROVE ServerInv'
<1> PICK n : n = Len(games)
  OBVIOUS
<1>1. /\ up' = FALSE /\ queue' = <<>> /\ writing' = None /\ had' = had
      /\ games' = [e \in 1 .. n |-> None] /\ ttt_state' = [e \in 1 .. n |-> None]
      /\ \/ UNCHANGED <<files, unsaved>> /\ writing = None
         \/ /\ writing # None
            /\ \E f \in {files[writing.episode], Broken, writing.snap} :
                  /\ files' = [files EXCEPT ![writing.episode] = f]
                  /\ unsaved' = IF f = writing.snap THEN unsaved \ {writing.episode}
                                ELSE unsaved \cup {writing.episode}
  BY ServerParts DEF Server!Exit, Server!Started
<1>2. /\ n \in Nat /\ \A e \in 1 .. n : Stored(e)
      /\ files \in Seq(Snaps \cup {None, Broken}) /\ Len(files) = n
      /\ had \in Seq(Seq(Snaps)) /\ Len(had) = n
  BY ServerParts DEF ServerInv, ServerType
<1>3. /\ games' \in Seq(Games \cup {None}) /\ Len(games') = n
      /\ ttt_state' \in Seq(Snaps \cup {None}) /\ Len(ttt_state') = n
      /\ queue' \in Seq(Messages) /\ Len(queue') = 0
  <2>1. games' \in [1 .. n -> Games \cup {None}] /\ ttt_state' \in [1 .. n -> Snaps \cup {None}]
    BY <1>1
  <2>2. games' \in Seq(Games \cup {None}) /\ Len(games') = n
    BY <1>2, <2>1, Sequential
  <2>3. ttt_state' \in Seq(Snaps \cup {None}) /\ Len(ttt_state') = n
    BY <1>2, <2>1, Sequential
  <2> QED  BY <1>1, <2>2, <2>3
<1>4. \A e \in 1 .. n : games'[e] = None /\ had'[e] = had[e] /\ Latest(e)' = Latest(e)
  BY <1>1 DEF Latest
<1>5. files' \in Seq(Snaps \cup {None, Broken}) /\ Len(files') = n /\ \A e \in 1 .. n : Stored(e)'
  <2>1. CASE writing = None
    <3>1. ASSUME NEW e \in 1 .. n PROVE Stored(e)'
      BY <1>1, <1>2, <1>4, <2>1 DEF Stored
    <3> QED  BY <1>1, <1>2, <2>1, <3>1
  <2>2. CASE writing # None
    <3> PICK w, snap : w = writing.episode /\ snap = writing.snap
      OBVIOUS
    <3>1. PICK f \in {files[w], Broken, snap} :
             /\ files' = [files EXCEPT ![w] = f]
             /\ unsaved' = IF f = snap THEN unsaved \ {w} ELSE unsaved \cup {w}
      BY <1>1, <2>2
    <3>2. /\ w \in 1 .. n /\ snap \in Snaps /\ had[w] # <<>> /\ snap = Latest(w)
          /\ Latest(w) \in Contents(had[w]) /\ files[w] \in Snaps \cup {None, Broken}
      BY <2>2, ServerParts DEF ServerInv, Written
    <3>3. f \in Snaps \cup {None, Broken}
      BY <3>2
    <3>4. /\ files' \in Seq(Snaps \cup {None, Broken}) /\ Len(files') = n
          /\ files'[w] = f /\ \A e \in 1 .. n : e # w => files'[e] = files[e]
      BY <1>2, <3>1, <3>2, <3>3
    <3>5. ASSUME NEW e \in 1 .. n PROVE Stored(e)'
      <4>1. CASE e = w
        <5>1. f \in Contents(had[w]) \cup {None, Broken}
          BY <1>2, <3>2 DEF Stored
        <5>2. w \notin unsaved' => f = Latest(w)
          BY <3>1, <3>2
        <5> QED  BY <1>1, <1>4, <3>4, <4>1, <5>1, <5>2 DEF Stored
      <4>2. CASE e # w
        <5>1. files'[e] = files[e] /\ (e \in unsaved' <=> e \in unsaved)
          BY <3>1, <3>4, <4>2
        <5>2. writing.episode # e
          BY <4>2
        <5> QED  BY <1>1, <1>2, <1>4, <5>1, <5>2 DEF Stored
      <4> QED  BY <4>1, <4>2
    <3> QED  BY <3>4, <3>5
  <2> QED  BY <2>1, <2>2
<1>6. ServerType' /\ Written'
  BY <1>1, <1>2, <1>3, <1>5 DEF ServerType, Written
<1> QED  BY <1>3, <1>5, <1>6 DEF ServerInv

LEMMA StartInv == ASSUME ServerInv, Server!start_episode PROVE ServerInv'
<1> PICK n : n = Len(games)
  OBVIOUS
<1>1. PICK roster \in Rosters :
         /\ up /\ queue' = Append(queue, [episode |-> n + 1, participants |-> roster])
         /\ games' = Append(games, None) /\ ttt_state' = Append(ttt_state, None)
         /\ files' = Append(files, None) /\ had' = Append(had, <<>>)
         /\ UNCHANGED <<up, writing, unsaved>>
  BY DEF Server!start_episode, Server!Asked
<1>2. /\ n \in Nat /\ \A e \in 1 .. n : Stored(e)
      /\ games \in Seq(Games \cup {None}) /\ ttt_state \in Seq(Snaps \cup {None})
      /\ files \in Seq(Snaps \cup {None, Broken}) /\ had \in Seq(Seq(Snaps)) /\ queue \in Seq(Messages)
      /\ Len(ttt_state) = n /\ Len(files) = n /\ Len(had) = n
      /\ \A i \in 1 .. Len(queue) : queue[i].episode \in 1 .. n
  BY ServerParts DEF ServerInv, ServerType
<1>3. /\ games' \in Seq(Games \cup {None}) /\ Len(games') = n + 1 /\ games'[n + 1] = None
      /\ \A i \in 1 .. n : games'[i] = games[i]
  BY <1>1, <1>2, Appended
<1>4. /\ ttt_state' \in Seq(Snaps \cup {None}) /\ Len(ttt_state') = n + 1
      /\ ttt_state'[n + 1] = None /\ \A i \in 1 .. n : ttt_state'[i] = ttt_state[i]
  BY <1>1, <1>2, Appended
<1>5. /\ files' \in Seq(Snaps \cup {None, Broken}) /\ Len(files') = n + 1
      /\ files'[n + 1] = None /\ \A i \in 1 .. n : files'[i] = files[i]
  BY <1>1, <1>2, Appended
<1>6. /\ had' \in Seq(Seq(Snaps)) /\ Len(had') = n + 1
      /\ had'[n + 1] = <<>> /\ \A i \in 1 .. n : had'[i] = had[i]
  <2>1. <<>> \in Seq(Snaps)
    OBVIOUS
  <2> QED  BY <1>1, <1>2, <2>1, Appended
<1>7. queue' \in Seq(Messages) /\ \A i \in 1 .. Len(queue') : queue'[i].episode \in 1 .. n + 1
  <2> PICK m, k : m = [episode |-> n + 1, participants |-> roster] /\ k = Len(queue)
    OBVIOUS
  <2>1. m \in Messages /\ m.episode = n + 1 /\ k \in Nat
    BY <1>2 DEF Messages
  <2>2. /\ queue' \in Seq(Messages) /\ Len(queue') = k + 1 /\ queue'[k + 1] = m
        /\ \A i \in 1 .. k : queue'[i] = queue[i]
    BY <1>1, <1>2, <2>1, Appended
  <2>3. \A i \in 1 .. k + 1 : i \in 1 .. k \/ i = k + 1
    BY <2>1
  <2> QED  BY <1>2, <2>1, <2>2, <2>3
<1>8. ServerType' /\ Written'
  <2>1. writing # None => writing.episode \in 1 .. n /\ writing.episode \in 1 .. n + 1
    BY <1>2, ServerParts
  <2>2. ServerType'
    BY <1>1, <1>3, <1>4, <1>5, <1>6, <1>7 DEF ServerInv, ServerType
  <2>3. Written'
    BY <1>1, <1>3, <1>4, <1>6, <2>1 DEF ServerInv, Written, Latest
  <2> QED  BY <2>2, <2>3
<1>9. ASSUME NEW e \in 1 .. n + 1 PROVE Stored(e)'
  <2>1. CASE e \in 1 .. n
    <3>1. /\ games'[e] = games[e] /\ ttt_state'[e] = ttt_state[e] /\ files'[e] = files[e]
          /\ had'[e] = had[e] /\ Stored(e)
      BY <1>2, <1>3, <1>4, <1>5, <1>6, <2>1
    <3> QED  BY <1>1, <3>1, StoredStays
  <2>2. CASE e = n + 1
    BY <1>1, <1>3, <1>4, <1>5, <1>6, <2>2 DEF Stored
  <2> QED  BY <1>2, <2>1, <2>2
<1> QED  BY <1>3, <1>8, <1>9 DEF ServerInv

LEMMA ExecuteCommandInv == ASSUME ServerInv, Server!execute_command PROVE ServerInv'
<1> PICK n : n = Len(games)
  OBVIOUS
<1>1. PICK e \in 1 .. n, mv \in Moves, signer \in {agent1, agent2} :
         /\ queue' = Append(queue, [episode |-> e, mv |-> mv, by |-> signer])
         /\ UNCHANGED <<up, games, ttt_state, files, writing, had, unsaved>>
  BY ServerParts DEF Server!execute_command, Server!Asked, Server!Started, Server!Agents, Server!storeVars
<1>2. /\ n \in Nat /\ \A i \in 1 .. n : Stored(i)
      /\ queue \in Seq(Messages) /\ \A i \in 1 .. Len(queue) : queue[i].episode \in 1 .. n
  BY ServerParts DEF ServerInv, ServerType
<1>3. queue' \in Seq(Messages) /\ \A i \in 1 .. Len(queue') : queue'[i].episode \in 1 .. n
  <2> PICK m, k : m = [episode |-> e, mv |-> mv, by |-> signer] /\ k = Len(queue)
    OBVIOUS
  <2>1. m \in Messages /\ m.episode = e /\ k \in Nat
    BY <1>2 DEF Messages
  <2>2. /\ queue' \in Seq(Messages) /\ Len(queue') = k + 1 /\ queue'[k + 1] = m
        /\ \A i \in 1 .. k : queue'[i] = queue[i]
    BY <1>1, <1>2, <2>1, Appended
  <2>3. \A i \in 1 .. k + 1 : i \in 1 .. k \/ i = k + 1
    BY <2>1
  <2> QED  BY <1>2, <2>1, <2>2, <2>3
<1>4. ServerType' /\ Written'
  BY <1>1, <1>3 DEF ServerInv, ServerType, Written, Latest
<1>5. ASSUME NEW i \in 1 .. n PROVE Stored(i)'
  BY <1>1, <1>2, StoredStays
<1> QED  BY <1>1, <1>4, <1>5 DEF ServerInv

LEMMA PersistInv == ASSUME ServerInv, Server!persist_snapshot PROVE ServerInv'
<1> PICK n, w, snap : n = Len(games) /\ w = writing.episode /\ snap = writing.snap
  OBVIOUS
<1>1. /\ writing # None /\ writing' = None
      /\ \/ files' = [files EXCEPT ![w] = snap] /\ unsaved' = unsaved \ {w}
         \/ /\ unsaved' = unsaved \cup {w}
            /\ \E f \in {files[w], Broken} : files' = [files EXCEPT ![w] = f]
      /\ UNCHANGED <<up, queue, games, ttt_state, had>>
  BY DEF Server!persist_snapshot
<1>2. /\ n \in Nat /\ \A e \in 1 .. n : Stored(e)
      /\ files \in Seq(Snaps \cup {None, Broken}) /\ Len(files) = n
      /\ w \in 1 .. n /\ snap \in Snaps /\ had[w] # <<>> /\ snap = Latest(w)
      /\ Latest(w) \in Contents(had[w]) /\ files[w] \in Snaps \cup {None, Broken}
      /\ ttt_state[w] = Latest(w)
  BY <1>1, ServerParts DEF ServerInv, ServerType, Written
<1>3. PICK f \in {files[w], Broken, snap} :
         /\ files' = [files EXCEPT ![w] = f]
         /\ (f = snap /\ unsaved' = unsaved \ {w}) \/ unsaved' = unsaved \cup {w}
  BY <1>1
<1>4. /\ files' \in Seq(Snaps \cup {None, Broken}) /\ Len(files') = n
      /\ files'[w] = f /\ \A e \in 1 .. n : e # w => files'[e] = files[e]
  <2>1. f \in Snaps \cup {None, Broken}
    BY <1>2
  <2> QED  BY <1>2, <1>3, <2>1
<1>5. ASSUME NEW e \in 1 .. n PROVE Stored(e)'
  <2>1. /\ games'[e] = games[e] /\ had'[e] = had[e] /\ Latest(e)' = Latest(e) /\ up' = up
        /\ ttt_state'[e] = ttt_state[e] /\ writing' = None /\ Stored(e)
    BY <1>1, <1>2 DEF Latest
  <2>2. CASE e = w
    <3>1. f \in Contents(had[w]) \cup {None, Broken}
      BY <1>2 DEF Stored
    <3>2. w \notin unsaved' => f = Latest(w)
      BY <1>2, <1>3
    <3> QED  BY <1>2, <1>4, <2>1, <2>2, <3>1, <3>2 DEF Stored
  <2>3. CASE e # w
    <3>1. files'[e] = files[e] /\ (e \in unsaved' <=> e \in unsaved) /\ writing.episode # e
      BY <1>3, <1>4, <2>3
    <3> QED  BY <2>1, <3>1, StoredStays
  <2> QED  BY <2>2, <2>3
<1>6. ServerType' /\ Written'
  BY <1>1, <1>4 DEF ServerInv, ServerType, Written
<1> QED  BY <1>1, <1>5, <1>6 DEF ServerInv

(* What the engine makes of a message is a game *)
LEMMA MessageParts ==
  ASSUME NEW m \in Messages
  PROVE  m.episode \in Nat /\ ("participants" \in DOMAIN m => m.participants \in Rosters)
<1>1. CASE m \in [episode : Nat, participants : Rosters]
  BY <1>1
<1>2. CASE m \in [episode : Nat, mv : Moves, by : {agent1, agent2}]
  <2>1. m = [episode |-> m.episode, mv |-> m.mv, by |-> m.by] /\ m.episode \in Nat
    BY <1>2
  <2>2. "participants" \notin DOMAIN m
    BY <2>1
  <2> QED  BY <2>1, <2>2
<1> QED  BY <1>1, <1>2 DEF Messages

LEMMA GameOf ==
  ASSUME NEW board \in [Server!Game!Cells -> Marks \cup {None}], NEW current \in Marks,
         NEW roster \in Rosters, NEW moves \in Seq(Server!Game!Cells)
  PROVE  [board |-> board, current |-> current, participants |-> roster,
          move_history |-> moves] \in Games
BY DEF Games

LEMMA GameCreated ==
  ASSUME NEW roster \in Rosters PROVE Server!Game!Initialize(roster, 0) \in Games
<1> PICK board, moves : board = [c \in Server!Game!Cells |-> None] /\ moves = <<>>
  OBVIOUS
<1>1. board \in [Server!Game!Cells -> Marks \cup {None}] /\ moves \in Seq(Server!Game!Cells)
  OBVIOUS
<1> PICK current \in Marks : current = "X"
  BY DEF Marks
<1>2. Server!Game!Initialize(roster, 0) =
         [board |-> board, current |-> current, participants |-> roster, move_history |-> moves]
  BY DEF Server!Game!Initialize
<1>3. [board |-> board, current |-> current, participants |-> roster,
       move_history |-> moves] \in Games
  BY <1>1, GameOf
<1> QED  BY <1>2, <1>3

LEMMA GameMoved ==
  ASSUME NEW g \in Games, NEW mv, NEW by, Server!Game!Accepts(g, mv, by)
  PROVE  Server!Game!Executed(g, mv) \in Games
<1>1. /\ mv.cell \in Server!Game!Cells /\ mv.player = g.current
      /\ g = [board |-> g.board, current |-> g.current, participants |-> g.participants,
              move_history |-> g.move_history]
      /\ g.board \in [Server!Game!Cells -> Marks \cup {None}] /\ g.current \in Marks
      /\ g.participants \in Rosters /\ g.move_history \in Seq(Server!Game!Cells)
  BY DEF Games, Server!Game!Accepts
<1> PICK board, moves, current :
       /\ board = [c \in Server!Game!Cells |->
                     IF c = mv.cell THEN mv.player
                     ELSE IF Server!Game!Full(g) /\ c = Server!Game!Oldest(g) THEN None ELSE g.board[c]]
       /\ moves = Append(IF Server!Game!Full(g) THEN Tail(g.move_history) ELSE g.move_history, mv.cell)
       /\ current = Server!Game!Opponent(mv.player)
  OBVIOUS
<1>2. Server!Game!Executed(g, mv) =
         [g EXCEPT !.board = board, !.move_history = moves, !.current = current]
  BY DEF Server!Game!Executed
<1>3. Server!Game!Executed(g, mv) =
         [board |-> board, current |-> current, participants |-> g.participants,
          move_history |-> moves]
  BY <1>1, <1>2
<1>4. board \in [Server!Game!Cells -> Marks \cup {None}]
  BY <1>1
<1>5. current \in Marks
  BY <1>1 DEF Marks, Server!Game!Opponent
<1>6. moves \in Seq(Server!Game!Cells)
  <2>1. CASE Server!Game!Full(g)
    <3>1. g.move_history # <<>>
      BY <1>1, <2>1 DEF Server!Game!Full
    <3>2. Tail(g.move_history) \in Seq(Server!Game!Cells)
      BY <1>1, <3>1
    <3> QED  BY <1>1, <2>1, <3>2
  <2>2. CASE ~ Server!Game!Full(g)
    BY <1>1, <2>2
  <2> QED  BY <2>1, <2>2
<1> QED  BY <1>1, <1>3, <1>4, <1>5, <1>6 DEF Games

(* What the map shows of a game *)
LEMMA Shows ==
  ASSUME NEW g \in Games
  PROVE  Server!TttSnapshot(g) \in Snaps
<1>1. /\ g.board \in [Server!Game!Cells -> Marks \cup {None}] /\ g.current \in Marks
      /\ g.participants \in Rosters
  BY DEF Games
<1>2. Len(g.participants) \in Nat
  BY <1>1, ServerAssumption
<1> QED  BY <1>1, <1>2 DEF Server!TttSnapshot, Snaps

(* The engine did what a message says, or refused it *)
LEMMA ExecuteOutcome ==
  ASSUME ServerInv, Server!Execute, NEW e, e = Head(queue).episode
  PROVE  /\ e \in 1 .. Len(games)
         /\ up /\ writing = None /\ queue # <<>> /\ queue' = Tail(queue)
         /\ UNCHANGED <<up, files, unsaved>>
         /\ \/ \E g \in Games : /\ games' = [games EXCEPT ![e] = g]
                                /\ had' = [had EXCEPT ![e] = Append(@, Server!TttSnapshot(g))]
                                /\ Server!Mirrored(e, g)
            \/ UNCHANGED <<games, ttt_state, writing, had>>
<1> PICK m, r :
       /\ m = Head(queue)
       /\ r = IF "participants" \in DOMAIN m
              THEN [ok |-> games[e] = None, state |-> Server!Game!Initialize(m.participants, 0)]
              ELSE IF games[e] = None THEN [ok |-> FALSE]
              ELSE Server!Game!Execute(games[e], m.mv, m.by, 0)
  OBVIOUS
<1>1. /\ up /\ writing = None /\ queue # <<>> /\ queue' = Tail(queue)
      /\ UNCHANGED <<up, files, unsaved>>
      /\ IF r.ok
         THEN /\ games' = [games EXCEPT ![e] = r.state]
              /\ had' = [had EXCEPT ![e] = Append(@, Server!TttSnapshot(r.state))]
              /\ Server!Mirrored(e, r.state)
         ELSE UNCHANGED <<games, ttt_state, writing, had>>
  BY DEF Server!Execute
<1>2. m \in Messages /\ e \in 1 .. Len(games)
  <2>1. queue \in Seq(Messages) /\ 1 \in 1 .. Len(queue) /\ m = queue[1]
    BY <1>1 DEF ServerInv, ServerType
  <2> QED  BY <2>1, ElementOfSeq DEF ServerInv, ServerType
<1>3. games[e] \in Games \cup {None}
  BY <1>2, ServerParts
<1>4. r.ok => r.state \in Games
  <2>1. CASE "participants" \in DOMAIN m
    <3>1. PICK b : b = (games[e] = None)
      OBVIOUS
    <3>2. r = [ok |-> b, state |-> Server!Game!Initialize(m.participants, 0)]
      BY <2>1, <3>1
    <3>3. r.state = Server!Game!Initialize(m.participants, 0)
      BY <3>2
    <3> QED  BY <1>2, <2>1, <3>3, MessageParts, GameCreated
  <2>2. CASE "participants" \notin DOMAIN m /\ games[e] = None
    BY <2>2
  <2>3. CASE "participants" \notin DOMAIN m /\ games[e] # None
    <3>1. r = Server!Game!Execute(games[e], m.mv, m.by, 0)
      BY <2>3
    <3>2. CASE Server!Game!Accepts(games[e], m.mv, m.by)
      <4>1. r.state = Server!Game!Executed(games[e], m.mv)
        BY <3>1, <3>2 DEF Server!Game!Execute
      <4> QED  BY <1>3, <2>3, <3>2, <4>1, GameMoved
    <3>3. CASE ~ Server!Game!Accepts(games[e], m.mv, m.by)
      BY <3>1, <3>3 DEF Server!Game!Execute
    <3> QED  BY <3>2, <3>3
  <2> QED  BY <2>1, <2>2, <2>3
<1>5. CASE r.ok
  BY <1>1, <1>2, <1>4, <1>5
<1>6. CASE ~ r.ok
  BY <1>1, <1>2, <1>6
<1> QED  BY <1>5, <1>6

LEMMA ExecuteInv == ASSUME ServerInv, Server!Execute PROVE ServerInv'
<1> PICK n, e : n = Len(games) /\ e = Head(queue).episode
  OBVIOUS
<1>1. /\ e \in 1 .. n /\ up /\ writing = None /\ queue # <<>> /\ queue' = Tail(queue)
      /\ UNCHANGED <<up, files, unsaved>>
      /\ \/ \E g \in Games : /\ games' = [games EXCEPT ![e] = g]
                             /\ had' = [had EXCEPT ![e] = Append(@, Server!TttSnapshot(g))]
                             /\ Server!Mirrored(e, g)
         \/ UNCHANGED <<games, ttt_state, writing, had>>
  BY ExecuteOutcome
<1>2. /\ n \in Nat /\ \A i \in 1 .. n : Stored(i)
      /\ games \in Seq(Games \cup {None}) /\ ttt_state \in Seq(Snaps \cup {None})
      /\ files \in Seq(Snaps \cup {None, Broken}) /\ had \in Seq(Seq(Snaps)) /\ queue \in Seq(Messages)
      /\ Len(ttt_state) = n /\ Len(files) = n /\ Len(had) = n
      /\ \A i \in 1 .. Len(queue) : queue[i].episode \in 1 .. n
  BY ServerParts DEF ServerInv, ServerType
<1>3. queue' \in Seq(Messages) /\ \A i \in 1 .. Len(queue') : queue'[i].episode \in 1 .. n
  <2>1. /\ queue' \in Seq(Messages) /\ Len(queue') = Len(queue) - 1
        /\ \A i \in 1 .. Len(queue') : queue'[i] = queue[i + 1] /\ i + 1 \in 1 .. Len(queue)
    BY <1>1, <1>2
  <2> QED  BY <1>2, <2>1
<1>4. CASE UNCHANGED <<games, ttt_state, writing, had>>
  <2>1. ServerType' /\ Written'
    BY <1>1, <1>3, <1>4 DEF ServerInv, ServerType, Written, Latest
  <2>2. ASSUME NEW i \in 1 .. n PROVE Stored(i)'
    BY <1>1, <1>2, <1>4, StoredStays
  <2> QED  BY <1>4, <2>1, <2>2 DEF ServerInv
<1>5. ASSUME NEW g \in Games, games' = [games EXCEPT ![e] = g],
             had' = [had EXCEPT ![e] = Append(@, Server!TttSnapshot(g))], Server!Mirrored(e, g)
      PROVE  ServerInv'
  <2> PICK x, s, t : x = Server!TttSnapshot(g) /\ s = had[e] /\ t = Append(s, x)
    OBVIOUS
  <2>1. x \in Snaps /\ s \in Seq(Snaps) /\ e \in Nat
    BY <1>1, <1>2, Shows, ServerParts
  <2>2. /\ t \in Seq(Snaps) /\ t # <<>> /\ t[Len(t)] = x /\ x \in Contents(t)
        /\ Contents(s) \subseteq Contents(t)
    <3> PICK k : k = Len(s)
      OBVIOUS
    <3>1. /\ k \in Nat /\ t \in Seq(Snaps) /\ Len(t) = k + 1 /\ t[k + 1] = x
          /\ \A i \in 1 .. k : t[i] = s[i]
      BY <2>1, Appended
    <3>2. DOMAIN s = 1 .. k /\ DOMAIN t = 1 .. k + 1
      BY <2>1, <3>1
    <3> QED  BY <3>1, <3>2 DEF Contents
  <2>3. /\ games' \in Seq(Games \cup {None}) /\ Len(games') = n /\ games'[e] = g
        /\ \A i \in 1 .. n : i # e => games'[i] = games[i]
    BY <1>1, <1>2, <1>5
  <2>4. /\ had' \in Seq(Seq(Snaps)) /\ Len(had') = n /\ had'[e] = t
        /\ \A i \in 1 .. n : i # e => had'[i] = had[i]
    <3> PICK S : S = Seq(Snaps)
      OBVIOUS
    <3>1. had' = [had EXCEPT ![e] = t]
      BY <1>5
    <3>2. had \in Seq(S) /\ t \in S /\ e \in 1 .. Len(had)
      BY <1>1, <1>2, <2>2
    <3>3. /\ had' \in Seq(S) /\ Len(had') = Len(had)
          /\ \A i \in 1 .. Len(had) : had'[i] = IF i = e THEN t ELSE had[i]
      BY <3>1, <3>2, ExceptSeq
    <3> QED  BY <1>1, <1>2, <3>3
  <2>5. /\ ttt_state' = [ttt_state EXCEPT ![e] = x] /\ writing' = [episode |-> e, snap |-> x]
    BY <1>5 DEF Server!Mirrored
  <2>6. /\ ttt_state' \in Seq(Snaps \cup {None}) /\ Len(ttt_state') = n /\ ttt_state'[e] = x
        /\ \A i \in 1 .. n : i # e => ttt_state'[i] = ttt_state[i]
    BY <1>1, <1>2, <2>1, <2>5
  <2>7. writing' \in Writes /\ writing' # None /\ writing'.episode = e /\ writing'.snap = x
    BY <2>1, <2>5, ServerParts DEF Writes
  <2>8. Latest(e)' = x
    BY <2>2, <2>4 DEF Latest
  <2>9. ServerType' /\ Written'
    BY <1>1, <1>2, <1>3, <2>2, <2>3, <2>4, <2>6, <2>7, <2>8 DEF ServerType, Written
  <2>10. ASSUME NEW i \in 1 .. n PROVE Stored(i)'
    <3>1. CASE i = e
      <4>1. files'[e] \in Contents(t) \cup {None, Broken}
        BY <1>1, <1>2, <2>2 DEF Stored
      <4> QED  BY <1>1, <2>2, <2>3, <2>4, <2>6, <2>7, <2>8, <3>1, <4>1 DEF Stored
    <3>2. CASE i # e
      BY <1>1, <1>2, <2>3, <2>4, <2>6, <3>2, StoredStays
    <3> QED  BY <3>1, <3>2
  <2> QED  BY <2>3, <2>9, <2>10 DEF ServerInv
<1> QED  BY <1>1, <1>4, <1>5

LEMMA ServerNext == ServerInv /\ Server!Next => ServerInv'
<1> SUFFICES ASSUME ServerInv, Server!Next PROVE ServerInv'
  OBVIOUS
<1>1. ASSUME NEW a \in Server!Agents, Server!load_or_create_for_agent(a) PROVE ServerInv'
  BY <1>1, ServerKeys DEF Server!load_or_create_for_agent, Server!storeVars
<1> QED
  BY <1>1, NewInv, ExitInv, StartInv, ExecuteCommandInv, ExecuteInv, PersistInv DEF Server!Next

LEMMA ServerStays == ServerInv /\ UNCHANGED serverVars => ServerInv'
BY ServerKeys DEF serverVars

LEMMA ServerInit == Server!Init => ServerInv
<1> SUFFICES ASSUME Server!Init PROVE ServerInv
  OBVIOUS
<1> USE DEF Server!Init
<1>1. Len(games) = 0 /\ 1 .. Len(games) = {} /\ Len(queue) = 0 /\ \A S : <<>> \in Seq(S)
  OBVIOUS
<1>2. ServerType /\ Written
  BY <1>1 DEF ServerType, Written
<1> QED  BY <1>1, <1>2 DEF ServerInv

LEMMA ServerInvExplains == ServerInv => Server!SnapshotsExplained
<1> SUFFICES ASSUME ServerInv, NEW e \in 1 .. Len(games)
             PROVE  LET seen == had[e]
                        shown == ttt_state[e] IN
                    /\ files[e] \in Contents(seen) \cup {None, Broken}
                    /\ seen # <<>> /\ e \notin unsaved /\ (writing = None \/ writing.episode # e) =>
                          files[e] = seen[Len(seen)]
                    /\ up => /\ shown \in Contents(seen) \cup {None}
                             /\ games[e] # None =>
                                   shown = Server!TttSnapshot(games[e]) /\ shown = seen[Len(seen)]
                             /\ seen # <<>> /\ e \notin unsaved => shown = seen[Len(seen)]
  BY ServerParts
  DEF Server!SnapshotsExplained, Server!Started, Server!get_episode_state, Server!Contents, Contents
<1>1. Stored(e)
  BY DEF ServerInv
<1> QED  BY <1>1 DEF Stored, Latest

(* The snapshot of a game that a client of the MCP server is shown is the  *)
(* engine's, and the file has the last one, unless a write failed or the   *)
(* process ended; and a game of an earlier process is shown as it ended.   *)
THEOREM Snapshots == Spec => []SnapshotsExplained
<1>1. Init => ServerInv
  BY ServerInit DEF Init
<1>2. ServerInv /\ [Next]_vars => ServerInv'
  <2>1. [Next]_vars => Server!Next \/ UNCHANGED serverVars
    BY DEF Next, vars
  <2> QED  BY <2>1, ServerNext, ServerStays
<1>3. ServerInv => SnapshotsExplained
  BY ServerInvExplains DEF SnapshotsExplained
<1> QED  BY <1>1, <1>2, <1>3, PTL DEF Spec
-----------------------------------------------------------------------------
(* The daemon of kaspa-auth *)

KeyOf(k, u) == k \in 1 .. Len(made) /\ made[k].user = u

DiskOk ==
    /\ password = [u \in Users |-> password[u]] /\ key = [u \in Users |-> key[u]]
    /\ unlocked_identities = [u \in Users |-> unlocked_identities[u]]
    /\ IsSeq(made)
    /\ \A u \in Users : /\ key[u] # None => KeyOf(key[u], u)
                        /\ unlocked_identities[u] # None => KeyOf(unlocked_identities[u], u)

EpisodeShape(ep) ==
    /\ ep = [by |-> ep.by, sent |-> ep.sent, undo |-> ep.undo, state |-> ep.state, map |-> ep.map]
    /\ ep.by \in 1 .. Len(made)

ChainOk ==
    /\ IsSeq(auth_episodes) /\ Len(auth_episodes) <= MaxEpisodes
    /\ \A e \in 1 .. Len(auth_episodes) : EpisodeShape(auth_episodes[e])
    /\ active_sessions = [e \in 1 .. MaxEpisodes |-> active_sessions[e]]
    /\ \A e \in 1 .. MaxEpisodes : active_sessions[e] # None => e \in 1 .. Len(auth_episodes)

(* What a task of a connection holds *)
OnChain == {"request", "challenge", "respond", "token", "session"}

TaskOk(h) ==
    /\ h = [pc |-> h.pc, user |-> h.user, password |-> h.password, key |-> h.key,
            episode |-> h.episode, polls |-> h.polls, answer |-> h.answer]
    /\ h.pc \in {"idle", "key", "created", "load", "loaded", "new"} \cup OnChain
    /\ h.pc # "idle" => h.user \in Users
    /\ h.pc \in {"created", "loaded", "new"} \cup OnChain => KeyOf(h.key, h.user)
    /\ h.pc = "respond" => h.answer # None
    /\ IF h.pc \in OnChain
       THEN h.episode \in 1 .. Len(auth_episodes) /\ auth_episodes[h.episode].by = h.key
       ELSE h.episode = None

TasksOk ==
    /\ conn = [c \in Connections |-> conn[c]]
    /\ \A c \in Connections : TaskOk(conn[c])

(* Of a user whose creation met no other request *)
Makes(h, u) == h.user = u /\ h.pc \in {"key", "created"}
Uses(h, u) == h.user = u /\ h.pc \in {"key", "created", "load", "loaded"}

Identified(u) ==
    u \notin crossed =>
        /\ \A c, d \in Connections : Makes(conn[c], u) /\ Uses(conn[d], u) => c = d
        /\ \A c \in Connections : Uses(conn[c], u) =>
              /\ conn[c].pc = "key" => conn[c].password = password[u]
              /\ conn[c].pc \in {"created", "loaded"} => conn[c].key = key[u]
        /\ unlocked_identities[u] # None =>
              \/ unlocked_identities[u] = key[u]
              \/ \E c \in Connections : conn[c].user = u /\ conn[c].pc = "created"
        /\ key[u] # None /\ u \notin halfway =>
              \/ made[key[u]].password = password[u]
              \/ \E c \in Connections : conn[c].user = u /\ conn[c].pc = "key"

(* Of an episode that lost no block *)
Proofs == [time : Nat, by : Nat]

(* What was made for a challenge that a block gave *)
Given(token, by) ==
    /\ token \in Tokens /\ token # None
    /\ token.owner = by /\ token.challenge \in Proofs /\ token.challenge.time # 0

StateOk(st, by) ==
    /\ st = [owner |-> by, challenge |-> st.challenge, is_authenticated |-> st.is_authenticated,
             session_token |-> st.session_token, challenge_timestamp |-> st.challenge_timestamp,
             rate_limits |-> st.rate_limits]
    /\ st.challenge \in Proofs \cup {None} /\ st.challenge_timestamp \in Nat
    /\ st.session_token # None => Given(st.session_token, by) /\ st.is_authenticated = TRUE

Confirmed(ep, token) ==
    /\ ep.undo # <<>> /\ StateOk(ep.state, ep.by)
    /\ ep.state.is_authenticated = TRUE
    /\ ep.state.session_token = token

(* A token that the chain has, or that the peer gave: V is verified *)
Known(e, ep, token, V) ==
    Given(token, ep.by) /\ (Confirmed(ep, token) \/ <<e, token>> \in V)

Mapped(e, ep, map, V) ==
    map # None => /\ StateOk(map, ep.by)
                  /\ map.session_token # None => Known(e, ep, map.session_token, V)

Recorded(e, ep, V) ==
    /\ IsSeq(ep.sent) /\ IsSeq(ep.undo)
    /\ \A i \in 1 .. Len(ep.sent) :
          /\ ep.sent[i].name \in {"NewEpisode", "RequestChallenge", "SubmitResponse"}
          /\ ep.sent[i].name = "NewEpisode" => i = 1
          /\ ep.sent[i].name = "SubmitResponse" => ep.sent[i].nonce # None
    /\ ep.undo = <<>> => ep.state = None
    /\ ep.state # None => StateOk(ep.state, ep.by)
    /\ Mapped(e, ep, ep.map, V)

Settled(e) ==
    e \notin reverted =>
        LET ep == auth_episodes[e]
            session == active_sessions[e] IN
        /\ Recorded(e, ep, verified)
        /\ session # None => /\ Known(e, ep, session.session_token, verified)
                             /\ made[ep.by].user = session.username
        /\ \A c \in Connections : conn[c].pc = "session" /\ conn[c].episode = e =>
              Known(e, ep, conn[c].answer, verified)
        /\ e \notin lost => session # None \/ \E c \in Connections : conn[c].episode = e

DaemonWork ==
    /\ DiskOk /\ ChainOk /\ TasksOk
    /\ \A u \in Users : Identified(u)
    /\ \A e \in 1 .. Len(auth_episodes) : Settled(e)

DaemonInv == DaemonWork /\ (part = "daemon" => troubles \in Nat)

(* The keys and the episodes there are stay *)
OwnersStay == IsSeq(made') /\ \A k, u : KeyOf(k, u) => KeyOf(k, u)' /\ made'[k] = made[k]
EpisodesStay ==
    \A e \in 1 .. Len(auth_episodes) :
        e \in 1 .. Len(auth_episodes') /\ auth_episodes'[e].by = auth_episodes[e].by

LEMMA OwnersSame == ASSUME DiskOk, made' = made PROVE OwnersStay
BY DEF DiskOk, OwnersStay, KeyOf

LEMMA EpisodesSame == ASSUME auth_episodes' = auth_episodes PROVE EpisodesStay
BY DEF EpisodesStay

LEMMA TaskStays ==
  ASSUME NEW h, TaskOk(h), OwnersStay, EpisodesStay PROVE TaskOk(h)'
BY DEF TaskOk, OwnersStay, EpisodesStay

LEMMA TasksStep ==
  ASSUME TasksOk, OwnersStay, EpisodesStay, NEW c \in Connections, NEW h, TaskOk(h)',
         conn' = [conn EXCEPT ![c] = h]
  PROVE  TasksOk'
<1>1. conn' = [d \in Connections |-> conn'[d]]
  BY DEF TasksOk
<1>2. ASSUME NEW d \in Connections PROVE TaskOk(conn[d])'
  <2>1. CASE d = c
    BY <2>1 DEF TasksOk
  <2>2. CASE d # c
    <3> PICK g : g = conn[d]
      OBVIOUS
    <3>1. TaskOk(g)'
      BY TaskStays DEF TasksOk
    <3>2. conn'[d] = g
      BY <2>2 DEF TasksOk
    <3> QED  BY <3>1, <3>2 DEF TaskOk
  <2> QED  BY <2>1, <2>2
<1> QED  BY <1>1, <1>2 DEF TasksOk

LEMMA IdleOk == TaskOk(Daemon!Idle)' /\ Daemon!Idle.pc = "idle" /\ Daemon!Idle.episode = None
BY DEF TaskOk, Daemon!Idle, OnChain

(* A user of whom nothing changes but what may be forgotten *)
LEMMA IdentifiedStays ==
  ASSUME NEW u, Identified(u), password'[u] = password[u], key'[u] = key[u],
         unlocked_identities'[u] \in {unlocked_identities[u], None},
         crossed \subseteq crossed', halfway \subseteq halfway',
         key[u] # None => made'[key[u]] = made[key[u]],
         \A d \in Connections : Uses(conn'[d], u) \/ Makes(conn[d], u) => conn'[d] = conn[d]
  PROVE  Identified(u)'
<1>1. \A d \in Connections : /\ Uses(conn'[d], u) => conn'[d] = conn[d]
                             /\ Makes(conn'[d], u) => conn'[d] = conn[d]
                             /\ Makes(conn[d], u) => conn'[d] = conn[d]
  BY DEF Uses, Makes
<1> SUFFICES ASSUME u \notin crossed'
             PROVE  /\ \A c, d \in Connections : Makes(conn'[c], u) /\ Uses(conn'[d], u) => c = d
                    /\ \A c \in Connections : Uses(conn'[c], u) =>
                          /\ conn'[c].pc = "key" => conn'[c].password = password'[u]
                          /\ conn'[c].pc \in {"created", "loaded"} => conn'[c].key = key'[u]
                    /\ unlocked_identities'[u] # None =>
                          \/ unlocked_identities'[u] = key'[u]
                          \/ \E c \in Connections : conn'[c].user = u /\ conn'[c].pc = "created"
                    /\ key'[u] # None /\ u \notin halfway' =>
                          \/ made'[key'[u]].password = password'[u]
                          \/ \E c \in Connections : conn'[c].user = u /\ conn'[c].pc = "key"
  BY DEF Identified
<1>2. /\ \A c, d \in Connections : Makes(conn[c], u) /\ Uses(conn[d], u) => c = d
      /\ \A c \in Connections : Uses(conn[c], u) =>
            /\ conn[c].pc = "key" => conn[c].password = password[u]
            /\ conn[c].pc \in {"created", "loaded"} => conn[c].key = key[u]
      /\ unlocked_identities[u] # None =>
            \/ unlocked_identities[u] = key[u]
            \/ \E c \in Connections : conn[c].user = u /\ conn[c].pc = "created"
      /\ key[u] # None /\ u \notin halfway =>
            \/ made[key[u]].password = password[u]
            \/ \E c \in Connections : conn[c].user = u /\ conn[c].pc = "key"
  BY DEF Identified
<1>3. \A c, d \in Connections : Makes(conn'[c], u) /\ Uses(conn'[d], u) => c = d
  BY <1>1, <1>2
<1>4. \A c \in Connections : Uses(conn'[c], u) =>
         /\ conn'[c].pc = "key" => conn'[c].password = password'[u]
         /\ conn'[c].pc \in {"created", "loaded"} => conn'[c].key = key'[u]
  BY <1>1, <1>2
<1>5. \A c \in Connections : conn[c].user = u /\ conn[c].pc \in {"key", "created"} =>
         conn'[c] = conn[c]
  BY <1>1 DEF Makes
<1>6. unlocked_identities'[u] # None =>
         \/ unlocked_identities'[u] = key'[u]
         \/ \E c \in Connections : conn'[c].user = u /\ conn'[c].pc = "created"
  BY <1>2, <1>5
<1>7. key'[u] # None /\ u \notin halfway' =>
         \/ made'[key'[u]].password = password'[u]
         \/ \E c \in Connections : conn'[c].user = u /\ conn'[c].pc = "key"
  BY <1>2, <1>5
<1> QED  BY <1>3, <1>4, <1>6, <1>7

(* More was given *)
LEMMA KnownMore ==
  ASSUME NEW e, NEW ep, NEW token, NEW V, NEW W, V \subseteq W, Known(e, ep, token, V)
  PROVE  Known(e, ep, token, W)
BY DEF Known

LEMMA RecordedMore ==
  ASSUME NEW e, NEW ep, NEW V, NEW W, V \subseteq W, Recorded(e, ep, V)
  PROVE  Recorded(e, ep, W)
<1>1. Mapped(e, ep, ep.map, W)
  BY KnownMore DEF Recorded, Mapped
<1> QED  BY <1>1 DEF Recorded

(* An episode of which nothing changes *)
LEMMA SettledStays ==
  ASSUME NEW e, Settled(e), auth_episodes'[e] = auth_episodes[e],
         active_sessions'[e] = active_sessions[e],
         reverted \subseteq reverted', verified \subseteq verified', lost \subseteq lost',
         made'[auth_episodes[e].by] = made[auth_episodes[e].by],
         \A d \in Connections : conn'[d].pc = "session" /\ conn'[d].episode = e =>
            conn'[d] = conn[d],
         e \notin lost' => \A d \in Connections : conn[d].episode = e => conn'[d].episode = e
  PROVE  Settled(e)'
<1> PICK ep, s, V, W : /\ ep = auth_episodes[e] /\ s = active_sessions[e]
                       /\ V = verified /\ W = verified'
  OBVIOUS
<1> SUFFICES ASSUME e \notin reverted'
             PROVE  /\ Recorded(e, ep, W)
                    /\ s # None => Known(e, ep, s.session_token, W) /\ made'[ep.by].user = s.username
                    /\ \A d \in Connections : conn'[d].pc = "session" /\ conn'[d].episode = e =>
                          Known(e, ep, conn'[d].answer, W)
                    /\ e \notin lost' => s # None \/ \E d \in Connections : conn'[d].episode = e
  BY DEF Settled
<1>1. /\ Recorded(e, ep, V)
      /\ s # None => Known(e, ep, s.session_token, V) /\ made[ep.by].user = s.username
      /\ \A d \in Connections : conn[d].pc = "session" /\ conn[d].episode = e =>
            Known(e, ep, conn[d].answer, V)
      /\ e \notin lost => s # None \/ \E d \in Connections : conn[d].episode = e
  BY DEF Settled
<1>2. Recorded(e, ep, W)
  BY <1>1, RecordedMore
<1>3. \A token : Known(e, ep, token, V) => Known(e, ep, token, W)
  BY KnownMore
<1> QED  BY <1>1, <1>2, <1>3

(* A step of one task, of other users *)
LEMMA IdentifiedOthers ==
  ASSUME DaemonWork, OwnersStay, NEW u \in Users, NEW c \in Connections, NEW h,
         conn' = [conn EXCEPT ![c] = h], ~ Uses(h, u), ~ Makes(conn[c], u),
         password'[u] = password[u], key'[u] = key[u],
         unlocked_identities'[u] \in {unlocked_identities[u], None},
         crossed \subseteq crossed', halfway \subseteq halfway'
  PROVE  Identified(u)'
<1>1. key[u] # None => made'[key[u]] = made[key[u]]
  BY DEF DaemonWork, DiskOk, OwnersStay
<1>2. \A d \in Connections : Uses(conn'[d], u) \/ Makes(conn[d], u) => conn'[d] = conn[d]
  <2>1. conn = [d \in Connections |-> conn[d]]
    BY DEF DaemonWork, TasksOk
  <2>2. conn'[c] = h /\ \A d \in Connections : d # c => conn'[d] = conn[d]
    BY <2>1
  <2> QED  BY <2>2
<1>3. Identified(u)
  BY DEF DaemonWork
<1> QED  BY <1>1, <1>2, <1>3, IdentifiedStays

(* A step of one task that leaves the chain alone *)
LEMMA ChainStays ==
  ASSUME DaemonWork, OwnersStay, auth_episodes' = auth_episodes,
         active_sessions' = active_sessions
  PROVE  ChainOk'
<1>1. ASSUME NEW e \in 1 .. Len(auth_episodes) PROVE EpisodeShape(auth_episodes[e])'
  <2> PICK k : k = auth_episodes[e].by
    OBVIOUS
  <2>1. EpisodeShape(auth_episodes[e])
    BY DEF DaemonWork, ChainOk
  <2>2. KeyOf(k, made[k].user)
    BY <2>1 DEF KeyOf, EpisodeShape
  <2>3. k \in 1 .. Len(made')
    BY <2>2 DEF OwnersStay, KeyOf
  <2> QED  BY <2>1, <2>3 DEF EpisodeShape
<1> QED  BY <1>1 DEF DaemonWork, ChainOk

LEMMA OwnedStays ==
  ASSUME DaemonWork, OwnersStay, NEW e \in 1 .. Len(auth_episodes)
  PROVE  made'[auth_episodes[e].by] = made[auth_episodes[e].by]
<1> PICK k : k = auth_episodes[e].by
  OBVIOUS
<1>1. KeyOf(k, made[k].user)
  BY DEF DaemonWork, ChainOk, EpisodeShape, KeyOf
<1> QED  BY <1>1 DEF OwnersStay

LEMMA SettledOthers ==
  ASSUME DaemonWork, OwnersStay, NEW c \in Connections, NEW h,
         conn' = [conn EXCEPT ![c] = h], h.pc # "session",
         auth_episodes' = auth_episodes, active_sessions' = active_sessions,
         reverted' = reverted, verified' = verified, lost \subseteq lost',
         conn[c].episode \in {None, h.episode} \cup lost'
  PROVE  \A e \in 1 .. Len(auth_episodes) : Settled(e)'
<1> SUFFICES ASSUME NEW e \in 1 .. Len(auth_episodes) PROVE Settled(e)'
  OBVIOUS
<1>1. Settled(e) /\ made'[auth_episodes[e].by] = made[auth_episodes[e].by]
  BY OwnedStays DEF DaemonWork
<1>2. conn'[c] = h /\ \A d \in Connections : d # c => conn'[d] = conn[d]
  <2>1. conn = [d \in Connections |-> conn[d]]
    BY DEF DaemonWork, TasksOk
  <2> QED  BY <2>1
<1>3. e # None
  <2>1. Len(auth_episodes) \in Nat
    BY DEF DaemonWork, ChainOk, IsSeq
  <2> QED  BY <2>1, DaemonAssumption
<1>4. \A d \in Connections : conn'[d].pc = "session" /\ conn'[d].episode = e => conn'[d] = conn[d]
  BY <1>2
<1>5. e \notin lost' => \A d \in Connections : conn[d].episode = e => conn'[d].episode = e
  BY <1>2, <1>3
<1> QED  BY <1>1, <1>4, <1>5, SettledStays

LEMMA IdleTask == ASSUME DaemonWork, NEW c \in Connections, conn[c].pc = "idle"
                  PROVE  conn[c].episode = None /\ \A u : ~ Makes(conn[c], u) /\ ~ Uses(conn[c], u)
BY DEF DaemonWork, TasksOk, TaskOk, OnChain, Makes, Uses

LEMMA ConnParts == ASSUME DaemonWork, NEW c \in Connections, NEW h, conn' = [conn EXCEPT ![c] = h]
                   PROVE  conn'[c] = h /\ \A d \in Connections : d # c => conn'[d] = conn[d]
BY DEF DaemonWork, TasksOk

(* Nobody is about a user *)
Alone(u) == \A d \in Connections : ~ Uses(conn[d], u)

LEMMA CrossedAlone ==
  ASSUME NEW u
  PROVE  /\ Daemon!Creating(u) <=> \E d \in Connections : Makes(conn[d], u)
         /\ Daemon!Creating(u) \/ Daemon!Unlocking(u) <=> ~ Alone(u)
BY DEF Daemon!Creating, Daemon!Unlocking, Alone, Makes, Uses

(* A task's record *)
LEMMA TaskFields ==
  ASSUME NEW a, NEW u, NEW p, NEW k, NEW e, NEW n, NEW x, NEW h,
         h = [pc |-> a, user |-> u, password |-> p, key |-> k, episode |-> e, polls |-> n,
              answer |-> x]
  PROVE  /\ h.pc = a /\ h.user = u /\ h.password = p /\ h.key = k /\ h.episode = e
         /\ h.polls = n /\ h.answer = x
         /\ h = [pc |-> h.pc, user |-> h.user, password |-> h.password, key |-> h.key,
                 episode |-> h.episode, polls |-> h.polls, answer |-> h.answer]
OBVIOUS

LEMMA StartedTask ==
  ASSUME NEW u \in Users, NEW p, NEW step \in {"key", "load"}, NEW h,
         h = [pc |-> step, user |-> u, password |-> p, key |-> None, episode |-> None,
              polls |-> 0, answer |-> None]
  PROVE  TaskOk(h)'
<1>1. /\ h.pc = step /\ h.user = u /\ h.episode = None
      /\ h = [pc |-> h.pc, user |-> h.user, password |-> h.password, key |-> h.key,
              episode |-> h.episode, polls |-> h.polls, answer |-> h.answer]
  OBVIOUS
<1>2. h.pc \notin {"created", "loaded", "new"} \cup OnChain /\ h.pc \in {"key", "load"}
  BY <1>1 DEF OnChain
<1> QED  BY <1>1, <1>2 DEF TaskOk

LEMMA CreateIdentityInv ==
  ASSUME DaemonWork, NEW c \in Connections, Daemon!create_identity(c) PROVE DaemonWork'
<1> PICK u \in Users, p \in Passwords :
       /\ conn[c].pc = "idle" /\ password' = [password EXCEPT ![u] = p]
       /\ conn' = [conn EXCEPT ![c] = [Daemon!Idle EXCEPT !.pc = "key", !.user = u, !.password = p]]
       /\ crossed' = IF Daemon!Creating(u) \/ Daemon!Unlocking(u) THEN crossed \cup {u} ELSE crossed
       /\ UNCHANGED <<key, made, unlocked_identities, active_sessions, auth_episodes, halfway,
                      lost, reverted, verified>>
  BY DEF Daemon!create_identity, Daemon!Arrives, Daemon!store_password_hash, Daemon!memoryVars
<1> PICK h : h = [Daemon!Idle EXCEPT !.pc = "key", !.user = u, !.password = p]
  OBVIOUS
<1>1. h = [pc |-> "key", user |-> u, password |-> p, key |-> None, episode |-> None,
           polls |-> 0, answer |-> None]
  BY DEF Daemon!Idle
<1>2. OwnersStay /\ EpisodesStay /\ DiskOk /\ TasksOk /\ conn[c].episode = None
  BY OwnersSame, EpisodesSame, IdleTask DEF DaemonWork
<1>3. TaskOk(h)'
  BY <1>1, StartedTask
<1>4. TasksOk' /\ ChainOk'
  BY <1>2, <1>3, TasksStep, ChainStays
<1>5. DiskOk'
  BY <1>2 DEF DiskOk, KeyOf
<1>6. \A e \in 1 .. Len(auth_episodes) : Settled(e)'
  BY <1>1, <1>2, SettledOthers
<1>7. ASSUME NEW v \in Users PROVE Identified(v)'
  <2>1. CASE v # u
    <3>1. ~ Uses(h, v) /\ ~ Makes(conn[c], v) /\ password'[v] = password[v]
      BY <1>1, <1>2, <2>1, IdleTask DEF Uses, DiskOk
    <3> QED  BY <1>2, <3>1, IdentifiedOthers
  <2>2. CASE v = u /\ u \notin crossed'
    <3>1. Alone(u) /\ u \notin crossed
      BY <2>2, CrossedAlone
    <3>2. conn'[c] = h /\ \A d \in Connections : d # c => conn'[d] = conn[d]
      BY ConnParts
    <3>3. password'[u] = p
      BY <1>2 DEF DiskOk
    <3>4. \A d \in Connections : Uses(conn'[d], u) => d = c
      BY <3>1, <3>2 DEF Alone
    <3>5. \A d, b \in Connections : Makes(conn'[d], u) /\ Uses(conn'[b], u) => d = b
      BY <3>4 DEF Makes, Uses
    <3>6. \A d \in Connections : Uses(conn'[d], u) =>
             /\ conn'[d].pc = "key" => conn'[d].password = password'[u]
             /\ conn'[d].pc \in {"created", "loaded"} => conn'[d].key = key'[u]
      BY <1>1, <3>2, <3>3, <3>4
    <3>7. unlocked_identities[u] # None => unlocked_identities[u] = key[u]
      BY <3>1 DEF DaemonWork, Identified, Alone, Uses
    <3>8. conn'[c].user = u /\ conn'[c].pc = "key"
      BY <1>1, <3>2
    <3> QED  BY <2>2, <3>5, <3>6, <3>7, <3>8 DEF Identified
  <2>3. CASE v = u /\ u \in crossed'
    BY <2>3 DEF Identified
  <2> QED  BY <2>1, <2>2, <2>3
<1> QED  BY <1>4, <1>5, <1>6, <1>7 DEF DaemonWork

LEMMA CreateWalletInv ==
  ASSUME DaemonWork, NEW c \in Connections, Daemon!create_wallet(c) PROVE DaemonWork'
<1> PICK u, k, g : u = conn[c].user /\ k = Len(made) + 1 /\ g = conn[c]
  OBVIOUS
<1>1. /\ g.pc = "key"
      /\ \/ /\ made' = Append(made, [user |-> u, password |-> g.password])
            /\ key' = [key EXCEPT ![u] = k]
            /\ conn' = [conn EXCEPT ![c].pc = "created", ![c].key = k]
            /\ UNCHANGED halfway
         \/ /\ halfway' = halfway \cup {u}
            /\ conn' = [conn EXCEPT ![c] = Daemon!Idle]
            /\ UNCHANGED <<made, key>>
      /\ UNCHANGED <<password, unlocked_identities, active_sessions, auth_episodes, crossed,
                     lost, reverted, verified>>
  BY DEF Daemon!create_wallet, Daemon!Done, Daemon!memoryVars
<1>2. /\ u \in Users /\ g.user = u /\ g.episode = None /\ TaskOk(g) /\ Makes(g, u) /\ Uses(g, u)
      /\ g = [pc |-> g.pc, user |-> g.user, password |-> g.password, key |-> g.key,
              episode |-> g.episode, polls |-> g.polls, answer |-> g.answer]
      /\ \A v : v # u => ~ Makes(g, v)
  BY <1>1 DEF DaemonWork, TasksOk, TaskOk, OnChain, Makes, Uses
<1>3. DiskOk /\ TasksOk /\ EpisodesStay
  BY <1>1, EpisodesSame DEF DaemonWork
<1>4. \A d \in Connections : u \notin crossed /\ Uses(conn[d], u) => d = c
  BY <1>2 DEF DaemonWork, Identified
<1>5. u \notin crossed /\ unlocked_identities[u] # None => unlocked_identities[u] = key[u]
  BY <1>1, <1>2, <1>4 DEF DaemonWork, Identified, Uses
<1>6. CASE conn' = [conn EXCEPT ![c] = Daemon!Idle] /\ halfway' = halfway \cup {u}
           /\ UNCHANGED <<made, key>>
  <2> PICK h : h = Daemon!Idle
    OBVIOUS
  <2>1. OwnersStay /\ TaskOk(h)' /\ h.pc = "idle" /\ h.episode = None
    BY <1>3, <1>6, OwnersSame, IdleOk
  <2>2. conn' = [conn EXCEPT ![c] = h]
    BY <1>6
  <2>3. TasksOk' /\ ChainOk' /\ DiskOk'
    BY <1>1, <1>3, <1>6, <2>1, <2>2, TasksStep, ChainStays DEF DiskOk, KeyOf
  <2>4. \A e \in 1 .. Len(auth_episodes) : Settled(e)'
    BY <1>1, <1>2, <2>1, <2>2, SettledOthers
  <2>5. \A v : ~ Uses(h, v) /\ ~ Makes(h, v)
    BY <2>1 DEF Uses, Makes
  <2>6. ASSUME NEW v \in Users PROVE Identified(v)'
    <3>1. CASE v # u
      BY <1>1, <1>2, <1>6, <2>1, <2>2, <2>5, <3>1, IdentifiedOthers
    <3>2. CASE v = u
      <4>1. u \notin crossed => \A d \in Connections : ~ Uses(conn'[d], u)
        BY <1>4, <2>2, <2>5, ConnParts
      <4> QED  BY <1>1, <1>5, <1>6, <3>2, <4>1, ZenonT(40) DEF Identified, Makes, Uses
    <3> QED  BY <3>1, <3>2
  <2> QED  BY <1>1, <2>3, <2>4, <2>6 DEF DaemonWork
<1>7. CASE /\ made' = Append(made, [user |-> u, password |-> g.password])
           /\ key' = [key EXCEPT ![u] = k]
           /\ conn' = [conn EXCEPT ![c].pc = "created", ![c].key = k]
           /\ UNCHANGED halfway
  <2> PICK h : h = [g EXCEPT !.pc = "created", !.key = k]
    OBVIOUS
  <2>1. conn' = [conn EXCEPT ![c] = h]
    BY <1>3, <1>7 DEF TasksOk
  <2>2. h = [pc |-> "created", user |-> u, password |-> g.password, key |-> k,
             episode |-> None, polls |-> g.polls, answer |-> g.answer]
    BY <1>2
  <2>3. /\ IsSeq(made') /\ Len(made) \in Nat /\ Len(made') = k
        /\ made'[k].user = u /\ made'[k].password = g.password
        /\ \A i \in 1 .. Len(made) : made'[i] = made[i]
    <3> PICK x, m : x = [user |-> u, password |-> g.password] /\ m = made
      OBVIOUS
    <3>1. IsSeq(m) /\ made' = Append(m, x) /\ x.user = u /\ x.password = g.password
      BY <1>3, <1>7 DEF DiskOk
    <3>2. /\ IsSeq(Append(m, x)) /\ Len(m) \in Nat /\ Len(Append(m, x)) = Len(m) + 1
          /\ Append(m, x)[Len(m) + 1] = x
          /\ \A i \in 1 .. Len(m) : Append(m, x)[i] = m[i]
      BY <3>1, Prolonged
    <3> QED  BY <3>1, <3>2
  <2>4. OwnersStay
    BY <2>3 DEF OwnersStay, KeyOf
  <2>5. KeyOf(k, u)'
    BY <2>3 DEF KeyOf
  <2>6. TaskOk(h)'
    <3>1. /\ h.pc = "created" /\ h.user = u /\ h.key = k /\ h.episode = None
          /\ h = [pc |-> h.pc, user |-> h.user, password |-> h.password, key |-> h.key,
                  episode |-> h.episode, polls |-> h.polls, answer |-> h.answer]
      BY ONLY <2>2, TaskFields
    <3>2. h.pc \notin OnChain
      BY <3>1 DEF OnChain
    <3> QED  BY <1>2, <2>5, <3>1, <3>2 DEF TaskOk
  <2>7. TasksOk' /\ ChainOk'
    BY <1>1, <1>3, <2>1, <2>4, <2>6, TasksStep, ChainStays
  <2>8. DiskOk'
    <3>1. ASSUME NEW v \in Users
          PROVE  /\ (key[v] # None => KeyOf(key[v], v))'
                 /\ (unlocked_identities[v] # None => KeyOf(unlocked_identities[v], v))'
      <4> PICK x, y : x = unlocked_identities[v] /\ y = key[v]
        OBVIOUS
      <4>1. x # None => KeyOf(x, v)'
        BY <1>3, <2>4 DEF DiskOk, OwnersStay
      <4>2. y # None => KeyOf(y, v)'
        BY <1>3, <2>4 DEF DiskOk, OwnersStay
      <4>3. key'[v] = IF v = u THEN k ELSE key[v]
        BY <1>3, <1>7 DEF DiskOk
      <4> QED  BY <1>1, <2>5, <4>1, <4>2, <4>3 DEF KeyOf
    <3>2. key' = [v \in Users |-> key'[v]]
      BY <1>3, <1>7 DEF DiskOk
    <3> QED  BY <1>1, <1>3, <2>3, <3>1, <3>2 DEF DiskOk
  <2>9. \A e \in 1 .. Len(auth_episodes) : Settled(e)'
    BY <1>1, <1>2, <2>1, <2>2, <2>4, SettledOthers
  <2>10. ASSUME NEW v \in Users PROVE Identified(v)'
    <3>1. CASE v # u
      <4>1. ~ Uses(h, v) /\ key'[v] = key[v]
        BY <1>3, <1>7, <2>2, <3>1 DEF Uses, DiskOk
      <4> QED  BY <1>1, <1>2, <1>7, <2>1, <2>4, <3>1, <4>1, IdentifiedOthers
    <3>2. CASE v = u /\ u \notin crossed
      <4>1. conn'[c] = h /\ \A d \in Connections : d # c => conn'[d] = conn[d]
        BY <2>1, ConnParts
      <4>2. \A d \in Connections : Uses(conn'[d], u) => d = c
        BY <1>4, <3>2, <4>1
      <4>3. \A d, b \in Connections : Makes(conn'[d], u) /\ Uses(conn'[b], u) => d = b
        BY <4>2 DEF Makes, Uses
      <4>4. key'[u] = k
        BY <1>2, <1>3, <1>7 DEF DiskOk
      <4>5. \A d \in Connections : Uses(conn'[d], u) =>
               /\ conn'[d].pc = "key" => conn'[d].password = password'[u]
               /\ conn'[d].pc \in {"created", "loaded"} => conn'[d].key = key'[u]
        <5>1. h.pc = "created" /\ h.key = k
          BY <2>2
        <5> QED  BY <4>1, <4>2, <4>4, <5>1
      <4>6. g.password = password[u]
        BY <1>1, <1>2, <3>2 DEF DaemonWork, Identified
      <4>7. conn'[c].user = u /\ conn'[c].pc = "created"
        BY <2>2, <4>1
      <4> QED  BY <1>1, <2>3, <3>2, <4>3, <4>4, <4>5, <4>6, <4>7 DEF Identified
    <3>3. CASE v = u /\ u \in crossed
      BY <1>1, <3>3 DEF Identified
    <3> QED  BY <3>1, <3>2, <3>3
  <2> QED  BY <1>1, <2>7, <2>8, <2>9, <2>10 DEF DaemonWork
<1> QED  BY <1>1, <1>6, <1>7

LEMMA VerifyPasswordInv ==
  ASSUME DaemonWork, NEW c \in Connections, Daemon!verify_password(c) PROVE DaemonWork'
<1> PICK u \in Users, p \in Passwords :
       /\ conn[c].pc = "idle"
       /\ conn' = [conn EXCEPT ![c] = [Daemon!Idle EXCEPT !.pc = "load", !.user = u, !.password = p]]
       /\ crossed' = IF Daemon!Creating(u) THEN crossed \cup {u} ELSE crossed
       /\ UNCHANGED <<password, key, made, unlocked_identities, active_sessions, auth_episodes,
                      halfway, lost, reverted, verified>>
  BY DEF Daemon!verify_password, Daemon!Arrives, Daemon!memoryVars, Daemon!diskVars
<1> PICK h : h = [Daemon!Idle EXCEPT !.pc = "load", !.user = u, !.password = p]
  OBVIOUS
<1>1. h = [pc |-> "load", user |-> u, password |-> p, key |-> None, episode |-> None,
           polls |-> 0, answer |-> None]
  BY DEF Daemon!Idle
<1>2. OwnersStay /\ EpisodesStay /\ DiskOk /\ TasksOk /\ conn[c].episode = None
  BY OwnersSame, EpisodesSame, IdleTask DEF DaemonWork
<1>3. TaskOk(h)'
  BY <1>1, StartedTask
<1>4. TasksOk' /\ ChainOk'
  BY <1>2, <1>3, TasksStep, ChainStays
<1>5. DiskOk'
  BY <1>2 DEF DiskOk, KeyOf
<1>6. \A e \in 1 .. Len(auth_episodes) : Settled(e)'
  BY <1>1, <1>2, SettledOthers
<1>7. ASSUME NEW v \in Users PROVE Identified(v)'
  <2>1. CASE v # u
    <3>1. ~ Uses(h, v) /\ ~ Makes(conn[c], v)
      BY <1>1, <2>1, IdleTask DEF Uses
    <3> QED  BY <1>2, <3>1, IdentifiedOthers
  <2>2. CASE v = u /\ u \notin crossed'
    <3>1. u \notin crossed /\ \A d \in Connections : ~ Makes(conn[d], u)
      BY <2>2, CrossedAlone
    <3>2. conn'[c] = h /\ \A d \in Connections : d # c => conn'[d] = conn[d]
      BY ConnParts
    <3>3. \A d \in Connections : ~ Makes(conn'[d], u)
      BY <1>1, <3>1, <3>2 DEF Makes
    <3>4. \A d \in Connections : Uses(conn'[d], u) /\ conn'[d].pc \in {"created", "loaded"} =>
             conn'[d] = conn[d]
      BY <1>1, <3>2
    <3>5. \A d \in Connections : Uses(conn'[d], u) =>
             /\ conn'[d].pc = "key" => conn'[d].password = password'[u]
             /\ conn'[d].pc \in {"created", "loaded"} => conn'[d].key = key'[u]
      BY <3>1, <3>3, <3>4 DEF DaemonWork, Identified, Makes, Uses
    <3>6. unlocked_identities[u] # None => unlocked_identities[u] = key[u]
      BY <3>1 DEF DaemonWork, Identified, Makes
    <3>7. key[u] # None /\ u \notin halfway => made[key[u]].password = password[u]
      BY <3>1 DEF DaemonWork, Identified, Makes
    <3> QED  BY <2>2, <3>3, <3>5, <3>6, <3>7 DEF Identified
  <2>3. CASE v = u /\ u \in crossed'
    BY <2>3 DEF Identified
  <2> QED  BY <2>1, <2>2, <2>3
<1> QED  BY <1>4, <1>5, <1>6, <1>7 DEF DaemonWork

(* A step of a task that is about no identity *)
LEMMA IdentifiedQuiet ==
  ASSUME DaemonWork, NEW c \in Connections, NEW h, conn' = [conn EXCEPT ![c] = h],
         h.pc \notin {"key", "created", "load", "loaded"}, conn[c].pc \notin {"key", "created"},
         UNCHANGED <<password, key, made, unlocked_identities, crossed, halfway>>
  PROVE  OwnersStay /\ DiskOk' /\ \A u \in Users : Identified(u)'
<1>1. OwnersStay /\ DiskOk'
  BY OwnersSame DEF DaemonWork, DiskOk, KeyOf
<1>2. ASSUME NEW u \in Users PROVE Identified(u)'
  <2>1. ~ Uses(h, u) /\ ~ Makes(conn[c], u)
    BY DEF Uses, Makes
  <2> QED  BY <1>1, <2>1, IdentifiedOthers
<1> QED  BY <1>1, <1>2

(* A task that is done *)
LEMMA DoneOk ==
  ASSUME DaemonWork, OwnersStay, EpisodesStay, NEW c \in Connections,
         conn' = [conn EXCEPT ![c] = Daemon!Idle]
  PROVE  TasksOk' /\ Daemon!Idle.pc = "idle" /\ Daemon!Idle.episode = None
<1> PICK h : h = Daemon!Idle
  OBVIOUS
<1>1. TaskOk(h)' /\ TasksOk /\ conn' = [conn EXCEPT ![c] = h]
  BY IdleOk DEF DaemonWork
<1> QED  BY <1>1, IdleOk, TasksStep

LEMMA LoadWalletInv ==
  ASSUME DaemonWork, NEW c \in Connections, Daemon!load_wallet(c) PROVE DaemonWork'
<1> PICK u, k, g : u = conn[c].user /\ k = key[u] /\ g = conn[c]
  OBVIOUS
<1>1. /\ g.pc = "load"
      /\ \/ k = None /\ conn' = [conn EXCEPT ![c] = Daemon!Idle]
         \/ k # None /\ conn' = [conn EXCEPT ![c].pc = "loaded", ![c].key = k]
      /\ UNCHANGED <<password, key, made, unlocked_identities, active_sessions, auth_episodes,
                     crossed, halfway, lost, reverted, verified>>
  BY DEF Daemon!load_wallet, Daemon!Done, Daemon!memoryVars, Daemon!diskVars, Daemon!historyVars
<1>2. /\ u \in Users /\ g.user = u /\ g.episode = None /\ TaskOk(g) /\ Uses(g, u)
      /\ g = [pc |-> g.pc, user |-> g.user, password |-> g.password, key |-> g.key,
              episode |-> g.episode, polls |-> g.polls, answer |-> g.answer]
      /\ \A v : ~ Makes(g, v)
  BY <1>1 DEF DaemonWork, TasksOk, TaskOk, OnChain, Makes, Uses
<1>3. DiskOk /\ TasksOk /\ EpisodesStay /\ OwnersStay /\ DiskOk' /\ ChainOk'
  BY <1>1, EpisodesSame, OwnersSame, ChainStays DEF DaemonWork, DiskOk, KeyOf
<1>4. CASE conn' = [conn EXCEPT ![c] = Daemon!Idle]
  <2> PICK h : h = Daemon!Idle
    OBVIOUS
  <2>1. TasksOk' /\ h.pc = "idle" /\ h.episode = None
    BY <1>3, <1>4, DoneOk
  <2>2. \A v \in Users : Identified(v)'
    BY <1>1, <1>4, <2>1, IdentifiedQuiet
  <2>3. \A e \in 1 .. Len(auth_episodes) : Settled(e)'
    BY <1>1, <1>2, <1>3, <1>4, <2>1, SettledOthers
  <2> QED  BY <1>1, <1>3, <2>1, <2>2, <2>3 DEF DaemonWork
<1>5. CASE k # None /\ conn' = [conn EXCEPT ![c].pc = "loaded", ![c].key = k]
  <2> PICK h : h = [g EXCEPT !.pc = "loaded", !.key = k]
    OBVIOUS
  <2>1. conn' = [conn EXCEPT ![c] = h]
    BY <1>3, <1>5 DEF TasksOk
  <2>2. h = [pc |-> "loaded", user |-> u, password |-> g.password, key |-> k,
             episode |-> None, polls |-> g.polls, answer |-> g.answer]
    BY <1>2
  <2>3. /\ h.pc = "loaded" /\ h.user = u /\ h.key = k /\ h.episode = None
        /\ h = [pc |-> h.pc, user |-> h.user, password |-> h.password, key |-> h.key,
                episode |-> h.episode, polls |-> h.polls, answer |-> h.answer]
    BY ONLY <2>2, TaskFields
  <2>4. KeyOf(k, u)'
    BY <1>2, <1>3, <1>5 DEF DiskOk, OwnersStay
  <2>5. h.pc \notin OnChain
    BY <2>3 DEF OnChain
  <2>6. TaskOk(h)'
    BY <1>2, <2>3, <2>4, <2>5 DEF TaskOk
  <2>7. TasksOk'
    BY <1>3, <2>1, <2>6, TasksStep
  <2>8. \A e \in 1 .. Len(auth_episodes) : Settled(e)'
    BY <1>1, <1>2, <1>3, <2>1, <2>3, SettledOthers
  <2>9. ASSUME NEW v \in Users PROVE Identified(v)'
    <3>1. CASE v # u
      <4>1. ~ Uses(h, v)
        BY <2>3, <3>1 DEF Uses
      <4> QED  BY <1>1, <1>2, <1>3, <2>1, <4>1, IdentifiedOthers
    <3>2. CASE v = u /\ u \notin crossed
      <4>1. conn'[c] = h /\ \A d \in Connections : d # c => conn'[d] = conn[d]
        BY <2>1, ConnParts
      <4>2. \A d \in Connections : ~ Makes(conn[d], u)
        BY <1>1, <1>2, <3>2 DEF DaemonWork, Identified, Makes, Uses
      <4>3. \A d \in Connections : ~ Makes(conn'[d], u)
        BY <2>3, <4>1, <4>2 DEF Makes
      <4>4. \A d \in Connections : Uses(conn'[d], u) =>
               /\ conn'[d].pc = "key" => conn'[d].password = password'[u]
               /\ conn'[d].pc \in {"created", "loaded"} => conn'[d].key = key'[u]
        <5> SUFFICES ASSUME NEW d \in Connections, Uses(conn'[d], u)
                     PROVE  /\ conn'[d].pc = "key" => conn'[d].password = password'[u]
                            /\ conn'[d].pc \in {"created", "loaded"} => conn'[d].key = key'[u]
          OBVIOUS
        <5>1. CASE d = c
          BY <1>1, <2>3, <4>1, <5>1
        <5>2. CASE d # c
          <6>1. conn'[d] = conn[d] /\ Uses(conn[d], u)
            BY <4>1, <5>2
          <6> QED  BY <1>1, <3>2, <6>1 DEF DaemonWork, Identified
        <5> QED  BY <5>1, <5>2
      <4>5. /\ unlocked_identities[u] # None => unlocked_identities[u] = key[u]
            /\ key[u] # None /\ u \notin halfway => made[key[u]].password = password[u]
        BY <3>2, <4>2 DEF DaemonWork, Identified, Makes
      <4> QED  BY <1>1, <3>2, <4>3, <4>4, <4>5 DEF Identified
    <3>3. CASE v = u /\ u \in crossed
      BY <1>1, <3>3 DEF Identified
    <3> QED  BY <3>1, <3>2, <3>3
  <2> QED  BY <1>1, <1>3, <2>7, <2>8, <2>9 DEF DaemonWork
<1> QED  BY <1>1, <1>4, <1>5

LEMMA InsertInv ==
  ASSUME DaemonWork, NEW c \in Connections, Daemon!Insert(c) PROVE DaemonWork'
<1> PICK u, k, g : u = conn[c].user /\ k = conn[c].key /\ g = conn[c]
  OBVIOUS
<1>1. /\ g.pc \in {"created", "loaded"}
      /\ unlocked_identities' = [unlocked_identities EXCEPT ![u] = k]
      /\ conn' = [conn EXCEPT ![c] = Daemon!Idle]
      /\ UNCHANGED <<password, key, made, active_sessions, auth_episodes, crossed, halfway, lost,
                     reverted, verified>>
  BY DEF Daemon!Insert, Daemon!Done, Daemon!diskVars, Daemon!historyVars
<1>2. u \in Users /\ g.user = u /\ g.key = k /\ g.episode = None /\ Uses(g, u) /\ KeyOf(k, u)
  BY <1>1 DEF DaemonWork, TasksOk, TaskOk, OnChain, Uses
<1>3. DiskOk /\ TasksOk /\ EpisodesStay /\ OwnersStay /\ ChainOk'
  BY <1>1, EpisodesSame, OwnersSame, ChainStays DEF DaemonWork
<1> PICK h : h = Daemon!Idle
  OBVIOUS
<1>4. TasksOk' /\ h.pc = "idle" /\ h.episode = None
  BY <1>1, <1>3, DoneOk
<1>5. /\ unlocked_identities' = [v \in Users |-> unlocked_identities'[v]]
      /\ \A v \in Users : unlocked_identities'[v] = IF v = u THEN k ELSE unlocked_identities[v]
  BY <1>1, <1>3 DEF DiskOk
<1>6. DiskOk'
  <2>1. ASSUME NEW v \in Users
        PROVE  /\ (key[v] # None => KeyOf(key[v], v))'
               /\ (unlocked_identities[v] # None => KeyOf(unlocked_identities[v], v))'
    BY <1>1, <1>2, <1>3, <1>5 DEF DiskOk, KeyOf
  <2> QED  BY <1>1, <1>3, <1>5, <2>1 DEF DiskOk
<1>7. \A e \in 1 .. Len(auth_episodes) : Settled(e)'
  BY <1>1, <1>2, <1>3, <1>4, SettledOthers
<1>8. ASSUME NEW v \in Users PROVE Identified(v)'
  <2>1. ~ Uses(h, v) /\ ~ Makes(h, v)
    BY <1>4 DEF Uses, Makes
  <2>2. CASE v # u
    <3>1. ~ Makes(g, v) /\ unlocked_identities'[v] = unlocked_identities[v]
      BY <1>2, <1>5, <2>2 DEF Makes
    <3> QED  BY <1>1, <1>3, <2>1, <3>1, IdentifiedOthers
  <2>3. CASE v = u /\ u \notin crossed
    <3>1. conn'[c] = h /\ \A d \in Connections : d # c => conn'[d] = conn[d]
      BY <1>1, ConnParts
    <3>2. \A d, b \in Connections : Makes(conn[d], u) /\ Uses(conn[b], u) => d = b
      BY <2>3 DEF DaemonWork, Identified
    <3>3. \A d, b \in Connections : Makes(conn'[d], u) /\ Uses(conn'[b], u) => d = b
      BY <2>1, <2>3, <3>1, <3>2
    <3>4. ASSUME NEW d \in Connections, Uses(conn'[d], u)
          PROVE  /\ conn'[d].pc = "key" => conn'[d].password = password'[u]
                 /\ conn'[d].pc \in {"created", "loaded"} => conn'[d].key = key'[u]
      <4>1. conn'[d] = conn[d] /\ Uses(conn[d], u)
        BY <2>1, <2>3, <3>1, <3>4
      <4> QED  BY <1>1, <2>3, <4>1 DEF DaemonWork, Identified
    <3>5. unlocked_identities'[u] = key'[u]
      BY <1>1, <1>2, <1>5, <2>3 DEF DaemonWork, Identified
    <3>6. key[u] # None /\ u \notin halfway =>
             \/ made[key[u]].password = password[u]
             \/ \E d \in Connections : conn'[d].user = u /\ conn'[d].pc = "key"
      <4>1. \A d \in Connections : conn[d].user = u /\ conn[d].pc = "key" => conn'[d] = conn[d]
        BY <1>1, <3>1
      <4>2. key[u] # None /\ u \notin halfway =>
               \/ made[key[u]].password = password[u]
               \/ \E d \in Connections : conn[d].user = u /\ conn[d].pc = "key"
        BY <2>3 DEF DaemonWork, Identified
      <4> QED  BY <4>1, <4>2
    <3> QED  BY <1>1, <2>3, <3>3, <3>4, <3>5, <3>6 DEF Identified
  <2>4. CASE v = u /\ u \in crossed
    BY <1>1, <2>4 DEF Identified
  <2> QED  BY <2>2, <2>3, <2>4
<1> QED  BY <1>1, <1>3, <1>4, <1>6, <1>7, <1>8 DEF DaemonWork

LEMMA LockAllInv ==
  ASSUME DaemonWork, NEW c \in Connections, Daemon!lock_all_identities(c) PROVE DaemonWork'
<1>1. /\ unlocked_identities' = [u \in Users |-> None]
      /\ UNCHANGED <<password, key, made, active_sessions, conn, auth_episodes, crossed, halfway,
                     lost, reverted, verified>>
  BY DEF Daemon!lock_all_identities, Daemon!diskVars, Daemon!historyVars
<1>2. DiskOk' /\ OwnersStay /\ EpisodesStay /\ ChainOk'
  BY <1>1, OwnersSame, EpisodesSame, ChainStays DEF DaemonWork, DiskOk, KeyOf
<1>3. TasksOk'
  BY <1>1 DEF DaemonWork, TasksOk, TaskOk, KeyOf
<1>4. ASSUME NEW u \in Users PROVE Identified(u)'
  <2>1. Identified(u) /\ unlocked_identities'[u] = None
    BY <1>1 DEF DaemonWork
  <2> QED  BY <1>1, <2>1, IdentifiedStays
<1>5. \A e \in 1 .. Len(auth_episodes) : Settled(e)'
  BY <1>1 DEF DaemonWork, Settled
<1> QED  BY <1>1, <1>2, <1>3, <1>4, <1>5 DEF DaemonWork

LEMMA AuthenticateInv ==
  ASSUME DaemonWork, NEW c \in Connections, Daemon!authenticate(c) PROVE DaemonWork'
<1> PICK u \in Users :
       /\ conn[c].pc = "idle" /\ unlocked_identities[u] # None
       /\ conn' = [conn EXCEPT ![c] =
             [Daemon!Idle EXCEPT !.pc = "new", !.user = u, !.key = unlocked_identities[u]]]
       /\ UNCHANGED <<password, key, made, unlocked_identities, active_sessions, auth_episodes,
                      crossed, halfway, lost, reverted, verified>>
  BY DEF Daemon!authenticate, Daemon!Arrives, Daemon!memoryVars, Daemon!diskVars, Daemon!historyVars
<1> PICK k : k = unlocked_identities[u]
  OBVIOUS
<1> PICK h : h = [Daemon!Idle EXCEPT !.pc = "new", !.user = u, !.key = k]
  OBVIOUS
<1>1. h = [pc |-> "new", user |-> u, password |-> None, key |-> k, episode |-> None,
           polls |-> 0, answer |-> None]
  BY DEF Daemon!Idle
<1>2. /\ h.pc = "new" /\ h.user = u /\ h.key = k /\ h.episode = None
      /\ h = [pc |-> h.pc, user |-> h.user, password |-> h.password, key |-> h.key,
              episode |-> h.episode, polls |-> h.polls, answer |-> h.answer]
  BY ONLY <1>1, TaskFields
<1>3. conn' = [conn EXCEPT ![c] = h] /\ conn[c].episode = None
  BY IdleTask
<1>4. EpisodesStay /\ OwnersStay /\ DiskOk' /\ ChainOk' /\ \A v \in Users : Identified(v)'
  <2>1. h.pc \notin {"key", "created", "load", "loaded"} /\ conn[c].pc \notin {"key", "created"}
    BY <1>2
  <2>2. OwnersStay /\ DiskOk' /\ \A v \in Users : Identified(v)'
    BY <1>3, <2>1, IdentifiedQuiet
  <2> QED  BY <2>2, EpisodesSame, ChainStays
<1>5. TaskOk(h)'
  <2>1. KeyOf(k, u)'
    BY <1>4 DEF DaemonWork, DiskOk, OwnersStay
  <2>2. h.pc \notin OnChain
    BY <1>2 DEF OnChain
  <2> QED  BY <1>2, <2>1, <2>2 DEF TaskOk
<1>6. TasksOk'
  BY <1>3, <1>4, <1>5, TasksStep DEF DaemonWork
<1>7. \A e \in 1 .. Len(auth_episodes) : Settled(e)'
  BY <1>2, <1>3, <1>4, SettledOthers
<1> QED  BY <1>4, <1>6, <1>7 DEF DaemonWork

(* An episode goes on, and so does the flow about it *)
GoesOn(e, ep, new) ==
    /\ EpisodeShape(new) /\ new.by = ep.by
    /\ Recorded(e, ep, verified) =>
          /\ Recorded(e, new, verified')
          /\ \A token : Known(e, ep, token, verified) => Known(e, new, token, verified')

FlowsOn(g, h, ep, V) ==
    /\ h = [pc |-> h.pc, user |-> h.user, password |-> h.password, key |-> h.key,
            episode |-> h.episode, polls |-> h.polls, answer |-> h.answer]
    /\ h.pc \in OnChain /\ h.user = g.user /\ h.key = g.key /\ h.episode = g.episode
    /\ h.pc = "respond" => h.answer # None
    /\ h.pc = "session" => (Recorded(h.episode, ep, V) => Known(h.episode, ep, h.answer, V))

LEMMA SettledGoesOn ==
  ASSUME NEW e, Settled(e), NEW ep, auth_episodes'[e] = ep, GoesOn(e, auth_episodes[e], ep),
         active_sessions'[e] = active_sessions[e],
         reverted \subseteq reverted', verified \subseteq verified', lost \subseteq lost',
         made'[auth_episodes[e].by] = made[auth_episodes[e].by],
         \A d \in Connections : conn'[d].pc = "session" /\ conn'[d].episode = e =>
            conn'[d] = conn[d]
               \/ (Recorded(e, ep, verified') => Known(e, ep, conn'[d].answer, verified')),
         e \notin lost' => \A d \in Connections : conn[d].episode = e => conn'[d].episode = e
  PROVE  Settled(e)'
<1> SUFFICES ASSUME e \notin reverted'
             PROVE  /\ Recorded(e, ep, verified')
                    /\ active_sessions'[e] # None =>
                          /\ Known(e, ep, active_sessions'[e].session_token, verified')
                          /\ made'[ep.by].user = active_sessions'[e].username
                    /\ \A d \in Connections : conn'[d].pc = "session" /\ conn'[d].episode = e =>
                          Known(e, ep, conn'[d].answer, verified')
                    /\ e \notin lost' =>
                          active_sessions'[e] # None \/ \E d \in Connections : conn'[d].episode = e
  BY DEF Settled
<1> QED  BY DEF Settled, GoesOn

(* What is written to the chain changes one episode *)
LEMMA ChainReplaced ==
  ASSUME DaemonWork, OwnersStay, NEW e \in 1 .. Len(auth_episodes), NEW ep,
         EpisodeShape(ep), ep.by = auth_episodes[e].by,
         auth_episodes' = [auth_episodes EXCEPT ![e] = ep], made' = made,
         active_sessions' = active_sessions
  PROVE  /\ ChainOk' /\ EpisodesStay /\ Len(auth_episodes') = Len(auth_episodes)
         /\ auth_episodes'[e] = ep
         /\ \A i \in 1 .. Len(auth_episodes) : i # e => auth_episodes'[i] = auth_episodes[i]
<1> PICK s, n, S : s = auth_episodes /\ n = Len(auth_episodes) /\ S = Contents(s) \cup {ep}
  OBVIOUS
<1>1. s \in Seq(S) /\ ep \in S /\ n \in Nat /\ n <= MaxEpisodes
  BY DEF DaemonWork, ChainOk, IsSeq
<1>2. /\ IsSeq(auth_episodes') /\ Len(auth_episodes') = n /\ auth_episodes'[e] = ep
      /\ \A i \in 1 .. n : i # e => auth_episodes'[i] = s[i]
  <2>1. /\ auth_episodes' \in Seq(S) /\ Len(auth_episodes') = Len(s)
        /\ \A i \in 1 .. Len(s) : auth_episodes'[i] = IF i = e THEN ep ELSE s[i]
    BY <1>1, ExceptSeq
  <2> QED  BY <2>1, IsSeqOf
<1>3. ASSUME NEW i \in 1 .. n PROVE EpisodeShape(auth_episodes[i])'
  BY <1>2 DEF DaemonWork, ChainOk, EpisodeShape
<1>4. ChainOk'
  BY <1>1, <1>2, <1>3 DEF DaemonWork, ChainOk
<1>5. EpisodesStay
  BY <1>2 DEF EpisodesStay
<1> QED  BY <1>2, <1>4, <1>5

(* A command is sent *)
Sent(ep, said) == [ep EXCEPT !.sent = Append(@, said)]

LEMMA SentOk ==
  ASSUME NEW e, NEW ep, EpisodeShape(ep), NEW said,
         said.name \in {"RequestChallenge", "SubmitResponse"},
         said.name = "SubmitResponse" => said.nonce # None,
         verified' = verified
  PROVE  GoesOn(e, ep, Sent(ep, said))
<1> PICK new, V : new = Sent(ep, said) /\ V = verified
  OBVIOUS
<1>1. new = [by |-> ep.by, sent |-> Append(ep.sent, said), undo |-> ep.undo, state |-> ep.state,
             map |-> ep.map]
  BY DEF EpisodeShape, Sent
<1>2. /\ new.by = ep.by /\ new.sent = Append(ep.sent, said) /\ new.undo = ep.undo
      /\ new.state = ep.state /\ new.map = ep.map
      /\ new = [by |-> new.by, sent |-> new.sent, undo |-> new.undo, state |-> new.state,
                map |-> new.map]
  BY <1>1
<1>3. EpisodeShape(new)
  BY <1>2 DEF EpisodeShape
<1>5. ASSUME NEW token, Known(e, ep, token, V) PROVE Known(e, new, token, V)
  BY <1>2, <1>5 DEF Known, Confirmed
<1>4. ASSUME Recorded(e, ep, V) PROVE Recorded(e, new, V)
  <2> PICK s, n : s = ep.sent /\ n = Len(s)
    OBVIOUS
  <2>1. /\ IsSeq(Append(s, said)) /\ n \in Nat /\ Len(Append(s, said)) = n + 1
        /\ Append(s, said)[n + 1] = said /\ \A i \in 1 .. n : Append(s, said)[i] = s[i]
    BY <1>4, Prolonged DEF Recorded
  <2>2. \A i \in 1 .. n + 1 : i \in 1 .. n \/ i = n + 1
    BY <2>1
  <2>3. said.name # "NewEpisode"
    OBVIOUS
  <2>4. \A i \in 1 .. Len(new.sent) :
           /\ new.sent[i].name \in {"NewEpisode", "RequestChallenge", "SubmitResponse"}
           /\ new.sent[i].name = "NewEpisode" => i = 1
           /\ new.sent[i].name = "SubmitResponse" => new.sent[i].nonce # None
    BY <1>2, <1>4, <2>1, <2>2, <2>3 DEF Recorded
  <2>5. Mapped(e, new, new.map, V)
    BY <1>2, <1>4, <1>5 DEF Recorded, Mapped
  <2> QED  BY <1>2, <1>4, <2>1, <2>4, <2>5 DEF Recorded
<1> QED  BY <1>2, <1>3, <1>4, <1>5 DEF GoesOn

(* What a task does about its episode *)
LEMMA ChainStep ==
  ASSUME DaemonWork, NEW c \in Connections, NEW h, conn' = [conn EXCEPT ![c] = h],
         UNCHANGED <<password, key, made, unlocked_identities, active_sessions, crossed, halfway,
                     reverted, verified>>,
         lost \subseteq lost',
         conn[c].pc \in OnChain, NEW e, conn[c].episode = e, NEW ep,
         \/ auth_episodes' = [auth_episodes EXCEPT ![e] = ep]
         \/ auth_episodes' = auth_episodes /\ ep = auth_episodes[e],
         GoesOn(e, auth_episodes[e], ep),
         (h = Daemon!Idle /\ e \in lost') \/ FlowsOn(conn[c], h, ep, verified')
  PROVE  DaemonWork'
<1>1. /\ TaskOk(conn[c]) /\ e \in 1 .. Len(auth_episodes) /\ KeyOf(conn[c].key, conn[c].user)
      /\ conn[c].user \in Users /\ auth_episodes[e].by = conn[c].key /\ conn[c].pc # "idle"
      /\ conn[c].pc \notin {"key", "created"}
  BY DEF DaemonWork, TasksOk, TaskOk, OnChain
<1>2. OwnersStay
  BY OwnersSame DEF DaemonWork
<1>3. /\ ChainOk' /\ EpisodesStay /\ Len(auth_episodes') = Len(auth_episodes)
      /\ auth_episodes'[e] = ep
      /\ \A i \in 1 .. Len(auth_episodes) : i # e => auth_episodes'[i] = auth_episodes[i]
  <2>1. CASE auth_episodes' = [auth_episodes EXCEPT ![e] = ep]
    BY <1>1, <1>2, <2>1, ChainReplaced DEF GoesOn
  <2>2. CASE auth_episodes' = auth_episodes /\ ep = auth_episodes[e]
    BY <1>2, <2>2, ChainStays, EpisodesSame
  <2> QED  BY <2>1, <2>2
<1>4. /\ TasksOk' /\ h.pc \notin {"key", "created", "load", "loaded"}
      /\ h.episode # e => e \in lost' /\ h.pc # "session"
      /\ h.pc = "session" => h.episode = e
      /\ h.pc = "session" => (Recorded(e, ep, verified') => Known(e, ep, h.answer, verified'))
  <2>1. CASE h = Daemon!Idle /\ e \in lost'
    BY <1>2, <1>3, <2>1, DoneOk
  <2>2. CASE FlowsOn(conn[c], h, ep, verified')
    <3>1. KeyOf(conn[c].key, conn[c].user) /\ made' = made
      BY <1>1
    <3>2. KeyOf(h.key, h.user)'
      BY <2>2, <3>1 DEF KeyOf, FlowsOn
    <3>3. h.episode \in 1 .. Len(auth_episodes') /\ auth_episodes'[h.episode].by = h.key
      BY <1>1, <1>3, <2>2 DEF FlowsOn, GoesOn
    <3>4. TaskOk(h)'
      BY <1>1, <2>2, <3>2, <3>3 DEF TaskOk, OnChain, FlowsOn
    <3>5. TasksOk'
      BY <1>2, <1>3, <3>4, TasksStep DEF DaemonWork
    <3>6. h.pc \notin {"key", "created", "load", "loaded"} /\ h.episode = e
      BY <2>2 DEF OnChain, FlowsOn
    <3> QED  BY <2>2, <3>5, <3>6 DEF FlowsOn
  <2> QED  BY <2>1, <2>2
<1>5. DiskOk' /\ \A u \in Users : Identified(u)'
  BY <1>1, <1>4, IdentifiedQuiet
<1>6. conn'[c] = h /\ \A d \in Connections : d # c => conn'[d] = conn[d]
  BY ConnParts
<1>7. ASSUME NEW i \in 1 .. Len(auth_episodes) PROVE Settled(i)'
  <2>1. Settled(i) /\ made'[auth_episodes[i].by] = made[auth_episodes[i].by]
    BY DEF DaemonWork
  <2>2. i \notin lost' => \A d \in Connections : conn[d].episode = i => conn'[d].episode = i
    BY <1>4, <1>6
  <2>3. CASE i # e
    <3>1. \A d \in Connections : conn'[d].pc = "session" /\ conn'[d].episode = i =>
             conn'[d] = conn[d]
      BY <1>4, <1>6, <2>3
    <3> QED  BY <1>3, <2>1, <2>2, <2>3, <3>1, SettledStays
  <2>4. CASE i = e
    <3>1. \A d \in Connections : conn'[d].pc = "session" /\ conn'[d].episode = e =>
             conn'[d] = conn[d]
             \/ (Recorded(e, ep, verified') => Known(e, ep, conn'[d].answer, verified'))
      BY <1>4, <1>6
    <3> QED  BY <1>3, <2>1, <2>2, <2>4, <3>1, SettledGoesOn
  <2> QED  BY <2>3, <2>4
<1> QED  BY <1>3, <1>4, <1>5, <1>7 DEF DaemonWork

(* What comes of a command that a flow sends *)
LEMMA SendCommandInv ==
  ASSUME DaemonWork, NEW c \in Connections, NEW said, NEW step \in OnChain, step # "session",
         step # "respond", said.name \in {"RequestChallenge", "SubmitResponse"},
         said.name = "SubmitResponse" => said.nonce # None,
         conn[c].pc \in OnChain, Daemon!SendCommand(c, said, step)
  PROVE  DaemonWork'
<1> PICK e, g, old : e = conn[c].episode /\ g = conn[c] /\ old = auth_episodes[e]
  OBVIOUS
<1> PICK h : h = [g EXCEPT !.pc = step, !.polls = 0, !.answer = None]
  OBVIOUS
<1>1. /\ TaskOk(g) /\ e \in 1 .. Len(auth_episodes) /\ e # None /\ EpisodeShape(old)
      /\ g = [pc |-> g.pc, user |-> g.user, password |-> g.password, key |-> g.key,
              episode |-> g.episode, polls |-> g.polls, answer |-> g.answer]
  <2>1. TaskOk(g) /\ e \in 1 .. Len(auth_episodes) /\ Len(auth_episodes) \in Nat
    BY DEF DaemonWork, TasksOk, TaskOk, ChainOk, IsSeq
  <2> QED  BY <2>1, DaemonAssumption DEF DaemonWork, ChainOk, TaskOk
<1> PICK ep : ep = Sent(old, said)
  OBVIOUS
<1>2. GoesOn(e, old, ep)
  <2>1. verified' = verified
    BY DEF Daemon!SendCommand
  <2> QED  BY <1>1, <2>1, SentOk
<1>3. /\ UNCHANGED <<password, key, made, unlocked_identities, active_sessions, crossed, halfway,
                     reverted, verified>>
      /\ lost \subseteq lost'
      /\ \/ auth_episodes' = [auth_episodes EXCEPT ![e] = ep]
         \/ auth_episodes' = auth_episodes
      /\ \/ /\ conn' = [conn EXCEPT ![c] = h]
            /\ auth_episodes' = [auth_episodes EXCEPT ![e] = ep]
         \/ conn' = [conn EXCEPT ![c] = Daemon!Idle] /\ e \in lost'
  <2>1. conn = [d \in Connections |-> conn[d]]
    BY DEF DaemonWork, TasksOk
  <2>2. [auth_episodes EXCEPT ![e].sent = Append(@, said)] = [auth_episodes EXCEPT ![e] = ep]
    BY DEF Sent
  <2>3. [conn EXCEPT ![c].pc = step, ![c].polls = 0, ![c].answer = None]
           = [conn EXCEPT ![c] = h]
    BY <2>1
  <2> QED  BY <1>1, <2>2, <2>3 DEF Daemon!SendCommand, Daemon!Submit, Daemon!Fail, Daemon!Done,
                                  Daemon!diskVars, Daemon!memoryVars
<1>4. FlowsOn(g, h, ep, verified')
  BY <1>1 DEF FlowsOn
<1>5. CASE conn' = [conn EXCEPT ![c] = h] /\ auth_episodes' = [auth_episodes EXCEPT ![e] = ep]
  BY <1>3, <1>2, <1>4, <1>5, ChainStep
<1>6. CASE conn' = [conn EXCEPT ![c] = Daemon!Idle] /\ e \in lost'
           /\ auth_episodes' = [auth_episodes EXCEPT ![e] = ep]
  <2> PICK i : i = Daemon!Idle
    OBVIOUS
  <2>1. conn' = [conn EXCEPT ![c] = i]
    BY <1>6
  <2> QED  BY <1>3, <1>2, <1>6, <2>1, ChainStep
<1>7. CASE conn' = [conn EXCEPT ![c] = Daemon!Idle] /\ e \in lost'
           /\ auth_episodes' = auth_episodes
  <2> PICK i : i = Daemon!Idle
    OBVIOUS
  <2>1. conn' = [conn EXCEPT ![c] = i]
    BY <1>7
  <2>2. GoesOn(e, old, old)
    BY <1>1, <1>3 DEF GoesOn
  <2> QED  BY <1>1, <1>3, <1>7, <2>1, <2>2, ChainStep
<1> QED  BY <1>3, <1>5, <1>6, <1>7

LEMMA SendCommandsInv ==
  ASSUME DaemonWork, NEW c \in Connections,
         Daemon!SendRequestChallenge(c) \/ Daemon!SendSubmitResponse(c)
  PROVE  DaemonWork'
<1>1. CASE Daemon!SendRequestChallenge(c)
  <2> PICK said, step : said = [name |-> "RequestChallenge"] /\ step = "challenge"
    OBVIOUS
  <2>1. Daemon!SendCommand(c, said, step) /\ conn[c].pc = "request"
    BY <1>1 DEF Daemon!SendRequestChallenge
  <2>2. /\ step \in OnChain /\ step # "session" /\ step # "respond" /\ conn[c].pc \in OnChain
        /\ said.name \in {"RequestChallenge", "SubmitResponse"}
        /\ said.name = "SubmitResponse" => said.nonce # None
    BY <2>1 DEF OnChain, DaemonWork, TasksOk, TaskOk
  <2> QED  BY <2>1, <2>2, SendCommandInv
<1>2. CASE Daemon!SendSubmitResponse(c)
  <2> PICK said, step :
         said = [name |-> "SubmitResponse", nonce |-> conn[c].answer] /\ step = "token"
    OBVIOUS
  <2>1. Daemon!SendCommand(c, said, step) /\ conn[c].pc = "respond"
    BY <1>2 DEF Daemon!SendSubmitResponse
  <2>2. /\ step \in OnChain /\ step # "session" /\ step # "respond" /\ conn[c].pc \in OnChain
        /\ said.name \in {"RequestChallenge", "SubmitResponse"}
        /\ said.name = "SubmitResponse" => said.nonce # None
    BY <2>1 DEF OnChain, DaemonWork, TasksOk, TaskOk
  <2> QED  BY <2>1, <2>2, SendCommandInv
<1> QED  BY <1>1, <1>2

(* The episode of a flow *)
LEMMA EpisodeParts ==
  ASSUME DaemonWork, NEW c \in Connections, conn[c].pc \in OnChain
  PROVE  /\ conn[c].episode \in 1 .. Len(auth_episodes) /\ conn[c].episode # None
         /\ EpisodeShape(auth_episodes[conn[c].episode]) /\ TaskOk(conn[c])
         /\ conn[c].user \in Users /\ KeyOf(conn[c].key, conn[c].user)
         /\ auth_episodes[conn[c].episode].by = conn[c].key
         /\ verified' = verified =>
               GoesOn(conn[c].episode, auth_episodes[conn[c].episode],
                      auth_episodes[conn[c].episode])
<1> PICK g, e, ep : g = conn[c] /\ e = g.episode /\ ep = auth_episodes[e]
  OBVIOUS
<1>1. TaskOk(g) /\ g.pc \in OnChain /\ Len(auth_episodes) \in Nat
  BY DEF DaemonWork, TasksOk, ChainOk, IsSeq
<1>2. /\ e \in 1 .. Len(auth_episodes) /\ g.user \in Users /\ KeyOf(g.key, g.user)
      /\ ep.by = g.key
  BY <1>1 DEF TaskOk, OnChain
<1>3. EpisodeShape(ep)
  BY <1>2 DEF DaemonWork, ChainOk
<1>4. verified' = verified => GoesOn(e, ep, ep)
  BY <1>3 DEF GoesOn
<1>5. e # None
  BY <1>1, <1>2, DaemonAssumption
<1> QED  BY <1>1, <1>2, <1>3, <1>4, <1>5

LEMMA FlowPollInv ==
  ASSUME DaemonWork, NEW c \in Connections, Daemon!Poll(c) PROVE DaemonWork'
<1> PICK g, e, ep : g = conn[c] /\ e = g.episode /\ ep = auth_episodes[e]
  OBVIOUS
<1> PICK x, next :
       /\ x = IF g.pc = "challenge" THEN Daemon!get_status(c, "challenge") ELSE Daemon!SessionToken(c)
       /\ next = IF g.pc = "challenge" THEN "respond" ELSE "session"
  OBVIOUS
<1>1. /\ g.pc \in {"challenge", "token"}
      /\ \/ x # None /\ conn' = [conn EXCEPT ![c].pc = next, ![c].answer = x] /\ UNCHANGED lost
         \/ conn' = [conn EXCEPT ![c] = Daemon!Idle] /\ lost' = lost \cup {e}
         \/ conn' = [conn EXCEPT ![c].polls = @ + 1] /\ UNCHANGED lost
      /\ UNCHANGED <<password, key, made, unlocked_identities, active_sessions, auth_episodes,
                     crossed, halfway, reverted, verified>>
  BY DEF Daemon!Poll, Daemon!Fail, Daemon!Done, Daemon!diskVars, Daemon!memoryVars
<1>2. /\ g.pc \in OnChain /\ e \in 1 .. Len(auth_episodes) /\ GoesOn(e, ep, ep)
      /\ g = [pc |-> g.pc, user |-> g.user, password |-> g.password, key |-> g.key,
              episode |-> g.episode, polls |-> g.polls, answer |-> g.answer]
  BY <1>1, EpisodeParts DEF OnChain, TaskOk
<1>3. conn = [d \in Connections |-> conn[d]]
  BY DEF DaemonWork, TasksOk
<1>4. CASE x # None /\ conn' = [conn EXCEPT ![c].pc = next, ![c].answer = x] /\ UNCHANGED lost
  <2> PICK h : h = [g EXCEPT !.pc = next, !.answer = x]
    OBVIOUS
  <2>1. conn' = [conn EXCEPT ![c] = h]
    BY <1>3, <1>4
  <2>2. h = [pc |-> next, user |-> g.user, password |-> g.password, key |-> g.key,
             episode |-> g.episode, polls |-> g.polls, answer |-> x]
    BY <1>2
  <2>3. /\ h.pc = next /\ h.user = g.user /\ h.key = g.key /\ h.episode = g.episode
        /\ h.answer = x
        /\ h = [pc |-> h.pc, user |-> h.user, password |-> h.password, key |-> h.key,
                episode |-> h.episode, polls |-> h.polls, answer |-> h.answer]
    BY ONLY <2>2, TaskFields
  <2>4. ASSUME next = "session", Recorded(e, ep, verified) PROVE Known(e, ep, x, verified)
    <3>1. x = IF ep.map = None THEN None ELSE ep.map["session_token"]
      BY <1>1, <2>4 DEF Daemon!SessionToken, Daemon!get_status
    <3>2. Mapped(e, ep, ep.map, verified)
      BY <2>4 DEF Recorded
    <3>3. ep.map # None /\ x = ep.map.session_token /\ x # None
      BY <1>4, <3>1
    <3> QED  BY <3>2, <3>3 DEF Mapped
  <2>5. next \in OnChain
    BY DEF OnChain
  <2>6. FlowsOn(g, h, ep, verified')
    BY <1>1, <1>4, <2>3, <2>4, <2>5 DEF FlowsOn
  <2> QED  BY <1>1, <1>2, <1>4, <2>1, <2>6, ChainStep
<1>5. CASE conn' = [conn EXCEPT ![c] = Daemon!Idle] /\ lost' = lost \cup {e}
  <2> PICK h : h = Daemon!Idle
    OBVIOUS
  <2>1. conn' = [conn EXCEPT ![c] = h] /\ e \in lost' /\ lost \subseteq lost'
    BY <1>5
  <2> QED  BY <1>1, <1>2, <2>1, ChainStep
<1>6. CASE conn' = [conn EXCEPT ![c].polls = @ + 1] /\ UNCHANGED lost
  <2> PICK h : h = [g EXCEPT !.polls = @ + 1]
    OBVIOUS
  <2>1. conn' = [conn EXCEPT ![c] = h]
    BY <1>3, <1>6
  <2>2. h = [pc |-> g.pc, user |-> g.user, password |-> g.password, key |-> g.key,
             episode |-> g.episode, polls |-> g.polls + 1, answer |-> g.answer]
    BY <1>2
  <2>3. /\ h.pc = g.pc /\ h.user = g.user /\ h.key = g.key /\ h.episode = g.episode
        /\ h = [pc |-> h.pc, user |-> h.user, password |-> h.password, key |-> h.key,
                episode |-> h.episode, polls |-> h.polls, answer |-> h.answer]
    BY ONLY <2>2, TaskFields
  <2>4. FlowsOn(g, h, ep, verified')
    BY <1>1, <1>2, <2>3 DEF FlowsOn
  <2> QED  BY <1>1, <1>2, <1>6, <2>1, <2>4, ChainStep
<1> QED  BY <1>1, <1>4, <1>5, <1>6

(* What is done to the sessions alone *)
LEMMA SessionsOk ==
  ASSUME DaemonWork, OwnersStay, auth_episodes' = auth_episodes, NEW e \in 1 .. MaxEpisodes,
         NEW s, s # None => e \in 1 .. Len(auth_episodes),
         active_sessions' = [active_sessions EXCEPT ![e] = s]
  PROVE  /\ ChainOk' /\ active_sessions'[e] = s
         /\ \A i \in 1 .. Len(auth_episodes) : i # e => active_sessions'[i] = active_sessions[i]
<1>1. /\ active_sessions' = [i \in 1 .. MaxEpisodes |-> active_sessions'[i]]
      /\ active_sessions'[e] = s
      /\ \A i \in 1 .. MaxEpisodes : i # e => active_sessions'[i] = active_sessions[i]
  BY DEF DaemonWork, ChainOk
<1>2. ASSUME NEW i \in 1 .. Len(auth_episodes) PROVE EpisodeShape(auth_episodes[i])'
  <2> PICK k : k = auth_episodes[i].by
    OBVIOUS
  <2>1. EpisodeShape(auth_episodes[i])
    BY DEF DaemonWork, ChainOk
  <2>2. KeyOf(k, made[k].user)
    BY <2>1 DEF KeyOf, EpisodeShape
  <2>3. k \in 1 .. Len(made')
    BY <2>2 DEF OwnersStay, KeyOf
  <2> QED  BY <2>1, <2>3 DEF EpisodeShape
<1>3. ChainOk'
  BY <1>1, <1>2 DEF DaemonWork, ChainOk
<1>4. Len(auth_episodes) \in Nat /\ Len(auth_episodes) <= MaxEpisodes
  BY DEF DaemonWork, ChainOk, IsSeq
<1>5. \A i \in 1 .. Len(auth_episodes) : i \in 1 .. MaxEpisodes
  BY <1>4, DaemonAssumption
<1> QED  BY <1>1, <1>3, <1>5

LEMMA InsertSessionInv ==
  ASSUME DaemonWork, NEW c \in Connections, Daemon!InsertSession(c) PROVE DaemonWork'
<1> PICK g, e, ep, s :
       /\ g = conn[c] /\ e = g.episode /\ ep = auth_episodes[e]
       /\ s = [username |-> g.user, session_token |-> g.answer]
  OBVIOUS
<1>1. /\ g.pc = "session" /\ active_sessions' = [active_sessions EXCEPT ![e] = s]
      /\ conn' = [conn EXCEPT ![c] = Daemon!Idle]
      /\ UNCHANGED <<password, key, made, unlocked_identities, auth_episodes,
                     crossed, halfway, lost, reverted, verified>>
  BY DEF Daemon!InsertSession, Daemon!Done, Daemon!diskVars, Daemon!historyVars
<1>2. /\ e \in 1 .. Len(auth_episodes) /\ g.user \in Users /\ KeyOf(g.key, g.user) /\ e # None
      /\ ep.by = g.key /\ EpisodeShape(ep)
  BY <1>1, EpisodeParts DEF OnChain
<1>3. OwnersStay /\ EpisodesStay /\ e \in 1 .. MaxEpisodes
  <2>1. OwnersStay /\ EpisodesStay
    BY <1>1, OwnersSame, EpisodesSame DEF DaemonWork
  <2>2. Len(auth_episodes) \in Nat /\ Len(auth_episodes) <= MaxEpisodes
    BY DEF DaemonWork, ChainOk, IsSeq
  <2> QED  BY <1>2, <2>1, <2>2, DaemonAssumption
<1>4. /\ ChainOk' /\ active_sessions'[e] = s
      /\ \A i \in 1 .. Len(auth_episodes) : i # e => active_sessions'[i] = active_sessions[i]
  BY <1>1, <1>2, <1>3, SessionsOk
<1> PICK h : h = Daemon!Idle
  OBVIOUS
<1>5. conn' = [conn EXCEPT ![c] = h] /\ TasksOk' /\ h.pc = "idle" /\ h.episode = None
  BY <1>1, <1>3, DoneOk
<1>6. DiskOk' /\ \A u \in Users : Identified(u)'
  BY <1>1, <1>5, IdentifiedQuiet
<1>7. conn'[c] = h /\ \A d \in Connections : d # c => conn'[d] = conn[d]
  BY <1>5, ConnParts
<1>8. ASSUME NEW i \in 1 .. Len(auth_episodes) PROVE Settled(i)'
  <2>1. Settled(i) /\ auth_episodes'[i] = auth_episodes[i] /\ made' = made
    BY <1>1 DEF DaemonWork
  <2>2. \A d \in Connections : conn'[d].pc = "session" => conn'[d] = conn[d]
    BY <1>5, <1>7
  <2>3. CASE i # e
    <3>1. \A d \in Connections : conn[d].episode = i => conn'[d].episode = i
      BY <1>7, <2>3
    <3> QED  BY <1>1, <1>4, <2>1, <2>2, <2>3, <3>1, SettledStays
  <2>4. CASE i = e /\ e \notin reverted
    <3>1. /\ Recorded(e, ep, verified) /\ Known(e, ep, g.answer, verified)
          /\ \A d \in Connections : conn[d].pc = "session" /\ conn[d].episode = e =>
                Known(e, ep, conn[d].answer, verified)
      BY <1>1, <2>1, <2>4 DEF Settled
    <3>2. made[ep.by].user = g.user
      BY <1>2 DEF KeyOf
    <3>3. s # None /\ s.username = g.user /\ s.session_token = g.answer
      <4>1. g.answer \in Tokens
        BY <3>1 DEF Known, Given
      <4> QED  BY <1>2, <4>1, DaemonAssumption DEF Tokens, Proofs
    <3>4. \A d \in Connections : conn'[d].pc = "session" /\ conn'[d].episode = e =>
             Known(e, ep, conn'[d].answer, verified)
      BY <2>2, <3>1
    <3>5. auth_episodes'[e] = ep /\ active_sessions'[e] = s /\ made' = made /\ verified' = verified
      BY <1>1, <1>4
    <3> QED  BY <2>4, <3>1, <3>2, <3>3, <3>4, <3>5 DEF Settled
  <2>5. CASE i = e /\ e \in reverted
    BY <1>1, <2>5 DEF Settled
  <2> QED  BY <2>3, <2>4, <2>5
<1> QED  BY <1>1, <1>4, <1>5, <1>6, <1>8 DEF DaemonWork

LEMMA RevokeSessionInv ==
  ASSUME DaemonWork, NEW c \in Connections, Daemon!revoke_session(c) PROVE DaemonWork'
<1> PICK e \in 1 .. MaxEpisodes :
       /\ active_sessions' = [active_sessions EXCEPT ![e] = None]
       /\ lost' = lost \cup {e}
       /\ UNCHANGED <<password, key, made, unlocked_identities, conn, auth_episodes, crossed,
                      halfway, reverted, verified>>
  BY DEF Daemon!revoke_session, Daemon!Arrives, Daemon!diskVars
<1> PICK s : s = None
  OBVIOUS
<1>1. OwnersStay /\ EpisodesStay /\ DiskOk'
  BY OwnersSame, EpisodesSame DEF DaemonWork, DiskOk, KeyOf
<1>2. /\ ChainOk' /\ active_sessions'[e] = None
      /\ \A i \in 1 .. Len(auth_episodes) : i # e => active_sessions'[i] = active_sessions[i]
  BY <1>1, SessionsOk
<1>3. TasksOk'
  BY DEF DaemonWork, TasksOk, TaskOk, KeyOf
<1>4. \A u \in Users : Identified(u)'
  BY DEF DaemonWork, Identified, Makes, Uses
<1>5. ASSUME NEW i \in 1 .. Len(auth_episodes) PROVE Settled(i)'
  <2>1. Settled(i)
    BY DEF DaemonWork
  <2>2. CASE i # e
    BY <1>2, <2>1, <2>2, SettledStays
  <2>3. CASE i = e
    BY <1>2, <2>1, <2>3 DEF Settled
  <2> QED  BY <2>2, <2>3
<1> QED  BY <1>1, <1>2, <1>3, <1>4, <1>5 DEF DaemonWork

(* An episode is started: what its creator does with it *)
LEMMA NewEpisodeStep ==
  ASSUME DaemonWork, NEW c \in Connections, NEW h, conn' = [conn EXCEPT ![c] = h],
         UNCHANGED <<password, key, made, unlocked_identities, active_sessions, crossed, halfway,
                     reverted, verified>>,
         conn[c].pc = "new", Len(auth_episodes) < MaxEpisodes,
         auth_episodes' = Append(auth_episodes, Daemon!Episode(conn[c].key)),
         NEW n, n = Len(auth_episodes) + 1, lost \subseteq lost',
         \/ h = Daemon!Idle /\ n \in lost'
         \/ FlowsOn([conn[c] EXCEPT !.episode = n], h, Daemon!Episode(conn[c].key), verified)
            /\ h.pc # "session"
  PROVE  DaemonWork'
<1> PICK g, ep, old : g = conn[c] /\ ep = Daemon!Episode(g.key) /\ old = auth_episodes
  OBVIOUS
<1>1. /\ TaskOk(g) /\ KeyOf(g.key, g.user) /\ g.user \in Users /\ g.episode = None
      /\ g = [pc |-> g.pc, user |-> g.user, password |-> g.password, key |-> g.key,
              episode |-> g.episode, polls |-> g.polls, answer |-> g.answer]
  BY DEF DaemonWork, TasksOk, TaskOk, OnChain
<1>2. /\ ep.by = g.key /\ ep.undo = <<>> /\ ep.state = None /\ ep.map = None
      /\ ep.sent = <<[name |-> "NewEpisode"]>>
      /\ EpisodeShape(ep)
  BY <1>1 DEF Daemon!Episode, EpisodeShape, KeyOf
<1>3. /\ IsSeq(old) /\ Len(old) \in Nat /\ IsSeq(auth_episodes') /\ Len(auth_episodes') = n
      /\ auth_episodes'[n] = ep /\ \A i \in 1 .. Len(old) : auth_episodes'[i] = old[i]
  <2>1. IsSeq(old) /\ auth_episodes' = Append(old, ep)
    BY DEF DaemonWork, ChainOk
  <2> QED  BY <2>1, Prolonged
<1>4. /\ n \in 1 .. MaxEpisodes /\ n \notin 1 .. Len(old) /\ n # None
      /\ 1 .. n = 1 .. Len(old) \cup {n}
  BY <1>3, DaemonAssumption
<1>5. OwnersStay /\ EpisodesStay
  <2>1. EpisodesStay
    BY <1>3, <1>4 DEF EpisodesStay
  <2> QED  BY <2>1, OwnersSame DEF DaemonWork
<1>6. ChainOk'
  <2>1. ASSUME NEW i \in 1 .. n PROVE EpisodeShape(auth_episodes[i])'
    <3>1. CASE i \in 1 .. Len(old)
      BY <1>3, <3>1 DEF DaemonWork, ChainOk, EpisodeShape
    <3>2. CASE i = n
      BY <1>2, <1>3, <3>2 DEF EpisodeShape
    <3> QED  BY <1>4, <3>1, <3>2
  <2>2. n <= MaxEpisodes /\ \A i \in 1 .. MaxEpisodes : active_sessions[i] # None => i \in 1 .. n
    BY <1>4 DEF DaemonWork, ChainOk
  <2> QED  BY <1>3, <2>1, <2>2 DEF DaemonWork, ChainOk
<1>7. /\ TasksOk' /\ h.pc \notin {"key", "created", "load", "loaded"} /\ h.pc # "session"
      /\ h.episode # n => n \in lost'
      /\ h.episode \in {None, n}
  <2>1. CASE h = Daemon!Idle /\ n \in lost'
    BY <1>5, <2>1, DoneOk
  <2>2. CASE FlowsOn([g EXCEPT !.episode = n], h, ep, verified) /\ h.pc # "session"
    <3>1. /\ h.pc \in OnChain /\ h.user = g.user /\ h.key = g.key /\ h.episode = n
          /\ h.pc = "respond" => h.answer # None
          /\ h = [pc |-> h.pc, user |-> h.user, password |-> h.password, key |-> h.key,
                  episode |-> h.episode, polls |-> h.polls, answer |-> h.answer]
      BY <1>1, <2>2 DEF FlowsOn
    <3>2. h.episode \in 1 .. Len(auth_episodes') /\ auth_episodes'[h.episode].by = h.key
      BY <1>2, <1>3, <1>4, <3>1
    <3>3. KeyOf(h.key, h.user)'
      BY <1>1, <3>1 DEF KeyOf
    <3>4. TaskOk(h)'
      BY <1>1, <3>1, <3>2, <3>3 DEF TaskOk, OnChain
    <3>5. TasksOk'
      BY <1>5, <3>4, TasksStep DEF DaemonWork
    <3> QED  BY <2>2, <3>1, <3>5 DEF OnChain
  <2> QED  BY <2>1, <2>2
<1>8. DiskOk' /\ \A u \in Users : Identified(u)'
  BY <1>7, IdentifiedQuiet
<1>9. conn'[c] = h /\ \A d \in Connections : d # c => conn'[d] = conn[d]
  BY ConnParts
<1>10. ASSUME NEW i \in 1 .. n PROVE Settled(i)'
  <2>1. CASE i \in 1 .. Len(old)
    <3>1. Settled(i) /\ i # n /\ i # None
      BY <1>3, <1>4, <2>1, DaemonAssumption DEF DaemonWork
    <3>2. \A d \in Connections : conn'[d].pc = "session" => conn'[d] = conn[d]
      BY <1>7, <1>9
    <3>3. \A d \in Connections : conn[d].episode = i => conn'[d].episode = i
      BY <1>1, <1>9, <3>1
    <3> QED  BY <1>3, <2>1, <3>1, <3>2, <3>3, SettledStays
  <2>2. CASE i = n
    <3>1. active_sessions[n] = None
      BY <1>4 DEF DaemonWork, ChainOk
    <3>2. \A d \in Connections : conn'[d].pc = "session" => conn'[d].episode # n
      <4>1. \A d \in Connections : conn[d].pc = "session" => conn[d].episode # n
        BY <1>4, EpisodeParts DEF OnChain
      <4> QED  BY <1>7, <1>9, <4>1
    <3>3. Recorded(n, ep, verified)
      <4>1. /\ IsSeq(ep.sent) /\ IsSeq(ep.undo) /\ Len(ep.sent) = 1
            /\ ep.sent[1].name = "NewEpisode"
        <5> PICK said : said = [name |-> "NewEpisode"]
          OBVIOUS
        <5>1. <<said>> \in Seq({said}) /\ \A S : <<>> \in Seq(S)
          OBVIOUS
        <5>2. IsSeq(<<said>>) /\ IsSeq(<<>>)
          BY <5>1, IsSeqOf
        <5>3. said.name = "NewEpisode" /\ ep.sent = <<said>>
          BY <1>2
        <5> QED  BY <1>2, <5>2, <5>3
      <4>2. \A i1 \in 1 .. Len(ep.sent) : i1 = 1
        BY <4>1
      <4> QED  BY <1>2, <4>1, <4>2 DEF Recorded, Mapped
    <3>4. n \notin lost' => \E d \in Connections : conn'[d].episode = n
      BY <1>7, <1>9
    <3> QED  BY <1>3, <2>2, <3>1, <3>2, <3>3, <3>4 DEF Settled
  <2> QED  BY <1>4, <2>1, <2>2
<1> QED  BY <1>3, <1>6, <1>7, <1>8, <1>10 DEF DaemonWork

LEMMA SendNewEpisodeInv ==
  ASSUME DaemonWork, NEW c \in Connections, Daemon!SendNewEpisode(c) PROVE DaemonWork'
<1> PICK g, h, i, n :
       /\ g = conn[c] /\ n = Len(auth_episodes) + 1 /\ i = Daemon!Idle
       /\ h = [g EXCEPT !.pc = "request", !.episode = n]
  OBVIOUS
<1>1. /\ TaskOk(g) /\ g.pc = "new" /\ g.episode = None
      /\ g = [pc |-> g.pc, user |-> g.user, password |-> g.password, key |-> g.key,
              episode |-> g.episode, polls |-> g.polls, answer |-> g.answer]
  BY DEF Daemon!SendNewEpisode, DaemonWork, TasksOk, TaskOk, OnChain
<1>2. /\ UNCHANGED <<password, key, made, unlocked_identities, active_sessions, crossed, halfway,
                     reverted, verified>>
      /\ lost \subseteq lost' /\ Len(auth_episodes) < MaxEpisodes
      /\ \/ /\ conn' = [conn EXCEPT ![c] = h]
            /\ auth_episodes' = Append(auth_episodes, Daemon!Episode(g.key))
         \/ /\ conn' = [conn EXCEPT ![c] = i] /\ n \in lost'
            /\ auth_episodes' = Append(auth_episodes, Daemon!Episode(g.key))
         \/ conn' = [conn EXCEPT ![c] = i] /\ auth_episodes' = auth_episodes
  <2>1. conn = [d \in Connections |-> conn[d]]
    BY DEF DaemonWork, TasksOk
  <2>2. [conn EXCEPT ![c].pc = "request", ![c].episode = n] = [conn EXCEPT ![c] = h]
    BY <2>1
  <2> QED  BY <1>1, <2>2 DEF Daemon!SendNewEpisode, Daemon!Submit, Daemon!Fail, Daemon!Done,
                             Daemon!diskVars, Daemon!memoryVars
<1>3. CASE /\ conn' = [conn EXCEPT ![c] = h]
           /\ auth_episodes' = Append(auth_episodes, Daemon!Episode(g.key))
  <2> PICK old : old = [g EXCEPT !.episode = n]
    OBVIOUS
  <2>1. h = [pc |-> "request", user |-> g.user, password |-> g.password, key |-> g.key,
             episode |-> n, polls |-> g.polls, answer |-> g.answer]
    BY <1>1
  <2>2. /\ h.pc = "request" /\ h.user = g.user /\ h.key = g.key /\ h.episode = n
        /\ h = [pc |-> h.pc, user |-> h.user, password |-> h.password, key |-> h.key,
                episode |-> h.episode, polls |-> h.polls, answer |-> h.answer]
    BY ONLY <2>1, TaskFields
  <2>3. old = [pc |-> g.pc, user |-> g.user, password |-> g.password, key |-> g.key,
               episode |-> n, polls |-> g.polls, answer |-> g.answer]
    BY <1>1
  <2>4. old.user = g.user /\ old.key = g.key /\ old.episode = n
    BY ONLY <2>3, TaskFields
  <2>5. FlowsOn(old, h, Daemon!Episode(g.key), verified) /\ h.pc # "session"
    BY <2>2, <2>4 DEF FlowsOn, OnChain
  <2> QED  BY <1>1, <1>2, <1>3, <2>5, NewEpisodeStep
<1>4. CASE /\ conn' = [conn EXCEPT ![c] = i] /\ n \in lost'
           /\ auth_episodes' = Append(auth_episodes, Daemon!Episode(g.key))
  BY <1>1, <1>2, <1>4, NewEpisodeStep
<1>5. CASE conn' = [conn EXCEPT ![c] = i] /\ auth_episodes' = auth_episodes
  <2>1. OwnersStay /\ EpisodesStay
    BY <1>2, <1>5, OwnersSame, EpisodesSame DEF DaemonWork
  <2>2. ChainOk' /\ TasksOk' /\ i.pc = "idle" /\ i.episode = None
    BY <1>2, <1>5, <2>1, ChainStays, DoneOk
  <2>3. DiskOk' /\ \A u \in Users : Identified(u)'
    BY <1>1, <1>2, <1>5, <2>2, IdentifiedQuiet
  <2>4. \A e \in 1 .. Len(auth_episodes) : Settled(e)'
    BY <1>1, <1>2, <1>5, <2>1, <2>2, SettledOthers
  <2> QED  BY <1>5, <2>2, <2>3, <2>4 DEF DaemonWork
<1> QED  BY <1>2, <1>3, <1>4, <1>5

LEMMA ChainDomain ==
  ASSUME DaemonWork
  PROVE  /\ DOMAIN auth_episodes = 1 .. Len(auth_episodes) /\ Len(auth_episodes) \in Nat
         /\ \A e \in 1 .. Len(auth_episodes) : EpisodeShape(auth_episodes[e])
BY DEF DaemonWork, ChainOk, IsSeq

(* What the chain does to an episode *)
LEMMA ChainAlone ==
  ASSUME DaemonWork, NEW e \in 1 .. Len(auth_episodes), NEW ep,
         UNCHANGED <<password, key, made, unlocked_identities, active_sessions, conn, crossed,
                     halfway, lost>>,
         reverted \subseteq reverted', verified \subseteq verified',
         auth_episodes' = [auth_episodes EXCEPT ![e] = ep],
         EpisodeShape(ep), ep.by = auth_episodes[e].by,
         e \in reverted' \/ GoesOn(e, auth_episodes[e], ep)
  PROVE  DaemonWork'
<1>1. OwnersStay /\ DiskOk'
  BY OwnersSame DEF DaemonWork, DiskOk, KeyOf
<1>2. /\ ChainOk' /\ EpisodesStay /\ Len(auth_episodes') = Len(auth_episodes)
      /\ auth_episodes'[e] = ep
      /\ \A i \in 1 .. Len(auth_episodes) : i # e => auth_episodes'[i] = auth_episodes[i]
  BY <1>1, ChainReplaced
<1>3. TasksOk'
  <2>1. ASSUME NEW d \in Connections PROVE TaskOk(conn[d])'
    <3> PICK g : g = conn[d]
      OBVIOUS
    <3>1. TaskOk(g)'
      BY <1>1, <1>2, TaskStays DEF DaemonWork, TasksOk
    <3> QED  BY <3>1 DEF TaskOk
  <2> QED  BY <2>1 DEF DaemonWork, TasksOk
<1>4. \A u \in Users : Identified(u)'
  BY DEF DaemonWork, Identified, Makes, Uses
<1>5. ASSUME NEW i \in 1 .. Len(auth_episodes) PROVE Settled(i)'
  <2>1. Settled(i)
    BY DEF DaemonWork
  <2>2. CASE i # e
    BY <1>2, <2>1, <2>2, SettledStays
  <2>3. CASE i = e /\ e \in reverted'
    BY <2>3 DEF Settled
  <2>4. CASE i = e /\ GoesOn(e, auth_episodes[e], ep)
    BY <1>2, <2>1, <2>4, SettledGoesOn
  <2> QED  BY <2>2, <2>3, <2>4
<1> QED  BY <1>1, <1>2, <1>3, <1>4, <1>5 DEF DaemonWork

LEMMA RunRevocationInv ==
  ASSUME DaemonWork, Daemon!run_session_revocation PROVE DaemonWork'
<1> PICK e \in DOMAIN auth_episodes :
       /\ auth_episodes' = [auth_episodes EXCEPT ![e].sent = Append(@,
              [name |-> "RevokeSession", token |-> active_sessions[e].session_token])]
       /\ reverted' = reverted \cup {e}
       /\ UNCHANGED <<password, key, made, unlocked_identities, active_sessions, conn, crossed,
                      halfway, lost, verified>>
  BY DEF Daemon!run_session_revocation, Daemon!diskVars, Daemon!memoryVars
<1> PICK said, old :
       /\ said = [name |-> "RevokeSession", token |-> active_sessions[e].session_token]
       /\ old = auth_episodes[e]
  OBVIOUS
<1> PICK ep : ep = Sent(old, said)
  OBVIOUS
<1>1. e \in 1 .. Len(auth_episodes) /\ EpisodeShape(old)
  BY ChainDomain
<1>2. auth_episodes' = [auth_episodes EXCEPT ![e] = ep]
  BY DEF Sent
<1>3. ep = [by |-> old.by, sent |-> Append(old.sent, said), undo |-> old.undo,
            state |-> old.state, map |-> old.map]
  BY <1>1 DEF EpisodeShape, Sent
<1>4. EpisodeShape(ep) /\ ep.by = old.by
  BY <1>1, <1>3 DEF EpisodeShape
<1> QED  BY <1>1, <1>2, <1>4, ChainAlone

LEMMA ChainRevertInv == ASSUME DaemonWork, Daemon!Revert PROVE DaemonWork'
<1> PICK e \in DOMAIN auth_episodes :
       LET ep == auth_episodes[e]
           last == ep.undo[Len(ep.undo)] IN
       /\ auth_episodes' = [auth_episodes EXCEPT ![e] =
              [ep EXCEPT !.undo = SubSeq(@, 1, Len(@) - 1),
                         !.state = IF ~ last.ok THEN @
                                   ELSE IF last.rollback = None THEN None
                                   ELSE Daemon!Auth!RolledBack(@, last.rollback)]]
       /\ reverted' = reverted \cup {e}
       /\ UNCHANGED <<password, key, made, unlocked_identities, active_sessions, conn, crossed,
                      halfway, lost, verified>>
  BY DEF Daemon!Revert, Daemon!diskVars, Daemon!memoryVars
<1> PICK old : old = auth_episodes[e]
  OBVIOUS
<1> PICK u, st :
       auth_episodes' = [auth_episodes EXCEPT ![e] = [old EXCEPT !.undo = u, !.state = st]]
  OBVIOUS
<1> PICK ep : ep = [old EXCEPT !.undo = u, !.state = st]
  OBVIOUS
<1>1. e \in 1 .. Len(auth_episodes) /\ EpisodeShape(old)
  BY ChainDomain
<1>2. auth_episodes' = [auth_episodes EXCEPT ![e] = ep]
  OBVIOUS
<1>3. ep = [by |-> old.by, sent |-> old.sent, undo |-> u, state |-> st, map |-> old.map]
  BY <1>1 DEF EpisodeShape
<1>4. EpisodeShape(ep) /\ ep.by = old.by
  BY ONLY <1>1, <1>3 DEF EpisodeShape
<1> QED  BY <1>1, <1>2, <1>4, ChainAlone

(* Nothing is in memory after a restart *)
LEMMA DaemonRestartInv == ASSUME DaemonWork, Daemon!Restart PROVE DaemonWork'
<1>1. /\ unlocked_identities' = [u \in Users |-> None]
      /\ active_sessions' = [e \in 1 .. MaxEpisodes |-> None]
      /\ halfway' = halfway \cup {conn[c].user : c \in {d \in Connections : conn[d].pc = "key"}}
      /\ lost' = lost \cup DOMAIN auth_episodes
      /\ conn' = [c \in Connections |-> Daemon!Idle]
      /\ UNCHANGED <<password, key, made, auth_episodes, crossed, reverted, verified>>
  BY DEF Daemon!Restart, Daemon!diskVars
<1>2. OwnersStay /\ EpisodesStay
  BY <1>1, OwnersSame, EpisodesSame DEF DaemonWork
<1>3. DiskOk'
  BY <1>1 DEF DaemonWork, DiskOk, KeyOf
<1>4. ChainOk'
  BY <1>1 DEF DaemonWork, ChainOk, EpisodeShape
<1>5. TasksOk' /\ \A c \in Connections : conn'[c].pc = "idle" /\ conn'[c].episode = None
  <2> PICK i : i = Daemon!Idle
    OBVIOUS
  <2>1. TaskOk(i)' /\ i.pc = "idle" /\ i.episode = None /\ conn' = [c \in Connections |-> i]
    BY <1>1, IdleOk
  <2>2. ASSUME NEW c \in Connections PROVE TaskOk(conn[c])'
    <3>1. conn'[c] = i
      BY <2>1
    <3> QED  BY <2>1, <3>1 DEF TaskOk
  <2> QED  BY <2>1, <2>2 DEF TasksOk
<1>6. ASSUME NEW u \in Users PROVE Identified(u)'
  <2>1. /\ \A c \in Connections : ~ Makes(conn'[c], u) /\ ~ Uses(conn'[c], u)
        /\ unlocked_identities'[u] = None
    BY <1>1, <1>5 DEF Makes, Uses
  <2>2. u \notin crossed' /\ key'[u] # None /\ u \notin halfway' =>
           made'[key'[u]].password = password'[u]
    <3>1. SUFFICES ASSUME u \notin crossed, key[u] # None, u \notin halfway'
                   PROVE  made[key[u]].password = password[u]
      BY <1>1
    <3>2. u \notin halfway /\ ~ \E c \in Connections : conn[c].user = u /\ conn[c].pc = "key"
      BY <1>1, <3>1
    <3> QED  BY <3>1, <3>2 DEF DaemonWork, Identified
  <2> QED  BY <2>1, <2>2 DEF Identified
<1>7. ASSUME NEW e \in 1 .. Len(auth_episodes) PROVE Settled(e)'
  <2>1. Settled(e) /\ e \in lost' /\ e \in 1 .. MaxEpisodes
    <3>1. Len(auth_episodes) \in Nat /\ Len(auth_episodes) <= MaxEpisodes
      BY DEF DaemonWork, ChainOk, IsSeq
    <3> QED  BY <1>1, <3>1, ChainDomain, DaemonAssumption DEF DaemonWork
  <2>2. active_sessions'[e] = None
    BY <1>1, <2>1
  <2>3. \A c \in Connections : conn'[c].pc # "session"
    BY <1>5
  <2> QED  BY <1>1, <2>1, <2>2, <2>3 DEF Settled
<1> QED  BY <1>1, <1>3, <1>4, <1>5, <1>6, <1>7 DEF DaemonWork

(* The state of an episode *)
LEMMA StateFields ==
  ASSUME NEW o, NEW x, NEW a, NEW t, NEW n, NEW r, NEW st,
         st = [owner |-> o, challenge |-> x, is_authenticated |-> a, session_token |-> t,
               challenge_timestamp |-> n, rate_limits |-> r]
  PROVE  /\ st.owner = o /\ st.challenge = x /\ st.is_authenticated = a /\ st.session_token = t
         /\ st.challenge_timestamp = n
         /\ st = [owner |-> o, challenge |-> st.challenge,
                  is_authenticated |-> st.is_authenticated, session_token |-> st.session_token,
                  challenge_timestamp |-> st.challenge_timestamp, rate_limits |-> st.rate_limits]
OBVIOUS

LEMMA StartedState ==
  ASSUME NEW by, NEW now \in Nat
  PROVE  StateOk([Daemon!Auth!initialize(now) EXCEPT !.owner = by], by)
<1> PICK a, r : a = FALSE /\ r = Daemon!Auth!initialize(now).rate_limits
  OBVIOUS
<1> PICK st : st = [Daemon!Auth!initialize(now) EXCEPT !.owner = by]
  OBVIOUS
<1>1. st = [owner |-> by, challenge |-> None, is_authenticated |-> a, session_token |-> None,
            challenge_timestamp |-> now, rate_limits |-> r]
  BY DEF Daemon!Auth!initialize
<1>2. /\ st.owner = by /\ st.challenge = None /\ st.is_authenticated = a
      /\ st.session_token = None /\ st.challenge_timestamp = now
      /\ st = [owner |-> by, challenge |-> st.challenge,
               is_authenticated |-> st.is_authenticated, session_token |-> st.session_token,
               challenge_timestamp |-> st.challenge_timestamp, rate_limits |-> st.rate_limits]
  BY ONLY <1>1, StateFields
<1> QED  BY <1>2 DEF StateOk

(* A command that is accepted leaves a session as it is *)
LEMMA ChallengedState ==
  ASSUME NEW by \in Nat, NEW now \in Nat, NEW st, StateOk(st, by), NEW said,
         said.name = "RequestChallenge"
  PROVE  /\ StateOk(Daemon!Auth!Executed(st, said, by, now), by)
         /\ Daemon!Auth!Executed(st, said, by, now).is_authenticated = st.is_authenticated
         /\ Daemon!Auth!Executed(st, said, by, now).session_token = st.session_token
<1> PICK new, x, r :
       /\ new = Daemon!Auth!Executed(st, said, by, now) /\ x = [time |-> now, by |-> by]
       /\ r = Daemon!Auth!IncrementRateLimit(st, by, now)
  OBVIOUS
<1> PICK a, t : a = st.is_authenticated /\ t = st.session_token
  OBVIOUS
<1>1. new = [st EXCEPT !.challenge = x, !.challenge_timestamp = now, !.owner = by,
                       !.rate_limits = r]
  BY DEF Daemon!Auth!Executed
<1>2. new = [owner |-> by, challenge |-> x, is_authenticated |-> a, session_token |-> t,
             challenge_timestamp |-> now, rate_limits |-> r]
  BY <1>1 DEF StateOk
<1>3. /\ new.owner = by /\ new.challenge = x /\ new.is_authenticated = a
      /\ new.session_token = t /\ new.challenge_timestamp = now
      /\ new = [owner |-> by, challenge |-> new.challenge,
                is_authenticated |-> new.is_authenticated, session_token |-> new.session_token,
                challenge_timestamp |-> new.challenge_timestamp, rate_limits |-> new.rate_limits]
  BY ONLY <1>2, StateFields
<1>4. x \in Proofs
  BY DEF Proofs
<1>5. t # None => Given(t, by) /\ a = TRUE
  BY DEF StateOk
<1>6. StateOk(new, by)
  BY <1>3, <1>4, <1>5 DEF StateOk
<1> QED  BY <1>3, <1>6

LEMMA AuthenticatedState ==
  ASSUME NEW by \in Nat, NEW now \in Nat, NEW st, StateOk(st, by), NEW said,
         said.name = "SubmitResponse", st.challenge # None, st.challenge.time # 0
  PROVE  /\ StateOk(Daemon!Auth!Executed(st, said, by, now), by)
         /\ Daemon!Auth!Executed(st, said, by, now).session_token = Daemon!Auth!SessionToken(st)
         /\ Given(Daemon!Auth!SessionToken(st), by)
<1> PICK new, t, a, r :
       /\ new = Daemon!Auth!Executed(st, said, by, now) /\ t = Daemon!Auth!SessionToken(st)
       /\ a = TRUE /\ r = st.rate_limits
  OBVIOUS
<1> PICK x, n : x = st.challenge /\ n = st.challenge_timestamp
  OBVIOUS
<1>1. new = [st EXCEPT !.is_authenticated = a, !.session_token = t]
  BY DEF Daemon!Auth!Executed
<1>2. new = [owner |-> by, challenge |-> x, is_authenticated |-> a, session_token |-> t,
             challenge_timestamp |-> n, rate_limits |-> r]
  <2> PICK b, v : b = st.is_authenticated /\ v = st.session_token
    OBVIOUS
  <2>1. st = [owner |-> by, challenge |-> x, is_authenticated |-> b, session_token |-> v,
              challenge_timestamp |-> n, rate_limits |-> r]
    BY DEF StateOk
  <2> QED  BY ONLY <1>1, <2>1
<1>3. /\ new.owner = by /\ new.challenge = x /\ new.is_authenticated = a
      /\ new.session_token = t /\ new.challenge_timestamp = n
      /\ new = [owner |-> by, challenge |-> new.challenge,
                is_authenticated |-> new.is_authenticated, session_token |-> new.session_token,
                challenge_timestamp |-> new.challenge_timestamp, rate_limits |-> new.rate_limits]
  BY ONLY <1>2, StateFields
<1>4. x \in Proofs /\ x.time # 0 /\ n \in Nat /\ by \in Nat
  BY DEF StateOk
<1>5. /\ t = [time |-> n, owner |-> by, challenge |-> x]
      /\ t.owner = by /\ t.challenge = x /\ t \in Tokens
  <2>1. t = [time |-> n, owner |-> by, challenge |-> x]
    BY DEF StateOk, Daemon!Auth!SessionToken
  <2> QED  BY ONLY <1>4, <2>1 DEF Tokens, Proofs
<1>6. Given(t, by)
  <2>1. t # None
    BY <1>5, DaemonAssumption DEF Tokens, Proofs
  <2> QED  BY <1>4, <1>5, <2>1 DEF Given
<1> QED  BY <1>3, <1>4, <1>6 DEF StateOk

(* A challenge that was made at time 0 is too old *)
LEMMA ValidGiven ==
  ASSUME troubles \in Nat, NEW st, NEW said, NEW by, NEW time, said.name = "SubmitResponse",
         StateOk(st, by), said.nonce # None,
         Daemon!Auth!Accepts(st, said, by, time, Daemon!Now)
  PROVE  st.challenge # None /\ st.challenge.time # 0 /\ st.is_authenticated # TRUE
<1> PICK x : x = st.challenge
  OBVIOUS
<1>1. /\ x = said.nonce /\ x # None /\ st.is_authenticated # TRUE
      /\ Daemon!Auth!Age(Daemon!Now, x.time) <= MAX_AGE
  BY DEF Daemon!Auth!Accepts, Daemon!Auth!IsValid
<1>2. x \in Proofs
  BY <1>1 DEF StateOk
<1>3. x.time # 0
  <2> SUFFICES ASSUME x.time = 0 PROVE FALSE
    OBVIOUS
  <2>1. Daemon!Now \in Nat /\ Daemon!Now > MAX_AGE /\ MAX_AGE \in Nat
    BY DaemonAssumption DEF Daemon!Now
  <2>2. Daemon!Auth!Age(Daemon!Now, 0) = Daemon!Now
    BY <2>1 DEF Daemon!Auth!Age
  <2> QED  BY <1>1, <2>1, <2>2
<1> QED  BY <1>1, <1>3

(* What a block does to an episode that lost none *)
Executes(ep, r) ==
    /\ IF r.ok THEN StateOk(r.state, ep.by) ELSE r.state = ep.state
    /\ \A token : Confirmed(ep, token) =>
          /\ StateOk(r.state, ep.by) /\ r.state.is_authenticated = TRUE
          /\ r.state.session_token = token

LEMMA ExecutedState ==
  ASSUME NEW e, NEW V, NEW ep, EpisodeShape(ep), Recorded(e, ep, V), troubles \in Nat,
         Len(ep.undo) < Len(ep.sent), NEW r, r = Daemon!Executed(ep, ep.sent[Len(ep.undo) + 1])
  PROVE  Executes(ep, r)
<1> USE DEF Executes
<1> PICK k, said, st, now, by :
       /\ k = Len(ep.undo) + 1 /\ said = ep.sent[k] /\ st = ep.state /\ now = Daemon!Now
       /\ by = ep.by
  OBVIOUS
<1>1. /\ now \in Nat /\ by \in Nat /\ k \in 1 .. Len(ep.sent)
      /\ k = 1 => ep.undo = <<>>
  <2>1. Len(ep.undo) \in Nat /\ Len(ep.sent) \in Nat /\ (Len(ep.undo) = 0 => ep.undo = <<>>)
    BY DEF Recorded, IsSeq
  <2>2. by \in Nat
    BY DEF EpisodeShape
  <2> QED  BY <2>1, <2>2, DaemonAssumption DEF Daemon!Now
<1>2. /\ said.name \in {"NewEpisode", "RequestChallenge", "SubmitResponse"}
      /\ said.name = "NewEpisode" => ep.undo = <<>>
      /\ said.name = "SubmitResponse" => said.nonce # None
      /\ st # None => StateOk(st, by)
  BY <1>1 DEF Recorded
<1>3. CASE said.name = "NewEpisode"
  <2>1. r.ok /\ r.state = [Daemon!Auth!initialize(now) EXCEPT !.owner = by]
    BY <1>1, <1>3 DEF Daemon!Executed
  <2>2. StateOk(r.state, by)
    BY <1>1, <2>1, StartedState
  <2>3. \A token : ~ Confirmed(ep, token)
    BY <1>2, <1>3 DEF Confirmed
  <2> QED  BY <2>1, <2>2, <2>3
<1>4. CASE said.name # "NewEpisode" /\ (st = None \/ ~ Daemon!Auth!Accepts(st, said, by, now, now))
  <2>1. ~ r.ok /\ r.state = st
    BY <1>1, <1>4 DEF Daemon!Executed
  <2> QED  BY <2>1 DEF Confirmed
<1>5. CASE /\ said.name # "NewEpisode" /\ st # None
           /\ Daemon!Auth!Accepts(st, said, by, now, now)
  <2>1. r.ok /\ r.state = Daemon!Auth!Executed(st, said, by, now)
    BY <1>1, <1>5 DEF Daemon!Executed
  <2>2. CASE said.name = "RequestChallenge"
    <3>1. StateOk(st, by) /\ by \in Nat /\ now \in Nat
      BY <1>1, <1>2, <1>5
    <3>2. /\ StateOk(Daemon!Auth!Executed(st, said, by, now), by)
          /\ Daemon!Auth!Executed(st, said, by, now).is_authenticated = st.is_authenticated
          /\ Daemon!Auth!Executed(st, said, by, now).session_token = st.session_token
      BY ONLY <2>2, <3>1, ChallengedState
    <3>3. /\ StateOk(r.state, by) /\ r.state.is_authenticated = st.is_authenticated
          /\ r.state.session_token = st.session_token
      BY ONLY <2>1, <3>2
    <3> QED  BY <2>1, <3>3 DEF Confirmed
  <2>3. CASE said.name = "SubmitResponse"
    <3>2. st.challenge # None /\ st.challenge.time # 0 /\ st.is_authenticated # TRUE
      BY <1>1, <1>2, <1>5, <2>3, ValidGiven
    <3>1. StateOk(r.state, by)
      BY <1>1, <1>2, <1>5, <2>1, <2>3, <3>2, AuthenticatedState
    <3>3. \A token : ~ Confirmed(ep, token)
      BY <3>2 DEF Confirmed
    <3> QED  BY <2>1, <3>1, <3>3
  <2> QED  BY <1>2, <1>5, <2>2, <2>3
<1> QED  BY <1>3, <1>4, <1>5

LEMMA ExecutedGoesOn ==
  ASSUME NEW e, verified' = verified, NEW ep, EpisodeShape(ep), troubles \in Nat,
         Len(ep.undo) < Len(ep.sent), NEW r, r = Daemon!Executed(ep, ep.sent[Len(ep.undo) + 1]),
         NEW b, NEW st, st = r.state, NEW m, m = IF r.ok THEN st ELSE ep.map,
         NEW new, new = [by |-> ep.by, sent |-> ep.sent, undo |-> Append(ep.undo, b),
                         state |-> st, map |-> m]
  PROVE  GoesOn(e, ep, new)
<1>1. /\ new.by = ep.by /\ new.sent = ep.sent /\ new.undo = Append(ep.undo, b)
      /\ new.state = st /\ new.map = m
      /\ new = [by |-> new.by, sent |-> new.sent, undo |-> new.undo, state |-> new.state,
                map |-> new.map]
  OBVIOUS
<1>2. EpisodeShape(new)
  BY <1>1 DEF EpisodeShape
<1> PICK V : V = verified
  OBVIOUS
<1>3. ASSUME Recorded(e, ep, V)
      PROVE  /\ Recorded(e, new, V)
             /\ \A token : Known(e, ep, token, V) => Known(e, new, token, V)
  <2>1. /\ IF r.ok THEN StateOk(st, ep.by) ELSE st = ep.state
        /\ \A token : Confirmed(ep, token) =>
              /\ StateOk(st, ep.by) /\ st.is_authenticated = TRUE /\ st.session_token = token
    <3>1. Executes(ep, r)
      BY <1>3, ExecutedState
    <3> QED  BY <3>1 DEF Executes
  <2>2. IsSeq(new.undo) /\ new.undo # <<>>
    <3> PICK s, n : s = ep.undo /\ n = Len(s)
      OBVIOUS
    <3>1. IsSeq(s)
      BY <1>3 DEF Recorded
    <3>2. IsSeq(Append(s, b)) /\ n \in Nat /\ Len(Append(s, b)) = n + 1
      BY <3>1, Prolonged
    <3>3. Len(<<>>) = 0
      OBVIOUS
    <3>4. new.undo = Append(s, b) /\ n + 1 # 0
      BY <1>1, <3>2
    <3> QED  BY <3>2, <3>3, <3>4
  <2>3. new.state # None => StateOk(new.state, new.by)
    BY <1>1, <1>3, <2>1 DEF Recorded
  <2>5. ASSUME NEW token, Known(e, ep, token, V) PROVE Known(e, new, token, V)
    <3>1. Confirmed(ep, token) => Confirmed(new, token)
      BY <1>1, <2>1, <2>2 DEF Confirmed
    <3> QED  BY <1>1, <2>5, <3>1 DEF Known
  <2>6. Mapped(e, new, new.map, V)
    <3>1. CASE r.ok
      <4>1. m = st /\ StateOk(st, ep.by)
        BY <2>1, <3>1
      <4>2. st.session_token # None => Given(st.session_token, ep.by) /\ st.is_authenticated = TRUE
        BY <4>1 DEF StateOk
      <4>3. st.session_token # None => Known(e, new, st.session_token, V)
        BY <1>1, <2>2, <4>1, <4>2 DEF Known, Confirmed
      <4> QED  BY <1>1, <4>1, <4>3 DEF Mapped
    <3>2. CASE ~ r.ok
      <4>1. Mapped(e, ep, ep.map, V) /\ new.map = ep.map /\ new.by = ep.by
        BY <1>1, <1>3, <3>2 DEF Recorded
      <4> QED  BY <2>5, <4>1 DEF Mapped
    <3> QED  BY <3>1, <3>2
  <2>4. Recorded(e, new, V)
    BY <1>1, <1>3, <2>2, <2>3, <2>6 DEF Recorded
  <2> QED  BY <2>4, <2>5
<1> QED  BY <1>1, <1>2, <1>3 DEF GoesOn

LEMMA ChainAcceptInv ==
  ASSUME DaemonWork, troubles \in Nat, Daemon!Accept PROVE DaemonWork'
<1> PICK e \in DOMAIN auth_episodes :
       LET ep == auth_episodes[e]
           r == Daemon!Executed(ep, ep.sent[Len(ep.undo) + 1]) IN
       /\ Len(ep.undo) < Len(ep.sent)
       /\ auth_episodes' = [auth_episodes EXCEPT ![e] =
              [ep EXCEPT !.state = r.state,
                         !.undo = Append(@, [ok |-> r.ok, rollback |-> r.undo]),
                         !.map = IF r.ok THEN r.state ELSE @]]
       /\ UNCHANGED <<password, key, made, unlocked_identities, active_sessions, conn, crossed,
                      halfway, lost, reverted, verified>>
  BY DEF Daemon!Accept, Daemon!diskVars, Daemon!memoryVars, Daemon!historyVars
<1> PICK old, r, b :
       /\ old = auth_episodes[e]
       /\ r = Daemon!Executed(old, old.sent[Len(old.undo) + 1])
       /\ b = [ok |-> r.ok, rollback |-> r.undo]
  OBVIOUS
<1> PICK st, m : st = r.state /\ m = IF r.ok THEN st ELSE old.map
  OBVIOUS
<1> PICK ep : ep = [old EXCEPT !.state = st, !.undo = Append(old.undo, b), !.map = m]
  OBVIOUS
<1>1. e \in 1 .. Len(auth_episodes) /\ EpisodeShape(old)
  BY ChainDomain
<1>2. auth_episodes' = [auth_episodes EXCEPT ![e] = ep]
  <2>1. ep = [old EXCEPT !.state = r.state,
                         !.undo = Append(@, [ok |-> r.ok, rollback |-> r.undo]),
                         !.map = IF r.ok THEN r.state ELSE @]
    OBVIOUS
  <2> QED  BY <2>1
<1>3. ep = [by |-> old.by, sent |-> old.sent, undo |-> Append(old.undo, b), state |-> st,
            map |-> m]
  BY <1>1 DEF EpisodeShape
<1>4. GoesOn(e, old, ep)
  <2>1. /\ verified' = verified /\ troubles \in Nat /\ Len(old.undo) < Len(old.sent)
        /\ r = Daemon!Executed(old, old.sent[Len(old.undo) + 1])
        /\ st = r.state /\ m = IF r.ok THEN st ELSE old.map
    OBVIOUS
  <2> QED  BY ONLY <1>1, <1>3, <2>1, ExecutedGoesOn
<1>5. EpisodeShape(ep) /\ ep.by = old.by
  BY <1>4 DEF GoesOn
<1>6. /\ DaemonWork /\ reverted \subseteq reverted' /\ verified \subseteq verified'
      /\ UNCHANGED <<password, key, made, unlocked_identities, active_sessions, conn, crossed,
                     halfway, lost, verified>>
  OBVIOUS
<1>7. GoesOn(e, auth_episodes[e], ep) /\ ep.by = auth_episodes[e].by
  BY <1>4, <1>5
<1> QED  BY ONLY <1>1, <1>2, <1>5, <1>6, <1>7, ChainAlone

(* What the peer's HTTP handlers do to the map *)
LEMMA MapPut ==
  ASSUME NEW e, NEW ep, EpisodeShape(ep), NEW m, verified \subseteq verified',
         Recorded(e, ep, verified) => Mapped(e, ep, m, verified')
  PROVE  GoesOn(e, ep, [ep EXCEPT !.map = m])
<1> PICK new, V, W : new = [ep EXCEPT !.map = m] /\ V = verified /\ W = verified'
  OBVIOUS
<1>1. new = [by |-> ep.by, sent |-> ep.sent, undo |-> ep.undo, state |-> ep.state, map |-> m]
  BY DEF EpisodeShape
<1>2. /\ new.by = ep.by /\ new.sent = ep.sent /\ new.undo = ep.undo
      /\ new.state = ep.state /\ new.map = m
      /\ new = [by |-> new.by, sent |-> new.sent, undo |-> new.undo, state |-> new.state,
                map |-> new.map]
  BY <1>1
<1>3. EpisodeShape(new)
  BY <1>2 DEF EpisodeShape
<1>4. ASSUME NEW token, Known(e, ep, token, V) PROVE Known(e, new, token, W)
  BY <1>2, <1>4 DEF Known, Confirmed
<1>5. ASSUME Recorded(e, ep, V) PROVE Recorded(e, new, W)
  <2>1. Mapped(e, ep, m, W)
    BY <1>5
  <2>2. Mapped(e, new, m, W)
    BY <1>2, <2>1 DEF Mapped, Known, Confirmed
  <2> QED  BY <1>2, <1>5, <2>2 DEF Recorded
<1> QED  BY <1>2, <1>3, <1>4, <1>5 DEF GoesOn

LEMMA OnMapInv ==
  ASSUME DaemonWork, troubles \in Nat, NEW e \in DOMAIN auth_episodes, NEW said,
         auth_episodes[e].map # None, Daemon!OnMap(e, said), verified \subseteq verified',
         \/ said.name = "RequestChallenge"
         \/ /\ said.name = "SubmitResponse" /\ said.nonce # None
            /\ <<e, Daemon!Auth!SessionToken(auth_episodes[e].map)>> \in verified'
  PROVE  DaemonWork'
<1> PICK old, map, W : old = auth_episodes[e] /\ map = old.map /\ W = verified'
  OBVIOUS
<1> PICK m : m = Daemon!Auth!Executed(map, said, map.owner, 0)
  OBVIOUS
<1> PICK ep : ep = [old EXCEPT !.map = m]
  OBVIOUS
<1>1. e \in 1 .. Len(auth_episodes) /\ EpisodeShape(old)
  BY ChainDomain
<1>2. /\ auth_episodes' = [auth_episodes EXCEPT ![e] = ep]
      /\ Daemon!Auth!Accepts(map, said, map.owner, 0, Daemon!Now)
      /\ UNCHANGED <<password, key, made, unlocked_identities, active_sessions, conn, crossed,
                     halfway, lost, reverted>>
  BY DEF Daemon!OnMap, Daemon!diskVars, Daemon!memoryVars
<1>3. old.by \in Nat /\ ep.by = old.by /\ EpisodeShape(ep)
  <2>1. ep = [by |-> old.by, sent |-> old.sent, undo |-> old.undo, state |-> old.state, map |-> m]
    BY <1>1 DEF EpisodeShape
  <2> QED  BY <1>1, <2>1 DEF EpisodeShape
<1>4. ASSUME Recorded(e, old, verified) PROVE Mapped(e, old, m, W)
  <2>1. Mapped(e, old, map, W) /\ map # None
    <3>1. Recorded(e, old, W)
      BY <1>4, RecordedMore
    <3> QED  BY <3>1 DEF Recorded
  <2>2. StateOk(map, old.by) /\ map.owner = old.by
    <3>1. StateOk(map, old.by)
      BY <2>1 DEF Mapped
    <3> QED  BY <3>1 DEF StateOk
  <2> PICK by, now : by = old.by /\ now = 0
    OBVIOUS
  <2>3. /\ m = Daemon!Auth!Executed(map, said, by, now)
        /\ by \in Nat /\ now \in Nat /\ StateOk(map, by)
    BY <1>3, <2>2
  <2>4. CASE said.name = "RequestChallenge"
    <3>1. StateOk(m, by) /\ m.session_token = map.session_token
      BY ONLY <2>3, <2>4, ChallengedState
    <3> QED  BY <2>1, <3>1 DEF Mapped
  <2>5. CASE /\ said.name = "SubmitResponse" /\ said.nonce # None
             /\ <<e, Daemon!Auth!SessionToken(map)>> \in W
    <3>1. map.challenge # None /\ map.challenge.time # 0
      BY <1>2, <2>2, <2>5, ValidGiven
    <3>2. /\ StateOk(m, by) /\ m.session_token = Daemon!Auth!SessionToken(map)
          /\ Given(Daemon!Auth!SessionToken(map), by)
      BY ONLY <2>3, <2>5, <3>1, AuthenticatedState
    <3> QED  BY <2>5, <3>2 DEF Mapped, Known
  <2> QED  BY <2>4, <2>5
<1>5. GoesOn(e, old, ep)
  BY <1>1, <1>4, MapPut
<1>6. GoesOn(e, auth_episodes[e], ep) /\ ep.by = auth_episodes[e].by /\ reverted \subseteq reverted'
  BY <1>2, <1>3, <1>5
<1> QED  BY <1>1, <1>2, <1>3, <1>6, ChainAlone

LEMMA HandlersInv ==
  ASSUME DaemonWork, troubles \in Nat, Daemon!request_challenge \/ Daemon!verify_auth
  PROVE  DaemonWork'
<1>1. CASE Daemon!request_challenge
  <2> PICK said : said = [name |-> "RequestChallenge"]
    OBVIOUS
  <2>1. PICK e \in DOMAIN auth_episodes :
           auth_episodes[e].map # None /\ Daemon!OnMap(e, said) /\ verified' = verified
    BY <1>1 DEF Daemon!request_challenge
  <2>2. said.name = "RequestChallenge" /\ verified \subseteq verified'
    BY <2>1
  <2> QED  BY <2>1, <2>2, OnMapInv
<1>2. CASE Daemon!verify_auth
  <2>1. PICK e \in DOMAIN auth_episodes :
           /\ auth_episodes[e].map # None /\ auth_episodes[e].map.challenge # None
           /\ Daemon!OnMap(e, [name |-> "SubmitResponse",
                               nonce |-> auth_episodes[e].map.challenge])
           /\ verified' = verified
                 \cup {<<e, Daemon!Auth!SessionToken(auth_episodes[e].map)>>}
    BY <1>2 DEF Daemon!verify_auth
  <2> PICK said : said = [name |-> "SubmitResponse", nonce |-> auth_episodes[e].map.challenge]
    OBVIOUS
  <2>2. /\ said.name = "SubmitResponse" /\ said.nonce # None /\ Daemon!OnMap(e, said)
        /\ verified \subseteq verified'
        /\ <<e, Daemon!Auth!SessionToken(auth_episodes[e].map)>> \in verified'
    BY <2>1
  <2> QED  BY <2>1, <2>2, OnMapInv
<1> QED  BY <1>1, <1>2

LEMMA DaemonNext == DaemonWork /\ troubles \in Nat /\ Daemon!Next => DaemonWork' /\ troubles' \in Nat
<1> SUFFICES ASSUME DaemonWork, troubles \in Nat, Daemon!Next PROVE DaemonWork' /\ troubles' \in Nat
  OBVIOUS
<1>1. ASSUME NEW c \in Connections, Daemon!process_request(c) PROVE DaemonWork'
  BY <1>1, CreateIdentityInv, CreateWalletInv, VerifyPasswordInv, LoadWalletInv, InsertInv,
     LockAllInv, AuthenticateInv, SendNewEpisodeInv, SendCommandsInv, FlowPollInv,
     InsertSessionInv, RevokeSessionInv
  DEF Daemon!process_request
<1>2. DaemonWork'
  BY <1>1, ChainAcceptInv, ChainRevertInv, HandlersInv, RunRevocationInv, DaemonRestartInv
  DEF Daemon!Next
<1>3. Daemon!Next => troubles' = troubles \/ Daemon!Trouble
  <2>1. ASSUME NEW c \in Connections, Daemon!process_request(c)
        PROVE  troubles' = troubles \/ Daemon!Trouble
    BY <2>1
    DEF Daemon!process_request, Daemon!create_identity, Daemon!create_wallet,
        Daemon!verify_password, Daemon!load_wallet, Daemon!Insert, Daemon!lock_all_identities,
        Daemon!authenticate, Daemon!SendNewEpisode, Daemon!SendRequestChallenge,
        Daemon!SendSubmitResponse, Daemon!SendCommand, Daemon!Submit, Daemon!Poll,
        Daemon!InsertSession, Daemon!revoke_session
  <2> QED  BY <2>1 DEF Daemon!Next, Daemon!Accept, Daemon!Revert, Daemon!request_challenge,
                       Daemon!verify_auth, Daemon!OnMap, Daemon!run_session_revocation,
                       Daemon!Restart
<1>4. troubles' \in Nat
  BY <1>3 DEF Daemon!Trouble
<1> QED  BY <1>2, <1>4

LEMMA DaemonStays == DaemonWork /\ UNCHANGED daemonVars => DaemonWork'
<1> SUFFICES ASSUME DaemonWork, UNCHANGED daemonVars PROVE DaemonWork'
  OBVIOUS
<1> USE DEF daemonVars
<1>1. DiskOk' /\ ChainOk'
  BY DEF DaemonWork, DiskOk, KeyOf, ChainOk, EpisodeShape
<1>2. TasksOk'
  BY DEF DaemonWork, TasksOk, TaskOk, KeyOf
<1>3. \A u \in Users : Identified(u)'
  BY DEF DaemonWork, Identified, Makes, Uses
<1>4. \A e \in 1 .. Len(auth_episodes) : Settled(e)'
  BY DEF DaemonWork, Settled
<1> QED  BY <1>1, <1>2, <1>3, <1>4 DEF DaemonWork

LEMMA DaemonInit == Daemon!Init => DaemonInv
<1> SUFFICES ASSUME Daemon!Init PROVE DaemonInv
  OBVIOUS
<1> USE DEF Daemon!Init
<1>1. Len(auth_episodes) = 0 /\ 1 .. Len(auth_episodes) = {} /\ IsSeq(made) /\ IsSeq(auth_episodes)
  <2>1. \A S : <<>> \in Seq(S)
    OBVIOUS
  <2>2. IsSeq(<<>>)
    BY <2>1, IsSeqOf
  <2> QED  BY <2>2
<1>2. DiskOk
  BY <1>1 DEF DiskOk
<1>3. ChainOk
  BY <1>1, DaemonAssumption DEF ChainOk
<1>4. TasksOk /\ \A c \in Connections : conn[c].pc = "idle"
  <2> PICK i : i = Daemon!Idle
    OBVIOUS
  <2>1. conn = [c \in Connections |-> i] /\ i.pc = "idle" /\ TaskOk(i)
    BY DEF TaskOk, Daemon!Idle, OnChain
  <2> QED  BY <2>1 DEF TasksOk
<1>5. \A u \in Users : Identified(u)
  BY <1>4 DEF Identified, Makes, Uses
<1> QED  BY <1>1, <1>2, <1>3, <1>4, <1>5 DEF DaemonInv, DaemonWork

LEMMA DaemonInvExplains == DaemonWork => Daemon!DaemonExplained
<1> SUFFICES ASSUME DaemonWork PROVE Daemon!DaemonExplained
  OBVIOUS
<1>1. ASSUME NEW u \in Users PROVE Daemon!IdentityExplained(u)
  <2> PICK k : k = unlocked_identities[u]
    OBVIOUS
  <2>1. SUFFICES ASSUME k # None, ~ Daemon!Creating(u), u \notin crossed
                 PROVE  /\ k = key[u] /\ made[k].user = u
                        /\ u \notin halfway => made[k].password = password[u]
    BY DEF Daemon!IdentityExplained
  <2>2. Identified(u) /\ KeyOf(k, u)
    BY <2>1 DEF DaemonWork, DiskOk
  <2>3. \A c \in Connections : ~ (conn[c].user = u /\ conn[c].pc \in {"key", "created"})
    BY <2>1 DEF Daemon!Creating
  <2>4. k = key[u]
    BY <2>1, <2>2, <2>3 DEF Identified
  <2>5. u \notin halfway => made[k].password = password[u]
    BY <2>1, <2>2, <2>3, <2>4 DEF Identified
  <2> QED  BY <2>2, <2>4, <2>5 DEF KeyOf
<1>2. ASSUME NEW e \in DOMAIN auth_episodes PROVE Daemon!SessionExplained(e)
  <2> PICK ep, s : ep = auth_episodes[e] /\ s = active_sessions[e]
    OBVIOUS
  <2>1. SUFFICES ASSUME e \notin reverted
                 PROVE  /\ s # None =>
                              /\ made[s.session_token.owner].user = s.username
                              /\ s.session_token.challenge.time # 0
                              /\ \/ /\ ep.state.is_authenticated
                                    /\ ep.state.session_token = s.session_token
                                 \/ <<e, s.session_token>> \in verified
                        /\ ep.state # None /\ ep.state.is_authenticated /\ e \notin lost
                              /\ (\A c \in Connections : conn[c].episode # e)
                           => s # None
    BY DEF Daemon!SessionExplained
  <2>2. Settled(e)
    BY ChainDomain DEF DaemonWork
  <2>3. ASSUME s # None
        PROVE  /\ made[s.session_token.owner].user = s.username
               /\ s.session_token.challenge.time # 0
               /\ \/ ep.state.is_authenticated /\ ep.state.session_token = s.session_token
                  \/ <<e, s.session_token>> \in verified
    <3> PICK token : token = s.session_token
      OBVIOUS
    <3>1. Known(e, ep, token, verified) /\ made[ep.by].user = s.username
      BY <2>1, <2>2, <2>3 DEF Settled
    <3>2. token.owner = ep.by /\ token.challenge.time # 0
      BY <3>1 DEF Known, Given
    <3>3. Confirmed(ep, token) => ep.state.is_authenticated /\ ep.state.session_token = token
      BY DEF Confirmed
    <3> QED  BY <3>1, <3>2, <3>3 DEF Known
  <2>4. e \notin lost /\ (\A c \in Connections : conn[c].episode # e) => s # None
    BY <2>1, <2>2 DEF Settled
  <2> QED  BY <2>3, <2>4
<1> QED  BY <1>1, <1>2 DEF Daemon!DaemonExplained

(* A key that the daemon holds unlocked is the one of its user's last       *)
(* identity, made under the password that opens it, unless a creation met   *)
(* another request or stopped half way; a session that it lists has a token *)
(* for a key of its user and for a challenge that a block gave, and the     *)
(* chain has it, unless the peer gave the token itself when it was shown    *)
(* the response; and it lists every session of the chain: unless a flow     *)
(* gave up, a block was lost or a session was revoked elsewhere.            *)
THEOREM Daemons == Spec => []DaemonExplained
<1>1. Init => DaemonInv
  BY DaemonInit DEF Init
<1>2. DaemonInv /\ [Next]_vars => DaemonInv'
  <2> SUFFICES ASSUME DaemonInv, [Next]_vars PROVE DaemonInv'
    OBVIOUS
  <2>1. CASE part = "daemon" /\ Daemon!Next /\ part' = part
    BY <2>1, DaemonNext DEF DaemonInv
  <2>2. CASE UNCHANGED <<part, daemonVars>> /\ part # "daemon"
    BY <2>2, DaemonStays DEF DaemonInv
  <2>3. CASE UNCHANGED vars
    BY <2>3, DaemonStays DEF DaemonInv, vars
  <2> QED  BY <2>1, <2>2, <2>3 DEF Next
<1>3. DaemonInv => DaemonExplained
  BY DaemonInvExplains DEF DaemonInv, DaemonExplained
<1> QED  BY <1>1, <1>2, <1>3, PTL DEF Spec
=============================================================================
