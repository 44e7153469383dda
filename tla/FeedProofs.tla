----------------------------- MODULE FeedProofs ------------------------------
(***************************************************************************)
(* The two ways in which commands reach an engine, the listener of Proxy   *)
(* and the routers of Offchain.  The listener is proved for any engines,   *)
(* patterns and transactions, and any number of blocks, reorganisations    *)
(* and RPC failures; the routers for every set of clients and episodes,    *)
(* every number of attempts and crashes, and every network.                *)
(***************************************************************************)
EXTENDS Proxy, Offchain, FilterLemmas

-----------------------------------------------------------------------------
(* The listener.  FedWhole speaks of the moments between two blocks.       *)
(* Between two engines those that had their turn are one block ahead of    *)
(* the others: Position says up to which block of its chain the listener   *)
(* has fed each engine, and Told that this is what the engine has in       *)
(* effect.                                                                 *)

Dags == [Blocks -> Records \cup {Unknown}]
KnownIn(g) == {h \in Blocks : g[h] # Unknown}

TypeOK ==
    /\ dag \in Dags
    /\ tip \in Known \cup {Genesis} /\ sink \in Known \cup {Genesis}
    /\ added \in Seq(Known)
    /\ todo \subseteq Engines
    /\ required \in Seq(Txs)
    /\ fed \in [Engines -> Seq(Batches)]
    /\ floor \in Nat

Distinct(s) == \A i, j \in 1..Len(s) : s[i] = s[j] => i = j

(* Blocks are known in the order of their names; a block's chain ends with *)
(* the block, and no chain has one twice.                                  *)
Chained(g) ==
    /\ \E k \in 0..MaxBlocks : KnownIn(g) = 1..k
    /\ \A h \in KnownIn(g) : g[h].path \in Seq(KnownIn(g)) /\ Distinct(g[h].path)
                           /\ g[h].path # <<>> /\ Last(g[h].path) = h

-----------------------------------------------------------------------------
(* What engine e is due of a chain behind its first `from' blocks, up to   *)
(* block k                                                                 *)
Busy(g, e) == {h \in KnownIn(g) : ForEngine(e, g[h].txs) # <<>>}
Batch(g, e, h) == [hash |-> h, txs |-> ForEngine(e, g[h].txs)]
Batched(g, e, s) == [i \in 1..Len(s) |-> Batch(g, e, s[i])]
Part(g, e, path, from, k) ==
    Batched(g, e, Keep(SubSeq(path, from + 1, k), Busy(g, e)))

(* How far the listener has come on its chain, and with engine e *)
Reached == Len(Path(sink)) - Len(added)
Position(e) == IF stage = "engines" /\ e \notin todo THEN Reached + 1 ELSE Reached

(* The blocks to be fetched are the last ones of the listener's chain, and *)
(* an engine that has not had its turn finds all its transactions.         *)
Queued ==
    /\ Reached \in Nat
    /\ \A i \in 1..Len(added) : added[i] = Path(sink)[Reached + i]
    /\ stage \notin {"dispatch", "engines"} => added = <<>>
    /\ stage = "engines" =>
          /\ added # <<>>
          /\ \A e \in todo : ForEngine(e, required) = ForEngine(e, dag[block].txs)
    /\ stage = "start" => \A e \in Engines : fed[e] = <<>>

Told ==
    /\ floor <= Reached
    /\ \A e \in Engines : fed[e] = Part(dag, e, Path(sink), floor, Position(e))

Whole ==
    \A e \in Engines : \A i \in 1..Len(fed[e]) :
        fed[e][i].hash \in Known /\ fed[e][i] = Batch(dag, e, fed[e][i].hash)

ListenerInv ==
    /\ TypeOK
    /\ Chained(dag)
    /\ Queued
    /\ Whole
    /\ ~ lost => Told

-----------------------------------------------------------------------------
(* A piece of a sequence *)
LEMMA Piece ==
  ASSUME NEW S, NEW p \in Seq(S), NEW a \in Nat, NEW k \in Nat, a <= k, k <= Len(p)
  PROVE  /\ SubSeq(p, a + 1, k) \in Seq(S)
         /\ Len(SubSeq(p, a + 1, k)) = k - a
         /\ \A i \in 1..(k - a) : SubSeq(p, a + 1, k)[i] = p[a + i]
<1> DEFINE q == SubSeq(p, a + 1, k)
<1>1. Len(p) \in Nat /\ \A i \in 1..Len(p) : p[i] \in S
  BY ElementOfSeq, LenProperties
<1>2. a + 1 \in Int /\ k \in Int /\ \A i \in (a + 1)..k : p[i] \in S
  BY <1>1
<1>3. /\ q \in Seq(S) /\ Len(q) = IF a + 1 <= k THEN k - (a + 1) + 1 ELSE 0
      /\ \A i \in 1..(k - (a + 1) + 1) : q[i] = p[(a + 1) + i - 1]
  BY <1>2, SubSeqProperties
<1>4. k - (a + 1) + 1 = k - a /\ \A i \in 1..(k - a) : (a + 1) + i - 1 = a + i
  OBVIOUS
<1> HIDE DEF q
<1>5. Len(q) = k - a
  BY <1>3, <1>4
<1> QED  BY <1>3, <1>4, <1>5 DEF q

LEMMA PieceNext ==
  ASSUME NEW S, NEW p \in Seq(S), NEW a \in Nat, NEW k \in Nat, a <= k, k < Len(p)
  PROVE  SubSeq(p, a + 1, k + 1) = Append(SubSeq(p, a + 1, k), p[k + 1])
<1> DEFINE q == SubSeq(p, a + 1, k)
           r == SubSeq(p, a + 1, k + 1)
           x == p[k + 1]
<1>1. Len(p) \in Nat
  BY LenProperties
<1>2. k + 1 \in Nat /\ a <= k + 1 /\ k + 1 <= Len(p) /\ k <= Len(p) /\ k + 1 \in 1..Len(p)
  BY <1>1
<1>3. q \in Seq(S) /\ Len(q) = k - a /\ \A i \in 1..(k - a) : q[i] = p[a + i]
  BY <1>2, Piece
<1>4. r \in Seq(S) /\ Len(r) = k + 1 - a /\ \A i \in 1..(k + 1 - a) : r[i] = p[a + i]
  BY <1>2, Piece
<1>5. x \in S
  BY <1>2, ElementOfSeq
<1> HIDE DEF q, r
<1>6. /\ Append(q, x) \in Seq(S) /\ Len(Append(q, x)) = Len(q) + 1
      /\ \A i \in 1..Len(q) : Append(q, x)[i] = q[i]
      /\ Append(q, x)[Len(q) + 1] = x
  BY <1>3, <1>5, AppendProperties
<1>7. ASSUME NEW i \in 1..Len(r) PROVE r[i] = Append(q, x)[i]
  <2>1. i \in 1..(k - a) \/ (i = k - a + 1 /\ a + i = k + 1)
    BY <1>4
  <2>2. r[i] = p[a + i]
    BY <1>4
  <2>3. CASE i \in 1..(k - a)
    BY <1>3, <1>6, <2>2, <2>3
  <2>4. CASE i = k - a + 1 /\ a + i = k + 1
    BY <1>3, <1>6, <2>2, <2>4
  <2> QED  BY <2>1, <2>3, <2>4
<1>8. Len(r) = Len(Append(q, x))
  BY <1>3, <1>4, <1>6
<1>9. r = Append(q, x)
  BY <1>4, <1>6, <1>7, <1>8, SeqEqual
<1> QED  BY <1>9 DEF q, r

LEMMA PieceSplit ==
  ASSUME NEW S, NEW p \in Seq(S), NEW a \in Nat, NEW k \in Nat, a <= k, k <= Len(p)
  PROVE  SubSeq(p, a + 1, Len(p)) = SubSeq(p, a + 1, k) \o SubSeq(p, k + 1, Len(p))
<1> DEFINE q == SubSeq(p, a + 1, k)
           r == SubSeq(p, k + 1, Len(p))
           t == SubSeq(p, a + 1, Len(p))
           n == Len(p)
<1>1. n \in Nat /\ a <= n /\ n <= n
  BY LenProperties
<1>2. q \in Seq(S) /\ Len(q) = k - a /\ \A i \in 1..(k - a) : q[i] = p[a + i]
  BY Piece
<1>3. r \in Seq(S) /\ Len(r) = n - k /\ \A i \in 1..(n - k) : r[i] = p[k + i]
  BY <1>1, Piece
<1>4. t \in Seq(S) /\ Len(t) = n - a /\ \A i \in 1..(n - a) : t[i] = p[a + i]
  BY <1>1, Piece
<1> HIDE DEF q, r, t, n
<1>5. /\ q \o r \in Seq(S) /\ Len(q \o r) = Len(q) + Len(r)
      /\ \A i \in 1..(Len(q) + Len(r)) : (q \o r)[i] = IF i <= Len(q) THEN q[i] ELSE r[i - Len(q)]
  BY <1>2, <1>3, ConcatProperties
<1>6. Len(q) + Len(r) = n - a
  BY <1>1, <1>2, <1>3
<1>7. ASSUME NEW i \in 1..(n - a) PROVE t[i] = (q \o r)[i]
  <2>1. t[i] = p[a + i] /\ (q \o r)[i] = IF i <= k - a THEN q[i] ELSE r[i - (k - a)]
    BY <1>2, <1>4, <1>5, <1>6
  <2>2. CASE i <= k - a
    <3>1. i \in 1..(k - a)
      BY <1>1, <2>2
    <3> QED  BY <1>2, <2>1, <2>2, <3>1
  <2>3. CASE ~ (i <= k - a)
    <3>1. i - (k - a) \in 1..(n - k) /\ k + (i - (k - a)) = a + i
      BY <1>1, <2>3
    <3> QED  BY <1>3, <2>1, <2>3, <3>1
  <2> QED  BY <2>2, <2>3
<1>8. t = q \o r
  BY <1>4, <1>5, <1>6, <1>7, SeqEqual
<1> QED  BY <1>8 DEF q, r, t, n
-----------------------------------------------------------------------------
(* What an engine gets of a block, and of a list of blocks *)
LEMMA ForEngineType ==
  ASSUME NEW e \in Engines, NEW txs \in Seq(Txs)
  PROVE  ForEngine(e, txs) \in Seq(Txs)
BY KeepSeq DEF ForEngine

LEMMA DagParts ==
  ASSUME NEW g \in Dags
  PROVE  /\ KnownIn(g) \subseteq Blocks
         /\ \A h \in KnownIn(g) :
               /\ g[h] \in Records /\ g[h].path \in Seq(Blocks) /\ g[h].txs \in Seq(Txs)
               /\ \A e \in Engines : Batch(g, e, h) \in Batches /\ Batch(g, e, h).hash = h
<1>1. \A h \in KnownIn(g) : g[h] \in Records
  BY DEF Dags, KnownIn
<1>2. \A d \in Records : d.path \in Seq(Blocks) /\ d.txs \in Seq(Txs)
  BY ProxyAssumption DEF Records
<1>3. ASSUME NEW h \in KnownIn(g), NEW e \in Engines
      PROVE  Batch(g, e, h) \in Batches /\ Batch(g, e, h).hash = h
  <2>1. ForEngine(e, g[h].txs) \in Seq(Txs) /\ h \in Blocks
    BY <1>1, <1>2, ForEngineType DEF KnownIn
  <2> QED  BY <2>1 DEF Batch, Batches
<1> QED  BY <1>1, <1>2, <1>3 DEF KnownIn

LEMMA BatchedSeq ==
  ASSUME NEW g \in Dags, NEW e \in Engines, NEW s \in Seq(KnownIn(g))
  PROVE  /\ Batched(g, e, s) \in Seq(Batches)
         /\ Len(Batched(g, e, s)) = Len(s)
         /\ \A i \in 1..Len(s) : s[i] \in KnownIn(g) /\ Batched(g, e, s)[i] = Batch(g, e, s[i])
<1> DEFINE b == Batched(g, e, s)
           n == Len(s)
<1>1. n \in Nat /\ \A i \in 1..n : s[i] \in KnownIn(g)
  BY ElementOfSeq, LenProperties
<1>2. \A i \in 1..n : Batch(g, e, s[i]) \in Batches
  BY <1>1, DagParts
<1>3. b = [i \in 1..n |-> Batch(g, e, s[i])]
  BY DEF Batched
<1> HIDE DEF b, n
<1>4. b \in Seq(Batches) /\ Len(b) = n /\ \A i \in 1..n : b[i] = Batch(g, e, s[i])
  BY <1>1, <1>2, <1>3
<1> QED  BY <1>1, <1>4 DEF b, n

LEMMA BatchedEmpty ==
  ASSUME NEW g \in Dags, NEW e \in Engines
  PROVE  Batched(g, e, <<>>) = <<>>
<1>1. <<>> \in Seq(KnownIn(g)) /\ Len(<<>>) = 0
  BY EmptySeq
<1>2. Batched(g, e, <<>>) \in Seq(Batches) /\ Len(Batched(g, e, <<>>)) = 0
  BY <1>1, BatchedSeq
<1> QED  BY <1>2, EmptySeq

LEMMA BatchedAppend ==
  ASSUME NEW g \in Dags, NEW e \in Engines, NEW s \in Seq(KnownIn(g)), NEW h \in KnownIn(g)
  PROVE  Batched(g, e, Append(s, h)) = Append(Batched(g, e, s), Batch(g, e, h))
<1> DEFINE t == Append(s, h)
           b == Batched(g, e, s)
           x == Batch(g, e, h)
           c == Batched(g, e, t)
<1>1. /\ t \in Seq(KnownIn(g)) /\ Len(t) = Len(s) + 1 /\ Len(s) \in Nat
      /\ \A i \in 1..Len(s) : t[i] = s[i]
      /\ t[Len(s) + 1] = h
  BY AppendProperties, LenProperties
<1> HIDE DEF t
<1>2. b \in Seq(Batches) /\ Len(b) = Len(s) /\ \A i \in 1..Len(s) : b[i] = Batch(g, e, s[i])
  BY BatchedSeq
<1>3. c \in Seq(Batches) /\ Len(c) = Len(t) /\ \A i \in 1..Len(t) : c[i] = Batch(g, e, t[i])
  BY <1>1, BatchedSeq
<1>4. x \in Batches
  BY DagParts
<1> HIDE DEF b, c
<1>5. /\ Append(b, x) \in Seq(Batches) /\ Len(Append(b, x)) = Len(b) + 1
      /\ \A i \in 1..Len(b) : Append(b, x)[i] = b[i]
      /\ Append(b, x)[Len(b) + 1] = x
  BY <1>2, <1>4, AppendProperties
<1>6. ASSUME NEW i \in 1..Len(c) PROVE c[i] = Append(b, x)[i]
  <2>1. i \in 1..Len(s) \/ i = Len(s) + 1
    BY <1>1, <1>3
  <2>2. c[i] = Batch(g, e, t[i])
    BY <1>3
  <2>3. CASE i \in 1..Len(s)
    BY <1>1, <1>2, <1>5, <2>2, <2>3
  <2>4. CASE i = Len(s) + 1
    BY <1>1, <1>2, <1>5, <2>2, <2>4
  <2> QED  BY <2>1, <2>3, <2>4
<1>7. Len(c) = Len(Append(b, x))
  BY <1>1, <1>2, <1>3, <1>5
<1>8. c = Append(b, x)
  BY <1>3, <1>5, <1>6, <1>7, SeqEqual
<1> QED  BY <1>8 DEF b, c, t

Off(R) == {b \in Batches : b.hash \notin R}

(* Taking batches away by their blocks is taking the blocks away. *)
LEMMA BatchedKeep ==
  ASSUME NEW g \in Dags, NEW e \in Engines, NEW s \in Seq(KnownIn(g)), NEW R
  PROVE  Keep(Batched(g, e, s), Off(R))
            = Batched(g, e, Keep(s, KnownIn(g) \ R))
<1> DEFINE K == KnownIn(g)
           T == Off(R)
           A == {t \in Seq(K) : Keep(Batched(g, e, t), T) = Batched(g, e, Keep(t, K \ R))}
<1>1. <<>> \in A
  BY BatchedEmpty, KeepEmpty, EmptySeq
<1>2. ASSUME NEW t \in Seq(K), NEW h \in K, t \in A PROVE Append(t, h) \in A
  <2>1. Append(t, h) \in Seq(K)
    BY AppendProperties
  <2>2. Batched(g, e, Append(t, h)) = Append(Batched(g, e, t), Batch(g, e, h))
    BY BatchedAppend
  <2>3. Batched(g, e, t) \in Seq(Batches) /\ Batch(g, e, h) \in Batches /\ Batch(g, e, h).hash = h
    BY BatchedSeq, DagParts
  <2>4. Batch(g, e, h) \in T <=> h \notin R
    BY <2>3 DEF Off
  <2>5. Keep(t, K \ R) \in Seq(K)
    BY KeepSeq
  <2>6. Keep(Batched(g, e, t), T) = Batched(g, e, Keep(t, K \ R))
    BY <1>2
  <2> HIDE DEF A, T
  <2>7. Keep(Append(Batched(g, e, t), Batch(g, e, h)), T) =
           IF Batch(g, e, h) \in T THEN Append(Keep(Batched(g, e, t), T), Batch(g, e, h))
           ELSE Keep(Batched(g, e, t), T)
    <3> PICK w, y : w = Batched(g, e, t) /\ y = Batch(g, e, h)
      OBVIOUS
    <3>1. w \in Seq(Batches)
      BY <2>3
    <3>2. Keep(Append(w, y), T) = IF y \in T THEN Append(Keep(w, T), y) ELSE Keep(w, T)
      BY ONLY <3>1, KeepAppend, SMTT(30)
    <3> QED  BY <3>2, Zenon
  <2>8. Keep(Append(t, h), K \ R) =
           IF h \in K \ R THEN Append(Keep(t, K \ R), h) ELSE Keep(t, K \ R)
    BY KeepAppend
  <2>9. Batched(g, e, Append(Keep(t, K \ R), h)) =
           Append(Batched(g, e, Keep(t, K \ R)), Batch(g, e, h))
    BY <2>5, BatchedAppend
  <2>10. Keep(Batched(g, e, Append(t, h)), T) = Batched(g, e, Keep(Append(t, h), K \ R))
    <3>1. CASE h \in R
      BY <2>2, <2>4, <2>6, <2>7, <2>8, <3>1
    <3>2. CASE h \notin R
      BY <2>2, <2>4, <2>6, <2>7, <2>8, <2>9, <3>2
    <3> QED  BY <3>1, <3>2
  <2> QED  BY <2>1, <2>10 DEF A
<1>3. s \in A
  <2> HIDE DEF A
  <2> QED  BY <1>1, <1>2, SeqInduction
<1> QED  BY <1>3
-----------------------------------------------------------------------------
LEMMA PartEmpty ==
  ASSUME NEW g \in Dags, NEW e \in Engines, NEW path, NEW k \in Nat
  PROVE  Part(g, e, path, k, k) = <<>>
<1>1. k + 1 \in Int /\ k \in Int /\ k < k + 1
  OBVIOUS
<1>2. SubSeq(path, k + 1, k) = <<>>
  BY <1>1, SubSeqEmpty
<1>3. Keep(SubSeq(path, k + 1, k), Busy(g, e)) = <<>>
  BY <1>2, KeepEmpty
<1> QED  BY <1>3, BatchedEmpty DEF Part

(* One block more *)
LEMMA PartNext ==
  ASSUME NEW g \in Dags, NEW e \in Engines, NEW path \in Seq(KnownIn(g)),
         NEW from \in Nat, NEW k \in Nat, from <= k, k < Len(path)
  PROVE  Part(g, e, path, from, k + 1) =
            IF ForEngine(e, g[path[k + 1]].txs) = <<>> THEN Part(g, e, path, from, k)
            ELSE Append(Part(g, e, path, from, k), Batch(g, e, path[k + 1]))
<1> DEFINE q == SubSeq(path, from + 1, k)
           x == path[k + 1]
           B == Busy(g, e)
<1>1. SubSeq(path, from + 1, k + 1) = Append(q, x)
  BY PieceNext
<1>2. x \in KnownIn(g) /\ k <= Len(path)
  <2>1. k + 1 \in 1..Len(path) /\ k <= Len(path)
    BY LenProperties
  <2> QED  BY <2>1, ElementOfSeq
<1>3. q \in Seq(KnownIn(g))
  BY <1>2, Piece
<1>4. x \in B <=> ForEngine(e, g[x].txs) # <<>>
  BY <1>2 DEF Busy
<1> HIDE DEF q, x, B
<1>5. Keep(Append(q, x), B) = IF x \in B THEN Append(Keep(q, B), x) ELSE Keep(q, B)
  BY <1>3, KeepAppend
<1>6. Keep(q, B) \in Seq(KnownIn(g))
  BY <1>3, KeepSeq
<1>7. Batched(g, e, Append(Keep(q, B), x)) = Append(Batched(g, e, Keep(q, B)), Batch(g, e, x))
  BY <1>2, <1>6, BatchedAppend
<1>8. Part(g, e, path, from, k + 1) = Batched(g, e, Keep(Append(q, x), B))
      /\ Part(g, e, path, from, k) = Batched(g, e, Keep(q, B))
  BY <1>1 DEF Part, q, B
<1>9. Part(g, e, path, from, k + 1) =
         IF ForEngine(e, g[x].txs) = <<>> THEN Part(g, e, path, from, k)
         ELSE Append(Part(g, e, path, from, k), Batch(g, e, x))
  BY <1>4, <1>5, <1>7, <1>8
<1> QED  BY <1>9 DEF x

(* Blocks that the node learns of later change nothing. *)
LEMMA PartDag ==
  ASSUME NEW g \in Dags, NEW f \in Dags, NEW e \in Engines,
         \A h \in KnownIn(g) : h \in KnownIn(f) /\ f[h] = g[h],
         NEW path \in Seq(KnownIn(g)), NEW from \in Nat, NEW k \in Nat,
         from <= k, k <= Len(path)
  PROVE  Part(f, e, path, from, k) = Part(g, e, path, from, k)
<1> DEFINE q == SubSeq(path, from + 1, k)
           m == Keep(q, Busy(g, e))
<1>1. q \in Seq(KnownIn(g))
  BY Piece
<1> HIDE DEF q
<1>2. Keep(q, Busy(f, e)) = m
  <2>1. \A i \in 1..Len(q) : q[i] \in KnownIn(g)
    BY <1>1, ElementOfSeq
  <2>2. \A i \in 1..Len(q) : q[i] \in Busy(f, e) <=> q[i] \in Busy(g, e)
    BY <2>1 DEF Busy
  <2> QED  BY <1>1, <2>2, KeepAgree
<1>3. m \in Seq(KnownIn(g))
  BY <1>1, KeepSeq
<1> HIDE DEF m
<1>4. \A i \in 1..Len(m) : m[i] \in KnownIn(g)
  BY <1>3, ElementOfSeq
<1>5. \A i \in 1..Len(m) : Batch(f, e, m[i]) = Batch(g, e, m[i])
  BY <1>4 DEF Batch
<1>6. Batched(f, e, m) = Batched(g, e, m)
  BY <1>5 DEF Batched
<1> QED  BY <1>2, <1>6 DEF Part, q, m

(* What is taken away with the blocks behind a fork leaves what is due of  *)
(* the chain that the two have in common.                                  *)
LEMMA PartReverted ==
  ASSUME NEW g \in Dags, NEW e \in Engines,
         NEW old \in Seq(KnownIn(g)), NEW new \in Seq(KnownIn(g)), Distinct(old),
         NEW n \in Nat, n <= Len(old), n <= Len(new), \A i \in 1..n : old[i] = new[i],
         NEW from \in Nat, from <= Len(old)
  PROVE  Keep(Part(g, e, old, from, Len(old)),
              Off({old[i] : i \in (n + 1)..Len(old)}))
            = Part(g, e, new, IF n < from THEN n ELSE from, n)
<1> DEFINE K == KnownIn(g)
           B == Busy(g, e)
           R == {old[i] : i \in (n + 1)..Len(old)}
           L == Len(old)
           q == SubSeq(old, from + 1, L)
<1>1. L \in Nat /\ Len(new) \in Nat /\ L <= L
  BY LenProperties
<1>2. q \in Seq(K) /\ Len(q) = L - from /\ \A i \in 1..(L - from) : q[i] = old[from + i]
  BY <1>1, Piece
<1>3. Keep(q, B) \in Seq(K)
  <2> HIDE DEF q
  <2> QED  BY <1>2, KeepSeq
<1>4. Keep(Part(g, e, old, from, L), Off(R))
         = Batched(g, e, Keep(q, B \cap (K \ R)))
  <2>1. Part(g, e, old, from, L) = Batched(g, e, Keep(q, B))
    BY DEF Part
  <2> HIDE DEF q, B, R, L
  <2>2. Keep(Batched(g, e, Keep(q, B)), Off(R))
           = Batched(g, e, Keep(Keep(q, B), K \ R))
    BY <1>3, BatchedKeep
  <2>3. Keep(Keep(q, B), K \ R) = Keep(q, B \cap (K \ R))
    BY <1>2, KeepKeep
  <2> QED  BY <2>1, <2>2, <2>3
<1>5. \A i \in (n + 1)..L : old[i] \in R
  OBVIOUS
<1>6. \A i \in 1..n : old[i] \in K /\ old[i] \notin R
  <2>1. \A i \in 1..n : i \in 1..L
    BY <1>1
  <2>2. \A i \in 1..n, j \in (n + 1)..L : i \in 1..L /\ j \in 1..L /\ i # j
    BY <1>1
  <2>3. \A i \in 1..n, j \in (n + 1)..L : old[i] # old[j]
    BY <2>2 DEF Distinct
  <2> QED  BY <2>1, <2>3, ElementOfSeq
<1> HIDE DEF R, B, K
<1>7. CASE n < from
  <2>1. \A i \in 1..Len(q) : q[i] \notin B \cap (K \ R)
    <3> SUFFICES ASSUME NEW i \in 1..Len(q) PROVE q[i] \in R
      OBVIOUS
    <3>1. i \in 1..(L - from) /\ from + i \in (n + 1)..L
      BY <1>1, <1>2, <1>7
    <3> QED  BY <1>2, <1>5, <3>1
  <2>2. Keep(q, B \cap (K \ R)) = <<>>
    <3> HIDE DEF q
    <3> QED  BY <1>2, <2>1, KeepNone
  <2>3. Batched(g, e, Keep(q, B \cap (K \ R))) = <<>>
    BY <2>2, BatchedEmpty
  <2>4. Part(g, e, new, n, n) = <<>>
    BY PartEmpty
  <2> QED  BY <1>4, <1>7, <2>3, <2>4 DEF R
<1>8. CASE ~ (n < from)
  <2> DEFINE a == SubSeq(old, from + 1, n)
             z == SubSeq(old, n + 1, L)
             c == SubSeq(new, from + 1, n)
  <2>0. from <= n
    BY <1>8
  <2>1. q = a \o z
    BY <2>0, PieceSplit
  <2>2. a \in Seq(K) /\ Len(a) = n - from /\ \A i \in 1..(n - from) : a[i] = old[from + i]
    BY <2>0, Piece DEF K
  <2>3. z \in Seq(K) /\ Len(z) = L - n /\ \A i \in 1..(L - n) : z[i] = old[n + i]
    BY <1>1, Piece DEF K
  <2>4. c \in Seq(K) /\ Len(c) = n - from /\ \A i \in 1..(n - from) : c[i] = new[from + i]
    BY <2>0, Piece DEF K
  <2> HIDE DEF a, z, c, q, L
  <2>5. \A i \in 1..(n - from) : from + i \in 1..n
    BY <2>0
  <2>6. a = c
    <3>1. \A i \in 1..Len(a) : a[i] = c[i]
      BY <2>2, <2>4, <2>5
    <3> QED  BY <2>2, <2>4, <3>1, SeqEqual
  <2>7. Keep(a, B \cap (K \ R)) = Keep(a, B)
    <3>1. \A i \in 1..Len(a) : a[i] \in B \cap (K \ R) <=> a[i] \in B
      BY <1>6, <2>2, <2>5
    <3> QED  BY <2>2, <3>1, KeepAgree
  <2>8. Keep(z, B \cap (K \ R)) = <<>>
    <3>1. \A i \in 1..(L - n) : n + i \in (n + 1)..L
      BY <1>1
    <3>2. \A i \in 1..Len(z) : z[i] \notin B \cap (K \ R)
      BY <1>5, <2>3, <3>1
    <3> QED  BY <2>3, <3>2, KeepNone
  <2>9. Keep(q, B \cap (K \ R)) = Keep(c, B) \o <<>>
    <3>1. Keep(a \o z, B \cap (K \ R)) = Keep(a, B \cap (K \ R)) \o Keep(z, B \cap (K \ R))
      BY <2>2, <2>3, KeepConcat
    <3>2. Keep(q, B \cap (K \ R)) = Keep(c, B) \o Keep(z, B \cap (K \ R))
      BY ONLY <2>1, <2>6, <2>7, <3>1, Zenon
    <3> QED  BY ONLY <2>8, <3>2, Zenon
  <2>10. Keep(c, B) \in Seq(K)
    BY <2>4, KeepSeq
  <2>11. Keep(q, B \cap (K \ R)) = Keep(c, B)
    BY <2>9, <2>10, ConcatEmptySeq
  <2>12. Part(g, e, new, from, n) = Batched(g, e, Keep(c, B))
    BY DEF Part, c, B
  <2> QED  BY <1>4, <1>8, <2>11, <2>12 DEF R, L
<1> QED  BY <1>7, <1>8
(* Between two blocks: of all that is news, pending blocks left out, what  *)
(* concerns the engine is what is due up to the block reached.             *)
LEMMA PartPending ==
  ASSUME NEW g \in Dags, NEW e \in Engines, NEW path \in Seq(KnownIn(g)), Distinct(path),
         NEW from \in Nat, NEW k \in Nat, from <= k, k <= Len(path)
  PROVE  LET news == SubSeq(path, from + 1, Len(path))
             P == {path[i] : i \in (k + 1)..Len(path)} IN
         Keep(news, {h \in Range(news) \ P : ForEngine(e, g[h].txs) # <<>>})
            = Keep(SubSeq(path, from + 1, k), Busy(g, e))
<1> DEFINE K == KnownIn(g)
           L == Len(path)
           news == SubSeq(path, from + 1, L)
           a == SubSeq(path, from + 1, k)
           z == SubSeq(path, k + 1, L)
           B == Busy(g, e)
           P == {path[i] : i \in (k + 1)..L}
           T == {h \in Range(news) \ P : ForEngine(e, g[h].txs) # <<>>}
<1>1. L \in Nat /\ L <= L /\ from <= L
  BY LenProperties
<1>2. news \in Seq(K) /\ Len(news) = L - from /\ \A i \in 1..(L - from) : news[i] = path[from + i]
  BY <1>1, Piece
<1>3. a \in Seq(K) /\ Len(a) = k - from /\ \A i \in 1..(k - from) : a[i] = path[from + i]
  BY Piece
<1>4. z \in Seq(K) /\ Len(z) = L - k /\ \A i \in 1..(L - k) : z[i] = path[k + i]
  BY <1>1, Piece
<1>5. news = a \o z
  BY PieceSplit
<1>6. DOMAIN news = 1..Len(news)
  BY <1>2, LenProperties
<1> HIDE DEF news, a, z, L
<1>7. ASSUME NEW i \in 1..Len(a) PROVE a[i] \in T <=> a[i] \in B
  <2>1. i \in 1..(k - from) /\ i \in 1..(L - from) /\ from + i \in 1..L /\ from + i <= k
    BY <1>1, <1>3 DEF L
  <2>2. a[i] = path[from + i] /\ news[i] = path[from + i] /\ i \in DOMAIN news
    BY <1>2, <1>3, <1>6, <2>1
  <2>3. a[i] \in Range(news)
    BY <2>2 DEF Range
  <2>4. a[i] \in K
    BY <1>3, ElementOfSeq
  <2>5. a[i] \notin P
    <3>1. \A j \in (k + 1)..L : j \in 1..L /\ j # from + i
      BY <2>1
    <3>2. \A j \in (k + 1)..L : path[j] # path[from + i]
      BY <2>1, <3>1 DEF Distinct, L
    <3> QED  BY <2>2, <3>2 DEF L
  <2> QED  BY <2>3, <2>4, <2>5 DEF Busy
<1>8. ASSUME NEW i \in 1..Len(z) PROVE z[i] \notin T
  <2>1. i \in 1..(L - k) /\ k + i \in (k + 1)..L
    BY <1>1, <1>4
  <2>2. z[i] = path[k + i]
    BY <1>4, <2>1
  <2>3. z[i] \in P
    BY <2>1, <2>2 DEF L
  <2> QED  BY <2>3
<1> HIDE DEF T, B, K
<1>9. Keep(a, T) = Keep(a, B)
  BY <1>3, <1>7, KeepAgree
<1>10. Keep(z, T) = <<>>
  BY <1>4, <1>8, KeepNone
<1>11. Keep(a \o z, T) = Keep(a, T) \o Keep(z, T)
  BY <1>3, <1>4, KeepConcat
<1>12. Keep(a, B) \in Seq(K)
  BY <1>3, KeepSeq
<1>13. Keep(a, B) \o <<>> = Keep(a, B)
  BY <1>12, ConcatEmptySeq
<1>14. Keep(news, T) = Keep(a, B)
  BY <1>5, <1>9, <1>10, <1>11, <1>13
<1> QED  BY <1>14 DEF news, a, T, B, L

(* Two sequences agree on their first Fork elements. *)
LEMMA ForkSound ==
  ASSUME NEW S, NEW p \in Seq(S), NEW q \in Seq(S)
  PROVE  /\ Fork(p, q) \in Nat /\ Fork(p, q) <= Len(p) /\ Fork(p, q) <= Len(q)
         /\ \A i \in 1..Fork(p, q) : p[i] = q[i]
<1> DEFINE I == {i \in 1..Len(p) : i <= Len(q) /\ SubSeq(p, 1, i) = SubSeq(q, 1, i)}
           C == {k \in Nat : k # 0 /\ k \notin I}
<1>1. Len(p) \in Nat /\ Len(q) \in Nat
  BY LenProperties
<1>2. ASSUME NEW i \in I
      PROVE  \A j \in 1..i : j \in I /\ p[j] = q[j]
  <2>1. i \in Nat /\ i <= Len(p) /\ i <= Len(q) /\ 0 <= i /\ 0 \in Nat
        /\ SubSeq(p, 0 + 1, i) = SubSeq(q, 0 + 1, i)
    BY <1>1
  <2>2. \A j \in 1..(i - 0) : SubSeq(p, 0 + 1, i)[j] = p[0 + j]
    BY <2>1, Piece
  <2>3. \A j \in 1..(i - 0) : SubSeq(q, 0 + 1, i)[j] = q[0 + j]
    BY <2>1, Piece
  <2>4. \A j \in 1..i : p[j] = q[j]
    <3> SUFFICES ASSUME NEW j \in 1..i PROVE p[j] = q[j]
      OBVIOUS
    <3>1. j \in 1..(i - 0) /\ 0 + j = j
      BY <2>1
    <3> QED  BY <2>1, <2>2, <2>3, <3>1
  <2>5. ASSUME NEW j \in 1..i PROVE j \in I
    <3>1. j \in Nat /\ j <= Len(p) /\ j <= Len(q) /\ 0 <= j /\ j \in 1..Len(p) /\ 0 \in Nat
          /\ j - 0 = j /\ 0 + 1 = 1
      BY <1>1, <2>1
    <3>2. SubSeq(p, 0 + 1, j) \in Seq(S) /\ Len(SubSeq(p, 0 + 1, j)) = j - 0
          /\ \A m \in 1..(j - 0) : SubSeq(p, 0 + 1, j)[m] = p[0 + m]
      BY <3>1, Piece
    <3>3. SubSeq(q, 0 + 1, j) \in Seq(S) /\ Len(SubSeq(q, 0 + 1, j)) = j - 0
          /\ \A m \in 1..(j - 0) : SubSeq(q, 0 + 1, j)[m] = q[0 + m]
      BY <3>1, Piece
    <3>4. \A m \in 1..j : 0 + m = m /\ p[m] = q[m]
      BY <2>1, <2>4
    <3>5. \A m \in 1..Len(SubSeq(p, 0 + 1, j)) : SubSeq(p, 0 + 1, j)[m] = SubSeq(q, 0 + 1, j)[m]
      BY <3>1, <3>2, <3>3, <3>4
    <3>6. SubSeq(p, 0 + 1, j) = SubSeq(q, 0 + 1, j)
      BY <3>1, <3>2, <3>3, <3>5, SeqEqual
    <3> QED  BY <3>1, <3>6
  <2> QED  BY <2>4, <2>5
<1>3. PICK k \in C : \A j \in C : k <= j
  <2>1. Len(p) + 1 \in C
    BY <1>1
  <2>2. C \in SUBSET Nat /\ C # {}
    BY <2>1
  <2> HIDE DEF C
  <2> QED  BY <2>2, LeastNatural
<1>4. k \in Nat \ {0} /\ k \notin I /\ k - 1 \in Nat
  BY <1>3
<1>5. I = 1..(k - 1)
  <2>1. ASSUME NEW i \in I PROVE i \in 1..(k - 1)
    <3>1. i \in Nat \ {0}
      BY <1>1
    <3>2. ~ (k <= i)
      <4>1. k <= i => k \in 1..i
        BY <1>4, <3>1
      <4> QED  BY <1>2, <1>4, <4>1
    <3> QED  BY <1>4, <3>1, <3>2
  <2>2. ASSUME NEW i \in 1..(k - 1) PROVE i \in I
    <3>1. i \in Nat /\ i # 0 /\ ~ (k <= i)
      BY <1>4
    <3> QED  BY <1>3, <3>1
  <2> QED  BY <2>1, <2>2
<1>6. Cardinality(I) = k - 1
  <2>1. \A m \in Nat : Cardinality(1..m) = m
    <3> SUFFICES ASSUME NEW m \in Nat PROVE Cardinality(1..m) = m
      OBVIOUS
    <3>1. Cardinality(1..m) = IF 1 > m THEN 0 ELSE m - 1 + 1
      BY FS_Interval
    <3> QED  BY <3>1
  <2> QED  BY <1>4, <1>5, <2>1
<1>7. Fork(p, q) = k - 1
  BY <1>6 DEF Fork
<1>8. k - 1 = 0 \/ k - 1 \in I
  <2>1. \A m \in Nat : m = 0 \/ m \in 1..m
    OBVIOUS
  <2> QED  BY <1>4, <1>5, <2>1
<1>9. k - 1 \in I => k - 1 <= Len(p) /\ k - 1 <= Len(q)
  BY <1>1
<1>10. \A i \in 1..(k - 1) : p[i] = q[i]
  <2>1. \A i \in I : i \in 1..i
    BY <1>1
  <2> QED  BY <1>2, <1>5, <2>1
<1> QED  BY <1>1, <1>4, <1>7, <1>8, <1>9, <1>10
-----------------------------------------------------------------------------
(* The listener's chain, and how far it has come on it *)
LEMMA Paths ==
  ASSUME TypeOK, Chained(dag)
  PROVE  /\ Known = KnownIn(dag) /\ Known \subseteq Blocks /\ Genesis \notin Known
         /\ \A h \in Known \cup {Genesis} :
               Path(h) \in Seq(Known) /\ Distinct(Path(h)) /\ Len(Path(h)) \in Nat
<1>1. Known = KnownIn(dag) /\ Known \subseteq Blocks
  BY DEF Known, KnownIn
<1>2. Genesis \notin Known
  BY <1>1, ProxyAssumption DEF Genesis, Blocks
<1>3. ASSUME NEW h \in Known PROVE Path(h) \in Seq(Known) /\ Distinct(Path(h))
  BY <1>1, <1>2 DEF Path, Chained
<1>4. Path(Genesis) \in Seq(Known) /\ Distinct(Path(Genesis))
  <2>1. Path(Genesis) = <<>>
    BY DEF Path
  <2>2. <<>> \in Seq(Known) /\ Len(<<>>) = 0
    BY EmptySeq
  <2>3. \A s : Len(s) = 0 => Distinct(s)
    BY DEF Distinct
  <2> QED  BY <2>1, <2>2, <2>3
<1> QED  BY <1>1, <1>2, <1>3, <1>4, LenProperties

LEMMA Positions ==
  ASSUME ListenerInv
  PROVE  /\ dag \in Dags /\ Known = KnownIn(dag)
         /\ Path(sink) \in Seq(KnownIn(dag)) /\ Distinct(Path(sink))
         /\ Len(Path(sink)) \in Nat /\ Len(added) \in Nat /\ Reached \in Nat
         /\ Reached + Len(added) = Len(Path(sink))
         /\ \A e \in Engines : Position(e) \in Nat /\ Reached <= Position(e)
                               /\ Position(e) <= Len(Path(sink))
         /\ added = <<>> => Len(added) = 0
         /\ added # <<>> => /\ Len(added) \in Nat \ {0} /\ block = Path(sink)[Reached + 1]
                            /\ block \in Known /\ Reached + 1 <= Len(Path(sink))
<1>1. TypeOK /\ Chained(dag) /\ Queued
  BY DEF ListenerInv
<1>2. Known = KnownIn(dag) /\ Path(sink) \in Seq(Known) /\ Distinct(Path(sink))
      /\ Len(Path(sink)) \in Nat
  BY <1>1, Paths DEF TypeOK
<1>3. added \in Seq(Known) /\ dag \in Dags
  BY <1>1 DEF TypeOK
<1>4. Len(added) \in Nat /\ (added # <<>> => Len(added) \in Nat \ {0})
      /\ (added = <<>> => Len(added) = 0)
  BY <1>3, LenProperties, EmptySeq
<1>5. Reached \in Nat
  BY <1>1 DEF Queued
<1>6. Reached + Len(added) = Len(Path(sink))
  BY <1>2, <1>4 DEF Reached
<1>7. added # <<>> => /\ block = Path(sink)[Reached + 1] /\ block \in Known
                      /\ Reached + 1 <= Len(Path(sink))
  <2> SUFFICES ASSUME added # <<>>
               PROVE  /\ block = Path(sink)[Reached + 1] /\ block \in Known
                      /\ Reached + 1 <= Len(Path(sink))
    OBVIOUS
  <2>1. 1 \in 1..Len(added)
    BY <1>4
  <2>2. block = added[1]
    BY DEF block
  <2>3. added[1] = Path(sink)[Reached + 1]
    BY <1>1, <2>1 DEF Queued
  <2>4. added[1] \in Known
    BY <1>3, <2>1, ElementOfSeq
  <2> QED  BY <1>4, <1>5, <1>6, <2>2, <2>3, <2>4
<1>8. ASSUME NEW e \in Engines
      PROVE  Position(e) \in Nat /\ Reached <= Position(e) /\ Position(e) <= Len(Path(sink))
  <2>1. CASE stage = "engines" /\ e \notin todo
    <3>1. Position(e) = Reached + 1 /\ added # <<>>
      BY <1>1, <2>1 DEF Position, Queued
    <3> QED  BY <1>5, <1>7, <3>1
  <2>2. CASE ~ (stage = "engines" /\ e \notin todo)
    <3>1. Position(e) = Reached
      BY <2>2 DEF Position
    <3> QED  BY <1>2, <1>4, <1>5, <1>6, <3>1
  <2> QED  BY <2>1, <2>2
<1> QED  BY <1>2, <1>3, <1>4, <1>5, <1>6, <1>7, <1>8

(* Between two blocks this is what FedWhole says. *)
LEMMA DueIsPart ==
  ASSUME ListenerInv, Told, stage # "engines", NEW e \in Engines
  PROVE  fed[e] = Due(e)
<1> DEFINE path == Path(sink)
           news == SubSeq(path, floor + 1, Len(path))
           P == {added[i] : i \in DOMAIN added}
           mine == Keep(news, {h \in Range(news) \ P : ForEngine(e, dag[h].txs) # <<>>})
           r == Reached
           m == Keep(SubSeq(path, floor + 1, r), Busy(dag, e))
<1>1. /\ dag \in Dags /\ path \in Seq(KnownIn(dag)) /\ Distinct(path)
      /\ Len(path) \in Nat /\ Len(added) \in Nat /\ r \in Nat /\ r + Len(added) = Len(path)
      /\ r <= Len(path)
  BY Positions
<1>2. floor \in Nat /\ floor <= r
  BY DEF ListenerInv, TypeOK, Told
<1>3. P = {path[i] : i \in (r + 1)..Len(path)}
  <2>1. DOMAIN added = 1..Len(added) /\ \A i \in 1..Len(added) : added[i] = path[r + i]
    BY LenProperties DEF ListenerInv, TypeOK, Queued
  <2>2. \A i \in 1..Len(added) : r + i \in (r + 1)..Len(path)
    BY <1>1
  <2>3. \A i \in (r + 1)..Len(path) : i - r \in 1..Len(added) /\ r + (i - r) = i
    BY <1>1
  <2> HIDE DEF path, r
  <2>4. \A h \in P : h \in {path[i] : i \in (r + 1)..Len(path)}
    BY <2>1, <2>2
  <2>5. \A i \in (r + 1)..Len(path) : path[i] \in P
    BY <2>1, <2>3
  <2> HIDE DEF P
  <2> QED  BY ONLY <2>4, <2>5
<1> HIDE DEF path, P, r
<1>4. mine = m
  BY <1>1, <1>2, <1>3, PartPending
<1>5. m \in Seq(KnownIn(dag))
  <2>1. SubSeq(path, floor + 1, r) \in Seq(KnownIn(dag))
    BY <1>1, <1>2, Piece
  <2> QED  BY <2>1, KeepSeq
<1>6. DOMAIN m = 1..Len(m)
  BY <1>5, LenProperties
<1>7. Due(e) = [i \in DOMAIN mine |-> [hash |-> mine[i], txs |-> ForEngine(e, dag[mine[i]].txs)]]
  BY DEF Due, path, P
<1> HIDE DEF mine
<1>8. Due(e) = Part(dag, e, path, floor, r)
  BY <1>4, <1>6, <1>7 DEF Part, Batched, Batch, m
<1>9. fed[e] = Part(dag, e, path, floor, r)
  BY DEF Told, Position, path, r
<1> QED  BY <1>8, <1>9
-----------------------------------------------------------------------------
(* No header has the prefixes of two engines: what one consumes leaves all *)
(* of the others, and the required transactions hold all of each.          *)
LEMMA AskedAll ==
  ASSUME NEW e \in Engines, NEW txs \in Seq(Txs)
  PROVE  ForEngine(e, Keep(txs, Asked)) = ForEngine(e, txs)
<1>1. Consumed[e] \subseteq Asked
  BY DEF Consumed, Asked
<1>2. Asked \cap Consumed[e] = Consumed[e]
  BY <1>1
<1>3. Keep(Keep(txs, Asked), Consumed[e]) = Keep(txs, Asked \cap Consumed[e])
  BY KeepKeep
<1> QED  BY <1>2, <1>3 DEF ForEngine

LEMMA RestAll ==
  ASSUME NEW d \in Engines, NEW e \in Engines, d # e, NEW r \in Seq(Txs)
  PROVE  LET txs == ForEngine(d, r) IN
         ForEngine(e, Keep(r, Txs \ {txs[i] : i \in DOMAIN txs})) = ForEngine(e, r)
<1> DEFINE txs == ForEngine(d, r)
           T == Txs \ {txs[i] : i \in DOMAIN txs}
           C == Consumed[e]
<1>1. txs \in Seq(Txs \cap Consumed[d])
  BY KeepSeq DEF ForEngine
<1> HIDE DEF txs
<1>2. \A i \in DOMAIN txs : txs[i] \in Consumed[d]
  BY <1>1, ElementOfSeq, LenProperties
<1>3. \A t \in Txs : t \in Consumed[d] => t \notin C
  BY ProxyAssumption DEF Consumed
<1>4. C \subseteq Txs
  BY DEF Consumed
<1>5. \A t \in Txs : t \in T \cap C <=> t \in C
  BY <1>2, <1>3, <1>4
<1>6. \A i \in 1..Len(r) : r[i] \in Txs
  BY ElementOfSeq
<1> HIDE DEF T, C
<1>7. Keep(r, T \cap C) = Keep(r, C)
  BY <1>5, <1>6, KeepAgree
<1>8. Keep(Keep(r, T), C) = Keep(r, T \cap C)
  BY KeepKeep
<1> QED  BY <1>7, <1>8 DEF ForEngine, T, C, txs

-----------------------------------------------------------------------------
LEMMA InitInv == ListenerInit => ListenerInv
<1> SUFFICES ASSUME ListenerInit PROVE ListenerInv
  OBVIOUS
<1>1. /\ dag = [h \in Blocks |-> Unknown] /\ tip = Genesis /\ stage = "start" /\ sink = Genesis
      /\ added = <<>> /\ todo = {} /\ required = <<>> /\ fed = [e \in Engines |-> <<>>]
      /\ floor = 0 /\ lost = FALSE
  BY DEF ListenerInit
<1>2. Known = {} /\ KnownIn(dag) = {}
  BY <1>1 DEF Known, KnownIn
<1>3. Path(sink) = <<>> /\ Len(added) = 0 /\ Len(Path(sink)) = 0
  <2>1. Path(sink) = <<>>
    BY <1>1 DEF Path
  <2> QED  BY <1>1, <2>1, EmptySeq
<1>4. Reached = 0
  BY <1>3 DEF Reached
<1>5. TypeOK
  BY <1>1 DEF TypeOK, Dags
<1>6. Chained(dag)
  <2>1. 0 \in 0..MaxBlocks /\ 1..0 = {}
    BY ProxyAssumption
  <2> QED  BY <1>2, <2>1 DEF Chained
<1>7. Queued
  BY <1>1, <1>3, <1>4 DEF Queued
<1>8. Whole
  <2>1. \A e \in Engines : fed[e] = <<>> /\ Len(fed[e]) = 0
    BY <1>1, EmptySeq
  <2> QED  BY <2>1 DEF Whole
<1>9. Told
  <2>1. \A e \in Engines : Position(e) = 0
    BY <1>1, <1>4 DEF Position
  <2>2. \A e \in Engines : Part(dag, e, Path(sink), 0, 0) = <<>>
    BY <1>5, PartEmpty DEF TypeOK
  <2> QED  BY <1>1, <1>4, <2>1, <2>2 DEF Told
<1> QED  BY <1>5, <1>6, <1>7, <1>8, <1>9 DEF ListenerInv

(* Steps that leave the node's blocks and what the listener has of them *)
LEMMA CalmInv ==
  ASSUME ListenerInv, UNCHANGED <<nodeVars, sink, added, todo, required, fed, floor, lost>>,
         \/ stage' = stage
         \/ stage # "engines" /\ added = <<>> /\ stage' \notin {"start", "engines"}
  PROVE  ListenerInv'
<1>1. /\ UNCHANGED <<dag, tip>> /\ Known' = Known /\ Path(sink)' = Path(sink)
      /\ (block = block)' /\ Reached' = Reached
  BY DEF nodeVars, Known, Path, Reached
<1>2. \A e \in Engines : Position(e)' = Position(e)
  BY <1>1 DEF Position
<1>3. TypeOK'
  BY <1>1 DEF ListenerInv, TypeOK
<1>4. Chained(dag)'
  BY <1>1 DEF ListenerInv, Chained
<1>5. Queued'
  <2>1. Queued
    BY DEF ListenerInv
  <2> QED  BY <1>1, <2>1 DEF Queued, block
<1>6. Whole'
  BY <1>1 DEF ListenerInv, Whole
<1>7. (~ lost => Told)'
  BY <1>1, <1>2 DEF ListenerInv, Told
<1> QED  BY <1>3, <1>4, <1>5, <1>6, <1>7 DEF ListenerInv

(* The listener's sink is the node's: from here on blocks are counted. *)
LEMMA StartInv == ListenerInv /\ Start => ListenerInv'
<1> SUFFICES ASSUME ListenerInv, Start PROVE ListenerInv'
  OBVIOUS
<1>1. /\ stage = "start" /\ stage' = "tick" /\ sink' = tip /\ floor' = Len(Path(tip))
      /\ UNCHANGED <<dag, tip, added, todo, required, fed, lost>>
  BY DEF Start, nodeVars
<1>2. added = <<>> /\ Len(added) = 0 /\ \A e \in Engines : fed[e] = <<>>
  BY <1>1, Positions DEF ListenerInv, Queued
<1>3. Known' = Known /\ Path(sink)' = Path(tip) /\ Len(Path(tip)) \in Nat
  BY <1>1, Paths DEF ListenerInv, TypeOK, Known, Path
<1>4. Reached' = Len(Path(tip))
  BY <1>1, <1>2, <1>3 DEF Reached
<1>5. TypeOK'
  BY <1>1, <1>3 DEF ListenerInv, TypeOK
<1>6. Chained(dag)'
  BY <1>1 DEF ListenerInv
<1>7. Queued'
  BY <1>1, <1>2, <1>3, <1>4 DEF Queued
<1>8. Whole'
  BY <1>1, <1>3 DEF ListenerInv, Whole
<1>9. Told'
  <2>1. \A e \in Engines : Position(e)' = floor'
    BY <1>1, <1>4 DEF Position
  <2>2. \A e \in Engines : Part(dag, e, Path(tip), floor', floor') = <<>>
    BY <1>1, <1>3, PartEmpty DEF ListenerInv, TypeOK
  <2>3. floor' <= Reached'
    BY <1>1, <1>3, <1>4
  <2> QED  BY <1>1, <1>2, <1>3, <2>1, <2>2, <2>3 DEF Told
<1> QED  BY <1>5, <1>6, <1>7, <1>8, <1>9 DEF ListenerInv

LEMMA ResetSinkInv == ListenerInv /\ ResetSink => ListenerInv'
<1> SUFFICES ASSUME ListenerInv, ResetSink PROVE ListenerInv'
  OBVIOUS
<1>1. /\ stage = "ask" /\ stage' = "tick" /\ sink' = tip /\ lost' = (lost \/ tip # sink)
      /\ UNCHANGED <<dag, tip, added, todo, required, fed, floor>>
  BY DEF ResetSink, nodeVars
<1>2. added = <<>> /\ Len(added) = 0
  BY <1>1, Positions DEF ListenerInv, Queued
<1>3. Known' = Known /\ Path(sink)' = Path(tip) /\ Len(Path(tip)) \in Nat
  BY <1>1, Paths DEF ListenerInv, TypeOK, Known, Path
<1>4. Reached' = Len(Path(tip))
  BY <1>1, <1>2, <1>3 DEF Reached
<1>5. TypeOK'
  BY <1>1, <1>3 DEF ListenerInv, TypeOK
<1>6. Chained(dag)'
  BY <1>1 DEF ListenerInv
<1>7. Queued'
  BY <1>1, <1>2, <1>3, <1>4 DEF Queued
<1>8. Whole'
  BY <1>1, <1>3 DEF ListenerInv, Whole
<1>9. ASSUME ~ lost' PROVE Told'
  <2>1. ~ lost /\ tip = sink
    BY <1>1, <1>9
  <2>2. Path(sink)' = Path(sink) /\ Reached' = Reached
    BY <1>1, <1>2, <1>3, <1>4, <2>1 DEF Reached
  <2>3. \A e \in Engines : Position(e)' = Position(e)
    BY <1>1, <2>2 DEF Position
  <2> QED  BY <1>1, <2>1, <2>2, <2>3 DEF ListenerInv, Told
<1> QED  BY <1>5, <1>6, <1>7, <1>8, <1>9 DEF ListenerInv
(* A new block has a name of its own and extends the chain of its parent. *)
LEMMA MineInv == ListenerInv /\ Mine => ListenerInv'
<1> SUFFICES ASSUME ListenerInv, Mine PROVE ListenerInv'
  OBVIOUS
<1> DEFINE h == Cardinality(Known) + 1
<1>1. PICK parent \in Known \cup {Genesis}, txs \in BlockTxs :
         /\ h <= MaxBlocks
         /\ dag' = [dag EXCEPT ![h] = [path |-> Append(Path(parent), h), txs |-> txs]]
         /\ tip' = h \/ tip' = tip
         /\ UNCHANGED <<stage, sink, added, todo, required, fed, floor, lost>>
  BY DEF Mine
<1>2. TypeOK /\ Chained(dag) /\ Queued /\ Whole /\ (~ lost => Told)
  BY DEF ListenerInv
<1>3. /\ Known = KnownIn(dag) /\ Known \subseteq Blocks /\ Genesis \notin Known
      /\ Path(parent) \in Seq(Known) /\ Distinct(Path(parent))
  BY <1>2, Paths
<1>4. h \in Blocks /\ h \notin Known /\ Known \cup {h} = 1..h /\ h \in 0..MaxBlocks
  <2>1. PICK k \in 0..MaxBlocks : Known = 1..k
    BY <1>2, <1>3 DEF Chained
  <2>2. k \in Nat /\ Cardinality(1..k) = k
    <3>1. k \in Nat
      BY <2>1, ProxyAssumption
    <3>2. Cardinality(1..k) = IF 1 > k THEN 0 ELSE k - 1 + 1
      BY <3>1, FS_Interval
    <3> QED  BY <3>1, <3>2
  <2>3. h = k + 1
    BY <2>1, <2>2
  <2>4. 1..k \cup {k + 1} = 1..(k + 1) /\ k + 1 \notin 1..k /\ k + 1 \in Nat
    BY <2>2
  <2> HIDE DEF h
  <2> QED  BY <1>1, <2>1, <2>3, <2>4, <2>2, ProxyAssumption DEF Blocks
<1> HIDE DEF h
<1> DEFINE new == Append(Path(parent), h)
           rec == [path |-> new, txs |-> txs]
<1>5. /\ new \in Seq(Known \cup {h}) /\ Len(new) = Len(Path(parent)) + 1
      /\ Len(Path(parent)) \in Nat
      /\ \A i \in 1..Len(Path(parent)) : new[i] = Path(parent)[i] /\ Path(parent)[i] \in Known
      /\ new[Len(Path(parent)) + 1] = h
  <2>1. Path(parent) \in Seq(Known \cup {h})
    BY <1>3, SeqMonotonic
  <2> QED  BY <1>3, <2>1, AppendProperties, LenProperties, ElementOfSeq
<1> HIDE DEF new
<1>6. Distinct(new)
  <2> SUFFICES ASSUME NEW i \in 1..Len(new), NEW j \in 1..Len(new), new[i] = new[j]
               PROVE  i = j
    BY DEF Distinct
  <2> DEFINE n == Len(Path(parent))
  <2>1. (i \in 1..n \/ i = n + 1) /\ (j \in 1..n \/ j = n + 1)
    BY <1>5
  <2>2. CASE i \in 1..n /\ j \in 1..n
    BY <1>3, <1>5, <2>2 DEF Distinct
  <2> HIDE DEF n
  <2>3. CASE i = n + 1
    BY <1>4, <1>5, <2>1, <2>3 DEF n
  <2>4. CASE j = n + 1
    BY <1>4, <1>5, <2>1, <2>4 DEF n
  <2> QED  BY <2>1, <2>2, <2>3, <2>4
<1>7. rec \in Records /\ rec.path = new
  <2>1. new \in Seq(Blocks)
    BY <1>3, <1>4, <1>5, SeqMonotonic
  <2> QED  BY <2>1 DEF Records
<1>8. rec # Unknown
  BY <1>7, ProxyAssumption
<1> HIDE DEF rec
<1>9. dag \in Dags /\ dag' = [dag EXCEPT ![h] = rec]
  BY <1>1, <1>2 DEF TypeOK, rec, new
<1>10. /\ dag' \in Dags /\ dag'[h] = rec
       /\ \A d \in Blocks : d # h => dag'[d] = dag[d]
  BY <1>4, <1>7, <1>9 DEF Dags
<1>11. Known' = Known \cup {h} /\ KnownIn(dag') = Known \cup {h}
  BY <1>3, <1>4, <1>8, <1>10 DEF Known, KnownIn
<1>12. \A d \in KnownIn(dag) : d \in KnownIn(dag') /\ dag'[d] = dag[d]
  BY <1>3, <1>4, <1>10, <1>11
<1>13. Chained(dag')
  <2>1. \E k \in 0..MaxBlocks : KnownIn(dag') = 1..k
    BY <1>4, <1>11
  <2>2. ASSUME NEW d \in KnownIn(dag')
        PROVE  /\ dag'[d].path \in Seq(KnownIn(dag')) /\ Distinct(dag'[d].path)
               /\ dag'[d].path # <<>> /\ Last(dag'[d].path) = d
    <3>1. CASE d = h
      <4>1. new # <<>>
        BY <1>5, EmptySeq
      <4>2. Last(new) = h
        BY <1>5, <4>1, FrontLast
      <4> QED  BY <1>5, <1>6, <1>7, <1>10, <1>11, <3>1, <4>1, <4>2
    <3>2. CASE d # h
      <4>1. d \in KnownIn(dag) /\ dag'[d] = dag[d]
        BY <1>3, <1>10, <1>11, <1>12, <3>2
      <4>2. /\ dag[d].path \in Seq(KnownIn(dag)) /\ Distinct(dag[d].path)
            /\ dag[d].path # <<>> /\ Last(dag[d].path) = d
        BY <1>2, <4>1 DEF Chained
      <4>3. dag[d].path \in Seq(KnownIn(dag'))
        BY <1>12, <4>2, SeqMonotonic
      <4> QED  BY <4>1, <4>2, <4>3
    <3> QED  BY <3>1, <3>2
  <2> QED  BY <2>1, <2>2 DEF Chained
<1>14. TypeOK'
  <2>1. added \in Seq(Known \cup {h})
    BY <1>2, SeqMonotonic DEF TypeOK
  <2> QED  BY <1>1, <1>2, <1>10, <1>11, <2>1 DEF TypeOK
<1>15. Path(sink)' = Path(sink)
  <2>1. sink \in Known \cup {Genesis}
    BY <1>2 DEF TypeOK
  <2>2. sink # Genesis => dag'[sink] = dag[sink]
    BY <1>3, <1>12, <2>1
  <2>3. sink' = sink
    BY <1>1
  <2>4. CASE sink = Genesis
    BY <2>3, <2>4 DEF Path
  <2>5. CASE sink # Genesis
    <3>1. dag'[sink].path = dag[sink].path
      BY <2>2, <2>5
    <3>2. Path(sink) = dag[sink].path
      BY <2>5 DEF Path
    <3>3. Path(sink)' = dag'[sink'].path
      BY <2>3, <2>5 DEF Path
    <3> QED  BY <2>3, <3>1, <3>2, <3>3
  <2> QED  BY <2>4, <2>5
<1>16. Reached' = Reached /\ \A e \in Engines : Position(e)' = Position(e)
  BY <1>1, <1>15 DEF Reached, Position
<1>17. (block = block)' /\ (added # <<>> => block' = block /\ block \in KnownIn(dag))
  BY <1>1, Positions DEF block
<1>18. Queued'
  <2>1. added # <<>> => dag'[block'] = dag[block]
    BY <1>12, <1>17
  <2> QED  BY <1>1, <1>2, <1>15, <1>16, <2>1 DEF Queued
<1>19. Whole'
  <2> SUFFICES ASSUME NEW e \in Engines, NEW i \in 1..Len(fed[e])
               PROVE  /\ fed[e][i].hash \in Known'
                      /\ fed[e][i] = Batch(dag', e, fed[e][i].hash)
    BY <1>1 DEF Whole
  <2>1. fed[e][i].hash \in Known /\ fed[e][i] = Batch(dag, e, fed[e][i].hash)
    BY <1>2 DEF Whole
  <2>2. dag'[fed[e][i].hash] = dag[fed[e][i].hash] /\ fed[e][i].hash \in Known'
    BY <1>3, <1>11, <1>12, <2>1
  <2> QED  BY <2>1, <2>2 DEF Batch
<1>20. ASSUME ~ lost PROVE Told'
  <2>1. ASSUME NEW e \in Engines
        PROVE  Part(dag', e, Path(sink), floor, Position(e)) = Part(dag, e, Path(sink), floor, Position(e))
    <3>1. /\ Path(sink) \in Seq(KnownIn(dag)) /\ Position(e) \in Nat /\ Reached \in Nat
          /\ Reached <= Position(e) /\ Position(e) <= Len(Path(sink))
      BY Positions
    <3>2. floor \in Nat /\ floor <= Position(e)
      BY <1>2, <1>20, <3>1 DEF TypeOK, Told
    <3> DEFINE f == dag'
               path == Path(sink)
               k == Position(e)
    <3>3. f \in Dags /\ \A d \in KnownIn(dag) : d \in KnownIn(f) /\ f[d] = dag[d]
      BY <1>10, <1>12
    <3>4. path \in Seq(KnownIn(dag)) /\ k \in Nat /\ floor <= k /\ k <= Len(path)
      BY <3>1, <3>2
    <3> HIDE DEF f, path, k
    <3>5. Part(f, e, path, floor, k) = Part(dag, e, path, floor, k)
      BY <1>9, <3>2, <3>3, <3>4, PartDag
    <3> QED  BY <3>5 DEF f, path, k
  <2> QED  BY <1>1, <1>2, <1>15, <1>16, <1>20, <2>1 DEF Told
<1> QED  BY <1>13, <1>14, <1>18, <1>19, <1>20, <1>1 DEF ListenerInv
(* The next block to be fetched, once the first is dealt with *)
LEMMA NextTail ==
  ASSUME ListenerInv, added # <<>>, added' = Tail(added), UNCHANGED <<nodeVars, sink>>
  PROVE  /\ dag' = dag /\ tip' = tip /\ sink' = sink /\ Known' = Known
         /\ Path(sink)' = Path(sink)
         /\ added' \in Seq(Known) /\ Reached' = Reached + 1 /\ Reached' \in Nat
         /\ \A i \in 1..Len(added') : added'[i] = Path(sink)[Reached' + i]
<1>1. /\ added \in Seq(Known) /\ Len(added) \in Nat /\ Reached \in Nat
      /\ Len(Path(sink)) \in Nat /\ Reached + Len(added) = Len(Path(sink))
      /\ \A i \in 1..Len(added) : added[i] = Path(sink)[Reached + i]
  BY Positions DEF ListenerInv, TypeOK, Queued
<1>2. /\ dag' = dag /\ tip' = tip /\ sink' = sink /\ Known' = Known
      /\ Path(sink)' = Path(sink)
  BY DEF nodeVars, Known, Path
<1>3. /\ added' \in Seq(Known) /\ Len(added') = Len(added) - 1
      /\ \A i \in 1..Len(added') : added'[i] = added[i + 1]
  BY <1>1, HeadTailProperties
<1>4. Reached' = Len(Path(sink)) - (Len(added) - 1)
  BY <1>2, <1>3 DEF Reached
<1>5. Reached' = Reached + 1 /\ Reached' \in Nat
  BY <1>1, <1>4
<1>6. ASSUME NEW i \in 1..Len(added') PROVE added'[i] = Path(sink)[Reached' + i]
  <2>1. i + 1 \in 1..Len(added) /\ Reached + (i + 1) = Reached' + i
    BY <1>1, <1>3, <1>5
  <2> QED  BY <1>1, <1>3, <2>1
<1> QED  BY <1>2, <1>3, <1>5, <1>6

(* The blocks behind the fork are announced as reverted, those behind it on *)
(* the new chain are to be fetched.                                        *)
LEMMA PollInv == ListenerInv /\ Poll => ListenerInv'
<1> SUFFICES ASSUME ListenerInv, Poll PROVE ListenerInv'
  OBVIOUS
<1> DEFINE old == Path(sink)
           new == Path(tip)
           n == Fork(old, new)
           R == {old[i] : i \in (n + 1)..Len(old)}
<1>1. /\ stage = "ask" /\ Len(new) > n /\ sink' = Last(new)
      /\ fed' = [e \in Engines |-> Keep(fed[e], Off(R))]
      /\ added' = SubSeq(new, n + 1, Len(new))
      /\ floor' = IF n < floor THEN n ELSE floor
      /\ stage' = "dispatch"
      /\ UNCHANGED <<dag, tip, todo, required, lost>>
  BY DEF Poll, Announce, nodeVars, Off
<1>2. TypeOK /\ Chained(dag) /\ Queued /\ Whole /\ (~ lost => Told)
  BY DEF ListenerInv
<1>3. /\ Known = KnownIn(dag) /\ dag \in Dags /\ Known' = Known
      /\ old \in Seq(Known) /\ Distinct(old) /\ Len(old) \in Nat
      /\ new \in Seq(Known) /\ Len(new) \in Nat
  BY <1>1, <1>2, Paths DEF TypeOK, Known
<1>4. n \in Nat /\ n <= Len(old) /\ n <= Len(new) /\ \A i \in 1..n : old[i] = new[i]
  <2> HIDE DEF old, new
  <2> QED  BY <1>3, ForkSound
<1>5. tip \in Known /\ sink' = tip
  <2>1. tip # Genesis
    <3>1. Len(Path(Genesis)) = 0
      BY EmptySeq DEF Path
    <3> HIDE DEF n
    <3> QED  BY <1>1, <1>4, <3>1
  <2>2. tip \in Known
    BY <1>2, <2>1 DEF TypeOK
  <2>3. Last(new) = tip
    BY <1>2, <1>3, <2>1, <2>2 DEF Chained, Path
  <2> QED  BY <1>1, <2>2, <2>3
<1>6. Path(sink)' = new
  BY <1>1, <1>5 DEF Path
<1> HIDE DEF old, new, n
<1>7. /\ added' \in Seq(Known) /\ Len(added') = Len(new) - n
      /\ \A i \in 1..(Len(new) - n) : added'[i] = new[n + i]
  <2>1. Len(new) <= Len(new)
    BY <1>3
  <2> QED  BY <1>1, <1>3, <1>4, <2>1, Piece
<1>8. Reached' = n
  <2>1. Reached' = Len(new) - (Len(new) - n)
    BY <1>6, <1>7 DEF Reached
  <2> QED  BY <1>3, <1>4, <2>1
<1>9. floor' \in Nat /\ floor' <= n
  BY <1>1, <1>2, <1>4 DEF TypeOK
<1>10. \A e \in Engines : fed[e] \in Seq(Batches) /\ fed'[e] = Keep(fed[e], Off(R))
  BY <1>1, <1>2 DEF TypeOK
<1> HIDE DEF R
<1>11. TypeOK'
  <2>1. \A e \in Engines : fed'[e] \in Seq(Batches)
    BY <1>10, KeepSeq
  <2>2. fed' \in [Engines -> Seq(Batches)]
    BY <1>1, <2>1
  <2> QED  BY <1>1, <1>2, <1>3, <1>5, <1>7, <1>9, <2>2 DEF TypeOK
<1>12. Chained(dag)'
  BY <1>1, <1>2
<1>13. Queued'
  BY <1>1, <1>4, <1>6, <1>7, <1>8 DEF Queued
<1>14. Whole'
  <2> SUFFICES ASSUME NEW e \in Engines, NEW i \in 1..Len(fed'[e])
               PROVE  fed'[e][i].hash \in Known /\ fed'[e][i] = Batch(dag, e, fed'[e][i].hash)
    BY <1>1, <1>3 DEF Whole
  <2> DEFINE y == fed'[e][i]
             s == fed[e]
             T == Off(R)
  <2>1. s \in Seq(Batches) /\ \E j \in 1..Len(Keep(s, T)) : Keep(s, T)[j] = y
    BY <1>10
  <2>2. \E j \in 1..Len(s) : s[j] = y
    <3> HIDE DEF y, s, T
    <3>1. Contains(Keep(s, T), y) <=> y \in T /\ Contains(s, y)
      BY <2>1, KeepMembers
    <3> QED  BY <2>1, <3>1 DEF Contains
  <2> QED  BY <1>2, <2>2 DEF Whole
<1>15. ASSUME ~ lost' PROVE Told'
  <2>1. Told /\ added = <<>>
    BY <1>1, <1>2, <1>15 DEF Queued
  <2>2. Reached = Len(old)
    <3>1. Len(added) = 0 /\ Reached + Len(added) = Len(old) /\ Reached \in Nat
      BY <2>1, Positions DEF old
    <3> QED  BY <3>1
  <2>3. floor \in Nat /\ floor <= Len(old)
    BY <1>2, <2>1, <2>2 DEF TypeOK, Told
  <2>4. ASSUME NEW e \in Engines
        PROVE  fed'[e] = Part(dag, e, new, floor', n)
    <3>1. fed[e] = Part(dag, e, old, floor, Len(old))
      BY <1>1, <2>1, <2>2 DEF Told, Position, old
    <3>2. Keep(Part(dag, e, old, floor, Len(old)), Off(R))
             = Part(dag, e, new, IF n < floor THEN n ELSE floor, n)
      BY <1>3, <1>4, <2>3, PartReverted DEF R
    <3> QED  BY <1>1, <1>10, <3>1, <3>2
  <2>5. \A e \in Engines : Position(e)' = n
    BY <1>1, <1>8 DEF Position
  <2> QED  BY <1>1, <1>6, <1>8, <1>9, <2>4, <2>5 DEF Told
<1> QED  BY <1>1, <1>11, <1>12, <1>13, <1>14, <1>15 DEF ListenerInv

(* A block that no pattern asks for holds nothing for any engine. *)
LEMMA NothingRequiredInv == ListenerInv /\ NothingRequired => ListenerInv'
<1> SUFFICES ASSUME ListenerInv, NothingRequired PROVE ListenerInv'
  OBVIOUS
<1>1. /\ stage = "dispatch" /\ stage' = stage /\ added # <<>> /\ RequiredOf(block) = <<>>
      /\ added' = Tail(added) /\ UNCHANGED <<nodeVars, sink>>
      /\ UNCHANGED <<todo, required, fed, floor, lost>>
  BY DEF NothingRequired, Fetching, NextBlock
<1>2. TypeOK /\ Chained(dag) /\ Queued /\ Whole /\ (~ lost => Told)
  BY DEF ListenerInv
<1>3. /\ dag' = dag /\ tip' = tip /\ sink' = sink /\ Known' = Known
      /\ Path(sink)' = Path(sink)
      /\ added' \in Seq(Known) /\ Reached' = Reached + 1 /\ Reached' \in Nat
      /\ \A i \in 1..Len(added') : added'[i] = Path(sink)[Reached' + i]
  BY <1>1, NextTail
<1>4. TypeOK'
  BY <1>1, <1>2, <1>3 DEF TypeOK
<1>5. Chained(dag)'
  BY <1>2, <1>3
<1>6. Queued'
  BY <1>1, <1>3 DEF Queued
<1>7. Whole'
  BY <1>1, <1>2, <1>3 DEF Whole
<1>8. ASSUME ~ lost' PROVE Told'
  <2>1. Told
    BY <1>1, <1>2, <1>8
  <2>2. /\ dag \in Dags /\ Path(sink) \in Seq(KnownIn(dag)) /\ Reached \in Nat
        /\ Len(Path(sink)) \in Nat
        /\ block = Path(sink)[Reached + 1] /\ block \in KnownIn(dag)
        /\ Reached + 1 <= Len(Path(sink))
    BY <1>1, Positions
  <2>3. floor \in Nat /\ floor <= Reached /\ Reached < Len(Path(sink)) /\ floor <= Reached + 1
    BY <1>2, <2>1, <2>2 DEF TypeOK, Told
  <2>4. ASSUME NEW e \in Engines
        PROVE  Part(dag, e, Path(sink), floor, Reached + 1) = fed[e]
    <3>1. dag[block].txs \in Seq(Txs)
      BY <2>2, DagParts
    <3>2. ForEngine(e, dag[block].txs) = ForEngine(e, <<>>)
      BY <1>1, <3>1, AskedAll DEF RequiredOf
    <3>3. ForEngine(e, dag[block].txs) = <<>>
      BY <3>2, KeepEmpty DEF ForEngine
    <3>4. fed[e] = Part(dag, e, Path(sink), floor, Reached)
      BY <1>1, <2>1 DEF Told, Position
    <3> DEFINE path == Path(sink)
               k == Reached
    <3>5. /\ path \in Seq(KnownIn(dag)) /\ k \in Nat /\ floor <= k /\ k < Len(path)
          /\ ForEngine(e, dag[path[k + 1]].txs) = <<>>
      BY <2>2, <2>3, <3>3
    <3> HIDE DEF path, k
    <3>6. Part(dag, e, path, floor, k + 1) = Part(dag, e, path, floor, k)
      BY <2>2, <2>3, <3>5, PartNext
    <3> QED  BY <3>4, <3>6 DEF path, k
  <2>5. \A e \in Engines : Position(e)' = Reached + 1
    BY <1>1, <1>3 DEF Position
  <2> QED  BY <1>1, <1>3, <2>3, <2>4, <2>5 DEF Told
<1> QED  BY <1>1, <1>4, <1>5, <1>6, <1>7, <1>8 DEF ListenerInv

(* What is asked for of a block holds all that any engine is due of it. *)
LEMMA FetchInv == ListenerInv /\ Fetch => ListenerInv'
<1> SUFFICES ASSUME ListenerInv, Fetch PROVE ListenerInv'
  OBVIOUS
<1>1. /\ stage = "dispatch" /\ stage' = "engines" /\ added # <<>>
      /\ required' = RequiredOf(block) /\ todo' = Engines
      /\ UNCHANGED <<dag, tip, sink, added, fed, floor, lost>>
  BY DEF Fetch, Fetching, nodeVars
<1>2. TypeOK /\ Chained(dag) /\ Queued /\ Whole /\ (~ lost => Told)
  BY DEF ListenerInv
<1>3. /\ Known' = Known /\ Path(sink)' = Path(sink) /\ Reached' = Reached /\ (block = block)'
  BY <1>1 DEF Known, Path, Reached
<1>4. block \in KnownIn(dag) /\ dag \in Dags /\ dag[block].txs \in Seq(Txs)
  BY <1>1, Positions, DagParts
<1>5. TypeOK'
  <2>1. required' \in Seq(Txs)
    BY <1>1, <1>4, KeepSeq DEF RequiredOf
  <2> QED  BY <1>1, <1>2, <1>3, <2>1 DEF TypeOK
<1>6. Chained(dag)'
  BY <1>1, <1>2
<1>7. Queued'
  <2>1. \A e \in Engines : ForEngine(e, required') = ForEngine(e, dag[block].txs)
    BY <1>1, <1>4, AskedAll DEF RequiredOf
  <2>2. block' = block
    BY <1>1 DEF block
  <2> QED  BY <1>1, <1>2, <1>3, <2>1, <2>2 DEF Queued
<1>8. Whole'
  BY <1>1, <1>2, <1>3 DEF Whole
<1>9. ASSUME ~ lost' PROVE Told'
  <2>1. \A e \in Engines : Position(e)' = Position(e)
    BY <1>1, <1>3 DEF Position
  <2> QED  BY <1>1, <1>2, <1>3, <1>9, <2>1 DEF Told
<1> QED  BY <1>1, <1>5, <1>6, <1>7, <1>8, <1>9 DEF ListenerInv

(* A block is given up: only what was handed over before it is known whole. *)
LEMMA SkipBlockInv == ListenerInv /\ SkipBlock => ListenerInv'
<1> SUFFICES ASSUME ListenerInv, SkipBlock PROVE ListenerInv'
  OBVIOUS
<1>1. /\ stage = "dispatch" /\ stage' = stage /\ added # <<>> /\ lost' = TRUE
      /\ added' = Tail(added) /\ UNCHANGED <<nodeVars, sink>>
      /\ UNCHANGED <<todo, required, fed, floor>>
  BY DEF SkipBlock, Fetching, NextBlock
<1>2. TypeOK /\ Chained(dag) /\ Queued /\ Whole
  BY DEF ListenerInv
<1>3. /\ dag' = dag /\ tip' = tip /\ sink' = sink /\ Known' = Known
      /\ Path(sink)' = Path(sink)
      /\ added' \in Seq(Known) /\ Reached' = Reached + 1 /\ Reached' \in Nat
      /\ \A i \in 1..Len(added') : added'[i] = Path(sink)[Reached' + i]
  BY <1>1, NextTail
<1>4. TypeOK'
  BY <1>1, <1>2, <1>3 DEF TypeOK
<1>5. Chained(dag)'
  BY <1>2, <1>3
<1>6. Queued'
  BY <1>1, <1>3 DEF Queued
<1>7. Whole'
  BY <1>1, <1>2, <1>3 DEF Whole
<1> QED  BY <1>1, <1>4, <1>5, <1>6, <1>7 DEF ListenerInv
(* An engine that had its turn is one block ahead of those still to come.  *)
(* What it consumes is of no other engine, so that those that get no turn, *)
(* when nothing is left, are due nothing of the block.                     *)
LEMMA DispatchInv == ListenerInv /\ Dispatch => ListenerInv'
<1> SUFFICES ASSUME ListenerInv, Dispatch PROVE ListenerInv'
  OBVIOUS
<1>1. PICK e \in todo :
        LET txs  == ForEngine(e, required)
            rest == Keep(required, Txs \ {txs[i] : i \in DOMAIN txs})
            over == todo = {e} \/ rest = <<>> IN
        /\ fed' = IF txs = <<>> THEN fed
                  ELSE [fed EXCEPT ![e] = Append(@, [hash |-> block, txs |-> txs])]
        /\ todo' = IF over THEN {} ELSE todo \ {e}
        /\ required' = IF over THEN <<>> ELSE rest
        /\ added' = IF over THEN Tail(added) ELSE added
        /\ stage' = IF over THEN "dispatch" ELSE "engines"
  BY DEF Dispatch
<1> DEFINE txs  == ForEngine(e, required)
           rest == Keep(required, Txs \ {txs[i] : i \in DOMAIN txs})
           over == todo = {e} \/ rest = <<>>
<1>2. /\ stage = "engines" /\ UNCHANGED <<nodeVars, dag, tip, sink, floor, lost>>
  BY DEF Dispatch, nodeVars
<1>3. TypeOK /\ Chained(dag) /\ Queued /\ Whole /\ (~ lost => Told)
  BY DEF ListenerInv
<1>4. /\ added # <<>> /\ e \in Engines /\ todo \subseteq Engines /\ required \in Seq(Txs)
      /\ \A d \in todo : ForEngine(d, required) = ForEngine(d, dag[block].txs)
  BY <1>2, <1>3 DEF Queued, TypeOK
<1>5. /\ dag \in Dags /\ Known = KnownIn(dag) /\ Path(sink) \in Seq(KnownIn(dag))
      /\ Reached \in Nat /\ Len(Path(sink)) \in Nat
      /\ block = Path(sink)[Reached + 1] /\ block \in Known
      /\ Reached + 1 <= Len(Path(sink))
  BY <1>4, Positions
<1>6. txs = ForEngine(e, dag[block].txs)
  BY <1>4
<1>7. rest \in Seq(Txs) /\ \A d \in todo \ {e} : ForEngine(d, rest) = ForEngine(d, dag[block].txs)
  <2>1. rest \in Seq(Txs)
    BY <1>4, KeepSeq
  <2>2. ASSUME NEW d \in todo \ {e} PROVE ForEngine(d, rest) = ForEngine(d, required)
    BY <1>4, RestAll
  <2> QED  BY <1>4, <2>1, <2>2
<1> DEFINE b == Batch(dag, e, block)
<1>8. /\ todo' = IF over THEN {} ELSE todo \ {e}
      /\ required' = IF over THEN <<>> ELSE rest
      /\ added' = IF over THEN Tail(added) ELSE added
      /\ stage' = IF over THEN "dispatch" ELSE "engines"
      /\ fed' = IF txs = <<>> THEN fed ELSE [fed EXCEPT ![e] = Append(@, b)]
  BY <1>1, <1>6 DEF Batch
<1>9. over => \A d \in todo \ {e} : ForEngine(d, dag[block].txs) = <<>>
  <2>1. ASSUME over, NEW d \in todo \ {e} PROVE ForEngine(d, dag[block].txs) = <<>>
    <3>1. rest = <<>>
      BY <2>1
    <3> HIDE DEF rest
    <3> QED  BY <1>7, <2>1, <3>1, KeepEmpty DEF ForEngine
  <2> QED  BY <2>1
<1>10. b \in Batches /\ b.hash = block
  BY <1>4, <1>5, DagParts
<1> HIDE DEF rest, over, txs, b
<1>11. /\ fed \in [Engines -> Seq(Batches)] /\ fed' \in [Engines -> Seq(Batches)]
       /\ fed'[e] = IF txs = <<>> THEN fed[e] ELSE Append(fed[e], b)
       /\ \A d \in Engines : d # e => fed'[d] = fed[d]
  <2>1. fed \in [Engines -> Seq(Batches)]
    BY <1>3 DEF TypeOK
  <2>2. Append(fed[e], b) \in Seq(Batches)
    BY <1>4, <1>10, <2>1, AppendProperties
  <2> QED  BY <1>4, <1>8, <2>1, <2>2
<1>12. /\ Known' = Known /\ Path(sink)' = Path(sink)
  BY <1>2 DEF Known, Path
<1>13. ASSUME over
       PROVE  /\ TypeOK' /\ Queued' /\ Reached' = Reached + 1
              /\ \A d \in Engines : Position(d)' = Reached + 1
  <2>1. added' = Tail(added) /\ todo' = {} /\ required' = <<>> /\ stage' = "dispatch"
    BY <1>8, <1>13
  <2>2. /\ added' \in Seq(Known) /\ Reached' = Reached + 1 /\ Reached' \in Nat
        /\ \A i \in 1..Len(added') : added'[i] = Path(sink)[Reached' + i]
    BY <1>2, <1>4, <2>1, NextTail
  <2>3. TypeOK'
    <3>1. <<>> \in Seq(Txs)
      BY EmptySeq
    <3> QED  BY <1>2, <1>3, <1>11, <1>12, <2>1, <2>2, <3>1 DEF TypeOK
  <2>4. Queued'
    BY <1>12, <2>1, <2>2 DEF Queued
  <2>5. \A d \in Engines : Position(d)' = Reached + 1
    BY <2>1, <2>2 DEF Position
  <2> QED  BY <2>2, <2>3, <2>4, <2>5
<1>14. ASSUME ~ over
       PROVE  /\ TypeOK' /\ Queued' /\ Reached' = Reached
              /\ \A d \in Engines : Position(d)' =
                    IF d \in todo \ {e} THEN Reached ELSE Reached + 1
  <2>1. added' = added /\ todo' = todo \ {e} /\ required' = rest /\ stage' = "engines"
    BY <1>8, <1>14
  <2>2. Reached' = Reached /\ block' = block
    BY <1>12, <2>1 DEF Reached, block
  <2>3. TypeOK'
    BY <1>2, <1>3, <1>7, <1>11, <1>12, <2>1 DEF TypeOK
  <2>4. Queued'
    BY <1>2, <1>3, <1>4, <1>7, <1>12, <2>1, <2>2 DEF Queued
  <2>5. \A d \in Engines : Position(d)' = IF d \in todo \ {e} THEN Reached ELSE Reached + 1
    BY <2>1, <2>2 DEF Position
  <2> QED  BY <2>2, <2>3, <2>4, <2>5
<1>15. /\ TypeOK' /\ Queued' /\ Reached <= Reached'
       /\ \A d \in Engines : Position(d)' = IF ~ over /\ d \in todo \ {e} THEN Reached
                                            ELSE Reached + 1
  BY <1>5, <1>13, <1>14
<1>16. Chained(dag)'
  BY <1>2, <1>3
<1>17. Whole'
  <2> SUFFICES ASSUME NEW d \in Engines, NEW i \in 1..Len(fed'[d])
               PROVE  fed'[d][i].hash \in Known /\ fed'[d][i] = Batch(dag, d, fed'[d][i].hash)
    BY <1>2, <1>12 DEF Whole
  <2>1. CASE fed'[d] = fed[d]
    BY <1>3, <2>1 DEF Whole
  <2>2. CASE d = e /\ fed'[e] = Append(fed[e], b)
    <3>1. /\ Len(fed'[e]) = Len(fed[e]) + 1 /\ Len(fed[e]) \in Nat
          /\ \A j \in 1..Len(fed[e]) : fed'[e][j] = fed[e][j]
          /\ fed'[e][Len(fed[e]) + 1] = b
      BY <1>4, <1>10, <1>11, <2>2, AppendProperties, LenProperties
    <3>2. i \in 1..Len(fed[e]) \/ i = Len(fed[e]) + 1
      BY <2>2, <3>1
    <3>3. CASE i \in 1..Len(fed[e])
      BY <1>3, <1>4, <2>2, <3>1, <3>3 DEF Whole
    <3>4. CASE i = Len(fed[e]) + 1
      <4>1. fed'[d][i] = b
        BY <2>2, <3>1, <3>4
      <4> QED  BY <1>5, <1>10, <2>2, <4>1 DEF b
    <3> QED  BY <3>2, <3>3, <3>4
  <2> QED  BY <1>11, <2>1, <2>2
<1>18. ASSUME ~ lost' PROVE Told'
  <2>1. Told
    BY <1>2, <1>3, <1>18
  <2> DEFINE path == Path(sink)
             k == Reached
  <2>2. floor \in Nat /\ floor <= k /\ k \in Nat /\ k < Len(path)
        /\ path \in Seq(KnownIn(dag)) /\ path[k + 1] = block
    BY <1>3, <1>5, <2>1 DEF TypeOK, Told
  <2>3. \A d \in Engines : fed[d] = Part(dag, d, path, floor, IF d \in todo THEN k ELSE k + 1)
    BY <1>2, <2>1 DEF Told, Position
  <2> HIDE DEF path, k
  <2>4. \A d \in Engines : Part(dag, d, path, floor, k + 1) =
           IF ForEngine(d, dag[block].txs) = <<>> THEN Part(dag, d, path, floor, k)
           ELSE Append(Part(dag, d, path, floor, k), Batch(dag, d, block))
    BY <1>5, <2>2, PartNext
  <2>5. ASSUME NEW d \in Engines
        PROVE  fed'[d] = Part(dag, d, path, floor,
                              IF ~ over /\ d \in todo \ {e} THEN k ELSE k + 1)
    <3>1. CASE d = e
      <4>1. fed[e] = Part(dag, e, path, floor, k)
        BY <1>4, <2>3
      <4>2. fed'[e] = Part(dag, e, path, floor, k + 1)
        BY <1>4, <1>6, <1>11, <2>4, <4>1 DEF b
      <4> QED  BY <3>1, <4>2
    <3>2. CASE d # e /\ d \in todo
      <4>1. fed'[d] = Part(dag, d, path, floor, k)
        BY <1>11, <2>3, <3>2
      <4>2. over => Part(dag, d, path, floor, k + 1) = Part(dag, d, path, floor, k)
        BY <1>9, <2>4, <3>2
      <4> QED  BY <3>2, <4>1, <4>2
    <3>3. CASE d # e /\ d \notin todo
      BY <1>11, <2>3, <3>3
    <3> QED  BY <3>1, <3>2, <3>3
  <2>6. floor' <= Reached'
    <3>1. Reached' \in Int
      BY <1>15 DEF Queued
    <3> QED  BY <1>2, <1>15, <2>2, <3>1 DEF k
  <2>7. \A d \in Engines : fed'[d] = Part(dag, d, Path(sink), floor, Position(d)')
    BY <1>15, <2>5 DEF path, k
  <2> QED  BY <1>2, <1>12, <2>6, <2>7 DEF Told
<1> QED  BY <1>2, <1>15, <1>16, <1>17, <1>18 DEF ListenerInv
-----------------------------------------------------------------------------
LEMMA NextInv == ListenerInv /\ [ListenerNext]_listenerVars => ListenerInv'
<1> SUFFICES ASSUME ListenerInv, [ListenerNext]_listenerVars PROVE ListenerInv'
  OBVIOUS
<1>1. stage \in {"start", "tick", "ask", "dispatch"} => stage # "engines"
  OBVIOUS
<1>2. stage \notin {"dispatch", "engines"} => added = <<>>
  BY DEF ListenerInv, Queued
<1>3. CASE Mine
  BY <1>3, MineInv
<1>4. CASE RaiseExit
  BY <1>4, CalmInv DEF RaiseExit, nodeVars
<1>5. CASE Start
  BY <1>5, StartInv
<1>6. CASE Wake
  BY <1>2, <1>6, CalmInv DEF Wake
<1>7. CASE SendExit
  BY <1>2, <1>7, CalmInv DEF SendExit
<1>8. CASE Poll
  BY <1>8, PollInv
<1>9. CASE NoNews
  BY <1>2, <1>9, CalmInv DEF NoNews
<1>10. CASE NothingRequired
  BY <1>10, NothingRequiredInv
<1>11. CASE Fetch
  BY <1>11, FetchInv
<1>12. CASE Dispatch
  BY <1>12, DispatchInv
<1>13. CASE BatchDone
  BY <1>13, CalmInv DEF BatchDone
<1>14. CASE StartFails
  BY <1>2, <1>14, CalmInv DEF StartFails
<1>15. CASE PollFails
  BY <1>2, <1>15, CalmInv DEF PollFails
<1>16. CASE ResetSink
  BY <1>16, ResetSinkInv
<1>17. CASE SkipBlock
  BY <1>17, SkipBlockInv
<1>18. CASE UNCHANGED listenerVars
  BY <1>18, CalmInv DEF listenerVars, nodeVars
<1> QED
  BY <1>3, <1>4, <1>5, <1>6, <1>7, <1>8, <1>9, <1>10, <1>11, <1>12, <1>13, <1>14, <1>15,
     <1>16, <1>17, <1>18 DEF ListenerNext, Listen

(* run_listener feeds every engine, at any moment, what it owes it of the  *)
(* chain up to the block it has reached, as long as it gave up no block.   *)
THEOREM ListenerInductive == ListenerSpec => []ListenerInv
<1>1. ListenerInit => ListenerInv
  BY InitInv
<1>2. ListenerInv /\ [ListenerNext]_listenerVars => ListenerInv'
  BY NextInv
<1> QED  BY <1>1, <1>2, PTL DEF ListenerSpec

LEMMA FedByInv == ListenerInv => FedWhole
<1> SUFFICES ASSUME ListenerInv PROVE FedWhole
  OBVIOUS
<1>1. ASSUME ~ lost, stage # "engines", NEW e \in Engines PROVE fed[e] = Due(e)
  BY <1>1, DueIsPart DEF ListenerInv
<1>2. ASSUME NEW e \in Engines, NEW i \in DOMAIN fed[e]
      PROVE  fed[e][i].txs = ForEngine(e, dag[fed[e][i].hash].txs)
  <2>1. fed[e] \in Seq(Batches)
    BY DEF ListenerInv, TypeOK
  <2>2. i \in 1..Len(fed[e])
    BY <2>1, LenProperties
  <2>3. fed[e][i] = Batch(dag, e, fed[e][i].hash)
    BY <2>2 DEF ListenerInv, Whole
  <2> QED  BY <2>3 DEF Batch
<1> QED  BY <1>1, <1>2 DEF FedWhole, InSync

(* However the node mines and reorganises between the listener's calls,    *)
(* and whichever of them fail: an engine gets a block with all of its      *)
(* transactions or not at all, and between two blocks it has in effect     *)
(* exactly its blocks of the listener's chain, unless a block or a         *)
(* reversion was given up.                                                 *)
THEOREM Fed == ListenerSpec => []FedWhole
<1>1. ListenerSpec => []ListenerInv
  BY ListenerInductive
<1>2. ListenerInv => FedWhole
  BY FedByInv
<1> QED  BY <1>1, <1>2, PTL

-----------------------------------------------------------------------------
(* The routers.  StrictOrder speaks of what the episode has; it is not     *)
(* inductive, for what the episode gets next waits in the channel, and     *)
(* what the router forwards next depends on the number it remembers.       *)
(* Ordered says it of all three: below each number that was given, that    *)
(* waits to be given, or that the router remembers, every number has been  *)
(* given, waits, or was taken by a message that no episode gets.  A Close  *)
(* ends this for good: what follows one in the channel is never given.     *)

Files == [EpisodeIds -> Nat \cup {None}]

ClientStates ==
    [pc : {"idle", "read", "send", "wait", "acked", "failed"},
     type : Types \cup {None}, ep : EpisodeIds \cup {None}, seq : Nat \cup {None},
     auto : BOOLEAN, file : Files \cup {None}, tries : Nat]

(* A client sends one message, which is fixed once it has a number *)
Ready(c) == client[c].pc \in {"send", "wait", "acked", "failed"}
Message(c) == [from |-> c, type |-> client[c].type, ep |-> client[c].ep, seq |-> client[c].seq]

Typed ==
    /\ client \in [Clients -> ClientStates]
    /\ seq_store \in Files
    /\ last_seq \in [EpisodeIds -> SeqStates \cup {None}]
    /\ channel \in Seq(Messages)
    /\ episodes \in [EpisodeIds -> Episodes \cup {None}]
    /\ crashes \in Nat
    /\ \A c \in Clients :
          /\ client[c].pc = "read" =>
                client[c].type \in Types /\ client[c].ep \in EpisodeIds /\ client[c].file \in Files
          /\ Ready(c) =>
                client[c].type \in Types /\ client[c].ep \in EpisodeIds /\ client[c].seq \in Nat

(* Whatever is under way is what a client sent; New alone has the number 0 *)
Genuine ==
    /\ \A m \in net : m.from \in Clients /\ Ready(m.from) /\ m = Message(m.from)
    /\ handed \subseteq Clients
    /\ \A c \in handed : Ready(c) /\ (client[c].seq = 0 <=> client[c].type = "New")
    /\ \A i \in DOMAIN channel :
          /\ channel[i].from \in handed /\ channel[i] = Message(channel[i].from)
          /\ channel[i].type # "Checkpoint"

(* An acknowledgement, and a number that the router remembers, is of a     *)
(* message that was accepted.                                              *)
Heard(to, e, n) ==
    \E d \in handed :
        /\ router = "kas_draw" => d = to
        /\ client[d].ep = e /\ client[d].seq = n

Honest ==
    /\ \A a \in acks : Heard(a.to, a.ep, a.seq)
    /\ \A c \in Clients : client[c].pc = "acked" => Heard(c, client[c].ep, client[c].seq)
    /\ \A e \in EpisodeIds : last_seq[e] # None =>
          \E d \in handed : client[d].ep = e /\ client[d].seq = last_seq[e].seq

-----------------------------------------------------------------------------
(* What episode e has, and what it will get of the channel *)
Log(e) == IF episodes[e] = None THEN <<>> ELSE episodes[e].log
Closed(e) == episodes[e] # None /\ episodes[e].closed
Closes(e, i) == router = "kas_draw" /\ channel[i].type = "Close" /\ channel[i].ep = e
Shut(e) == Closed(e) \/ \E i \in DOMAIN channel : Closes(e, i)

Live(e, i) ==
    /\ i \in DOMAIN channel /\ channel[i].ep = e
    /\ ~ Closed(e) /\ \A j \in 1 .. i - 1 : ~ Closes(e, j)

Taken(e, n) == \E c \in handed : TakesNumber(c, e, n)
Given(e, n) == \E j \in DOMAIN Log(e) : Log(e)[j].seq = n
Waits(e, n, k) == \E j \in 1 .. k : Live(e, j) /\ channel[j].seq = n

LogOrdered(e) ==
    /\ episodes[e] # None =>
          Log(e) # <<>> /\ Log(e)[1].type = "New" /\ Log(e)[1].seq = 0
    /\ \A i, j \in DOMAIN Log(e) : i < j => Log(e)[i].seq < Log(e)[j].seq
    /\ \A i \in DOMAIN Log(e), n \in Nat : n < Log(e)[i].seq => Given(e, n) \/ Taken(e, n)

QueueOrdered(e) ==
    \A i \in DOMAIN channel : Live(e, i) =>
        /\ \A j \in DOMAIN Log(e) : Log(e)[j].seq < channel[i].seq
        /\ \A j \in 1 .. i - 1 : channel[j].ep = e => channel[j].seq < channel[i].seq
        /\ \A n \in Nat : n < channel[i].seq =>
              Given(e, n) \/ Taken(e, n) \/ Waits(e, n, i - 1)

RouterOrdered(e) ==
    ~ Shut(e) =>
        IF last_seq[e] = None
        THEN episodes[e] = None /\ \A i \in DOMAIN channel : channel[i].ep # e
        ELSE /\ \A j \in DOMAIN Log(e) : Log(e)[j].seq <= last_seq[e].seq
             /\ \A i \in DOMAIN channel : channel[i].ep = e => channel[i].seq <= last_seq[e].seq
             /\ \A n \in Nat : n <= last_seq[e].seq =>
                   Given(e, n) \/ Taken(e, n) \/ Waits(e, n, Len(channel))

Ordered == \A e \in EpisodeIds : LogOrdered(e) /\ QueueOrdered(e) /\ RouterOrdered(e)

IInv == Typed /\ Genuine /\ Honest /\ Ordered /\ NothingLost

-----------------------------------------------------------------------------
LEMMA InitGood == Init => IInv
<1> SUFFICES ASSUME Init PROVE IInv
  OBVIOUS
<1>1. Idle \in ClientStates
  BY DEF Idle, ClientStates
<1>2. Typed
  BY <1>1, EmptySeq DEF Init, Typed, Files, Nothing, Idle, Ready
<1>3. DOMAIN channel = {}
  BY DEF Init
<1>4. Genuine
  BY <1>3 DEF Init, Genuine
<1>5. Honest
  BY DEF Init, Honest, Nothing, Idle
<1>6. Ordered
  <2> SUFFICES ASSUME NEW e \in EpisodeIds
               PROVE  LogOrdered(e) /\ QueueOrdered(e) /\ RouterOrdered(e)
    BY DEF Ordered
  <2>1. episodes[e] = None /\ last_seq[e] = None
    BY DEF Init, Nothing
  <2>2. Log(e) = <<>>
    BY <2>1 DEF Log
  <2>3. DOMAIN Log(e) = {}
    BY <2>2
  <2> QED  BY <1>3, <2>1, <2>3 DEF LogOrdered, QueueOrdered, RouterOrdered
<1>7. NothingLost
  BY DEF Init, NothingLost
<1> QED  BY <1>2, <1>4, <1>5, <1>6, <1>7 DEF IInv

-----------------------------------------------------------------------------
(* The clients *)

ClientAction(c) ==
    \/ \E type \in Types, ep \in EpisodeIds :
          StartAuto(c, type, ep) \/ \E seq \in Seqs : StartForced(c, type, ep, seq)
    \/ ClientStep(c)

GoodClient(s) ==
    /\ s.pc = "read" => s.type \in Types /\ s.ep \in EpisodeIds /\ s.file \in Files
    /\ s.pc \in {"send", "wait", "acked", "failed"} =>
          s.type \in Types /\ s.ep \in EpisodeIds /\ s.seq \in Nat

(* What is ready keeps its message; only an acknowledgement makes it acked *)
Follows(c, s) ==
    /\ GoodClient(s)
    /\ Ready(c) =>
          /\ s.pc \in {"send", "wait", "acked", "failed"}
          /\ s.type = client[c].type /\ s.ep = client[c].ep /\ s.seq = client[c].seq
    /\ s.pc = "acked" /\ client[c].pc # "acked" =>
          \E a \in acks : a.to = c /\ a.ep = s.ep /\ a.seq = s.seq

LEMMA ClientMoves ==
  ASSUME Typed, NEW c \in Clients, ClientAction(c)
  PROVE  \E s \in ClientStates : client' = [client EXCEPT ![c] = s] /\ Follows(c, s)
<1>1. client[c] \in ClientStates /\ GoodClient(client[c]) /\ seq_store \in Files
  BY DEF Typed, Ready, GoodClient
<1>2. ASSUME NEW type \in Types, NEW ep \in EpisodeIds, StartAuto(c, type, ep)
      PROVE  \E s \in ClientStates : client' = [client EXCEPT ![c] = s] /\ Follows(c, s)
  <2> DEFINE s == [Idle EXCEPT !.pc = "read", !.type = type, !.ep = ep,
                               !.auto = TRUE, !.file = seq_store]
  <2>1. s \in ClientStates
    BY <1>1 DEF Idle, ClientStates
  <2>2. Follows(c, s)
    BY <1>1, <1>2 DEF Idle, Follows, GoodClient, StartAuto, Goes, Ready
  <2>3. client' = [client EXCEPT ![c] = s]
    BY <1>2 DEF StartAuto
  <2> HIDE DEF s
  <2> QED  BY <2>1, <2>2, <2>3
<1>3. ASSUME NEW type \in Types, NEW ep \in EpisodeIds, NEW seq \in Seqs,
             StartForced(c, type, ep, seq)
      PROVE  \E s \in ClientStates : client' = [client EXCEPT ![c] = s] /\ Follows(c, s)
  <2> DEFINE s == [Idle EXCEPT !.pc = "send", !.type = type, !.ep = ep, !.seq = seq]
  <2>0. seq \in Nat
    BY OffchainAssumption
  <2>1. s \in ClientStates
    BY <2>0 DEF Idle, ClientStates
  <2>2. Follows(c, s)
    BY <1>3, <2>0 DEF Idle, Follows, GoodClient, StartForced, Goes, Ready
  <2>3. client' = [client EXCEPT ![c] = s]
    BY <1>3 DEF StartForced
  <2> HIDE DEF s
  <2> QED  BY <2>1, <2>2, <2>3
<1>4. CASE WriteSeq(c)
  <2> DEFINE n == NextSeq(client[c].file[client[c].ep], client[c].type)
             s == [client[c] EXCEPT !.pc = "send", !.seq = n, !.file = None]
  <2>0. n \in Nat
    BY <1>1, <1>4 DEF WriteSeq, Goes, GoodClient, Files, NextSeq
  <2>3. client' = [client EXCEPT ![c] = s]
    BY <1>4 DEF WriteSeq
  <2> HIDE DEF n
  <2>1. s \in ClientStates
    BY <1>1, <2>0 DEF ClientStates
  <2>2. Follows(c, s)
    BY <1>1, <1>4, <2>0 DEF Follows, GoodClient, WriteSeq, Goes, Ready, ClientStates
  <2> HIDE DEF s
  <2> QED  BY <2>1, <2>2, <2>3
<1>5. CASE Send(c)
  <2> DEFINE n == client[c].tries + 1
             s == [client[c] EXCEPT !.pc = "wait", !.tries = n]
  <2>0. n \in Nat
    BY <1>1 DEF ClientStates
  <2>3. client' = [client EXCEPT ![c] = s]
    BY <1>5 DEF Send
  <2> HIDE DEF n
  <2>1. s \in ClientStates
    BY <1>1, <2>0 DEF ClientStates
  <2>2. Follows(c, s)
    BY <1>1, <1>5 DEF Follows, GoodClient, Send, Goes, Ready, ClientStates
  <2> HIDE DEF s
  <2> QED  BY <2>1, <2>2, <2>3
<1>6. ASSUME NEW next \in {"send", "acked", "failed"}, client[c].pc = "wait",
             client' = [client EXCEPT ![c].pc = next],
             next = "acked" => \E a \in acks : a.to = c /\ a.ep = client[c].ep /\ a.seq = client[c].seq
      PROVE  \E s \in ClientStates : client' = [client EXCEPT ![c] = s] /\ Follows(c, s)
  <2> DEFINE s == [client[c] EXCEPT !.pc = next]
  <2>1. s \in ClientStates
    BY <1>1, <1>6 DEF ClientStates
  <2>2. Follows(c, s)
    BY <1>1, <1>6 DEF Follows, GoodClient, Ready, ClientStates
  <2>3. client' = [client EXCEPT ![c] = s]
    BY <1>6
  <2> HIDE DEF s
  <2> QED  BY <2>1, <2>2, <2>3
<1>7. CASE Timeout(c)
  BY <1>6, <1>7 DEF Timeout, Goes
<1>8. ASSUME NEW a \in acks, ReceiveAck(c, a)
      PROVE  \E s \in ClientStates : client' = [client EXCEPT ![c] = s] /\ Follows(c, s)
  BY <1>6, <1>8 DEF ReceiveAck, Goes
<1> QED  BY <1>2, <1>3, <1>4, <1>5, <1>7, <1>8 DEF ClientAction, ClientStep

LEMMA ClientKeeps ==
  ASSUME Typed, NEW c \in Clients, ClientAction(c)
  PROVE  /\ Typed'
         /\ \A d \in Clients : Ready(d) =>
               /\ Ready(d)' /\ client'[d].type = client[d].type
               /\ client'[d].ep = client[d].ep /\ client'[d].seq = client[d].seq
         /\ \A d \in Clients : client'[d].pc = "acked" /\ client[d].pc # "acked" =>
               \E a \in acks : a.to = d /\ a.ep = client'[d].ep /\ a.seq = client'[d].seq
         /\ UNCHANGED <<router, last_seq, channel, episodes, handed, crashes>>
<1>1. UNCHANGED <<router, last_seq, channel, episodes, handed, crashes>>
  BY DEF ClientAction, StartAuto, StartForced, ClientStep, WriteSeq, Send, Timeout,
         ReceiveAck, Goes
<1>2. PICK s \in ClientStates : client' = [client EXCEPT ![c] = s] /\ Follows(c, s)
  BY ClientMoves
<1>3. /\ client' \in [Clients -> ClientStates]
      /\ client'[c] = s
      /\ \A d \in Clients : d # c => client'[d] = client[d]
  BY <1>2 DEF Typed
<1>4. seq_store' \in Files
  <2>1. CASE WriteSeq(c)
    <3> DEFINE n == NextSeq(client[c].file[client[c].ep], client[c].type)
    <3>1. client[c].file \in Files
      BY <2>1 DEF WriteSeq, Goes, Typed
    <3>2. n \in Nat
      BY <2>1, <3>1 DEF WriteSeq, Goes, Typed, Files, NextSeq
    <3>3. seq_store' = [client[c].file EXCEPT ![client[c].ep] = n]
      BY <2>1 DEF WriteSeq
    <3> HIDE DEF n
    <3> QED  BY <3>1, <3>2, <3>3 DEF Files
  <2>2. CASE ~ WriteSeq(c)
    <3>1. seq_store' = seq_store
      BY <2>2 DEF ClientAction, StartAuto, StartForced, ClientStep, Send, Timeout, ReceiveAck
    <3> QED  BY <3>1 DEF Typed
  <2> QED  BY <2>1, <2>2
<1>5. Typed'
  BY <1>1, <1>2, <1>3, <1>4 DEF Typed, Follows, GoodClient, Ready
<1> QED  BY <1>1, <1>2, <1>3, <1>5 DEF Follows, Ready

LEMMA ClientGood ==
  ASSUME IInv, NEW c \in Clients, ClientAction(c)
  PROVE  IInv'
<1>1. /\ Typed'
      /\ \A d \in Clients : Ready(d) =>
            /\ Ready(d)' /\ client'[d].type = client[d].type
            /\ client'[d].ep = client[d].ep /\ client'[d].seq = client[d].seq
      /\ \A d \in Clients : client'[d].pc = "acked" /\ client[d].pc # "acked" =>
            \E a \in acks : a.to = d /\ a.ep = client'[d].ep /\ a.seq = client'[d].seq
      /\ UNCHANGED <<router, last_seq, channel, episodes, handed, crashes>>
  BY ClientKeeps DEF IInv
<1>2. \A d \in handed : d \in Clients /\ Ready(d)
  BY DEF IInv, Genuine
<1>3. \A d \in Clients : Ready(d) => Message(d)' = Message(d)
  BY <1>1 DEF Message
<1>4. Genuine'
  <2>1. \A m \in net' : m \in net \/ \E d \in Clients : Ready(d) /\ m = Message(d)
    <3>1. CASE Send(c)
      BY <3>1 DEF Send, Goes, Ready, Message
    <3>2. CASE ~ Send(c)
      BY <3>2 DEF ClientAction, StartAuto, StartForced, ClientStep, WriteSeq, Timeout, ReceiveAck
    <3> QED  BY <3>1, <3>2
  <2>2. \A m \in net' : m.from \in Clients /\ Ready(m.from) /\ m = Message(m.from)
    <3>1. \A d \in Clients : Message(d).from = d
      BY DEF Message
    <3> QED  BY <2>1, <3>1 DEF IInv, Genuine
  <2> QED  BY <1>1, <1>2, <1>3, <2>2 DEF IInv, Genuine
<1>5. ASSUME NEW to, NEW e, NEW n, Heard(to, e, n)
      PROVE  Heard(to, e, n)'
  BY <1>1, <1>2, <1>5, SMTT(20) DEF Heard
<1>6. Honest'
  <2>1. \A a \in acks' : a \in acks
    BY DEF ClientAction, StartAuto, StartForced, ClientStep, WriteSeq, Send, Timeout, ReceiveAck
  <2>2. \A a \in acks : Heard(a.to, a.ep, a.seq)'
    BY <1>5 DEF IInv, Honest
  <2>3. ASSUME NEW d \in Clients, client'[d].pc = "acked"
        PROVE  Heard(d, client[d].ep, client[d].seq)'
    <3>1. PICK e, n : e = client'[d].ep /\ n = client'[d].seq
      OBVIOUS
    <3>2. Heard(d, e, n)
      <4>1. CASE client[d].pc = "acked"
        BY <1>1, <3>1, <4>1 DEF IInv, Honest, Ready
      <4>2. CASE client[d].pc # "acked"
        <5>1. PICK a \in acks : a.to = d /\ a.ep = e /\ a.seq = n
          BY <1>1, <2>3, <3>1, <4>2
        <5> QED  BY <5>1 DEF IInv, Honest
      <4> QED  BY <4>1, <4>2
    <3>3. Heard(d, e, n)'
      BY <1>5, <3>2
    <3> QED  BY <3>1, <3>3 DEF Heard
  <2>4. \A e \in EpisodeIds : last_seq'[e] # None =>
           \E d \in handed' : client'[d].ep = e /\ client'[d].seq = last_seq'[e].seq
    BY <1>1, <1>2 DEF IInv, Honest
  <2> QED  BY <2>1, <2>2, <2>3, <2>4 DEF Honest
<1>7. ASSUME NEW e, NEW n PROVE Taken(e, n)' <=> Taken(e, n)
  BY <1>1, <1>2 DEF Taken, TakesNumber
<1>8. Ordered'
  <2> SUFFICES ASSUME NEW e \in EpisodeIds
               PROVE  (LogOrdered(e) /\ QueueOrdered(e) /\ RouterOrdered(e))'
    BY DEF Ordered
  <2>1. LogOrdered(e) /\ QueueOrdered(e) /\ RouterOrdered(e)
    BY DEF IInv, Ordered
  <2>2. Log(e)' = Log(e) /\ Closed(e)' = Closed(e) /\ Shut(e)' = Shut(e)
    BY <1>1 DEF Log, Closed, Shut, Closes
  <2>3. \A i : Live(e, i)' = Live(e, i)
    BY <1>1 DEF Live, Closed, Closes
  <2>4. \A n : Given(e, n)' <=> Given(e, n)
    BY <2>2 DEF Given
  <2>5. \A n, k : Waits(e, n, k)' <=> Waits(e, n, k)
    BY <1>1, <2>3 DEF Waits
  <2>6. LogOrdered(e)'
    BY <1>1, <1>7, <2>1, <2>2, <2>4 DEF LogOrdered
  <2>7. QueueOrdered(e)'
    BY <1>1, <1>7, <2>1, <2>2, <2>3, <2>4, <2>5 DEF QueueOrdered
  <2>8. RouterOrdered(e)'
    BY <1>1, <1>7, <2>1, <2>2, <2>4, <2>5 DEF RouterOrdered
  <2> QED  BY <2>6, <2>7, <2>8
<1>9. NothingLost'
  <2>1. \A d \in handed : client'[d].type = client[d].type /\ client'[d].ep = client[d].ep
    BY <1>1, <1>2
  <2> QED  BY <1>1, <2>1 DEF IInv, NothingLost
<1> QED  BY <1>1, <1>4, <1>6, <1>8, <1>9 DEF IInv

-----------------------------------------------------------------------------
(* The router *)

LEMMA CrashGood == IInv /\ Crash => IInv'
<1> SUFFICES ASSUME IInv, Crash PROVE IInv'
  OBVIOUS
<1>1. /\ UNCHANGED <<router, client, seq_store, net, acks, handed>>
      /\ last_seq' = Nothing /\ episodes' = Nothing /\ channel' = <<>>
      /\ crashes' = crashes + 1
  BY DEF Crash, clientVars
<1>2. Typed'
  BY <1>1, EmptySeq DEF IInv, Typed, Nothing, Ready
<1>3. Genuine'
  BY <1>1 DEF IInv, Genuine, Ready, Message
<1>4. Honest'
  BY <1>1 DEF IInv, Honest, Heard, Nothing
<1>5. Ordered'
  <2> SUFFICES ASSUME NEW e \in EpisodeIds
               PROVE  (LogOrdered(e) /\ QueueOrdered(e) /\ RouterOrdered(e))'
    BY DEF Ordered
  <2>1. episodes'[e] = None /\ last_seq'[e] = None /\ DOMAIN channel' = {}
    BY <1>1 DEF Nothing
  <2>2. Log(e)' = <<>>
    BY <2>1 DEF Log
  <2> QED  BY <2>1, <2>2 DEF LogOrdered, QueueOrdered, RouterOrdered
<1>6. NothingLost'
  BY <1>1 DEF IInv, Typed, NothingLost
<1> QED  BY <1>2, <1>3, <1>4, <1>5, <1>6 DEF IInv

LEMMA RepeatGood ==
  ASSUME IInv, NEW m \in net, RepeatAck(m)
  PROVE  IInv'
<1>1. /\ UNCHANGED <<router, client, seq_store, net, last_seq, handed, channel, episodes, crashes>>
      /\ router = "merchant" /\ last_seq[m.ep] # None /\ m.seq = last_seq[m.ep].seq
      /\ \A a \in acks' : a \in acks \/ (a.ep = m.ep /\ a.seq = m.seq)
  <2>1. \A type : \A a \in Answer(m, type) : a.ep = m.ep /\ a.seq = m.seq
    BY DEF Answer
  <2>2. acks' = acks \cup Answer(m, last_seq[m.ep].ack)
    BY DEF RepeatAck
  <2>3. /\ UNCHANGED <<router, client, seq_store, net, last_seq, handed, channel, episodes, crashes>>
        /\ router = "merchant" /\ last_seq[m.ep] # None /\ m.seq = last_seq[m.ep].seq
    BY DEF RepeatAck, clientVars, routerVars
  <2> QED  BY <2>1, <2>2, <2>3
<1>2. m.ep \in EpisodeIds
  BY DEF IInv, Genuine, Typed, Message
<1>3. PICK d \in handed : client[d].ep = m.ep /\ client[d].seq = m.seq
  BY <1>1, <1>2 DEF IInv, Honest
<1>4. Typed' /\ Genuine' /\ NothingLost'
  BY <1>1 DEF IInv, Typed, Genuine, Ready, Message, NothingLost
<1>5. Honest'
  <2>1. \A to, e, n : Heard(to, e, n)' <=> Heard(to, e, n)
    BY <1>1 DEF Heard
  <2>2. \A a \in acks' : Heard(a.to, a.ep, a.seq)
    BY <1>1, <1>3 DEF IInv, Honest, Heard
  <2> QED  BY <1>1, <2>1, <2>2 DEF IInv, Honest, Heard
<1>6. Ordered'
  BY <1>1 DEF IInv, Ordered, LogOrdered, QueueOrdered, RouterOrdered, Shut, Closed, Closes,
              Live, Log, Given, Waits, Taken, TakesNumber
<1> QED  BY <1>4, <1>5, <1>6 DEF IInv

(* What an episode has and what waits are messages, which have numbers *)
LEMMA Numbers ==
  ASSUME Typed, NEW e \in EpisodeIds
  PROVE  /\ Log(e) \in Seq(Messages)
         /\ \A i \in DOMAIN Log(e) : Log(e)[i] \in Messages /\ Log(e)[i].seq \in Nat
         /\ \A i \in DOMAIN channel : channel[i] \in Messages /\ channel[i].seq \in Nat
<1>1. ASSUME NEW s \in Seq(Messages), NEW i \in DOMAIN s
      PROVE  s[i] \in Messages /\ s[i].seq \in Nat
  <2>1. s \in [1 .. Len(s) -> Messages]
    BY LenProperties
  <2> QED  BY <2>1 DEF Messages
<1>2. Log(e) \in Seq(Messages)
  BY EmptySeq DEF Log, Typed, Episodes
<1>3. channel \in Seq(Messages)
  BY DEF Typed
<1> QED  BY <1>1, <1>2, <1>3

(* What is true of the message that the router takes *)
LEMMA Accepting ==
  ASSUME IInv, NEW m \in net, AcceptMessage(m)
  PROVE  /\ m \in Messages /\ m.from \in Clients /\ Ready(m.from) /\ m = Message(m.from)
         /\ m.seq = 0 <=> m.type = "New"
         /\ m.seq = IF last_seq[m.ep] = None THEN 0 ELSE last_seq[m.ep].seq + 1
         /\ UNCHANGED <<router, client, seq_store, net, episodes, crashes>>
         /\ handed' = handed \cup {m.from}
<1>1. m.from \in Clients /\ Ready(m.from) /\ m = Message(m.from)
  BY DEF IInv, Genuine
<1>2. m \in Messages
  BY <1>1 DEF IInv, Typed, Messages, Message
<1>3. InOrder(m)
  BY DEF AcceptMessage
<1>4. last_seq[m.ep] # None => last_seq[m.ep].seq \in Nat
  BY <1>2 DEF IInv, Typed, SeqStates, Messages
<1> QED  BY <1>1, <1>2, <1>3, <1>4 DEF InOrder, AcceptMessage, clientVars, Messages

(* The channel after a message was taken: it has grown by that message, or *)
(* not at all when the message is a checkpoint.                            *)
LEMMA Grown ==
  ASSUME IInv, NEW m \in net, AcceptMessage(m)
  PROVE  /\ channel' \in Seq(Messages)
         /\ Len(channel) \in Nat /\ Len(channel') \in Nat
         /\ DOMAIN channel = 1 .. Len(channel) /\ DOMAIN channel' = 1 .. Len(channel')
         /\ \A i \in 1 .. Len(channel) : i <= Len(channel') /\ channel'[i] = channel[i]
         /\ m.type = "Checkpoint" => Len(channel') = Len(channel)
         /\ m.type # "Checkpoint" => /\ Len(channel') = Len(channel) + 1
                                     /\ channel'[Len(channel) + 1] = m
<1>1. m \in Messages /\ channel \in Seq(Messages)
  BY Accepting DEF IInv, Typed
<1>2. CASE m.type = "Checkpoint"
  <2>1. channel' = channel
    BY <1>1, <1>2, ConcatEmptySeq DEF AcceptMessage, Forwarded
  <2> QED  BY <1>1, <1>2, <2>1, LenProperties
<1>3. CASE m.type # "Checkpoint"
  <2>1. channel' = Append(channel, m)
    BY <1>1, <1>3, AppendIsConcat DEF AcceptMessage, Forwarded
  <2> QED  BY <1>1, <1>3, <2>1, AppendProperties, LenProperties
<1> QED  BY <1>2, <1>3

LEMMA AcceptOrder ==
  ASSUME IInv, NEW m \in net, AcceptMessage(m), NEW e \in EpisodeIds
  PROVE  (LogOrdered(e) /\ QueueOrdered(e) /\ RouterOrdered(e))'
<1>0. PICK L : L = Len(channel)
  OBVIOUS
<1>1. /\ m \in Messages /\ m.from \in Clients /\ m = Message(m.from)
      /\ m.seq = 0 <=> m.type = "New"
      /\ m.seq = IF last_seq[m.ep] = None THEN 0 ELSE last_seq[m.ep].seq + 1
      /\ UNCHANGED <<router, client, episodes>>
      /\ handed' = handed \cup {m.from}
  BY Accepting
<1>2. /\ L \in Nat /\ Len(channel') \in Nat
      /\ DOMAIN channel = 1 .. L /\ DOMAIN channel' = 1 .. Len(channel')
      /\ \A i \in 1 .. L : i <= Len(channel') /\ channel'[i] = channel[i]
      /\ m.type = "Checkpoint" => Len(channel') = L
      /\ m.type # "Checkpoint" => Len(channel') = L + 1 /\ channel'[L + 1] = m
  BY <1>0, Grown
<1>N. L \in Nat
  BY <1>2
<1>M. PICK M : M = Len(channel')
  OBVIOUS
<1>D. /\ \A i : i \in DOMAIN channel <=> i \in 1 .. L
      /\ \A i \in 1 .. L : i \in DOMAIN channel' /\ channel'[i] = channel[i]
      /\ \A i \in DOMAIN channel' :
            i \in 1 .. L \/ (i = L + 1 /\ m.type # "Checkpoint" /\ channel'[i] = m)
  <2>1. M \in Nat /\ DOMAIN channel' = 1 .. M
    BY <1>2, <1>M
  <2>2. \A i \in 1 .. L : i <= M /\ channel'[i] = channel[i]
    BY <1>2, <1>M
  <2>3. (m.type = "Checkpoint" /\ M = L) \/ (m.type # "Checkpoint" /\ M = L + 1 /\ channel'[L + 1] = m)
    BY <1>2, <1>M
  <2>4. DOMAIN channel = 1 .. L
    BY <1>2
  <2>5. \A i \in 1 .. L : i \in 1 .. M
    BY <1>N, <2>1, <2>2
  <2>6. \A i \in 1 .. M : i \in 1 .. L \/ (i = L + 1 /\ M = L + 1)
    BY <1>N, <2>1, <2>3
  <2>7. L # L + 1
    BY <1>N
  <2> QED  BY <2>1, <2>2, <2>3, <2>4, <2>5, <2>6, <2>7
<1>3. LogOrdered(e) /\ QueueOrdered(e) /\ RouterOrdered(e)
  BY DEF IInv, Ordered
<1>4. Log(e)' = Log(e) /\ Closed(e)' = Closed(e)
  BY <1>1 DEF Log, Closed
<1>5. \A n : Given(e, n)' <=> Given(e, n)
  BY <1>4 DEF Given
<1>6. \A n : Taken(e, n) => Taken(e, n)'
  BY <1>1 DEF Taken, TakesNumber
<1>7. \A i \in 1 .. L : /\ Closes(e, i)' <=> Closes(e, i)
                        /\ Live(e, i)' <=> Live(e, i)
  <2>1. \A i \in 1 .. L : Closes(e, i)' <=> Closes(e, i)
    BY <1>1, <1>2 DEF Closes
  <2>2. \A i \in 1 .. L : i \in DOMAIN channel /\ i \in DOMAIN channel'
    BY <1>D
  <2>3. \A i \in 1 .. L : \A j \in 1 .. i - 1 : j \in 1 .. L
    BY <1>N
  <2> QED  BY <1>2, <1>4, <2>1, <2>2, <2>3 DEF Live
<1>8. ASSUME NEW k \in 0 .. L, NEW n, Waits(e, n, k)
      PROVE  Waits(e, n, k)'
  <2>1. PICK j \in 1 .. k : Live(e, j) /\ channel[j].seq = n
    BY <1>8 DEF Waits
  <2>2. j \in 1 .. L
    BY <1>N
  <2> QED  BY <1>2, <1>7, <2>1, <2>2 DEF Waits
<1>9. LogOrdered(e)'
  BY <1>1, <1>3, <1>4, <1>5, <1>6 DEF LogOrdered
(* The new message comes last, and is live only if nothing was closed *)
<1>10. ASSUME Live(e, L + 1)'
       PROVE  m.ep = e /\ m.type # "Checkpoint" /\ ~ Shut(e)
  <2>1. L + 1 \in DOMAIN channel' /\ channel'[L + 1].ep = e
    BY <1>10 DEF Live
  <2>2. m.type # "Checkpoint" /\ m.ep = e
    <3>1. L + 1 \notin 1 .. L
      BY <1>N
    <3> QED  BY <1>D, <2>1, <3>1
  <2>3. ~ Closed(e)
    BY <1>4, <1>10 DEF Live
  <2>4. \A i \in 1 .. L : ~ Closes(e, i)
    <3>1. \A i \in 1 .. L : i \in 1 .. (L + 1) - 1
      BY <1>N
    <3> QED  BY <1>7, <1>10, <3>1 DEF Live
  <2> QED  BY <1>D, <2>2, <2>3, <2>4 DEF Shut
<1>11. ASSUME ~ Shut(e)
       PROVE  \A i \in DOMAIN channel : channel[i].ep = e => Live(e, i)
  <2>1. \A i \in 1 .. L : \A j \in 1 .. i - 1 : j \in 1 .. L
    BY <1>N
  <2> QED  BY <1>D, <1>11, <2>1 DEF Live, Shut
(* Its number follows all that the episode has and all that waits *)
<1>12. ASSUME ~ Shut(e), m.ep = e
       PROVE  /\ \A j \in DOMAIN Log(e) : Log(e)[j].seq < m.seq
              /\ \A j \in DOMAIN channel : channel[j].ep = e => channel[j].seq < m.seq
              /\ \A n \in Nat : n < m.seq => Given(e, n) \/ Taken(e, n) \/ Waits(e, n, L)
  <2>1. CASE last_seq[e] = None
    <3>1. episodes[e] = None /\ \A i \in DOMAIN channel : channel[i].ep # e
      BY <1>3, <1>12, <2>1 DEF RouterOrdered
    <3>2. DOMAIN Log(e) = {}
      BY <3>1 DEF Log
    <3>3. m.seq = 0
      BY <1>1, <1>12, <2>1
    <3>4. \A n \in Nat : ~ (n < m.seq)
      BY <3>3
    <3> QED  BY <3>1, <3>2, <3>4
  <2>2. CASE last_seq[e] # None
    <3>1. PICK s : s = last_seq[e].seq
      OBVIOUS
    <3>2. s \in Nat /\ m.seq = s + 1
      BY <1>1, <1>12, <2>2, <3>1 DEF IInv, Typed, SeqStates
    <3>3. /\ \A j \in DOMAIN Log(e) : Log(e)[j].seq <= s
          /\ \A i \in DOMAIN channel : channel[i].ep = e => channel[i].seq <= s
          /\ \A n \in Nat : n <= s => Given(e, n) \/ Taken(e, n) \/ Waits(e, n, L)
      BY <1>0, <1>3, <1>12, <2>2, <3>1 DEF RouterOrdered
    <3>4. \A j \in DOMAIN Log(e) : Log(e)[j].seq < m.seq
      BY <3>2, <3>3, Numbers DEF IInv
    <3>5. \A j \in DOMAIN channel : channel[j].ep = e => channel[j].seq < m.seq
      BY <3>2, <3>3, Numbers DEF IInv
    <3>6. \A n \in Nat : n < m.seq => n <= s
      BY <3>2
    <3> QED  BY <3>3, <3>4, <3>5, <3>6
  <2> QED  BY <2>1, <2>2
<1>13. QueueOrdered(e)'
  <2> SUFFICES ASSUME NEW i \in DOMAIN channel', Live(e, i)'
               PROVE  /\ \A j \in DOMAIN Log(e) : Log(e)[j].seq < channel'[i].seq
                      /\ \A j \in 1 .. i - 1 : channel'[j].ep = e => channel'[j].seq < channel'[i].seq
                      /\ \A n \in Nat : n < channel'[i].seq =>
                            Given(e, n)' \/ Taken(e, n)' \/ Waits(e, n, i - 1)'
    BY <1>4 DEF QueueOrdered
  <2>1. CASE i \in 1 .. L
    <3>1. Live(e, i) /\ i \in DOMAIN channel /\ channel'[i] = channel[i]
      BY <1>D, <1>7, <2>1
    <3>2. \A j \in 1 .. i - 1 : j \in 1 .. L
      BY <1>N, <2>1
    <3>3. \A j \in 1 .. i - 1 : channel'[j] = channel[j]
      BY <1>D, <3>2
    <3>4. i - 1 \in 0 .. L
      BY <1>N, <2>1
    <3>5. \A n : Waits(e, n, i - 1) => Waits(e, n, i - 1)'
      BY <1>8, <3>4
    <3>6. /\ \A j \in DOMAIN Log(e) : Log(e)[j].seq < channel[i].seq
          /\ \A j \in 1 .. i - 1 : channel[j].ep = e => channel[j].seq < channel[i].seq
          /\ \A n \in Nat : n < channel[i].seq =>
                Given(e, n) \/ Taken(e, n) \/ Waits(e, n, i - 1)
      BY <1>3, <3>1 DEF QueueOrdered
    <3> QED  BY <1>5, <1>6, <3>1, <3>3, <3>5, <3>6
  <2>2. CASE i \notin 1 .. L
    <3>1. i = L + 1 /\ channel'[i] = m
      BY <1>D, <2>2
    <3>2. m.ep = e /\ ~ Shut(e)
      BY <1>10, <3>1
    <3>3. i - 1 = L /\ L \in 0 .. L
      BY <1>N, <3>1
    <3>4. \A j \in 1 .. i - 1 : j \in DOMAIN channel /\ channel'[j] = channel[j]
      BY <1>D, <3>3
    <3>5. \A n : Waits(e, n, L) => Waits(e, n, i - 1)'
      BY <1>8, <3>3
    <3> QED  BY <1>5, <1>6, <1>12, <3>1, <3>2, <3>4, <3>5
  <2> QED  BY <2>1, <2>2
<1>14. RouterOrdered(e)'
  <2> SUFFICES ASSUME ~ Shut(e)' PROVE RouterOrdered(e)'
    BY DEF RouterOrdered
  <2>1. ~ Shut(e) /\ \A i \in DOMAIN channel' : ~ Closes(e, i)'
    <3>1. ~ Closed(e) /\ \A i \in DOMAIN channel' : ~ Closes(e, i)'
      BY <1>4 DEF Shut
    <3>2. \A i \in DOMAIN channel : ~ Closes(e, i)
      BY <1>D, <1>7, <3>1
    <3> QED  BY <3>1, <3>2 DEF Shut
  <2>2. \A n : Waits(e, n, L) => Waits(e, n, Len(channel))'
    <3>1. ASSUME NEW n, Waits(e, n, L)
          PROVE  \E j \in 1 .. M : Live(e, j)' /\ channel'[j].seq = n
      <4>1. PICK j \in 1 .. L : Live(e, j) /\ channel[j].seq = n
        BY <3>1 DEF Waits
      <4>2. j <= M /\ M \in Nat
        BY <1>2, <1>M, <4>1
      <4>3. j \in 1 .. M
        BY <1>N, <4>1, <4>2
      <4> QED  BY <1>7, <1>D, <4>1, <4>3
    <3> QED  BY <1>M, <3>1 DEF Waits
  <2>3. CASE m.ep # e
    <3>1. last_seq'[e] = last_seq[e]
      BY <2>3 DEF AcceptMessage
    <3>2. \A i \in DOMAIN channel' : channel'[i].ep = e =>
             i \in DOMAIN channel /\ channel'[i] = channel[i]
      BY <1>D, <2>3
    <3>3. CASE last_seq[e] = None
      BY <1>1, <1>3, <2>1, <3>1, <3>2, <3>3 DEF RouterOrdered
    <3>4. CASE last_seq[e] # None
      <4>1. /\ \A j \in DOMAIN Log(e) : Log(e)[j].seq <= last_seq[e].seq
            /\ \A i \in DOMAIN channel : channel[i].ep = e => channel[i].seq <= last_seq[e].seq
            /\ \A n \in Nat : n <= last_seq[e].seq =>
                  Given(e, n) \/ Taken(e, n) \/ Waits(e, n, L)
        BY <1>0, <1>3, <2>1, <3>4 DEF RouterOrdered
      <4> QED  BY <1>4, <1>5, <1>6, <2>2, <3>1, <3>2, <3>4, <4>1 DEF RouterOrdered
    <3> QED  BY <3>3, <3>4
  <2>4. CASE m.ep = e
    <3>1. last_seq'[e] = Remembered(m)
      BY <2>4 DEF AcceptMessage, IInv, Typed
    <3>2. ~ (router = "kas_draw" /\ m.type = "Close")
      <4>1. SUFFICES ASSUME m.type = "Close" PROVE router # "kas_draw"
        OBVIOUS
      <4>2. L + 1 \in DOMAIN channel' /\ channel'[L + 1] = m
        BY <1>2, <1>N, <4>1
      <4> QED  BY <1>1, <2>1, <2>4, <4>1, <4>2 DEF Closes
    <3>3. last_seq'[e] # None /\ last_seq'[e].seq = m.seq
      <4>1. last_seq'[e] = [seq |-> m.seq, ack |-> AckType(m.type)]
        BY <3>1, <3>2 DEF Remembered
      <4>2. last_seq'[e] \in SeqStates
        BY <1>1, <4>1 DEF SeqStates, AckType, Messages
      <4> QED  BY <4>1, <4>2, NoneAssumption
    <3>4. \A j \in DOMAIN Log(e) : Log(e)[j].seq <= m.seq
      BY <1>1, <1>12, <2>1, <2>4, Numbers DEF IInv, Messages
    <3>5. \A i \in DOMAIN channel' : channel'[i].ep = e => channel'[i].seq <= m.seq
      <4>1. m.seq \in Nat
        BY <1>1 DEF Messages
      <4>2. \A i \in DOMAIN channel : channel[i].ep = e => channel[i].seq <= m.seq
        BY <1>12, <2>1, <2>4, <4>1, Numbers DEF IInv
      <4> QED  BY <1>D, <4>1, <4>2
    <3>6. ASSUME NEW n \in Nat, n <= m.seq
          PROVE  Given(e, n)' \/ Taken(e, n)' \/ Waits(e, n, Len(channel))'
      <4>1. CASE n < m.seq
        BY <1>5, <1>6, <1>12, <2>1, <2>2, <2>4, <4>1
      <4>2. CASE n = m.seq /\ m.type = "Checkpoint"
        BY <1>1, <2>4, <4>2 DEF Taken, TakesNumber, Message
      <4>3. CASE n = m.seq /\ m.type # "Checkpoint"
        <5>1. L + 1 \in DOMAIN channel' /\ channel'[L + 1] = m /\ M = L + 1
          BY <1>2, <1>M, <1>N, <4>3
        <5>2. Live(e, L + 1)'
          <6>1. ~ Closed(e)'
            BY <1>4, <2>1 DEF Shut
          <6>2. \A j \in 1 .. (L + 1) - 1 : j \in 1 .. L
            BY <1>N
          <6>3. \A j \in 1 .. (L + 1) - 1 : ~ Closes(e, j)'
            BY <1>D, <2>1, <6>2
          <6> QED  BY <2>4, <5>1, <6>1, <6>3 DEF Live
        <5>3. L + 1 \in 1 .. M
          BY <1>N, <5>1
        <5>4. \E j \in 1 .. M : Live(e, j)' /\ channel'[j].seq = n
          BY <4>3, <5>1, <5>2, <5>3
        <5> QED  BY <1>M, <5>4 DEF Waits
      <4>4. n < m.seq \/ n = m.seq
        BY <1>1, <3>6 DEF Messages
      <4> QED  BY <4>1, <4>2, <4>3, <4>4
    <3> QED  BY <1>4, <3>3, <3>4, <3>5, <3>6 DEF RouterOrdered
  <2> QED  BY <2>3, <2>4
<1> QED  BY <1>9, <1>13, <1>14

LEMMA AcceptGood ==
  ASSUME IInv, NEW m \in net, AcceptMessage(m)
  PROVE  IInv'
<1>1. /\ m \in Messages /\ m.from \in Clients /\ Ready(m.from) /\ m = Message(m.from)
      /\ m.seq = 0 <=> m.type = "New"
      /\ UNCHANGED <<router, client, seq_store, net, episodes, crashes>>
      /\ handed' = handed \cup {m.from}
  BY Accepting
<1>2. /\ channel' \in Seq(Messages)
      /\ \A i \in DOMAIN channel : i \in DOMAIN channel' /\ channel'[i] = channel[i]
      /\ \A i \in DOMAIN channel' :
            \/ i \in DOMAIN channel /\ channel'[i] = channel[i]
            \/ channel'[i] = m /\ m.type # "Checkpoint"
  <2>1. PICK L : L = Len(channel)
    OBVIOUS
  <2>2. PICK M : M = Len(channel')
    OBVIOUS
  <2>3. /\ L \in Nat /\ M \in Nat /\ DOMAIN channel = 1 .. L /\ DOMAIN channel' = 1 .. M
        /\ \A i \in 1 .. L : i <= M /\ channel'[i] = channel[i]
    BY <2>1, <2>2, Grown
  <2>4. M = L \/ (M = L + 1 /\ channel'[L + 1] = m /\ m.type # "Checkpoint")
    BY <2>1, <2>2, Grown
  <2>5. \A i \in 1 .. L : i \in 1 .. M
    BY <2>3
  <2>6. \A i \in 1 .. M : i \in 1 .. L \/ (i = L + 1 /\ M = L + 1)
    BY <2>3, <2>4
  <2>7. L # L + 1
    BY <2>3
  <2> QED  BY <2>3, <2>4, <2>5, <2>6, <2>7, Grown
<1>3. /\ \A e \in EpisodeIds : e # m.ep => last_seq'[e] = last_seq[e]
      /\ last_seq'[m.ep] = Remembered(m)
      /\ last_seq' \in [EpisodeIds -> SeqStates \cup {None}]
  <2>1. last_seq' = [last_seq EXCEPT ![m.ep] = Remembered(m)]
    BY DEF AcceptMessage
  <2>2. Remembered(m) \in SeqStates \cup {None}
    BY <1>1 DEF Remembered, SeqStates, AckType, Messages
  <2> QED  BY <1>1, <2>1, <2>2 DEF IInv, Typed, Messages
<1>4. Typed'
  BY <1>1, <1>2, <1>3 DEF IInv, Typed, Ready
<1>5. Genuine'
  <2>1. \A c \in Clients : Ready(c)' = Ready(c) /\ Message(c)' = Message(c)
    BY <1>1 DEF Ready, Message
  <2>2. client[m.from].seq = m.seq /\ client[m.from].type = m.type
    BY <1>1 DEF Message
  <2>3. handed' \subseteq Clients
    BY <1>1 DEF IInv, Genuine
  <2>4. \A c \in handed' : Ready(c) /\ (client[c].seq = 0 <=> client[c].type = "New")
    BY <1>1, <2>2 DEF IInv, Genuine
  <2>5. \A i \in DOMAIN channel' :
           /\ channel'[i].from \in handed' /\ channel'[i] = Message(channel'[i].from)
           /\ channel'[i].type # "Checkpoint"
    BY <1>1, <1>2 DEF IInv, Genuine
  <2>6. \A n \in net : n.from \in Clients /\ Ready(n.from) /\ n = Message(n.from)
    BY DEF IInv, Genuine
  <2> QED  BY <1>1, <2>1, <2>3, <2>4, <2>5, <2>6 DEF Genuine
<1>6. Honest'
  <2>1. \A to, e, n : Heard(to, e, n) => Heard(to, e, n)'
    BY <1>1 DEF Heard
  <2>2. Heard(m.from, m.ep, m.seq)'
    BY <1>1 DEF Heard, Message
  <2>3. \A a \in acks' : Heard(a.to, a.ep, a.seq)'
    <3>1. acks' = acks \cup Answer(m, AckType(m.type))
      BY DEF AcceptMessage
    <3>2. \A a \in Answer(m, AckType(m.type)) : a.to = m.from /\ a.ep = m.ep /\ a.seq = m.seq
      BY DEF Answer
    <3>3. \A a \in acks : Heard(a.to, a.ep, a.seq)
      BY DEF IInv, Honest
    <3> QED  BY <2>1, <2>2, <3>1, <3>2, <3>3
  <2>4. \A c \in Clients : client[c].pc = "acked" => Heard(c, client[c].ep, client[c].seq)'
    BY <1>1 DEF IInv, Honest, Heard
  <2>5. ASSUME NEW e \in EpisodeIds, last_seq'[e] # None
        PROVE  \E d \in handed' : client[d].ep = e /\ client[d].seq = last_seq'[e].seq
    <3>1. CASE e = m.ep
      BY <1>1, <1>3, <2>5, <3>1 DEF Remembered, Message
    <3>2. CASE e # m.ep
      BY <1>1, <1>3, <2>5, <3>2 DEF IInv, Honest
    <3> QED  BY <3>1, <3>2
  <2> QED  BY <1>1, <2>3, <2>4, <2>5 DEF Honest, Heard
<1>7. Ordered'
  BY AcceptOrder DEF Ordered
<1>8. NothingLost'
  <2> SUFFICES ASSUME NEW c \in handed', client[c].type = "Cmd", crashes = 0
               PROVE  \/ \E n \in ToSet(channel') : n.from = c
                      \/ \E e \in EpisodeIds :
                            /\ client[c].ep = e /\ episodes[e] # None
                            /\ episodes[e].closed \/ \E n \in ToSet(episodes[e].log) : n.from = c
    BY <1>1 DEF NothingLost
  <2>1. CASE c \in handed
    <3>1. \A n \in ToSet(channel) : n \in ToSet(channel')
      BY <1>2 DEF ToSet
    <3> QED  BY <2>1, <3>1 DEF IInv, NothingLost
  <2>2. CASE c = m.from
    <3>1. m.type # "Checkpoint"
      BY <1>1, <2>2 DEF Message
    <3>2. PICK L : L = Len(channel)
      OBVIOUS
    <3>3. L \in Nat /\ Len(channel') = L + 1 /\ channel'[L + 1] = m /\ DOMAIN channel' = 1 .. Len(channel')
      BY <3>1, <3>2, Grown
    <3>4. L + 1 \in DOMAIN channel'
      BY <3>3
    <3> QED  BY <2>2, <3>3, <3>4 DEF ToSet
  <2> QED  BY <1>1, <2>1, <2>2
<1> QED  BY <1>4, <1>5, <1>6, <1>7, <1>8 DEF IInv

-----------------------------------------------------------------------------
(* The engine *)

(* The channel without its first message *)
LEMMA Shifted ==
  ASSUME IInv, ExecuteMessage
  PROVE  \E L \in Nat :
            /\ Len(channel) = L + 1 /\ DOMAIN channel = 1 .. L + 1
            /\ channel' \in Seq(Messages) /\ Len(channel') = L /\ DOMAIN channel' = 1 .. L
            /\ \A i \in 1 .. L : channel'[i] = channel[i + 1]
            /\ Head(channel) = channel[1] /\ channel[1] \in Messages
<1>1. channel \in Seq(Messages) /\ channel # <<>> /\ channel' = Tail(channel)
  BY DEF IInv, Typed, ExecuteMessage
<1>2. PICK K : K = Len(channel)
  OBVIOUS
<1>3. K \in Nat /\ K # 0 /\ DOMAIN channel = 1 .. K
  BY <1>1, <1>2, EmptySeq, LenProperties
<1>4. PICK L \in Nat : K = L + 1
  BY <1>3
<1>5. Len(channel') = L /\ channel' \in Seq(Messages)
  <2>1. Len(Tail(channel)) = K - 1 /\ Tail(channel) \in Seq(Messages)
    BY <1>1, <1>2, HeadTailProperties
  <2> QED  BY <1>1, <1>4, <2>1
<1>6. DOMAIN channel' = 1 .. L
  BY <1>5, LenProperties
<1>7. \A i \in 1 .. L : channel'[i] = channel[i + 1]
  BY <1>1, <1>5, HeadTailProperties
<1>8. Head(channel) = channel[1] /\ channel[1] \in Messages
  <2>1. 1 \in 1 .. Len(channel)
    BY <1>2, <1>3
  <2> QED  BY <1>1, <2>1, ElementOfSeq
<1> QED  BY <1>2, <1>3, <1>4, <1>5, <1>6, <1>7, <1>8

(* What the first message of the channel does to its episode *)
LEMMA HeadExecuted ==
  ASSUME IInv, ExecuteMessage, NEW m, m = channel[1]
  PROVE  /\ m \in Messages /\ m.from \in handed /\ m = Message(m.from)
         /\ UNCHANGED <<router, client, seq_store, net, acks, last_seq, handed, crashes>>
         /\ episodes' \in [EpisodeIds -> Episodes \cup {None}]
         /\ \A e \in EpisodeIds : e # m.ep \/ Closed(e) => episodes'[e] = episodes[e]
         /\ ~ Closed(m.ep) =>
              /\ \A j \in DOMAIN Log(m.ep) : Log(m.ep)[j].seq < m.seq
              /\ \A n \in Nat : n < m.seq => Given(m.ep, n) \/ Taken(m.ep, n)
              /\ \/ /\ Log(m.ep)' = Append(Log(m.ep), m) /\ episodes'[m.ep] # None
                    /\ Log(m.ep) = <<>> => m.type = "New" /\ m.seq = 0
                    /\ Closed(m.ep)' <=> router = "kas_draw" /\ m.type = "Close"
                 \/ /\ episodes'[m.ep] = episodes[m.ep] /\ Taken(m.ep, m.seq)
                    /\ router # "kas_draw" /\ m.type = "Close"
<1>1. PICK L \in Nat : DOMAIN channel = 1 .. L + 1 /\ Head(channel) = m /\ m \in Messages
  BY Shifted
<1>2. 1 \in DOMAIN channel
  BY <1>1
<1>3. /\ m.from \in handed /\ m.from \in Clients /\ m = Message(m.from) /\ m.type # "Checkpoint"
      /\ m.seq = 0 <=> m.type = "New"
  BY <1>2 DEF IInv, Genuine, Message
<1>4. m.ep \in EpisodeIds /\ m.seq \in Nat /\ m.type \in {"New", "Cmd", "Close"}
  BY <1>1, <1>3 DEF Messages, Types
<1>5. /\ UNCHANGED <<router, client, seq_store, net, acks, last_seq, handed, crashes>>
      /\ episodes' = IF Executes(m) THEN [episodes EXCEPT ![m.ep] = Result(m)] ELSE episodes
  BY <1>1 DEF ExecuteMessage, clientVars, routerVars
<1>6. episodes \in [EpisodeIds -> Episodes \cup {None}]
  BY DEF IInv, Typed
<1>7. CASE Closed(m.ep)
  <2>1. ~ Executes(m)
    BY <1>4, <1>7 DEF Closed, Executes, Open
  <2> QED  BY <1>1, <1>3, <1>5, <1>6, <1>7, <2>1
<1>8. CASE ~ Closed(m.ep)
  <2>1. Live(m.ep, 1)
    BY <1>2, <1>8 DEF Live
  <2>2. /\ \A j \in DOMAIN Log(m.ep) : Log(m.ep)[j].seq < m.seq
        /\ \A n \in Nat : n < m.seq => Given(m.ep, n) \/ Taken(m.ep, n)
    <3>1. QueueOrdered(m.ep)
      BY <1>4 DEF IInv, Ordered
    <3>2. \A n : ~ Waits(m.ep, n, 1 - 1)
      BY DEF Waits
    <3> QED  BY <1>2, <2>1, <3>1, <3>2 DEF QueueOrdered
  <2>3. LogOrdered(m.ep)
    BY <1>4 DEF IInv, Ordered
  <2>4. CASE m.type = "New"
    <3>1. episodes[m.ep] = None
      <4>1. SUFFICES ASSUME episodes[m.ep] # None PROVE FALSE
        OBVIOUS
      <4>2. Log(m.ep) # <<>> /\ Log(m.ep)[1].seq = 0
        BY <2>3, <4>1 DEF LogOrdered
      <4>3. 1 \in DOMAIN Log(m.ep)
        BY <1>4, <4>2, Numbers, EmptySeq, LenProperties DEF IInv
      <4>4. 0 < m.seq
        BY <2>2, <4>2, <4>3
      <4> QED  BY <1>3, <2>4, <4>4
    <3>2. episodes' = [episodes EXCEPT ![m.ep] = [log |-> <<m>>, closed |-> FALSE]]
      BY <1>5, <2>4, <3>1 DEF Executes, Result
    <3>3. [log |-> <<m>>, closed |-> FALSE] \in Episodes
      BY <1>1 DEF Episodes
    <3>4. /\ episodes'[m.ep] = [log |-> <<m>>, closed |-> FALSE]
          /\ \A e \in EpisodeIds : e # m.ep => episodes'[e] = episodes[e]
          /\ episodes' \in [EpisodeIds -> Episodes \cup {None}]
      BY <1>4, <1>6, <3>2, <3>3
    <3>5. Log(m.ep) = <<>> /\ Log(m.ep)' = <<m>> /\ ~ Closed(m.ep)' /\ episodes'[m.ep] # None
      <4>1. PICK x : x = [log |-> <<m>>, closed |-> FALSE]
        OBVIOUS
      <4>2. x.log = <<m>> /\ ~ x.closed /\ episodes'[m.ep] = x
        BY <3>4, <4>1
      <4>3. x # None
        BY <3>3, <4>1, NoneAssumption
      <4> QED  BY <3>1, <4>2, <4>3 DEF Log, Closed
    <3>6. <<m>> = Append(<<>>, m)
      OBVIOUS
    <3> QED  BY <1>1, <1>3, <1>5, <1>8, <2>2, <2>4, <3>4, <3>5, <3>6
  <2>5. CASE m.type # "New"
    <3>1. episodes[m.ep] # None
      <4>1. SUFFICES ASSUME episodes[m.ep] = None PROVE FALSE
        OBVIOUS
      <4>2. 0 < m.seq
        BY <1>3, <1>4, <2>5
      <4>3. ~ Given(m.ep, 0)
        BY <4>1 DEF Given, Log
      <4>4. ~ Taken(m.ep, 0)
        BY DEF Taken, TakesNumber, IInv, Genuine
      <4> QED  BY <2>2, <4>2, <4>3, <4>4
    <3>2. Open(m.ep) /\ episodes[m.ep] \in Episodes /\ Log(m.ep) = episodes[m.ep].log
      BY <1>4, <1>6, <1>8, <3>1 DEF Open, Closed, Log
    <3>3. Log(m.ep) # <<>>
      BY <2>3, <3>1 DEF LogOrdered
    <3>4. ASSUME NEW closed \in BOOLEAN,
                 episodes'= [episodes EXCEPT ![m.ep] = [log |-> Append(Log(m.ep), m), closed |-> closed]]
          PROVE  /\ episodes' \in [EpisodeIds -> Episodes \cup {None}]
                 /\ \A e \in EpisodeIds : e # m.ep => episodes'[e] = episodes[e]
                 /\ Log(m.ep)' = Append(Log(m.ep), m) /\ episodes'[m.ep] # None
                 /\ Closed(m.ep)' = closed
      <4>1. Append(Log(m.ep), m) \in Seq(Messages)
        BY <1>1, <1>4, Numbers DEF IInv
      <4>2. PICK x : x = [log |-> Append(Log(m.ep), m), closed |-> closed]
        OBVIOUS
      <4>3. x \in Episodes /\ x.log = Append(Log(m.ep), m) /\ x.closed = closed
        BY <4>1, <4>2 DEF Episodes
      <4>4. /\ episodes'[m.ep] = x /\ episodes' \in [EpisodeIds -> Episodes \cup {None}]
            /\ \A e \in EpisodeIds : e # m.ep => episodes'[e] = episodes[e]
        BY <1>4, <1>6, <3>4, <4>2, <4>3
      <4>5. x # None
        BY <4>3, NoneAssumption
      <4> QED  BY <4>3, <4>4, <4>5 DEF Log, Closed
    <3>5. CASE m.type = "Cmd"
      <4>1. Executes(m) /\ Result(m) = [episodes[m.ep] EXCEPT !.log = Append(@, m)]
        BY <3>2, <3>5 DEF Executes, Result
      <4>2. Result(m) = [log |-> Append(Log(m.ep), m), closed |-> FALSE]
        BY <3>2, <4>1 DEF Episodes, Open
      <4>3. episodes' = [episodes EXCEPT ![m.ep] = [log |-> Append(Log(m.ep), m), closed |-> FALSE]]
        BY <1>5, <4>1, <4>2
      <4> QED  BY <1>1, <1>3, <1>5, <1>8, <2>2, <3>3, <3>4, <3>5, <4>3
    <3>6. CASE m.type = "Close" /\ router = "kas_draw"
      <4>1. Executes(m) /\ Result(m) = [log |-> Append(Log(m.ep), m), closed |-> TRUE]
        BY <3>2, <3>6 DEF Executes, Result
      <4>2. episodes' = [episodes EXCEPT ![m.ep] = [log |-> Append(Log(m.ep), m), closed |-> TRUE]]
        BY <1>5, <4>1
      <4> QED  BY <1>1, <1>3, <1>5, <1>8, <2>2, <3>3, <3>4, <3>6, <4>2
    <3>7. CASE m.type = "Close" /\ router # "kas_draw"
      <4>1. episodes' = episodes
        BY <1>5, <3>7 DEF Executes
      <4>2. Taken(m.ep, m.seq)
        BY <1>3, <3>7 DEF Taken, TakesNumber, Message
      <4> QED  BY <1>1, <1>3, <1>5, <1>6, <1>8, <2>2, <3>7, <4>1, <4>2
    <3> QED  BY <1>4, <2>5, <3>5, <3>6, <3>7
  <2> QED  BY <2>4, <2>5
<1> QED  BY <1>7, <1>8

LEMMA ExecuteOrder ==
  ASSUME IInv, ExecuteMessage, NEW e \in EpisodeIds
  PROVE  (LogOrdered(e) /\ QueueOrdered(e) /\ RouterOrdered(e))'
<1>0. PICK m : m = channel[1]
  OBVIOUS
<1>1. PICK L \in Nat :
         /\ Len(channel) = L + 1 /\ DOMAIN channel = 1 .. L + 1
         /\ Len(channel') = L /\ DOMAIN channel' = 1 .. L
         /\ \A i \in 1 .. L : channel'[i] = channel[i + 1]
  BY Shifted
<1>2. /\ m \in Messages
      /\ UNCHANGED <<router, client, last_seq, handed>>
      /\ \A f \in EpisodeIds : f # m.ep \/ Closed(f) => episodes'[f] = episodes[f]
  BY <1>0, HeadExecuted
<1>3. ASSUME e = m.ep, ~ Closed(e)
      PROVE  /\ \A j \in DOMAIN Log(e) : Log(e)[j].seq < m.seq
             /\ \A n \in Nat : n < m.seq => Given(e, n) \/ Taken(e, n)
             /\ \/ /\ Log(e)' = Append(Log(e), m) /\ episodes'[e] # None
                   /\ Log(e) = <<>> => m.type = "New" /\ m.seq = 0
                   /\ Closed(e)' <=> router = "kas_draw" /\ m.type = "Close"
                \/ /\ episodes'[e] = episodes[e] /\ Taken(e, m.seq)
                   /\ router # "kas_draw" /\ m.type = "Close"
  BY <1>0, <1>3, HeadExecuted
<1>4. LogOrdered(e) /\ QueueOrdered(e) /\ RouterOrdered(e)
  BY DEF IInv, Ordered
<1>5. Log(e) \in Seq(Messages) /\ m.seq \in Nat
  BY <1>2, Numbers DEF IInv, Messages
<1>6. episodes'[e] = episodes[e] => Log(e)' = Log(e) /\ Closed(e)' = Closed(e)
  BY DEF Log, Closed
(* The log has stayed, or has grown by the message *)
<1>7. \/ episodes'[e] = episodes[e] /\ Log(e)' = Log(e) /\ Closed(e)' = Closed(e)
      \/ e = m.ep /\ ~ Closed(e) /\ Log(e)' = Append(Log(e), m) /\ episodes'[e] # None
  BY <1>2, <1>3, <1>6
<1>8. ASSUME Log(e)' = Append(Log(e), m)
      PROVE  \E K \in Nat :
                /\ DOMAIN Log(e) = 1 .. K /\ DOMAIN Log(e)' = 1 .. K + 1
                /\ Log(e)'[K + 1] = m /\ \A i \in 1 .. K : Log(e)'[i] = Log(e)[i]
                /\ K = 0 => Log(e) = <<>>
  <2>1. PICK s : s = Log(e)
    OBVIOUS
  <2>2. s \in Seq(Messages)
    BY <1>5, <2>1
  <2>3. PICK K : K = Len(s)
    OBVIOUS
  <2>4. /\ Append(s, m) \in Seq(Messages) /\ Len(Append(s, m)) = K + 1
        /\ \A i \in 1 .. K : Append(s, m)[i] = s[i]
        /\ Append(s, m)[K + 1] = m
    BY <1>2, <2>2, <2>3, AppendProperties
  <2>5. DOMAIN Append(s, m) = 1 .. K + 1 /\ DOMAIN s = 1 .. K /\ K \in Nat
    BY <2>2, <2>3, <2>4, LenProperties
  <2>6. K = 0 => s = <<>>
    BY <2>2, <2>3, EmptySeq
  <2> QED  BY <1>8, <2>1, <2>4, <2>5, <2>6
<1>9. /\ \A n : Given(e, n) => Given(e, n)'
      /\ \A n : Taken(e, n) => Taken(e, n)'
  <2>1. \A n : Taken(e, n) => Taken(e, n)'
    BY <1>2 DEF Taken, TakesNumber
  <2>2. CASE Log(e)' = Log(e)
    BY <2>1, <2>2 DEF Given
  <2>3. CASE Log(e)' = Append(Log(e), m)
    <3>1. PICK K \in Nat : /\ DOMAIN Log(e) = 1 .. K /\ DOMAIN Log(e)' = 1 .. K + 1
                           /\ \A i \in 1 .. K : Log(e)'[i] = Log(e)[i]
      BY <1>8, <2>3
    <3>2. \A i \in 1 .. K : i \in 1 .. K + 1
      BY <3>1
    <3> QED  BY <2>1, <3>1, <3>2 DEF Given
  <2> QED  BY <1>7, <2>2, <2>3
<1>10. \A j \in DOMAIN Log(e)' :
          (\E i \in DOMAIN Log(e) : Log(e)'[j] = Log(e)[i]) \/ (e = m.ep /\ Log(e)'[j] = m)
  <2>1. CASE Log(e)' = Log(e)
    BY <2>1
  <2>2. CASE Log(e)' = Append(Log(e), m) /\ e = m.ep
    <3>1. PICK K \in Nat : /\ DOMAIN Log(e) = 1 .. K /\ DOMAIN Log(e)' = 1 .. K + 1
                           /\ Log(e)'[K + 1] = m /\ \A i \in 1 .. K : Log(e)'[i] = Log(e)[i]
      BY <1>8, <2>2
    <3>2. \A i \in 1 .. K + 1 : i \in 1 .. K \/ i = K + 1
      BY <3>1
    <3> QED  BY <2>2, <3>1, <3>2
  <2> QED  BY <1>7, <2>1, <2>2
<1>11. e = m.ep /\ ~ Closed(e) => Given(e, m.seq)' \/ Taken(e, m.seq)'
  <2> SUFFICES ASSUME e = m.ep, ~ Closed(e) PROVE Given(e, m.seq)' \/ Taken(e, m.seq)'
    OBVIOUS
  <2>1. CASE Log(e)' = Append(Log(e), m)
    <3>1. PICK K \in Nat : DOMAIN Log(e)' = 1 .. K + 1 /\ Log(e)'[K + 1] = m
      BY <1>8, <2>1
    <3>2. K + 1 \in 1 .. K + 1
      BY <3>1
    <3> QED  BY <3>1, <3>2 DEF Given
  <2>2. CASE Taken(e, m.seq)
    BY <1>9, <2>2
  <2> QED  BY <1>3, <2>1, <2>2
<1>12. ~ Closed(e)' => ~ Closed(e) /\ ~ Closes(e, 1)
  <2>1. CASE e # m.ep
    BY <1>0, <1>2, <1>6, <2>1 DEF Closes
  <2>2. CASE e = m.ep /\ Closed(e)
    BY <1>2, <1>6, <2>2
  <2>3. CASE e = m.ep /\ ~ Closed(e)
    BY <1>0, <1>3, <2>3 DEF Closes
  <2> QED  BY <2>1, <2>2, <2>3
(* What comes after the first message has moved up by one *)
<1>13. \A i \in 1 .. L : /\ i + 1 \in DOMAIN channel /\ i \in DOMAIN channel'
                         /\ channel'[i] = channel[i + 1] /\ Closes(e, i)' = Closes(e, i + 1)
  <2>1. \A i \in 1 .. L : i + 1 \in 1 .. L + 1
    BY <1>1
  <2> QED  BY <1>1, <1>2, <2>1 DEF Closes
<1>14. ASSUME NEW i \in 1 .. L, Live(e, i)'
       PROVE  Live(e, i + 1)
  <2>1. ~ Closed(e) /\ ~ Closes(e, 1) /\ channel[i + 1].ep = e
    BY <1>12, <1>13, <1>14 DEF Live
  <2>2. ASSUME NEW j \in 1 .. (i + 1) - 1 PROVE ~ Closes(e, j)
    <3>1. CASE j = 1
      BY <2>1, <3>1
    <3>2. CASE j # 1
      <4>1. PICK k \in 1 .. i - 1 : j = k + 1
        <5>1. j - 1 \in 1 .. i - 1 /\ j = (j - 1) + 1
          BY <1>1, <3>2
        <5> QED  BY <5>1
      <4>2. k \in 1 .. L
        BY <1>1
      <4>3. ~ Closes(e, k)'
        BY <1>14 DEF Live
      <4> QED  BY <1>13, <4>1, <4>2, <4>3
    <3> QED  BY <3>1, <3>2
  <2> QED  BY <1>13, <2>1, <2>2 DEF Live
<1>15. ASSUME NEW i \in 1 .. L, Live(e, i + 1), ~ Closed(e)'
       PROVE  Live(e, i)'
  <2>1. \A j \in 1 .. i - 1 : j \in 1 .. L /\ j + 1 \in 1 .. (i + 1) - 1
    BY <1>1
  <2>2. \A j \in 1 .. i - 1 : ~ Closes(e, j)'
    BY <1>13, <1>15, <2>1 DEF Live
  <2> QED  BY <1>13, <1>15, <2>2 DEF Live
<1>16. ASSUME ~ Closed(e)', NEW k \in 0 .. L, NEW n, Waits(e, n, k + 1)
       PROVE  Given(e, n)' \/ Taken(e, n)' \/ Waits(e, n, k)'
  <2>1. PICK j \in 1 .. k + 1 : Live(e, j) /\ channel[j].seq = n
    BY <1>16 DEF Waits
  <2>2. CASE j = 1
    <3>1. e = m.ep /\ ~ Closed(e) /\ m.seq = n
      BY <1>0, <2>1, <2>2 DEF Live
    <3> QED  BY <1>11, <3>1
  <2>3. CASE j # 1
    <3>1. PICK i \in 1 .. k : j = i + 1
      <4>1. j - 1 \in 1 .. k /\ j = (j - 1) + 1
        BY <2>3
      <4> QED  BY <4>1
    <3>2. i \in 1 .. L
      BY <1>1
    <3>3. Live(e, i)' /\ channel'[i].seq = n
      BY <1>13, <1>15, <1>16, <2>1, <3>1, <3>2
    <3> QED  BY <3>1, <3>3 DEF Waits
  <2> QED  BY <2>2, <2>3
<1>17. LogOrdered(e)'
  <2>1. CASE episodes'[e] = episodes[e] /\ Log(e)' = Log(e)
    BY <1>4, <1>9, <2>1 DEF LogOrdered
  <2>2. CASE e = m.ep /\ ~ Closed(e) /\ Log(e)' = Append(Log(e), m) /\ episodes'[e] # None
    <3>1. PICK K \in Nat :
             /\ DOMAIN Log(e) = 1 .. K /\ DOMAIN Log(e)' = 1 .. K + 1
             /\ Log(e)'[K + 1] = m /\ \A i \in 1 .. K : Log(e)'[i] = Log(e)[i]
             /\ K = 0 => Log(e) = <<>>
      BY <1>8, <2>2
    <3>2. \A i \in 1 .. K + 1 : i \in 1 .. K \/ i = K + 1
      BY <3>1
    <3>3. Log(e)' # <<>>
      <4>1. 1 \in 1 .. K + 1
        BY <3>1
      <4> QED  BY <3>1, <4>1
    <3>4. Log(e)'[1].type = "New" /\ Log(e)'[1].seq = 0
      <4>1. CASE K = 0
        <5>1. Log(e)'[1] = m
          BY <3>1, <4>1
        <5>2. 1 \in DOMAIN Log(e)' /\ 1 \notin DOMAIN Log(e)
          BY <3>1, <4>1
        <5>3. Log(e) = <<>> => m.type = "New" /\ m.seq = 0
          BY <1>3, <1>6, <2>2, <5>2
        <5> QED  BY <3>1, <4>1, <5>1, <5>3
      <4>2. CASE K # 0
        <5>1. 1 \in 1 .. K
          BY <3>1, <4>2
        <5>2. episodes[e] # None
          BY <3>1, <5>1 DEF Log
        <5> QED  BY <1>4, <3>1, <5>1, <5>2 DEF LogOrdered
      <4> QED  BY <4>1, <4>2
    <3>5. ASSUME NEW i \in 1 .. K + 1, NEW j \in 1 .. K + 1, i < j
          PROVE  Log(e)'[i].seq < Log(e)'[j].seq
      <4>1. i \in 1 .. K
        BY <3>1, <3>5
      <4>2. CASE j \in 1 .. K
        BY <1>4, <3>1, <3>5, <4>1, <4>2 DEF LogOrdered
      <4>3. CASE j = K + 1
        BY <1>3, <2>2, <3>1, <4>1, <4>3
      <4> QED  BY <3>2, <4>2, <4>3
    <3>6. ASSUME NEW i \in 1 .. K + 1, NEW n \in Nat, n < Log(e)'[i].seq
          PROVE  Given(e, n)' \/ Taken(e, n)'
      <4>1. CASE i \in 1 .. K
        BY <1>4, <1>9, <3>1, <3>6, <4>1 DEF LogOrdered
      <4>2. CASE i = K + 1
        BY <1>3, <1>9, <2>2, <3>1, <3>6, <4>2
      <4> QED  BY <3>2, <4>1, <4>2
    <3> QED  BY <3>1, <3>3, <3>4, <3>5, <3>6 DEF LogOrdered
  <2> QED  BY <1>7, <2>1, <2>2
<1>18. QueueOrdered(e)'
  <2> SUFFICES ASSUME NEW i \in 1 .. L, Live(e, i)'
               PROVE  /\ \A j \in DOMAIN Log(e)' : Log(e)'[j].seq < channel'[i].seq
                      /\ \A j \in 1 .. i - 1 : channel'[j].ep = e => channel'[j].seq < channel'[i].seq
                      /\ \A n \in Nat : n < channel'[i].seq =>
                            Given(e, n)' \/ Taken(e, n)' \/ Waits(e, n, i - 1)'
    BY <1>1 DEF QueueOrdered
  <2>1. /\ \A j \in DOMAIN Log(e) : Log(e)[j].seq < channel[i + 1].seq
        /\ \A j \in 1 .. (i + 1) - 1 : channel[j].ep = e => channel[j].seq < channel[i + 1].seq
        /\ \A n \in Nat : n < channel[i + 1].seq =>
              Given(e, n) \/ Taken(e, n) \/ Waits(e, n, (i + 1) - 1)
    BY <1>4, <1>13, <1>14 DEF QueueOrdered
  <2>2. /\ channel'[i] = channel[i + 1] /\ 1 \in 1 .. (i + 1) - 1
        /\ (i + 1) - 1 = (i - 1) + 1 /\ i - 1 \in 0 .. L
    BY <1>1, <1>13
  <2>3. \A j \in DOMAIN Log(e)' : Log(e)'[j].seq < channel'[i].seq
    BY <1>0, <1>10, <2>1, <2>2
  <2>4. \A j \in 1 .. i - 1 : channel'[j].ep = e => channel'[j].seq < channel'[i].seq
    <3>1. \A j \in 1 .. i - 1 : j \in 1 .. L /\ j + 1 \in 1 .. (i + 1) - 1
      BY <1>1
    <3> QED  BY <1>13, <2>1, <2>2, <3>1
  <2>5. ~ Closed(e)'
    BY DEF Live
  <2>6. \A n : Waits(e, n, (i + 1) - 1) => Given(e, n)' \/ Taken(e, n)' \/ Waits(e, n, i - 1)'
    BY <1>16, <2>2, <2>5
  <2> QED  BY <1>9, <2>1, <2>2, <2>3, <2>4, <2>6
<1>19. RouterOrdered(e)'
  <2> SUFFICES ASSUME ~ Shut(e)' PROVE RouterOrdered(e)'
    BY DEF RouterOrdered
  <2>1. ~ Closed(e)' /\ \A i \in 1 .. L : ~ Closes(e, i)'
    BY <1>1 DEF Shut
  <2>2. ~ Shut(e)
    <3>1. \A i \in 1 .. L + 1 : i = 1 \/ \E j \in 1 .. L : i = j + 1
      <4>1. SUFFICES ASSUME NEW i \in 1 .. L + 1, i # 1
                     PROVE  \E j \in 1 .. L : i = j + 1
        OBVIOUS
      <4>2. i - 1 \in 1 .. L /\ i = (i - 1) + 1
        BY <1>1, <4>1
      <4> QED  BY <4>2
    <3>2. \A i \in DOMAIN channel : ~ Closes(e, i)
      BY <1>1, <1>12, <1>13, <2>1, <3>1
    <3> QED  BY <1>12, <2>1, <3>2 DEF Shut
  <2>3. 1 \in DOMAIN channel
    BY <1>1
  <2>4. CASE last_seq[e] = None
    <3>1. episodes[e] = None /\ \A i \in DOMAIN channel : channel[i].ep # e
      BY <1>4, <2>2, <2>4 DEF RouterOrdered
    <3>2. episodes'[e] = None
      BY <1>0, <1>2, <2>3, <3>1
    <3> QED  BY <1>1, <1>2, <1>13, <2>4, <3>1, <3>2 DEF RouterOrdered
  <2>5. CASE last_seq[e] # None
    <3>1. /\ \A j \in DOMAIN Log(e) : Log(e)[j].seq <= last_seq[e].seq
          /\ \A i \in DOMAIN channel : channel[i].ep = e => channel[i].seq <= last_seq[e].seq
          /\ \A n \in Nat : n <= last_seq[e].seq =>
                Given(e, n) \/ Taken(e, n) \/ Waits(e, n, L + 1)
      BY <1>1, <1>4, <2>2, <2>5 DEF RouterOrdered
    <3>2. \A j \in DOMAIN Log(e)' : Log(e)'[j].seq <= last_seq[e].seq
      BY <1>0, <1>10, <2>3, <3>1
    <3>3. \A i \in DOMAIN channel' : channel'[i].ep = e => channel'[i].seq <= last_seq[e].seq
      BY <1>1, <1>13, <3>1
    <3>4. L \in 0 .. L
      BY <1>1
    <3>5. \A n : Waits(e, n, L + 1) => Given(e, n)' \/ Taken(e, n)' \/ Waits(e, n, L)'
      BY <1>16, <2>1, <3>4
    <3>6. \A n \in Nat : n <= last_seq[e].seq =>
             Given(e, n)' \/ Taken(e, n)' \/ Waits(e, n, Len(channel))'
      BY <1>1, <1>9, <3>1, <3>5
    <3> QED  BY <1>2, <2>5, <3>2, <3>3, <3>6 DEF RouterOrdered
  <2> QED  BY <2>4, <2>5
<1> QED  BY <1>17, <1>18, <1>19

LEMMA ExecuteGood == IInv /\ ExecuteMessage => IInv'
<1> SUFFICES ASSUME IInv, ExecuteMessage PROVE IInv'
  OBVIOUS
<1>0. PICK m : m = channel[1]
  OBVIOUS
<1>1. PICK L \in Nat :
         /\ DOMAIN channel = 1 .. L + 1 /\ DOMAIN channel' = 1 .. L
         /\ channel' \in Seq(Messages)
         /\ \A i \in 1 .. L : channel'[i] = channel[i + 1]
  BY Shifted
<1>2. /\ m \in Messages /\ m.from \in handed /\ m = Message(m.from)
      /\ UNCHANGED <<router, client, seq_store, net, acks, last_seq, handed, crashes>>
      /\ episodes' \in [EpisodeIds -> Episodes \cup {None}]
      /\ \A e \in EpisodeIds : e # m.ep \/ Closed(e) => episodes'[e] = episodes[e]
  BY <1>0, HeadExecuted
<1>3. \A i \in DOMAIN channel' : i + 1 \in DOMAIN channel /\ channel'[i] = channel[i + 1]
  <2>1. \A i \in 1 .. L : i + 1 \in 1 .. L + 1
    BY <1>1
  <2> QED  BY <1>1, <2>1
<1>4. Typed'
  BY <1>1, <1>2 DEF IInv, Typed, Ready
<1>5. Genuine'
  BY <1>2, <1>3 DEF IInv, Genuine, Ready, Message
<1>6. Honest'
  BY <1>2 DEF IInv, Honest, Heard
<1>7. Ordered'
  BY ExecuteOrder DEF Ordered
<1>8. NothingLost'
  <2> SUFFICES ASSUME NEW c \in handed, client[c].type = "Cmd", crashes = 0
               PROVE  \/ \E n \in ToSet(channel') : n.from = c
                      \/ \E e \in EpisodeIds :
                            /\ client[c].ep = e /\ episodes'[e] # None
                            /\ episodes'[e].closed \/ \E n \in ToSet(episodes'[e].log) : n.from = c
    BY <1>2 DEF NothingLost
  <2>1. CASE \E i \in DOMAIN channel : i # 1 /\ channel[i].from = c
    <3>1. PICK i \in 1 .. L + 1 : i # 1 /\ channel[i].from = c
      BY <1>1, <2>1
    <3>2. i - 1 \in 1 .. L /\ i = (i - 1) + 1
      BY <3>1
    <3>3. channel'[i - 1].from = c /\ i - 1 \in DOMAIN channel'
      BY <1>1, <3>1, <3>2
    <3> QED  BY <3>3 DEF ToSet
  <2>2. CASE m.from = c
    <3>1. m.type = "Cmd" /\ m.ep = client[c].ep /\ m.ep \in EpisodeIds
      BY <1>2, <2>2 DEF Message, Messages
    <3>2. CASE Closed(m.ep)
      BY <1>2, <3>1, <3>2 DEF Closed
    <3>3. CASE ~ Closed(m.ep)
      <4>1. Log(m.ep)' = Append(Log(m.ep), m) /\ episodes'[m.ep] # None
        BY <1>0, <3>1, <3>3, HeadExecuted
      <4>2. m \in ToSet(Log(m.ep)')
        <5>1. PICK s : s = Log(m.ep)
          OBVIOUS
        <5>2. s \in Seq(Messages)
          BY <3>1, <5>1, Numbers DEF IInv
        <5>3. m \in ToSet(Append(s, m))
          BY <1>2, <5>2, AppendProperties, LenProperties DEF ToSet
        <5> QED  BY <4>1, <5>1, <5>3
      <4> QED  BY <2>2, <3>1, <4>1, <4>2 DEF Log
    <3> QED  BY <3>2, <3>3
  <2>3. CASE \E e \in EpisodeIds :
                /\ client[c].ep = e /\ episodes[e] # None
                /\ episodes[e].closed \/ \E n \in ToSet(episodes[e].log) : n.from = c
    <3>1. PICK e \in EpisodeIds :
             /\ client[c].ep = e /\ episodes[e] # None
             /\ episodes[e].closed \/ \E n \in ToSet(episodes[e].log) : n.from = c
      BY <2>3
    <3>2. CASE episodes'[e] = episodes[e]
      BY <3>1, <3>2
    <3>3. CASE episodes'[e] # episodes[e]
      <4>1. e = m.ep /\ ~ Closed(e)
        BY <1>2, <3>3
      <4>2. Log(e)' = Append(Log(e), m) /\ episodes'[e] # None
        BY <1>0, <3>3, <4>1, HeadExecuted
      <4>3. PICK n \in ToSet(Log(e)) : n.from = c
        BY <3>1, <4>1 DEF Closed, Log
      <4>4. n \in ToSet(Log(e)')
        <5>1. PICK s : s = Log(e)
          OBVIOUS
        <5>2. s \in Seq(Messages)
          BY <5>1, Numbers DEF IInv
        <5>3. n \in ToSet(Append(s, m))
          BY <1>2, <4>3, <5>1, <5>2, AppendProperties, LenProperties DEF ToSet
        <5> QED  BY <4>2, <5>1, <5>3
      <4> QED  BY <3>1, <4>2, <4>3, <4>4 DEF Log
    <3> QED  BY <3>2, <3>3
  <2>4. \/ \E n \in ToSet(channel) : n.from = c
        \/ \E e \in EpisodeIds :
              /\ client[c].ep = e /\ episodes[e] # None
              /\ episodes[e].closed \/ \E n \in ToSet(episodes[e].log) : n.from = c
    BY <1>2 DEF IInv, NothingLost
  <2>5. (\E n \in ToSet(channel) : n.from = c) =>
           (\E i \in DOMAIN channel : i # 1 /\ channel[i].from = c) \/ m.from = c
    BY <1>0 DEF ToSet
  <2> QED  BY <2>1, <2>2, <2>3, <2>4, <2>5
<1> QED  BY <1>4, <1>5, <1>6, <1>7, <1>8 DEF IInv

-----------------------------------------------------------------------------
LEMMA StepGood == IInv /\ [Next]_vars => IInv'
<1> SUFFICES ASSUME IInv, [Next]_vars PROVE IInv'
  OBVIOUS
<1>1. ASSUME NEW c \in Clients, ClientAction(c) PROVE IInv'
  BY <1>1, ClientGood
<1>2. CASE Route
  BY <1>2, AcceptGood, RepeatGood DEF Route
<1>3. CASE Crash
  BY <1>3, CrashGood
<1>4. CASE ExecuteMessage
  BY <1>4, ExecuteGood
<1>5. CASE UNCHANGED vars
  <2>1. UNCHANGED <<router, client, seq_store, net, acks, last_seq, handed, channel, episodes, crashes>>
    BY <1>5 DEF vars, clientVars, routerVars
  <2>2. Typed' /\ Genuine' /\ Honest' /\ NothingLost'
    BY <2>1 DEF IInv, Typed, Genuine, Honest, Heard, Ready, Message, NothingLost
  <2>3. Ordered'
    BY <2>1 DEF IInv, Ordered, LogOrdered, QueueOrdered, RouterOrdered, Shut, Closed, Closes,
                Live, Log, Given, Waits, Taken, TakesNumber
  <2> QED  BY <2>2, <2>3 DEF IInv
<1> QED  BY <1>1, <1>2, <1>3, <1>4, <1>5 DEF Next, ClientAction

LEMMA Invariance == Spec => []IInv
<1>1. IInv /\ [Next]_vars => IInv'
  BY StepGood
<1> QED  BY InitGood, <1>1, PTL DEF Spec

(* Whatever the network does, an episode has its messages in the order of  *)
(* their numbers, each once, from the New on, and each number between two  *)
(* that it has was of a checkpoint or a Close (process_message and run of  *)
(* the two routers).                                                       *)
THEOREM InOrderAlways == Spec => []StrictOrder
<1>1. IInv => StrictOrder
  <2> SUFFICES ASSUME IInv, NEW e \in EpisodeIds, episodes[e] # None
               PROVE  LET log == episodes[e].log IN
                      /\ log[1].type = "New" /\ log[1].seq = 0
                      /\ \A i \in 1..Len(log) - 1 :
                            /\ log[i].seq < log[i + 1].seq
                            /\ \A n \in log[i].seq + 1 .. log[i + 1].seq - 1 :
                                  \E c \in handed : TakesNumber(c, e, n)
    BY DEF StrictOrder
  <2>1. PICK log : log = episodes[e].log
    OBVIOUS
  <2>2. Log(e) = log /\ LogOrdered(e)
    BY <2>1 DEF Log, IInv, Ordered
  <2>3. PICK K \in Nat : Len(log) = K /\ DOMAIN log = 1 .. K
    BY <2>2, Numbers, LenProperties DEF IInv
  <2>4. \A i \in 1 .. K : log[i].seq \in Nat
    BY <2>2, <2>3, Numbers DEF IInv
  <2>5. log[1].type = "New" /\ log[1].seq = 0
    BY <2>2 DEF LogOrdered
  <2>6. ASSUME NEW i \in 1 .. K - 1
        PROVE  /\ log[i].seq < log[i + 1].seq
               /\ \A n \in log[i].seq + 1 .. log[i + 1].seq - 1 : Taken(e, n)
    <3>1. i \in 1 .. K /\ i + 1 \in 1 .. K /\ i < i + 1
      BY <2>3
    <3>2. log[i].seq < log[i + 1].seq
      BY <2>2, <2>3, <3>1 DEF LogOrdered
    <3>3. ASSUME NEW n \in log[i].seq + 1 .. log[i + 1].seq - 1
          PROVE  Taken(e, n)
      <4>1. PICK a, b : a = log[i].seq /\ b = log[i + 1].seq
        OBVIOUS
      <4>2. a \in Nat /\ b \in Nat /\ n \in a + 1 .. b - 1
        BY <2>4, <3>1, <4>1
      <4>3. n \in Nat /\ a < n /\ n < b
        BY <4>2
      <4>4. Given(e, n) \/ Taken(e, n)
        BY <2>2, <2>3, <3>1, <4>1, <4>3 DEF LogOrdered
      <4>5. ASSUME NEW j \in 1 .. K, log[j].seq = n PROVE FALSE
        <5>1. \A k \in 1 .. K, l \in 1 .. K : k < l => log[k].seq < log[l].seq
          BY <2>2, <2>3 DEF LogOrdered
        <5>2. CASE j < i
          BY <3>1, <4>1, <4>2, <4>3, <4>5, <5>1, <5>2
        <5>3. CASE j = i
          BY <4>1, <4>2, <4>3, <4>5, <5>3
        <5>4. CASE j = i + 1
          BY <4>1, <4>2, <4>3, <4>5, <5>4
        <5>5. CASE i + 1 < j
          BY <3>1, <4>1, <4>2, <4>3, <4>5, <5>1, <5>5
        <5>6. j < i \/ j = i \/ j = i + 1 \/ i + 1 < j
          BY <2>3, <3>1
        <5> QED  BY <5>2, <5>3, <5>4, <5>5, <5>6
      <4> QED  BY <2>2, <2>3, <4>4, <4>5 DEF Given
    <3> QED  BY <3>2, <3>3
  <2> QED  BY <2>1, <2>3, <2>5, <2>6 DEF Taken
<1> QED  BY <1>1, Invariance, PTL

(* No network, crash or second client makes an acknowledgement lie: with   *)
(* kas-draw it is of the client's own message, with the merchant of one    *)
(* that had its number (send_ack, and the client's wait for it).           *)
THEOREM AckNeverLies == Spec => []AckHonest
<1>1. IInv => AckHonest
  BY DEF IInv, Honest, Heard, AckHonest
<1> QED  BY <1>1, Invariance, PTL

(* What the router accepted reaches the engine (forward and the channel    *)
(* between them), unless the process crashes or the episode was closed.    *)
THEOREM NeverLost == Spec => []NothingLost
<1>1. IInv => NothingLost
  BY DEF IInv
<1> QED  BY <1>1, Invariance, PTL
-----------------------------------------------------------------------------
(* The file and the router.  As long as no two clients had the file open   *)
(* at once, the one that has it open has it as it is, and what the file    *)
(* has of an episode is the last number that a client took.                *)
Filed(c) == Ready(c) /\ client[c].auto

FileOrdered ==
    ~ raced =>
        /\ \A c, d \in Clients : client[c].pc = "read" /\ client[d].pc = "read" => c = d
        /\ \A c \in Clients : client[c].pc = "read" => client[c].auto /\ client[c].file = seq_store
        /\ \A e \in EpisodeIds : seq_store[e] # None =>
              \E c \in Clients : Filed(c) /\ client[c].ep = e /\ client[c].seq = seq_store[e]
        /\ \A c \in Clients : Filed(c) =>
              seq_store[client[c].ep] # None /\ client[c].seq <= seq_store[client[c].ep]

(* As long as no Close was taken, the router remembers the last number *)
NoClose(e) == \A d \in handed : client[d].ep = e => client[d].type # "Close"

Counted ==
    crashes = 0 => \A d \in handed : NoClose(client[d].ep) =>
        /\ last_seq[client[d].ep] # None
        /\ client[d].seq <= last_seq[client[d].ep].seq

LEMMA InitCounted == Init => FileOrdered /\ Counted
BY DEF Init, Idle, Nothing, Filed, Ready, FileOrdered, Counted

(* No step but a client's touches the file or a client *)
LEMMA FileKept ==
  ASSUME FileOrdered, UNCHANGED <<client, seq_store, raced>>
  PROVE  FileOrdered'
BY DEF FileOrdered, Filed, Ready

(* A number is taken from the file as it is, and is above all before it *)
LEMMA WriteOrders ==
  ASSUME Typed, FileOrdered, NEW c \in Clients, WriteSeq(c)
  PROVE  FileOrdered'
<1> SUFFICES ASSUME ~ raced PROVE FileOrdered'
  BY DEF WriteSeq, FileOrdered
<1> DEFINE e == client[c].ep
           n == NextSeq(client[c].file[e], client[c].type)
           s == [client[c] EXCEPT !.pc = "send", !.seq = n, !.file = None]
<1>1. /\ client[c] \in ClientStates /\ client[c].pc = "read" /\ client[c].auto
      /\ client[c].file = seq_store /\ seq_store \in Files /\ e \in EpisodeIds
  BY DEF WriteSeq, Goes, Typed, FileOrdered
<1>2. client' = [client EXCEPT ![c] = s] /\ seq_store' = [client[c].file EXCEPT ![e] = n]
      /\ raced' = raced
  BY DEF WriteSeq
<1>3. n \in Nat /\ n # None /\ (seq_store[e] # None => seq_store[e] \in Nat /\ n = seq_store[e] + 1)
  BY <1>1, NoneAssumption DEF Files, NextSeq
<1> DEFINE f == seq_store'
<1>4. f[e] = n /\ \A g \in EpisodeIds \ {e} : f[g] = seq_store[g]
  BY <1>1, <1>2 DEF Files
<1>5. /\ client'[c] = s /\ \A d \in Clients : d # c => client'[d] = client[d]
      /\ s.pc = "send" /\ s.ep = e /\ s.seq = n /\ s.auto
  BY <1>1, <1>2 DEF Typed, ClientStates, s
<1>6. \A d \in Clients : client'[d].pc # "read"
  <2>1. \A d \in Clients : client[d].pc = "read" => d = c
    BY <1>1 DEF FileOrdered
  <2> QED  BY <1>5, <2>1
<1>7. Filed(c)' /\ ~ Filed(c)
  BY <1>1, <1>5 DEF Filed, Ready
<1>8. \A d \in Clients : d # c => (Filed(d)' <=> Filed(d))
  BY <1>5 DEF Filed, Ready
<1>9. \A d \in Clients : Filed(d) => client[d].ep \in EpisodeIds /\ client[d].seq \in Nat
  BY DEF Filed, Typed
<1> HIDE DEF n, s, e
<1>10. ASSUME NEW g \in EpisodeIds, f[g] # None
       PROVE  \E d \in Clients : Filed(d)' /\ client'[d].ep = g /\ client'[d].seq = f[g]
  <2>1. CASE g = e
    BY <1>4, <1>5, <1>7, <2>1
  <2>2. CASE g # e
    <3>1. f[g] = seq_store[g]
      BY <1>4, <2>2
    <3>2. PICK d \in Clients : Filed(d) /\ client[d].ep = g /\ client[d].seq = seq_store[g]
      BY <1>10, <3>1 DEF FileOrdered
    <3>3. d # c
      BY <1>7, <3>2
    <3> QED  BY <1>5, <1>8, <3>1, <3>2, <3>3
  <2> QED  BY <2>1, <2>2
<1>11. ASSUME NEW d \in Clients, Filed(d)'
       PROVE  f[client'[d].ep] # None /\ client'[d].seq <= f[client'[d].ep]
  <2>1. CASE d = c
    BY <1>3, <1>4, <1>5, <2>1
  <2>2. CASE d # c
    <3>1. Filed(d) /\ client'[d] = client[d]
      BY <1>5, <1>8, <1>11, <2>2
    <3>2. seq_store[client[d].ep] # None /\ client[d].seq <= seq_store[client[d].ep]
      BY <3>1 DEF FileOrdered
    <3>3. client[d].ep \in EpisodeIds /\ client[d].seq \in Nat
      BY <1>9, <3>1
    <3>4. CASE client[d].ep = e
      <4>1. PICK a : a = seq_store[e]
        OBVIOUS
      <4>2. a \in Nat /\ n = a + 1 /\ client[d].seq <= a
        BY <1>3, <3>2, <3>4, <4>1
      <4> QED  BY <1>3, <1>4, <3>1, <3>3, <3>4, <4>2
    <3>5. CASE client[d].ep # e
      BY <1>4, <3>1, <3>2, <3>3, <3>5
    <3> QED  BY <3>4, <3>5
  <2> QED  BY <2>1, <2>2
<1> QED  BY <1>6, <1>10, <1>11 DEF FileOrdered

(* A client that has not got a number yet, or has got it before, changes   *)
(* nothing: the file is read when no other client has it open.             *)
LEMMA ClientOrders ==
  ASSUME Typed, FileOrdered, NEW c \in Clients, ClientAction(c)
  PROVE  FileOrdered'
<1> SUFFICES ASSUME ~ raced' PROVE FileOrdered'
  BY DEF FileOrdered
<1>1. ~ raced
  BY DEF ClientAction, StartAuto, StartForced, ClientStep, WriteSeq, Send, Timeout, ReceiveAck
<1>2. client[c] \in ClientStates
  BY DEF Typed
<1>3. CASE WriteSeq(c)
  BY <1>3, WriteOrders
<1>4. ASSUME NEW s,
             client' = [client EXCEPT ![c] = s], seq_store' = seq_store,
             s.pc = "read" =>
                /\ s.auto /\ s.file = seq_store
                /\ \A d \in Clients : client[d].pc # "read",
             Filed(c)' <=> Filed(c),
             Filed(c) => s.ep = client[c].ep /\ s.seq = client[c].seq
      PROVE  FileOrdered'
  <2>1. client'[c] = s /\ \A d \in Clients : d # c => client'[d] = client[d]
    BY <1>4 DEF Typed
  <2>2. \A d \in Clients : Filed(d)' <=> Filed(d)
    BY <1>4, <2>1 DEF Filed, Ready
  <2>3. \A d \in Clients : Filed(d) =>
           client'[d].ep = client[d].ep /\ client'[d].seq = client[d].seq
    BY <1>4, <2>1
  <2>4. \A a, b \in Clients : client'[a].pc = "read" /\ client'[b].pc = "read" => a = b
    BY <1>1, <1>4, <2>1 DEF FileOrdered
  <2>5. \A a \in Clients : client'[a].pc = "read" => client'[a].auto /\ client'[a].file = seq_store
    BY <1>1, <1>4, <2>1 DEF FileOrdered
  <2>6. \A g \in EpisodeIds : seq_store[g] # None =>
           \E d \in Clients : Filed(d)' /\ client'[d].ep = g /\ client'[d].seq = seq_store[g]
    BY <1>1, <2>2, <2>3 DEF FileOrdered
  <2>7. \A d \in Clients : Filed(d)' =>
           seq_store[client'[d].ep] # None /\ client'[d].seq <= seq_store[client'[d].ep]
    BY <1>1, <2>2, <2>3 DEF FileOrdered
  <2> QED  BY <1>4, <2>4, <2>5, <2>6, <2>7 DEF FileOrdered
<1>5. ASSUME NEW type \in Types, NEW ep \in EpisodeIds, StartAuto(c, type, ep)
      PROVE  FileOrdered'
  <2> DEFINE s == [Idle EXCEPT !.pc = "read", !.type = type, !.ep = ep,
                               !.auto = TRUE, !.file = seq_store]
  <2>1. client' = [client EXCEPT ![c] = s] /\ seq_store' = seq_store /\ client[c].pc = "idle"
        /\ \A d \in Clients : client[d].pc # "read"
    BY <1>5 DEF StartAuto, Goes
  <2>2. s.pc = "read" /\ s.auto /\ s.file = seq_store
    BY DEF Idle
  <2> HIDE DEF s
  <2>3. client'[c] = s
    BY <2>1 DEF Typed
  <2>4. ~ Filed(c) /\ ~ Filed(c)'
    BY <2>1, <2>2, <2>3 DEF Filed, Ready
  <2> QED  BY <1>4, <2>1, <2>2, <2>4
<1>6. ASSUME NEW type \in Types, NEW ep \in EpisodeIds, NEW seq \in Seqs,
             StartForced(c, type, ep, seq)
      PROVE  FileOrdered'
  <2> DEFINE s == [Idle EXCEPT !.pc = "send", !.type = type, !.ep = ep, !.seq = seq]
  <2>1. client' = [client EXCEPT ![c] = s] /\ seq_store' = seq_store /\ client[c].pc = "idle"
    BY <1>6 DEF StartForced, Goes
  <2>2. s.pc = "send" /\ s.auto = FALSE
    BY DEF Idle
  <2> HIDE DEF s
  <2>3. client'[c] = s
    BY <2>1 DEF Typed
  <2>4. ~ Filed(c) /\ ~ Filed(c)'
    BY <2>1, <2>2, <2>3 DEF Filed, Ready
  <2> QED  BY <1>4, <2>1, <2>2, <2>4
<1>7. CASE Send(c)
  <2> DEFINE n == client[c].tries + 1
             s == [client[c] EXCEPT !.pc = "wait", !.tries = n]
  <2>1. client' = [client EXCEPT ![c] = s] /\ seq_store' = seq_store /\ client[c].pc = "send"
    BY <1>7 DEF Send, Goes
  <2> HIDE DEF n
  <2>2. /\ s.pc = "wait" /\ s.auto = client[c].auto
        /\ s.ep = client[c].ep /\ s.seq = client[c].seq
    BY <1>2 DEF ClientStates
  <2> HIDE DEF s
  <2>3. client'[c] = s
    BY <2>1 DEF Typed
  <2>4. Filed(c)' <=> Filed(c)
    BY <2>1, <2>2, <2>3 DEF Filed, Ready
  <2> QED  BY <1>4, <2>1, <2>2, <2>4
<1>8. ASSUME NEW next \in {"send", "acked", "failed"}, client[c].pc = "wait",
             client' = [client EXCEPT ![c].pc = next], seq_store' = seq_store
      PROVE  FileOrdered'
  <2> DEFINE s == [client[c] EXCEPT !.pc = next]
  <2>1. client' = [client EXCEPT ![c] = s]
    BY <1>8
  <2>2. /\ s.pc = next /\ s.auto = client[c].auto
        /\ s.ep = client[c].ep /\ s.seq = client[c].seq
    BY <1>2 DEF ClientStates
  <2> HIDE DEF s
  <2>3. client'[c] = s
    BY <2>1 DEF Typed
  <2>4. Filed(c)' <=> Filed(c)
    BY <1>8, <2>2, <2>3 DEF Filed, Ready
  <2> QED  BY <1>4, <1>8, <2>1, <2>2, <2>4
<1>9. CASE Timeout(c)
  BY <1>8, <1>9 DEF Timeout, Goes
<1>10. ASSUME NEW a \in acks, ReceiveAck(c, a) PROVE FileOrdered'
  BY <1>8, <1>10 DEF ReceiveAck, Goes
<1> QED  BY <1>3, <1>5, <1>6, <1>7, <1>9, <1>10 DEF ClientAction, ClientStep

(* The router takes a number after all that it took before *)
LEMMA AcceptCounts ==
  ASSUME IInv, Counted, NEW m \in net, AcceptMessage(m)
  PROVE  Counted'
<1> DEFINE e == m.ep
<1>1. /\ m.from \in Clients /\ client[m.from].ep = e /\ client[m.from].seq = m.seq
      /\ client[m.from].type = m.type
      /\ e \in EpisodeIds /\ m.seq \in Nat
  BY DEF IInv, Genuine, Typed, Message
<1>2. /\ client' = client /\ crashes' = crashes /\ handed' = handed \cup {m.from}
      /\ last_seq' = [last_seq EXCEPT ![e] = Remembered(m)]
  BY DEF AcceptMessage, clientVars
<1>3. /\ last_seq'[e] = Remembered(m)
      /\ \A g \in EpisodeIds : g # e => last_seq'[g] = last_seq[g]
  BY <1>1, <1>2 DEF IInv, Typed
<1>4. \A d \in handed : client[d].ep \in EpisodeIds /\ client[d].seq \in Nat
  BY DEF IInv, Genuine, Typed
<1> SUFFICES ASSUME crashes = 0, NEW d \in handed \cup {m.from}, NoClose(client[d].ep)'
             PROVE  /\ last_seq'[client[d].ep] # None
                    /\ client[d].seq <= last_seq'[client[d].ep].seq
  BY <1>2 DEF Counted
<1>5. NoClose(client[d].ep)
  BY <1>2 DEF NoClose
<1>6. CASE client[d].ep # e
  BY <1>1, <1>2, <1>3, <1>4, <1>5, <1>6 DEF Counted
<1>7. CASE client[d].ep = e
  <2>1. m.type # "Close"
    BY <1>1, <1>2, <1>7 DEF NoClose
  <2>2. Remembered(m) \in SeqStates /\ Remembered(m).seq = m.seq
    BY <1>1, <2>1 DEF Remembered, SeqStates, AckType
  <2>3. last_seq'[e] # None /\ last_seq'[e].seq = m.seq
    BY <1>3, <2>2, NoneAssumption
  <2>4. CASE d = m.from
    BY <1>1, <2>3, <2>4
  <2>5. CASE d \in handed
    <3>1. last_seq[e] # None /\ client[d].seq <= last_seq[e].seq
      BY <1>5, <1>7, <2>5 DEF Counted
    <3>2. last_seq[e].seq \in Nat
      BY <1>1, <3>1 DEF IInv, Typed, SeqStates
    <3>3. m.seq = last_seq[e].seq + 1
      BY <3>1 DEF AcceptMessage, InOrder
    <3> QED  BY <1>4, <1>7, <2>3, <2>5, <3>1, <3>2, <3>3
  <2> QED  BY <2>4, <2>5
<1> QED  BY <1>6, <1>7

LEMMA CountedStep ==
  ASSUME IInv, FileOrdered, Counted, [Next]_vars
  PROVE  FileOrdered' /\ Counted'
<1>1. ASSUME NEW c \in Clients, ClientAction(c) PROVE FileOrdered' /\ Counted'
  <2>1. FileOrdered'
    BY <1>1, ClientOrders DEF IInv
  <2>2. /\ \A d \in Clients : Ready(d) =>
              /\ client'[d].type = client[d].type
              /\ client'[d].ep = client[d].ep /\ client'[d].seq = client[d].seq
        /\ UNCHANGED <<last_seq, handed, crashes>>
    BY <1>1, ClientKeeps DEF IInv
  <2>3. \A d \in handed : d \in Clients /\ Ready(d)
    BY DEF IInv, Genuine
  <2>4. \A e : NoClose(e)' <=> NoClose(e)
    BY <2>2, <2>3 DEF NoClose
  <2> QED  BY <2>1, <2>2, <2>3, <2>4 DEF Counted
<1>2. ASSUME UNCHANGED <<client, seq_store, raced, last_seq, handed, crashes>>
      PROVE  FileOrdered' /\ Counted'
  BY <1>2, FileKept DEF Counted, NoClose
<1>3. ASSUME NEW m \in net, AcceptMessage(m) PROVE FileOrdered' /\ Counted'
  <2>1. UNCHANGED <<client, seq_store, raced>>
    BY <1>3 DEF AcceptMessage, clientVars
  <2> QED  BY <1>3, <2>1, FileKept, AcceptCounts
<1>4. ASSUME NEW m \in net, RepeatAck(m) PROVE FileOrdered' /\ Counted'
  BY <1>2, <1>4 DEF RepeatAck, clientVars, routerVars
<1>5. CASE Crash
  <2>1. UNCHANGED <<client, seq_store, raced>> /\ crashes' = crashes + 1 /\ crashes \in Nat
    BY <1>5 DEF Crash, clientVars, IInv, Typed
  <2>2. crashes' # 0
    BY <2>1
  <2> QED  BY <2>1, <2>2, FileKept DEF Counted
<1>6. CASE ExecuteMessage
  BY <1>2, <1>6 DEF ExecuteMessage, clientVars, routerVars
<1>7. CASE UNCHANGED vars
  BY <1>2, <1>7 DEF vars, clientVars, routerVars
<1> QED  BY <1>1, <1>3, <1>4, <1>5, <1>6, <1>7 DEF Next, Route, ClientAction

(* The file that all commands of kas-draw share and the router's memory    *)
(* agree on the number of every episode (auto_seq and process_message),    *)
(* after any history in which every client took its number from the file   *)
(* and was answered, none closed an episode, no two had the file open at   *)
(* once, and the router never crashed.                                     *)
THEOREM FileInStep == Spec => []InStep
<1>1. IInv /\ FileOrdered /\ Counted => InStep
  <2> SUFFICES ASSUME IInv, FileOrdered, Counted, crashes = 0, ~ raced,
                      \A c \in Clients : Regular(c), NEW e \in EpisodeIds
               PROVE  seq_store[e] = IF last_seq[e] = None THEN None ELSE last_seq[e].seq
    BY DEF InStep
  <2>1. \A c \in Clients : Ready(c) =>
           client[c].pc = "acked" /\ Filed(c) /\ client[c].type # "Close"
    BY DEF Regular, Filed, Ready
  <2>2. \A d \in handed : /\ d \in Clients /\ Filed(d) /\ client[d].type # "Close"
                          /\ client[d].ep \in EpisodeIds /\ client[d].seq \in Nat
    BY <2>1 DEF IInv, Genuine, Typed
  <2>3. ASSUME last_seq[e] # None
        PROVE  /\ seq_store[e] # None /\ last_seq[e].seq <= seq_store[e]
               /\ last_seq[e].seq \in Nat
    <3>1. PICK d \in handed : client[d].ep = e /\ client[d].seq = last_seq[e].seq
      BY <2>3 DEF IInv, Honest
    <3>2. d \in Clients /\ Filed(d) /\ client[d].seq \in Nat
      BY <2>2
    <3> QED  BY <3>1, <3>2 DEF FileOrdered
  <2>4. ASSUME seq_store[e] # None
        PROVE  /\ last_seq[e] # None /\ seq_store[e] <= last_seq[e].seq
               /\ seq_store[e] \in Nat
    <3>1. PICK c \in Clients : Filed(c) /\ client[c].ep = e /\ client[c].seq = seq_store[e]
      BY <2>4 DEF FileOrdered
    <3>2. Heard(c, e, seq_store[e])
      BY <2>1, <3>1 DEF IInv, Honest, Filed
    <3>3. PICK d \in handed : client[d].ep = e /\ client[d].seq = seq_store[e]
      BY <3>2 DEF Heard
    <3>4. NoClose(e) /\ client[d].seq \in Nat
      BY <2>2 DEF NoClose
    <3> QED  BY <3>3, <3>4 DEF Counted
  <2> QED  BY <2>3, <2>4
<1>2. Init => IInv /\ FileOrdered /\ Counted
  BY InitGood, InitCounted
<1>3. IInv /\ FileOrdered /\ Counted /\ [Next]_vars => (IInv /\ FileOrdered /\ Counted)'
  BY StepGood, CountedStep
<1> QED  BY <1>1, <1>2, <1>3, PTL DEF Spec
=============================================================================
