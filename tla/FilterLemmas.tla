---------------------------- MODULE FilterLemmas ----------------------------
(***************************************************************************)
(* What the operators of Filters return, and the induction over natural    *)
(* numbers and lengths that the proofs about them rest on.                 *)
(***************************************************************************)
EXTENDS Filters, SequencesExt, SequenceTheorems, FiniteSetTheorems, WellFoundedInduction, TLAPS

(* Every set of natural numbers has a least element. *)
LEMMA LeastNatural ==
  ASSUME NEW T \in SUBSET Nat, T # {}
  PROVE  \E k \in T : \A j \in T : k <= j
<1> DEFINE R == OpToRel(<, Nat)
<1>1. IsWellFoundedOn(R, Nat)
  BY NatLessThanWellFounded
<1>2. \A j, k \in Nat : <<j, k>> \in R <=> j < k
  BY DEF OpToRel
<1> HIDE DEF R
<1>3. \E k \in T : \A j \in T : ~ (<<j, k>> \in R)
  BY <1>1, WFMin
<1>4. \A j, k \in Nat : ~ (j < k) => k <= j
  OBVIOUS
<1> QED
  BY <1>2, <1>3, <1>4

(* Induction over the natural numbers, for a set of them *)
LEMMA SetInduction ==
  ASSUME NEW A, 0 \in A, \A n \in Nat : n \in A => n + 1 \in A
  PROVE  \A n \in Nat : n \in A
<1> DEFINE B == Nat \ A
<1>1. SUFFICES ASSUME B # {} PROVE FALSE
  OBVIOUS
<1>2. PICK k \in B : \A j \in B : k <= j
  <2>1. B \in SUBSET Nat
    OBVIOUS
  <2> QED  BY <1>1, <2>1, LeastNatural
<1>3. k - 1 \in Nat /\ ~ (k <= k - 1)
  BY <1>2
<1>4. k - 1 \in A
  BY <1>2, <1>3
<1>5. (k - 1) + 1 = k
  BY <1>2
<1> QED  BY <1>2, <1>3, <1>4, <1>5

-----------------------------------------------------------------------------
(* The function is what its definition says: it exists for every sequence, *)
(* by induction on the length.                                             *)
LEMMA KeptSteps ==
  ASSUME NEW s, Len(s) \in Nat, NEW T
  PROVE  /\ Sifted(s, T)[0] = <<>>
         /\ \A i \in 1 .. Len(s) :
               Sifted(s, T)[i] = IF s[i] \in T THEN Append(Sifted(s, T)[i - 1], s[i])
                               ELSE Sifted(s, T)[i - 1]
<1> DEFINE N == Len(s)
           Good(f, k) ==
              f = [i \in 0 .. k |->
                     IF i = 0 THEN <<>>
                     ELSE IF s[i] \in T THEN Append(f[i - 1], s[i]) ELSE f[i - 1]]
           A == {k \in Nat : \E f : Good(f, k)}
<1>1. Good([i \in 0 .. 0 |-> <<>>], 0)
  OBVIOUS
<1>2. ASSUME NEW k \in Nat, NEW f, Good(f, k)
      PROVE  \E g : Good(g, k + 1)
  <2> DEFINE last == IF s[k + 1] \in T THEN Append(f[k], s[k + 1]) ELSE f[k]
             g == [i \in 0 .. k + 1 |-> IF i = k + 1 THEN last ELSE f[i]]
  <2>1. k + 1 \in Nat /\ k + 1 # 0 /\ k \in 0 .. k + 1 /\ k # k + 1 /\ (k + 1) - 1 = k
    OBVIOUS
  <2>2. g[0] = f[0] /\ f[0] = <<>>
    BY <1>2, <2>1
  <2>3. ASSUME NEW i \in 0 .. k + 1, i # 0, i # k + 1
        PROVE  g[i] = IF s[i] \in T THEN Append(g[i - 1], s[i]) ELSE g[i - 1]
    <3>1. i \in 0 .. k /\ i - 1 \in 0 .. k + 1 /\ i - 1 # k + 1
      BY <2>3
    <3>2. g[i] = f[i] /\ g[i - 1] = f[i - 1]
      BY <2>3, <3>1
    <3>3. f[i] = IF s[i] \in T THEN Append(f[i - 1], s[i]) ELSE f[i - 1]
      BY <1>2, <2>3, <3>1
    <3> QED  BY <3>2, <3>3
  <2>4. g[k + 1] = IF s[k + 1] \in T THEN Append(g[(k + 1) - 1], s[k + 1]) ELSE g[(k + 1) - 1]
    BY <2>1
  <2>5. g = [i \in 0 .. k + 1 |-> g[i]]
    OBVIOUS
  <2> HIDE DEF g
  <2>6. \A i \in 0 .. k + 1 :
           g[i] = IF i = 0 THEN <<>>
                  ELSE IF s[i] \in T THEN Append(g[i - 1], s[i]) ELSE g[i - 1]
    BY <2>2, <2>3, <2>4
  <2> QED  BY <2>5, <2>6
<1>3. 0 \in A
  BY <1>1
<1>4. ASSUME NEW k \in Nat, k \in A PROVE k + 1 \in A
  <2>1. PICK f : Good(f, k)
    BY <1>4
  <2>2. \E g : Good(g, k + 1)
    BY <1>2, <2>1
  <2> QED  BY <2>2
<1>5. N \in A
  <2> HIDE DEF A
  <2> QED  BY <1>3, <1>4, SetInduction
<1>6. \E f : Good(f, N)
  BY <1>5
<1>7. Good(Sifted(s, T), N)
  BY <1>6 DEF Sifted
<1>8. \A i \in 0 .. N :
         Sifted(s, T)[i] = IF i = 0 THEN <<>>
                         ELSE IF s[i] \in T THEN Append(Sifted(s, T)[i - 1], s[i])
                              ELSE Sifted(s, T)[i - 1]
  BY <1>7
<1> QED
  BY <1>8

(* Keep, one element after the other *)
LEMMA KeepEmpty == \A T : Keep(<<>>, T) = <<>>
BY KeptSteps DEF Keep

LEMMA KeepAppend ==
  ASSUME NEW S, NEW s \in Seq(S), NEW x, NEW T
  PROVE  Keep(Append(s, x), T) = IF x \in T THEN Append(Keep(s, T), x) ELSE Keep(s, T)
<1> DEFINE t == Append(s, x)
           A == {i \in Nat : i <= Len(s) => Sifted(t, T)[i] = Sifted(s, T)[i]}
<1>1. /\ Len(s) \in Nat /\ Len(t) = Len(s) + 1 /\ Len(t) \in Nat
      /\ t[Len(s) + 1] = x
      /\ \A i \in 1 .. Len(s) : t[i] = s[i]
  <2>1. s \in Seq(S \cup {x}) /\ x \in S \cup {x}
    BY SeqMonotonic
  <2> QED  BY <2>1, AppendProperties, LenProperties
<1> HIDE DEF t
<1>2. 0 \in A
  BY <1>1, KeptSteps
<1>3. ASSUME NEW i \in Nat, i \in A PROVE i + 1 \in A
  <2>1. SUFFICES ASSUME i + 1 <= Len(s) PROVE Sifted(t, T)[i + 1] = Sifted(s, T)[i + 1]
    OBVIOUS
  <2>2. i + 1 \in 1 .. Len(s) /\ i + 1 \in 1 .. Len(t) /\ (i + 1) - 1 = i /\ i <= Len(s)
    BY <1>1, <2>1
  <2>3. Sifted(t, T)[i] = Sifted(s, T)[i] /\ t[i + 1] = s[i + 1]
    BY <1>1, <1>3, <2>2
  <2>4. Sifted(t, T)[i + 1] = IF t[i + 1] \in T THEN Append(Sifted(t, T)[i], t[i + 1])
                           ELSE Sifted(t, T)[i]
    BY <1>1, <2>2, KeptSteps
  <2>5. Sifted(s, T)[i + 1] = IF s[i + 1] \in T THEN Append(Sifted(s, T)[i], s[i + 1])
                           ELSE Sifted(s, T)[i]
    BY <1>1, <2>2, KeptSteps
  <2> QED  BY <2>3, <2>4, <2>5
<1>4. Len(s) \in A
  <2> HIDE DEF A
  <2> QED  BY <1>1, <1>2, <1>3, SetInduction
<1>5. Sifted(t, T)[Len(s)] = Sifted(s, T)[Len(s)]
  BY <1>1, <1>4
<1>6. Len(t) \in 1 .. Len(t) /\ Len(t) - 1 = Len(s)
  BY <1>1
<1>7. Sifted(t, T)[Len(t)] = IF t[Len(t)] \in T THEN Append(Sifted(t, T)[Len(t) - 1], t[Len(t)])
                          ELSE Sifted(t, T)[Len(t) - 1]
  BY <1>1, <1>6, KeptSteps
<1> QED
  BY <1>1, <1>5, <1>6, <1>7 DEF Keep, t

(* Every sequence is the empty one or one to which an element was appended, *)
(* which is how the lemmas below are proved, by induction on the length.    *)
LEMMA FrontLast ==
  ASSUME NEW S, NEW s \in Seq(S), s # <<>>
  PROVE  /\ Front(s) \in Seq(S) /\ Last(s) \in S
         /\ s = Append(Front(s), Last(s))
         /\ Len(s) \in Nat \ {0} /\ Len(Front(s)) = Len(s) - 1
         /\ Last(s) = s[Len(s)]
         /\ \A i \in 1 .. Len(s) - 1 : Front(s)[i] = s[i]
<1>1. Len(s) \in Nat \ {0} /\ Len(s) - 1 \in Nat /\ Len(s) \in 1 .. Len(s)
  BY EmptySeq
<1>2. \A i \in 1 .. Len(s) : s[i] \in S
  BY ElementOfSeq
<1>3. Front(s) \in Seq(S) /\ Len(Front(s)) = Len(s) - 1
      /\ \A i \in 1 .. Len(s) - 1 : Front(s)[i] = s[i]
  <2>1. \A i \in 1 .. Len(s) - 1 : s[i] \in S
    BY <1>1, <1>2
  <2>2. /\ SubSeq(s, 1, Len(s) - 1) \in Seq(S)
        /\ Len(SubSeq(s, 1, Len(s) - 1)) =
              IF 1 <= Len(s) - 1 THEN (Len(s) - 1) - 1 + 1 ELSE 0
        /\ \A i \in 1 .. (Len(s) - 1) - 1 + 1 : SubSeq(s, 1, Len(s) - 1)[i] = s[1 + i - 1]
    BY <1>1, <2>1, SubSeqProperties
  <2>3. (Len(s) - 1) - 1 + 1 = Len(s) - 1 /\ \A i \in 1 .. Len(s) - 1 : 1 + i - 1 = i
    BY <1>1
  <2>4. Front(s) = SubSeq(s, 1, Len(s) - 1)
    BY DEF Front
  <2>5. Len(Front(s)) = Len(s) - 1
    <3>1. Len(s) - 1 = 0 \/ 1 <= Len(s) - 1
      <4>1. \A n \in Nat : n = 0 \/ 1 <= n
        OBVIOUS
      <4> QED  BY <1>1, <4>1
    <3> QED  BY <1>1, <2>2, <2>3, <2>4, <3>1
  <2>6. \A i \in 1 .. Len(s) - 1 : Front(s)[i] = s[i]
    BY <2>2, <2>3, <2>4
  <2> QED  BY <2>2, <2>4, <2>5, <2>6
<1>4. Last(s) = s[Len(s)] /\ Last(s) \in S
  BY <1>1, <1>2 DEF Last
<1>5. s = Append(Front(s), Last(s))
  <2> DEFINE f == Front(s)
             z == Last(s)
             t == Append(f, z)
  <2>1. f \in Seq(S) /\ z \in S
    BY <1>3, <1>4
  <2>2. /\ t \in Seq(S) /\ Len(t) = Len(f) + 1
        /\ \A i \in 1 .. Len(f) : t[i] = f[i]
        /\ t[Len(f) + 1] = z
    <3> HIDE DEF f, z
    <3> QED  BY <2>1, AppendProperties
  <2>3. Len(t) = Len(s)
    BY <1>1, <1>3, <2>2
  <2>4. \A i \in 1 .. Len(s) : s[i] = t[i]
    BY <1>1, <1>3, <1>4, <2>2
  <2> HIDE DEF t
  <2>5. s = t
    BY <2>2, <2>3, <2>4, SeqEqual
  <2> QED  BY <2>5 DEF t
<1> QED  BY <1>1, <1>3, <1>4, <1>5

(* Induction over sequences, for a set of them *)
LEMMA SeqInduction ==
  ASSUME NEW S, NEW A, <<>> \in A,
         \A s \in Seq(S), x \in S : s \in A => Append(s, x) \in A
  PROVE  \A s \in Seq(S) : s \in A
<1> DEFINE B == {n \in Nat : \A s \in Seq(S) : Len(s) = n => s \in A}
<1>1. 0 \in B
  BY EmptySeq
<1>2. ASSUME NEW n \in Nat, n \in B PROVE n + 1 \in B
  <2>1. SUFFICES ASSUME NEW s \in Seq(S), Len(s) = n + 1 PROVE s \in A
    OBVIOUS
  <2>2. s # <<>>
    BY <2>1, EmptySeq
  <2>3. Front(s) \in Seq(S) /\ Last(s) \in S /\ s = Append(Front(s), Last(s))
        /\ Len(Front(s)) = n
    BY <2>1, <2>2, FrontLast
  <2>4. Front(s) \in A
    BY <1>2, <2>3
  <2> QED  BY <2>3, <2>4
<1>3. \A n \in Nat : n \in B
  <2> HIDE DEF B
  <2> QED  BY <1>1, <1>2, SetInduction
<1> QED  BY <1>3, LenProperties

-----------------------------------------------------------------------------
(* What is kept is in T, was there, and is no more than there was. *)
LEMMA KeepSeq ==
  ASSUME NEW S, NEW s \in Seq(S), NEW T
  PROVE  /\ Keep(s, T) \in Seq(S) /\ Keep(s, T) \in Seq(S \cap T)
         /\ Len(Keep(s, T)) \in Nat /\ Len(Keep(s, T)) <= Len(s)
<1> DEFINE A == {t \in Seq(S) : Keep(t, T) \in Seq(S \cap T) /\ Len(Keep(t, T)) <= Len(t)}
<1>1. <<>> \in A
  <2>1. <<>> \in Seq(S) /\ <<>> \in Seq(S \cap T) /\ Len(<<>>) = 0
    BY EmptySeq
  <2>2. Keep(<<>>, T) = <<>>
    BY KeepEmpty
  <2>3. Keep(<<>>, T) \in Seq(S \cap T)
    BY <2>1, <2>2
  <2>4. Len(Keep(<<>>, T)) <= Len(<<>>)
    <3>1. \A z : z = <<>> => Len(z) <= Len(z)
      <4>1. 0 <= 0
        OBVIOUS
      <4> QED  BY <2>1, <4>1
    <3> QED  BY <2>2, <3>1
  <2> QED  BY <2>1, <2>3, <2>4
<1>2. ASSUME NEW t \in Seq(S), NEW x \in S, t \in A PROVE Append(t, x) \in A
  <2>1. /\ Append(t, x) \in Seq(S) /\ Len(Append(t, x)) = Len(t) + 1 /\ Len(t) \in Nat
    BY AppendProperties, LenProperties
  <2>2. Keep(t, T) \in Seq(S \cap T) /\ Len(Keep(t, T)) <= Len(t) /\ Len(Keep(t, T)) \in Nat
    BY <1>2, LenProperties
  <2>3. CASE x \in T
    <3>1. Keep(Append(t, x), T) = Append(Keep(t, T), x)
      BY <2>3, KeepAppend
    <3>2. Append(Keep(t, T), x) \in Seq(S \cap T) /\ Len(Append(Keep(t, T), x)) = Len(Keep(t, T)) + 1
      BY <2>2, <2>3, AppendProperties
    <3> QED  BY <2>1, <2>2, <3>1, <3>2
  <2>4. CASE x \notin T
    <3>1. Keep(Append(t, x), T) = Keep(t, T)
      BY <2>4, KeepAppend
    <3> QED  BY <2>1, <2>2, <3>1
  <2> QED  BY <2>3, <2>4
<1>3. s \in A
  <2> HIDE DEF A
  <2> QED  BY <1>1, <1>2, SeqInduction
<1>4. Keep(s, T) \in Seq(S \cap T) /\ Len(Keep(s, T)) <= Len(s)
  BY <1>3
<1>5. Keep(s, T) \in Seq(S)
  BY <1>4, SeqMonotonic
<1> QED  BY <1>4, <1>5, LenProperties

(* Two sets that agree on the elements of a sequence keep the same of it. *)
LEMMA KeepAgree ==
  ASSUME NEW S, NEW s \in Seq(S), NEW T, NEW U,
         \A i \in 1 .. Len(s) : s[i] \in T <=> s[i] \in U
  PROVE  Keep(s, T) = Keep(s, U)
<1> DEFINE A == {t \in Seq(S) :
                   (\A i \in 1 .. Len(t) : t[i] \in T <=> t[i] \in U) => Keep(t, T) = Keep(t, U)}
<1>1. <<>> \in A
  BY KeepEmpty, EmptySeq
<1>2. ASSUME NEW t \in Seq(S), NEW x \in S, t \in A PROVE Append(t, x) \in A
  <2>1. /\ Append(t, x) \in Seq(S) /\ Len(Append(t, x)) = Len(t) + 1 /\ Len(t) \in Nat
        /\ \A i \in 1 .. Len(t) : Append(t, x)[i] = t[i]
        /\ Append(t, x)[Len(t) + 1] = x
    BY AppendProperties, LenProperties
  <2>2. SUFFICES ASSUME \A i \in 1 .. Len(Append(t, x)) :
                           Append(t, x)[i] \in T <=> Append(t, x)[i] \in U
                 PROVE  Keep(Append(t, x), T) = Keep(Append(t, x), U)
    BY <2>1
  <2>3. \A i \in 1 .. Len(t) : i \in 1 .. Len(Append(t, x))
    BY <2>1
  <2>4. Len(t) + 1 \in 1 .. Len(Append(t, x))
    BY <2>1
  <2>5. Keep(t, T) = Keep(t, U)
    BY <1>2, <2>1, <2>2, <2>3
  <2>6. x \in T <=> x \in U
    BY <2>1, <2>2, <2>4
  <2>7. /\ Keep(Append(t, x), T) = IF x \in T THEN Append(Keep(t, T), x) ELSE Keep(t, T)
        /\ Keep(Append(t, x), U) = IF x \in U THEN Append(Keep(t, U), x) ELSE Keep(t, U)
    BY KeepAppend
  <2> QED  BY <2>5, <2>6, <2>7
<1>3. s \in A
  <2> HIDE DEF A
  <2> QED  BY <1>1, <1>2, SeqInduction
<1> QED  BY <1>3

(* Everything is kept, or nothing. *)
LEMMA KeepAll ==
  ASSUME NEW S, NEW s \in Seq(S), NEW T, \A i \in 1 .. Len(s) : s[i] \in T
  PROVE  Keep(s, T) = s
<1> DEFINE A == {t \in Seq(S) : Keep(t, S) = t}
<1>1. <<>> \in A
  BY KeepEmpty, EmptySeq
<1>2. ASSUME NEW t \in Seq(S), NEW x \in S, t \in A PROVE Append(t, x) \in A
  BY <1>2, KeepAppend, AppendProperties
<1>3. s \in A
  <2> HIDE DEF A
  <2> QED  BY <1>1, <1>2, SeqInduction
<1>4. \A i \in 1 .. Len(s) : s[i] \in T <=> s[i] \in S
  BY ElementOfSeq
<1>5. Keep(s, T) = Keep(s, S)
  BY <1>4, KeepAgree
<1> QED  BY <1>3, <1>5

LEMMA KeepNone ==
  ASSUME NEW S, NEW s \in Seq(S), NEW T, \A i \in 1 .. Len(s) : s[i] \notin T
  PROVE  Keep(s, T) = <<>>
<1> DEFINE A == {t \in Seq(S) : Keep(t, {}) = <<>>}
<1>1. <<>> \in A
  BY KeepEmpty, EmptySeq
<1>2. ASSUME NEW t \in Seq(S), NEW x \in S, t \in A PROVE Append(t, x) \in A
  BY <1>2, KeepAppend, AppendProperties
<1>3. s \in A
  <2> HIDE DEF A
  <2> QED  BY <1>1, <1>2, SeqInduction
<1>4. Keep(s, T) = Keep(s, {})
  BY KeepAgree
<1> QED  BY <1>3, <1>4

(* What is kept of what was kept *)
LEMMA KeepKeep ==
  ASSUME NEW S, NEW s \in Seq(S), NEW T, NEW U
  PROVE  Keep(Keep(s, T), U) = Keep(s, T \cap U)
<1> DEFINE A == {t \in Seq(S) : Keep(Keep(t, T), U) = Keep(t, T \cap U)}
<1>1. <<>> \in A
  BY KeepEmpty, EmptySeq
<1>2. ASSUME NEW t \in Seq(S), NEW x \in S, t \in A PROVE Append(t, x) \in A
  <2>1. Append(t, x) \in Seq(S) /\ Keep(t, T) \in Seq(S)
    BY AppendProperties, KeepSeq
  <2>2. CASE x \in T
    <3>1. Keep(Append(t, x), T) = Append(Keep(t, T), x)
      BY <2>2, KeepAppend
    <3>2. Keep(Append(Keep(t, T), x), U) =
             IF x \in U THEN Append(Keep(Keep(t, T), U), x) ELSE Keep(Keep(t, T), U)
      BY <2>1, KeepAppend
    <3>3. Keep(Append(t, x), T \cap U) =
             IF x \in U THEN Append(Keep(t, T \cap U), x) ELSE Keep(t, T \cap U)
      BY <2>2, KeepAppend
    <3>4. Keep(Keep(t, T), U) = Keep(t, T \cap U)
      BY <1>2
    <3>5. Keep(Keep(Append(t, x), T), U) = Keep(Append(t, x), T \cap U)
      BY <3>1, <3>2, <3>3, <3>4
    <3> QED  BY <2>1, <3>5
  <2>3. CASE x \notin T
    <3>1. Keep(Append(t, x), T) = Keep(t, T) /\ Keep(Append(t, x), T \cap U) = Keep(t, T \cap U)
      BY <2>3, KeepAppend
    <3> QED  BY <1>2, <2>1, <3>1
  <2> QED  BY <2>2, <2>3
<1>3. s \in A
  <2> HIDE DEF A
  <2> QED  BY <1>1, <1>2, SeqInduction
<1> QED  BY <1>3

(* An element is kept exactly if it was there and is in T. *)
LEMMA KeepMembers ==
  ASSUME NEW S, NEW s \in Seq(S), NEW T, NEW y
  PROVE  Contains(Keep(s, T), y) <=> y \in T /\ Contains(s, y)
<1> DEFINE Has(t) == \E i \in 1 .. Len(t) : t[i] = y
           A == {t \in Seq(S) : Has(Keep(t, T)) <=> (y \in T /\ Has(t))}
<1>1. <<>> \in A
  BY KeepEmpty, EmptySeq
<1>2. ASSUME NEW t \in Seq(S), NEW x \in S PROVE Has(Append(t, x)) <=> (Has(t) \/ x = y)
  <2>1. /\ Len(Append(t, x)) = Len(t) + 1 /\ Len(t) \in Nat
        /\ \A i \in 1 .. Len(t) : Append(t, x)[i] = t[i]
        /\ Append(t, x)[Len(t) + 1] = x
    BY AppendProperties, LenProperties
  <2>2. /\ \A i : i \in 1 .. Len(Append(t, x)) <=> i \in 1 .. Len(t) \/ i = Len(t) + 1
    BY <2>1
  <2> QED  BY <2>1, <2>2
<1>3. ASSUME NEW t \in Seq(S), NEW x \in S, t \in A PROVE Append(t, x) \in A
  <2>1. Append(t, x) \in Seq(S) /\ Keep(t, T) \in Seq(S)
    BY AppendProperties, KeepSeq
  <2>2. Keep(Append(t, x), T) = IF x \in T THEN Append(Keep(t, T), x) ELSE Keep(t, T)
    BY KeepAppend
  <2>3. /\ Has(Append(t, x)) <=> (Has(t) \/ x = y)
        /\ Has(Append(Keep(t, T), x)) <=> (Has(Keep(t, T)) \/ x = y)
    BY <1>2, <2>1
  <2>4. Has(Keep(t, T)) <=> (y \in T /\ Has(t))
    BY <1>3
  <2> HIDE DEF Has
  <2>5. Has(Keep(Append(t, x), T)) <=> (y \in T /\ Has(Append(t, x)))
    BY <2>2, <2>3, <2>4
  <2> QED  BY <2>1, <2>5
<1>4. s \in A
  <2> HIDE DEF A
  <2> QED  BY <1>1, <1>3, SeqInduction
<1> QED  BY <1>4 DEF Contains

(* What is kept of one sequence after another *)
LEMMA KeepConcat ==
  ASSUME NEW S, NEW r \in Seq(S), NEW s \in Seq(S), NEW T
  PROVE  Keep(r \o s, T) = Keep(r, T) \o Keep(s, T)
<1> DEFINE A == {t \in Seq(S) : Keep(r \o t, T) = Keep(r, T) \o Keep(t, T)}
<1>0. Keep(r, T) \in Seq(S)
  BY KeepSeq
<1>1. <<>> \in A
  BY <1>0, KeepEmpty, EmptySeq, ConcatEmptySeq
<1>2. ASSUME NEW a \in Seq(S), NEW b \in Seq(S), NEW x \in S
      PROVE  a \o Append(b, x) = Append(a \o b, x)
  <2>1. /\ Append(b, x) \in Seq(S) /\ a \o b \in Seq(S) /\ <<x>> \in Seq(S)
        /\ Append(b, x) = b \o <<x>>
        /\ Append(a \o b, x) = (a \o b) \o <<x>>
    BY AppendProperties, ConcatProperties, AppendIsConcat
  <2> QED  BY <2>1, ConcatAssociative
<1>3. ASSUME NEW t \in Seq(S), NEW x \in S, t \in A PROVE Append(t, x) \in A
  <2>1. /\ Append(t, x) \in Seq(S) /\ r \o t \in Seq(S) /\ Keep(t, T) \in Seq(S)
    BY AppendProperties, ConcatProperties, KeepSeq
  <2>2. Keep(r \o t, T) = Keep(r, T) \o Keep(t, T)
    BY <1>3
  <2>3. Keep(Append(r \o t, x), T) = IF x \in T THEN Append(Keep(r \o t, T), x) ELSE Keep(r \o t, T)
    BY <2>1, KeepAppend
  <2>4. Keep(Append(t, x), T) = IF x \in T THEN Append(Keep(t, T), x) ELSE Keep(t, T)
    BY KeepAppend
  <2>5. r \o Append(t, x) = Append(r \o t, x)
    BY <1>2
  <2>6. Keep(r, T) \o Append(Keep(t, T), x) = Append(Keep(r, T) \o Keep(t, T), x)
    BY <1>0, <1>2, <2>1
  <2>7. Keep(r \o Append(t, x), T) = Keep(r, T) \o Keep(Append(t, x), T)
    BY <2>2, <2>3, <2>4, <2>5, <2>6
  <2> QED  BY <2>1, <2>7
<1>4. s \in A
  <2> HIDE DEF A
  <2> QED  BY <1>1, <1>3, SeqInduction
<1> QED  BY <1>4
(* A sequence without repetitions stays one. *)
LEMMA AppendNew ==
  ASSUME NEW S, NEW s \in Seq(S), NEW x \in S
  PROVE  /\ IsInjective(Append(s, x)) <=> IsInjective(s) /\ \A i \in 1 .. Len(s) : s[i] # x
         /\ (\A i \in 1 .. Len(s) : s[i] # x) => Keep(Append(s, x), S \ {x}) = s
<1> DEFINE t == Append(s, x)
<1>1. /\ Len(s) \in Nat /\ Len(t) = Len(s) + 1
      /\ DOMAIN s = 1 .. Len(s) /\ DOMAIN t = 1 .. Len(t)
      /\ \A i \in 1 .. Len(s) : t[i] = s[i] /\ s[i] \in S
      /\ t[Len(s) + 1] = x
  BY AppendProperties, LenProperties, ElementOfSeq
<1> HIDE DEF t
<1>2. \A i : i \in 1 .. Len(t) <=> i \in 1 .. Len(s) \/ i = Len(s) + 1
  BY <1>1
<1>3. \A i \in 1 .. Len(s) : i # Len(s) + 1
  BY <1>1
<1>4. IsInjective(t) <=> IsInjective(s) /\ \A i \in 1 .. Len(s) : s[i] # x
  <2>1. IsInjective(t) <=> \A i, j \in 1 .. Len(t) : t[i] = t[j] => i = j
    BY <1>1 DEF IsInjective
  <2>2. IsInjective(s) <=> \A i, j \in 1 .. Len(s) : s[i] = s[j] => i = j
    BY <1>1 DEF IsInjective
  <2>3. ASSUME IsInjective(t) PROVE IsInjective(s) /\ \A i \in 1 .. Len(s) : s[i] # x
    BY <1>1, <1>2, <1>3, <2>1, <2>2, <2>3
  <2>4. ASSUME IsInjective(s), \A i \in 1 .. Len(s) : s[i] # x PROVE IsInjective(t)
    BY <1>1, <1>2, <1>3, <2>1, <2>2, <2>4
  <2> QED  BY <2>3, <2>4
<1>5. ASSUME \A i \in 1 .. Len(s) : s[i] # x PROVE Keep(t, S \ {x}) = s
  <2>1. Keep(t, S \ {x}) = Keep(s, S \ {x})
    BY KeepAppend DEF t
  <2>2. Keep(s, S \ {x}) = s
    BY <1>1, <1>5, KeepAll
  <2> QED  BY <2>1, <2>2
<1> QED  BY <1>4, <1>5 DEF t

LEMMA KeepInjective ==
  ASSUME NEW S, NEW s \in Seq(S), NEW T, IsInjective(s)
  PROVE  IsInjective(Keep(s, T))
<1> DEFINE A == {t \in Seq(S) : IsInjective(t) => IsInjective(Keep(t, T))}
<1>1. <<>> \in A
  BY KeepEmpty, EmptySeq
<1>2. ASSUME NEW t \in Seq(S), NEW x \in S, t \in A PROVE Append(t, x) \in A
  <2>1. Append(t, x) \in Seq(S)
    BY AppendProperties
  <2>2. SUFFICES ASSUME IsInjective(Append(t, x)) PROVE IsInjective(Keep(Append(t, x), T))
    BY <2>1
  <2>3. IsInjective(t) /\ \A i \in 1 .. Len(t) : t[i] # x
    BY <2>2, AppendNew
  <2>4. IsInjective(Keep(t, T)) /\ Keep(t, T) \in Seq(S)
    BY <1>2, <2>3, KeepSeq
  <2>5. \A i \in 1 .. Len(Keep(t, T)) : Keep(t, T)[i] # x
    <3>1. Contains(Keep(t, T), x) <=> x \in T /\ Contains(t, x)
      BY KeepMembers
    <3> QED  BY <2>3, <3>1 DEF Contains
  <2>6. IsInjective(Append(Keep(t, T), x))
    <3> DEFINE k == Keep(t, T)
    <3> HIDE DEF k
    <3> QED  BY <2>4, <2>5, AppendNew DEF k
  <2> QED  BY <2>4, <2>6, KeepAppend
<1>3. s \in A
  <2> HIDE DEF A
  <2> QED  BY <1>1, <1>2, SeqInduction
<1> QED  BY <1>3
-----------------------------------------------------------------------------
(* Without an identifier that no record has, that the first has, or that   *)
(* the last has                                                            *)
LEMMA HeadAndTail ==
  ASSUME NEW S, NEW s \in Seq(S), s # <<>>
  PROVE  /\ s = <<s[1]>> \o Tail(s) /\ s[1] \in S /\ Head(s) = s[1]
         /\ Tail(s) \in Seq(S) /\ Len(s) \in Nat \ {0} /\ Len(Tail(s)) = Len(s) - 1
         /\ \A i \in 1 .. Len(s) - 1 : Tail(s)[i] = s[i + 1]
<1>1. Len(s) \in Nat \ {0}
  BY EmptySeq
<1>2. 1 \in 1 .. Len(s) /\ Len(s) \in 1 .. Len(s)
  BY <1>1
<1>3. SubSeq(s, 1, Len(s)) = <<s[1]>> \o SubSeq(s, 1 + 1, Len(s))
  BY <1>2, SubSeqRecursiveFirst
<1>4. SubSeq(s, 1, Len(s)) = s /\ Tail(s) = SubSeq(s, 2, Len(s))
  BY SubSeqFull, TailIsSubSeq
<1>5. 1 + 1 = 2
  OBVIOUS
<1>6. s = <<s[1]>> \o Tail(s)
  BY <1>3, <1>4, <1>5
<1>7. Tail(s) \in Seq(S) /\ Len(Tail(s)) = Len(s) - 1
      /\ \A i \in 1 .. Len(Tail(s)) : Tail(s)[i] = s[i + 1]
  BY HeadTailProperties
<1>8. s[1] \in S
  BY <1>2, ElementOfSeq
<1>9. Head(s) = s[1]
  OBVIOUS
<1> QED  BY <1>1, <1>6, <1>7, <1>8, <1>9

LEMMA KeepTail ==
  ASSUME NEW S, NEW s \in Seq(S), s # <<>>, NEW T,
         s[1] \notin T, \A i \in 2 .. Len(s) : s[i] \in T
  PROVE  Keep(s, T) = Tail(s)
<1>1. /\ s = <<s[1]>> \o Tail(s) /\ s[1] \in S
      /\ Tail(s) \in Seq(S) /\ Len(s) \in Nat \ {0} /\ Len(Tail(s)) = Len(s) - 1
      /\ \A i \in 1 .. Len(s) - 1 : Tail(s)[i] = s[i + 1]
  BY HeadAndTail
<1> DEFINE r == <<s[1]>>
           t == Tail(s)
<1>2. r \in Seq(S) /\ Len(r) = 1 /\ r[1] = s[1]
  BY <1>1
<1>3. Keep(r, T) = <<>>
  <2>1. \A i \in 1 .. Len(r) : r[i] \notin T
    BY <1>2
  <2> HIDE DEF r
  <2> QED  BY <1>2, <2>1, KeepNone
<1>4. Keep(t, T) = t
  <2>1. \A i \in 1 .. Len(t) : t[i] \in T
    <3> SUFFICES ASSUME NEW i \in 1 .. Len(t) PROVE t[i] \in T
      OBVIOUS
    <3>1. i \in 1 .. Len(s) - 1 /\ i + 1 \in 2 .. Len(s)
      BY <1>1
    <3> QED  BY <1>1, <3>1
  <2> HIDE DEF t
  <2> QED  BY <1>1, <2>1, KeepAll DEF t
<1>5. Keep(r \o t, T) = Keep(r, T) \o Keep(t, T)
  <2>1. t \in Seq(S)
    BY <1>1
  <2> HIDE DEF r, t
  <2> QED  BY <1>2, <2>1, KeepConcat
<1>6. <<>> \o t = t
  <2>1. t \in Seq(S)
    BY <1>1
  <2> HIDE DEF t
  <2> QED  BY <2>1, ConcatEmptySeq
<1> QED  BY <1>1, <1>3, <1>4, <1>5, <1>6

LEMMA Ranged ==
  ASSUME NEW S, NEW s \in Seq(S)
  PROVE  /\ s \in Seq(ToSet(s)) /\ ToSet(s) \subseteq S
         /\ Len(s) \in Nat /\ DOMAIN s = 1 .. Len(s)
         /\ \A i \in 1 .. Len(s) : s[i] \in ToSet(s)
<1>1. Len(s) \in Nat /\ DOMAIN s = 1 .. Len(s)
  BY LenProperties
<1>2. \A i \in 1 .. Len(s) : s[i] \in ToSet(s) /\ s[i] \in S
  BY <1>1, ElementOfSeq DEF ToSet
<1>3. s = [i \in 1 .. Len(s) |-> s[i]]
  BY LenProperties
<1>4. s \in Seq(ToSet(s))
  BY <1>1, <1>2, <1>3, SeqDef
<1> QED  BY <1>1, <1>2, <1>4 DEF ToSet

LEMMA WithoutIdParts ==
  ASSUME NEW S, NEW s \in Seq(S), NEW id
  PROVE  /\ (\A i \in 1 .. Len(s) : s[i].id # id) => WithoutId(s, id) = s
         /\ s # <<>> /\ s[1].id = id /\ (\A i \in 2 .. Len(s) : s[i].id # id) =>
               WithoutId(s, id) = Tail(s)
         /\ s # <<>> /\ Last(s).id = id /\ (\A i \in 1 .. Len(s) - 1 : s[i].id # id) =>
               WithoutId(s, id) = Front(s)
<1> DEFINE T == {x \in ToSet(s) : x.id # id}
<1>1. /\ Len(s) \in Nat
      /\ \A i \in 1 .. Len(s) : s[i] \in ToSet(s) /\ (s[i] \in T <=> s[i].id # id)
  BY Ranged
<1>2. WithoutId(s, id) = Keep(s, T)
  BY DEF WithoutId, ToSet
<1> HIDE DEF T
<1>3. ASSUME \A i \in 1 .. Len(s) : s[i].id # id PROVE Keep(s, T) = s
  BY <1>1, <1>3, KeepAll
<1>4. ASSUME s # <<>>, s[1].id = id, \A i \in 2 .. Len(s) : s[i].id # id
      PROVE  Keep(s, T) = Tail(s)
  <2>1. Len(s) \in Nat \ {0}
    BY <1>4, EmptySeq
  <2>2. 1 \in 1 .. Len(s) /\ \A i \in 2 .. Len(s) : i \in 1 .. Len(s)
    BY <2>1
  <2> QED  BY <1>1, <1>4, <2>2, KeepTail
<1>5. ASSUME s # <<>>, Last(s).id = id, \A i \in 1 .. Len(s) - 1 : s[i].id # id
      PROVE  Keep(s, T) = Front(s)
  <2> DEFINE f == Front(s)
             x == Last(s)
  <2>1. /\ f \in Seq(S) /\ x \in S /\ s = Append(f, x)
        /\ Len(s) \in Nat \ {0} /\ Len(f) = Len(s) - 1 /\ x = s[Len(s)]
        /\ \A i \in 1 .. Len(s) - 1 : f[i] = s[i]
    BY <1>5, FrontLast
  <2>2. x \notin T /\ x.id = id
    <3>1. Len(s) \in 1 .. Len(s)
      BY <2>1
    <3> QED  BY <1>1, <1>5, <2>1, <3>1
  <2>3. \A i \in 1 .. Len(f) : f[i] \in T
    <3>1. \A i \in 1 .. Len(f) : i \in 1 .. Len(s) /\ i \in 1 .. Len(s) - 1
      BY <2>1
    <3> QED  BY <1>1, <1>5, <2>1, <3>1
  <2> HIDE DEF f, x
  <2>4. Keep(Append(f, x), T) = Keep(f, T)
    BY <2>1, <2>2, KeepAppend
  <2>5. Keep(f, T) = f
    BY <2>1, <2>3, KeepAll
  <2> QED  BY <2>1, <2>4, <2>5 DEF f
<1> QED  BY <1>2, <1>3, <1>4, <1>5

-----------------------------------------------------------------------------
(* A sum is what its definition says, one number after the other. *)
LEMMA SumsSteps ==
  ASSUME NEW s, Len(s) \in Nat
  PROVE  /\ Sums(s)[0] = 0
         /\ \A i \in 1 .. Len(s) : Sums(s)[i] = Sums(s)[i - 1] + s[i]
<1> DEFINE N == Len(s)
           Good(f, k) == f = [i \in 0 .. k |-> IF i = 0 THEN 0 ELSE f[i - 1] + s[i]]
           A == {k \in Nat : \E f : Good(f, k)}
<1>1. Good([i \in 0 .. 0 |-> 0], 0)
  OBVIOUS
<1>2. ASSUME NEW k \in Nat, NEW f, Good(f, k)
      PROVE  \E g : Good(g, k + 1)
  <2> DEFINE last == f[k] + s[k + 1]
             g == [i \in 0 .. k + 1 |-> IF i = k + 1 THEN last ELSE f[i]]
  <2>1. k + 1 \in Nat /\ k + 1 # 0 /\ k \in 0 .. k + 1 /\ k # k + 1 /\ (k + 1) - 1 = k
    OBVIOUS
  <2>2. g[0] = f[0] /\ f[0] = 0
    BY <1>2, <2>1
  <2>3. ASSUME NEW i \in 0 .. k + 1, i # 0, i # k + 1
        PROVE  g[i] = g[i - 1] + s[i]
    <3>1. i \in 0 .. k /\ i - 1 \in 0 .. k + 1 /\ i - 1 # k + 1
      BY <2>3
    <3>2. g[i] = f[i] /\ g[i - 1] = f[i - 1]
      BY <2>3, <3>1
    <3>3. f[i] = f[i - 1] + s[i]
      BY <1>2, <2>3, <3>1
    <3> QED  BY <3>2, <3>3
  <2>4. g[k + 1] = g[(k + 1) - 1] + s[k + 1]
    BY <2>1
  <2>5. g = [i \in 0 .. k + 1 |-> g[i]]
    OBVIOUS
  <2> HIDE DEF g
  <2>6. \A i \in 0 .. k + 1 : g[i] = IF i = 0 THEN 0 ELSE g[i - 1] + s[i]
    BY <2>2, <2>3, <2>4
  <2> QED  BY <2>5, <2>6
<1>3. 0 \in A
  BY <1>1
<1>4. ASSUME NEW k \in Nat, k \in A PROVE k + 1 \in A
  <2>1. PICK f : Good(f, k)
    BY <1>4
  <2>2. \E g : Good(g, k + 1)
    BY <1>2, <2>1
  <2> QED  BY <2>2
<1>5. N \in A
  <2> HIDE DEF A
  <2> QED  BY <1>3, <1>4, SetInduction
<1>6. \E f : Good(f, N)
  BY <1>5
<1>7. Good(Sums(s), N)
  BY <1>6 DEF Sums
<1>8. \A i \in 0 .. N : Sums(s)[i] = IF i = 0 THEN 0 ELSE Sums(s)[i - 1] + s[i]
  BY <1>7
<1> QED  BY <1>8

LEMMA TotalAppend ==
  /\ Total(<<>>) = 0
  /\ \A s \in Seq(Nat) : Total(s) \in Nat /\ \A x \in Nat : Total(Append(s, x)) = Total(s) + x
<1>1. Total(<<>>) = 0
  BY SumsSteps DEF Total
<1>2. ASSUME NEW s \in Seq(Nat), NEW x \in Nat
      PROVE  Total(Append(s, x)) = Total(s) + x
  <2> DEFINE t == Append(s, x)
             A == {i \in Nat : i <= Len(s) => Sums(t)[i] = Sums(s)[i]}
  <2>1. /\ Len(s) \in Nat /\ Len(t) = Len(s) + 1 /\ Len(t) \in Nat
        /\ t[Len(s) + 1] = x
        /\ \A i \in 1 .. Len(s) : t[i] = s[i]
    BY AppendProperties, LenProperties
  <2> HIDE DEF t
  <2>2. 0 \in A
    BY <2>1, SumsSteps
  <2>3. ASSUME NEW i \in Nat, i \in A PROVE i + 1 \in A
    <3>1. SUFFICES ASSUME i + 1 <= Len(s) PROVE Sums(t)[i + 1] = Sums(s)[i + 1]
      OBVIOUS
    <3>2. i + 1 \in 1 .. Len(s) /\ i + 1 \in 1 .. Len(t) /\ (i + 1) - 1 = i /\ i <= Len(s)
      BY <2>1, <3>1
    <3>3. Sums(t)[i] = Sums(s)[i] /\ t[i + 1] = s[i + 1]
      BY <2>1, <2>3, <3>2
    <3>4. Sums(t)[i + 1] = Sums(t)[i] + t[i + 1]
      BY <2>1, <3>2, SumsSteps
    <3>5. Sums(s)[i + 1] = Sums(s)[i] + s[i + 1]
      BY <2>1, <3>2, SumsSteps
    <3> QED  BY <3>3, <3>4, <3>5
  <2>4. Len(s) \in A
    <3> HIDE DEF A
    <3> QED  BY <2>1, <2>2, <2>3, SetInduction
  <2>5. Sums(t)[Len(s)] = Sums(s)[Len(s)]
    BY <2>1, <2>4
  <2>6. Len(t) \in 1 .. Len(t) /\ Len(t) - 1 = Len(s)
    BY <2>1
  <2>7. Sums(t)[Len(t)] = Sums(t)[Len(t) - 1] + t[Len(t)]
    BY <2>1, <2>6, SumsSteps
  <2> QED  BY <2>1, <2>5, <2>6, <2>7 DEF Total, t
<1>3. \A s \in Seq(Nat) : Total(s) \in Nat
  <2> DEFINE A == {s \in Seq(Nat) : Total(s) \in Nat}
  <2>1. <<>> \in A
    BY <1>1, EmptySeq
  <2>2. ASSUME NEW s \in Seq(Nat), NEW x \in Nat, s \in A PROVE Append(s, x) \in A
    BY <1>2, <2>2, AppendProperties
  <2>3. \A s \in Seq(Nat) : s \in A
    <3> HIDE DEF A
    <3> QED  BY <2>1, <2>2, SeqInduction
  <2> QED  BY <2>3
<1> QED  BY <1>1, <1>2, <1>3

-----------------------------------------------------------------------------
(* Sequences, with an element more, or with any elements                   *)

(* A sequence of some is one of more *)
LEMMA SeqGrows == ASSUME NEW S, NEW T, S \subseteq T, NEW s \in Seq(S) PROVE s \in Seq(T)
<1>1. Len(s) \in Nat /\ s \in [1 .. Len(s) -> S]
  OBVIOUS
<1>2. s \in [1 .. Len(s) -> T]
  BY <1>1
<1> QED  BY <1>1, <1>2, SeqDef

(* A function on the numbers up to n is a sequence *)
LEMMA Sequential ==
  ASSUME NEW S, NEW n \in Nat, NEW f \in [1 .. n -> S] PROVE f \in Seq(S) /\ Len(f) = n
OBVIOUS

(* A sequence with one element more, and with one element put in place *)
LEMMA Appended ==
  ASSUME NEW S, NEW s \in Seq(S), NEW x \in S, NEW n, n = Len(s)
  PROVE  /\ Append(s, x) \in Seq(S) /\ Len(Append(s, x)) = n + 1 /\ Append(s, x)[n + 1] = x
         /\ \A i \in 1 .. n : Append(s, x)[i] = s[i]
BY AppendProperties

(* A sequence, of whatever *)
IsSeq(s) == s \in Seq(Contents(s))

(* A sequence is one of its own elements, and so is a longer one *)
LEMMA IsSeqOf == ASSUME NEW S, NEW s \in Seq(S) PROVE IsSeq(s)
<1> PICK n : n = Len(s)
  OBVIOUS
<1>1. n \in Nat /\ DOMAIN s = 1 .. n /\ s \in [1 .. n -> S]
  OBVIOUS
<1>2. s \in [1 .. n -> Contents(s)]
  BY <1>1 DEF Contents
<1> QED  BY <1>1, <1>2, Sequential DEF IsSeq

LEMMA Prolonged ==
  ASSUME NEW s, IsSeq(s), NEW x
  PROVE  /\ IsSeq(Append(s, x)) /\ Len(s) \in Nat /\ Len(Append(s, x)) = Len(s) + 1
         /\ Append(s, x)[Len(s) + 1] = x
         /\ \A i \in 1 .. Len(s) : Append(s, x)[i] = s[i]
<1> PICK S : S = Contents(s) \cup {x}
  OBVIOUS
<1>1. s \in Seq(S) /\ x \in S
  BY DEF IsSeq
<1>2. /\ Append(s, x) \in Seq(S) /\ Len(Append(s, x)) = Len(s) + 1
      /\ Append(s, x)[Len(s) + 1] = x /\ Len(s) \in Nat
      /\ \A i \in 1 .. Len(s) : Append(s, x)[i] = s[i]
  BY <1>1, Appended
<1> QED  BY <1>2, IsSeqOf

-----------------------------------------------------------------------------
(* Of a finite set of numbers, exactly one has k smaller ones, if the set  *)
(* has more than k: k-th of the sorted set, counted from 0.                *)
LEMMA Ranked ==
  ASSUME NEW R \in SUBSET Nat, IsFiniteSet(R), NEW k \in Nat, k < Cardinality(R)
  PROVE  \E x \in R : Cardinality({i \in R : i < x}) = k
<1> DEFINE Below(Q, x) == {i \in Q : i < x}
           A == {n \in Nat : \A Q \in SUBSET Nat :
                    IsFiniteSet(Q) /\ n < Cardinality(Q) =>
                       \E x \in Q : Cardinality(Below(Q, x)) = n}
<1>1. ASSUME NEW Q \in SUBSET Nat, IsFiniteSet(Q), NEW n \in Nat, n < Cardinality(Q)
      PROVE  \E x \in Q : \A j \in Q : x <= j
  <2>1. Q # {} /\ Cardinality(Q) \in Nat
    BY <1>1, FS_EmptySet, FS_CardinalityType
  <2> QED  BY <2>1, LeastNatural
<1>2. 0 \in A
  <2> SUFFICES ASSUME NEW Q \in SUBSET Nat, IsFiniteSet(Q), 0 < Cardinality(Q)
               PROVE  \E x \in Q : Cardinality(Below(Q, x)) = 0
    OBVIOUS
  <2>1. PICK x \in Q : \A j \in Q : x <= j
    BY <1>1
  <2>2. Below(Q, x) = {}
    <3>1. ASSUME NEW i \in Q, i < x PROVE FALSE
      BY <2>1, <3>1
    <3> QED  BY <3>1
  <2>3. Cardinality(Below(Q, x)) = 0
    <3> HIDE DEF Below
    <3> QED  BY <2>2, FS_EmptySet
  <2> QED  BY <2>3
<1>3. ASSUME NEW n \in Nat, n \in A PROVE n + 1 \in A
  <2> SUFFICES ASSUME NEW Q \in SUBSET Nat, IsFiniteSet(Q), n + 1 < Cardinality(Q)
               PROVE  \E x \in Q : Cardinality(Below(Q, x)) = n + 1
    OBVIOUS
  <2>1. PICK m \in Q : \A j \in Q : m <= j
    BY <1>1
  <2> DEFINE P == Q \ {m}
  <2>2. P \in SUBSET Nat /\ IsFiniteSet(P) /\ n < Cardinality(P)
    <3>1. IsFiniteSet(P) /\ Cardinality(P) = Cardinality(Q) - 1
      BY FS_RemoveElement
    <3>2. Cardinality(Q) \in Nat
      BY FS_CardinalityType
    <3>3. \A c \in Nat : n + 1 < c => n < c - 1
      OBVIOUS
    <3> HIDE DEF P
    <3>4. n < Cardinality(P)
      BY <3>1, <3>2, <3>3
    <3> QED  BY <3>1, <3>4 DEF P
  <2>3. PICK x \in P : Cardinality(Below(P, x)) = n
    BY <1>3, <2>2
  <2>4. x \in Q /\ Below(Q, x) = Below(P, x) \cup {m} /\ m \notin Below(P, x)
    BY <2>1, <2>3
  <2>5. IsFiniteSet(Below(P, x))
    <3>1. Below(P, x) \in SUBSET P
      OBVIOUS
    <3> HIDE DEF Below, P
    <3> QED  BY <2>2, <3>1, FS_Subset
  <2>6. Cardinality(Below(Q, x)) = n + 1
    <3> HIDE DEF Below, P
    <3> QED  BY <2>3, <2>4, <2>5, FS_AddElement
  <2> QED  BY <2>4, <2>6
<1>4. k \in A
  <2> HIDE DEF A
  <2> QED  BY <1>2, <1>3, SetInduction
<1> QED  BY <1>4
=============================================================================
