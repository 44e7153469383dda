------------------------------- MODULE Filters -------------------------------
(***************************************************************************)
(* SelectSeq whose test is a set: what Vec::retain and Iterator::filter    *)
(* leave, in order.  It is a recursive function over the length, so that   *)
(* what it computes can be proved (FilterLemmas); SelectSeq itself is not  *)
(* known to the provers.                                                   *)
(***************************************************************************)
EXTENDS Integers, Sequences

Sifted(s, T) ==
    LET kept[i \in 0 .. Len(s)] ==
            IF i = 0 THEN <<>>
            ELSE IF s[i] \in T THEN Append(kept[i - 1], s[i]) ELSE kept[i - 1]
    IN kept

(* The elements of s that are in T *)
Keep(s, T) == Sifted(s, T)[Len(s)]

(* What is in s *)
Contents(s) == {s[i] : i \in DOMAIN s}

(* The records of s but those with the identifier id *)
WithoutId(s, id) == Keep(s, {x \in {s[i] : i \in DOMAIN s} : x.id # id})

(* The numbers of s, added up *)
Sums(s) ==
    LET sum[i \in 0 .. Len(s)] == IF i = 0 THEN 0 ELSE sum[i - 1] + s[i]
    IN sum

Total(s) == Sums(s)[Len(s)]
=============================================================================
