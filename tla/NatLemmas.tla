------------------------------ MODULE NatLemmas ------------------------------
(***************************************************************************)
(* Induction without induction theorems: a set of natural numbers that is  *)
(* not empty has a least element.  A fact about every number is proved by  *)
(* looking at the least one that it would not hold for.  And sequences as  *)
(* functions over 1 .. n.                                                  *)
(***************************************************************************)
EXTENDS Integers, SequenceTheorems, WellFoundedInduction, TLAPS

\* The order of the natural numbers is well-founded.
LEMMA LeastNat ==
  ASSUME NEW S \in SUBSET Nat, S # {}
  PROVE  \E n \in S : \A m \in S : n <= m
<1>1. PICK n \in S : \A m \in S : ~(<<m, n>> \in OpToRel(<, Nat))
  BY NatLessThanWellFounded, WFMin, Zenon
<1>2. OpToRel(<, Nat) = {ss \in Nat \X Nat : ss[1] < ss[2]}
  BY DEF OpToRel
<1>3. \A m \in S : ~(<<m, n>> \in {ss \in Nat \X Nat : ss[1] < ss[2]})
  BY <1>1, <1>2, Zenon
<1>4. SUFFICES ASSUME NEW m \in S PROVE n <= m
  OBVIOUS
<1>5. n \in Nat /\ m \in Nat
  OBVIOUS
<1>6. <<m, n>> \in Nat \X Nat
  BY <1>5
<1>7. ~(<<m, n>>[1] < <<m, n>>[2])
  BY <1>3, <1>6
<1>. QED BY <1>5, <1>7

\* Induction over the numbers up to N, for the set of those a fact holds for.
LEMMA InductionUpTo ==
  ASSUME NEW N \in Nat, NEW G,
         0 \in G, \A n \in 0 .. (N - 1) : n \in G => n + 1 \in G
  PROVE  \A n \in 0 .. N : n \in G
<1>. DEFINE Bad == {n \in 0 .. N : n \notin G}
<1>. SUFFICES ASSUME Bad # {} PROVE FALSE
  OBVIOUS
<1>1. Bad \in SUBSET Nat
  OBVIOUS
<1>2. PICK n \in Bad : \A m \in Bad : n <= m
  BY <1>1, LeastNat
<1>3. n # 0 /\ n - 1 \in 0 .. (N - 1)
  BY <1>2
<1>4. n - 1 \in G
  BY <1>2, <1>3
<1>. QED BY <1>2, <1>3, <1>4

\* An interval has one end.
LEMMA SameInterval ==
  ASSUME NEW m \in Nat, NEW n \in Nat, 1 .. m = 1 .. n
  PROVE  m = n
<1>1. n > 0 => n \in 1 .. m
  OBVIOUS
<1>2. m > 0 => m \in 1 .. n
  OBVIOUS
<1>. QED BY <1>1, <1>2

\* A function over 1 .. n is a sequence of that length.
LEMMA SeqOfLength ==
  ASSUME NEW n \in Nat, NEW S, NEW s \in [1 .. n -> S]
  PROVE  s \in Seq(S) /\ Len(s) = n
<1>1. s \in Seq(S)
  OBVIOUS
<1>2. DOMAIN s = 1 .. Len(s) /\ Len(s) \in Nat
  BY <1>1, LenProperties
<1>. QED BY <1>1, <1>2, SameInterval

=============================================================================
