---------------------------- MODULE IndexLemmas ----------------------------
(***************************************************************************)
(* The first and the last of some positions of a sequence, which is what   *)
(* SelectInSeq and SelectLastInSeq choose.                                 *)
(***************************************************************************)
EXTENDS Integers, Sequences, SequencesExt, WellFoundedInduction, SequenceTheorems, TLAPS

\* A set of natural numbers that is not empty has a least one.
LEMMA LeastNatural ==
    ASSUME NEW I \in SUBSET Nat, I # {}
    PROVE  \E i \in I: \A j \in I: i <= j
<1> DEFINE Less == {p \in Nat \X Nat: p[1] < p[2]}
<1>1. Less = OpToRel(<, Nat)
  BY DEF OpToRel
<1>2. IsWellFoundedOn(Less, Nat)
  BY <1>1, NatLessThanWellFounded
<1>3. PICK i \in I: \A j \in I: ~(<<j, i>> \in Less)
  <2> HIDE DEF Less
  <2> QED
    BY <1>2, WFMin
<1>4. ASSUME NEW j \in I, j < i
      PROVE  FALSE
  <2>1. <<j, i>> \in Nat \X Nat /\ <<j, i>>[1] < <<j, i>>[2]
    BY <1>4
  <2>2. <<j, i>> \in Less
    BY <2>1
  <2> QED
    BY <1>3, <2>2
<1> QED
  BY <1>4

\* A set of positions that is not empty has a first one.
LEMMA FirstPosition ==
    ASSUME NEW n \in Nat, NEW I \in SUBSET (1 .. n), I # {}
    PROVE  Min(I) \in I /\ \A j \in I: Min(I) <= j
<1>1. \E i \in I: \A j \in I: i <= j
  BY LeastNatural
<1> QED
  BY <1>1 DEF Min

\* And a last one.
LEMMA LastPosition ==
    ASSUME NEW n \in Nat, NEW I \in SUBSET (1 .. n), I # {}
    PROVE  Max(I) \in I /\ \A j \in I: Max(I) >= j
<1> DEFINE J == {n - j: j \in I}
<1>1. J \in SUBSET Nat /\ J # {}
  <2>1. PICK j \in I: TRUE
    OBVIOUS
  <2>2. n - j \in J
    OBVIOUS
  <2>3. \A h \in I: n - h \in Nat
    OBVIOUS
  <2> QED
    BY <2>2, <2>3
<1>2. PICK k \in J: \A j \in J: k <= j
  <2> HIDE DEF J
  <2> QED
    BY <1>1, LeastNatural
<1>3. PICK i \in I: k = n - i
  OBVIOUS
<1>4. \A j \in I: i >= j
  <2> TAKE j \in I
  <2>1. n - j \in J
    OBVIOUS
  <2> QED
    BY <1>2, <1>3, <2>1
<1> QED
  BY <1>4 DEF Max

\* SelectInSeq and SelectLastInSeq return such a position, or 0.
LEMMA FirstIndex ==
    ASSUME NEW n \in Nat, NEW I \in SUBSET (1 .. n),
           NEW d, d = IF I # {} THEN Min(I) ELSE 0
    PROVE  /\ d \in 0 .. n
           /\ d = 0 => I = {}
           /\ d # 0 => d \in I /\ \A i \in 1 .. d - 1: i \notin I
<1>1. CASE I = {}
  BY <1>1
<1>2. CASE I # {}
  <2>1. d \in I /\ \A j \in I: d <= j
    BY <1>2, FirstPosition
  <2>2. \A i \in 1 .. d - 1: i \notin I
    BY <2>1
  <2> QED
    BY <2>1, <2>2
<1> QED
  BY <1>1, <1>2

LEMMA LastIndex ==
    ASSUME NEW n \in Nat, NEW I \in SUBSET (1 .. n),
           NEW d, d = IF I # {} THEN Max(I) ELSE 0
    PROVE  /\ d \in 0 .. n
           /\ d = 0 => I = {}
           /\ d # 0 => d \in I
           /\ \A i \in d + 1 .. n: i \notin I
<1>1. CASE I = {}
  BY <1>1
<1>2. CASE I # {}
  <2>1. d \in I /\ \A j \in I: d >= j
    BY <1>2, LastPosition
  <2>2. \A i \in d + 1 .. n: i \notin I
    BY <2>1
  <2> QED
    BY <2>1, <2>2
<1> QED
  BY <1>1, <1>2

=============================================================================
