------------------------------- MODULE Extrema -------------------------------
(***************************************************************************)
(* Least and greatest elements of sets of natural numbers, for the proofs  *)
(* about frame numbers: which frame is the last one confirmed, which entry *)
(* the latest.                                                             *)
(***************************************************************************)
EXTENDS Integers, FiniteSetsExt, WellFoundedInduction, TLAPS

\* The community modules define Min with CHOOSE; a non-empty set of naturals
\* has a least element because < is well-founded on Nat.
LEMMA MinNat ==
    ASSUME NEW S \in SUBSET Nat, S # {}
    PROVE  Min(S) \in S /\ \A y \in S : Min(S) <= y
<1> DEFINE Rel == OpToRel(<, Nat)
<1>1. \A T \in SUBSET Nat : T # {} =>
          \E x \in T : \A y \in T : ~ (<<y, x>> \in Rel)
  <2>1. IsWellFoundedOn(Rel, Nat)
    BY NatLessThanWellFounded
  <2> HIDE DEF Rel
  <2> QED BY <2>1, WFMin
<1>2. PICK x \in S : \A y \in S : ~ (<<y, x>> \in Rel)
  BY <1>1
<1>3. ASSUME NEW y \in S, y < x PROVE FALSE
  BY <1>2, <1>3 DEF Rel, OpToRel
<1>4. \A y \in S : x <= y
  BY <1>3
<1> QED BY <1>2, <1>4 DEF Min

\* A non-empty set of naturals below N has a greatest element.
LEMMA MaxNat ==
    ASSUME NEW N \in Nat, NEW S \in SUBSET (0..N), S # {}
    PROVE  Max(S) \in S /\ \A y \in S : y <= Max(S)
<1> DEFINE T == {N - y : y \in S}
<1>1. T \in SUBSET Nat /\ T # {}
  <2>1. \A y \in S : y \in 0..N /\ N - y \in Nat
    OBVIOUS
  <2> QED BY <2>1
<1>2. Min(T) \in T /\ \A y \in T : Min(T) <= y
  BY <1>1, MinNat
<1>3. PICK x \in S : Min(T) = N - x
  BY <1>2
<1>4. ASSUME NEW y \in S PROVE y <= x
  <2>1. N - y \in T
    OBVIOUS
  <2>2. N - x <= N - y
    BY <1>2, <1>3, <2>1
  <2>3. x \in 0..N /\ y \in 0..N
    OBVIOUS
  <2> QED BY <2>2, <2>3
<1> QED BY <1>4 DEF Max
==============================================================================
