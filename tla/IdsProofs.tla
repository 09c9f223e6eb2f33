----------------------------- MODULE IdsProofs -----------------------------
(* The oldest of a set of ids exists.                                      *)
EXTENDS Ids, FiniteSetTheorems, TLAPS

(* Claims and the supply of ids take the least element of a set of ids, *)
(* and there is one: the sets 0..n are finite, and finite sets are well    *)
(* founded by inclusion.                                                   *)
LEMMA LeastIdExists ==
  ASSUME NEW ids \in SUBSET Nat, ids # {}
  PROVE  Oldest(ids) \in ids /\ \A k \in ids : Oldest(ids) <= k
<1> DEFINE Below == {0..n : n \in ids}
<1>1. ids \subseteq Nat
  OBVIOUS
<1>2. \A n \in Nat : 0..n \in FiniteSubsetsOf(Nat)
  <2> TAKE n \in Nat
  <2>1. IsFiniteSet(0..n)
    BY FS_Interval
  <2>2. 0..n \subseteq Nat
    OBVIOUS
  <2> QED
    BY <2>1, <2>2 DEF FiniteSubsetsOf
<1>3. Below \subseteq FiniteSubsetsOf(Nat) /\ Below # {}
  BY <1>1, <1>2
<1>4. PICK b \in Below : \A c \in Below : <<c, b>> \notin StrictSubsetOrdering(Nat)
  <2> HIDE DEF Below
  <2> QED
    BY <1>3, FS_StrictSubsetOrderingWellFounded, WFMin
<1>5. PICK x \in ids : b = 0..x
  OBVIOUS
<1>6. ASSUME NEW y \in ids, y < x
      PROVE  FALSE
  <2>1. 0..y \subseteq 0..x /\ 0..y # 0..x
    BY <1>1, <1>6
  <2>2. 0..y \subseteq Nat /\ 0..x \subseteq Nat
    OBVIOUS
  <2>3. <<0..y, b>> \in StrictSubsetOrdering(Nat)
    BY <2>1, <2>2, <1>5 DEF StrictSubsetOrdering
  <2> QED
    BY <2>3, <1>4
<1>7. \A y \in ids : x <= y
  BY <1>1, <1>6
<1> QED
  BY <1>7 DEF Oldest
=============================================================================
