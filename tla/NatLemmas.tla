----------------------------- MODULE NatLemmas -----------------------------
(***************************************************************************)
(* Sets of numbers have first and last elements.  Proofs that need an      *)
(* induction use these: the first number for which a claim fails.          *)
(***************************************************************************)
EXTENDS Integers, WellFoundedInduction, TLAPS

\* A set of natural numbers that is not empty has a smallest element.
LEMMA SmallestNat ==
    ASSUME NEW T, T \subseteq Nat, T # {}
    PROVE  \E x \in T : \A y \in T : x <= y
<1>1. PICK R : IsWellFoundedOn(R, Nat) /\ \A x, y \in Nat : x < y => <<x, y>> \in R
    <2> DEFINE R == OpToRel(<, Nat)
    <2>1. IsWellFoundedOn(R, Nat)  BY NatLessThanWellFounded
    <2>2. \A x, y \in Nat : x < y => <<x, y>> \in R  BY DEF OpToRel
    <2> HIDE DEF R
    <2> QED  BY <2>1, <2>2
<1>2. IsWellFoundedOn(R, Nat)  BY <1>1
<1>3. PICK x \in T : \A y \in T : ~ (<<y, x>> \in R)  BY <1>2, WFMin, Zenon
<1>4. ASSUME NEW y \in T PROVE x <= y
    <2>1. ~(y < x)  BY <1>1, <1>3
    <2> QED  BY <2>1
<1> QED  BY <1>4

\* One that is bounded has a largest.
LEMMA LargestNat ==
    ASSUME NEW n \in Nat, NEW T, T \subseteq 0 .. n, T # {}
    PROVE  \E x \in T : \A y \in T : y <= x
<1> DEFINE U == {n - x : x \in T}
<1>1. U \subseteq Nat /\ U # {}
    <2>1. PICK x : x \in T  OBVIOUS
    <2>2. n - x \in U  BY <2>1
    <2>3. \A y \in T : y \in Nat /\ y <= n  OBVIOUS
    <2>4. U \subseteq Nat  BY <2>3
    <2> QED  BY <2>2, <2>4
<1>2. PICK u \in U : \A v \in U : u <= v
    <2> HIDE DEF U
    <2> QED  BY <1>1, SmallestNat
<1>3. PICK x \in T : u = n - x  OBVIOUS
<1>4. ASSUME NEW y \in T PROVE y <= x
    <2>1. u <= n - y  BY <1>2
    <2> QED  BY <1>3, <2>1
<1> QED  BY <1>4

=============================================================================
