------------------------------ MODULE LeastNat ------------------------------
(***************************************************************************)
(* What the proofs about scans of tables of slots need.                    *)
(***************************************************************************)
EXTENDS Integers, FiniteSets, FiniteSetTheorems, WellFoundedInduction, TLAPS

\* A nonempty set of naturals has a least element.
LEMMA NatHasMin ==
    ASSUME NEW T, T \subseteq Nat, T # {}
    PROVE  \E x \in T : \A y \in T : x <= y
<1> DEFINE R == StrictSubsetOrdering(Nat)
           Below(x) == {y \in T : y < x}
           F == {Below(x) : x \in T}
<1>1. \A x \in T : Below(x) \in FiniteSubsetsOf(Nat)
  <2> SUFFICES ASSUME NEW x \in T PROVE Below(x) \in FiniteSubsetsOf(Nat)
    OBVIOUS
  <2>1. x \in Nat /\ Below(x) \subseteq Nat
    OBVIOUS
  <2>2. ASSUME NEW s \in Below(x) PROVE s <= x
    <3>1. s \in Nat /\ s < x
      OBVIOUS
    <3> HIDE DEF Below
    <3> QED BY <3>1, <2>1
  <2>3. IsFiniteSet(Below(x))
    BY <2>1, <2>2, FS_BoundedSetOfNaturals
  <2> QED BY <2>1, <2>3 DEF FiniteSubsetsOf
<1>2. F \subseteq FiniteSubsetsOf(Nat) /\ F # {}
  BY <1>1
<1>3. PICK U \in F : \A V \in F : ~ (<<V, U>> \in R)
  BY <1>2, FS_StrictSubsetOrderingWellFounded, WFMin
<1>4. PICK x \in T : U = Below(x)
  OBVIOUS
<1>5. ASSUME NEW y \in T, y < x PROVE FALSE
  <2>1. x \in Nat /\ y \in Nat /\ y \in Below(x)
    BY <1>5
  <2>2. y \notin Below(y)
    BY <2>1
  <2>3. \A z \in Below(y) : z \in Below(x)
    <3> SUFFICES ASSUME NEW z \in T, z < y PROVE z < x
      OBVIOUS
    <3>1. z \in Nat
      OBVIOUS
    <3> QED BY <3>1, <2>1, <1>5
  <2>4. <<Below(y), Below(x)>> \in R
    BY <2>1, <2>2, <2>3 DEF StrictSubsetOrdering
  <2> QED BY <2>4, <1>3, <1>4
<1> QED
  <2>1. \A y \in T : x \in Nat /\ y \in Nat
    OBVIOUS
  <2> QED BY <1>5, <2>1
=============================================================================
