--------------------------- MODULE LeastElements ----------------------------
(***************************************************************************)
(* Induction over finite data, in the form of the least counterexample:    *)
(* what is said of a sum or of a fold is proved by taking a smallest set   *)
(* of which it does not hold.                                              *)
(***************************************************************************)
EXTENDS Integers, FiniteSetTheorems, TLAPS

(* Of a family of subsets of a finite set that is not empty, some member   *)
(* contains no other.                                                      *)
LEMMA SmallestSubset ==
    ASSUME NEW S, IsFiniteSet(S), NEW F, F \subseteq SUBSET S, F # {}
    PROVE  \E B \in F : \A C \in F : C \subseteq B => C = B
<1>1. F \subseteq FiniteSubsetsOf(S)
  BY FS_Subset DEF FiniteSubsetsOf
<1>2. PICK B \in F : \A C \in F : ~ (<<C, B>> \in StrictSubsetOrdering(S))
  BY <1>1, FS_StrictSubsetOrderingWellFounded, WFMin
<1>3. ASSUME NEW C \in F, C \subseteq B, C # B PROVE FALSE
  <2>1. <<C, B>> \in StrictSubsetOrdering(S)
    BY <1>3 DEF StrictSubsetOrdering
  <2> QED BY <1>2, <2>1
<1> QED BY <1>3

(* A finite set that is not empty has a member whose key is least.         *)
LEMMA LeastKey ==
    ASSUME NEW S, IsFiniteSet(S), S # {}, NEW key \in [S -> Int]
    PROVE  \E x \in S : \A y \in S : key[x] <= key[y]
<1> DEFINE Before(x) == {y \in S : key[y] < key[x]}
           family == {Before(x) : x \in S}
<1>1. family \subseteq SUBSET S /\ family # {}
  <2>1. \A x \in S : Before(x) \in SUBSET S
    OBVIOUS
  <2> HIDE DEF Before
  <2> QED BY <2>1
<1>2. \E B \in family : \A C \in family : C \subseteq B => C = B
  <2> HIDE DEF family
  <2> QED BY <1>1, SmallestSubset
<1>3. PICK x \in S : \A y \in S : Before(y) \subseteq Before(x) => Before(y) = Before(x)
  <2> HIDE DEF Before
  <2> QED BY <1>2
<1>4. ASSUME NEW y \in S, ~(key[x] <= key[y]) PROVE FALSE
  <2>1. key[y] \in Int /\ key[x] \in Int /\ key[y] < key[x]
    BY <1>4
  <2>2. y \in Before(x) /\ y \notin Before(y) /\ Before(y) \subseteq Before(x)
    BY <2>1
  <2> HIDE DEF Before
  <2> QED BY <1>3, <2>2
<1> QED BY <1>4

=============================================================================
