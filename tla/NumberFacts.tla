----------------------------- MODULE NumberFacts -----------------------------
(***************************************************************************)
(* Facts about sets of numbers and about orders of finite sets that the    *)
(* proofs of several components rest on: least and greatest members, and   *)
(* the k-th member of a finite set in a total order.                       *)
(***************************************************************************)
EXTENDS Integers, FiniteSetTheorems, WellFoundedInduction, TLAPS

\* Every set of natural numbers has a least member: what the proofs use for
\* induction, on the least number that fails.
LEMMA NatMin ==
    ASSUME NEW T \in SUBSET Nat, T # {}
    PROVE  \E n \in T : \A m \in T : n <= m
<1>1. PICK R : R = OpToRel(<, Nat)
  OBVIOUS
<1>2. IsWellFoundedOn(R, Nat)
  BY <1>1, NatLessThanWellFounded
<1>3. PICK n \in T : \A m \in T : ~ (<<m, n>> \in R)
  BY <1>2, WFMin
<1>4. \A x, y \in Nat : <<y, x>> \in R <=> y < x
  BY <1>1 DEF OpToRel
<1>5. ASSUME NEW m \in T PROVE n <= m
  <2>1. n \in Nat /\ m \in Nat /\ ~(<<m, n>> \in R)
    BY <1>3
  <2>2. ~(m < n)
    BY <1>4, <2>1
  <2> QED BY <2>1, <2>2
<1> QED BY <1>5

\* A set of numbers that has a bound has a greatest member.
LEMMA NatMax ==
    ASSUME NEW T \in SUBSET Nat, T # {}, NEW b \in Nat, \A m \in T : m <= b
    PROVE  \E n \in T : \A m \in T : n >= m
<1>1. PICK U : U = {b - m : m \in T}
  OBVIOUS
<1>2. \A m \in T : m \in Nat /\ b - m \in Nat
  OBVIOUS
<1>3. U \in SUBSET Nat /\ U # {}
  BY <1>1, <1>2
<1>4. PICK u \in U : \A v \in U : u <= v
  BY <1>3, NatMin
<1>5. PICK n \in T : u = b - n
  BY <1>1, <1>4
<1>6. ASSUME NEW m \in T PROVE n >= m
  <2>1. b - m \in U
    BY <1>1
  <2>2. b - n <= b - m
    BY <1>4, <1>5, <2>1
  <2> QED BY <1>2, <2>2
<1> QED BY <1>6

\* R orders the members of S totally.
Orders(R, S) ==
    /\ \A x, y \in S : <<x, y>> \in R \/ <<y, x>> \in R
    /\ \A x, y \in S : <<x, y>> \in R /\ <<y, x>> \in R => x = y
    /\ \A x, y, z \in S : <<x, y>> \in R /\ <<y, z>> \in R => <<x, z>> \in R

\* Counting up to a member in a total order gives every member a number of its
\* own, and leaves none out.
LEMMA KthMember ==
    ASSUME NEW S, IsFiniteSet(S), NEW R, Orders(R, S)
    PROVE  /\ \A x \in S : Cardinality({y \in S : <<y, x>> \in R}) \in 1..Cardinality(S)
           /\ \A x, y \in S : Cardinality({z \in S : <<z, x>> \in R})
                                = Cardinality({z \in S : <<z, y>> \in R}) => x = y
           /\ \A k \in 1..Cardinality(S) :
                \E x \in S : Cardinality({y \in S : <<y, x>> \in R}) = k
<1>1. PICK N \in Nat : N = Cardinality(S)
  BY FS_CardinalityType
<1>2. PICK Below : Below = [x \in S |-> {y \in S : <<y, x>> \in R}]
  OBVIOUS
<1>3. \A x \in S : /\ x \in Below[x] /\ Below[x] \in SUBSET S /\ IsFiniteSet(Below[x])
                   /\ Cardinality(Below[x]) \in 1..N
  <2> SUFFICES ASSUME NEW x \in S
               PROVE  /\ x \in Below[x] /\ Below[x] \in SUBSET S /\ IsFiniteSet(Below[x])
                      /\ Cardinality(Below[x]) \in 1..N
    OBVIOUS
  <2>1. x \in Below[x] /\ Below[x] \in SUBSET S
    BY <1>2 DEF Orders
  <2>2. IsFiniteSet(Below[x]) /\ Cardinality(Below[x]) <= N
    BY <1>1, <2>1, FS_Subset
  <2>3. Cardinality(Below[x]) \in Nat /\ Cardinality(Below[x]) # 0
    BY <2>1, <2>2, FS_CardinalityType, FS_EmptySet
  <2> QED BY <1>1, <2>1, <2>2, <2>3
<1>4. ASSUME NEW x \in S, NEW y \in S, Cardinality(Below[x]) = Cardinality(Below[y]),
             <<x, y>> \in R
      PROVE  x = y
  <2>1. Below[x] \subseteq Below[y]
    BY <1>2, <1>4 DEF Orders
  <2>2. Below[x] = Below[y]
    BY <1>3, <1>4, <2>1, FS_Subset
  <2>3. y \in Below[x]
    BY <1>3, <2>2
  <2> QED BY <1>2, <1>4, <2>3 DEF Orders
<1>5. \A x, y \in S : Cardinality(Below[x]) = Cardinality(Below[y]) => x = y
  BY <1>4 DEF Orders
<1>6. PICK f : f = [x \in S |-> Cardinality(Below[x])]
  OBVIOUS
<1>7. f \in Injection(S, 1..N)
  BY <1>3, <1>5, <1>6 DEF Injection, IsInjective
<1>8. IsFiniteSet(1..N) /\ Cardinality(1..N) = N
  BY <1>1, FS_Interval
<1>9. f \in Surjection(S, 1..N)
  BY <1>1, <1>7, <1>8, FS_Injection
<1>10. \A k \in 1..N : \E x \in S : Cardinality(Below[x]) = k
  BY <1>6, <1>9 DEF Surjection
<1> QED BY <1>1, <1>2, <1>3, <1>5, <1>10

=============================================================================
