-------------------------- MODULE FiniteSetLemmas ---------------------------
(***************************************************************************)
(* Finite sets of numbers have a least and a greatest member, and the sum  *)
(* of a function over a finite set is what one expects of it.              *)
(***************************************************************************)
EXTENDS Integers, FiniteSets, FiniteSetsExt, FiniteSetTheorems, WellFoundedInduction, TLAPS

\* A function from a finite set to numbers has a greatest value: among the sets
\* of members with a greater value than some member, one is minimal, and empty.
LEMMA GreatestValue ==
    ASSUME NEW S, IsFiniteSet(S), S # {}, NEW f \in [S -> Int]
    PROVE  \E x \in S : \A y \in S : f[x] >= f[y]
<1> DEFINE above(x) == {y \in S : f[y] > f[x]}
           T == {above(x) : x \in S}
<1>1. T \subseteq FiniteSubsetsOf(S) /\ T # {}
  <2>1. \A x \in S : above(x) \in SUBSET S
    OBVIOUS
  <2>2. T \subseteq SUBSET S
    BY <2>1
  <2>3. T # {}
    <3>1. PICK x : x \in S
      OBVIOUS
    <3>2. above(x) \in T
      BY <3>1
    <3> QED  BY <3>2
  <2> QED  BY <2>2, <2>3, FS_FiniteSubsetsOfFinite
<1>2. IsWellFoundedOn(StrictSubsetOrdering(S), FiniteSubsetsOf(S))
  BY FS_StrictSubsetOrderingWellFounded
<1>3. PICK U \in T : \A V \in T : <<V, U>> \notin StrictSubsetOrdering(S)
  <2> HIDE DEF T
  <2> QED  BY <1>1, <1>2, WFMin
<1>4. PICK x \in S : U = above(x)
  OBVIOUS
<1>5. \A y \in S : f[x] >= f[y]
  <2>1. SUFFICES ASSUME NEW y \in S, f[y] > f[x] PROVE FALSE
    OBVIOUS
  <2>2. above(y) \subseteq above(x)
    <3>1. ASSUME NEW z \in S, f[z] > f[y] PROVE f[z] > f[x]
      <4>1. f[x] \in Int /\ f[y] \in Int /\ f[z] \in Int
        OBVIOUS
      <4> QED  BY <2>1, <3>1, <4>1
    <3> QED  BY <3>1
  <2>3. y \in above(x) /\ y \notin above(y)
    BY <2>1
  <2>4. above(y) \in T /\ above(y) \in SUBSET S /\ above(x) \in SUBSET S
    OBVIOUS
  <2>5. <<above(y), above(x)>> \in StrictSubsetOrdering(S)
    <3> HIDE DEF above
    <3> QED  BY <2>2, <2>3, <2>4 DEF StrictSubsetOrdering
  <2> QED  BY <1>3, <1>4, <2>4, <2>5
<1> QED
  BY <1>5

\* The least of finitely many numbers is one of them.
LEMMA LeastMember ==
    ASSUME NEW S \in SUBSET Nat, IsFiniteSet(S), S # {}
    PROVE  Min(S) \in S
<1>1. PICK x \in S : \A y \in S : [z \in S |-> 0 - z][x] >= [z \in S |-> 0 - z][y]
  <2>1. [z \in S |-> 0 - z] \in [S -> Int]
    OBVIOUS
  <2> QED  BY <2>1, GreatestValue
<1>2. \A y \in S : x =< y
  BY <1>1
<1> QED
  BY <1>2 DEF Min

\* So is the greatest.
LEMMA GreatestMember ==
    ASSUME NEW S \in SUBSET Nat, IsFiniteSet(S), S # {}
    PROVE  Max(S) \in S
<1>1. PICK x \in S : \A y \in S : [z \in S |-> z][x] >= [z \in S |-> z][y]
  <2>1. [z \in S |-> z] \in [S -> Int]
    OBVIOUS
  <2> QED  BY <2>1, GreatestValue
<1>2. \A y \in S : x >= y
  BY <1>1
<1> QED
  BY <1>2 DEF Max
-----------------------------------------------------------------------------
(* Sums.  The induction theorems of the library range over operators; this *)
(* form of induction ranges over a set of sets.                            *)

\* A set of subsets of S that has {}, and each subset that is in it when every
\* removal of one member leads into it, is all of SUBSET S.
LEMMA SubsetInduction ==
    ASSUME NEW S, IsFiniteSet(S), NEW G \in SUBSET SUBSET S, {} \in G,
           \A s \in SUBSET S : s # {} /\ (\A x \in s : s \ {x} \in G) => s \in G
    PROVE  G = SUBSET S
<1> SUFFICES ASSUME (SUBSET S) \ G # {} PROVE FALSE
  OBVIOUS
<1> DEFINE B == (SUBSET S) \ G
<1>1. B \subseteq FiniteSubsetsOf(S) /\ B # {}
  BY FS_FiniteSubsetsOfFinite
<1>2. PICK s \in B : \A t \in B : <<t, s>> \notin StrictSubsetOrdering(S)
  <2> HIDE DEF B
  <2> QED  BY <1>1, WFMin, FS_StrictSubsetOrderingWellFounded
<1>3. s \in SUBSET S /\ s \notin G
  OBVIOUS
<1>4. s # {}
  BY <1>3
<1>5. ASSUME NEW x \in s PROVE s \ {x} \notin B
  <2>1. <<s \ {x}, s>> \in StrictSubsetOrdering(S)
    BY <1>3 DEF StrictSubsetOrdering
  <2> HIDE DEF B
  <2> QED  BY <1>2, <2>1
<1> QED
  BY <1>3, <1>4, <1>5

pick(s) == CHOOSE x \in s : TRUE

\* f is the function that MapThenSumSet recurses with.
IsSum(f, v, S) ==
    f = [s \in SUBSET S |-> IF s = {} THEN 0 ELSE v[pick(s)] + f[s \ {pick(s)}]]

SumOf(v, S) == MapThenSumSet(LAMBDA x : v[x], S)

LEMMA SumUnfolds ==
    ASSUME NEW S, NEW v
    PROVE  SumOf(v, S) = (CHOOSE f : IsSum(f, v, S))[S]
BY DEF SumOf, MapThenSumSet, MapThenFoldSet, IsSum, pick

\* The recursion has a solution: there is one on the subsets of at most n
\* members, for each n, as one on those of at most n - 1 members extends to it.
LEMMA SumExists ==
    ASSUME NEW S, IsFiniteSet(S), NEW v
    PROVE  \E f : IsSum(f, v, S)
<1> DEFINE upto(n) == {s \in SUBSET S : Cardinality(s) <= n}
           rhs(f, s) == IF s = {} THEN 0 ELSE v[pick(s)] + f[s \ {pick(s)}]
           good(n) == \E f : f = [s \in upto(n) |-> rhs(f, s)]
           c == Cardinality(S)
           bad == {n \in 0 .. c : ~ good(n)}
<1>1. /\ c \in Nat
      /\ \A s \in SUBSET S : IsFiniteSet(s) /\ Cardinality(s) \in Nat /\ Cardinality(s) <= c
  BY FS_CardinalityType, FS_Subset
<1>2. ASSUME NEW s \in SUBSET S, s # {}
      PROVE  Cardinality(s \ {pick(s)}) = Cardinality(s) - 1 /\ s \ {pick(s)} \in SUBSET S
  <2>1. pick(s) \in s
    BY <1>2 DEF pick
  <2> QED  BY <1>1, <2>1, FS_RemoveElement
<1>3. good(0)
  <2>1. upto(0) = {{}}
    BY <1>1, FS_EmptySet
  <2>2. [s \in {{}} |-> 0] = [s \in upto(0) |-> rhs([t \in {{}} |-> 0], s)]
    BY <2>1
  <2> QED  BY <2>2
<1>4. ASSUME NEW n \in Nat, good(n) PROVE good(n + 1)
  <2>1. PICK f : f = [s \in upto(n) |-> rhs(f, s)]
    BY <1>4
  <2> DEFINE g == [s \in upto(n + 1) |-> rhs(f, s)]
  <2>2. \A s \in upto(n) : s \in upto(n + 1) /\ f[s] = rhs(f, s)
    <3>1. \A s \in upto(n) : s \in upto(n + 1)
      BY <1>1
    <3> HIDE DEF rhs, upto
    <3> QED  BY <2>1, <3>1
  <2>3. \A s \in upto(n) : g[s] = f[s]
    BY <2>2
  <2>4. ASSUME NEW s \in upto(n + 1), s # {} PROVE s \ {pick(s)} \in upto(n)
    BY <1>1, <1>2, <2>4
  <2>5. ASSUME NEW s \in upto(n + 1) PROVE rhs(g, s) = rhs(f, s)
    <3> HIDE DEF g, upto
    <3> QED  BY <2>3, <2>4
  <2>6. g = [s \in upto(n + 1) |-> rhs(g, s)]
    <3>1. g = [s \in upto(n + 1) |-> rhs(f, s)]
      OBVIOUS
    <3> HIDE DEF g, rhs, upto
    <3> QED  BY <2>5, <3>1
  <2> HIDE DEF g
  <2> QED  BY <2>6
<1>5. good(c)
  <2> HIDE DEF good
  <2> SUFFICES ASSUME bad # {} PROVE FALSE
    BY <1>1
  <2>1. bad \in SUBSET Nat /\ IsFiniteSet(bad)
    <3>1. IsFiniteSet(0 .. c) /\ bad \subseteq 0 .. c
      BY <1>1, FS_Interval
    <3> QED  BY <1>1, <3>1, FS_Subset
  <2>2. Min(bad) \in bad /\ \A m \in bad : Min(bad) <= m
    <3> HIDE DEF bad
    <3> QED  BY <2>1, LeastMember DEF Min
  <2>3. PICK m \in 0 .. c : m \in bad /\ m - 1 \notin bad
    BY <2>1, <2>2
  <2>4. m \in Nat /\ m <= c /\ ~ good(m)
    BY <1>1, <2>3
  <2>5. m # 0
    BY <1>3, <2>4
  <2>6. PICK l \in Nat : l = m - 1 /\ m = l + 1
    BY <2>4, <2>5
  <2>7. good(l)
    BY <1>1, <2>3, <2>4, <2>6
  <2> QED  BY <1>4, <2>4, <2>6, <2>7
<1>6. upto(c) = SUBSET S
  BY <1>1
<1>7. PICK f : f = [s \in upto(c) |-> rhs(f, s)]
  BY <1>5
<1> QED
  BY <1>6, <1>7 DEF IsSum

\* A sum does not depend on the order: any member can be taken out first.
LEMMA SumOut ==
    ASSUME NEW S, IsFiniteSet(S), NEW v, \A x \in S : v[x] \in Nat, NEW f, IsSum(f, v, S)
    PROVE  /\ f[{}] = 0
           /\ \A s \in SUBSET S : f[s] \in Nat /\ \A k \in s : f[s] = f[s \ {k}] + v[k]
<1>1. \A s \in SUBSET S : s # {} => pick(s) \in s /\ s \ {pick(s)} \in SUBSET S
  BY DEF pick
<1>2. f[{}] = 0 /\ \A s \in SUBSET S : s # {} => f[s] = v[pick(s)] + f[s \ {pick(s)}]
  BY DEF IsSum
<1>3. \A s \in SUBSET S : f[s] \in Nat
  <2> DEFINE G == {s \in SUBSET S : f[s] \in Nat}
  <2>1. {} \in G
    BY <1>2
  <2>2. ASSUME NEW s \in SUBSET S, s # {}, \A x \in s : s \ {x} \in G PROVE s \in G
    <3>1. pick(s) \in s /\ s \ {pick(s)} \in G
      BY <1>1, <2>2
    <3>2. f[s] = v[pick(s)] + f[s \ {pick(s)}]
      BY <1>2, <2>2
    <3> QED  BY <3>1, <3>2
  <2> HIDE DEF G
  <2>3. G = SUBSET S
    <3>1. G \in SUBSET SUBSET S
      BY DEF G
    <3> QED  BY <2>1, <2>2, <3>1, SubsetInduction
  <2> QED  BY <2>3 DEF G
<1> DEFINE out(s) == \A k \in s : f[s] = f[s \ {k}] + v[k]
           G == {s \in SUBSET S : out(s)}
<1>4. {} \in G
  OBVIOUS
<1>5. ASSUME NEW s \in SUBSET S, s # {}, \A x \in s : s \ {x} \in G PROVE s \in G
  <2> DEFINE x == pick(s)
  <2>1. x \in s /\ s \ {x} \in SUBSET S /\ f[s] = v[x] + f[s \ {x}]
    BY <1>1, <1>2, <1>5
  <2> HIDE DEF x
  <2>2. v[x] \in Nat /\ f[s \ {x}] \in Nat /\ out(s \ {x})
    BY <1>5, <1>3, <2>1
  <2>3. ASSUME NEW k \in s PROVE f[s] = f[s \ {k}] + v[k]
    <3>1. CASE k = x
      BY <2>1, <2>2, <3>1
    <3>2. CASE k # x
      <4>1. k \in s \ {x} /\ x \in s \ {k} /\ v[k] \in Nat
        BY <2>1, <3>2
      <4>2. out(s \ {k})
        BY <1>5
      <4> DEFINE rest == (s \ {x}) \ {k}
      <4>3. (s \ {k}) \ {x} = rest
        OBVIOUS
      <4>4. f[s \ {x}] = f[rest] + v[k]
        BY <2>2, <4>1
      <4>5. f[s \ {k}] = f[rest] + v[x]
        BY <4>1, <4>2, <4>3
      <4>6. f[rest] \in Nat
        BY <1>3
      <4> QED  BY <2>1, <2>2, <4>1, <4>4, <4>5, <4>6
    <3> QED  BY <3>1, <3>2
  <2> QED  BY <2>1, <2>2, <2>3
<1> HIDE DEF G
<1>6. G = SUBSET S
  <2>1. G \in SUBSET SUBSET S
    BY DEF G
  <2> QED  BY <1>4, <1>5, <2>1, SubsetInduction
<1> QED
  BY <1>2, <1>3, <1>6 DEF G

\* The sum of naturals is a natural, the sum of zeros is zero, and a sum grows
\* by one with one of its summands.
LEMMA SumLaws ==
    ASSUME NEW S, IsFiniteSet(S), NEW v \in [S -> Nat]
    PROVE  /\ SumOf(v, S) \in Nat
           /\ (\A x \in S : v[x] = 0) => SumOf(v, S) = 0
           /\ \A p \in S : \A w \in [S -> Nat] :
                  w = [v EXCEPT ![p] = @ + 1] => SumOf(w, S) = SumOf(v, S) + 1
<1> DEFINE f == CHOOSE g : IsSum(g, v, S)
<1>1. \A s \in SUBSET S : s # {} => pick(s) \in s /\ s \ {pick(s)} \in SUBSET S
  BY DEF pick
<1>2. ASSUME NEW w, NEW g, IsSum(g, w, S)
      PROVE  /\ g[{}] = 0
             /\ \A s \in SUBSET S : s # {} => g[s] = w[pick(s)] + g[s \ {pick(s)}]
  <2>1. \A s \in SUBSET S : g[s] = IF s = {} THEN 0 ELSE w[pick(s)] + g[s \ {pick(s)}]
    BY <1>2 DEF IsSum
  <2> QED  BY <2>1
<1>3. IsSum(f, v, S) /\ SumOf(v, S) = f[S]
  BY SumExists, SumUnfolds
<1> HIDE DEF f
<1>4. f[{}] = 0 /\ \A s \in SUBSET S : s # {} => f[s] = v[pick(s)] + f[s \ {pick(s)}]
  <2>1. IsSum(f, v, S)
    BY <1>3
  <2>2. \A s \in SUBSET S : f[s] = IF s = {} THEN 0 ELSE v[pick(s)] + f[s \ {pick(s)}]
    BY <2>1 DEF IsSum
  <2> QED  BY <2>2
<1>5. \A s \in SUBSET S : f[s] \in Nat
  BY <1>3, SumOut
<1>6. ASSUME \A x \in S : v[x] = 0 PROVE f[S] = 0
  <2> DEFINE G == {s \in SUBSET S : f[s] = 0}
  <2>1. {} \in G
    BY <1>4
  <2>2. ASSUME NEW s \in SUBSET S, s # {}, \A x \in s : s \ {x} \in G PROVE s \in G
    <3>1. pick(s) \in s /\ s \ {pick(s)} \in G
      BY <1>1, <2>2
    <3>2. f[s] = v[pick(s)] + f[s \ {pick(s)}]
      BY <1>4, <2>2
    <3> QED  BY <1>6, <3>1, <3>2
  <2> HIDE DEF G
  <2>3. G = SUBSET S
    <3>1. G \in SUBSET SUBSET S
      BY DEF G
    <3> QED  BY <2>1, <2>2, <3>1, SubsetInduction
  <2> QED  BY <2>3 DEF G
<1>7. ASSUME NEW p \in S, NEW w \in [S -> Nat], w = [v EXCEPT ![p] = @ + 1]
      PROVE  SumOf(w, S) = f[S] + 1
  <2> DEFINE g == CHOOSE h : IsSum(h, w, S)
             G == {s \in SUBSET S : g[s] = IF p \in s THEN f[s] + 1 ELSE f[s]}
  <2>1. IsSum(g, w, S) /\ SumOf(w, S) = g[S]
    BY SumExists, SumUnfolds
  <2> HIDE DEF g
  <2>2. {} \in G
    BY <1>2, <1>4, <2>1
  <2>3. ASSUME NEW s \in SUBSET S, s # {}, \A x \in s : s \ {x} \in G PROVE s \in G
    <3> DEFINE x == pick(s)
               t == s \ {pick(s)}
    <3>1. x \in s /\ t \in SUBSET S /\ t \in G
      <4> HIDE DEF G
      <4> QED  BY <1>1, <2>3
    <3>2. f[s] = v[x] + f[t]
      BY <1>4, <2>3
    <3>3. g[s] = w[x] + g[t]
      BY <1>2, <2>1, <2>3
    <3>4. /\ x \in s /\ t \in SUBSET S /\ t \in G
          /\ f[s] = v[x] + f[t] /\ g[s] = w[x] + g[t]
      BY <3>1, <3>2, <3>3
    <3>5. f[t] \in Nat /\ v[x] \in Nat /\ g[t] = IF p \in t THEN f[t] + 1 ELSE f[t]
      BY <1>5, <3>4
    <3>6. CASE x = p
      <4>1. w[x] = v[x] + 1 /\ p \in s /\ p \notin t
        BY <1>7, <3>4, <3>6
      <4> QED  BY <3>4, <3>5, <4>1
    <3>7. CASE x # p
      <4>1. w[x] = v[x] /\ (p \in s <=> p \in t)
        BY <1>7, <3>4, <3>7
      <4> HIDE DEF x, t
      <4> QED  BY <3>4, <3>5, <4>1
    <3> QED  BY <3>6, <3>7
  <2> HIDE DEF G
  <2>4. G = SUBSET S
    <3>1. G \in SUBSET SUBSET S
      BY DEF G
    <3> QED  BY <2>2, <2>3, <3>1, SubsetInduction
  <2> QED  BY <2>1, <2>4 DEF G
<1>8. f[S] \in Nat
  BY <1>5
<1> QED
  BY <1>3, <1>6, <1>7, <1>8

\* The sums over subsets of a subset are those of the set.
LEMMA SumPart ==
    ASSUME NEW S, IsFiniteSet(S), NEW T \in SUBSET S, NEW v,
           NEW f, IsSum(f, v, S), NEW g, IsSum(g, v, T)
    PROVE  g[T] = f[T]
<1>1. \A s \in SUBSET T : s # {} => pick(s) \in s /\ s \ {pick(s)} \in SUBSET T
  BY DEF pick
<1>2. g[{}] = 0 /\ \A s \in SUBSET T : s # {} => g[s] = v[pick(s)] + g[s \ {pick(s)}]
  BY DEF IsSum
<1>3. f[{}] = 0 /\ \A s \in SUBSET T : s # {} => f[s] = v[pick(s)] + f[s \ {pick(s)}]
  BY DEF IsSum
<1> DEFINE G == {s \in SUBSET T : g[s] = f[s]}
<1>4. {} \in G
  BY <1>2, <1>3
<1>5. ASSUME NEW s \in SUBSET T, s # {}, \A x \in s : s \ {x} \in G PROVE s \in G
  BY <1>1, <1>2, <1>3, <1>5
<1> HIDE DEF G
<1>6. G = SUBSET T
  <2>1. G \in SUBSET SUBSET T
    BY DEF G
  <2>2. IsFiniteSet(T)
    BY FS_Subset
  <2> QED  BY <1>4, <1>5, <2>1, <2>2, SubsetInduction
<1> QED
  BY <1>6 DEF G

\* A sum over one member more is greater by its value.
LEMMA SumAdds ==
    ASSUME NEW S, IsFiniteSet(S), NEW k, k \notin S, NEW v,
           \A x \in S \cup {k} : v[x] \in Nat
    PROVE  SumOf(v, S) \in Nat /\ SumOf(v, S \cup {k}) = SumOf(v, S) + v[k]
<1> DEFINE T == S \cup {k}
           f == CHOOSE h : IsSum(h, v, T)
           g == CHOOSE h : IsSum(h, v, S)
<1>1. IsFiniteSet(T) /\ S \in SUBSET T /\ k \in T /\ T \ {k} = S
  BY FS_AddElement
<1>2. IsSum(f, v, T) /\ SumOf(v, T) = f[T] /\ IsSum(g, v, S) /\ SumOf(v, S) = g[S]
  BY <1>1, SumExists, SumUnfolds
<1> HIDE DEF f, g
<1>3. g[S] = f[S]
  BY <1>1, <1>2, SumPart
<1>4. f[T] = f[T \ {k}] + v[k] /\ f[S] \in Nat
  <2> HIDE DEF T
  <2>1. \A x \in T : v[x] \in Nat
    BY DEF T
  <2> QED  BY <1>1, <1>2, <2>1, SumOut
<1> QED
  BY <1>1, <1>2, <1>3, <1>4

LEMMA SumType ==
    ASSUME NEW S, IsFiniteSet(S), NEW v, \A x \in S : v[x] \in Nat
    PROVE  SumOf(v, S) \in Nat
<1>1. PICK f : IsSum(f, v, S) /\ SumOf(v, S) = f[S]
  BY SumExists, SumUnfolds
<1> QED
  BY <1>1, SumOut

LEMMA SumOfNone ==
    ASSUME NEW v
    PROVE  SumOf(v, {}) = 0
<1>1. IsFiniteSet({})
  BY FS_EmptySet
<1>2. PICK f : IsSum(f, v, {}) /\ SumOf(v, {}) = f[{}]
  BY <1>1, SumExists, SumUnfolds
<1> QED
  BY <1>2 DEF IsSum
=============================================================================
