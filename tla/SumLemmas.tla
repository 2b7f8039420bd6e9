------------------------------ MODULE SumLemmas ------------------------------
(* Sums over a finite set, for the accounts of the rings and the quarantine.  *)
(* The library's folds (SumFunctionOnSet, MapThenSumSet, FoldFunction) are one*)
(* recursive function on the subsets of the set.  Induction theorems with an  *)
(* operator parameter cannot be used, so induction is stated with sets: a set *)
(* of numbers that has 0 and the successors of its members has every number.  *)
EXTENDS Integers, FiniteSets, FiniteSetTheorems, Functions, FiniteSetsExt, WellFoundedInduction,
        TLAPS

First(s) == CHOOSE x \in s : TRUE

\* The recursive function of the folds: subset -> the sum of f over it.
Sums(f, S) == CHOOSE g : g = [s \in SUBSET S |->
                                IF s = {} THEN 0 ELSE f[First(s)] + g[s \ {First(s)}]]
Sum(f, S) == Sums(f, S)[S]

\* A function of the subsets of S that satisfies the recursion.
Adds(f, S, g) ==
    /\ g \in [SUBSET S -> Int]
    /\ \A s \in SUBSET S : g[s] = IF s = {} THEN 0 ELSE f[First(s)] + g[s \ {First(s)}]

SameOn(f, h, W) == \A x \in W : f[x] = h[x]

(***************************************************************************)
(* Induction                                                               *)
(***************************************************************************)
\* Induction on numbers: a set with 0 and the successor of each member.
LEMMA AllNumbers ==
    ASSUME NEW T, T \subseteq Nat, 0 \in T, \A n \in T : n + 1 \in T
    PROVE  T = Nat
<1> DEFINE R == OpToRel(<, Nat)
           U == Nat \ T
<1>1. IsWellFoundedOn(R, Nat)
  BY NatLessThanWellFounded
<1>2. SUFFICES ASSUME U # {} PROVE FALSE
  OBVIOUS
<1>3. PICK x \in U : \A y \in U : ~(<<y, x>> \in R)
  <2> HIDE DEF R
  <2>1. U \subseteq Nat
    OBVIOUS
  <2> HIDE DEF U
  <2> QED BY <1>1, <1>2, <2>1, WFMin
<1>4. x # 0 /\ x \in Nat
  OBVIOUS
<1>5. x - 1 \in Nat /\ x - 1 < x
  BY <1>4
<1>6. x - 1 \notin U
  BY <1>3, <1>4, <1>5 DEF OpToRel
<1>7. x - 1 \in T
  BY <1>5, <1>6
<1>8. (x - 1) + 1 \in T
  BY <1>7
<1>9. (x - 1) + 1 = x
  BY <1>4
<1> QED BY <1>8, <1>9

\* A subset of a finite set is finite; without one element it has one less.
LEMMA OneLess ==
    ASSUME NEW S, IsFiniteSet(S), NEW s \in SUBSET S
    PROVE  /\ IsFiniteSet(s) /\ Cardinality(s) \in Nat
           /\ Cardinality(s) = 0 <=> s = {}
           /\ \A x \in s : Cardinality(s \ {x}) = Cardinality(s) - 1
<1>1. IsFiniteSet(s)
  BY FS_Subset
<1>2. Cardinality(s) \in Nat
  BY <1>1, FS_CardinalityType
<1>3. Cardinality(s) = 0 <=> s = {}
  BY <1>1, FS_EmptySet
<1>4. \A x \in s : Cardinality(s \ {x}) = Cardinality(s) - 1
  BY <1>1, FS_RemoveElement
<1> QED BY <1>1, <1>2, <1>3, <1>4

\* An element is chosen from a set that has one.
LEMMA FirstIn == ASSUME NEW s, s # {} PROVE First(s) \in s
  BY DEF First

\* Induction on the subsets of a finite set, by their size.
LEMMA Subsets ==
    ASSUME NEW S, IsFiniteSet(S), NEW T, T \subseteq SUBSET S, {} \in T,
           \A s \in SUBSET S : s # {} /\ (\A x \in s : s \ {x} \in T) => s \in T
    PROVE  T = SUBSET S
<1> DEFINE N == {n \in Nat : \A s \in SUBSET S : Cardinality(s) = n => s \in T}
<1>1. 0 \in N
  BY OneLess
<1>2. ASSUME NEW n \in N PROVE n + 1 \in N
  <2>1. n \in Nat /\ n + 1 \in Nat
    OBVIOUS
  <2>2. ASSUME NEW s \in SUBSET S, Cardinality(s) = n + 1 PROVE s \in T
    <3>1. s # {}
      BY <2>1, <2>2, OneLess
    <3>2. ASSUME NEW x \in s PROVE s \ {x} \in T
      <4>1. Cardinality(s \ {x}) = n
        BY <2>1, <2>2, OneLess
      <4>2. s \ {x} \in SUBSET S
        OBVIOUS
      <4> QED BY <4>1, <4>2
    <3> QED BY <3>1, <3>2
  <2> QED BY <2>1, <2>2
<1>3. N = Nat
  <2>1. N \subseteq Nat
    OBVIOUS
  <2> HIDE DEF N
  <2> QED BY <1>1, <1>2, <2>1, AllNumbers
<1>4. ASSUME NEW s \in SUBSET S PROVE s \in T
  <2>1. Cardinality(s) \in N
    BY <1>3, OneLess
  <2> QED BY <2>1
<1> QED BY <1>4

(***************************************************************************)
(* The recursion has one solution                                          *)
(***************************************************************************)
\* Two solutions agree on the subsets they have in common, if the summands do.
LEMMA Agree ==
    ASSUME NEW S, NEW R, IsFiniteSet(S), NEW f, NEW h, NEW g, NEW k, Adds(f, S, g), Adds(h, R, k),
           NEW W, W \subseteq S, W \subseteq R, SameOn(f, h, W)
    PROVE  \A s \in SUBSET W : g[s] = k[s]
<1> DEFINE T == {s \in SUBSET W : g[s] = k[s]}
<1>1. IsFiniteSet(W)
  BY FS_Subset
<1>2. {} \in T
  BY DEF Adds
<1>3. ASSUME NEW s \in SUBSET W, s # {}, \A x \in s : s \ {x} \in T PROVE s \in T
  <2>1. First(s) \in s
    BY <1>3, FirstIn
  <2>2. s \ {First(s)} \in T /\ f[First(s)] = h[First(s)]
    BY <1>3, <2>1 DEF SameOn
  <2>3. g[s] = f[First(s)] + g[s \ {First(s)}]
    BY <1>3 DEF Adds
  <2>4. k[s] = h[First(s)] + k[s \ {First(s)}]
    BY <1>3 DEF Adds
  <2> QED BY <2>2, <2>3, <2>4
<1>4. T = SUBSET W
  <2>1. T \subseteq SUBSET W
    OBVIOUS
  <2> HIDE DEF T
  <2> QED BY <1>1, <1>2, <1>3, <2>1, Subsets
<1> QED BY <1>4

\* The recursion has a solution on a subset when it has on the smaller ones.
LEMMA Extended ==
    ASSUME NEW S, IsFiniteSet(S), NEW f \in [S -> Int], NEW s \in SUBSET S,
           \A v \in SUBSET s : v # s => \E g : Adds(f, v, g)
    PROVE  \E g : Adds(f, s, g)
<1> DEFINE G(v) == CHOOSE g : Adds(f, v, g)
           Rest(u) == u \ {First(u)}
           g == [u \in SUBSET s |-> IF u = {} THEN 0 ELSE f[First(u)] + G(Rest(u))[Rest(u)]]
<1>1. ASSUME NEW v \in SUBSET s, v # s PROVE Adds(f, v, G(v))
  BY <1>1
<1>2. ASSUME NEW u \in SUBSET s, u # {}
      PROVE  First(u) \in u /\ Rest(u) \in SUBSET s /\ Rest(u) # s
  BY <1>2, FirstIn
<1>3. ASSUME NEW v \in SUBSET s, v # s PROVE G(v)[v] \in Int
  <2>1. Adds(f, v, G(v))
    BY <1>1, <1>3
  <2> HIDE DEF G
  <2> QED BY <2>1 DEF Adds
<1>4. g \in [SUBSET s -> Int]
  <2>1. ASSUME NEW u \in SUBSET s, u # {} PROVE f[First(u)] + G(Rest(u))[Rest(u)] \in Int
    <3>1. f[First(u)] \in Int
      BY <1>2, <2>1
    <3>2. G(Rest(u))[Rest(u)] \in Int
      BY <1>2, <1>3, <2>1
    <3> HIDE DEF G, Rest
    <3> QED BY <3>1, <3>2
  <2> HIDE DEF G, Rest
  <2> QED BY <2>1
<1>5. ASSUME NEW v \in SUBSET s, v # s PROVE G(v)[v] = g[v]
  <2>1. CASE v = {}
    <3>1. G(v)[v] = 0
      BY <1>1, <1>5, <2>1 DEF Adds
    <3> HIDE DEF G, Rest
    <3> QED BY <2>1, <3>1
  <2>2. CASE v # {}
    <3>1. First(v) \in v /\ Rest(v) \in SUBSET s /\ Rest(v) # s
      BY <1>2, <2>2
    <3>2. Adds(f, v, G(v)) /\ Adds(f, Rest(v), G(Rest(v)))
      BY <1>1, <1>5, <3>1
    <3>3. G(v)[v] = f[First(v)] + G(v)[Rest(v)]
      <4> HIDE DEF G
      <4> QED BY <2>2, <3>2 DEF Adds
    <3>4. G(v)[Rest(v)] = G(Rest(v))[Rest(v)]
      <4>1. IsFiniteSet(v)
        BY <1>5, FS_Subset
      <4>2. Rest(v) \subseteq v /\ SameOn(f, f, Rest(v))
        BY DEF SameOn
      <4> HIDE DEF G, Rest
      <4> QED BY <3>2, <4>1, <4>2, Agree
    <3> HIDE DEF G, Rest
    <3> QED BY <2>2, <3>3, <3>4
  <2> QED BY <2>1, <2>2
<1>6. ASSUME NEW u \in SUBSET s PROVE g[u] = IF u = {} THEN 0 ELSE f[First(u)] + g[Rest(u)]
  <2>1. CASE u = {}
    BY <2>1
  <2>2. CASE u # {}
    <3>1. g[u] = f[First(u)] + G(Rest(u))[Rest(u)]
      BY <2>2
    <3>2. G(Rest(u))[Rest(u)] = g[Rest(u)]
      <4>1. Rest(u) \in SUBSET s /\ Rest(u) # s
        BY <1>2, <2>2
      <4> HIDE DEF g, G, Rest
      <4> QED BY <1>5, <4>1
    <3> HIDE DEF g, G
    <3> QED BY <2>2, <3>1, <3>2
  <2> QED BY <2>1, <2>2
<1>7. Adds(f, s, g)
  <2> HIDE DEF g
  <2> QED BY <1>4, <1>6 DEF Adds
<1> QED BY <1>7

\* On a finite set the recursion has a solution.
LEMMA Solution ==
    ASSUME NEW S, IsFiniteSet(S), NEW f \in [S -> Int]
    PROVE  \E g : Adds(f, S, g)
<1> DEFINE T == {s \in SUBSET S : \A v \in SUBSET s : \E g : Adds(f, v, g)}
<1>1. ASSUME NEW s \in SUBSET S, \A v \in SUBSET s : v # s => \E g : Adds(f, v, g)
      PROVE  s \in T
  <2>1. \E g : Adds(f, s, g)
    BY <1>1, Extended
  <2> QED BY <1>1, <2>1
<1>2. {} \in T
  BY <1>1
<1>3. ASSUME NEW s \in SUBSET S, s # {}, \A x \in s : s \ {x} \in T PROVE s \in T
  <2>1. ASSUME NEW v \in SUBSET s, v # s PROVE \E g : Adds(f, v, g)
    <3>1. PICK x \in s : v \subseteq s \ {x}
      BY <2>1
    <3>2. s \ {x} \in T
      BY <1>3
    <3> QED BY <3>1, <3>2
  <2> QED BY <1>1, <2>1
<1>4. T = SUBSET S
  <2>1. T \subseteq SUBSET S
    OBVIOUS
  <2> HIDE DEF T
  <2> QED BY <1>2, <1>3, <2>1, Subsets
<1>5. S \in T
  BY <1>4
<1> QED BY <1>5

\* The function the folds choose is that solution.
LEMMA SumsAdds ==
    ASSUME NEW S, IsFiniteSet(S), NEW f \in [S -> Int]
    PROVE  Adds(f, S, Sums(f, S))
<1> DEFINE Step(g) == [s \in SUBSET S |-> IF s = {} THEN 0 ELSE f[First(s)] + g[s \ {First(s)}]]
           sm == Sums(f, S)
<1>1. PICK g : Adds(f, S, g)
  BY Solution
<1>2. g = Step(g)
  <2>1. g = [s \in SUBSET S |-> g[s]]
    BY <1>1 DEF Adds
  <2> QED BY <1>1, <2>1 DEF Adds
<1>3. sm = Step(sm)
  BY <1>2 DEF Sums
<1>4. ASSUME NEW s \in SUBSET S
      PROVE  sm[s] = IF s = {} THEN 0 ELSE f[First(s)] + sm[s \ {First(s)}]
  <2> HIDE DEF sm
  <2> QED BY <1>3
<1>5. DOMAIN sm = SUBSET S /\ sm = [s \in SUBSET S |-> sm[s]]
  <2> HIDE DEF sm
  <2> QED BY <1>3
<1> DEFINE T == {s \in SUBSET S : sm[s] = g[s]}
<1>6. {} \in T
  <2> HIDE DEF sm
  <2> QED BY <1>1, <1>4 DEF Adds
<1>7. ASSUME NEW s \in SUBSET S, s # {}, \A x \in s : s \ {x} \in T PROVE s \in T
  <2>1. First(s) \in s
    BY <1>7, FirstIn
  <2>2. sm[s \ {First(s)}] = g[s \ {First(s)}]
    BY <1>7, <2>1
  <2> HIDE DEF sm
  <2>3. sm[s] = g[s]
    BY <1>1, <1>4, <1>7, <2>2 DEF Adds
  <2> QED BY <2>3
<1>8. T = SUBSET S
  <2>1. T \subseteq SUBSET S
    OBVIOUS
  <2> HIDE DEF T, sm
  <2> QED BY <1>6, <1>7, <2>1, Subsets
<1>9. sm = g
  <2>1. \A s \in SUBSET S : sm[s] = g[s]
    BY <1>8
  <2>2. g = [s \in SUBSET S |-> g[s]]
    BY <1>1 DEF Adds
  <2> HIDE DEF sm, T
  <2> QED BY <1>5, <2>1, <2>2
<1> QED BY <1>1, <1>9

(***************************************************************************)
(* Sums                                                                    *)
(***************************************************************************)
\* A sum over a part of a set is the value of the recursion there.
LEMMA SumOfPart ==
    ASSUME NEW S, IsFiniteSet(S), NEW f \in [S -> Int], NEW s \in SUBSET S
    PROVE  Sum(f, s) = Sums(f, S)[s] /\ Sum(f, s) \in Int
<1> DEFINE h == [x \in s |-> f[x]]
<1>1. IsFiniteSet(s)
  BY FS_Subset
<1>2. Adds(f, S, Sums(f, S))
  BY SumsAdds
<1>3. Sums(h, s) = Sums(f, s)
  <2>1. ASSUME NEW u \in SUBSET s, u # {} PROVE h[First(u)] = f[First(u)]
    BY <2>1, FirstIn
  <2>2. ASSUME NEW g
        PROVE  [u \in SUBSET s |-> IF u = {} THEN 0 ELSE h[First(u)] + g[u \ {First(u)}]]
               = [u \in SUBSET s |-> IF u = {} THEN 0 ELSE f[First(u)] + g[u \ {First(u)}]]
    <3> HIDE DEF h
    <3> QED BY <2>1
  <2> HIDE DEF h
  <2> QED BY <2>2, Zenon DEF Sums
<1>4. Adds(h, s, Sums(h, s))
  <2>1. h \in [s -> Int]
    OBVIOUS
  <2> HIDE DEF h
  <2> QED BY <1>1, <2>1, SumsAdds
<1>5. \A u \in SUBSET s : Sums(f, S)[u] = Sums(h, s)[u]
  <2>1. SameOn(f, h, s)
    BY DEF SameOn
  <2> DEFINE R == s
             g == Sums(f, S)
             k == Sums(h, s)
  <2>2. s \subseteq S /\ s \subseteq R
    OBVIOUS
  <2>3. Adds(f, S, g) /\ Adds(h, R, k)
    BY <1>2, <1>4
  <2> HIDE DEF h, g, k, R
  <2>4. \A u \in SUBSET s : g[u] = k[u]
    BY <2>1, <2>2, <2>3, Agree
  <2> QED BY <2>4 DEF g, k
<1>6. Sums(f, S)[s] = Sums(h, s)[s] /\ Sums(f, S)[s] \in Int
  BY <1>2, <1>5 DEF Adds
<1> QED BY <1>3, <1>6 DEF Sum

\* Nothing adds up to 0.
LEMMA SumOfNone == ASSUME NEW S, IsFiniteSet(S), NEW f \in [S -> Int] PROVE Sum(f, {}) = 0
<1>1. Sum(f, {}) = Sums(f, S)[{}]
  <2>1. {} \in SUBSET S
    OBVIOUS
  <2> QED BY <2>1, SumOfPart
<1>2. Adds(f, S, Sums(f, S))
  BY SumsAdds
<1> QED BY <1>1, <1>2 DEF Adds

\* Functions that agree on a set have the same sum over it.
LEMMA SumOfSame ==
    ASSUME NEW S, IsFiniteSet(S), NEW f \in [S -> Int], NEW h \in [S -> Int],
           NEW s \in SUBSET S, SameOn(f, h, s)
    PROVE  Sum(f, s) = Sum(h, s)
<1>1. PICK g : g = Sums(f, S)
  OBVIOUS
<1>2. PICK k : k = Sums(h, S)
  OBVIOUS
<1>3. Adds(f, S, g) /\ Adds(h, S, k)
  BY <1>1, <1>2, SumsAdds
<1>4. g[s] = k[s]
  BY <1>3, Agree
<1>5. Sum(f, s) = g[s] /\ Sum(h, s) = k[s]
  BY <1>1, <1>2, SumOfPart
<1> QED BY <1>4, <1>5

\* Which element the recursion takes first does not matter.
LEMMA TakeOut ==
    ASSUME NEW S, IsFiniteSet(S), NEW f \in [S -> Int], NEW g, Adds(f, S, g)
    PROVE  \A s \in SUBSET S : \A x \in s : g[s] = f[x] + g[s \ {x}]
<1> DEFINE T == {s \in SUBSET S : \A x \in s : g[s] = f[x] + g[s \ {x}]}
<1>1. {} \in T
  OBVIOUS
<1>2. ASSUME NEW s \in SUBSET S, s # {}, \A x \in s : s \ {x} \in T PROVE s \in T
  <2>1. PICK y \in s : y = First(s)
    BY <1>2, FirstIn
  <2>2. g[s] = f[y] + g[s \ {y}]
    BY <1>2, <2>1 DEF Adds
  <2>3. ASSUME NEW x \in s, x # y PROVE g[s] = f[x] + g[s \ {x}]
    <3>1. s \ {y} \in T /\ s \ {x} \in T
      BY <1>2
    <3>2. x \in s \ {y} /\ y \in s \ {x}
      BY <2>3
    <3>3. g[s \ {y}] = f[x] + g[(s \ {y}) \ {x}]
      BY <3>1, <3>2
    <3>4. g[s \ {x}] = f[y] + g[(s \ {x}) \ {y}]
      BY <3>1, <3>2
    <3>5. (s \ {y}) \ {x} = (s \ {x}) \ {y}
      OBVIOUS
    <3>6. PICK n \in Int : n = g[(s \ {x}) \ {y}]
      <4>1. (s \ {x}) \ {y} \in SUBSET S
        OBVIOUS
      <4> QED BY <4>1 DEF Adds
    <3>7. PICK i \in Int, j \in Int : i = f[x] /\ j = f[y]
      OBVIOUS
    <3>8. g[s \ {y}] = i + n /\ g[s \ {x}] = j + n
      BY <3>3, <3>4, <3>5, <3>6, <3>7
    <3>9. g[s] = j + (i + n)
      BY <2>2, <3>7, <3>8
    <3> QED BY <3>7, <3>8, <3>9
  <2>4. \A x \in s : g[s] = f[x] + g[s \ {x}]
    BY <2>2, <2>3
  <2> QED BY <2>4
<1>3. T = SUBSET S
  <2>1. T \subseteq SUBSET S
    OBVIOUS
  <2> HIDE DEF T
  <2> QED BY <1>1, <1>2, <2>1, Subsets
<1> QED BY <1>3

\* A sum is one of its summands and the sum of the others.
LEMMA SumWithout ==
    ASSUME NEW S, IsFiniteSet(S), NEW f \in [S -> Int], NEW s \in SUBSET S, NEW x \in s
    PROVE  Sum(f, s) = f[x] + Sum(f, s \ {x})
<1>1. Adds(f, S, Sums(f, S))
  BY SumsAdds
<1>2. Sums(f, S)[s] = f[x] + Sums(f, S)[s \ {x}]
  BY <1>1, TakeOut
<1>3. Sum(f, s) = Sums(f, S)[s]
  BY SumOfPart
<1>4. Sum(f, s \ {x}) = Sums(f, S)[s \ {x}]
  <2>1. s \ {x} \in SUBSET S
    OBVIOUS
  <2> QED BY <2>1, SumOfPart
<1> QED BY <1>2, <1>3, <1>4

\* One more element adds its summand.
LEMMA SumWith ==
    ASSUME NEW S, IsFiniteSet(S), NEW f \in [S -> Int], NEW s \in SUBSET S, NEW x \in S, x \notin s
    PROVE  Sum(f, s \cup {x}) = f[x] + Sum(f, s)
<1> DEFINE u == s \cup {x}
<1>1. u \in SUBSET S /\ x \in u /\ u \ {x} = s
  OBVIOUS
<1> HIDE DEF u
<1>2. Sum(f, u) = f[x] + Sum(f, u \ {x})
  BY <1>1, SumWithout
<1> QED BY <1>1, <1>2 DEF u

\* When one summand changes, the sum changes by as much.
LEMMA SumChanges ==
    ASSUME NEW S, IsFiniteSet(S), NEW f \in [S -> Int], NEW h \in [S -> Int], NEW x \in S,
           SameOn(f, h, S \ {x})
    PROVE  Sum(h, S) = Sum(f, S) + (h[x] - f[x])
<1>1. PICK s \in SUBSET S : s = S \ {x}
  OBVIOUS
<1>2. Sum(f, s) = Sum(h, s)
  BY <1>1, SumOfSame
<1>3. Sum(f, S) = f[x] + Sum(f, s) /\ Sum(h, S) = h[x] + Sum(h, s)
  <2>1. S \in SUBSET S
    OBVIOUS
  <2> QED BY <1>1, <2>1, SumWithout
<1>4. Sum(f, s) \in Int /\ f[x] \in Int /\ h[x] \in Int
  BY SumOfPart
<1> QED BY <1>2, <1>3, <1>4

\* Of summands that are natural numbers, a part adds up to no more than the whole.
LEMMA SumGrows ==
    ASSUME NEW S, IsFiniteSet(S), NEW f \in [S -> Int], \A x \in S : f[x] >= 0,
           NEW u \in SUBSET S, NEW s \in SUBSET u
    PROVE  0 <= Sum(f, s) /\ Sum(f, s) <= Sum(f, u)
<1> DEFINE P == {v \in SUBSET S : 0 <= Sum(f, v)}
           T == {v \in SUBSET S : s \subseteq v => Sum(f, s) <= Sum(f, v)}
<1>1. {} \in P
  BY SumOfNone
<1>2. ASSUME NEW v \in SUBSET S, v # {}, \A x \in v : v \ {x} \in P PROVE v \in P
  <2>1. PICK x \in v : TRUE
    BY <1>2
  <2>2. Sum(f, v) = f[x] + Sum(f, v \ {x})
    BY SumWithout
  <2>3. 0 <= Sum(f, v \ {x}) /\ Sum(f, v \ {x}) \in Int
    <3>1. v \ {x} \in SUBSET S
      OBVIOUS
    <3> QED BY <1>2, <3>1, SumOfPart
  <2>4. f[x] \in Int /\ f[x] >= 0
    OBVIOUS
  <2> QED BY <2>2, <2>3, <2>4
<1>3. P = SUBSET S
  <2>1. P \subseteq SUBSET S
    OBVIOUS
  <2> HIDE DEF P
  <2> QED BY <1>1, <1>2, <2>1, Subsets
<1>4. {} \in T
  <2>1. s \subseteq {} => Sum(f, s) = Sum(f, {})
    <3>1. s \subseteq {} => s = {}
      OBVIOUS
    <3> QED BY <3>1
  <2>2. Sum(f, {}) = 0
    BY SumOfNone
  <2> QED BY <2>1, <2>2
<1>5. ASSUME NEW v \in SUBSET S, v # {}, \A x \in v : v \ {x} \in T PROVE v \in T
  <2>1. SUFFICES ASSUME s \subseteq v PROVE Sum(f, s) <= Sum(f, v)
    OBVIOUS
  <2>2. Sum(f, v) \in Int /\ Sum(f, s) \in Int
    BY SumOfPart
  <2>3. CASE s = v
    BY <2>2, <2>3
  <2>4. CASE s # v
    <3>1. PICK x \in v : x \notin s
      BY <2>1, <2>4
    <3>2. Sum(f, v) = f[x] + Sum(f, v \ {x})
      BY SumWithout
    <3>3. Sum(f, s) <= Sum(f, v \ {x})
      BY <1>5, <2>1, <3>1
    <3>4. Sum(f, v \ {x}) \in Int
      <4>1. v \ {x} \in SUBSET S
        OBVIOUS
      <4> QED BY <4>1, SumOfPart
    <3>5. f[x] \in Int /\ f[x] >= 0
      OBVIOUS
    <3> QED BY <2>2, <3>2, <3>3, <3>4, <3>5
  <2> QED BY <2>3, <2>4
<1>6. T = SUBSET S
  <2>1. T \subseteq SUBSET S
    OBVIOUS
  <2> HIDE DEF T
  <2> QED BY <1>4, <1>5, <2>1, Subsets
<1>7. s \in P /\ u \in T
  BY <1>3, <1>6
<1> QED BY <1>7

(***************************************************************************)
(* The library's sums                                                      *)
(***************************************************************************)
\* FoldFunction with + is the sum over the domain.
LEMMA FoldIsSum == ASSUME NEW f PROVE FoldFunction(+, 0, f) = Sum(f, DOMAIN f)
  BY DEF FoldFunction, FoldFunctionOnSet, MapThenFoldSet, Sum, Sums, First
==============================================================================
