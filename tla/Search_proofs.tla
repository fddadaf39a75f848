---------------------------- MODULE Search_proofs ----------------------------
(***************************************************************************)
(* What TLAPS proves of the searches, for any concepts, rankings, limits,    *)
(* ranks and boosts: the properties of reciprocal rank fusion that            *)
(* HybridRespectsArms, MultiRespectsSubqueries and SimilarKeepsLimit rest     *)
(* on, first for finite sums and sorted lists, then for the three fusions,    *)
(* and last for the steps of a request.                                       *)
(***************************************************************************)
EXTENDS Search, FiniteSetTheorems, WellFoundedInduction, TLAPS

\* Induction on the naturals is used as the existence of a least one.
Below == {e \in Nat \X Nat : e[1] < e[2]}

LEMMA BelowWellFounded == IsWellFoundedOn(Below, Nat)
<1>1. OpToRel(<, Nat) = Below
  BY DEF OpToRel, Below
<1> QED BY <1>1, NatLessThanWellFounded

LEMMA LeastExists ==
  ASSUME NEW S, S \subseteq Nat, S # {}
  PROVE  \E x \in S : \A y \in S : x <= y
<1>1. PICK x \in S : \A y \in S : ~(<<y, x>> \in Below)
  BY BelowWellFounded, WFMin
<1>2. \A y \in S : ~(y < x)
  BY <1>1 DEF Below
<1> QED BY <1>2
-----------------------------------------------------------------------------
(* Sums of the community modules: a sum may take its terms in any order.   *)

Pick(s) == CHOOSE x \in s : TRUE
Rest(s) == s \ {Pick(s)}
IsSum(g, f, U) == g = [s \in SUBSET U |-> IF s = {} THEN 0 ELSE f[Pick(s)] + g[Rest(s)]]
Counts(f) == IsFiniteSet(DOMAIN f) /\ \A x \in DOMAIN f : f[x] \in Nat
Without(f, x) == [y \in DOMAIN f \ {x} |-> f[y]]

LEMMA SumIs ==
  ASSUME NEW f
  PROVE  SumFunction(f) = (CHOOSE g : IsSum(g, f, DOMAIN f))[DOMAIN f]
  BY DEF SumFunction, SumFunctionOnSet, FoldFunctionOnSet, MapThenFoldSet, IsSum, Pick, Rest

LEMMA RestSmaller ==
  ASSUME NEW s, IsFiniteSet(s), s # {}
  PROVE  /\ Pick(s) \in s /\ Rest(s) \subseteq s /\ IsFiniteSet(Rest(s))
         /\ Cardinality(s) \in Nat \ {0} /\ Cardinality(Rest(s)) = Cardinality(s) - 1
<1>1. Pick(s) \in s
  BY DEF Pick
<1>2. Cardinality(s) \in Nat /\ Cardinality(s) # 0
  BY FS_CardinalityType, FS_EmptySet
<1> QED BY <1>1, <1>2, FS_RemoveElement DEF Rest

LEMMA SumExists ==
  ASSUME NEW f, NEW U, IsFiniteSet(U)
  PROVE  \E g : IsSum(g, f, U)
<1> DEFINE Level(n) == {s \in SUBSET U : Cardinality(s) <= n}
           Build(h, n) == [s \in Level(n) |-> IF s = {} THEN 0 ELSE f[Pick(s)] + h[Rest(s)]]
           Bad == {n \in Nat : ~\E g : g = Build(g, n)}
<1>1. \A s \in SUBSET U : IsFiniteSet(s) /\ Cardinality(s) \in Nat
  BY FS_Subset, FS_CardinalityType
<1>2. Bad = {}
  <2> SUFFICES ASSUME Bad # {} PROVE FALSE
    OBVIOUS
  <2>1. PICK n \in Bad : \A m \in Bad : n <= m
    BY LeastExists
  <2>8. n \in Nat /\ ~\E g : g = Build(g, n)
    BY <2>1
  <2>9. \E g : g = Build(g, 0)
    <3>1. \A s \in Level(0) : s = {}
      BY <1>1, FS_EmptySet
    <3>2. [s \in Level(0) |-> 0] = Build([s \in Level(0) |-> 0], 0)
      BY <3>1
    <3> QED BY <3>2
  <2>2. n # 0
    <3> HIDE DEF Build
    <3> QED BY <2>8, <2>9
  <2>3. n - 1 \in Nat /\ n - 1 < n
    BY <2>8, <2>2
  <2>4. n - 1 \notin Bad
    <3> HIDE DEF Bad
    <3> QED BY <2>1, <2>3, <2>8
  <2>5. PICK h : h = Build(h, n - 1)
    BY <2>3, <2>4
  <2> DEFINE g == Build(h, n)
  <2>6. ASSUME NEW s \in Level(n), s # {}
        PROVE  g[Rest(s)] = h[Rest(s)]
    <3>1. Rest(s) \in SUBSET U /\ Cardinality(Rest(s)) = Cardinality(s) - 1
      BY <1>1, <2>6, RestSmaller
    <3>2. Rest(s) \in Level(n - 1) /\ Rest(s) \in Level(n)
      BY <1>1, <2>1, <3>1
    <3> HIDE DEF Level
    <3>3. h[Rest(s)] = IF Rest(s) = {} THEN 0 ELSE f[Pick(Rest(s))] + h[Rest(Rest(s))]
      BY <2>5, <3>2
    <3>4. g[Rest(s)] = IF Rest(s) = {} THEN 0 ELSE f[Pick(Rest(s))] + h[Rest(Rest(s))]
      BY <3>2
    <3> QED BY <3>3, <3>4
  <2>7. g = Build(g, n)
    <3> HIDE DEF Level
    <3> DEFINE G == g
    <3>1. G = Build(h, n)
      OBVIOUS
    <3>2. \A s \in Level(n) : s # {} => G[Rest(s)] = h[Rest(s)]
      BY <2>6
    <3> HIDE DEF G
    <3>3. Build(G, n) = Build(h, n)
      BY <3>2
    <3> QED BY <3>1, <3>3 DEF G
  <2> QED BY <2>8, <2>7
<1> DEFINE n == Cardinality(U)
<1>3. n \in Nat /\ Level(n) = SUBSET U
  <2>1. \A s \in SUBSET U : Cardinality(s) <= n
    BY FS_Subset
  <2> QED BY <1>1, <2>1
<1>4. PICK g : g = Build(g, n)
  BY <1>2, <1>3
<1>5. IsSum(g, f, U)
  BY <1>3, <1>4 DEF IsSum
<1> QED BY <1>5

\* What the recursion yields for a set depends on the terms in it only.
LEMMA SumsAgree ==
  ASSUME NEW f, NEW g, NEW U, IsSum(g, f, U), NEW e, NEW h, NEW V, IsSum(h, e, V),
         NEW s, s \subseteq U, s \subseteq V, IsFiniteSet(s), \A x \in s : f[x] = e[x]
  PROVE  g[s] = h[s]
<1> DEFINE Bad == {n \in Nat : \E t \in SUBSET s : Cardinality(t) = n /\ g[t] # h[t]}
<1>1. Bad = {}
  <2> SUFFICES ASSUME Bad # {} PROVE FALSE
    OBVIOUS
  <2>1. PICK n \in Bad : \A m \in Bad : n <= m
    BY LeastExists
  <2>2. PICK t \in SUBSET s : Cardinality(t) = n /\ g[t] # h[t]
    BY <2>1
  <2>3. IsFiniteSet(t) /\ t \in SUBSET U /\ t \in SUBSET V
    BY <2>2, FS_Subset
  <2>4. /\ g[t] = IF t = {} THEN 0 ELSE f[Pick(t)] + g[Rest(t)]
        /\ h[t] = IF t = {} THEN 0 ELSE e[Pick(t)] + h[Rest(t)]
    BY <2>3 DEF IsSum
  <2>5. t # {}
    BY <2>2, <2>4
  <2>6. /\ Pick(t) \in t /\ Rest(t) \in SUBSET s
        /\ n \in Nat \ {0} /\ Cardinality(Rest(t)) = n - 1
    BY <2>2, <2>3, <2>5, RestSmaller
  <2>7. n - 1 \in Nat /\ n - 1 < n
    BY <2>6
  <2>8. g[Rest(t)] = h[Rest(t)]
    BY <2>1, <2>6, <2>7
  <2> QED BY <2>2, <2>4, <2>5, <2>6, <2>8
<1>2. Cardinality(s) \in Nat
  BY FS_CardinalityType
<1> QED BY <1>1, <1>2

LEMMA SumEmpty ==
  ASSUME NEW f, DOMAIN f = {}
  PROVE  SumFunction(f) = 0
<1>1. \E g : IsSum(g, f, {})
  BY SumExists, FS_EmptySet
<1> DEFINE g == CHOOSE h : IsSum(h, f, {})
<1>2. IsSum(g, f, {})
  BY <1>1
<1>3. SumFunction(f) = g[{}]
  BY SumIs
<1> HIDE DEF g
<1> QED BY <1>2, <1>3 DEF IsSum

LEMMA SumPick ==
  ASSUME NEW f, IsFiniteSet(DOMAIN f), DOMAIN f # {}
  PROVE  SumFunction(f) = f[Pick(DOMAIN f)] + SumFunction(Without(f, Pick(DOMAIN f)))
<1> DEFINE U == DOMAIN f
           e == Without(f, Pick(U))
           g == CHOOSE k : IsSum(k, f, U)
           h == CHOOSE k : IsSum(k, e, Rest(U))
<1>1. DOMAIN e = Rest(U) /\ \A x \in Rest(U) : e[x] = f[x]
  BY DEF Without, Rest
<1>2. /\ Pick(U) \in U /\ Rest(U) \subseteq U /\ IsFiniteSet(Rest(U))
  BY RestSmaller
<1>3. IsSum(g, f, U)
  BY SumExists
<1>4. IsSum(h, e, Rest(U))
  BY <1>2, SumExists
<1>5. SumFunction(f) = g[U] /\ SumFunction(e) = h[Rest(U)]
  BY <1>1, SumIs
<1> HIDE DEF g, h, e
<1>6. g[Rest(U)] = h[Rest(U)]
  BY <1>1, <1>2, <1>3, <1>4, SumsAgree
<1>7. g[U] = f[Pick(U)] + g[Rest(U)]
  BY <1>3 DEF IsSum
<1> QED BY <1>5, <1>6, <1>7 DEF e

LEMMA WithoutCounts ==
  ASSUME NEW f, Counts(f), NEW x \in DOMAIN f
  PROVE  /\ Counts(Without(f, x)) /\ DOMAIN Without(f, x) = DOMAIN f \ {x}
         /\ \A y \in DOMAIN f \ {x} : Without(f, x)[y] = f[y]
         /\ Cardinality(DOMAIN f) \in Nat \ {0}
         /\ Cardinality(DOMAIN Without(f, x)) = Cardinality(DOMAIN f) - 1
<1>1. DOMAIN Without(f, x) = DOMAIN f \ {x} /\ \A y \in DOMAIN f \ {x} : Without(f, x)[y] = f[y]
  BY DEF Without
<1>2. IsFiniteSet(DOMAIN f) /\ \A y \in DOMAIN f : f[y] \in Nat
  BY DEF Counts
<1>3. /\ IsFiniteSet(DOMAIN f \ {x}) /\ Cardinality(DOMAIN f \ {x}) = Cardinality(DOMAIN f) - 1
  BY <1>2, FS_RemoveElement
<1>4. Cardinality(DOMAIN f) \in Nat /\ Cardinality(DOMAIN f) # 0
  BY <1>2, FS_CardinalityType, FS_EmptySet
<1> QED BY <1>1, <1>2, <1>3, <1>4 DEF Counts

LEMMA SumTyped ==
  ASSUME NEW f, Counts(f)
  PROVE  SumFunction(f) \in Nat
<1> DEFINE Bad == {n \in Nat : \E e : Counts(e) /\ Cardinality(DOMAIN e) = n /\ SumFunction(e) \notin Nat}
<1>1. Bad = {}
  <2> SUFFICES ASSUME Bad # {} PROVE FALSE
    OBVIOUS
  <2>1. PICK n \in Bad : \A m \in Bad : n <= m
    BY LeastExists
  <2>2. PICK e : Counts(e) /\ Cardinality(DOMAIN e) = n /\ SumFunction(e) \notin Nat
    BY <2>1
  <2>3. DOMAIN e # {}
    BY <2>2, SumEmpty
  <2> DEFINE x == Pick(DOMAIN e)
  <2>4. x \in DOMAIN e
    BY <2>3 DEF Pick
  <2>5. SumFunction(e) = e[x] + SumFunction(Without(e, x))
    BY <2>2, <2>3, SumPick DEF Counts
  <2> HIDE DEF x
  <2>6. /\ Counts(Without(e, x)) /\ Cardinality(DOMAIN Without(e, x)) = n - 1
        /\ n - 1 \in Nat /\ n - 1 < n
    <3>1. Counts(Without(e, x)) /\ Cardinality(DOMAIN Without(e, x)) = n - 1 /\ n \in Nat \ {0}
      BY <2>2, <2>4, WithoutCounts
    <3> QED BY ONLY <3>1
  <2>7. SumFunction(Without(e, x)) \in Nat
    BY <2>1, <2>6
  <2>8. e[x] \in Nat
    BY <2>2, <2>4 DEF Counts
  <2> QED BY <2>2, <2>5, <2>7, <2>8
<1>2. Cardinality(DOMAIN f) \in Nat
  BY FS_CardinalityType DEF Counts
<1> QED BY <1>1, <1>2

\* Any term can be the first.
LEMMA SumRemove ==
  ASSUME NEW f, Counts(f), NEW x \in DOMAIN f
  PROVE  SumFunction(f) = f[x] + SumFunction(Without(f, x))
<1> DEFINE Differ(e, a) == SumFunction(e) # e[a] + SumFunction(Without(e, a))
           Bad == {n \in Nat : \E e : /\ Counts(e) /\ Cardinality(DOMAIN e) = n
                                      /\ \E a \in DOMAIN e : Differ(e, a)}
<1>1. Bad = {}
  <2> SUFFICES ASSUME Bad # {} PROVE FALSE
    OBVIOUS
  <2>1. PICK n \in Bad : \A m \in Bad : n <= m
    BY LeastExists
  <2>2. PICK e : Counts(e) /\ Cardinality(DOMAIN e) = n /\ \E a \in DOMAIN e : Differ(e, a)
    BY <2>1
  <2>3. PICK a \in DOMAIN e : Differ(e, a)
    BY <2>2
  <2> DEFINE c == Pick(DOMAIN e)
  <2>4. c \in DOMAIN e
    BY <2>3 DEF Pick
  <2>5. SumFunction(e) = e[c] + SumFunction(Without(e, c))
    BY <2>2, <2>3, SumPick DEF Counts
  <2> HIDE DEF c
  <2>6. a # c
    BY <2>3, <2>5
  <2>7. /\ Counts(Without(e, c)) /\ Cardinality(DOMAIN Without(e, c)) = n - 1
        /\ n - 1 \in Nat /\ n - 1 < n
        /\ a \in DOMAIN Without(e, c) /\ Without(e, c)[a] = e[a]
    <3>1. /\ Counts(Without(e, c)) /\ Cardinality(DOMAIN Without(e, c)) = n - 1 /\ n \in Nat \ {0}
          /\ a \in DOMAIN Without(e, c) /\ Without(e, c)[a] = e[a]
      BY <2>2, <2>3, <2>4, <2>6, WithoutCounts
    <3> QED BY ONLY <3>1
  <2>8. /\ Counts(Without(e, a)) /\ Cardinality(DOMAIN Without(e, a)) = n - 1
        /\ c \in DOMAIN Without(e, a) /\ Without(e, a)[c] = e[c]
    BY <2>2, <2>3, <2>4, <2>6, WithoutCounts
  <2>9. SumFunction(Without(e, c)) = e[a] + SumFunction(Without(Without(e, c), a))
    BY <2>1, <2>7
  <2>10. SumFunction(Without(e, a)) = e[c] + SumFunction(Without(Without(e, a), c))
    BY <2>1, <2>7, <2>8
  <2>11. Without(Without(e, a), c) = Without(Without(e, c), a)
    <3>1. (DOMAIN e \ {a}) \ {c} = (DOMAIN e \ {c}) \ {a}
      OBVIOUS
    <3> QED BY <3>1 DEF Without
  <2>12. Counts(Without(Without(e, c), a))
    BY <2>7, WithoutCounts
  <2>13. e[a] \in Nat /\ e[c] \in Nat /\ SumFunction(Without(Without(e, c), a)) \in Nat
    BY <2>2, <2>3, <2>4, <2>12, SumTyped DEF Counts
  <2> QED BY <2>3, <2>5, <2>9, <2>10, <2>11, <2>13
<1>2. Cardinality(DOMAIN f) \in Nat
  BY FS_CardinalityType DEF Counts
<1> QED BY <1>1, <1>2

\* h matches every term of g with one of f that is no less.
Matches(h, g, f) ==
  /\ h \in [DOMAIN g -> DOMAIN f]
  /\ \A y, z \in DOMAIN g : h[y] = h[z] => y = z
  /\ \A y \in DOMAIN g : g[y] <= f[h[y]]

LEMMA MatchesRest ==
  ASSUME NEW f, NEW g, Counts(f), Counts(g), NEW h, Matches(h, g, f), NEW y \in DOMAIN g
  PROVE  Matches(Without(h, y), Without(g, y), Without(f, h[y]))
<1>1. h[y] \in DOMAIN f /\ DOMAIN h = DOMAIN g
  BY DEF Matches
<1>2. /\ DOMAIN Without(g, y) = DOMAIN g \ {y} /\ DOMAIN Without(f, h[y]) = DOMAIN f \ {h[y]}
      /\ \A z \in DOMAIN g \ {y} : Without(g, y)[z] = g[z]
      /\ \A z \in DOMAIN f \ {h[y]} : Without(f, h[y])[z] = f[z]
  BY <1>1, WithoutCounts
<1>3. \A z \in DOMAIN g \ {y} : h[z] \in DOMAIN f \ {h[y]}
  BY DEF Matches
<1>4. Without(h, y) = [z \in DOMAIN g \ {y} |-> h[z]]
  BY <1>1 DEF Without
<1> QED BY <1>2, <1>3, <1>4 DEF Matches

LEMMA SumNoLess ==
  ASSUME NEW f, NEW g, Counts(f), Counts(g), NEW h, Matches(h, g, f)
  PROVE  SumFunction(g) <= SumFunction(f)
<1> DEFINE Bad == {n \in Nat : \E k, e, m : /\ Counts(e) /\ Counts(m) /\ Matches(k, m, e)
                                            /\ Cardinality(DOMAIN m) = n
                                            /\ ~(SumFunction(m) <= SumFunction(e))}
<1>1. Bad = {}
  <2> SUFFICES ASSUME Bad # {} PROVE FALSE
    OBVIOUS
  <2>1. PICK n \in Bad : \A i \in Bad : n <= i
    BY LeastExists
  <2>2. PICK k, e, m : /\ Counts(e) /\ Counts(m) /\ Matches(k, m, e)
                       /\ Cardinality(DOMAIN m) = n
                       /\ ~(SumFunction(m) <= SumFunction(e))
    BY <2>1
  <2>3. SumFunction(m) \in Nat /\ SumFunction(e) \in Nat
    BY <2>2, SumTyped
  <2>4. SumFunction(m) # 0
    BY <2>2, <2>3
  <2>5. PICK y : y \in DOMAIN m
    BY <2>4, SumEmpty
  <2>6. /\ k[y] \in DOMAIN e /\ m[y] <= e[k[y]] /\ m[y] \in Nat /\ e[k[y]] \in Nat
    BY <2>2, <2>5 DEF Matches, Counts
  <2>7. /\ SumFunction(m) = m[y] + SumFunction(Without(m, y))
        /\ SumFunction(e) = e[k[y]] + SumFunction(Without(e, k[y]))
    BY <2>2, <2>5, <2>6, SumRemove
  <2>8. /\ Counts(Without(m, y)) /\ Counts(Without(e, k[y]))
        /\ Cardinality(DOMAIN Without(m, y)) = n - 1 /\ n - 1 \in Nat /\ n - 1 < n
    <3>1. /\ Counts(Without(m, y)) /\ Counts(Without(e, k[y]))
          /\ Cardinality(DOMAIN Without(m, y)) = n - 1 /\ n \in Nat \ {0}
      BY <2>2, <2>5, <2>6, WithoutCounts
    <3> QED BY ONLY <3>1
  <2>9. Matches(Without(k, y), Without(m, y), Without(e, k[y]))
    BY <2>2, <2>5, MatchesRest
  <2>10. SumFunction(Without(m, y)) <= SumFunction(Without(e, k[y]))
    BY <2>1, <2>8, <2>9
  <2>11. SumFunction(Without(m, y)) \in Nat /\ SumFunction(Without(e, k[y])) \in Nat
    BY <2>8, SumTyped
  <2> QED BY <2>2, <2>6, <2>7, <2>10, <2>11
<1>2. Cardinality(DOMAIN g) \in Nat
  BY FS_CardinalityType DEF Counts
<1> QED BY <1>1, <1>2

LEMMA SumMore ==
  ASSUME NEW f, NEW g, Counts(f), Counts(g), NEW h, Matches(h, g, f),
         NEW y \in DOMAIN g, g[y] < f[h[y]]
  PROVE  SumFunction(g) < SumFunction(f)
<1>1. h[y] \in DOMAIN f /\ g[y] \in Nat /\ f[h[y]] \in Nat
  BY DEF Matches, Counts
<1>2. /\ SumFunction(g) = g[y] + SumFunction(Without(g, y))
      /\ SumFunction(f) = f[h[y]] + SumFunction(Without(f, h[y]))
  BY <1>1, SumRemove
<1>3. Counts(Without(g, y)) /\ Counts(Without(f, h[y]))
  BY <1>1, WithoutCounts
<1>4. SumFunction(Without(g, y)) <= SumFunction(Without(f, h[y]))
  BY <1>3, MatchesRest, SumNoLess
<1>5. SumFunction(Without(g, y)) \in Nat /\ SumFunction(Without(f, h[y])) \in Nat
  BY <1>3, SumTyped
<1> QED BY <1>1, <1>2, <1>4, <1>5
LEMMA IntervalCount ==
  ASSUME NEW n \in Nat
  PROVE  IsFiniteSet(1..n) /\ Cardinality(1..n) = n
<1>1. \A a, b \in Int : IsFiniteSet(a..b) /\ Cardinality(a..b) = IF a > b THEN 0 ELSE b - a + 1
  BY FS_Interval
<1>2. IsFiniteSet(1..n) /\ Cardinality(1..n) = IF 1 > n THEN 0 ELSE n - 1 + 1
  BY <1>1
<1> QED BY <1>2
-----------------------------------------------------------------------------
(* A finite set in an order of its elements.                               *)

Orders(before, S) ==
  /\ \A a \in S : <<a, a>> \notin before
  /\ \A a, b \in S : a # b => <<a, b>> \in before \/ <<b, a>> \in before
  /\ \A a, b, c \in S : <<a, b>> \in before /\ <<b, c>> \in before => <<a, c>> \in before

Ranked(S, before, a) == {b \in S : <<b, a>> \in before}
Rank(S, before, a) == Cardinality(Ranked(S, before, a))

LEMMA RankInRange ==
  ASSUME NEW S, IsFiniteSet(S), NEW before, Orders(before, S), NEW a \in S
  PROVE  Rank(S, before, a) \in 0..(Cardinality(S) - 1)
<1>1. Ranked(S, before, a) \subseteq S /\ Ranked(S, before, a) # S
  BY DEF Ranked, Orders
<1>2. /\ IsFiniteSet(Ranked(S, before, a)) /\ Cardinality(Ranked(S, before, a)) <= Cardinality(S)
      /\ Cardinality(Ranked(S, before, a)) # Cardinality(S)
  BY <1>1, FS_Subset
<1>3. Cardinality(S) \in Nat /\ Cardinality(Ranked(S, before, a)) \in Nat
  BY <1>2, FS_CardinalityType
<1> QED BY <1>2, <1>3 DEF Rank

LEMMA RankGrows ==
  ASSUME NEW S, IsFiniteSet(S), NEW before, Orders(before, S), NEW a \in S, NEW b \in S, <<a, b>> \in before
  PROVE  Rank(S, before, a) < Rank(S, before, b)
<1>1. /\ Ranked(S, before, a) \subseteq Ranked(S, before, b)
      /\ a \in Ranked(S, before, b) /\ a \notin Ranked(S, before, a)
      /\ Ranked(S, before, b) \subseteq S
  BY DEF Ranked, Orders
<1>2. IsFiniteSet(Ranked(S, before, b))
  BY <1>1, FS_Subset
<1>3. /\ IsFiniteSet(Ranked(S, before, a))
      /\ Cardinality(Ranked(S, before, a)) <= Cardinality(Ranked(S, before, b))
      /\ Cardinality(Ranked(S, before, a)) # Cardinality(Ranked(S, before, b))
  BY <1>1, <1>2, FS_Subset
<1>4. Cardinality(Ranked(S, before, a)) \in Nat /\ Cardinality(Ranked(S, before, b)) \in Nat
  BY <1>2, <1>3, FS_CardinalityType
<1> QED BY <1>3, <1>4 DEF Rank

LEMMA SortedIs ==
  ASSUME NEW S, IsFiniteSet(S), NEW before, Orders(before, S)
  PROVE  /\ Cardinality(S) \in Nat
         /\ Sorted(S, before) \in [1..Cardinality(S) -> S]
         /\ \A a \in S : \E n \in 1..Cardinality(S) : Sorted(S, before)[n] = a
         /\ \A i, j \in 1..Cardinality(S) :
              i < j <=> <<Sorted(S, before)[i], Sorted(S, before)[j]>> \in before
<1> DEFINE n == Cardinality(S)
           f == [a \in S |-> Rank(S, before, a)]
           r == Sorted(S, before)
<1>1. n \in Nat
  BY FS_CardinalityType
<1>2. f \in [S -> 0..(n - 1)]
  BY RankInRange
<1>3. \A a, b \in S : <<a, b>> \in before => f[a] < f[b]
  BY RankGrows
<1>12. \A a \in S : f[a] \in Int /\ f[a] = Rank(S, before, a)
  BY <1>1, <1>2
<1>4. ASSUME NEW a \in S, NEW b \in S
      PROVE  /\ f[a] = f[b] => a = b
             /\ f[a] < f[b] => <<a, b>> \in before
  <2> HIDE DEF f
  <2>1. f[a] \in Int /\ f[b] \in Int
    BY <1>12
  <2>2. a # b => f[a] < f[b] \/ f[b] < f[a]
    BY <1>3 DEF Orders
  <2>3. f[a] < f[b] => a # b /\ ~(f[b] < f[a])
    BY <2>1
  <2> QED BY <1>3, <2>1, <2>2, <2>3 DEF Orders
<1>5. IsFiniteSet(0..(n - 1)) /\ Cardinality(0..(n - 1)) = n
  <2>1. IF 0 > n - 1 THEN Cardinality(0..(n - 1)) = 0 ELSE Cardinality(0..(n - 1)) = n - 1 - 0 + 1
    BY <1>1, FS_Interval
  <2>2. IsFiniteSet(0..(n - 1))
    BY <1>1, FS_Interval
  <2> QED BY <1>1, <2>1, <2>2
<1>6. \A k \in 0..(n - 1) : \E a \in S : f[a] = k
  <2>1. f \in Injection(S, 0..(n - 1))
    BY <1>2, <1>4 DEF Injection, IsInjective
  <2> HIDE DEF f, n
  <2>2. f \in Surjection(S, 0..(n - 1))
    BY <1>5, <2>1, FS_Injection DEF n
  <2> QED BY <2>2 DEF Surjection
<1>7. r = [k \in 1..n |-> CHOOSE a \in S : Rank(S, before, a) = k - 1]
  BY DEF Sorted, Rank, Ranked
<1> HIDE DEF f, n, r
<1>8. ASSUME NEW k \in 1..n
      PROVE  r[k] \in S /\ f[r[k]] = k - 1
  <2>1. k - 1 \in 0..(n - 1)
    BY <1>1
  <2>2. \E a \in S : Rank(S, before, a) = k - 1
    BY <1>6, <1>12, <2>1
  <2>3. r[k] \in S /\ Rank(S, before, r[k]) = k - 1
    BY <1>7, <2>2
  <2> QED BY <1>12, <2>3
<1>9. r \in [1..n -> S]
  BY <1>7, <1>8
<1>10. ASSUME NEW a \in S
       PROVE  \E k \in 1..n : r[k] = a
  <2>1. f[a] + 1 \in 1..n /\ (f[a] + 1) - 1 = f[a]
    BY <1>1, <1>2
  <2>2. r[f[a] + 1] = a
    BY <1>4, <1>8, <2>1
  <2> QED BY <2>1, <2>2
<1>11. ASSUME NEW i \in 1..n, NEW j \in 1..n
       PROVE  i < j <=> <<r[i], r[j]>> \in before
  <2>1. i \in Int /\ j \in Int
    BY <1>1
  <2>2. r[i] \in S /\ r[j] \in S /\ f[r[i]] = i - 1 /\ f[r[j]] = j - 1
    BY <1>8
  <2>3. i < j <=> f[r[i]] < f[r[j]]
    BY <2>1, <2>2
  <2> QED BY <1>3, <1>4, <2>2, <2>3
<1> QED BY <1>1, <1>9, <1>10, <1>11 DEF n, r

\* No element comes twice.
LEMMA SortedOnce ==
  ASSUME NEW S, IsFiniteSet(S), NEW before, Orders(before, S)
  PROVE  /\ Sorted(S, before) \in Seq(S) /\ Len(Sorted(S, before)) = Cardinality(S)
         /\ \A i, j \in DOMAIN Sorted(S, before) : Sorted(S, before)[i] = Sorted(S, before)[j] => i = j
<1> DEFINE n == Cardinality(S)
           r == Sorted(S, before)
<1>1. n \in Nat /\ r \in [1..n -> S]
  BY SortedIs
<1>2. \A i, j \in 1..n : i < j <=> <<r[i], r[j]>> \in before
  BY SortedIs
<1> HIDE DEF n, r
<1>3. ASSUME NEW i \in 1..n, NEW j \in 1..n, r[i] = r[j]
      PROVE  i = j
  <2>1. r[i] \in S /\ <<r[i], r[i]>> \notin before
    BY <1>1 DEF Orders
  <2>2. ~(i < j) /\ ~(j < i)
    BY <1>2, <1>3, <2>1
  <2>3. i \in Int /\ j \in Int
    BY <1>1
  <2> QED BY <2>2, <2>3
<1> QED BY <1>1, <1>3 DEF n, r

LEMMA AscendingIs ==
  ASSUME NEW S, IsFiniteSet(S), S \subseteq Nat
  PROVE  /\ Cardinality(S) \in Nat
         /\ Ascending(S) \in [1..Cardinality(S) -> S]
         /\ Ascending(S) \in Seq(S) /\ Len(Ascending(S)) = Cardinality(S)
         /\ \A a \in S : \E n \in 1..Cardinality(S) : Ascending(S)[n] = a
         /\ \A i, j \in 1..Cardinality(S) : i < j <=> Ascending(S)[i] < Ascending(S)[j]
<1> DEFINE before == {p \in S \X S : p[1] < p[2]}
           r == Sorted(S, before)
<1>1. \A a, b \in S : <<a, b>> \in before <=> a < b
  OBVIOUS
<1>2. Ascending(S) = r
  BY DEF Ascending
<1> HIDE DEF before
<1>3. Orders(before, S)
  <2>1. \A a \in S : ~(a < a)
    OBVIOUS
  <2>2. ASSUME NEW a \in S, NEW b \in S, NEW c \in S
        PROVE  /\ a # b => a < b \/ b < a
               /\ a < b /\ b < c => a < c
    <3>1. a \in Nat /\ b \in Nat /\ c \in Nat
      OBVIOUS
    <3> QED BY <3>1
  <2> QED BY <1>1, <2>1, <2>2 DEF Orders
<1>4. /\ Cardinality(S) \in Nat
      /\ r \in [1..Cardinality(S) -> S]
      /\ \A a \in S : \E n \in 1..Cardinality(S) : r[n] = a
      /\ \A i, j \in 1..Cardinality(S) : i < j <=> <<r[i], r[j]>> \in before
  BY <1>3, SortedIs
<1>5. r \in Seq(S) /\ Len(r) = Cardinality(S)
  BY <1>3, SortedOnce
<1> HIDE DEF r
<1> QED BY <1>1, <1>2, <1>4, <1>5
-----------------------------------------------------------------------------
(* Lists of hits.                                                          *)

LEMMA MinOfTwo ==
  ASSUME NEW m \in Int, NEW n \in Int
  PROVE  Min({m, n}) = IF m <= n THEN m ELSE n
<1> DEFINE S == {m, n}
           x == IF m <= n THEN m ELSE n
<1>1. x \in S /\ \A y \in S : x <= y
  OBVIOUS
<1>2. Min(S) \in S /\ \A y \in S : Min(S) <= y
  BY <1>1 DEF Min
<1>3. x <= Min(S) /\ Min(S) <= x /\ Min(S) \in Int /\ x \in Int
  BY <1>1, <1>2
<1> HIDE DEF x
<1>4. Min(S) = x
  BY <1>3
<1> QED BY <1>4 DEF x

LEMMA MaxOfTwo ==
  ASSUME NEW m \in Int, NEW n \in Int
  PROVE  Max({m, n}) \in Int
<1> DEFINE S == {m, n}
           x == IF m <= n THEN n ELSE m
<1>1. x \in S /\ \A y \in S : x >= y
  OBVIOUS
<1>2. Max(S) \in S
  BY <1>1 DEF Max
<1> QED BY <1>2

LEMMA MinExists ==
  ASSUME NEW S, S \subseteq Nat, S # {}
  PROVE  Min(S) \in S /\ \A y \in S : Min(S) <= y
  BY LeastExists DEF Min

LEMMA LimitPositive ==
  ASSUME NEW n \in Int
  PROVE  EffectiveLimit(n) \in Nat \ {0}
  BY FusionAssumption DEF EffectiveLimit

LEMMA CapIs ==
  ASSUME NEW T, NEW list \in Seq(T), NEW n \in Int
  PROVE  /\ Cap(list, n) \in Seq(T)
         /\ Len(Cap(list, n)) = (IF EffectiveLimit(n) <= Len(list) THEN EffectiveLimit(n) ELSE Len(list))
         /\ DOMAIN Cap(list, n) = 1..Len(Cap(list, n)) /\ Len(Cap(list, n)) \in Nat
         /\ DOMAIN Cap(list, n) \subseteq DOMAIN list
         /\ \A i \in DOMAIN Cap(list, n) : Cap(list, n)[i] = list[i]
<1> DEFINE m == IF EffectiveLimit(n) <= Len(list) THEN EffectiveLimit(n) ELSE Len(list)
<1>1. EffectiveLimit(n) \in Nat \ {0} /\ Len(list) \in Nat
  BY LimitPositive
<1>2. m \in 0..Len(list) /\ Cap(list, n) = SubSeq(list, 1, m)
  BY <1>1, MinOfTwo DEF Cap
<1> HIDE DEF m
<1> DEFINE c == SubSeq(list, 1, m)
<1>3. m \in Nat /\ m <= Len(list)
  BY <1>1, <1>2
<1>4. c \in Seq(T) /\ Len(c) = m /\ \A i \in 1..m : c[i] = list[i]
  BY <1>1, <1>3
<1>5. DOMAIN c = 1..m /\ DOMAIN list = 1..Len(list)
  BY <1>4
<1>6. 1..m \subseteq 1..Len(list)
  BY <1>1, <1>3
<1> HIDE DEF c
<1> QED BY <1>2, <1>3, <1>4, <1>5, <1>6 DEF m, c

Distinct(list) == \A i, j \in DOMAIN list : list[i].id = list[j].id => i = j

LEMMA AtIs ==
  ASSUME NEW T, NEW list \in Seq(T), NEW id
  PROVE  /\ At(list, id) \in Nat
         /\ At(list, id) # 0 => At(list, id) \in DOMAIN list /\ list[At(list, id)].id = id
         /\ At(list, id) = 0 <=> id \notin IdsOf(list)
         /\ Distinct(list) => \A i \in DOMAIN list : list[i].id = id => At(list, id) = i
<1> DEFINE at == {i \in DOMAIN list : list[i].id = id}
<1>1. DOMAIN list \subseteq Nat \ {0}
  OBVIOUS
<1>2. at \subseteq Nat /\ 0 \notin at
  BY <1>1
<1>3. At(list, id) = IF at = {} THEN 0 ELSE Min(at)
  BY DEF At
<1>4. at # {} => Min(at) \in at
  BY <1>2, MinExists
<1>5. id \in IdsOf(list) <=> at # {}
  BY DEF IdsOf
<1>6. CASE at = {}
  BY <1>3, <1>5, <1>6
<1>7. CASE at # {}
  <2>1. At(list, id) \in at
    BY <1>3, <1>4, <1>7
  <2> QED BY <1>2, <1>5, <1>7, <2>1 DEF Distinct
<1> QED BY <1>6, <1>7
-----------------------------------------------------------------------------
(* Where lists hold an id.                                                 *)

LEMMA PlaceIs ==
  ASSUME NEW lists, NEW id
  PROVE  \A p : p \in PlacesOf(lists, id) <=>
           \E l \in DOMAIN lists : \E i \in DOMAIN lists[l] : p = <<l, i>> /\ lists[l][i].id = id
<1>1. \A p : p \in Places(lists) <=> \E l \in DOMAIN lists : \E i \in DOMAIN lists[l] : p = <<l, i>>
  BY DEF Places
<1> QED BY <1>1 DEF PlacesOf

LEMMA PlacesFinite ==
  ASSUME NEW T, NEW lists \in Seq(Seq(T)), NEW id
  PROVE  IsFiniteSet(PlacesOf(lists, id)) /\ PlacesOf(lists, id) \subseteq Nat \X Nat
<1> DEFINE D == DOMAIN lists
           f == [l \in D |-> {l} \X DOMAIN lists[l]]
           S == {{l} \X DOMAIN lists[l] : l \in D}
<1>1. IsFiniteSet(D)
  <2>1. D = 1..Len(lists) /\ Len(lists) \in Nat
    OBVIOUS
  <2> QED BY <2>1, FS_Interval
<1>2. IsFiniteSet(S)
  <2>1. f \in Surjection(D, S)
    BY DEF Surjection
  <2> HIDE DEF f, S
  <2> QED BY <1>1, <2>1, FS_Surjection
<1>3. ASSUME NEW l \in D
      PROVE  IsFiniteSet({l} \X DOMAIN lists[l])
  <2>1. lists[l] \in Seq(T)
    OBVIOUS
  <2>2. DOMAIN lists[l] = 1..Len(lists[l]) /\ Len(lists[l]) \in Nat
    BY <2>1
  <2>3. IsFiniteSet(DOMAIN lists[l])
    BY <2>2, FS_Interval
  <2> QED BY <2>3, FS_Singleton, FS_Product
<1>4. IsFiniteSet(Places(lists))
  <2>1. \A U \in S : IsFiniteSet(U)
    BY <1>3
  <2>2. Places(lists) = UNION S
    BY DEF Places
  <2> HIDE DEF S
  <2> QED BY <1>2, <2>1, <2>2, FS_UNION
<1>5. PlacesOf(lists, id) \subseteq Places(lists)
  BY DEF PlacesOf
<1>6. ASSUME NEW l \in D, NEW i \in DOMAIN lists[l]
      PROVE  <<l, i>> \in Nat \X Nat
  <2>1. lists[l] \in Seq(T)
    OBVIOUS
  <2>2. l \in Nat /\ i \in Nat
    BY <2>1
  <2> QED BY <2>2
<1>7. PlacesOf(lists, id) \subseteq Nat \X Nat
  BY <1>6, PlaceIs
<1> QED BY <1>4, <1>5, <1>7, FS_Subset

LEMMA FoundIs ==
  ASSUME NEW lists, NEW id
  PROVE  id \in Found(lists) <=> PlacesOf(lists, id) # {}
<1>1. id \in Found(lists) <=> \E l \in DOMAIN lists : \E i \in DOMAIN lists[l] : lists[l][i].id = id
  BY DEF Found, IdsOf
<1>2. ASSUME NEW l \in DOMAIN lists, NEW i \in DOMAIN lists[l], lists[l][i].id = id
      PROVE  <<l, i>> \in PlacesOf(lists, id)
  BY <1>2, PlaceIs
<1>3. ASSUME NEW p \in PlacesOf(lists, id)
      PROVE  \E l \in DOMAIN lists : \E i \in DOMAIN lists[l] : lists[l][i].id = id
  BY PlaceIs
<1> QED BY <1>1, <1>2, <1>3

LEMMA EarlierOrders ==
  /\ \A p \in Nat \X Nat : ~Earlier(p, p)
  /\ \A p, q \in Nat \X Nat : p # q => Earlier(p, q) \/ Earlier(q, p)
  /\ \A p, q, r \in Nat \X Nat : Earlier(p, q) /\ Earlier(q, r) => Earlier(p, r)
<1>1. \A p \in Nat \X Nat : p[1] \in Nat /\ p[2] \in Nat /\ p = <<p[1], p[2]>>
  OBVIOUS
<1>2. \A i, j, k, l, m, n \in Nat :
        /\ ~(i < i \/ (i = i /\ j < j))
        /\ i # k \/ j # l => (i < k \/ (i = k /\ j < l)) \/ (k < i \/ (k = i /\ l < j))
        /\ (i < k \/ (i = k /\ j < l)) /\ (k < m \/ (k = m /\ l < n)) => (i < m \/ (i = m /\ j < n))
  OBVIOUS
<1>3. \A p \in Nat \X Nat : ~Earlier(p, p)
  BY <1>1, <1>2 DEF Earlier
<1>4. ASSUME NEW p \in Nat \X Nat, NEW q \in Nat \X Nat, p # q
      PROVE  Earlier(p, q) \/ Earlier(q, p)
  <2>1. p[1] # q[1] \/ p[2] # q[2]
    BY <1>1, <1>4
  <2> QED BY <1>1, <1>2, <2>1 DEF Earlier
<1>5. ASSUME NEW p \in Nat \X Nat, NEW q \in Nat \X Nat, NEW r \in Nat \X Nat, Earlier(p, q), Earlier(q, r)
      PROVE  Earlier(p, r)
  BY <1>1, <1>2, <1>5 DEF Earlier
<1> QED BY <1>3, <1>4, <1>5

LEMMA EarliestExists ==
  ASSUME NEW S, S \subseteq Nat \X Nat, S # {}
  PROVE  \E p \in S : \A q \in S \ {p} : Earlier(p, q)
<1> DEFINE L == {p[1] : p \in S}
<1>1. L \subseteq Nat /\ L # {}
  OBVIOUS
<1>2. PICK l \in L : \A m \in L : l <= m
  BY <1>1, LeastExists
<1> DEFINE R == {p[2] : p \in {q \in S : q[1] = l}}
<1>3. R \subseteq Nat /\ R # {}
  BY <1>2
<1>4. PICK i \in R : \A j \in R : i <= j
  BY <1>3, LeastExists
<1>5. PICK p \in S : p[1] = l /\ p[2] = i
  BY <1>4
<1>6. ASSUME NEW q \in S \ {p}
      PROVE  Earlier(p, q)
  <2>1. /\ q[1] \in Nat /\ q[2] \in Nat /\ l \in Nat /\ i \in Nat
        /\ p = <<l, i>> /\ q = <<q[1], q[2]>>
    BY <1>2, <1>3, <1>5
  <2>2. l <= q[1]
    BY <1>2
  <2>3. CASE q[1] = l
    <3>1. i <= q[2]
      BY <1>4, <2>3
    <3>2. q[2] # i
      BY <1>6, <2>1, <2>3
    <3> QED BY <1>5, <2>1, <2>3, <3>1, <3>2 DEF Earlier
  <2>4. CASE q[1] # l
    BY <1>5, <2>1, <2>2, <2>4 DEF Earlier
  <2> QED BY <2>3, <2>4
<1> QED BY <1>5, <1>6

LEMMA FirstSeenIs ==
  ASSUME NEW T, NEW lists \in Seq(Seq(T)), NEW id \in Found(lists)
  PROVE  firstSeen(lists, id) \in PlacesOf(lists, id)
<1>1. PlacesOf(lists, id) \subseteq Nat \X Nat /\ PlacesOf(lists, id) # {}
  BY PlacesFinite, FoundIs
<1>2. \E p \in PlacesOf(lists, id) : \A q \in PlacesOf(lists, id) \ {p} : Earlier(p, q)
  BY <1>1, EarliestExists
<1> QED BY <1>2 DEF firstSeen
-----------------------------------------------------------------------------
(* Shares and scores.                                                      *)

LEMMA ConstantsTyped ==
  /\ Tokens \in Nat \ {0} /\ Scale \in Nat \ {0} /\ MaxLength \in Nat
  /\ Ids \subseteq Nat /\ IsFiniteSet(Ids) /\ Cardinality(Ids) \in Nat /\ Cardinality(Ids) <= MaxLength
<1>1. Cardinality(Ids) \in Nat /\ Cardinality(Ids) > 1
  BY FusionAssumption, FS_CardinalityType
<1> QED BY <1>1, FusionAssumption DEF MaxLength

LEMMA ShareTyped ==
  ASSUME NEW k \in Nat \ {0}, NEW rank \in Nat
  PROVE  Share(k, rank) \in Nat
<1>1. k + rank \in Nat \ {0} /\ Scale \in Nat
  BY ConstantsTyped
<1> QED BY <1>1 DEF Share

\* The k of the three fusions.
Ks == {rrfK, multiRRFK, fusionRRFK}

LEMMA ShareFalls ==
  ASSUME NEW k \in Ks, NEW m \in 0..MaxLength, NEW n \in 0..MaxLength, m < n
  PROVE  Share(k, n) < Share(k, m)
<1>1. MaxLength \in Nat /\ Scale \in Nat \ {0} /\ k \in Nat \ {0}
  BY ConstantsTyped DEF Ks, rrfK, multiRRFK, fusionRRFK
<1>2. /\ Share(k, m) \in Nat /\ Share(k, m) * (k + m) = Scale
      /\ Share(k, n) \in Nat /\ Share(k, n) * (k + n) = Scale
  BY FusionAssumption DEF Ks, Share
<1> DEFINE x == Share(k, m)
           y == Share(k, n)
<1>3. x \in Nat /\ y \in Nat /\ x * (k + m) = y * (k + n) /\ y # 0 /\ x # 0
  <2>1. 0 * (k + n) = 0 /\ 0 * (k + m) = 0
    BY <1>1
  <2> QED BY <1>1, <1>2, <2>1
<1> HIDE DEF x, y
<1>4. m \in Nat /\ n \in Nat /\ k + m \in Nat \ {0} /\ k + n \in Nat \ {0} /\ k + m < k + n
  BY <1>1
<1>5. \A a, b, c, d \in Nat \ {0} : a * b = c * d /\ b < d => c < a
  <2> SUFFICES ASSUME NEW a \in Nat \ {0}, NEW b \in Nat \ {0}, NEW c \in Nat \ {0}, NEW d \in Nat \ {0},
                      a * b = c * d, b < d, a <= c
               PROVE  FALSE
    OBVIOUS
  <2>1. a * b <= c * b
    OBVIOUS
  <2>2. c * b < c * d
    OBVIOUS
  <2>3. a * b \in Nat /\ c * b \in Nat /\ c * d \in Nat
    OBVIOUS
  <2> QED BY <2>1, <2>2, <2>3
<1>6. y < x
  BY <1>3, <1>4, <1>5
<1> QED BY <1>6 DEF x, y

Shares(lists, k, base, id) == [p \in PlacesOf(lists, id) |-> Share(k, p[2] + base - 1)]

LEMMA SharesCount ==
  ASSUME NEW T, NEW lists \in Seq(Seq(T)), NEW k \in Nat \ {0}, NEW base \in {0, 1}, NEW id
  PROVE  /\ Counts(Shares(lists, k, base, id))
         /\ scores(lists, k, base, id) = SumFunction(Shares(lists, k, base, id))
         /\ scores(lists, k, base, id) \in Nat
<1>1. IsFiniteSet(PlacesOf(lists, id))
  BY PlacesFinite
<1>2. ASSUME NEW p \in PlacesOf(lists, id)
      PROVE  p[2] + base - 1 \in Nat
  <2>1. PICK l \in DOMAIN lists : \E i \in DOMAIN lists[l] : p = <<l, i>>
    BY PlaceIs
  <2>2. PICK i \in DOMAIN lists[l] : p = <<l, i>>
    BY <2>1
  <2>3. lists[l] \in Seq(T)
    OBVIOUS
  <2>4. i \in Nat \ {0}
    BY <2>3
  <2>5. p[2] = i
    BY <2>2
  <2> QED BY <2>4, <2>5
<1>3. Counts(Shares(lists, k, base, id))
  BY <1>1, <1>2, ShareTyped DEF Counts, Shares
<1>4. scores(lists, k, base, id) = SumFunction(Shares(lists, k, base, id))
  BY DEF scores, Shares
<1> QED BY <1>3, <1>4, SumTyped

\* Where no list names an id twice, its places are its ranks.
LEMMA PlacesAreRanks ==
  ASSUME NEW T, NEW lists \in Seq(Seq(T)), \A l \in DOMAIN lists : Distinct(lists[l]), NEW id
  PROVE  /\ PlacesOf(lists, id) = RanksOf(lists, id)
         /\ \A p : p \in PlacesOf(lists, id) <=>
              \E l \in DOMAIN lists : At(lists[l], id) # 0 /\ p = <<l, At(lists[l], id)>>
<1>1. ASSUME NEW p
      PROVE  p \in PlacesOf(lists, id) <=>
               \E l \in DOMAIN lists : At(lists[l], id) # 0 /\ p = <<l, At(lists[l], id)>>
  <2>1. ASSUME NEW l \in DOMAIN lists, NEW i \in DOMAIN lists[l], p = <<l, i>>, lists[l][i].id = id
        PROVE  At(lists[l], id) # 0 /\ p = <<l, At(lists[l], id)>>
    <3>1. lists[l] \in Seq(T) /\ Distinct(lists[l])
      OBVIOUS
    <3>2. At(lists[l], id) = i
      BY <2>1, <3>1, AtIs
    <3>3. i # 0
      BY <3>1
    <3> QED BY <2>1, <3>2, <3>3
  <2>2. ASSUME NEW l \in DOMAIN lists, At(lists[l], id) # 0, p = <<l, At(lists[l], id)>>
        PROVE  \E m \in DOMAIN lists : \E i \in DOMAIN lists[m] : p = <<m, i>> /\ lists[m][i].id = id
    <3>1. lists[l] \in Seq(T)
      OBVIOUS
    <3>2. At(lists[l], id) \in DOMAIN lists[l] /\ lists[l][At(lists[l], id)].id = id
      BY <2>2, <3>1, AtIs
    <3> QED BY <2>2, <3>2
  <2> QED BY <2>1, <2>2, PlaceIs
<1> QED BY <1>1 DEF RanksOf

Bounded(lists, base) == \A l \in DOMAIN lists : Len(lists[l]) + base - 1 <= MaxLength

LEMMA RankBounded ==
  ASSUME NEW T, NEW lists \in Seq(Seq(T)), NEW base \in {0, 1}, Bounded(lists, base),
         NEW l \in DOMAIN lists, NEW id, At(lists[l], id) # 0
  PROVE  At(lists[l], id) \in Nat /\ At(lists[l], id) + base - 1 \in 0..MaxLength
<1>1. lists[l] \in Seq(T)
  OBVIOUS
<1>2. At(lists[l], id) \in DOMAIN lists[l]
  BY <1>1, AtIs
<1>3. At(lists[l], id) \in 1..Len(lists[l]) /\ Len(lists[l]) \in Nat
  BY <1>1, <1>2
<1> QED BY <1>3, ConstantsTyped DEF Bounded

\* What is ahead in every list scores more.
LEMMA ScoreOfAhead ==
  ASSUME NEW T, NEW lists \in Seq(Seq(T)), \A l \in DOMAIN lists : Distinct(lists[l]),
         NEW k \in Ks, NEW base \in {0, 1}, Bounded(lists, base),
         NEW a, NEW b \in Found(lists), \A l \in DOMAIN lists : Ahead(a, b, lists[l])
  PROVE  scores(lists, k, base, b) < scores(lists, k, base, a)
<1> DEFINE f == Shares(lists, k, base, a)
           g == Shares(lists, k, base, b)
           h == [p \in PlacesOf(lists, b) |-> <<p[1], At(lists[p[1]], a)>>]
<1>1. k \in Nat \ {0}
  BY DEF Ks, rrfK, multiRRFK, fusionRRFK
<1>2. /\ DOMAIN f = PlacesOf(lists, a) /\ DOMAIN g = PlacesOf(lists, b)
      /\ \A p \in PlacesOf(lists, a) : f[p] = Share(k, p[2] + base - 1)
      /\ \A p \in PlacesOf(lists, b) : g[p] = Share(k, p[2] + base - 1)
  BY DEF Shares
<1>3. ASSUME NEW p \in PlacesOf(lists, b)
      PROVE  /\ p[1] \in DOMAIN lists /\ p = <<p[1], At(lists[p[1]], b)>>
             /\ h[p] \in PlacesOf(lists, a) /\ g[p] < f[h[p]]
  <2>1. PICK l \in DOMAIN lists : At(lists[l], b) # 0 /\ p = <<l, At(lists[l], b)>>
    BY PlacesAreRanks
  <2>2. At(lists[l], a) # 0 /\ At(lists[l], a) < At(lists[l], b)
    BY <2>1 DEF Ahead
  <2>3. h[p] = <<l, At(lists[l], a)>>
    BY <2>1
  <2>4. h[p] \in PlacesOf(lists, a)
    BY <2>2, <2>3, PlacesAreRanks
  <2>5. /\ At(lists[l], a) \in Nat /\ At(lists[l], a) + base - 1 \in 0..MaxLength
        /\ At(lists[l], b) \in Nat /\ At(lists[l], b) + base - 1 \in 0..MaxLength
    BY <2>1, <2>2, RankBounded
  <2>6. At(lists[l], a) + base - 1 < At(lists[l], b) + base - 1
    BY <2>2, <2>5
  <2>7. Share(k, At(lists[l], b) + base - 1) < Share(k, At(lists[l], a) + base - 1)
    BY <2>5, <2>6, ShareFalls
  <2>8. f[h[p]] = Share(k, At(lists[l], a) + base - 1) /\ g[p] = Share(k, At(lists[l], b) + base - 1)
    BY <1>2, <2>1, <2>3, <2>4
  <2> QED BY <2>1, <2>4, <2>7, <2>8
<1>4. Counts(f) /\ Counts(g)
  BY <1>1, SharesCount
<1>5. \A p, q \in PlacesOf(lists, b) : h[p] = h[q] => p = q
  BY <1>3
<1> HIDE DEF f, g
<1>6. \A p \in PlacesOf(lists, b) : g[p] \in Nat /\ f[h[p]] \in Nat /\ g[p] <= f[h[p]]
  <2> HIDE DEF h
  <2>1. \A p \in PlacesOf(lists, b) : g[p] \in Nat /\ f[h[p]] \in Nat
    BY <1>2, <1>3, <1>4 DEF Counts
  <2> QED BY <1>3, <2>1
<1>7. Matches(h, g, f)
  <2>1. h \in [DOMAIN g -> DOMAIN f]
    BY <1>2, <1>3
  <2> HIDE DEF h
  <2> QED BY <1>2, <1>5, <1>6, <2>1 DEF Matches
<1>8. PICK p : p \in PlacesOf(lists, b)
  BY FoundIs
<1> HIDE DEF h
<1>9. SumFunction(g) < SumFunction(f)
  BY <1>2, <1>3, <1>4, <1>7, <1>8, SumMore
<1> QED BY <1>1, <1>9, SharesCount DEF f, g

\* What is found scores.
LEMMA FoundScores ==
  ASSUME NEW T, NEW lists \in Seq(Seq(T)), \A l \in DOMAIN lists : Distinct(lists[l]),
         Bounded(lists, 0), NEW id \in Found(lists)
  PROVE  scores(lists, rrfK, 0, id) # 0
<1> DEFINE f == Shares(lists, rrfK, 0, id)
<1>1. rrfK \in Nat \ {0} /\ rrfK \in Ks
  BY DEF Ks, rrfK
<1>2. PICK p : p \in PlacesOf(lists, id)
  BY FoundIs
<1>3. PICK l \in DOMAIN lists : At(lists[l], id) # 0 /\ p = <<l, At(lists[l], id)>>
  BY <1>2, PlacesAreRanks
<1>4. p[2] + 0 - 1 \in 0..MaxLength
  BY <1>3, RankBounded
<1>5. Share(rrfK, p[2] + 0 - 1) \in Nat \ {0}
  <2> DEFINE m == p[2] + 0 - 1
  <2>1. m \in Nat
    BY <1>4, ConstantsTyped
  <2>2. (Scale \div (rrfK + m)) * (rrfK + m) = Scale
    BY <1>1, <1>4, FusionAssumption DEF Ks
  <2>3. Share(rrfK, m) * (rrfK + m) = Scale /\ Scale # 0
    BY <2>2, ConstantsTyped DEF Share
  <2> HIDE DEF m
  <2>4. Share(rrfK, m) \in Nat /\ rrfK + m \in Nat
    <3>1. Share(rrfK, m) \in Nat
      BY <1>1, <2>1, ShareTyped
    <3> QED BY <1>1, <2>1, <3>1
  <2>5. Share(rrfK, m) # 0
    BY <2>3, <2>4
  <2> QED BY <2>4, <2>5 DEF m
<1>6. Counts(f) /\ scores(lists, rrfK, 0, id) = SumFunction(f)
  BY <1>1, SharesCount
<1>7. p \in DOMAIN f /\ f[p] \in Nat \ {0}
  BY <1>2, <1>5 DEF Shares
<1> HIDE DEF f
<1>8. SumFunction(f) = f[p] + SumFunction(Without(f, p)) /\ Counts(Without(f, p))
  BY <1>6, <1>7, SumRemove, WithoutCounts
<1>9. SumFunction(Without(f, p)) \in Nat
  BY <1>8, SumTyped
<1> QED BY <1>6, <1>7, <1>8, <1>9

LEMMA ExchangedNoLess ==
  ASSUME NEW T, NEW lists \in Seq(Seq(T)), NEW k \in Ks, NEW base \in {0, 1}, NEW a, NEW b,
         \A p, q \in PlacesOf(lists, b) : p[2] = q[2] => p = q,
         \A p \in PlacesOf(lists, b) : \E q \in PlacesOf(lists, a) : q[2] = p[2]
  PROVE  scores(lists, k, base, b) <= scores(lists, k, base, a)
<1> DEFINE f == Shares(lists, k, base, a)
           g == Shares(lists, k, base, b)
           h == [p \in PlacesOf(lists, b) |-> CHOOSE q \in PlacesOf(lists, a) : q[2] = p[2]]
<1>1. k \in Nat \ {0}
  BY DEF Ks, rrfK, multiRRFK, fusionRRFK
<1>2. /\ DOMAIN f = PlacesOf(lists, a) /\ DOMAIN g = PlacesOf(lists, b)
      /\ \A p \in PlacesOf(lists, a) : f[p] = Share(k, p[2] + base - 1)
      /\ \A p \in PlacesOf(lists, b) : g[p] = Share(k, p[2] + base - 1)
  BY DEF Shares
<1>3. \A p \in PlacesOf(lists, b) : h[p] \in PlacesOf(lists, a) /\ h[p][2] = p[2]
  OBVIOUS
<1>4. Counts(f) /\ Counts(g)
  BY <1>1, SharesCount
<1>5. h \in [PlacesOf(lists, b) -> PlacesOf(lists, a)]
  BY <1>3
<1> HIDE DEF f, g, h
<1>6. \A p \in PlacesOf(lists, b) : g[p] \in Nat /\ f[h[p]] = g[p]
  BY <1>2, <1>3, <1>4 DEF Counts
<1>7. \A p, q \in PlacesOf(lists, b) : h[p] = h[q] => p = q
  BY <1>3
<1>8. \A p \in PlacesOf(lists, b) : g[p] <= f[h[p]]
  BY <1>6
<1>9. Matches(h, g, f)
  BY <1>2, <1>5, <1>7, <1>8 DEF Matches
<1>10. SumFunction(g) <= SumFunction(f)
  BY <1>4, <1>9, SumNoLess
<1> QED BY <1>1, <1>10, SharesCount DEF f, g

\* The ranks of an id that it has at one place each.
LEMMA RanksDiffer ==
  ASSUME NEW R, IsFiniteSet(R), Cardinality(R) = Cardinality({r[2] : r \in R})
  PROVE  \A p, q \in R : p[2] = q[2] => p = q
<1> DEFINE S == {r[2] : r \in R}
           f == [r \in R |-> r[2]]
<1>1. f \in Surjection(R, S)
  BY DEF Surjection
<1>2. \A r \in R : f[r] = r[2]
  OBVIOUS
<1> HIDE DEF f
<1>3. f \in Injection(R, S)
  BY <1>1, FS_Surjection
<1> QED BY <1>2, <1>3 DEF Injection, IsInjective

LEMMA ScoreOfExchanged ==
  ASSUME NEW T, NEW lists \in Seq(Seq(T)), \A l \in DOMAIN lists : Distinct(lists[l]),
         NEW k \in Ks, NEW base \in {0, 1}, NEW a, NEW b, Exchanged(a, b, lists)
  PROVE  scores(lists, k, base, a) = scores(lists, k, base, b)
<1>1. PlacesOf(lists, a) = RanksOf(lists, a) /\ PlacesOf(lists, b) = RanksOf(lists, b)
  BY PlacesAreRanks
<1>2. /\ {r[2] : r \in PlacesOf(lists, a)} = {r[2] : r \in PlacesOf(lists, b)}
      /\ Cardinality(PlacesOf(lists, a)) = Cardinality({r[2] : r \in PlacesOf(lists, a)})
      /\ Cardinality(PlacesOf(lists, b)) = Cardinality({r[2] : r \in PlacesOf(lists, b)})
  BY <1>1 DEF Exchanged
<1>3. IsFiniteSet(PlacesOf(lists, a)) /\ IsFiniteSet(PlacesOf(lists, b))
  BY PlacesFinite
<1>4. /\ \A p, q \in PlacesOf(lists, a) : p[2] = q[2] => p = q
      /\ \A p, q \in PlacesOf(lists, b) : p[2] = q[2] => p = q
  BY <1>2, <1>3, RanksDiffer
<1>5. /\ \A p \in PlacesOf(lists, b) : \E q \in PlacesOf(lists, a) : q[2] = p[2]
      /\ \A p \in PlacesOf(lists, a) : \E q \in PlacesOf(lists, b) : q[2] = p[2]
  <2>1. ASSUME NEW p \in PlacesOf(lists, b) PROVE \E q \in PlacesOf(lists, a) : q[2] = p[2]
    <3>1. p[2] \in {r[2] : r \in PlacesOf(lists, a)}
      BY <1>2
    <3> QED BY <3>1
  <2>2. ASSUME NEW p \in PlacesOf(lists, a) PROVE \E q \in PlacesOf(lists, b) : q[2] = p[2]
    <3>1. p[2] \in {r[2] : r \in PlacesOf(lists, b)}
      BY <1>2
    <3> QED BY <3>1
  <2> QED BY <2>1, <2>2
<1>6. /\ scores(lists, k, base, a) <= scores(lists, k, base, b)
      /\ scores(lists, k, base, b) <= scores(lists, k, base, a)
  BY <1>4, <1>5, ExchangedNoLess
<1>7. scores(lists, k, base, a) \in Nat /\ scores(lists, k, base, b) \in Nat
  <2>1. k \in Nat \ {0}
    BY DEF Ks, rrfK, multiRRFK, fusionRRFK
  <2> QED BY <2>1, SharesCount
<1> QED BY <1>6, <1>7
-----------------------------------------------------------------------------
(* The fused list.                                                         *)

Better(lists, k, base, weight, a, b) ==
  \/ scores(lists, k, base, a) * weight[a] > scores(lists, k, base, b) * weight[b]
  \/ /\ scores(lists, k, base, a) * weight[a] = scores(lists, k, base, b) * weight[b]
     /\ Earlier(firstSeen(lists, a), firstSeen(lists, b))

LEMMA FoundFinite ==
  ASSUME NEW T, \A x \in T : x.id \in Ids, NEW lists \in Seq(Seq(T))
  PROVE  Found(lists) \subseteq Ids /\ IsFiniteSet(Found(lists))
<1>1. ASSUME NEW l \in DOMAIN lists, NEW i \in DOMAIN lists[l]
      PROVE  lists[l][i].id \in Ids
  <2>1. lists[l] \in Seq(T)
    OBVIOUS
  <2>2. lists[l][i] \in T
    BY <2>1
  <2> QED BY <2>2
<1>2. Found(lists) \subseteq Ids
  BY <1>1 DEF Found, IdsOf
<1> QED BY <1>2, ConstantsTyped, FS_Subset

\* RRF lists every id it found once, a better one before a worse one.
Fuses(r, lists, k, base, weight) ==
  LET n == Cardinality(Found(lists))
  IN  /\ n \in Nat /\ r \in Seq(Found(lists)) /\ r \in Seq(Ids) /\ Len(r) = n /\ DOMAIN r = 1..n
      /\ \A i, j \in 1..n : r[i] = r[j] => i = j
      /\ \A a \in Found(lists) : \E i \in 1..n : r[i] = a
      /\ \A i, j \in 1..n : i < j <=> Better(lists, k, base, weight, r[i], r[j])

LEMMA RRFIs ==
  ASSUME NEW T, \A x \in T : x.id \in Ids, NEW lists \in Seq(Seq(T)),
         NEW k \in Ks, NEW base \in {0, 1},
         NEW weight, \A id \in Found(lists) : weight[id] \in Nat
  PROVE  Fuses(RRF(lists, k, base, weight), lists, k, base, weight)
<1> DEFINE ids == Found(lists)
           score == [id \in ids |-> scores(lists, k, base, id) * weight[id]]
           first == [id \in ids |-> firstSeen(lists, id)]
           before == {p \in ids \X ids : \/ score[p[1]] > score[p[2]]
                                         \/ score[p[1]] = score[p[2]] /\ Earlier(first[p[1]], first[p[2]])}
           n == Cardinality(ids)
           r == RRF(lists, k, base, weight)
<1>1. r = Sorted(ids, before)
  BY DEF RRF
<1>2. IsFiniteSet(ids) /\ ids \subseteq Ids
  BY FoundFinite
<1>3. \A a, b \in ids : <<a, b>> \in before <=>
        (score[a] > score[b] \/ (score[a] = score[b] /\ Earlier(first[a], first[b])))
  OBVIOUS
<1>4. \A a, b \in ids : <<a, b>> \in before <=> Better(lists, k, base, weight, a, b)
  BY DEF Better
<1>5. \A a \in ids : score[a] \in Nat
  <2> SUFFICES ASSUME NEW a \in ids PROVE score[a] \in Nat
    OBVIOUS
  <2>1. k \in Nat \ {0}
    BY DEF Ks, rrfK, multiRRFK, fusionRRFK
  <2>2. scores(lists, k, base, a) \in Nat /\ weight[a] \in Nat
    BY <2>1, SharesCount
  <2> QED BY <2>2
<1>6. \A a \in ids : first[a] \in PlacesOf(lists, a) /\ first[a] \in Nat \X Nat
  BY FirstSeenIs, PlacesFinite
<1>7. \A a, b \in ids : first[a] = first[b] => a = b
  BY <1>6 DEF PlacesOf
<1> HIDE DEF score, first, before
<1>8. Orders(before, ids)
  <2>1. \A a \in ids : <<a, a>> \notin before
    BY <1>3, <1>5, <1>6, EarlierOrders
  <2>2. ASSUME NEW a \in ids, NEW b \in ids, a # b
        PROVE  <<a, b>> \in before \/ <<b, a>> \in before
    <3>1. first[a] # first[b]
      BY <1>7, <2>2
    <3>2. Earlier(first[a], first[b]) \/ Earlier(first[b], first[a])
      BY <1>6, <3>1, EarlierOrders
    <3>3. score[a] \in Nat /\ score[b] \in Nat
      BY <1>5
    <3> QED BY <1>3, <3>2, <3>3
  <2>3. ASSUME NEW a \in ids, NEW b \in ids, NEW c \in ids, <<a, b>> \in before, <<b, c>> \in before
        PROVE  <<a, c>> \in before
    <3>1. Earlier(first[a], first[b]) /\ Earlier(first[b], first[c]) => Earlier(first[a], first[c])
      BY <1>6, EarlierOrders
    <3>2. score[a] \in Nat /\ score[b] \in Nat /\ score[c] \in Nat
      BY <1>5
    <3>3. /\ score[a] > score[b] \/ (score[a] = score[b] /\ Earlier(first[a], first[b]))
          /\ score[b] > score[c] \/ (score[b] = score[c] /\ Earlier(first[b], first[c]))
      BY <1>3, <2>3
    <3>4. score[a] > score[c] \/ (score[a] = score[c] /\ Earlier(first[a], first[c]))
      BY <3>1, <3>2, <3>3
    <3> QED BY <1>3, <3>4
  <2> QED BY <2>1, <2>2, <2>3 DEF Orders
<1>9. /\ n \in Nat /\ r \in [1..n -> ids]
      /\ \A a \in ids : \E i \in 1..n : r[i] = a
      /\ \A i, j \in 1..n : i < j <=> <<r[i], r[j]>> \in before
  BY <1>1, <1>2, <1>8, SortedIs
<1>10. r \in Seq(ids) /\ Len(r) = n /\ \A i, j \in DOMAIN r : r[i] = r[j] => i = j
  BY <1>1, <1>2, <1>8, SortedOnce
<1> HIDE DEF n, r, ids
<1>11. r \in Seq(Ids)
  BY <1>2, <1>10
<1>12. \A i, j \in 1..n : i < j <=> Better(lists, k, base, weight, r[i], r[j])
  BY <1>4, <1>9
<1>13. Fuses(r, lists, k, base, weight)
  BY <1>9, <1>10, <1>11, <1>12 DEF Fuses, n, ids
<1> QED BY <1>13 DEF r

\* A page of the fused list: what is better than a hit of it is a hit before it.
LEMMA BetterIsAhead ==
  ASSUME NEW T, \A x \in T : x.id \in Ids, NEW lists \in Seq(Seq(T)),
         NEW k \in Ks, NEW base \in {0, 1},
         NEW weight, \A id \in Found(lists) : weight[id] \in Nat, NEW limit \in Int,
         NEW U, NEW hits \in Seq(U),
         LET page == Cap(RRF(lists, k, base, weight), limit)
         IN  DOMAIN hits = DOMAIN page /\ \A i \in DOMAIN hits : hits[i].id = page[i],
         NEW a \in Found(lists), NEW b \in IdsOf(hits), Better(lists, k, base, weight, a, b)
  PROVE  Ahead(a, b, hits)
<1> DEFINE r == RRF(lists, k, base, weight)
           page == Cap(r, limit)
           n == Cardinality(Found(lists))
<1>0. Fuses(r, lists, k, base, weight)
  BY RRFIs
<1>2. DOMAIN hits = DOMAIN page /\ \A i \in DOMAIN hits : hits[i].id = page[i]
  OBVIOUS
<1> HIDE DEF r
<1>1. /\ n \in Nat /\ r \in Seq(Ids) /\ Len(r) = n /\ DOMAIN r = 1..n
      /\ \A i, j \in 1..n : r[i] = r[j] => i = j
      /\ \A c \in Found(lists) : \E i \in 1..n : r[i] = c
      /\ \A i, j \in 1..n : i < j <=> Better(lists, k, base, weight, r[i], r[j])
  BY <1>0 DEF Fuses
<1> HIDE DEF n
<1>3. /\ DOMAIN page = 1..Len(page) /\ Len(page) \in Nat /\ DOMAIN page \subseteq 1..n
      /\ \A i \in DOMAIN page : page[i] = r[i]
  BY <1>1, CapIs
<1> HIDE DEF page
<1>4. PICK j \in DOMAIN hits : hits[j].id = b
  BY DEF IdsOf
<1>5. PICK i \in 1..n : r[i] = a
  BY <1>1
<1>6. j \in 1..n /\ r[j] = b
  BY <1>2, <1>3, <1>4
<1>7. i < j
  BY <1>1, <1>5, <1>6
<1>8. i \in DOMAIN hits
  BY <1>2, <1>3, <1>4, <1>5, <1>7
<1>9. hits[i].id = a
  BY <1>2, <1>3, <1>5, <1>8
<1>10. Distinct(hits)
  BY <1>1, <1>2, <1>3 DEF Distinct
<1>11. At(hits, a) = i /\ At(hits, b) = j
  BY <1>4, <1>8, <1>9, <1>10, AtIs
<1>12. i # 0
  BY <1>1
<1> QED BY <1>7, <1>11, <1>12 DEF Ahead
-----------------------------------------------------------------------------
(* Hybrid search: the boosts, and the two arms.                            *)

ArmHits == [id : Ids, type : Types, official : BOOLEAN, titled : 0..Tokens]
HybridHits == [id : Ids, type : Types, official : BOOLEAN, titled : 0..Tokens, arm : {"both", "fts", "vector"}]

\* An arm names no concept twice.
LEMMA DistinctShort ==
  ASSUME NEW T, \A x \in T : x.id \in Ids, NEW list \in Seq(T), Distinct(list)
  PROVE  Len(list) <= Cardinality(Ids)
<1> DEFINE f == [i \in DOMAIN list |-> list[i].id]
<1>1. DOMAIN list = 1..Len(list) /\ Len(list) \in Nat /\ \A i \in DOMAIN list : list[i] \in T
  OBVIOUS
<1>2. f \in Injection(DOMAIN list, Ids)
  BY <1>1 DEF Distinct, Injection, IsInjective
<1> HIDE DEF f
<1>3. Cardinality(DOMAIN list) <= Cardinality(Ids)
  BY <1>2, ConstantsTyped, FS_Injection
<1>4. Cardinality(1..Len(list)) = Len(list)
  BY <1>1, IntervalCount
<1> QED BY <1>1, <1>3, <1>4

LEMMA ArmIs ==
  ASSUME NEW fts \in Seq(ArmHits), NEW vec \in Seq(ArmHits), Distinct(fts), Distinct(vec)
  PROVE  LET arms == <<fts, vec>>
         IN  /\ arms \in Seq(Seq(ArmHits)) /\ DOMAIN arms = {1, 2}
             /\ \A l \in DOMAIN arms : Distinct(arms[l])
             /\ Bounded(arms, 0)
             /\ \A id : Sightings(arms, id) = {fts[i] : i \in {At(fts, id)} \ {0}} \cup {vec[i] : i \in {At(vec, id)} \ {0}}
             /\ \A id : id \in Found(arms) <=> At(fts, id) # 0 \/ At(vec, id) # 0
<1> DEFINE arms == <<fts, vec>>
<1>1. arms \in Seq(Seq(ArmHits)) /\ DOMAIN arms = {1, 2} /\ arms[1] = fts /\ arms[2] = vec
  OBVIOUS
<1>2. \A l \in DOMAIN arms : Distinct(arms[l])
  BY <1>1
<1>3. \A x \in ArmHits : x.id \in Ids
  BY DEF ArmHits
<1>4. Bounded(arms, 0)
  <2>1. Len(fts) <= Cardinality(Ids) /\ Len(vec) <= Cardinality(Ids)
    BY <1>3, DistinctShort
  <2>2. Len(fts) \in Nat /\ Len(vec) \in Nat
    OBVIOUS
  <2>3. Len(fts) + 0 - 1 <= MaxLength /\ Len(vec) + 0 - 1 <= MaxLength
    BY <2>1, <2>2, ConstantsTyped
  <2> QED BY <1>1, <2>3 DEF Bounded
<1> HIDE DEF arms
<1>5. ASSUME NEW id
      PROVE  Sightings(arms, id) = {fts[i] : i \in {At(fts, id)} \ {0}} \cup {vec[i] : i \in {At(vec, id)} \ {0}}
  <2>1. \A p : p \in PlacesOf(arms, id) <=>
          \/ At(fts, id) # 0 /\ p = <<1, At(fts, id)>>
          \/ At(vec, id) # 0 /\ p = <<2, At(vec, id)>>
    <3>1. \A p : p \in PlacesOf(arms, id) <=>
            \E l \in DOMAIN arms : At(arms[l], id) # 0 /\ p = <<l, At(arms[l], id)>>
      BY <1>1, <1>2, PlacesAreRanks
    <3> QED BY <1>1, <3>1
  <2>2. Sightings(arms, id) = {arms[p[1]][p[2]] : p \in PlacesOf(arms, id)}
    BY DEF Sightings
  <2>3. \A x : x \in Sightings(arms, id) <=>
          \/ At(fts, id) # 0 /\ x = fts[At(fts, id)]
          \/ At(vec, id) # 0 /\ x = vec[At(vec, id)]
    <3>1. ASSUME At(fts, id) # 0 PROVE fts[At(fts, id)] \in Sightings(arms, id)
      <4>1. <<1, At(fts, id)>> \in PlacesOf(arms, id)
        BY <2>1, <3>1
      <4> QED BY <1>1, <2>2, <4>1
    <3>2. ASSUME At(vec, id) # 0 PROVE vec[At(vec, id)] \in Sightings(arms, id)
      <4>1. <<2, At(vec, id)>> \in PlacesOf(arms, id)
        BY <2>1, <3>2
      <4> QED BY <1>1, <2>2, <4>1
    <3>3. ASSUME NEW x \in Sightings(arms, id)
          PROVE  \/ At(fts, id) # 0 /\ x = fts[At(fts, id)]
                 \/ At(vec, id) # 0 /\ x = vec[At(vec, id)]
      <4>1. PICK p \in PlacesOf(arms, id) : x = arms[p[1]][p[2]]
        BY <2>2
      <4> QED BY <1>1, <2>1, <4>1
    <3> QED BY <3>1, <3>2, <3>3
  <2> QED BY <2>3
<1>6. ASSUME NEW id
      PROVE  id \in Found(arms) <=> At(fts, id) # 0 \/ At(vec, id) # 0
  <2>1. id \in Found(arms) <=> id \in IdsOf(fts) \/ id \in IdsOf(vec)
    BY <1>1 DEF Found
  <2> QED BY <2>1, AtIs
<1> QED BY <1>1, <1>2, <1>4, <1>5, <1>6 DEF arms

\* The boosts of a concept come from what the arms read of it.
LEMMA BoostIs ==
  ASSUME NEW fts \in Seq(ArmHits), NEW vec \in Seq(ArmHits), Distinct(fts), Distinct(vec),
         NEW id \in Found(<<fts, vec>>)
  PROVE  LET seen == Sightings(<<fts, vec>>, id)
             b == boost(fts, vec, id)
         IN  /\ \E x \in seen : b.titled = x.titled
             /\ \E x \in seen : b.type = x.type
             /\ b.official <=> \E x \in seen : x.official
             /\ b.titled \in 0..Tokens /\ b.type \in Types /\ b.official \in BOOLEAN
             /\ b.weight = typeWeight(b.type) * titleBoost(b.titled) * officialBoost(b.official)
<1> DEFINE seen == Sightings(<<fts, vec>>, id)
           f == At(fts, id)
           v == At(vec, id)
           title == IF f # 0 THEN fts[f].titled ELSE vec[v].titled
           type == IF v # 0 THEN vec[v].type ELSE fts[f].type
           official == (f # 0 /\ fts[f].official) \/ (v # 0 /\ vec[v].official)
           b == boost(fts, vec, id)
<1>1. /\ b.type = type /\ b.titled = title /\ b.official = official
      /\ b.weight = typeWeight(type) * titleBoost(title) * officialBoost(official)
  BY DEF boost
<1>2. seen = {fts[i] : i \in {f} \ {0}} \cup {vec[i] : i \in {v} \ {0}}
  BY ArmIs
<1>3. f # 0 \/ v # 0
  BY ArmIs
<1>4. f # 0 => fts[f] \in ArmHits /\ fts[f] \in seen
  <2>1. f # 0 => f \in DOMAIN fts
    BY AtIs
  <2> QED BY <1>2, <2>1
<1>5. v # 0 => vec[v] \in ArmHits /\ vec[v] \in seen
  <2>1. v # 0 => v \in DOMAIN vec
    BY AtIs
  <2> QED BY <1>2, <2>1
<1> HIDE DEF b, seen, f, v
<1>6. /\ \E x \in seen : title = x.titled
      /\ \E x \in seen : type = x.type
      /\ official <=> \E x \in seen : x.official
  BY <1>2, <1>3, <1>4, <1>5
<1>7. title \in 0..Tokens /\ type \in Types /\ official \in BOOLEAN
  BY <1>3, <1>4, <1>5 DEF ArmHits
<1>8. /\ \E x \in seen : b.titled = x.titled
      /\ \E x \in seen : b.type = x.type
      /\ b.official <=> \E x \in seen : x.official
      /\ b.titled \in 0..Tokens /\ b.type \in Types /\ b.official \in BOOLEAN
      /\ b.weight = typeWeight(b.type) * titleBoost(b.titled) * officialBoost(b.official)
  BY <1>1, <1>6, <1>7
<1> QED BY <1>8 DEF b, seen

LEMMA ProductGrows ==
  ASSUME NEW a \in Nat \ {0}, NEW b \in Nat \ {0}, NEW c \in Nat, NEW d \in Nat, c <= a, d <= b
  PROVE  /\ c * d <= a * b
         /\ c < a \/ d < b => c * d < a * b
<1>1. c * d <= a * d /\ a * d <= a * b
  OBVIOUS
<1>2. c < a => c * b < a * b
  OBVIOUS
<1>3. c * d <= c * b
  OBVIOUS
<1>4. d < b => a * d < a * b
  OBVIOUS
<1>5. c * d \in Nat /\ a * d \in Nat /\ a * b \in Nat /\ c * b \in Nat
  OBVIOUS
<1> QED BY <1>1, <1>2, <1>3, <1>4, <1>5

LEMMA WeightNoLess ==
  ASSUME NEW fts \in Seq(ArmHits), NEW vec \in Seq(ArmHits), Distinct(fts), Distinct(vec),
         NEW a \in Found(<<fts, vec>>), NEW b \in Found(<<fts, vec>>),
         Every(NoLess, <<fts, vec>>, a, b)
  PROVE  LET v == boost(fts, vec, a).weight
             w == boost(fts, vec, b).weight
         IN  /\ v \in Nat \ {0} /\ w \in Nat \ {0} /\ w <= v
             /\ Boosted(<<fts, vec>>, a, b) => w < v
<1> DEFINE arms == <<fts, vec>>
           p == boost(fts, vec, a)
           q == boost(fts, vec, b)
<1>1. /\ \E x \in Sightings(arms, a) : p.titled = x.titled
      /\ \E x \in Sightings(arms, a) : p.type = x.type
      /\ p.official <=> \E x \in Sightings(arms, a) : x.official
      /\ p.titled \in 0..Tokens /\ p.type \in Types /\ p.official \in BOOLEAN
      /\ p.weight = typeWeight(p.type) * titleBoost(p.titled) * officialBoost(p.official)
  BY BoostIs
<1>2. /\ \E x \in Sightings(arms, b) : q.titled = x.titled
      /\ \E x \in Sightings(arms, b) : q.type = x.type
      /\ q.official <=> \E x \in Sightings(arms, b) : x.official
      /\ q.titled \in 0..Tokens /\ q.type \in Types /\ q.official \in BOOLEAN
      /\ q.weight = typeWeight(q.type) * titleBoost(q.titled) * officialBoost(q.official)
  BY BoostIs
<1>3. \A x \in Sightings(arms, a), y \in Sightings(arms, b) :
        /\ typeWeight(x.type) >= typeWeight(y.type) /\ x.titled >= y.titled
        /\ (y.official => x.official)
  BY DEF Every, NoLess
<1> DEFINE t1 == typeWeight(p.type)  t2 == typeWeight(q.type)
           u1 == titleBoost(p.titled)  u2 == titleBoost(q.titled)
           o1 == officialBoost(p.official)  o2 == officialBoost(q.official)
<1> HIDE DEF arms, p, q
<1>4. /\ t1 \in Nat \ {0} /\ t2 \in Nat \ {0} /\ o1 \in Nat \ {0} /\ o2 \in Nat \ {0}
  BY DEF typeWeight, officialBoost
<1>5. u1 \in Nat \ {0} /\ u2 \in Nat \ {0} /\ (p.titled >= q.titled => u1 >= u2) /\ (p.titled > q.titled => u1 > u2)
  <2>1. p.titled \in Nat /\ q.titled \in Nat /\ Tokens \in Nat \ {0}
    BY <1>1, <1>2, ConstantsTyped
  <2> QED BY <2>1 DEF titleBoost
<1>6. t1 >= t2 /\ p.titled >= q.titled /\ (q.official => p.official)
  BY <1>1, <1>2, <1>3
<1>7. o1 >= o2 /\ (p.official /\ ~q.official => o1 > o2)
  BY <1>1, <1>2, <1>6 DEF officialBoost
<1>8. Boosted(arms, a, b) => t1 > t2 \/ p.titled > q.titled \/ (p.official /\ ~q.official)
  <2>1. CASE \A x \in Sightings(arms, a), y \in Sightings(arms, b) : typeWeight(x.type) > typeWeight(y.type)
    BY <1>1, <1>2, <2>1
  <2>2. CASE \A x \in Sightings(arms, a), y \in Sightings(arms, b) : x.titled > y.titled
    BY <1>1, <1>2, <2>2
  <2>3. CASE \A x \in Sightings(arms, a), y \in Sightings(arms, b) : x.official /\ ~y.official
    BY <1>1, <1>2, <2>3
  <2> QED BY <2>1, <2>2, <2>3 DEF Boosted, Every
<1> HIDE DEF t1, t2, u1, u2, o1, o2
<1>9. /\ t1 * u1 \in Nat \ {0} /\ t2 * u2 \in Nat \ {0} /\ t2 * u2 <= t1 * u1
      /\ (t2 < t1 \/ u2 < u1 => t2 * u2 < t1 * u1)
  <2>1. u2 <= u1 /\ t2 <= t1
    BY <1>4, <1>5, <1>6
  <2>2. t1 * u1 \in Nat \ {0} /\ t2 * u2 \in Nat \ {0}
    BY <1>4, <1>5
  <2> QED BY <1>4, <1>5, <2>1, <2>2, ProductGrows
<1>10. /\ (t2 * u2) * o2 <= (t1 * u1) * o1
       /\ (t2 * u2 < t1 * u1 \/ o2 < o1 => (t2 * u2) * o2 < (t1 * u1) * o1)
       /\ (t2 * u2) * o2 \in Nat \ {0} /\ (t1 * u1) * o1 \in Nat \ {0}
  <2>1. o2 <= o1
    BY <1>4, <1>7
  <2> DEFINE x == t1 * u1
             y == t2 * u2
  <2>2. x \in Nat \ {0} /\ y \in Nat \ {0} /\ y <= x
    BY <1>9
  <2> HIDE DEF x, y
  <2>3. y * o2 <= x * o1 /\ (y < x \/ o2 < o1 => y * o2 < x * o1)
    BY <1>4, <2>1, <2>2, ProductGrows
  <2>4. y * o2 \in Nat \ {0} /\ x * o1 \in Nat \ {0}
    BY <1>4, <2>2
  <2> QED BY <2>3, <2>4 DEF x, y
<1>11. p.weight = (t1 * u1) * o1 /\ q.weight = (t2 * u2) * o2
  BY <1>1, <1>2 DEF t1, t2, u1, u2, o1, o2
<1>12. Boosted(arms, a, b) => t2 < t1 \/ u2 < u1 \/ o2 < o1
  BY <1>4, <1>5, <1>7, <1>8
<1>13. /\ p.weight \in Nat \ {0} /\ q.weight \in Nat \ {0} /\ q.weight <= p.weight
       /\ Boosted(arms, a, b) => q.weight < p.weight
  BY <1>9, <1>10, <1>11, <1>12
<1> QED BY <1>13 DEF p, q, arms

\* HybridRespectsArms, of one search.
Respects(arms, hits) ==
  /\ \A a \in Found(arms), b \in IdsOf(hits) :
       /\ a # b /\ Every(NoLess, arms, a, b)
       /\ \/ \A l \in DOMAIN arms : Ahead(a, b, arms[l])
          \/ Exchanged(a, b, arms) /\ Boosted(arms, a, b)
       => Ahead(a, b, hits)
  /\ \A i \in DOMAIN hits :
       hits[i].arm = armLabel(hits[i].id \in IdsOf(arms[1]), hits[i].id \in IdsOf(arms[2]))

LEMMA PrefixIs ==
  ASSUME NEW list \in Seq(ArmHits), Distinct(list), NEW above \in 0..Len(list)
  PROVE  SubSeq(list, 1, above) \in Seq(ArmHits) /\ Distinct(SubSeq(list, 1, above))
<1>1. above \in Nat /\ above <= Len(list) /\ Len(list) \in Nat
  OBVIOUS
<1> DEFINE c == SubSeq(list, 1, above)
<1>2. c \in Seq(ArmHits) /\ Len(c) = above /\ \A i \in 1..above : c[i] = list[i]
  BY <1>1
<1>3. DOMAIN c = 1..above /\ DOMAIN list = 1..Len(list) /\ 1..above \subseteq 1..Len(list)
  BY <1>1, <1>2
<1> HIDE DEF c
<1>4. c \in Seq(ArmHits) /\ Distinct(c)
  BY <1>2, <1>3 DEF Distinct
<1> QED BY <1>4 DEF c

LEMMA FusedIs ==
  ASSUME NEW fts \in Seq(ArmHits), NEW vec \in Seq(ArmHits), Distinct(fts), Distinct(vec),
         NEW page \in Seq(Found(<<fts, vec>>)), \A i, j \in DOMAIN page : page[i] = page[j] => i = j
  PROVE  LET hits == Fused(fts, vec, page)
         IN  /\ hits \in Seq(HybridHits) /\ Distinct(hits) /\ DOMAIN hits = DOMAIN page
             /\ \A i \in DOMAIN hits :
                  /\ hits[i].id = page[i]
                  /\ hits[i].arm = armLabel(hits[i].id \in IdsOf(fts), hits[i].id \in IdsOf(vec))
<1> DEFINE hits == Fused(fts, vec, page)
           found == Found(<<fts, vec>>)
<1>1. found \subseteq Ids
  <2>1. \A x \in ArmHits : x.id \in Ids
    BY DEF ArmHits
  <2>2. <<fts, vec>> \in Seq(Seq(ArmHits))
    OBVIOUS
  <2> QED BY <2>1, <2>2, FoundFinite
<1>2. DOMAIN hits = DOMAIN page /\ DOMAIN page = 1..Len(page) /\ Len(page) \in Nat
  BY DEF Fused
<1>3. ASSUME NEW i \in DOMAIN page
      PROVE  /\ hits[i] \in HybridHits /\ hits[i].id = page[i]
             /\ hits[i].arm = armLabel(hits[i].id \in IdsOf(fts), hits[i].id \in IdsOf(vec))
  <2> DEFINE id == page[i]
             b == boost(fts, vec, id)
             label == armLabel(At(fts, id) # 0, At(vec, id) # 0)
  <2>1. id \in found
    OBVIOUS
  <2>2. b.titled \in 0..Tokens /\ b.type \in Types /\ b.official \in BOOLEAN
    BY <2>1, BoostIs
  <2>3. label = armLabel(id \in IdsOf(fts), id \in IdsOf(vec)) /\ label \in {"both", "fts", "vector"}
    BY AtIs DEF armLabel
  <2>4. hits[i] = [id |-> id, type |-> b.type, official |-> b.official, titled |-> b.titled, arm |-> label]
    BY DEF Fused
  <2>5. id \in Ids
    BY <1>1, <2>1
  <2> HIDE DEF id, b, label, hits
  <2>6. hits[i].id = id /\ hits[i].arm = label /\ hits[i] \in HybridHits
    BY <2>2, <2>3, <2>4, <2>5 DEF HybridHits
  <2> QED BY <2>3, <2>6 DEF id
<1> HIDE DEF hits
<1>4. hits \in Seq(HybridHits)
  <2>1. hits = [i \in 1..Len(page) |-> hits[i]]
    BY <1>2 DEF hits, Fused
  <2> QED BY <1>2, <1>3, <2>1
<1>5. Distinct(hits)
  BY <1>2, <1>3 DEF Distinct
<1> QED BY <1>2, <1>3, <1>4, <1>5 DEF hits

LEMMA HybridCoreHolds ==
  ASSUME NEW fts \in Seq(ArmHits), NEW vector \in Seq(ArmHits), Distinct(fts), Distinct(vector),
         NEW above \in 0..Len(vector), NEW limit \in Int
  PROVE  LET hits == hybridCore(fts, vector, above, limit)
         IN  /\ hits \in Seq(HybridHits) /\ Distinct(hits)
             /\ Respects(<<fts, SubSeq(vector, 1, above)>>, hits)
<1> DEFINE vec == SubSeq(vector, 1, above)
           arms == <<fts, vec>>
           w == Weights(fts, vec)
           r == RRF(arms, rrfK, 0, w)
           page == Cap(r, limit)
           hits == hybridCore(fts, vector, above, limit)
<1>1. vec \in Seq(ArmHits) /\ Distinct(vec)
  BY PrefixIs
<1>2. hits = Fused(fts, vec, page)
  BY DEF hybridCore
<1> HIDE DEF vec, hits
<1>3. /\ arms \in Seq(Seq(ArmHits)) /\ DOMAIN arms = {1, 2} /\ Bounded(arms, 0)
      /\ \A l \in DOMAIN arms : Distinct(arms[l])
  BY <1>1, ArmIs
<1>4. ASSUME NEW id \in Found(arms)
      PROVE  w[id] = boost(fts, vec, id).weight /\ w[id] \in Nat \ {0}
  <2>1. w[id] = boost(fts, vec, id).weight
    BY DEF Weights
  <2>2. LET b == boost(fts, vec, id)
        IN  /\ b.titled \in 0..Tokens
            /\ b.weight = typeWeight(b.type) * titleBoost(b.titled) * officialBoost(b.official)
    BY <1>1, BoostIs
  <2> DEFINE b == boost(fts, vec, id)
  <2>3. b.titled \in 0..Tokens /\ b.weight = typeWeight(b.type) * titleBoost(b.titled) * officialBoost(b.official)
    BY <2>2
  <2> HIDE DEF b
  <2>4. typeWeight(b.type) \in Nat \ {0} /\ officialBoost(b.official) \in Nat \ {0}
    BY DEF typeWeight, officialBoost
  <2>5. titleBoost(b.titled) \in Nat \ {0}
    BY <2>3, ConstantsTyped DEF titleBoost
  <2>6. b.weight \in Nat \ {0}
    BY <2>3, <2>4, <2>5
  <2> QED BY <2>1, <2>6 DEF b
<1>5. \A x \in ArmHits : x.id \in Ids
  BY DEF ArmHits
<1>6. rrfK \in Ks
  BY DEF Ks
<1> HIDE DEF arms, w
<1>7. Fuses(r, arms, rrfK, 0, w)
  BY <1>3, <1>4, <1>5, <1>6, RRFIs
<1>8. /\ r \in Seq(Found(arms)) /\ DOMAIN r = 1..Len(r) /\ \A i, j \in DOMAIN r : r[i] = r[j] => i = j
  BY <1>7 DEF Fuses
<1> HIDE DEF r
<1>9. /\ page \in Seq(Found(arms)) /\ \A i, j \in DOMAIN page : page[i] = page[j] => i = j
  BY <1>8, CapIs
<1> HIDE DEF page
<1>10. /\ hits \in Seq(HybridHits) /\ Distinct(hits) /\ DOMAIN hits = DOMAIN page
       /\ \A i \in DOMAIN hits :
            /\ hits[i].id = page[i]
            /\ hits[i].arm = armLabel(hits[i].id \in IdsOf(fts), hits[i].id \in IdsOf(vec))
  BY <1>1, <1>2, <1>9, FusedIs DEF arms
<1>11. ASSUME NEW a \in Found(arms), NEW b \in IdsOf(hits), a # b, Every(NoLess, arms, a, b),
              \/ \A l \in DOMAIN arms : Ahead(a, b, arms[l])
              \/ Exchanged(a, b, arms) /\ Boosted(arms, a, b)
       PROVE  Ahead(a, b, hits)
  <2>1. b \in Found(arms)
    BY <1>9, <1>10 DEF IdsOf
  <2>2. /\ w[a] \in Nat \ {0} /\ w[b] \in Nat \ {0} /\ w[b] <= w[a]
        /\ Boosted(arms, a, b) => w[b] < w[a]
    <3>1. /\ boost(fts, vec, b).weight <= boost(fts, vec, a).weight
          /\ Boosted(arms, a, b) => boost(fts, vec, b).weight < boost(fts, vec, a).weight
      BY <1>1, <1>11, <2>1, WeightNoLess DEF arms
    <3> QED BY <1>4, <2>1, <3>1
  <2> DEFINE s == scores(arms, rrfK, 0, a)
             t == scores(arms, rrfK, 0, b)
  <2>3. s \in Nat /\ t \in Nat
    <3>1. rrfK \in Nat \ {0}
      BY DEF rrfK
    <3> QED BY <1>3, <3>1, SharesCount
  <2>4. t * w[b] < s * w[a]
    <3>1. CASE \A l \in DOMAIN arms : Ahead(a, b, arms[l])
      <4>1. t < s
        BY <1>3, <1>6, <2>1, <3>1, ScoreOfAhead
      <4> HIDE DEF s, t
      <4>2. s \in Nat \ {0} /\ t <= s
        BY <2>3, <4>1
      <4> QED BY <2>2, <2>3, <4>1, <4>2, ProductGrows
    <3>2. CASE Exchanged(a, b, arms) /\ Boosted(arms, a, b)
      <4>1. s = t
        BY <1>3, <1>6, <3>2, ScoreOfExchanged
      <4>2. t # 0
        BY <1>3, <2>1, FoundScores
      <4> HIDE DEF s, t
      <4>3. w[b] < w[a] /\ s \in Nat \ {0} /\ t <= s
        BY <2>2, <2>3, <3>2, <4>1, <4>2
      <4> QED BY <2>2, <2>3, <4>3, ProductGrows
    <3> QED BY <1>11, <3>1, <3>2
  <2>5. Better(arms, rrfK, 0, w, a, b)
    <3>1. \A id \in {a, b} : scores(arms, rrfK, 0, id) * w[id] \in Int
      BY <2>2, <2>3
    <3> QED BY <2>4, <3>1 DEF Better
  <2>6. page = Cap(RRF(arms, rrfK, 0, w), limit)
    BY DEF page, r
  <2>7. \A id \in Found(arms) : w[id] \in Nat
    BY <1>4
  <2>8. LET cut == Cap(RRF(arms, rrfK, 0, w), limit)
        IN  DOMAIN hits = DOMAIN cut /\ \A i \in DOMAIN hits : hits[i].id = cut[i]
    BY <1>10, <2>6
  <2>9. arms \in Seq(Seq(ArmHits)) /\ hits \in Seq(HybridHits)
    BY <1>3, <1>10
  <2> QED BY <1>5, <1>6, <2>5, <2>7, <2>8, <2>9, BetterIsAhead
<1>12. IdsOf(arms[1]) = IdsOf(fts) /\ IdsOf(arms[2]) = IdsOf(vec)
  BY DEF arms
<1>13. Respects(arms, hits)
  BY <1>10, <1>11, <1>12 DEF Respects
<1> QED BY <1>10, <1>13 DEF hits, arms, vec
-----------------------------------------------------------------------------
(* Multi-query search.                                                     *)

LEMMA FiniteDomain ==
  ASSUME NEW T, NEW list \in Seq(T)
  PROVE  DOMAIN list = 1..Len(list) /\ Len(list) \in Nat /\ IsFiniteSet(DOMAIN list)
<1>1. DOMAIN list = 1..Len(list) /\ Len(list) \in Nat
  OBVIOUS
<1> QED BY <1>1, FS_Interval

LEMMA ExpansionIs ==
  ASSUME NEW q \in Texts
  PROVE  \E n \in Nat : DOMAIN ExpandQuery(q) = 1..n
<1> DEFINE more == [i \in DOMAIN q.entries |-> IF q.entries[i].enabled /\ q.entries[i].matched THEN q.entries[i].subquery ELSE ""]
           all == <<q.text, q.rewrite>> \o more
           S == {i \in DOMAIN all : i = 1 \/ (all[i] # "" /\ \A j \in 1..(i - 1) : all[j] # all[i])}
           kept == Ascending(S)
<1>1. q.entries \in Seq(Range(q.entries))
  BY SearchAssumption
<1>2. DOMAIN q.entries = 1..Len(q.entries) /\ Len(q.entries) \in Nat
  BY <1>1
<1> DEFINE T == {q.text, q.rewrite} \cup {more[i] : i \in DOMAIN q.entries}
<1>3. more \in Seq(T)
  <2>1. DOMAIN more = 1..Len(q.entries) /\ \A i \in 1..Len(q.entries) : more[i] \in T
    BY <1>2
  <2>2. more = [i \in 1..Len(q.entries) |-> more[i]]
    BY <1>2
  <2> HIDE DEF more, T
  <2> QED BY <1>2, <2>1, <2>2
<1>4. <<q.text, q.rewrite>> \in Seq(T)
  OBVIOUS
<1> HIDE DEF more, T
<1>5. all \in Seq(T)
  BY <1>3, <1>4
<1> HIDE DEF all
<1>6. IsFiniteSet(DOMAIN all) /\ DOMAIN all \subseteq Nat
  BY <1>5, FiniteDomain
<1>7. S \subseteq DOMAIN all
  OBVIOUS
<1> HIDE DEF S
<1>8. IsFiniteSet(S) /\ S \subseteq Nat
  BY <1>6, <1>7, FS_Subset
<1>9. Len(kept) = Cardinality(S) /\ Cardinality(S) \in Nat
  BY <1>8, AscendingIs
<1> DEFINE m == Min({MaxSubqueries, Len(kept)})
<1>10. m \in Nat
  <2>1. MaxSubqueries \in Nat
    BY FusionAssumption
  <2> HIDE DEF kept
  <2>2. MaxSubqueries \in Int /\ Len(kept) \in Int
    BY <1>9, <2>1
  <2> QED BY <1>9, <2>1, <2>2, MinOfTwo
<1>11. DOMAIN ExpandQuery(q) = 1..m
  BY DEF ExpandQuery, m, kept, S, all, more
<1> QED BY <1>10, <1>11

\* The trail of a hit: the subqueries that found it, in their order.
LEMMA ProvenanceIs ==
  ASSUME NEW T, NEW lists \in Seq(Seq(T)), NEW id
  PROVE  /\ {<<t.query, t.rank>> : t \in ToSet(provenance(lists, id))} = RanksOf(lists, id)
         /\ IsSorted(provenance(lists, id), LAMBDA s, t : s.query <= t.query)
<1> DEFINE S == {i \in DOMAIN lists : At(lists[i], id) # 0}
           by == Ascending(S)
           trail == provenance(lists, id)
           n == Cardinality(S)
<1>1. IsFiniteSet(S) /\ S \subseteq Nat
  <2>1. IsFiniteSet(DOMAIN lists) /\ DOMAIN lists \subseteq Nat
    BY FiniteDomain
  <2> QED BY <2>1, FS_Subset
<1>2. /\ n \in Nat /\ by \in [1..n -> S] /\ by \in Seq(S) /\ Len(by) = n
      /\ \A l \in S : \E i \in 1..n : by[i] = l
      /\ \A i, j \in 1..n : i < j <=> by[i] < by[j]
  <2> HIDE DEF S
  <2> QED BY <1>1, AscendingIs
<1>3. trail = [i \in DOMAIN by |-> [query |-> by[i],
                                     arm |-> lists[by[i]][At(lists[by[i]], id)].arm,
                                     rank |-> At(lists[by[i]], id)]]
  BY DEF provenance
<1> HIDE DEF n, by, trail
<1>4. /\ DOMAIN trail = 1..n
      /\ \A i \in 1..n : trail[i].query = by[i] /\ trail[i].rank = At(lists[by[i]], id)
  BY <1>2, <1>3
<1>5. Len(trail) = n
  BY <1>2, <1>3
<1>6. {<<t.query, t.rank>> : t \in ToSet(trail)} = {<<by[i], At(lists[by[i]], id)>> : i \in 1..n}
  BY <1>4 DEF ToSet
<1>7. {<<by[i], At(lists[by[i]], id)>> : i \in 1..n} = RanksOf(lists, id)
  <2>1. ASSUME NEW i \in 1..n PROVE <<by[i], At(lists[by[i]], id)>> \in RanksOf(lists, id)
    <3>1. by[i] \in S
      BY <1>2
    <3> QED BY <3>1 DEF RanksOf
  <2>2. ASSUME NEW r \in RanksOf(lists, id) PROVE \E i \in 1..n : r = <<by[i], At(lists[by[i]], id)>>
    <3>1. PICK l \in S : r = <<l, At(lists[l], id)>>
      BY DEF RanksOf
    <3> QED BY <1>2, <3>1
  <2> QED BY <2>1, <2>2
<1>8. ASSUME NEW i \in 1..n, NEW j \in 1..n, i < j
      PROVE  trail[i].query <= trail[j].query
  <2>1. by[i] < by[j] /\ by[i] \in Nat /\ by[j] \in Nat
    BY <1>1, <1>2, <1>8
  <2> QED BY <1>4, <2>1
<1>9. IsSorted(trail, LAMBDA s, t : s.query <= t.query)
  BY <1>5, <1>8 DEF IsSorted
<1> QED BY <1>6, <1>7, <1>9 DEF trail

\* MultiRespectsSubqueries, of one answer.
Collects(lists, hits) ==
  /\ \A a \in Found(lists), b \in IdsOf(hits) :
       /\ a # b
       /\ \/ \A l \in DOMAIN lists : Ahead(a, b, lists[l])
          \/ Exchanged(a, b, lists) /\ Earlier(firstSeen(lists, a), firstSeen(lists, b))
       => Ahead(a, b, hits)
  /\ \A i \in DOMAIN hits :
       /\ {<<t.query, t.rank>> : t \in ToSet(hits[i].subqueries)} = RanksOf(lists, hits[i].id)
       /\ IsSorted(hits[i].subqueries, LAMBDA s, t : s.query <= t.query)

LEMMA MultiFuseHolds ==
  ASSUME NEW lists \in Seq(Seq(HybridHits)), \A l \in DOMAIN lists : Distinct(lists[l]), NEW limit \in Int
  PROVE  Collects(lists, MultiFuse(lists, limit))
<1> DEFINE w == [id \in Ids |-> 1]
           r == RRF(lists, multiRRFK, 1, w)
           page == Cap(r, limit)
           hits == MultiFuse(lists, limit)
<1>1. hits = [i \in DOMAIN page |-> [id |-> page[i], subqueries |-> provenance(lists, page[i])]]
  BY DEF MultiFuse
<1>2. \A x \in HybridHits : x.id \in Ids
  BY DEF HybridHits
<1>3. multiRRFK \in Ks /\ multiRRFK \in Nat \ {0}
  BY DEF Ks, multiRRFK
<1>4. \A id \in Found(lists) : id \in Ids /\ w[id] = 1
  BY <1>2, FoundFinite
<1>5. Bounded(lists, 1)
  <2> SUFFICES ASSUME NEW l \in DOMAIN lists PROVE Len(lists[l]) + 1 - 1 <= MaxLength
    BY DEF Bounded
  <2>1. lists[l] \in Seq(HybridHits) /\ Distinct(lists[l])
    OBVIOUS
  <2>2. Len(lists[l]) <= Cardinality(Ids) /\ Len(lists[l]) \in Nat
    <3>1. Len(lists[l]) <= Cardinality(Ids)
      BY <1>2, <2>1, DistinctShort
    <3> QED BY <2>1, <3>1
  <2> QED BY <2>2, ConstantsTyped
<1> HIDE DEF w, hits
<1>6. Fuses(r, lists, multiRRFK, 1, w)
  BY <1>2, <1>3, <1>4, RRFIs
<1>7. r \in Seq(Found(lists))
  BY <1>6 DEF Fuses
<1> HIDE DEF r
<1>8. page \in Seq(Found(lists)) /\ DOMAIN page = 1..Len(page) /\ Len(page) \in Nat
  BY <1>7, CapIs
<1> HIDE DEF page
<1>9. /\ DOMAIN hits = DOMAIN page
      /\ \A i \in DOMAIN hits : hits[i].id = page[i] /\ hits[i].subqueries = provenance(lists, page[i])
  BY <1>1
<1> DEFINE U == {hits[i] : i \in DOMAIN hits}
<1>10. hits \in Seq(U)
  BY <1>1, <1>8, <1>9
<1> HIDE DEF U
<1>11. ASSUME NEW a \in Found(lists), NEW b \in IdsOf(hits), a # b,
              \/ \A l \in DOMAIN lists : Ahead(a, b, lists[l])
              \/ Exchanged(a, b, lists) /\ Earlier(firstSeen(lists, a), firstSeen(lists, b))
       PROVE  Ahead(a, b, hits)
  <2>1. b \in Found(lists)
    BY <1>8, <1>9 DEF IdsOf
  <2>2. /\ scores(lists, multiRRFK, 1, a) \in Nat /\ scores(lists, multiRRFK, 1, b) \in Nat
    BY <1>3, SharesCount
  <2>3. \/ scores(lists, multiRRFK, 1, a) > scores(lists, multiRRFK, 1, b)
        \/ /\ scores(lists, multiRRFK, 1, a) = scores(lists, multiRRFK, 1, b)
           /\ Earlier(firstSeen(lists, a), firstSeen(lists, b))
    <3>1. CASE \A l \in DOMAIN lists : Ahead(a, b, lists[l])
      <4>1. scores(lists, multiRRFK, 1, b) < scores(lists, multiRRFK, 1, a)
        BY <1>3, <1>5, <2>1, <3>1, ScoreOfAhead
      <4> QED BY <2>2, <4>1
    <3>2. CASE Exchanged(a, b, lists) /\ Earlier(firstSeen(lists, a), firstSeen(lists, b))
      <4>1. scores(lists, multiRRFK, 1, a) = scores(lists, multiRRFK, 1, b)
        BY <1>3, <3>2, ScoreOfExchanged
      <4> QED BY <3>2, <4>1
    <3> QED BY <1>11, <3>1, <3>2
  <2>4. Better(lists, multiRRFK, 1, w, a, b)
    <3>1. w[a] = 1 /\ w[b] = 1
      BY <1>4, <2>1
    <3>2. \A id \in {a, b} : scores(lists, multiRRFK, 1, id) * w[id] = scores(lists, multiRRFK, 1, id)
      BY <2>2, <3>1
    <3> QED BY <2>3, <3>2 DEF Better
  <2>5. page = Cap(RRF(lists, multiRRFK, 1, w), limit)
    BY DEF page, r
  <2>6. \A id \in Found(lists) : w[id] \in Nat
    BY <1>4
  <2> QED BY <1>2, <1>3, <1>9, <1>10, <2>4, <2>5, <2>6, BetterIsAhead
<1>12. ASSUME NEW i \in DOMAIN hits
       PROVE  /\ {<<t.query, t.rank>> : t \in ToSet(hits[i].subqueries)} = RanksOf(lists, hits[i].id)
              /\ IsSorted(hits[i].subqueries, LAMBDA s, t : s.query <= t.query)
  BY <1>9, ProvenanceIs
<1>13. Collects(lists, hits)
  BY <1>11, <1>12 DEF Collects
<1> QED BY <1>13 DEF hits
-----------------------------------------------------------------------------
(* Similarity search.                                                      *)

SimilarHits == [id : Ids, type : Types, why : SUBSET {"semantic", "lexical", "graph", "domain"}]

NotSelf(list, self) == {i \in DOMAIN list : list[i].id # self}

LEMMA OthersIs ==
  ASSUME NEW T, NEW list \in Seq(T), NEW self
  PROVE  /\ Others(list, self) \in Seq(T)
         /\ IsFiniteSet(NotSelf(list, self)) /\ Cardinality(NotSelf(list, self)) \in Nat
         /\ Len(Others(list, self)) = Cardinality(NotSelf(list, self))
         /\ IdsOf(Others(list, self)) \subseteq IdsOf(list) \ {self}
         /\ Distinct(list) => Distinct(Others(list, self))
<1> DEFINE kept == {i \in DOMAIN list : list[i].id # self}
           asc == Ascending(kept)
           rest == Others(list, self)
           n == Cardinality(kept)
<1>1. IsFiniteSet(kept) /\ kept \subseteq Nat
  <2>1. IsFiniteSet(DOMAIN list) /\ DOMAIN list \subseteq Nat
    BY FiniteDomain
  <2> QED BY <2>1, FS_Subset
<1>2. /\ n \in Nat /\ asc \in [1..n -> kept] /\ asc \in Seq(kept) /\ Len(asc) = n
      /\ \A i, j \in 1..n : i < j <=> asc[i] < asc[j]
  <2> HIDE DEF kept
  <2> QED BY <1>1, AscendingIs
<1>3. rest = [i \in DOMAIN asc |-> list[asc[i]]]
  BY DEF Others
<1> HIDE DEF asc, rest, n
<1>4. DOMAIN asc = 1..n
  BY <1>2
<1>5. \A i \in 1..n : asc[i] \in DOMAIN list /\ list[asc[i]] \in T /\ list[asc[i]].id # self
  <2>1. \A i \in 1..n : asc[i] \in kept
    BY <1>2
  <2> QED BY <2>1
<1>6. DOMAIN rest = 1..n /\ \A i \in 1..n : rest[i] = list[asc[i]]
  BY <1>3, <1>4
<1>7. rest \in Seq(T) /\ Len(rest) = n
  BY <1>2, <1>3, <1>4, <1>5
<1>8. IdsOf(rest) \subseteq IdsOf(list) \ {self}
  BY <1>5, <1>6 DEF IdsOf
<1>9. ASSUME Distinct(list)
      PROVE  Distinct(rest)
  <2> SUFFICES ASSUME NEW i \in 1..n, NEW j \in 1..n, rest[i].id = rest[j].id PROVE i = j
    BY <1>6 DEF Distinct
  <2>1. asc[i] = asc[j] /\ asc[i] \in Nat
    BY <1>1, <1>2, <1>5, <1>6, <1>9 DEF Distinct
  <2>2. ~(i < j) /\ ~(j < i)
    BY <1>2, <2>1
  <2>3. i \in Int /\ j \in Int
    BY <1>2
  <2> QED BY <2>2, <2>3
<1>10. kept = NotSelf(list, self)
  BY DEF NotSelf
<1> HIDE DEF kept
<1> QED BY <1>1, <1>2, <1>7, <1>8, <1>9, <1>10 DEF rest, n

\* A page of the others is a signal when every hit gets its reason.
Explains(hits, page) ==
  /\ DOMAIN hits = DOMAIN page /\ hits = [i \in DOMAIN hits |-> hits[i]]
  /\ \A i \in DOMAIN hits : \E why \in SUBSET {"semantic", "lexical", "graph"} : hits[i] = Because(page[i], why)

LEMMA PageIsSignal ==
  ASSUME NEW T, \A x \in T : x.id \in Ids /\ x.type \in Types,
         NEW list \in Seq(T), NEW self, NEW limit \in Int,
         NEW hits, Explains(hits, Cap(Others(list, self), limit))
  PROVE  /\ hits \in Seq(SimilarHits) /\ self \notin IdsOf(hits)
         /\ Len(hits) = Len(Cap(Others(list, self), limit))
         /\ Distinct(list) => Distinct(hits)
<1> DEFINE rest == Others(list, self)
           page == Cap(rest, limit)
<1>1. rest \in Seq(T) /\ self \notin IdsOf(rest) /\ (Distinct(list) => Distinct(rest))
  BY OthersIs
<1> HIDE DEF rest
<1>2. /\ page \in Seq(T) /\ DOMAIN page = 1..Len(page) /\ Len(page) \in Nat /\ DOMAIN page \subseteq DOMAIN rest
      /\ \A i \in DOMAIN page : page[i] = rest[i]
  BY <1>1, CapIs
<1>3. Explains(hits, page) /\ DOMAIN hits = DOMAIN page
  BY DEF rest, Explains
<1> HIDE DEF page
<1>4. ASSUME NEW i \in DOMAIN hits
      PROVE  hits[i] \in SimilarHits /\ hits[i].id = page[i].id
  <2>1. PICK why \in SUBSET {"semantic", "lexical", "graph"} : hits[i] = Because(page[i], why)
    BY <1>3 DEF Explains
  <2>2. page[i] \in T
    BY <1>2, <1>3
  <2>3. page[i].id \in Ids /\ page[i].type \in Types
    BY <2>2
  <2> QED BY <2>1, <2>3 DEF Because, SimilarHits
<1>5. hits \in Seq(SimilarHits) /\ Len(hits) = Len(page)
  <2>1. hits = [i \in 1..Len(page) |-> hits[i]]
    BY <1>2, <1>3 DEF Explains
  <2>2. \A i \in 1..Len(page) : hits[i] \in SimilarHits
    BY <1>2, <1>3, <1>4
  <2> QED BY <1>2, <2>1, <2>2
<1>6. self \notin IdsOf(hits)
  BY <1>1, <1>2, <1>3, <1>4 DEF IdsOf
<1>7. ASSUME Distinct(list)
      PROVE  Distinct(hits)
  <2>1. Distinct(rest)
    BY <1>1, <1>7
  <2> QED BY <1>2, <1>3, <1>4, <2>1 DEF Distinct
<1> QED BY <1>5, <1>6, <1>7 DEF page, rest

LEMMA MoreLikeThisIs ==
  ASSUME NEW hits \in Seq(HybridHits), NEW self, NEW limit \in Int
  PROVE  MoreLikeThis(hits, self, limit) \in Seq(SimilarHits) /\ self \notin IdsOf(MoreLikeThis(hits, self, limit))
<1> DEFINE page == Cap(Others(hits, self), limit)
           more == MoreLikeThis(hits, self, limit)
<1>1. more = [i \in DOMAIN page |-> Because(page[i], whyFromArm[page[i].arm])]
  BY DEF MoreLikeThis
<1>2. page \in Seq(HybridHits)
  <2>1. Others(hits, self) \in Seq(HybridHits)
    BY OthersIs
  <2> QED BY <2>1, CapIs
<1> HIDE DEF more
<1>3. ASSUME NEW i \in DOMAIN page
      PROVE  \E why \in SUBSET {"semantic", "lexical", "graph"} : more[i] = Because(page[i], why)
  <2> HIDE DEF page
  <2>1. page[i] \in HybridHits
    BY <1>2
  <2>2. page[i].arm \in {"both", "vector", "fts"}
    BY <2>1 DEF HybridHits
  <2>3. whyFromArm[page[i].arm] \in SUBSET {"semantic", "lexical", "graph"}
    BY <2>2 DEF whyFromArm
  <2> QED BY <1>1, <2>3
<1>4. DOMAIN more = DOMAIN page /\ more = [i \in DOMAIN more |-> more[i]]
  BY <1>1
<1>5. \A x \in HybridHits : x.id \in Ids /\ x.type \in Types
  BY DEF HybridHits
<1>7. Explains(more, page)
  BY <1>3, <1>4 DEF Explains
<1>6. more \in Seq(SimilarHits) /\ self \notin IdsOf(more)
  BY <1>5, <1>7, PageIsSignal
<1> QED BY <1>6 DEF more

LEMMA ArmHitsTyped == \A x \in ArmHits : x.id \in Ids /\ x.type \in Types
  BY DEF ArmHits

DocSet == [Ids -> [type : Types, official : BOOLEAN, titled : 0..Tokens]]

LEMMA HitTyped ==
  ASSUME NEW set \in DocSet, NEW id \in Ids
  PROVE  Hit(id, set[id]) \in ArmHits /\ Hit(id, set[id]).id = id
<1>1. set[id] \in [type : Types, official : BOOLEAN, titled : 0..Tokens]
  BY DEF DocSet
<1> QED BY <1>1 DEF Hit, ArmHits

LEMMA RelatedIs ==
  ASSUME NEW set \in DocSet, NEW links, links \subseteq Ids \X Ids, NEW self
  PROVE  Related(set, links, self) \in Seq(ArmHits)
<1> DEFINE hits(ids) == LET s == Ascending(ids) IN [i \in DOMAIN s |-> Hit(s[i], set[s[i]])]
<1>1. ASSUME NEW ids, ids \subseteq Ids
      PROVE  hits(ids) \in Seq(ArmHits)
  <2> DEFINE s == Ascending(ids)
  <2>1. IsFiniteSet(ids) /\ ids \subseteq Nat
    BY <1>1, ConstantsTyped, FS_Subset
  <2>2. s \in Seq(ids) /\ Len(s) \in Nat
    BY <2>1, AscendingIs
  <2>3. hits(ids) = [i \in DOMAIN s |-> Hit(s[i], set[s[i]])]
    OBVIOUS
  <2> HIDE DEF s, hits
  <2>4. DOMAIN s = 1..Len(s) /\ \A i \in 1..Len(s) : s[i] \in Ids
    BY <1>1, <2>2
  <2>5. \A i \in 1..Len(s) : Hit(s[i], set[s[i]]) \in ArmHits
    BY <2>4, HitTyped
  <2> QED BY <2>2, <2>3, <2>4, <2>5
<1> DEFINE from == {e[1] : e \in {x \in links : x[2] = self}}
           to == {e[2] : e \in {x \in links : x[1] = self}}
<1>2. from \subseteq Ids /\ to \subseteq Ids
  OBVIOUS
<1>3. Related(set, links, self) = hits(from) \o hits(to)
  BY DEF Related
<1> HIDE DEF from, to, hits
<1>4. hits(from) \in Seq(ArmHits) /\ hits(to) \in Seq(ArmHits)
  BY <1>1, <1>2
<1> QED BY <1>3, <1>4

LEMMA GraphSimilarIs ==
  ASSUME NEW related \in Seq(ArmHits), NEW self, NEW limit \in Int
  PROVE  GraphSimilar(related, self, limit) \in Seq(SimilarHits) /\ self \notin IdsOf(GraphSimilar(related, self, limit))
<1> DEFINE page == Cap(Others(related, self), limit)
           hits == GraphSimilar(related, self, limit)
<1>1. hits = [i \in DOMAIN page |-> Because(page[i], {"graph"})]
  BY DEF GraphSimilar
<1> HIDE DEF hits
<1>2. \A i \in DOMAIN page : \E why \in SUBSET {"semantic", "lexical", "graph"} : hits[i] = Because(page[i], why)
  BY <1>1
<1>3. DOMAIN hits = DOMAIN page /\ hits = [i \in DOMAIN hits |-> hits[i]]
  BY <1>1
<1>5. Explains(hits, page)
  BY <1>2, <1>3 DEF Explains
<1>4. hits \in Seq(SimilarHits) /\ self \notin IdsOf(hits)
  BY <1>5, ArmHitsTyped, PageIsSignal
<1> QED BY <1>4 DEF hits

\* A read returns the first hits of the ranking, as the store has them.
LEMMA ReadIs ==
  ASSUME docs \in DocSet, NEW order \in Seq(Ids), IsInjective(order), NEW limit \in Int
  PROVE  LET hits == Read(order, limit)
         IN  /\ hits \in Seq(ArmHits) /\ Distinct(hits)
             /\ Len(hits) = (IF EffectiveLimit(limit) <= Len(order) THEN EffectiveLimit(limit) ELSE Len(order))
             /\ \A i \in DOMAIN hits : i \in DOMAIN order /\ hits[i].id = order[i]
<1> DEFINE all == [i \in DOMAIN order |-> Hit(order[i], docs[order[i]])]
           hits == Read(order, limit)
<1>1. DOMAIN order = 1..Len(order) /\ Len(order) \in Nat
  BY FiniteDomain
<1>2. \A i \in DOMAIN order : all[i] \in ArmHits /\ all[i].id = order[i]
  <2> SUFFICES ASSUME NEW i \in DOMAIN order PROVE all[i] \in ArmHits /\ all[i].id = order[i]
    OBVIOUS
  <2>1. order[i] \in Ids
    OBVIOUS
  <2>2. all[i] = Hit(order[i], docs[order[i]])
    OBVIOUS
  <2> HIDE DEF all
  <2> QED BY <2>1, <2>2, HitTyped
<1>3. hits = Cap(all, limit)
  BY DEF Read
<1>4. all \in Seq(ArmHits) /\ Len(all) = Len(order) /\ DOMAIN all = DOMAIN order
  <2>1. all = [i \in 1..Len(order) |-> all[i]]
    BY <1>1
  <2> HIDE DEF all
  <2> QED BY <1>1, <1>2, <2>1
<1> HIDE DEF all, hits
<1>5. /\ hits \in Seq(ArmHits) /\ DOMAIN hits \subseteq DOMAIN order
      /\ Len(hits) = (IF EffectiveLimit(limit) <= Len(order) THEN EffectiveLimit(limit) ELSE Len(order))
      /\ \A i \in DOMAIN hits : hits[i] = all[i]
  BY <1>3, <1>4, CapIs
<1>6. Distinct(hits)
  BY <1>2, <1>5 DEF Distinct, IsInjective
<1> QED BY <1>2, <1>5, <1>6 DEF hits

\* With the slot for the concept itself, the vector search fills the page.
LEMMA SemanticIs ==
  ASSUME docs \in DocSet, NEW order \in Seq(Ids), IsInjective(order), NEW self, NEW limit \in Int
  PROVE  LET hits == SemanticSimilar(Read(order, withHeadroom(limit)), self, limit)
         IN  /\ hits \in Seq(SimilarHits) /\ Distinct(hits) /\ self \notin IdsOf(hits)
             /\ Len(hits) >= Min({EffectiveLimit(limit), Cardinality(ToSet(order) \ {self})})
             /\ Cardinality(ToSet(order) \ {self}) \in Nat
<1> DEFINE L == EffectiveLimit(limit)
           n == Len(order)
           vec == Read(order, withHeadroom(limit))
           c == Cap(vec, withHeadroom(limit))
           rest == Others(c, self)
           page == Cap(rest, limit)
           hits == SemanticSimilar(vec, self, limit)
           kept == NotSelf(c, self)
           T == ToSet(order) \ {self}
<1>1. L \in Nat \ {0} /\ n \in Nat /\ DOMAIN order = 1..n
  BY LimitPositive
<1>2. withHeadroom(limit) = L + 1 /\ L + 1 \in Int /\ EffectiveLimit(L + 1) = L + 1
  <2>1. withHeadroom(limit) = L + 1
    BY DEF withHeadroom
  <2> HIDE DEF L
  <2>2. L + 1 \in Int /\ ~(L + 1 <= 0)
    BY <1>1
  <2> QED BY <2>1, <2>2 DEF EffectiveLimit
<1>3. hits = [i \in DOMAIN page |-> Because(page[i], {"semantic"})]
  BY DEF SemanticSimilar
<1> HIDE DEF L, n, hits
<1>4. /\ vec \in Seq(ArmHits) /\ Distinct(vec) /\ Len(vec) = (IF L + 1 <= n THEN L + 1 ELSE n)
      /\ \A i \in DOMAIN vec : i \in DOMAIN order /\ vec[i].id = order[i]
  BY <1>2, ReadIs DEF n
<1>16. c = Cap(vec, L + 1)
  BY <1>2
<1> HIDE DEF vec, c
<1>5. /\ c \in Seq(ArmHits) /\ Len(c) = (IF L + 1 <= Len(vec) THEN L + 1 ELSE Len(vec))
      /\ DOMAIN c = 1..Len(c) /\ Len(c) \in Nat /\ DOMAIN c \subseteq DOMAIN vec
      /\ \A i \in DOMAIN c : c[i] = vec[i]
  <2> DEFINE k == L + 1
  <2> DEFINE m == EffectiveLimit(k)
  <2>1. k \in Int /\ m = k /\ c = Cap(vec, k) /\ vec \in Seq(ArmHits)
    BY <1>2, <1>4, <1>16
  <2> HIDE DEF k
  <2>2. /\ Cap(vec, k) \in Seq(ArmHits)
        /\ Len(Cap(vec, k)) = (IF m <= Len(vec) THEN m ELSE Len(vec))
        /\ DOMAIN Cap(vec, k) = 1..Len(Cap(vec, k)) /\ Len(Cap(vec, k)) \in Nat
        /\ DOMAIN Cap(vec, k) \subseteq DOMAIN vec
        /\ \A i \in DOMAIN Cap(vec, k) : Cap(vec, k)[i] = vec[i]
    BY <2>1, CapIs
  <2> HIDE DEF m
  <2>3. /\ c \in Seq(ArmHits) /\ Len(c) = (IF k <= Len(vec) THEN k ELSE Len(vec))
        /\ DOMAIN c = 1..Len(c) /\ Len(c) \in Nat /\ DOMAIN c \subseteq DOMAIN vec
        /\ \A i \in DOMAIN c : c[i] = vec[i]
    BY <2>1, <2>2
  <2> QED BY <2>3 DEF k
<1>6. Len(c) = (IF L + 1 <= n THEN L + 1 ELSE n)
  BY <1>1, <1>4, <1>5
<1>7. Distinct(c)
  BY <1>4, <1>5 DEF Distinct
<1>8. /\ rest \in Seq(ArmHits) /\ IsFiniteSet(kept) /\ Cardinality(kept) \in Nat /\ Len(rest) = Cardinality(kept)
  BY <1>5, OthersIs
<1>9. Len(page) = (IF L <= Cardinality(kept) THEN L ELSE Cardinality(kept)) /\ Len(page) \in Nat
  <2> HIDE DEF rest, kept
  <2> QED BY <1>8, CapIs DEF L
<1>10. Explains(hits, page)
  <2> HIDE DEF page
  <2>1. DOMAIN hits = DOMAIN page /\ hits = [i \in DOMAIN hits |-> hits[i]]
    BY <1>3
  <2>2. \A i \in DOMAIN hits : hits[i] = Because(page[i], {"semantic"})
    BY <1>3
  <2> QED BY <2>1, <2>2 DEF Explains
<1>11. hits \in Seq(SimilarHits) /\ self \notin IdsOf(hits) /\ Len(hits) = Len(page) /\ Distinct(hits)
  BY <1>5, <1>7, <1>10, ArmHitsTyped, PageIsSignal
<1>12. IsFiniteSet(T) /\ Cardinality(T) \in Nat
  <2>1. T \subseteq Ids
    BY DEF ToSet
  <2> HIDE DEF T
  <2>2. IsFiniteSet(T)
    BY <2>1, ConstantsTyped, FS_Subset
  <2> QED BY <2>2, FS_CardinalityType
<1>13. L <= Cardinality(kept) \/ Cardinality(T) <= Cardinality(kept)
  <2>1. CASE L + 1 <= n
    <3>1. DOMAIN c = 1..(L + 1)
      BY <1>5, <1>6, <2>1
    <3>2. IsFiniteSet(1..(L + 1)) /\ Cardinality(1..(L + 1)) = L + 1
      <4>1. L + 1 \in Nat
        BY <1>1
      <4> QED BY <4>1, IntervalCount
    <3>3. CASE kept = DOMAIN c
      <4> HIDE DEF kept
      <4> QED BY <1>1, <3>1, <3>2, <3>3
    <3>4. CASE kept # DOMAIN c
      <4>1. PICK i \in DOMAIN c : c[i].id = self
        BY <3>4 DEF NotSelf
      <4>2. kept = 1..(L + 1) \ {i}
        BY <1>7, <3>1, <4>1 DEF Distinct, NotSelf
      <4> HIDE DEF kept
      <4> DEFINE S == 1..(L + 1)
      <4>4. S = 1..(L + 1)
        OBVIOUS
      <4>5. IsFiniteSet(S) /\ Cardinality(S) = L + 1 /\ i \in S /\ kept = S \ {i}
        BY <3>1, <3>2, <4>1, <4>2
      <4> HIDE DEF S
      <4>6. Cardinality(S \ {i}) = Cardinality(S) - 1
        BY <4>5, FS_RemoveElement
      <4>3. Cardinality(kept) = (L + 1) - 1
        BY <4>5, <4>6
      <4> QED BY <1>1, <4>3
    <3> QED BY <3>3, <3>4
  <2>2. CASE ~(L + 1 <= n)
    <3>1. DOMAIN c = DOMAIN order
      BY <1>1, <1>5, <1>6, <2>2
    <3>2. \A i \in DOMAIN order : c[i].id = order[i]
      BY <1>4, <1>5, <3>1
    <3> DEFINE f == [i \in kept |-> order[i]]
    <3>3. \A i \in kept : order[i] \in T
      BY <3>1, <3>2 DEF ToSet, NotSelf
    <3>4. \A id \in T : \E i \in kept : order[i] = id
      BY <3>1, <3>2 DEF ToSet, NotSelf
    <3> HIDE DEF kept, T
    <3>5. f \in Surjection(kept, T)
      BY <3>3, <3>4 DEF Surjection
    <3> HIDE DEF f
    <3> QED BY <1>8, <3>5, FS_Surjection
  <2> QED BY <2>1, <2>2
<1> HIDE DEF T, page, kept
<1>14. Min({L, Cardinality(T)}) = IF L <= Cardinality(T) THEN L ELSE Cardinality(T)
  <2>1. L \in Int /\ Cardinality(T) \in Int
    BY <1>1, <1>12
  <2> QED BY <2>1, MinOfTwo
<1>15. Len(hits) >= Min({L, Cardinality(T)})
  BY <1>1, <1>8, <1>9, <1>11, <1>12, <1>13, <1>14
<1> QED BY <1>11, <1>12, <1>15 DEF hits, vec, L, T

\* The signals are fused into every concept they found, each once.
LEMMA HybridSimilarIs ==
  ASSUME NEW lists \in Seq(Seq(SimilarHits)), NEW type, NEW limit \in Int
  PROVE  LET hits == hybridSimilar(lists, type, limit)
         IN  /\ IdsOf(hits) \subseteq Found(lists)
             /\ Cardinality(Found(lists)) \in Nat
             /\ Len(hits) = (IF EffectiveLimit(limit) <= Cardinality(Found(lists)) THEN EffectiveLimit(limit)
                             ELSE Cardinality(Found(lists)))
<1> DEFINE w == [id \in Ids |-> 1]
           r == RRF(lists, fusionRRFK, 1, w)
           n == Cardinality(Found(lists))
           fused == fuse(lists)
           tagged == tagDomain(fused, type)
           hits == hybridSimilar(lists, type, limit)
<1>1. \A x \in SimilarHits : x.id \in Ids
  BY DEF SimilarHits
<1>2. \A id \in Found(lists) : w[id] \in Nat
  BY <1>1, FoundFinite
<1>3. fusionRRFK \in Ks
  BY DEF Ks
<1> HIDE DEF w
<1>4. Fuses(r, lists, fusionRRFK, 1, w)
  BY <1>1, <1>2, <1>3, RRFIs
<1>5. n \in Nat /\ r \in Seq(Found(lists)) /\ Len(r) = n /\ DOMAIN r = 1..n
  BY <1>4 DEF Fuses
<1>6. DOMAIN fused = DOMAIN r /\ \A i \in DOMAIN r : fused[i].id = r[i]
  BY DEF fuse, w
<1> HIDE DEF r, fused, n
<1>7. /\ tagged = [i \in DOMAIN fused |-> IF fused[i].type \in domainAdjacency[type]
                     THEN [fused[i] EXCEPT !.why = @ \cup {"domain"}] ELSE fused[i]]
  BY DEF tagDomain
<1>8. DOMAIN tagged = 1..n /\ \A i \in 1..n : tagged[i].id = r[i]
  <2> SUFFICES ASSUME NEW i \in 1..n PROVE tagged[i].id = r[i]
    BY <1>5, <1>6, <1>7
  <2>1. fused[i].id = r[i]
    BY <1>5, <1>6
  <2>2. DOMAIN fused[i] = {"id", "type", "why"}
    BY <1>5, <1>6 DEF fused, fuse, r, w
  <2>3. \/ tagged[i] = fused[i]
        \/ tagged[i] = [fused[i] EXCEPT !.why = @ \cup {"domain"}]
    BY <1>5, <1>6, <1>7
  <2> QED BY <2>1, <2>2, <2>3
<1> DEFINE U == {tagged[i] : i \in 1..n}
<1>9. tagged \in Seq(U) /\ Len(tagged) = n
  <2>1. tagged = [i \in 1..n |-> tagged[i]]
    BY <1>5, <1>6, <1>7
  <2> HIDE DEF tagged
  <2> QED BY <1>5, <2>1
<1>10. hits = Cap(tagged, limit)
  BY DEF hybridSimilar, fused
<1> HIDE DEF tagged, hits, U
<1>11. /\ Len(hits) = (IF EffectiveLimit(limit) <= n THEN EffectiveLimit(limit) ELSE n)
       /\ DOMAIN hits \subseteq 1..n /\ \A i \in DOMAIN hits : hits[i] = tagged[i]
  <2> HIDE DEF n
  <2>1. /\ Len(Cap(tagged, limit)) = (IF EffectiveLimit(limit) <= Len(tagged) THEN EffectiveLimit(limit) ELSE Len(tagged))
        /\ DOMAIN Cap(tagged, limit) \subseteq DOMAIN tagged
        /\ \A i \in DOMAIN Cap(tagged, limit) : Cap(tagged, limit)[i] = tagged[i]
    BY <1>9, CapIs
  <2> QED BY <1>8, <1>9, <1>10, <2>1
<1>12. IdsOf(hits) \subseteq Found(lists)
  BY <1>5, <1>8, <1>11 DEF IdsOf
<1> QED BY <1>5, <1>11, <1>12 DEF hits, n

LEMMA FoundAtLeast ==
  ASSUME NEW lists \in Seq(Seq(SimilarHits)), NEW l \in DOMAIN lists, Distinct(lists[l])
  PROVE  Len(lists[l]) <= Cardinality(Found(lists)) /\ Len(lists[l]) \in Nat
<1> DEFINE list == lists[l]
           f == [i \in DOMAIN list |-> list[i].id]
<1>1. list \in Seq(SimilarHits) /\ Distinct(list)
  OBVIOUS
<1>2. \A i \in DOMAIN list : list[i].id \in Found(lists)
  BY DEF Found, IdsOf
<1> HIDE DEF list
<1>3. DOMAIN list = 1..Len(list) /\ Len(list) \in Nat
  BY <1>1, FiniteDomain
<1>4. f \in Injection(DOMAIN list, Found(lists))
  BY <1>1, <1>2 DEF Distinct, Injection, IsInjective
<1> HIDE DEF f
<1>5. IsFiniteSet(Found(lists))
  <2>1. \A x \in SimilarHits : x.id \in Ids
    BY DEF SimilarHits
  <2> QED BY <2>1, FoundFinite
<1>6. Cardinality(1..Len(list)) <= Cardinality(Found(lists))
  BY <1>3, <1>4, <1>5, FS_Injection
<1>7. Cardinality(1..Len(list)) = Len(list)
  BY <1>3, IntervalCount
<1> QED BY <1>3, <1>6, <1>7 DEF list
-----------------------------------------------------------------------------
(* The inductive invariant.  A search in progress has read what the store    *)
(* held, and a finished one has what its kind promises of its hits.          *)

JobFields == {"kind", "state", "fts", "vector", "above", "found", "hits"}

HybridJob(job) ==
  /\ job.kind = "hybrid" /\ job.state \in {"waiting", "fts", "vector", "done", "failed"}
  /\ job.fts \in Seq(ArmHits) /\ Distinct(job.fts)
  /\ job.hits \in Seq(HybridHits) /\ Distinct(job.hits)
  /\ job.state = "done" => Respects(Kept(job), job.hits)

FillsPage(r, job, hits) ==
  LET others == Cardinality(job.found \ {r.self})
  IN others \in Nat /\ Len(hits) >= Min({EffectiveLimit(r.limit), others})

SemanticJob(r, job) ==
  /\ job.kind = "semantic" /\ job.state \in {"waiting", "vector", "done", "failed"}
  /\ job.hits \in Seq(SimilarHits) /\ Distinct(job.hits) /\ r.self \notin IdsOf(job.hits)
  /\ job.state = "done" => FillsPage(r, job, job.hits)

GraphJob(r, job) ==
  /\ job.kind = "graph" /\ job.state \in {"waiting", "graph", "done", "failed"}
  /\ job.hits \in Seq(SimilarHits) /\ r.self \notin IdsOf(job.hits)

JobInv(r, job) ==
  /\ DOMAIN job = JobFields
  /\ \/ HybridJob(job)
     \/ r.kind = "similar" /\ (SemanticJob(r, job) \/ GraphJob(r, job))

Asked(r, js) ==
  /\ r.kind \in {"hybrid", "multi", "similar"} /\ r.limit \in Int /\ r.inner \in Int
  /\ \E n \in Nat : DOMAIN js = 1..n
  /\ \A j \in DOMAIN js : JobInv(r, js[j])
  /\ r.kind = "similar" => /\ r.self \in Ids /\ r.inner = withHeadroom(r.limit)
                           /\ 1 \in DOMAIN js /\ js[1].kind = "semantic"

HitsOf(js) == [j \in DOMAIN js |-> js[j].hits]

Answered(r, js, hits) ==
  /\ \A j \in DOMAIN js : js[j].state = "done"
  /\ r.kind = "multi" => Collects(HitsOf(js), hits)
  /\ r.kind = "similar" => r.self \notin IdsOf(hits) /\ FillsPage(r, js[1], hits)

RequestInv ==
  /\ docs \in DocSet /\ edges \subseteq Ids \X Ids
  /\ \/ req = NoRequest /\ jobs = <<>> /\ answer = None
     \/ Asked(req, jobs)
  /\ \/ answer = None
     \/ answer = Failed /\ Running = {} /\ Launchable = {}
     \/ answer = [state |-> "hits", hits |-> answer.hits] /\ Answered(req, jobs, answer.hits)

LEMMA JobStates ==
  ASSUME NEW r, NEW job, JobInv(r, job)
  PROVE  /\ job.state \in {"waiting", "fts", "vector", "graph", "done", "failed"}
         /\ job.kind \in {"hybrid", "semantic", "graph"}
  BY DEF JobInv, HybridJob, SemanticJob, GraphJob

LEMMA EmptyList ==
  /\ <<>> \in Seq(ArmHits) /\ <<>> \in Seq(HybridHits) /\ <<>> \in Seq(SimilarHits)
  /\ Distinct(<<>>) /\ IdsOf(<<>>) = {}
  BY DEF Distinct, IdsOf

\* A search that waits has read nothing.
LEMMA JobStarts ==
  ASSUME NEW r, NEW kind, kind = "hybrid" \/ (r.kind = "similar" /\ kind \in {"semantic", "graph"})
  PROVE  JobInv(r, Job(kind))
<1> DEFINE job == Job(kind)
<1>1. /\ DOMAIN job = JobFields /\ job.kind = kind /\ job.state = "waiting"
      /\ job.fts = <<>> /\ job.hits = <<>>
  BY DEF Job, JobFields
<1> HIDE DEF job
<1>2. ASSUME kind = "hybrid" PROVE JobInv(r, job)
  BY <1>1, <1>2, EmptyList DEF JobInv, HybridJob
<1>3. ASSUME r.kind = "similar", kind = "semantic" PROVE JobInv(r, job)
  BY <1>1, <1>3, EmptyList DEF JobInv, SemanticJob
<1>4. ASSUME r.kind = "similar", kind = "graph" PROVE JobInv(r, job)
  BY <1>1, <1>4, EmptyList DEF JobInv, GraphJob
<1> QED BY <1>2, <1>3, <1>4 DEF job

\* A search that fails, or starts its first read, keeps what it has.
LEMMA JobMoves ==
  ASSUME NEW r, NEW job, JobInv(r, job), NEW state,
         \/ state = "failed"
         \/ job.kind = "hybrid" /\ state \in {"fts", "vector"}
         \/ job.kind = "semantic" /\ state = "vector"
         \/ job.kind = "graph" /\ state = "graph"
  PROVE  JobInv(r, [job EXCEPT !.state = state]) /\ [job EXCEPT !.state = state].kind = job.kind
<1> DEFINE next == [job EXCEPT !.state = state]
<1>1. DOMAIN job = JobFields
  BY DEF JobInv
<1>2. /\ DOMAIN next = JobFields /\ next.state = state /\ next.kind = job.kind
      /\ next.fts = job.fts /\ next.hits = job.hits
  BY <1>1 DEF JobFields
<1>3. state # "done"
  OBVIOUS
<1> HIDE DEF next
<1>4. CASE HybridJob(job)
  BY <1>2, <1>3, <1>4 DEF JobInv, HybridJob
<1>5. CASE r.kind = "similar" /\ SemanticJob(r, job)
  BY <1>2, <1>3, <1>5 DEF JobInv, SemanticJob
<1>6. CASE r.kind = "similar" /\ GraphJob(r, job)
  BY <1>2, <1>3, <1>6 DEF JobInv, GraphJob
<1> QED BY <1>2, <1>4, <1>5, <1>6 DEF JobInv, next
-----------------------------------------------------------------------------
(* The steps.                                                              *)

LEMMA InitHolds == Init => RequestInv
  BY SearchAssumption DEF Init, RequestInv, DocSet

\* What a request asks for holds when it comes.
LEMMA AskHolds ==
  ASSUME RequestInv, NEW r, NEW kinds, Ask(r, kinds),
         r.kind \in {"hybrid", "multi", "similar"}, r.limit \in Int, r.inner \in Int,
         \E n \in Nat : DOMAIN kinds = 1..n,
         \A j \in DOMAIN kinds : kinds[j] = "hybrid" \/ (r.kind = "similar" /\ kinds[j] \in {"semantic", "graph"}),
         r.kind = "similar" => /\ r.self \in Ids /\ r.inner = withHeadroom(r.limit)
                               /\ 1 \in DOMAIN kinds /\ kinds[1] = "semantic"
  PROVE  RequestInv'
<1>1. /\ req = NoRequest /\ req' = r /\ jobs' = [j \in DOMAIN kinds |-> Job(kinds[j])]
      /\ UNCHANGED <<docs, edges, answer>>
  BY DEF Ask
<1>2. answer = None
  BY <1>1 DEF RequestInv, Asked, NoRequest
<1>3. \A j \in DOMAIN jobs' : jobs'[j] = Job(kinds[j]) /\ JobInv(r, jobs'[j])
  BY <1>1, JobStarts
<1>4. \A j \in DOMAIN jobs' : jobs'[j].kind = kinds[j]
  BY <1>1, <1>3 DEF Job
<1>5. DOMAIN jobs' = DOMAIN kinds
  BY <1>1
<1>6. Asked(r, jobs')
  BY <1>3, <1>4, <1>5 DEF Asked
<1> QED BY <1>1, <1>2, <1>6 DEF RequestInv

LEMMA RequestHolds ==
  ASSUME RequestInv, Request
  PROVE  RequestInv'
<1>1. PICK limit \in Limits :
        \/ Hybrid(limit)
        \/ \E q \in Texts : MultiHybrid(q, limit)
        \/ \E self \in Ids, graph \in BOOLEAN : Similar(self, graph, limit)
  BY DEF Request
<1>2. limit \in Int
  BY SearchAssumption
<1>3. CASE Hybrid(limit)
  <2> DEFINE r == [kind |-> "hybrid", limit |-> limit, inner |-> limit]
             kinds == <<"hybrid">>
  <2>1. Ask(r, kinds)
    BY <1>3 DEF Hybrid
  <2>2. DOMAIN kinds = 1..1 /\ \A j \in DOMAIN kinds : kinds[j] = "hybrid"
    OBVIOUS
  <2>3. r.kind = "hybrid" /\ r.limit \in Int /\ r.inner \in Int
    BY <1>2
  <2> HIDE DEF r, kinds
  <2> QED BY <2>1, <2>2, <2>3, AskHolds
<1>4. ASSUME NEW q \in Texts, MultiHybrid(q, limit)
      PROVE  RequestInv'
  <2> DEFINE r == [kind |-> "multi", limit |-> limit, inner |-> Max({limit, DefaultLimit})]
             kinds == [i \in DOMAIN ExpandQuery(q) |-> "hybrid"]
  <2>1. Ask(r, kinds)
    BY <1>4 DEF MultiHybrid
  <2>2. (\E n \in Nat : DOMAIN kinds = 1..n) /\ \A j \in DOMAIN kinds : kinds[j] = "hybrid"
    BY ExpansionIs
  <2>3. Max({limit, DefaultLimit}) \in Int
    <3>1. DefaultLimit \in Int
      BY FusionAssumption
    <3> QED BY <1>2, <3>1, MaxOfTwo
  <2>4. r.kind = "multi" /\ r.limit \in Int /\ r.inner \in Int
    BY <1>2, <2>3
  <2> HIDE DEF r, kinds
  <2> QED BY <2>1, <2>2, <2>4, AskHolds
<1>5. ASSUME NEW self \in Ids, NEW graph \in BOOLEAN, Similar(self, graph, limit)
      PROVE  RequestInv'
  <2> DEFINE r == [kind |-> "similar", limit |-> limit, inner |-> withHeadroom(limit), self |-> self]
             kinds == IF graph THEN <<"semantic", "hybrid", "graph">> ELSE <<"semantic", "hybrid">>
  <2>1. Ask(r, kinds)
    BY <1>5 DEF Similar
  <2>2. \/ kinds = <<"semantic", "hybrid", "graph">>
        \/ kinds = <<"semantic", "hybrid">>
    OBVIOUS
  <2> HIDE DEF kinds
  <2>3. /\ (\E n \in Nat : DOMAIN kinds = 1..n) /\ 1 \in DOMAIN kinds /\ kinds[1] = "semantic"
        /\ \A j \in DOMAIN kinds : kinds[j] \in {"hybrid", "semantic", "graph"}
    <3>1. CASE kinds = <<"semantic", "hybrid", "graph">>
      <4>1. DOMAIN kinds = 1..3
        BY <3>1
      <4> QED BY <3>1, <4>1
    <3>2. CASE kinds = <<"semantic", "hybrid">>
      <4>1. DOMAIN kinds = 1..2
        BY <3>2
      <4> QED BY <3>2, <4>1
    <3> QED BY <2>2, <3>1, <3>2
  <2>4. withHeadroom(limit) \in Int
    BY <1>2, LimitPositive DEF withHeadroom
  <2>5. r.kind = "similar" /\ r.limit = limit /\ r.inner = withHeadroom(limit) /\ r.self = self
    OBVIOUS
  <2> HIDE DEF r
  <2> QED BY <1>2, <2>1, <2>3, <2>4, <2>5, AskHolds
<1> QED BY <1>1, <1>3, <1>4, <1>5

\* While a request runs, a step replaces one of its searches.
LEMMA StepHolds ==
  ASSUME RequestInv, answer = None, NEW j \in DOMAIN jobs, NEW job,
         Step(j, job), JobInv(req, job), job.kind = jobs[j].kind
  PROVE  RequestInv'
<1>1. jobs' = [jobs EXCEPT ![j] = job] /\ UNCHANGED <<docs, edges, req, answer>>
  BY DEF Step
<1>2. Asked(req, jobs)
  BY DEF RequestInv
<1>3. DOMAIN jobs' = DOMAIN jobs /\ \A k \in DOMAIN jobs : jobs'[k] = IF k = j THEN job ELSE jobs[k]
  BY <1>1
<1>4. \A k \in DOMAIN jobs' : JobInv(req, jobs'[k]) /\ jobs'[k].kind = jobs[k].kind
  BY <1>2, <1>3 DEF Asked
<1>5. Asked(req, jobs')
  BY <1>2, <1>3, <1>4 DEF Asked
<1> QED BY <1>1, <1>5 DEF RequestInv

LEMMA Unanswered ==
  ASSUME RequestInv, Running # {} \/ Launchable # {}
  PROVE  answer = None /\ Asked(req, jobs)
<1>1. Asked(req, jobs)
  <2>1. CASE jobs = <<>>
    BY <2>1 DEF Running, Launchable, In
  <2> QED BY <2>1 DEF RequestInv
<1>2. ASSUME NEW hits, Answered(req, jobs, hits)
      PROVE  FALSE
  BY <1>2 DEF Answered, Running, Launchable, In
<1> QED BY <1>1, <1>2 DEF RequestInv

LEMMA LaunchHolds ==
  ASSUME RequestInv, Launch
  PROVE  RequestInv'
<1>1. Launchable # {}
  BY DEF Launch
<1>2. answer = None /\ Asked(req, jobs)
  BY <1>1, Unanswered
<1> DEFINE j == Min(Launchable)
<1>3. j \in Launchable
  <2>1. PICK n \in Nat : DOMAIN jobs = 1..n
    BY <1>2 DEF Asked
  <2>2. Launchable \subseteq Nat
    BY <2>1 DEF Launchable, In
  <2> HIDE DEF j
  <2>3. \E x \in Launchable : \A y \in Launchable : x <= y
    BY <1>1, <2>2, LeastExists
  <2> QED BY <2>2, <2>3 DEF Min, j
<1> DEFINE state == firstRead[jobs[j].kind]
           job == [jobs[j] EXCEPT !.state = state]
<1>4. Step(j, job)
  BY DEF Launch
<1> HIDE DEF j
<1>5. j \in DOMAIN jobs
  BY <1>3 DEF Launchable, In
<1>6. JobInv(req, jobs[j]) /\ jobs[j].kind \in {"hybrid", "semantic", "graph"}
  BY <1>2, <1>5, JobStates DEF Asked
<1>7. /\ jobs[j].kind = "hybrid" => state = "fts"
      /\ jobs[j].kind = "semantic" => state = "vector"
      /\ jobs[j].kind = "graph" => state = "graph"
  BY <1>6 DEF firstRead
<1> HIDE DEF state
<1>8. JobInv(req, job) /\ job.kind = jobs[j].kind
  BY <1>6, <1>7, JobMoves
<1> HIDE DEF job
<1> QED BY <1>2, <1>4, <1>5, <1>8, StepHolds

LEMMA FailHolds ==
  ASSUME RequestInv, NEW j \in DOMAIN jobs, Fail(j)
  PROVE  RequestInv'
<1> DEFINE job == [jobs[j] EXCEPT !.state = "failed"]
<1>1. Step(j, job) /\ Running # {}
  BY DEF Fail
<1>2. answer = None /\ Asked(req, jobs)
  BY <1>1, Unanswered
<1>3. JobInv(req, jobs[j])
  BY <1>2 DEF Asked
<1>4. JobInv(req, job) /\ job.kind = jobs[j].kind
  BY <1>3, JobMoves
<1> HIDE DEF job
<1> QED BY <1>1, <1>2, <1>4, StepHolds

\* The rankings of a request name concepts, each once.
LEMMA RankingIs ==
  ASSUME NEW r, NEW js, Asked(r, js), NEW order \in Rankings[r.kind]
  PROVE  order \in Seq(Ids) /\ IsInjective(order) /\ r.inner \in Int /\ r.limit \in Int
  BY SearchAssumption DEF Asked

LEMMA FTSHolds ==
  ASSUME RequestInv, NEW j \in DOMAIN jobs, FTS(j)
  PROVE  RequestInv'
<1>1. jobs[j].state = "fts" /\ Running # {}
  BY DEF FTS, In, Running
<1>2. answer = None /\ Asked(req, jobs)
  BY <1>1, Unanswered
<1>3. PICK order \in Rankings[req.kind] :
        Step(j, [jobs[j] EXCEPT !.state = "vector", !.fts = Read(order, req.inner)])
  BY DEF FTS
<1>4. docs \in DocSet
  BY DEF RequestInv
<1> DEFINE hits == Read(order, req.inner)
           job == [jobs[j] EXCEPT !.state = "vector", !.fts = hits]
<1>5. hits \in Seq(ArmHits) /\ Distinct(hits)
  BY <1>2, <1>4, RankingIs, ReadIs
<1>6. Step(j, job)
  BY <1>3
<1> HIDE DEF hits
<1>7. DOMAIN jobs[j] = JobFields /\ HybridJob(jobs[j])
  BY <1>1, <1>2 DEF Asked, JobInv, SemanticJob, GraphJob
<1>8. /\ DOMAIN job = JobFields /\ job.state = "vector" /\ job.kind = jobs[j].kind
      /\ job.fts = hits /\ job.hits = jobs[j].hits
  BY <1>7 DEF JobFields
<1> HIDE DEF job
<1>9. JobInv(req, job)
  BY <1>5, <1>7, <1>8 DEF JobInv, HybridJob
<1> QED BY <1>2, <1>6, <1>8, <1>9, StepHolds

LEMMA VectorHolds ==
  ASSUME RequestInv, NEW j \in DOMAIN jobs, Vector(j)
  PROVE  RequestInv'
<1>1. jobs[j].state = "vector" /\ Running # {}
  BY DEF Vector, In, Running
<1>2. answer = None /\ Asked(req, jobs)
  BY <1>1, Unanswered
<1>3. PICK order \in Rankings[req.kind] :
        LET hits == Read(order, req.inner)
        IN \E above \in 0..Len(hits) :
             LET read == [jobs[j] EXCEPT !.state = "done", !.vector = hits, !.above = above, !.found = ToSet(order)]
             IN IF jobs[j].kind = "hybrid"
                THEN Step(j, [read EXCEPT !.hits = hybridCore(jobs[j].fts, hits, above, req.inner)])
                ELSE Step(j, [read EXCEPT !.hits = SemanticSimilar(hits, req.self, req.limit)])
  BY DEF Vector
<1> DEFINE hits == Read(order, req.inner)
<1>4. PICK above \in 0..Len(hits) :
        LET read == [jobs[j] EXCEPT !.state = "done", !.vector = hits, !.above = above, !.found = ToSet(order)]
        IN IF jobs[j].kind = "hybrid"
           THEN Step(j, [read EXCEPT !.hits = hybridCore(jobs[j].fts, hits, above, req.inner)])
           ELSE Step(j, [read EXCEPT !.hits = SemanticSimilar(hits, req.self, req.limit)])
  BY <1>3
<1> DEFINE read == [jobs[j] EXCEPT !.state = "done", !.vector = hits, !.above = above, !.found = ToSet(order)]
           fused == hybridCore(jobs[j].fts, hits, above, req.inner)
           page == SemanticSimilar(hits, req.self, req.limit)
<1>5. docs \in DocSet
  BY DEF RequestInv
<1>6. order \in Seq(Ids) /\ IsInjective(order) /\ req.inner \in Int /\ req.limit \in Int
  BY <1>2, RankingIs
<1>7. hits \in Seq(ArmHits) /\ Distinct(hits)
  BY <1>5, <1>6, ReadIs
<1>8. JobInv(req, jobs[j]) /\ DOMAIN jobs[j] = JobFields
  BY <1>2 DEF Asked, JobInv
<1>9. CASE jobs[j].kind = "hybrid"
  <2> DEFINE job == [read EXCEPT !.hits = fused]
  <2>1. Step(j, job)
    BY <1>4, <1>9
  <2> HIDE DEF fused, hits
  <2>2. /\ DOMAIN job = JobFields /\ job.state = "done" /\ job.kind = jobs[j].kind /\ job.fts = jobs[j].fts
        /\ job.vector = hits /\ job.above = above /\ job.hits = fused
    BY <1>8 DEF JobFields
  <2> HIDE DEF job
  <2>3. jobs[j].fts \in Seq(ArmHits) /\ Distinct(jobs[j].fts)
    BY <1>8, <1>9 DEF JobInv, HybridJob, SemanticJob, GraphJob
  <2>4. /\ fused \in Seq(HybridHits) /\ Distinct(fused)
        /\ Respects(<<jobs[j].fts, SubSeq(hits, 1, above)>>, fused)
    BY <1>6, <1>7, <2>3, HybridCoreHolds DEF fused
  <2>5. HybridJob(job)
    BY <1>9, <2>2, <2>3, <2>4 DEF HybridJob, Kept
  <2>6. JobInv(req, job)
    BY <2>2, <2>5 DEF JobInv
  <2> QED BY <1>2, <2>1, <2>2, <2>6, StepHolds
<1>10. CASE jobs[j].kind # "hybrid"
  <2> DEFINE job == [read EXCEPT !.hits = page]
  <2>1. Step(j, job)
    BY <1>4, <1>10
  <2>2. req.kind = "similar" /\ SemanticJob(req, jobs[j])
    BY <1>1, <1>8, <1>10 DEF JobInv, HybridJob, GraphJob
  <2>3. req.inner = withHeadroom(req.limit)
    BY <1>2, <2>2 DEF Asked
  <2> DEFINE others == Cardinality(ToSet(order) \ {req.self})
  <2>4. /\ page \in Seq(SimilarHits) /\ Distinct(page) /\ req.self \notin IdsOf(page)
        /\ Len(page) >= Min({EffectiveLimit(req.limit), others}) /\ others \in Nat
    BY <1>5, <1>6, <2>3, SemanticIs
  <2> HIDE DEF page, hits
  <2>5. /\ DOMAIN job = JobFields /\ job.state = "done" /\ job.kind = jobs[j].kind
        /\ job.found = ToSet(order) /\ job.hits = page
    BY <1>8 DEF JobFields
  <2> HIDE DEF job
  <2>6. FillsPage(req, job, job.hits)
    BY <2>4, <2>5 DEF FillsPage
  <2>7. SemanticJob(req, job)
    BY <2>2, <2>4, <2>5, <2>6 DEF SemanticJob
  <2>8. JobInv(req, job)
    BY <2>2, <2>5, <2>7 DEF JobInv
  <2> QED BY <1>2, <2>1, <2>5, <2>8, StepHolds
<1> QED BY <1>9, <1>10

LEMMA GraphHolds ==
  ASSUME RequestInv, NEW j \in DOMAIN jobs, Graph(j)
  PROVE  RequestInv'
<1> DEFINE page == GraphSimilar(Related(docs, edges, req.self), req.self, req.limit)
           job == [jobs[j] EXCEPT !.state = "done", !.hits = page]
<1>1. jobs[j].state = "graph" /\ Running # {} /\ Step(j, job)
  BY DEF Graph, In, Running
<1>2. answer = None /\ Asked(req, jobs)
  BY <1>1, Unanswered
<1>3. /\ DOMAIN jobs[j] = JobFields /\ req.kind = "similar" /\ GraphJob(req, jobs[j])
      /\ req.limit \in Int
  BY <1>1, <1>2 DEF Asked, JobInv, HybridJob, SemanticJob
<1>4. page \in Seq(SimilarHits) /\ req.self \notin IdsOf(page)
  <2>1. docs \in DocSet /\ edges \subseteq Ids \X Ids
    BY DEF RequestInv
  <2>2. Related(docs, edges, req.self) \in Seq(ArmHits)
    BY <2>1, RelatedIs
  <2> QED BY <1>3, <2>2, GraphSimilarIs
<1> HIDE DEF page
<1>5. DOMAIN job = JobFields /\ job.state = "done" /\ job.kind = jobs[j].kind /\ job.hits = page
  BY <1>3 DEF JobFields
<1> HIDE DEF job
<1>6. JobInv(req, job)
  BY <1>3, <1>4, <1>5 DEF JobInv, GraphJob
<1> QED BY <1>1, <1>2, <1>5, <1>6, StepHolds
-----------------------------------------------------------------------------
(* The answer.                                                             *)

\* The searches of a multi-query request are fused as they stand.
LEMMA CollectHolds ==
  ASSUME Asked(req, jobs), req.kind = "multi"
  PROVE  Collects(HitsOf(jobs), Collect)
<1> DEFINE lists == HitsOf(jobs)
<1>1. DOMAIN lists = DOMAIN jobs /\ \A j \in DOMAIN jobs : lists[j] = jobs[j].hits
  BY DEF HitsOf
<1>2. \A j \in DOMAIN jobs : jobs[j].hits \in Seq(HybridHits) /\ Distinct(jobs[j].hits)
  BY DEF Asked, JobInv, HybridJob
<1>3. PICK n \in Nat : DOMAIN jobs = 1..n
  BY DEF Asked
<1>4. lists \in Seq(Seq(HybridHits))
  <2>1. lists = [j \in 1..n |-> lists[j]]
    BY <1>1, <1>3 DEF HitsOf
  <2> HIDE DEF lists
  <2> QED BY <1>1, <1>2, <1>3, <2>1
<1>5. Collect = MultiFuse(lists, req.limit)
  BY DEF Collect, HitsOf
<1>6. req.limit \in Int
  BY DEF Asked
<1> HIDE DEF lists
<1>7. \A l \in DOMAIN lists : Distinct(lists[l])
  BY <1>1, <1>2
<1> QED BY <1>4, <1>5, <1>6, <1>7, MultiFuseHolds DEF lists

\* The signals leave the concept out, and the first of them fills the page.
LEMMA SignalsHold ==
  ASSUME Asked(req, jobs), req.kind = "similar", \A j \in DOMAIN jobs : jobs[j].state = "done", NEW type
  PROVE  LET hits == hybridSimilar(Signals, type, req.limit)
         IN  req.self \notin IdsOf(hits) /\ FillsPage(req, jobs[1], hits)
<1> DEFINE hits == hybridSimilar(Signals, type, req.limit)
           n == Cardinality(Found(Signals))
           L == EffectiveLimit(req.limit)
           others == Cardinality(jobs[1].found \ {req.self})
<1>1. DOMAIN Signals = DOMAIN jobs
  BY DEF Signals
<1>2. req.limit \in Int
  BY DEF Asked
<1>3. ASSUME NEW j \in DOMAIN jobs
      PROVE  Signals[j] \in Seq(SimilarHits) /\ req.self \notin IdsOf(Signals[j])
  <2>1. JobInv(req, jobs[j])
    BY DEF Asked
  <2>2. CASE HybridJob(jobs[j])
    <3>1. Signals[j] = MoreLikeThis(jobs[j].hits, req.self, req.limit)
      BY <2>2 DEF Signals, HybridJob
    <3>2. jobs[j].hits \in Seq(HybridHits)
      BY <2>2 DEF HybridJob
    <3> QED BY <1>2, <3>1, <3>2, MoreLikeThisIs
  <2>3. CASE SemanticJob(req, jobs[j]) \/ GraphJob(req, jobs[j])
    <3>1. Signals[j] = jobs[j].hits
      BY <2>3 DEF Signals, SemanticJob, GraphJob
    <3> QED BY <2>3, <3>1 DEF SemanticJob, GraphJob
  <2> QED BY <2>1, <2>2, <2>3 DEF JobInv
<1>4. 1 \in DOMAIN jobs /\ SemanticJob(req, jobs[1])
  BY DEF Asked, JobInv, HybridJob, GraphJob
<1>5. Signals[1] = jobs[1].hits
  BY <1>4 DEF Signals, SemanticJob
<1>6. Distinct(Signals[1]) /\ others \in Nat /\ Len(Signals[1]) >= Min({L, others})
  BY <1>4, <1>5 DEF SemanticJob, FillsPage
<1>7. PICK m \in Nat : DOMAIN jobs = 1..m
  BY DEF Asked
<1>8. Signals \in Seq(Seq(SimilarHits))
  <2> DEFINE lists == Signals
  <2>1. lists = [j \in 1..m |-> lists[j]]
    BY <1>1, <1>7 DEF Signals
  <2>2. \A j \in 1..m : lists[j] \in Seq(SimilarHits)
    BY <1>3, <1>7
  <2> HIDE DEF lists
  <2>3. lists \in Seq(Seq(SimilarHits))
    BY <2>1, <2>2
  <2> QED BY <2>3 DEF lists
<1>9. IdsOf(hits) \subseteq Found(Signals) /\ n \in Nat /\ Len(hits) = (IF L <= n THEN L ELSE n)
  BY <1>2, <1>8, HybridSimilarIs
<1>10. req.self \notin Found(Signals)
  BY <1>1, <1>3 DEF Found
<1>11. Len(Signals[1]) <= n /\ Len(Signals[1]) \in Nat
  BY <1>1, <1>4, <1>6, <1>8, FoundAtLeast
<1>12. L \in Nat
  BY <1>2, LimitPositive
<1> HIDE DEF hits, n, L, others
<1>13. Min({L, others}) = IF L <= others THEN L ELSE others
  BY <1>6, <1>12, MinOfTwo
<1>14. Len(hits) >= Min({L, others})
  BY <1>6, <1>9, <1>11, <1>12, <1>13
<1> QED BY <1>6, <1>9, <1>10, <1>14 DEF FillsPage, hits, L, others

LEMMA AnswerHolds ==
  ASSUME RequestInv, Answer
  PROVE  RequestInv'
<1>1. /\ req # NoRequest /\ answer = None /\ Running = {} /\ Launchable = {}
      /\ answer' = (IF In({"failed"}) # {} THEN Failed ELSE [state |-> "hits", hits |-> Hits])
      /\ UNCHANGED <<docs, edges, req, jobs>>
  BY DEF Answer
<1>2. Asked(req, jobs)
  BY <1>1 DEF RequestInv
<1>3. Running' = {} /\ Launchable' = {}
  BY <1>1 DEF Running, Launchable, In
<1>4. CASE In({"failed"}) # {}
  BY <1>1, <1>2, <1>3, <1>4 DEF RequestInv
<1>5. CASE In({"failed"}) = {}
  <2>1. answer' = [state |-> "hits", hits |-> Hits]
    BY <1>1, <1>5
  <2>2. \A j \in DOMAIN jobs : jobs[j].state = "done"
    <3> SUFFICES ASSUME NEW j \in DOMAIN jobs PROVE jobs[j].state = "done"
      OBVIOUS
    <3>1. jobs[j].state \in {"waiting", "fts", "vector", "graph", "done", "failed"}
      BY <1>2, JobStates DEF Asked
    <3>2. jobs[j].state \notin {"fts", "vector", "graph"} /\ jobs[j].state # "waiting" /\ jobs[j].state # "failed"
      BY <1>1, <1>5 DEF Running, Launchable, In
    <3> QED BY <3>1, <3>2
  <2>3. req.kind = "multi" => Hits = Collect
    BY DEF Hits
  <2>4. req.kind = "similar" => Hits = hybridSimilar(Signals, docs[req.self].type, req.limit)
    BY DEF Hits
  <2> DEFINE hits == Hits
  <2> HIDE DEF hits
  <2>5. Answered(req, jobs, hits)
    <3>1. req.kind = "multi" => Collects(HitsOf(jobs), hits)
      BY <1>2, <2>3, CollectHolds DEF hits
    <3>2. req.kind = "similar" => req.self \notin IdsOf(hits) /\ FillsPage(req, jobs[1], hits)
      BY <1>2, <2>2, <2>4, SignalsHold DEF hits
    <3> QED BY <2>2, <3>1, <3>2 DEF Answered
  <2>6. answer' = [state |-> "hits", hits |-> hits] /\ answer'.hits = hits
    BY <2>1 DEF hits
  <2>7. Answered(req', jobs', answer'.hits)
    BY <1>1, <2>5, <2>6
  <2> QED BY <1>1, <1>2, <2>6, <2>7 DEF RequestInv
<1> QED BY <1>4, <1>5

LEMMA IngestHolds ==
  ASSUME RequestInv, Ingest
  PROVE  RequestInv'
<1>1. /\ answer = None /\ docs' \in InitialDocs /\ edges' \in EdgeSets
      /\ UNCHANGED <<req, jobs, answer>>
  BY DEF Ingest
<1>2. docs' \in DocSet /\ edges' \subseteq Ids \X Ids
  BY <1>1, SearchAssumption DEF DocSet
<1> QED BY <1>1, <1>2 DEF RequestInv

LEMMA StutterHolds ==
  ASSUME RequestInv, UNCHANGED vars
  PROVE  RequestInv'
<1>1. Running' = Running /\ Launchable' = Launchable
  BY DEF vars, Running, Launchable, In
<1> QED BY <1>1 DEF RequestInv, vars

LEMMA RequestInvariant == Spec => []RequestInv
<1>1. Init => RequestInv
  BY InitHolds
<1>2. RequestInv /\ [Next]_vars => RequestInv'
  <2> SUFFICES ASSUME RequestInv, [Next]_vars PROVE RequestInv'
    OBVIOUS
  <2>1. CASE Request
    BY <2>1, RequestHolds
  <2>2. CASE Launch
    BY <2>2, LaunchHolds
  <2>3. CASE Answer
    BY <2>3, AnswerHolds
  <2>4. CASE Ingest
    BY <2>4, IngestHolds
  <2>5. CASE Finished \/ UNCHANGED vars
    BY <2>5, StutterHolds DEF Finished
  <2>6. ASSUME NEW j \in DOMAIN jobs, FTS(j) PROVE RequestInv'
    BY <2>6, FTSHolds
  <2>7. ASSUME NEW j \in DOMAIN jobs, Vector(j) PROVE RequestInv'
    BY <2>7, VectorHolds
  <2>8. ASSUME NEW j \in DOMAIN jobs, Graph(j) PROVE RequestInv'
    BY <2>8, GraphHolds
  <2>9. ASSUME NEW j \in DOMAIN jobs, Fail(j) PROVE RequestInv'
    BY <2>9, FailHolds
  <2> QED BY <2>1, <2>2, <2>3, <2>4, <2>5, <2>6, <2>7, <2>8, <2>9 DEF Next
<1> QED BY <1>1, <1>2, PTL DEF Spec
-----------------------------------------------------------------------------
(* The theorems.                                                           *)

\* Whatever the two arms of a hybrid search return, and whatever an ingest changes
\* between the two reads, hybridCore keeps their common order: no hit is below one that
\* both arms and every boost put ahead of it, nor below one with the same ranks and fewer
\* boosts, and its label names the arms that found it.
THEOREM ArmsRespected == Spec => []HybridRespectsArms
<1>1. RequestInv => HybridRespectsArms
  <2> SUFFICES ASSUME RequestInv, NEW j \in DOMAIN jobs, jobs[j].kind = "hybrid", jobs[j].state = "done"
               PROVE  Respects(Kept(jobs[j]), jobs[j].hits)
    BY DEF HybridRespectsArms, Respects
  <2>1. Asked(req, jobs)
    BY DEF RequestInv
  <2> QED BY <2>1 DEF Asked, JobInv, HybridJob, SemanticJob, GraphJob
<1> QED BY <1>1, RequestInvariant, PTL

\* Whatever order the subqueries of a multi-query request are launched and finish in,
\* the fused hits keep the order on which the subqueries agree, of two with exchanged ranks
\* the one the earlier subquery prefers is ahead, and the trail of a hit names the
\* subqueries that found it, with its rank, in their order.
THEOREM SubqueriesRespected == Spec => []MultiRespectsSubqueries
<1>1. RequestInv => MultiRespectsSubqueries
  <2> SUFFICES ASSUME RequestInv, answer.state = "hits", req.kind = "multi"
               PROVE  Collects(HitsOf(jobs), answer.hits)
    BY DEF MultiRespectsSubqueries, Got, Collects, HitsOf
  <2>1. Answered(req, jobs, answer.hits)
    BY DEF RequestInv, None, Failed
  <2> QED BY <2>1 DEF Answered
<1> QED BY <1>1, RequestInvariant, PTL

\* With the slot withHeadroom adds for the concept itself, a similarity request does not
\* return the concept it is about and fills its page whenever the vector search alone
\* found as many others, whatever the other signals return and an ingest changes.
THEOREM LimitKept == Spec => []SimilarKeepsLimit
<1>1. RequestInv => SimilarKeepsLimit
  <2> SUFFICES ASSUME RequestInv, answer.state = "hits", req.kind = "similar"
               PROVE  req.self \notin IdsOf(answer.hits) /\ FillsPage(req, jobs[1], answer.hits)
    BY DEF SimilarKeepsLimit, Got, FillsPage
  <2>1. Answered(req, jobs, answer.hits)
    BY DEF RequestInv, None, Failed
  <2> QED BY <2>1 DEF Answered
<1> QED BY <1>1, RequestInvariant, PTL
=============================================================================
