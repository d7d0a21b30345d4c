----------------------------- MODULE StackProofs ----------------------------
(***************************************************************************)
(* What the operators of Items do to stacks, for rows of any length and    *)
(* stacks of any limit: inventory_add_item, inventory_remove, the transfers*)
(* between an inventory and a container, furnace_tick and a recipe keep    *)
(* every slot well formed, and what they do to the worth of the slots.     *)
(*                                                                         *)
(* The sums are recursive functions and folds, so that they are reasoned   *)
(* about by induction, here over a set P of numbers or of subsets for which*)
(* the claim holds: the sums are those of any order of adding.             *)
(***************************************************************************)
EXTENDS Items, FiniteSetTheorems, WellFoundedInduction, TLAPS

-----------------------------------------------------------------------------
(* Induction.                                                              *)

\* Induction over the subsets of a finite set: what holds of a set if it holds of the
\* set without any one element, holds of all.
LEMMA SubsetInduction ==
  ASSUME NEW D, IsFiniteSet(D), NEW P,
         \A s \in SUBSET D : (\A x \in s : s \ {x} \in P) => s \in P
  PROVE  \A s \in SUBSET D : s \in P
<1> SUFFICES ASSUME NEW s \in SUBSET D, s \notin P PROVE FALSE
  OBVIOUS
<1> DEFINE T == {u \in SUBSET D : u \notin P}
<1>1. IsWellFoundedOn(StrictSubsetOrdering(D), SUBSET D)
  <2>1. IsWellFoundedOn(StrictSubsetOrdering(D), FiniteSubsetsOf(D))
    BY FS_StrictSubsetOrderingWellFounded
  <2>2. FiniteSubsetsOf(D) = SUBSET D
    BY FS_FiniteSubsetsOfFinite
  <2> HIDE DEF T
  <2> QED  BY <2>1, <2>2, Zenon
<1>2. T \subseteq SUBSET D /\ T # {}
  OBVIOUS
<1>3. PICK m \in T : \A u \in T : ~(<<u, m>> \in StrictSubsetOrdering(D))
  <2> HIDE DEF T
  <2> QED  BY <1>1, <1>2, WFMin
<1>4. \A x \in m : m \ {x} \in P
  <2> SUFFICES ASSUME NEW x \in m PROVE m \ {x} \in P
    OBVIOUS
  <2>1. m \ {x} \in SUBSET D /\ m \in SUBSET D /\ m \ {x} # m
    OBVIOUS
  <2>2. <<m \ {x}, m>> \in StrictSubsetOrdering(D)
    BY <2>1 DEF StrictSubsetOrdering
  <2> QED  BY <1>3, <2>1, <2>2
<1> QED  BY <1>3, <1>4

\* Induction from 0 to n.
LEMMA IntervalInduction ==
  ASSUME NEW n \in Nat, NEW P, 0 \in P, \A i \in 1 .. n : i - 1 \in P => i \in P
  PROVE  \A i \in 0 .. n : i \in P
<1> DEFINE Q == {s \in SUBSET (0 .. n) : \A k \in 0 .. n : s = 0 .. k => k \in P}
<1>1. IsFiniteSet(0 .. n)
  BY FS_Interval
<1>2. ASSUME NEW s \in SUBSET (0 .. n), \A x \in s : s \ {x} \in Q PROVE s \in Q
  <2> SUFFICES ASSUME NEW k \in 0 .. n, s = 0 .. k PROVE k \in P
    OBVIOUS
  <2>1. CASE k = 0
    BY <2>1
  <2>2. CASE k # 0
    <3>1. k \in s /\ k - 1 \in 0 .. n /\ s \ {k} = 0 .. k - 1 /\ k \in 1 .. n
      BY <2>2
    <3>2. k - 1 \in P
      BY <1>2, <3>1
    <3> QED  BY <3>1, <3>2
  <2> QED  BY <2>1, <2>2
<1>3. \A s \in SUBSET (0 .. n) : (\A x \in s : s \ {x} \in Q) => s \in Q
  BY <1>2
<1>4. \A s \in SUBSET (0 .. n) : s \in Q
  <2> HIDE DEF Q
  <2> QED  BY <1>1, <1>3, SubsetInduction
<1> QED
  <2> SUFFICES ASSUME NEW i \in 0 .. n PROVE i \in P
    OBVIOUS
  <2>1. 0 .. i \in SUBSET (0 .. n)
    OBVIOUS
  <2> QED  BY <1>4, <2>1

\* To fold a finite set D: which element of a subset is taken, and what is made of
\* it and of the rest.
CanFold(D, X, x0, pick, step) ==
  /\ IsFiniteSet(D) /\ x0 \in X /\ step \in [D \X X -> X]
  /\ \A s \in SUBSET D : s # {} => pick[s] \in s

IsFold(D, X, x0, pick, step, g) ==
  /\ g \in [SUBSET D -> X]
  /\ \A s \in SUBSET D :
       g[s] = IF s = {} THEN x0 ELSE step[<<pick[s], g[s \ {pick[s]}]>>]

\* A function over the subsets of a finite set may be defined by taking one element
\* after the other.
LEMMA FoldExists ==
  ASSUME NEW D, NEW X, NEW x0, NEW pick, NEW step, CanFold(D, X, x0, pick, step)
  PROVE  \E g : IsFold(D, X, x0, pick, step, g)
<1> USE DEF CanFold
<1> DEFINE F(g) == [s \in SUBSET D |->
                     IF s = {} THEN x0 ELSE step[<<pick[s], g[s \ {pick[s]}]>>]]
           Good(g, k) == \A s \in SUBSET D : Cardinality(s) <= k => g[s] = F(g)[s]
           P == {k \in Nat : \E g \in [SUBSET D -> X] : Good(g, k)}
<1>1. ASSUME NEW g \in [SUBSET D -> X] PROVE F(g) \in [SUBSET D -> X]
  <2>1. ASSUME NEW s \in SUBSET D, s # {}
        PROVE  <<pick[s], g[s \ {pick[s]}]>> \in D \X X
    <3>1. pick[s] \in s /\ s \ {pick[s]} \in SUBSET D
      BY <2>1
    <3> QED  BY <3>1
  <2> QED  BY <2>1
<1>2. PICK g0 : g0 = [s \in SUBSET D |-> x0]
  OBVIOUS
<1>3. \A s \in SUBSET D : IsFiniteSet(s) /\ Cardinality(s) \in Nat
                          /\ (Cardinality(s) = 0 => s = {})
  BY FS_Subset, FS_CardinalityType, FS_EmptySet
<1>4. 0 \in P
  <2>1. g0 \in [SUBSET D -> X]
    BY <1>2
  <2>2. Good(g0, 0)
    <3> SUFFICES ASSUME NEW s \in SUBSET D, Cardinality(s) <= 0 PROVE g0[s] = F(g0)[s]
      OBVIOUS
    <3>1. s = {}
      BY <1>3
    <3> QED  BY <1>2, <3>1
  <2> HIDE DEF Good
  <2> QED  BY <2>1, <2>2
<1>5. ASSUME NEW k \in Nat \ {0}, k - 1 \in P PROVE k \in P
  <2>1. PICK g \in [SUBSET D -> X] : Good(g, k - 1)
    BY <1>5
  <2>2. PICK h : h = F(g)
    OBVIOUS
  <2>3. Good(h, k)
    <3> SUFFICES ASSUME NEW s \in SUBSET D, Cardinality(s) <= k PROVE h[s] = F(h)[s]
      OBVIOUS
    <3>1. CASE s = {}
      BY <2>2, <3>1
    <3>2. CASE s # {}
      <4>1. PICK u : u = s \ {pick[s]}
        OBVIOUS
      <4>2. pick[s] \in s /\ u \in SUBSET D
        BY <3>2, <4>1
      <4>3. Cardinality(u) = Cardinality(s) - 1
        BY <1>3, <4>1, <4>2, FS_RemoveElement
      <4>4. Cardinality(u) <= k - 1
        BY <1>3, <4>2, <4>3
      <4>5. g[u] = F(g)[u]
        BY <2>1, <4>2, <4>4
      <4>6. g[u] = h[u]
        BY <2>2, <4>5
      <4>7. h[s] = step[<<pick[s], g[u]>>] /\ F(h)[s] = step[<<pick[s], h[u]>>]
        BY <2>2, <3>2, <4>1
      <4> QED  BY <4>6, <4>7
    <3> QED  BY <3>1, <3>2
  <2>4. h \in [SUBSET D -> X]
    BY <1>1, <2>2
  <2> HIDE DEF Good, F
  <2> QED  BY <2>3, <2>4
<1>6. PICK n \in Nat : n = Cardinality(D)
  BY FS_CardinalityType
<1>7. n \in P
  <2> HIDE DEF P
  <2>1. \A k \in 1 .. n : k - 1 \in P => k \in P
    BY <1>5
  <2>2. \A k \in 0 .. n : k \in P
    BY <1>4, <2>1, IntervalInduction
  <2> QED  BY <2>2
<1>8. PICK g \in [SUBSET D -> X] : Good(g, n)
  BY <1>7
<1>9. \A s \in SUBSET D : g[s] = F(g)[s]
  BY <1>3, <1>6, <1>8, FS_Subset
<1> QED  BY <1>9 DEF IsFold

-----------------------------------------------------------------------------
(* Sums and totals.                                                        *)

Numbers(n) == [1 .. n -> Int]

\* Sums adds one number after the other.
LEMMA SumsRecursion ==
  ASSUME NEW n \in Nat, NEW f \in Numbers(n)
  PROVE  /\ Sums(f) \in [0 .. n -> Int] /\ Sums(f)[0] = 0
         /\ \A i \in 1 .. n : Sums(f)[i] = Sums(f)[i - 1] + f[i]
<1> DEFINE F(g) == [i \in 0 .. n |-> IF i = 0 THEN 0 ELSE g[i - 1] + f[i]]
           P == {k \in 0 .. n : \E g \in [0 .. n -> Int] :
                                  \A i \in 0 .. k : g[i] = F(g)[i]}
<1>1. Len(f) = n
  BY DEF Numbers
<1>2. 0 \in P
  <2>1. PICK g : g = [i \in 0 .. n |-> 0]
    OBVIOUS
  <2>2. g \in [0 .. n -> Int] /\ \A i \in 0 .. 0 : g[i] = F(g)[i]
    BY <2>1
  <2> HIDE DEF F
  <2> QED  BY <2>2
<1>3. ASSUME NEW k \in 1 .. n, k - 1 \in P PROVE k \in P
  <2>1. PICK g \in [0 .. n -> Int] : \A i \in 0 .. k - 1 : g[i] = F(g)[i]
    BY <1>3
  <2>2. PICK h : h = F(g)
    OBVIOUS
  <2>3. h \in [0 .. n -> Int]
    <3>1. ASSUME NEW i \in 0 .. n, i # 0 PROVE g[i - 1] + f[i] \in Int
      <4>1. i \in 1 .. n /\ i - 1 \in 0 .. n
        BY <3>1
      <4> QED  BY <4>1 DEF Numbers
    <3> QED  BY <2>2, <3>1
  <2>4. ASSUME NEW i \in 0 .. k PROVE h[i] = F(h)[i]
    <3>1. CASE i = 0
      BY <2>2, <3>1
    <3>2. CASE i # 0
      <4>1. i - 1 \in 0 .. k - 1 /\ i \in 0 .. n /\ i - 1 \in 0 .. n
        BY <3>2
      <4>2. g[i - 1] = F(g)[i - 1]
        BY <2>1, <4>1
      <4>3. g[i - 1] = h[i - 1]
        BY <2>2, <4>2
      <4>4. h[i] = g[i - 1] + f[i] /\ F(h)[i] = h[i - 1] + f[i]
        BY <2>2, <3>2, <4>1
      <4> QED  BY <4>3, <4>4
    <3> QED  BY <3>1, <3>2
  <2> HIDE DEF F
  <2> QED  BY <2>3, <2>4
<1>4. n \in P
  <2> HIDE DEF P
  <2>1. \A k \in 1 .. n : k - 1 \in P => k \in P
    BY <1>3
  <2>2. \A k \in 0 .. n : k \in P
    BY <1>2, <2>1, IntervalInduction
  <2> QED  BY <2>2
<1>5. PICK g \in [0 .. n -> Int] : \A i \in 0 .. n : g[i] = F(g)[i]
  BY <1>4
<1>6. g = F(g)
  <2>1. PICK h : h = F(g)
    OBVIOUS
  <2>2. h = [i \in 0 .. n |-> h[i]]
    BY <2>1
  <2>3. \A i \in 0 .. n : g[i] = h[i]
    BY <1>5, <2>1
  <2> HIDE DEF F
  <2>4. g = h
    BY <2>2, <2>3
  <2> QED  BY <2>1, <2>4
<1> DEFINE sum == CHOOSE g_1 : g_1 = F(g_1)
<1>7. sum = F(sum)
  BY <1>6
<1>8. Sums(f) = [i \in 0 .. n |-> sum[i]]
  BY <1>1 DEF Sums
<1>9. PICK s : s = sum
  OBVIOUS
<1>10. s = F(s)
  BY <1>7, <1>9
<1> HIDE DEF sum
<1>11. Sums(f) = s
  BY <1>8, <1>9, <1>10
<1>12. s[0] = 0 /\ \A i \in 1 .. n : s[i] = s[i - 1] + f[i]
  BY <1>10
<1>13. \A k \in 0 .. n : s[k] \in Int
  <2> DEFINE R == {k \in 0 .. n : s[k] \in Int}
  <2>1. 0 \in R
    BY <1>12
  <2>2. \A k \in 1 .. n : k - 1 \in R => k \in R
    BY <1>12 DEF Numbers
  <2> HIDE DEF R
  <2>3. \A k \in 0 .. n : k \in R
    BY <2>1, <2>2, IntervalInduction
  <2> QED  BY <2>3 DEF R
<1>14. s \in [0 .. n -> Int]
  BY <1>10, <1>13
<1> QED  BY <1>11, <1>12, <1>14

Chosen(s) == CHOOSE x \in s : TRUE

\* g[s] is the sum of f over s, for the subsets s of its domain.
PartialTotals(f, D, g) ==
  /\ g \in [SUBSET D -> Int]
  /\ \A s \in SUBSET D :
       g[s] = IF s = {} THEN 0 ELSE f[Chosen(s)] + g[s \ {Chosen(s)}]

\* Total adds the values of a function one after the other.
LEMMA TotalFold ==
  ASSUME NEW D, IsFiniteSet(D), NEW f \in [D -> Int]
  PROVE  \E g : PartialTotals(f, D, g) /\ Total(f) = g[D]
<1> DEFINE F(g) == [s \in SUBSET D |->
                     IF s = {} THEN 0 ELSE f[Chosen(s)] + g[s \ {Chosen(s)}]]
<1>1. \E g \in [SUBSET D -> Int] : g = F(g)
  <2>1. PICK pick : pick = [s \in SUBSET D |-> Chosen(s)]
    OBVIOUS
  <2>2. \A s \in SUBSET D : s # {} => pick[s] \in s
    BY <2>1 DEF Chosen
  <2>3. PICK step : step = [e \in D \X Int |-> f[e[1]] + e[2]]
    OBVIOUS
  <2>4. step \in [D \X Int -> Int] /\ 0 \in Int
    BY <2>3
  <2>5. PICK g : IsFold(D, Int, 0, pick, step, g)
    <3>1. CanFold(D, Int, 0, pick, step)
      BY <2>2, <2>4 DEF CanFold
    <3> QED  BY <3>1, FoldExists
  <2>6. ASSUME NEW s \in SUBSET D PROVE g[s] = F(g)[s]
    <3>1. CASE s = {}
      BY <2>5, <3>1 DEF IsFold
    <3>2. CASE s # {}
      <4>1. pick[s] = Chosen(s) /\ pick[s] \in D /\ s \ {pick[s]} \in SUBSET D
        BY <2>1, <2>2, <3>2
      <4>2. /\ g[s] = step[<<pick[s], g[s \ {pick[s]}]>>]
            /\ g[s \ {pick[s]}] \in Int
        BY <2>5, <3>2, <4>1 DEF IsFold
      <4>3. g[s] = f[pick[s]] + g[s \ {pick[s]}]
        BY <2>3, <4>1, <4>2
      <4> QED  BY <3>2, <4>1, <4>3
    <3> QED  BY <3>1, <3>2
  <2>7. g = F(g)
    <3>1. PICK h : h = F(g)
      OBVIOUS
    <3>2. h = [s \in SUBSET D |-> h[s]] /\ g \in [SUBSET D -> Int]
      BY <2>5, <3>1 DEF IsFold
    <3>3. \A s \in SUBSET D : g[s] = h[s]
      BY <2>6, <3>1
    <3> HIDE DEF F
    <3>4. g = h
      BY <3>2, <3>3
    <3> QED  BY <3>1, <3>4
  <2> HIDE DEF F
  <2> QED  BY <2>5, <2>7 DEF IsFold
<1> DEFINE g0 == CHOOSE g : g = F(g)
<1>2. g0 = F(g0) /\ g0 \in [SUBSET D -> Int]
  <2>1. PICK g \in [SUBSET D -> Int] : g = F(g)
    BY <1>1
  <2>2. g0 = F(g0)
    BY <2>1
  <2>3. PICK h : h = g0
    OBVIOUS
  <2>4. h = F(h)
    BY <2>2, <2>3
  <2> HIDE DEF g0
  <2>5. h = [s \in SUBSET D |-> h[s]]
    BY <2>4
  <2>6. ASSUME NEW s \in SUBSET D, \A x \in s : h[s \ {x}] = g[s \ {x}] PROVE h[s] = g[s]
    BY <2>1, <2>4, <2>6 DEF Chosen
  <2> DEFINE P == {s \in SUBSET D : h[s] = g[s]}
  <2>7. \A s \in SUBSET D : (\A x \in s : s \ {x} \in P) => s \in P
    BY <2>6
  <2> HIDE DEF F
  <2>8. \A s \in SUBSET D : s \in P
    <3> HIDE DEF P
    <3> QED  BY <2>7, SubsetInduction
  <2>9. h = g
    BY <2>1, <2>5, <2>8
  <2> QED  BY <2>1, <2>2, <2>3, <2>9
<1>3. Total(f) = g0[D]
  <2>1. DOMAIN f = D
    OBVIOUS
  <2> QED  BY <2>1 DEF Total, FoldFunction, FoldFunctionOnSet, MapThenFoldSet, Chosen
<1>4. PICK g : g = g0
  OBVIOUS
<1> HIDE DEF g0
<1>5. g = F(g) /\ g \in [SUBSET D -> Int]
  BY <1>2, <1>4
<1>6. PartialTotals(f, D, g)
  BY <1>5 DEF PartialTotals
<1> QED  BY <1>3, <1>4, <1>6

\* The order in which the values are added does not matter.
LEMMA AnyElementFirst ==
  ASSUME NEW D, IsFiniteSet(D), NEW f \in [D -> Int], NEW g, PartialTotals(f, D, g)
  PROVE  \A s \in SUBSET D : \A x \in s : g[s] = f[x] + g[s \ {x}]
<1> DEFINE P == {s \in SUBSET D : \A x \in s : g[s] = f[x] + g[s \ {x}]}
<1>1. ASSUME NEW s \in SUBSET D, \A y \in s : s \ {y} \in P PROVE s \in P
  <2> SUFFICES ASSUME NEW x \in s PROVE g[s] = f[x] + g[s \ {x}]
    OBVIOUS
  <2>1. PICK y \in s : y = Chosen(s)
    BY DEF Chosen
  <2>2. g[s] = f[y] + g[s \ {y}]
    BY <2>1 DEF PartialTotals
  <2>3. CASE x = y
    BY <2>2, <2>3
  <2>4. CASE x # y
    <3>1. x \in s \ {y} /\ y \in s \ {x} /\ s \ {x} \in P /\ s \ {y} \in P
      BY <1>1, <2>4
    <3>2. g[s \ {y}] = f[x] + g[(s \ {y}) \ {x}]
      BY <3>1
    <3>3. g[s \ {x}] = f[y] + g[(s \ {x}) \ {y}]
      BY <3>1
    <3>4. (s \ {y}) \ {x} = (s \ {x}) \ {y} /\ (s \ {y}) \ {x} \in SUBSET D
      OBVIOUS
    <3>5. PICK r \in Int : r = g[(s \ {y}) \ {x}]
      BY <3>4 DEF PartialTotals
    <3>6. g[s] = f[y] + (f[x] + r) /\ g[s \ {x}] = f[y] + r
      BY <2>2, <3>2, <3>3, <3>4, <3>5
    <3> QED  BY <3>6
  <2> QED  BY <2>3, <2>4
<1>2. \A s \in SUBSET D : (\A x \in s : s \ {x} \in P) => s \in P
  BY <1>1
<1>3. \A s \in SUBSET D : s \in P
  <2> HIDE DEF P
  <2> QED  BY <1>2, SubsetInduction
<1> QED  BY <1>3

\* The total of integers is an integer.
LEMMA TotalTyped ==
  ASSUME NEW D, IsFiniteSet(D), NEW f \in [D -> Int]
  PROVE  Total(f) \in Int /\ (D = {} => Total(f) = 0)
<1>1. PICK g : PartialTotals(f, D, g) /\ Total(f) = g[D]
  BY TotalFold
<1> QED  BY <1>1 DEF PartialTotals

\* Any element can be counted first.
LEMMA TotalTaken ==
  ASSUME NEW D, IsFiniteSet(D), NEW f \in [D -> Int], NEW x \in D
  PROVE  Total(f) = f[x] + Total([y \in D \ {x} |-> f[y]])
<1>1. PICK E : E = D \ {x}
  OBVIOUS
<1>2. PICK h : h = [y \in E |-> f[y]]
  OBVIOUS
<1>3. IsFiniteSet(E) /\ h \in [E -> Int] /\ E \in SUBSET D
  BY <1>1, <1>2, FS_RemoveElement
<1>4. PICK g : PartialTotals(f, D, g) /\ Total(f) = g[D]
  BY TotalFold
<1>5. PICK e : PartialTotals(h, E, e) /\ Total(h) = e[E]
  BY <1>3, TotalFold
<1>6. g[D] = f[x] + g[E]
  BY <1>1, <1>4, AnyElementFirst
<1>7. g[E] = e[E]
  <2> DEFINE P == {s \in SUBSET E : g[s] = e[s]}
  <2>1. ASSUME NEW s \in SUBSET E, \A y \in s : s \ {y} \in P PROVE s \in P
    <3>1. CASE s = {}
      BY <1>3, <1>4, <1>5, <3>1 DEF PartialTotals
    <3>2. CASE s # {}
      <4>1. PICK y \in s : y = Chosen(s)
        BY <3>2 DEF Chosen
      <4>2. g[s] = f[y] + g[s \ {y}]
        BY <1>3, <1>4, <3>2, <4>1 DEF PartialTotals
      <4>3. e[s] = h[y] + e[s \ {y}]
        BY <1>5, <3>2, <4>1 DEF PartialTotals
      <4> QED  BY <1>2, <2>1, <4>1, <4>2, <4>3
    <3> QED  BY <3>1, <3>2
  <2>2. \A s \in SUBSET E : (\A y \in s : s \ {y} \in P) => s \in P
    BY <2>1
  <2>3. \A s \in SUBSET E : s \in P
    <3> HIDE DEF P
    <3> QED  BY <1>3, <2>2, SubsetInduction
  <2> QED  BY <2>3
<1> QED  BY <1>1, <1>2, <1>4, <1>5, <1>6, <1>7

\* A sum is at most another if every part is.
LEMMA TotalMonotone ==
  ASSUME NEW D, IsFiniteSet(D), NEW f \in [D -> Int], NEW h \in [D -> Int],
         \A x \in D : f[x] <= h[x]
  PROVE  Total(f) <= Total(h)
<1>1. PICK g : PartialTotals(f, D, g) /\ Total(f) = g[D]
  BY TotalFold
<1>2. PICK e : PartialTotals(h, D, e) /\ Total(h) = e[D]
  BY TotalFold
<1> DEFINE P == {s \in SUBSET D : g[s] <= e[s]}
<1>3. ASSUME NEW s \in SUBSET D, \A y \in s : s \ {y} \in P PROVE s \in P
  <2>1. CASE s = {}
    <3>1. g[{}] = 0
      BY <1>1 DEF PartialTotals
    <3>2. e[{}] = 0
      BY <1>2 DEF PartialTotals
    <3> QED  BY <2>1, <3>1, <3>2
  <2>2. CASE s # {}
    <3>1. PICK y \in s : y = Chosen(s)
      BY <2>2 DEF Chosen
    <3>2. g[s] = f[y] + g[s \ {y}] /\ e[s] = h[y] + e[s \ {y}]
      BY <1>1, <1>2, <2>2, <3>1 DEF PartialTotals
    <3>3. g[s \ {y}] \in Int /\ e[s \ {y}] \in Int /\ g[s \ {y}] <= e[s \ {y}]
      BY <1>1, <1>2, <1>3 DEF PartialTotals
    <3> QED  BY <3>2, <3>3
  <2> QED  BY <2>1, <2>2
<1>4. \A s \in SUBSET D : (\A y \in s : s \ {y} \in P) => s \in P
  BY <1>3
<1>5. \A s \in SUBSET D : s \in P
  <2> HIDE DEF P
  <2> QED  BY <1>4, SubsetInduction
<1> QED  BY <1>1, <1>2, <1>5

\* The total of natural numbers is one.
LEMMA TotalNatural ==
  ASSUME NEW D, IsFiniteSet(D), NEW f \in [D -> Nat]
  PROVE  Total(f) \in Nat
<1>1. f \in [D -> Int]
  OBVIOUS
<1>2. PICK g : PartialTotals(f, D, g) /\ Total(f) = g[D]
  BY <1>1, TotalFold
<1> DEFINE P == {s \in SUBSET D : g[s] \in Nat}
<1>3. ASSUME NEW s \in SUBSET D, \A y \in s : s \ {y} \in P PROVE s \in P
  <2>1. CASE s = {}
    <3>1. g[{}] = 0
      BY <1>2 DEF PartialTotals
    <3> QED  BY <2>1, <3>1
  <2>2. CASE s # {}
    <3>1. PICK y \in s : y = Chosen(s)
      BY <2>2 DEF Chosen
    <3>2. g[s] = f[y] + g[s \ {y}]
      BY <1>2, <2>2, <3>1 DEF PartialTotals
    <3> QED  BY <1>3, <3>2
  <2> QED  BY <2>1, <2>2
<1>4. \A s \in SUBSET D : (\A y \in s : s \ {y} \in P) => s \in P
  BY <1>3
<1>5. \A s \in SUBSET D : s \in P
  <2> HIDE DEF P
  <2> QED  BY <1>4, SubsetInduction
<1> QED  BY <1>2, <1>5

\* One part changes.
LEMMA TotalChanged ==
  ASSUME NEW D, IsFiniteSet(D), NEW f \in [D -> Int], NEW h \in [D -> Int],
         NEW x \in D, \A y \in D \ {x} : h[y] = f[y]
  PROVE  Total(h) = Total(f) - f[x] + h[x]
<1>1. PICK r : r = [y \in D \ {x} |-> f[y]]
  OBVIOUS
<1>2. r = [y \in D \ {x} |-> h[y]]
  BY <1>1
<1>3. r \in [D \ {x} -> Int] /\ IsFiniteSet(D \ {x})
  BY <1>1, FS_RemoveElement
<1>4. Total(r) \in Int
  BY <1>3, TotalTyped
<1>5. Total(f) = f[x] + Total(r)
  BY <1>1, TotalTaken
<1>6. Total(h) = h[x] + Total(r)
  BY <1>2, TotalTaken
<1> QED  BY <1>4, <1>5, <1>6

\* One part is added.
LEMMA TotalAdded ==
  ASSUME NEW D, IsFiniteSet(D), NEW f \in [D -> Int], NEW x, x \notin D,
         NEW h \in [D \cup {x} -> Int], \A y \in D : h[y] = f[y]
  PROVE  Total(h) = Total(f) + h[x]
<1>1. (D \cup {x}) \ {x} = D /\ x \in D \cup {x} /\ IsFiniteSet(D \cup {x})
  BY FS_AddElement
<1>2. PICK r : r = [y \in (D \cup {x}) \ {x} |-> h[y]]
  OBVIOUS
<1>3. r = f
  <2>1. r \in [D -> Int] /\ \A y \in D : r[y] = f[y]
    BY <1>1, <1>2
  <2> QED  BY <2>1
<1>4. Total(h) = h[x] + Total(r)
  BY <1>1, <1>2, TotalTaken
<1>5. Total(f) \in Int
  BY TotalTyped
<1> QED  BY <1>3, <1>4, <1>5

\* A sum depends only on the numbers summed.
LEMMA SumsAgree ==
  ASSUME NEW n \in Nat, NEW m \in Nat, NEW f \in Numbers(n), NEW h \in Numbers(m),
         NEW k \in 0 .. n, k <= m, \A i \in 1 .. k : f[i] = h[i]
  PROVE  Sums(f)[k] = Sums(h)[k]
<1> DEFINE P == {j \in 0 .. k : Sums(f)[j] = Sums(h)[j]}
<1>1. 0 \in P
  BY SumsRecursion
<1>2. \A j \in 1 .. k : j - 1 \in P => j \in P
  <2>1. /\ \A i \in 1 .. n : Sums(f)[i] = Sums(f)[i - 1] + f[i]
        /\ \A i \in 1 .. m : Sums(h)[i] = Sums(h)[i - 1] + h[i]
    BY SumsRecursion
  <2> QED  BY <2>1
<1>3. k \in Nat
  OBVIOUS
<1>4. \A j \in 0 .. k : j \in P
  <2> HIDE DEF P
  <2> QED  BY <1>1, <1>2, <1>3, IntervalInduction
<1> QED  BY <1>4

\* Facts about products that are cited by name.
LEMMA ZeroTimes == \A w \in Int : 0 * w = 0
OBVIOUS

\* Sums are linear.
LEMMA SumsLinear ==
  ASSUME NEW n \in Nat, NEW f \in Numbers(n), NEW g \in Numbers(n), NEW h \in Numbers(n),
         NEW w \in Int, \A i \in 1 .. n : h[i] = f[i] + g[i] * w
  PROVE  \A k \in 0 .. n : Sums(h)[k] = Sums(f)[k] + Sums(g)[k] * w
<1> DEFINE P == {j \in 0 .. n : Sums(h)[j] = Sums(f)[j] + Sums(g)[j] * w}
<1>0. /\ Sums(f)[0] = 0 /\ Sums(g)[0] = 0 /\ Sums(h)[0] = 0
      /\ Sums(f) \in [0 .. n -> Int] /\ Sums(g) \in [0 .. n -> Int]
      /\ \A i \in 1 .. n : Sums(f)[i] = Sums(f)[i - 1] + f[i]
      /\ \A i \in 1 .. n : Sums(g)[i] = Sums(g)[i - 1] + g[i]
      /\ \A i \in 1 .. n : Sums(h)[i] = Sums(h)[i - 1] + h[i]
  BY SumsRecursion
<1>1. 0 \in P
  <2>1. 0 * w = 0
    BY ZeroTimes
  <2>2. Sums(f)[0] = 0 /\ Sums(g)[0] = 0 /\ Sums(h)[0] = 0 /\ 0 \in 0 .. n
    BY <1>0
  <2>3. Sums(h)[0] = Sums(f)[0] + Sums(g)[0] * w
    BY <2>1, <2>2
  <2> QED  BY <2>2, <2>3
<1>2. ASSUME NEW j \in 1 .. n, j - 1 \in P PROVE j \in P
  <2>0. j - 1 \in 0 .. n /\ f[j] \in Int /\ g[j] \in Int
    BY DEF Numbers
  <2>1. PICK a \in Int, b \in Int, x \in Int, y \in Int :
          a = Sums(f)[j - 1] /\ b = Sums(g)[j - 1] /\ x = f[j] /\ y = g[j]
    BY <1>0, <2>0
  <2>2. Sums(h)[j - 1] = a + b * w /\ h[j] = x + y * w
    BY <1>2, <2>1
  <2>3. Sums(h)[j] = (a + b * w) + (x + y * w)
    BY <1>0, <2>2
  <2>4. Sums(f)[j] = a + x /\ Sums(g)[j] = b + y
    BY <1>0, <2>1
  <2>5. (a + b * w) + (x + y * w) = (a + x) + (b + y) * w
    OBVIOUS
  <2> QED  BY <2>3, <2>4, <2>5
<1>3. \A j \in 0 .. n : j \in P
  <2> HIDE DEF P
  <2>1. \A j \in 1 .. n : j - 1 \in P => j \in P
    BY <1>2
  <2> QED  BY <1>1, <2>1, IntervalInduction
<1> QED  BY <1>3

\* The sums of natural numbers are natural numbers.
LEMMA SumsNatural ==
  ASSUME NEW n \in Nat, NEW f \in [1 .. n -> Nat]
  PROVE  \A k \in 0 .. n : Sums(f)[k] \in Nat
<1> DEFINE P == {j \in 0 .. n : Sums(f)[j] \in Nat}
<1>0. Sums(f)[0] = 0 /\ \A i \in 1 .. n : Sums(f)[i] = Sums(f)[i - 1] + f[i]
  <2>1. f \in Numbers(n)
    BY DEF Numbers
  <2> QED  BY <2>1, SumsRecursion
<1>1. 0 \in P
  BY <1>0
<1>2. \A j \in 1 .. n : j - 1 \in P => j \in P
  BY <1>0
<1>3. \A j \in 0 .. n : j \in P
  <2> HIDE DEF P
  <2> QED  BY <1>1, <1>2, IntervalInduction
<1> QED  BY <1>3

\* The sum stays as it is from where the numbers are zero, and does not shrink
\* where they are not negative.
LEMMA SumsFrom ==
  ASSUME NEW n \in Nat, NEW f \in Numbers(n), NEW m \in 0 .. n
  PROVE  /\ (\A i \in m + 1 .. n : f[i] = 0) => Sums(f)[n] = Sums(f)[m]
         /\ (\A i \in m + 1 .. n : f[i] >= 0) =>
              \A k \in m .. n : Sums(f)[m] <= Sums(f)[k]
<1>0. /\ Sums(f)[0] = 0 /\ Sums(f) \in [0 .. n -> Int]
      /\ \A i \in 1 .. n : Sums(f)[i] = Sums(f)[i - 1] + f[i]
  BY SumsRecursion
<1>1. ASSUME \A i \in m + 1 .. n : f[i] = 0 PROVE Sums(f)[n] = Sums(f)[m]
  <2> DEFINE P == {j \in 0 .. n : j >= m => Sums(f)[j] = Sums(f)[m]}
  <2>1. 0 \in P
    BY <1>0
  <2>2. ASSUME NEW j \in 1 .. n, j - 1 \in P PROVE j \in P
    <3>1. CASE j >= m + 1
      <4>1. Sums(f)[j] = Sums(f)[j - 1] + f[j] /\ j \in m + 1 .. n /\ m \in 0 .. n
        BY <1>0, <3>1
      <4>2. f[j] = 0 /\ Sums(f)[j - 1] = Sums(f)[m] /\ Sums(f)[m] \in Int
        BY <1>0, <1>1, <2>2, <3>1, <4>1
      <4> QED  BY <4>1, <4>2
    <3>2. CASE j <= m
      BY <3>2
    <3> QED  BY <3>1, <3>2
  <2>3. \A j \in 0 .. n : j \in P
    <3> HIDE DEF P
    <3>1. \A j \in 1 .. n : j - 1 \in P => j \in P
      BY <2>2
    <3> QED  BY <2>1, <3>1, IntervalInduction
  <2> QED  BY <2>3
<1>2. ASSUME \A i \in m + 1 .. n : f[i] >= 0
      PROVE  \A k \in m .. n : Sums(f)[m] <= Sums(f)[k]
  <2> DEFINE P == {j \in 0 .. n : j >= m => Sums(f)[m] <= Sums(f)[j]}
  <2>1. 0 \in P
    BY <1>0
  <2>2. ASSUME NEW j \in 1 .. n, j - 1 \in P PROVE j \in P
    <3>0. Sums(f)[m] \in Int
      BY <1>0
    <3>1. CASE j >= m + 1
      <4>1. /\ Sums(f)[j] = Sums(f)[j - 1] + f[j] /\ j \in m + 1 .. n
            /\ j - 1 \in 0 .. n /\ f[j] \in Int
        BY <1>0, <3>1 DEF Numbers
      <4>2. f[j] >= 0 /\ Sums(f)[m] <= Sums(f)[j - 1] /\ Sums(f)[j - 1] \in Int
        BY <1>0, <1>2, <2>2, <3>1, <4>1
      <4> QED  BY <3>0, <4>1, <4>2
    <3>2. CASE j <= m
      BY <3>0, <3>2
    <3> QED  BY <3>1, <3>2
  <2>3. \A j \in 0 .. n : j \in P
    <3> HIDE DEF P
    <3>1. \A j \in 1 .. n : j - 1 \in P => j \in P
      BY <2>2
    <3> QED  BY <2>1, <3>1, IntervalInduction
  <2> QED  BY <2>3
<1> QED  BY <1>1, <1>2

\* Handing out m in order, to each as much as it takes, hands out all it can.
LEMMA SumsClipped ==
  ASSUME NEW n \in Nat, NEW t \in [1 .. n -> Nat], NEW m \in Nat, NEW b \in Numbers(n),
         \A i \in 1 .. n : b[i] = Bounded(m - Sums(t)[i - 1], t[i])
  PROVE  \A k \in 0 .. n : Sums(b)[k] = Bounded(Sums(t)[k], m)
<1> DEFINE P == {j \in 0 .. n : Sums(b)[j] = Bounded(Sums(t)[j], m)}
<1>0. /\ Sums(t)[0] = 0 /\ Sums(b)[0] = 0
      /\ \A i \in 1 .. n : Sums(t)[i] = Sums(t)[i - 1] + t[i]
      /\ \A i \in 1 .. n : Sums(b)[i] = Sums(b)[i - 1] + b[i]
      /\ \A i \in 0 .. n : Sums(t)[i] \in Nat
  <2>1. t \in Numbers(n)
    BY DEF Numbers
  <2> QED  BY <2>1, SumsRecursion, SumsNatural
<1>1. 0 \in P
  BY <1>0 DEF Bounded
<1>2. ASSUME NEW j \in 1 .. n, j - 1 \in P PROVE j \in P
  <2>1. PICK s \in Nat, x \in Nat : s = Sums(t)[j - 1] /\ x = t[j]
    BY <1>0
  <2>2. Sums(b)[j] = Bounded(s, m) + Bounded(m - s, x) /\ Sums(t)[j] = s + x
    BY <1>0, <1>2, <2>1
  <2>3. Bounded(s, m) + Bounded(m - s, x) = Bounded(s + x, m)
    BY DEF Bounded
  <2> QED  BY <2>2, <2>3
<1>3. \A j \in 0 .. n : j \in P
  <2> HIDE DEF P
  <2>1. \A j \in 1 .. n : j - 1 \in P => j \in P
    BY <1>2
  <2> QED  BY <1>1, <2>1, IntervalInduction
<1> QED  BY <1>3

\* One of the numbers changes.
LEMMA SumsChanged ==
  ASSUME NEW n \in Nat, NEW f \in Numbers(n), NEW h \in Numbers(n), NEW x \in 1 .. n,
         \A i \in (1 .. n) \ {x} : h[i] = f[i]
  PROVE  Sums(h)[n] = Sums(f)[n] - f[x] + h[x]
<1> DEFINE P == {j \in 0 .. n : Sums(h)[j] = IF j < x THEN Sums(f)[j]
                                             ELSE Sums(f)[j] - f[x] + h[x]}
<1>0. /\ Sums(f)[0] = 0 /\ Sums(h)[0] = 0
      /\ Sums(f) \in [0 .. n -> Int] /\ Sums(h) \in [0 .. n -> Int]
      /\ \A i \in 1 .. n : Sums(f)[i] = Sums(f)[i - 1] + f[i]
      /\ \A i \in 1 .. n : Sums(h)[i] = Sums(h)[i - 1] + h[i]
  BY SumsRecursion
<1>1. 0 \in P
  BY <1>0
<1>2. ASSUME NEW j \in 1 .. n, j - 1 \in P PROVE j \in P
  <2>0. j - 1 \in 0 .. n /\ f[j] \in Int /\ h[j] \in Int /\ f[x] \in Int /\ h[x] \in Int
    BY DEF Numbers
  <2>1. PICK a \in Int : a = Sums(f)[j - 1]
    BY <1>0, <2>0
  <2>2. Sums(f)[j] = a + f[j] /\ Sums(h)[j] = Sums(h)[j - 1] + h[j]
    BY <1>0, <2>1
  <2>3. Sums(h)[j - 1] = IF j - 1 < x THEN a ELSE a - f[x] + h[x]
    BY <1>2, <2>1
  <2>4. j # x => h[j] = f[j]
    OBVIOUS
  <2> QED  BY <2>0, <2>2, <2>3, <2>4
<1>3. \A j \in 0 .. n : j \in P
  <2> HIDE DEF P
  <2>1. \A j \in 1 .. n : j - 1 \in P => j \in P
    BY <1>2
  <2> QED  BY <1>1, <2>1, IntervalInduction
<1> QED  BY <1>3

-----------------------------------------------------------------------------
(* Stacks.                                                                 *)

Row(n) == [1 .. n -> Stacks]

\* What Stacks says of a stack.
LEMMA StackFields ==
  ASSUME NEW st \in Stacks
  PROVE  /\ st \in [item : Items \cup {Air}, count : 0 .. StackLimit, dur : 0 .. Durability]
         /\ st.count = 0 <=> st.item = Air
         /\ st.count # 0 => st.item \in Items
         /\ st.count \in 0 .. StackMax(st.item)
<1>1. StackMax(st.item) \in Nat
  BY ItemsAssumption DEF StackMax
<1> QED  BY <1>1 DEF Stacks

\* What it takes to be a stack.
LEMMA StackMade ==
  ASSUME NEW item \in Items, NEW count \in 1 .. StackMax(item), NEW dur \in 0 .. Durability
  PROVE  [item |-> item, count |-> count, dur |-> dur] \in Stacks
BY ItemsAssumption DEF Stacks, StackMax

\* The empty slot is one.
LEMMA EmptyMade == Empty \in Stacks /\ Empty.count = 0 /\ Empty.item = Air
BY ItemsAssumption DEF Stacks, StackMax, Empty

\* Every item has a limit, which is at most INVENTORY_MAX_STACK.
LEMMA StackMaxTyped == \A item : StackMax(item) \in 1 .. StackLimit
BY ItemsAssumption DEF StackMax

\* What the slots can take, first those that hold the item, then the empty ones.
LEMMA RoomTyped ==
  ASSUME NEW n \in Nat, NEW s \in Row(n), NEW item \in Items
  PROVE  /\ TopUp(s, item) \in [1 .. n -> Nat] /\ Filling(s, item) \in [1 .. n -> Nat]
         /\ \A i \in 1 .. n :
              /\ TopUp(s, item)[i] = IF s[i].item = item THEN StackMax(item) - s[i].count
                                     ELSE 0
              /\ Filling(s, item)[i] = IF s[i].count = 0 THEN StackMax(item) ELSE 0
              /\ TopUp(s, item)[i] = 0 \/ Filling(s, item)[i] = 0
<1>1. DOMAIN s = 1 .. n /\ StackMax(item) \in Nat
  BY StackMaxTyped DEF Row
<1>2. \A i \in 1 .. n : /\ s[i].count \in Nat /\ (s[i].count = 0 => s[i].item # item)
                        /\ s[i].item = item => s[i].count <= StackMax(item)
  <2> SUFFICES ASSUME NEW i \in 1 .. n
               PROVE  /\ s[i].count \in Nat /\ (s[i].count = 0 => s[i].item # item)
                      /\ s[i].item = item => s[i].count <= StackMax(item)
    OBVIOUS
  <2>1. s[i] \in Stacks
    BY DEF Row
  <2> QED  BY <2>1, StackFields, ItemsAssumption
<1> QED  BY <1>1, <1>2 DEF TopUp, Filling

\* What is put where: no slot takes more than it has room for, and together they
\* take as much as there is and there is room for.
LEMMA PutsActs ==
  ASSUME NEW n \in Nat, NEW s \in Row(n), NEW item \in Items, NEW m \in Nat
  PROVE  /\ Puts(s, item, m) \in [1 .. n -> Nat]
         /\ \A i \in 1 .. n : Puts(s, item, m)[i] # 0 =>
              /\ s[i].count = 0 \/ s[i].item = item
              /\ s[i].count + Puts(s, item, m)[i] \in 1 .. StackMax(item)
         /\ \A k \in 0 .. n :
              Sums(Puts(s, item, m))[k] =
                Bounded(Sums(TopUp(s, item))[k], m)
                + Bounded(Sums(Filling(s, item))[k],
                          m - Bounded(Sums(TopUp(s, item))[n], m))
<1>1. PICK top : top = TopUp(s, item)
  OBVIOUS
<1>2. PICK fill : fill = Filling(s, item)
  OBVIOUS
<1>3. top \in [1 .. n -> Nat] /\ fill \in [1 .. n -> Nat]
  BY <1>1, <1>2, RoomTyped
<1>4. PICK topped : topped = Sums(top)
  OBVIOUS
<1>5. PICK filled : filled = Sums(fill)
  OBVIOUS
<1>6. \A k \in 0 .. n : topped[k] \in Nat /\ filled[k] \in Nat
  BY <1>3, <1>4, <1>5, SumsNatural
<1>7. PICK rest : rest = m - Bounded(topped[n], m)
  OBVIOUS
<1>8. rest \in Nat
  BY <1>6, <1>7 DEF Bounded
<1>9. PICK a : a = [i \in 1 .. n |-> Bounded(m - topped[i - 1], top[i])]
  OBVIOUS
<1>10. PICK b : b = [i \in 1 .. n |-> Bounded(rest - filled[i - 1], fill[i])]
  OBVIOUS
<1>11. PICK put : put = Puts(s, item, m)
  OBVIOUS
<1>12. DOMAIN s = 1 .. n /\ Len(s) = n
  <2>1. s \in Seq(Stacks)
    BY DEF Row
  <2> QED  BY <2>1 DEF Row
<1>13. put = [i \in 1 .. n |-> a[i] + b[i]]
  <2>1. put = [i \in DOMAIN s |-> Bounded(m - topped[i - 1], top[i])
                                  + Bounded(rest - filled[i - 1], fill[i])]
    BY <1>1, <1>2, <1>4, <1>5, <1>7, <1>11, <1>12 DEF Puts
  <2> QED  BY <1>9, <1>10, <1>12, <2>1
<1>14. /\ a \in [1 .. n -> Nat] /\ b \in [1 .. n -> Nat]
       /\ \A i \in 1 .. n : a[i] <= top[i] /\ b[i] <= fill[i]
  <2>1. ASSUME NEW i \in 1 .. n
        PROVE  /\ Bounded(m - topped[i - 1], top[i]) \in 0 .. top[i]
               /\ Bounded(rest - filled[i - 1], fill[i]) \in 0 .. fill[i]
    <3>1. topped[i - 1] \in Nat /\ filled[i - 1] \in Nat /\ top[i] \in Nat /\ fill[i] \in Nat
      BY <1>3, <1>6
    <3> QED  BY <1>8, <3>1 DEF Bounded
  <2>2. /\ \A i \in 1 .. n : top[i] \in Nat /\ fill[i] \in Nat
    BY <1>3
  <2> QED  BY <1>9, <1>10, <2>1, <2>2
<1>15. put \in [1 .. n -> Nat]
  BY <1>13, <1>14
<1>16. ASSUME NEW i \in 1 .. n, put[i] # 0
       PROVE  /\ s[i].count = 0 \/ s[i].item = item
              /\ s[i].count + put[i] \in 1 .. StackMax(item)
  <2>1. put[i] = a[i] + b[i] /\ a[i] \in 0 .. top[i] /\ b[i] \in 0 .. fill[i]
        /\ top[i] \in Nat /\ fill[i] \in Nat
    BY <1>3, <1>13, <1>14
  <2>2. /\ top[i] = IF s[i].item = item THEN StackMax(item) - s[i].count ELSE 0
        /\ fill[i] = IF s[i].count = 0 THEN StackMax(item) ELSE 0
        /\ top[i] = 0 \/ fill[i] = 0
    BY <1>1, <1>2, RoomTyped
  <2>3. s[i].count \in Nat /\ StackMax(item) \in Nat
    <3>1. s[i] \in Stacks
      BY DEF Row
    <3> QED  BY <3>1, StackFields, StackMaxTyped
  <2> QED  BY <1>16, <2>1, <2>2, <2>3
<1>17. ASSUME NEW k \in 0 .. n
       PROVE  Sums(put)[k] = Bounded(topped[k], m) + Bounded(filled[k], rest)
  <2>1. a \in Numbers(n) /\ b \in Numbers(n) /\ put \in Numbers(n)
    BY <1>14, <1>15 DEF Numbers
  <2>2. \A i \in 1 .. n : put[i] = a[i] + b[i] * 1
    BY <1>13, <1>14
  <2>3. Sums(put)[k] = Sums(a)[k] + Sums(b)[k] * 1
    BY <2>1, <2>2, SumsLinear
  <2>4. Sums(a)[k] = Bounded(topped[k], m)
    <3>1. \A i \in 1 .. n : a[i] = Bounded(m - Sums(top)[i - 1], top[i])
      BY <1>4, <1>9
    <3> QED  BY <1>3, <1>4, <2>1, <3>1, SumsClipped
  <2>5. Sums(b)[k] = Bounded(filled[k], rest)
    <3>1. \A i \in 1 .. n : b[i] = Bounded(rest - Sums(fill)[i - 1], fill[i])
      BY <1>5, <1>10
    <3> QED  BY <1>3, <1>5, <1>8, <2>1, <3>1, SumsClipped
  <2>6. Sums(b)[k] \in Int
    BY <2>1, SumsRecursion
  <2> QED  BY <2>3, <2>4, <2>5, <2>6
<1> QED  BY <1>1, <1>2, <1>4, <1>5, <1>7, <1>11, <1>15, <1>16, <1>17

Value(st) == IF st.count = 0 THEN 0 ELSE st.count * Worth[st.item]

\* The product of natural numbers is one.
LEMMA Product == \A a, b \in Nat : a * b \in Nat
OBVIOUS

\* A stack is worth a natural number, an empty one nothing.
LEMMA ValueTyped ==
  ASSUME NEW st \in Stacks
  PROVE  Value(st) \in Nat /\ (st.count = 0 => Value(st) = 0)
<1>1. CASE st.count = 0
  BY <1>1 DEF Value
<1>2. CASE st.count # 0
  <2>1. st.item \in Items /\ st.count \in Nat
    BY <1>2, StackFields
  <2>2. Worth[st.item] \in Nat
    BY <2>1, WorthAssumption
  <2> QED  BY <1>2, <2>1, <2>2, Product DEF Value
<1> QED  BY <1>1, <1>2

Values(n, s) == [i \in 1 .. n |-> Value(s[i])]

\* The worth of a row of stacks is the sum of their values.
LEMMA WorthOfRow ==
  ASSUME NEW n \in Nat, NEW s \in Row(n)
  PROVE  /\ Values(n, s) \in [1 .. n -> Nat] /\ Values(n, s) \in Numbers(n)
         /\ WorthOf(s, Worth) = Sums(Values(n, s))[n] /\ WorthOf(s, Worth) \in Nat
<1>1. DOMAIN s = 1 .. n /\ Len(s) = n
  <2>1. s \in Seq(Stacks)
    BY DEF Row
  <2> QED  BY <2>1 DEF Row
<1>2. \A i \in 1 .. n : Value(s[i]) \in Nat
  BY ValueTyped DEF Row
<1>3. Values(n, s) \in [1 .. n -> Nat]
  BY <1>2 DEF Values
<1>4. WorthOf(s, Worth) = Sums(Values(n, s))[n]
  BY <1>1 DEF WorthOf, Values, Value
<1>5. Sums(Values(n, s))[n] \in Nat
  BY <1>3, SumsNatural
<1> QED  BY <1>3, <1>4, <1>5 DEF Numbers

\* One slot changes.
LEMMA WorthChanged ==
  ASSUME NEW n \in Nat, NEW s \in Row(n), NEW t \in Row(n), NEW x \in 1 .. n,
         \A i \in (1 .. n) \ {x} : t[i] = s[i]
  PROVE  WorthOf(t, Worth) = WorthOf(s, Worth) - Value(s[x]) + Value(t[x])
<1>1. PICK v : v = Values(n, s)
  OBVIOUS
<1>2. PICK u : u = Values(n, t)
  OBVIOUS
<1>3. v \in Numbers(n) /\ u \in Numbers(n) /\ WorthOf(s, Worth) = Sums(v)[n]
      /\ WorthOf(t, Worth) = Sums(u)[n]
  BY <1>1, <1>2, WorthOfRow
<1>4. \A i \in (1 .. n) \ {x} : u[i] = v[i]
  BY <1>1, <1>2 DEF Values
<1>5. u[x] = Value(t[x]) /\ v[x] = Value(s[x])
  BY <1>1, <1>2 DEF Values
<1>6. Sums(u)[n] = Sums(v)[n] - v[x] + u[x]
  BY <1>3, <1>4, SumsChanged
<1> QED  BY <1>3, <1>5, <1>6

\* A row of empty slots is worth nothing.
LEMMA NothingIsWorthNothing ==
  ASSUME NEW n \in Nat, NEW s \in Row(n), \A i \in 1 .. n : s[i].count = 0
  PROVE  WorthOf(s, Worth) = 0
<1>1. PICK v : v = Values(n, s)
  OBVIOUS
<1>2. v \in Numbers(n) /\ WorthOf(s, Worth) = Sums(v)[n]
  BY <1>1, WorthOfRow
<1>3. \A i \in 0 + 1 .. n : v[i] = 0
  BY <1>1 DEF Values, Value
<1>4. Sums(v)[n] = Sums(v)[0] /\ Sums(v)[0] = 0
  BY <1>2, <1>3, SumsFrom, SumsRecursion
<1> QED  BY <1>2, <1>4

\* inventory_add_item and container_add: what the slots gain is what was put.
LEMMA FilledActs ==
  ASSUME NEW n \in Nat, NEW s \in Row(n), NEW item \in Items, NEW m \in Nat,
         NEW dur \in 0 .. Durability
  PROVE  /\ Filled(s, item, m, dur) \in Row(n)
         /\ Leftover(s, item, m) \in 0 .. m
         /\ WorthOf(Filled(s, item, m, dur), Worth)
              = WorthOf(s, Worth) + (m - Leftover(s, item, m)) * Worth[item]
<1>1. PICK put : put = Puts(s, item, m)
  OBVIOUS
<1>2. /\ put \in [1 .. n -> Nat]
      /\ \A i \in 1 .. n : put[i] # 0 =>
           /\ s[i].count = 0 \/ s[i].item = item
           /\ s[i].count + put[i] \in 1 .. StackMax(item)
      /\ Sums(put)[n] = Bounded(Sums(TopUp(s, item))[n], m)
                        + Bounded(Sums(Filling(s, item))[n],
                                  m - Bounded(Sums(TopUp(s, item))[n], m))
  BY <1>1, PutsActs
<1>3. DOMAIN s = 1 .. n /\ Len(s) = n
  <2>1. s \in Seq(Stacks)
    BY DEF Row
  <2> QED  BY <2>1 DEF Row
<1>4. Sums(put)[n] \in 0 .. m
  <2>1. Sums(TopUp(s, item))[n] \in Nat /\ Sums(Filling(s, item))[n] \in Nat
    <3>1. TopUp(s, item) \in [1 .. n -> Nat] /\ Filling(s, item) \in [1 .. n -> Nat]
      BY RoomTyped
    <3>2. n \in 0 .. n
      OBVIOUS
    <3> QED  BY <3>1, <3>2, SumsNatural
  <2> QED  BY <1>2, <2>1 DEF Bounded
<1>5. Leftover(s, item, m) = m - Sums(put)[n]
  BY <1>1, <1>3 DEF Leftover
<1>6. PICK t : t = Filled(s, item, m, dur)
  OBVIOUS
<1>7. t = [i \in 1 .. n |->
            IF put[i] = 0 THEN s[i]
            ELSE [item |-> item, count |-> s[i].count + put[i],
                  dur |-> IF s[i].count = 0 THEN dur ELSE s[i].dur]]
  BY <1>1, <1>3, <1>6 DEF Filled
<1>8. PICK w \in Nat : w = Worth[item]
  BY WorthAssumption
<1>9. ASSUME NEW i \in 1 .. n
      PROVE  t[i] \in Stacks /\ Value(t[i]) = Value(s[i]) + put[i] * w
  <2>1. s[i] \in Stacks /\ put[i] \in Nat
    BY <1>2 DEF Row
  <2>2. CASE put[i] = 0
    <3>1. t[i] = s[i]
      BY <1>7, <2>2
    <3>2. Value(s[i]) \in Nat /\ put[i] * w = 0
      BY <2>1, <2>2, ValueTyped, ZeroTimes
    <3> QED  BY <2>1, <3>1, <3>2
  <2>3. CASE put[i] # 0
    <3>1. PICK c \in Nat, d \in 0 .. Durability :
            c = s[i].count /\ d = IF s[i].count = 0 THEN dur ELSE s[i].dur
      BY <2>1, StackFields
    <3>2. t[i] = [item |-> item, count |-> c + put[i], dur |-> d]
      BY <1>7, <2>3, <3>1
    <3>3. c + put[i] \in 1 .. StackMax(item)
      BY <1>2, <2>3, <3>1
    <3>4. t[i] \in Stacks
      BY <3>2, <3>3, StackMade
    <3>5. Value(t[i]) = (c + put[i]) * w
      BY <1>8, <2>1, <3>1, <3>2, <3>3 DEF Value
    <3>6. (c + put[i]) * w = c * w + put[i] * w
      BY <2>1
    <3>7. Value(s[i]) = c * w
      <4>1. CASE c = 0
        BY <3>1, <4>1, ZeroTimes DEF Value
      <4>2. CASE c # 0
        BY <1>2, <1>8, <2>3, <3>1, <4>2 DEF Value
      <4> QED  BY <4>1, <4>2
    <3> QED  BY <3>4, <3>5, <3>6, <3>7
  <2> QED  BY <2>2, <2>3
<1>10. t \in Row(n)
  BY <1>7, <1>9 DEF Row
<1>11. WorthOf(t, Worth) = WorthOf(s, Worth) + Sums(put)[n] * w
  <2>1. PICK v : v = Values(n, s)
    OBVIOUS
  <2>2. PICK u : u = Values(n, t)
    OBVIOUS
  <2>3. v \in Numbers(n) /\ u \in Numbers(n) /\ put \in Numbers(n)
    BY <1>2, <1>10, <2>1, <2>2, WorthOfRow DEF Numbers
  <2>4. \A i \in 1 .. n : u[i] = v[i] + put[i] * w
    BY <1>9, <2>1, <2>2 DEF Values
  <2>5. Sums(u)[n] = Sums(v)[n] + Sums(put)[n] * w
    BY <2>3, <2>4, SumsLinear
  <2> QED  BY <1>10, <2>1, <2>2, <2>5, WorthOfRow
<1>12. m - Leftover(s, item, m) = Sums(put)[n]
  BY <1>4, <1>5
<1> QED  BY <1>4, <1>5, <1>6, <1>8, <1>10, <1>11, <1>12

\* What may be added to stacks: of something, or nothing.
Deal(st) == st.count \in Nat /\ (st.count # 0 => st.item \in Items)

\* Every stack is one.
LEMMA StackIsDeal == \A st \in Stacks : Deal(st)
BY StackFields DEF Deal

\* It has a value, whatever its size.
LEMMA DealValue == ASSUME NEW st, Deal(st) PROVE Value(st) \in Nat
<1>1. CASE st.count = 0
  BY <1>1 DEF Value
<1>2. CASE st.count # 0
  <2>1. st.count \in Nat /\ Worth[st.item] \in Nat
    BY <1>2, WorthAssumption DEF Deal
  <2> QED  BY <1>2, <2>1, Product DEF Value
<1> QED  BY <1>1, <1>2

\* inventory_add_item adds what fits.
LEMMA AddedActs ==
  ASSUME NEW n \in Nat, NEW s \in Row(n), NEW st, Deal(st)
  PROVE  /\ Added(s, st) \in Row(n)
         /\ WorthOf(Added(s, st), Worth) <= WorthOf(s, Worth) + Value(st)
         /\ st.count # 0 =>
              /\ Leftover(s, st.item, st.count) \in 0 .. st.count
              /\ WorthOf(Added(s, st), Worth)
                   = WorthOf(s, Worth)
                     + (st.count - Leftover(s, st.item, st.count)) * Worth[st.item]
<1>1. CASE st.count = 0
  BY <1>1, WorthOfRow DEF Added, Value
<1>2. CASE st.count # 0
  <2>1. PICK item \in Items, m \in Nat : item = st.item /\ m = st.count
    BY <1>2 DEF Deal
  <2>2. FreshDur(item) \in 0 .. Durability
    BY ItemsAssumption DEF FreshDur
  <2>3. Added(s, st) = Filled(s, item, m, FreshDur(item))
    BY <1>2, <2>1 DEF Added
  <2>4. PICK w \in Nat : w = Worth[item]
    BY WorthAssumption
  <2>5. PICK l \in 0 .. m : l = Leftover(s, item, m)
    BY <2>2, FilledActs
  <2>6. /\ Added(s, st) \in Row(n)
        /\ WorthOf(Added(s, st), Worth) = WorthOf(s, Worth) + (m - l) * w
    BY <2>2, <2>3, <2>4, <2>5, FilledActs
  <2>7. Value(st) = m * w
    BY <1>2, <2>1, <2>4 DEF Value
  <2>8. m * w = (m - l) * w + l * w /\ l * w \in Nat /\ (m - l) * w \in Nat
    <3>1. m - l \in Nat /\ l \in Nat
      OBVIOUS
    <3>2. m * w = ((m - l) + l) * w
      BY <3>1
    <3> QED  BY <3>1, <3>2, Product
  <2>9. WorthOf(s, Worth) \in Nat
    BY WorthOfRow
  <2>10. WorthOf(Added(s, st), Worth) <= WorthOf(s, Worth) + Value(st)
    BY <2>6, <2>7, <2>8, <2>9
  <2> QED  BY <2>1, <2>4, <2>5, <2>6, <2>10
<1> QED  BY <1>1, <1>2

\* The greatest of some of the numbers 1 .. n is one of them.
LEMMA MaxFound ==
  ASSUME NEW n \in Nat
  PROVE  /\ \A s \in SUBSET (1 .. n) : s # {} => Max(s) \in s
         /\ \A i \in 1 .. n : Max(1 .. i) = i /\ (1 .. i) \ {i} = 1 .. i - 1
<1>1. IsFiniteSet(1 .. n)
  BY FS_Interval
<1> DEFINE P == {s \in SUBSET (1 .. n) : s # {} => \E x \in s : \A y \in s : x >= y}
<1>2. ASSUME NEW s \in SUBSET (1 .. n), \A x \in s : s \ {x} \in P PROVE s \in P
  <2> SUFFICES ASSUME NEW z \in s PROVE \E x \in s : \A y \in s : x >= y
    OBVIOUS
  <2>1. CASE s = {z}
    BY <2>1
  <2>2. CASE s # {z}
    <3>1. PICK x \in s \ {z} : \A y \in s \ {z} : x >= y
      BY <1>2, <2>2
    <3>2. CASE x >= z
      <4>1. \A y \in s : x >= y
        BY <3>1, <3>2
      <4> QED  BY <4>1
    <3>3. CASE z >= x
      <4>1. \A y \in s : z >= y
        BY <3>1, <3>3
      <4> QED  BY <4>1
    <3> QED  BY <3>2, <3>3
  <2> QED  BY <2>1, <2>2
<1>3. \A s \in SUBSET (1 .. n) : s \in P
  <2> HIDE DEF P
  <2>1. \A s \in SUBSET (1 .. n) : (\A x \in s : s \ {x} \in P) => s \in P
    BY <1>2
  <2> QED  BY <1>1, <2>1, SubsetInduction
<1>4. ASSUME NEW s \in SUBSET (1 .. n), s # {}
      PROVE  Max(s) \in s /\ \A y \in s : Max(s) >= y
  BY <1>3, <1>4 DEF Max
<1>5. ASSUME NEW i \in 1 .. n PROVE Max(1 .. i) = i
  <2>1. 1 .. i \in SUBSET (1 .. n) /\ i \in 1 .. i
    OBVIOUS
  <2>2. Max(1 .. i) \in 1 .. i /\ Max(1 .. i) >= i
    BY <1>4, <2>1
  <2> QED  BY <2>2
<1> QED  BY <1>4, <1>5

\* Pouring adds one stack after the other.
LEMMA PouredSteps ==
  ASSUME NEW n \in Nat, NEW s \in Row(n), NEW m \in Nat, NEW list, DOMAIN list = 1 .. m,
         \A i \in 1 .. m : Deal(list[i])
  PROVE  \E f : /\ f[0] = s /\ Poured(s, list) = f[m]
                /\ \A i \in 1 .. m : f[i] = Added(f[i - 1], list[i])
<1> DEFINE D == 1 .. m
           F(g) == [u \in SUBSET D |->
                     IF u = {} THEN s ELSE Added(g[u \ {Max(u)}], list[Max(u)])]
<1>1. IsFiniteSet(D)
  BY FS_Interval
<1>2. \E g : g = F(g)
  <2>1. PICK pick : pick = [u \in SUBSET D |-> Max(u)]
    OBVIOUS
  <2>2. \A u \in SUBSET D : u # {} => pick[u] \in u
    BY <2>1, MaxFound
  <2>3. PICK step : step = [e \in D \X Row(n) |-> Added(e[2], list[e[1]])]
    OBVIOUS
  <2>4. step \in [D \X Row(n) -> Row(n)]
    BY <2>3, AddedActs
  <2>5. PICK g : IsFold(D, Row(n), s, pick, step, g)
    <3>1. CanFold(D, Row(n), s, pick, step)
      BY <1>1, <2>2, <2>4 DEF CanFold
    <3> QED  BY <3>1, FoldExists
  <2>6. ASSUME NEW u \in SUBSET D PROVE g[u] = F(g)[u]
    <3>1. CASE u = {}
      BY <2>5, <3>1 DEF IsFold
    <3>2. CASE u # {}
      <4>1. pick[u] = Max(u) /\ pick[u] \in D /\ u \ {pick[u]} \in SUBSET D
        BY <2>1, <2>2, <3>2
      <4>2. /\ g[u] = step[<<pick[u], g[u \ {pick[u]}]>>]
            /\ g[u \ {pick[u]}] \in Row(n)
        BY <2>5, <3>2, <4>1 DEF IsFold
      <4>3. g[u] = Added(g[u \ {pick[u]}], list[pick[u]])
        BY <2>3, <4>1, <4>2
      <4> QED  BY <3>2, <4>1, <4>3
    <3> QED  BY <3>1, <3>2
  <2>7. g = F(g)
    <3>1. PICK h : h = F(g)
      OBVIOUS
    <3>2. h = [u \in SUBSET D |-> h[u]] /\ g \in [SUBSET D -> Row(n)]
      BY <2>5, <3>1 DEF IsFold
    <3>3. \A u \in SUBSET D : g[u] = h[u]
      BY <2>6, <3>1
    <3> HIDE DEF F
    <3>4. g = h
      BY <3>2, <3>3
    <3> QED  BY <3>1, <3>4
  <2> HIDE DEF F
  <2> QED  BY <2>7
<1> DEFINE g0 == CHOOSE g : g = F(g)
<1>3. g0 = F(g0)
  BY <1>2
<1>4. Poured(s, list) = g0[D]
  BY DEF Poured, FoldLeft, MapThenFoldSet
<1>5. PICK h : h = g0
  OBVIOUS
<1> HIDE DEF g0
<1>6. h = F(h)
  BY <1>3, <1>5
<1>7. PICK f : f = [i \in 0 .. m |-> h[1 .. i]]
  OBVIOUS
<1>8. f[0] = s
  <2>1. 1 .. 0 = {} /\ {} \in SUBSET D /\ 0 \in 0 .. m
    OBVIOUS
  <2>2. h[{}] = s
    BY <1>6
  <2> QED  BY <1>7, <2>1, <2>2
<1>9. ASSUME NEW i \in 1 .. m PROVE f[i] = Added(f[i - 1], list[i])
  <2>1. 1 .. i \in SUBSET D /\ 1 .. i # {} /\ i \in 0 .. m /\ i - 1 \in 0 .. m
    <3>1. i \in 1 .. i
      OBVIOUS
    <3>2. 1 .. i \in SUBSET D
      OBVIOUS
    <3>3. i \in 0 .. m /\ i - 1 \in 0 .. m
      OBVIOUS
    <3> QED  BY <3>1, <3>2, <3>3
  <2>2. Max(1 .. i) = i /\ (1 .. i) \ {i} = 1 .. i - 1
    BY MaxFound
  <2>3. h[1 .. i] = Added(h[1 .. i - 1], list[i])
    BY <1>6, <2>1, <2>2
  <2> QED  BY <1>7, <2>1, <2>3
<1>10. f[m] = h[D]
  BY <1>7
<1> QED  BY <1>4, <1>5, <1>8, <1>9, <1>10

\* What is poured adds at most its worth.
LEMMA PouredActs ==
  ASSUME NEW n \in Nat, NEW s \in Row(n), NEW m \in Nat, NEW list, DOMAIN list = 1 .. m,
         \A i \in 1 .. m : Deal(list[i])
  PROVE  /\ Poured(s, list) \in Row(n)
         /\ Values(m, list) \in [1 .. m -> Nat]
         /\ WorthOf(Poured(s, list), Worth)
              <= WorthOf(s, Worth) + Sums(Values(m, list))[m]
<1>1. PICK f : /\ f[0] = s /\ Poured(s, list) = f[m]
               /\ \A i \in 1 .. m : f[i] = Added(f[i - 1], list[i])
  BY PouredSteps
<1>2. PICK v : v = Values(m, list)
  OBVIOUS
<1>3. v \in [1 .. m -> Nat] /\ \A i \in 1 .. m : v[i] = Value(list[i])
  BY <1>2, DealValue DEF Values
<1>4. /\ Sums(v)[0] = 0 /\ \A i \in 0 .. m : Sums(v)[i] \in Nat
      /\ \A i \in 1 .. m : Sums(v)[i] = Sums(v)[i - 1] + v[i]
  <2>1. v \in Numbers(m)
    BY <1>3 DEF Numbers
  <2> QED  BY <1>3, <2>1, SumsRecursion, SumsNatural
<1> DEFINE P == {i \in 0 .. m : f[i] \in Row(n) /\ WorthOf(f[i], Worth)
                                                   <= WorthOf(s, Worth) + Sums(v)[i]}
<1>5. 0 \in P
  BY <1>1, <1>4, WorthOfRow
<1>6. ASSUME NEW i \in 1 .. m, i - 1 \in P PROVE i \in P
  <2>1. PICK t \in Row(n) : t = f[i - 1]
    BY <1>6
  <2>2. f[i] = Added(t, list[i]) /\ Deal(list[i])
    BY <1>1, <2>1
  <2>3. f[i] \in Row(n) /\ WorthOf(f[i], Worth) <= WorthOf(t, Worth) + v[i]
    BY <1>3, <2>2, AddedActs
  <2>4. WorthOf(t, Worth) \in Nat /\ WorthOf(s, Worth) \in Nat /\ WorthOf(f[i], Worth) \in Nat
    BY <2>3, WorthOfRow
  <2>5. WorthOf(t, Worth) <= WorthOf(s, Worth) + Sums(v)[i - 1]
    BY <1>6, <2>1
  <2>6. Sums(v)[i] = Sums(v)[i - 1] + v[i] /\ Sums(v)[i - 1] \in Nat /\ v[i] \in Nat
    BY <1>3, <1>4
  <2>7. WorthOf(f[i], Worth) <= WorthOf(s, Worth) + Sums(v)[i]
    BY <2>3, <2>4, <2>5, <2>6
  <2> QED  BY <2>3, <2>7
<1>7. \A i \in 0 .. m : i \in P
  <2> HIDE DEF P
  <2>1. \A i \in 1 .. m : i - 1 \in P => i \in P
    BY <1>6
  <2> QED  BY <1>5, <2>1, IntervalInduction
<1> QED  BY <1>1, <1>2, <1>3, <1>7

\* Stacks that move from one list to another: nothing comes of it.
LEMMA PouredStacks ==
  ASSUME NEW n \in Nat, NEW s \in Row(n), NEW m \in Nat, NEW list \in Row(m)
  PROVE  /\ Poured(s, list) \in Row(n)
         /\ WorthOf(Poured(s, list), Worth) <= WorthOf(s, Worth) + WorthOf(list, Worth)
<1>1. DOMAIN list = 1 .. m /\ \A i \in 1 .. m : Deal(list[i])
  BY StackIsDeal DEF Row
<1> QED  BY <1>1, PouredActs, WorthOfRow

\* inventory_consume and container_take_slot take what is there.
LEMMA LessActs ==
  ASSUME NEW st \in Stacks, NEW k \in 0 .. st.count, st.count # 0
  PROVE  /\ Less(st, k) \in Stacks
         /\ Value(Less(st, k)) = Value(st) - k * Worth[st.item]
<1>1. /\ st \in [item : Items \cup {Air}, count : 0 .. StackLimit, dur : 0 .. Durability]
      /\ st.item \in Items /\ st.count \in Nat /\ st.count <= StackMax(st.item)
  BY StackFields
<1>2. PICK w \in Nat : w = Worth[st.item]
  BY <1>1, WorthAssumption
<1>3. Value(st) = st.count * w
  BY <1>2 DEF Value
<1>4. CASE st.count = k
  <2>1. Less(st, k) = Empty
    BY <1>4 DEF Less
  <2>2. Value(Empty) = 0
    BY EmptyMade DEF Value
  <2>3. st.count * w \in Nat
    BY <1>1, Product
  <2> QED  BY <1>2, <1>3, <1>4, <2>1, <2>2, <2>3, EmptyMade
<1>5. CASE st.count # k
  <2>1. PICK r : r = [st EXCEPT !.count = st.count - k]
    OBVIOUS
  <2>2. Less(st, k) = r
    BY <1>5, <2>1 DEF Less
  <2>3. r.item = st.item /\ r.count = st.count - k /\ r.dur = st.dur
        /\ r = [item |-> st.item, count |-> st.count - k, dur |-> st.dur]
    BY <1>1, <2>1
  <2>4. st.count - k \in 1 .. StackMax(st.item) /\ st.dur \in 0 .. Durability
    <3>1. PICK c \in Nat, mx \in Nat : c = st.count /\ mx = StackMax(st.item)
      BY <1>1, StackMaxTyped
    <3>2. c # k /\ k \in 0 .. c /\ c <= mx
      BY <1>1, <1>5, <3>1
    <3>3. c - k \in 1 .. mx
      BY <3>1, <3>2
    <3> QED  BY <1>1, <3>1, <3>3
  <2>5. r \in Stacks
    BY <1>1, <2>3, <2>4, StackMade
  <2>6. Value(r) = (st.count - k) * w
    BY <1>2, <2>3, <2>4 DEF Value
  <2>7. (st.count - k) * w = st.count * w - k * w
    <3>1. PICK c \in Nat : c = st.count
      BY <1>1
    <3> QED  BY <3>1
  <2> QED  BY <1>2, <1>3, <2>2, <2>5, <2>6, <2>7
<1> QED  BY <1>4, <1>5

\* One slot of a row gives something up.
LEMMA SlotChanged ==
  ASSUME NEW n \in Nat, NEW s \in Row(n), NEW x \in 1 .. n, NEW st \in Stacks
  PROVE  /\ [s EXCEPT ![x] = st] \in Row(n)
         /\ WorthOf([s EXCEPT ![x] = st], Worth)
              = WorthOf(s, Worth) - Value(s[x]) + Value(st)
<1>1. PICK t : t = [s EXCEPT ![x] = st]
  OBVIOUS
<1>2. t \in Row(n) /\ t[x] = st /\ \A i \in (1 .. n) \ {x} : t[i] = s[i]
  BY <1>1 DEF Row
<1>3. WorthOf(t, Worth) = WorthOf(s, Worth) - Value(s[x]) + Value(t[x])
  BY <1>2, WorthChanged
<1> QED  BY <1>1, <1>2, <1>3, Zenon

\* inventory_remove takes what is asked for, if it is there, and nothing else.
LEMMA RemovedActs ==
  ASSUME NEW n \in Nat, NEW s \in Row(n), NEW item \in Items, NEW k \in Nat
  PROVE  /\ Removed(s, item, k) \in Row(n)
         /\ CountIn(s, item)[n] >= k =>
              WorthOf(Removed(s, item, k), Worth) = WorthOf(s, Worth) - k * Worth[item]
         /\ \A other \in Items \ {item} :
              CountIn(Removed(s, item, k), other) = CountIn(s, other)
<1>1. PICK held : held = [i \in 1 .. n |-> IF s[i].item = item THEN s[i].count ELSE 0]
  OBVIOUS
<1>2. DOMAIN s = 1 .. n /\ \A i \in 1 .. n : s[i] \in Stacks
  BY DEF Row
<1>3. held \in [1 .. n -> Nat] /\ held \in Numbers(n)
  BY <1>1, <1>2, StackFields DEF Numbers
<1>4. PICK count : count = Sums(held)
  OBVIOUS
<1>5. CountIn(s, item) = count
  BY <1>1, <1>2, <1>4 DEF CountIn
<1>6. \A i \in 0 .. n : count[i] \in Nat
  BY <1>3, <1>4, SumsNatural
<1>7. PICK gone : gone = [i \in 1 .. n |-> Bounded(k - count[i - 1], held[i])]
  OBVIOUS
<1>8. \A i \in 1 .. n : gone[i] \in 0 .. held[i] /\ held[i] \in Nat
  <2> SUFFICES ASSUME NEW i \in 1 .. n PROVE gone[i] \in 0 .. held[i] /\ held[i] \in Nat
    OBVIOUS
  <2>1. count[i - 1] \in Nat /\ held[i] \in Nat
    BY <1>3, <1>6
  <2>2. gone[i] = Bounded(k - count[i - 1], held[i])
    BY <1>7
  <2> QED  BY <2>1, <2>2 DEF Bounded
<1>9. gone \in Numbers(n)
  <2>1. \A i \in 1 .. n : gone[i] \in Int
    BY <1>8
  <2> QED  BY <1>7, <2>1 DEF Numbers
<1>10. PICK t : t = Removed(s, item, k)
  OBVIOUS
<1>11. t = [i \in 1 .. n |-> IF s[i].item # item THEN s[i] ELSE Less(s[i], gone[i])]
  <2>1. \A i \in 1 .. n : s[i].item = item =>
          gone[i] = Bounded(k - count[i - 1], s[i].count)
    BY <1>1, <1>7
  <2>2. t = [i \in 1 .. n |->
              IF s[i].item # item THEN s[i]
              ELSE Less(s[i], Bounded(k - count[i - 1], s[i].count))]
    BY <1>2, <1>5, <1>10 DEF Removed
  <2> QED  BY <2>1, <2>2
<1>12. PICK w \in Nat : w = Worth[item]
  BY WorthAssumption
<1>13. ASSUME NEW i \in 1 .. n
       PROVE  /\ t[i] \in Stacks /\ Value(s[i]) = Value(t[i]) + gone[i] * w
              /\ s[i].item # item => t[i] = s[i]
              /\ s[i].item = item => t[i].item \in {item, Air}
  <2>1. s[i] \in Stacks /\ Value(s[i]) \in Nat
    BY <1>2, ValueTyped
  <2>2. CASE s[i].item # item
    <3>1. t[i] = s[i] /\ gone[i] = 0
      BY <1>1, <1>8, <1>11, <2>2
    <3> QED  BY <2>1, <2>2, <3>1, ZeroTimes
  <2>3. CASE s[i].item = item
    <3>1. s[i].count # 0 /\ held[i] = s[i].count /\ t[i] = Less(s[i], gone[i])
      BY <1>1, <1>11, <2>1, <2>3, StackFields, ItemsAssumption
    <3>2. gone[i] \in 0 .. s[i].count /\ gone[i] \in Nat
      BY <1>8, <3>1
    <3>3. t[i] \in Stacks /\ Value(t[i]) = Value(s[i]) - gone[i] * w
      BY <1>12, <2>1, <2>3, <3>1, <3>2, LessActs
    <3>4. gone[i] * w \in Nat
      BY <3>2, Product
    <3>5. t[i].item \in {item, Air}
      <4>1. DOMAIN s[i] = {"item", "count", "dur"}
        BY <2>1, StackFields
      <4> QED  BY <2>3, <3>1, <4>1, EmptyMade DEF Less
    <3> QED  BY <2>1, <2>3, <3>3, <3>4, <3>5
  <2> QED  BY <2>2, <2>3
<1>14. t \in Row(n)
  BY <1>11, <1>13 DEF Row
<1>15. ASSUME CountIn(s, item)[n] >= k
       PROVE  WorthOf(t, Worth) = WorthOf(s, Worth) - k * w
  <2>1. Sums(gone)[n] = k
    <3>1. \A i \in 1 .. n : gone[i] = Bounded(k - Sums(held)[i - 1], held[i])
      BY <1>4, <1>7
    <3>2. n \in 0 .. n
      OBVIOUS
    <3>3. Sums(gone)[n] = Bounded(Sums(held)[n], k)
      BY <1>3, <1>9, <3>1, <3>2, SumsClipped
    <3>4. Sums(held)[n] \in Nat /\ Sums(held)[n] >= k
      BY <1>4, <1>5, <1>6, <1>15, <3>2
    <3> QED  BY <3>3, <3>4 DEF Bounded
  <2>2. PICK v : v = Values(n, s)
    OBVIOUS
  <2>3. PICK u : u = Values(n, t)
    OBVIOUS
  <2>4. v \in Numbers(n) /\ u \in Numbers(n)
    BY <1>14, <2>2, <2>3, WorthOfRow
  <2>5. \A i \in 1 .. n : v[i] = u[i] + gone[i] * w
    BY <1>13, <2>2, <2>3 DEF Values
  <2>6. Sums(v)[n] = Sums(u)[n] + Sums(gone)[n] * w
    BY <1>9, <2>4, <2>5, SumsLinear
  <2>7. WorthOf(s, Worth) = WorthOf(t, Worth) + k * w
    BY <1>14, <2>1, <2>2, <2>3, <2>6, WorthOfRow
  <2>8. WorthOf(t, Worth) \in Nat /\ k * w \in Nat
    BY <1>14, WorthOfRow, Product
  <2> QED  BY <2>7, <2>8
<1>16. ASSUME NEW other \in Items \ {item} PROVE CountIn(t, other) = CountIn(s, other)
  <2>1. DOMAIN t = 1 .. n
    BY <1>11
  <2>2. \A i \in 1 .. n : (IF t[i].item = other THEN t[i].count ELSE 0)
                          = (IF s[i].item = other THEN s[i].count ELSE 0)
    BY <1>13, ItemsAssumption
  <2>3. [i \in 1 .. n |-> IF t[i].item = other THEN t[i].count ELSE 0]
        = [i \in 1 .. n |-> IF s[i].item = other THEN s[i].count ELSE 0]
    BY <2>2
  <2> QED  BY <1>2, <2>1, <2>3 DEF CountIn
<1> QED  BY <1>10, <1>12, <1>14, <1>15, <1>16

-----------------------------------------------------------------------------
(* Crafting.                                                               *)

Ingredients(inputs, m) ==
  /\ DOMAIN inputs = 1 .. m
  /\ \A i \in 1 .. m : inputs[i].item \in Items /\ inputs[i].count \in Nat

\* f[i] is what is left of s when the first i of the inputs were taken.
Spending(s, inputs, m, f) ==
  /\ f[0] = s /\ Spent(s, inputs) = f[m]
  /\ \A i \in 1 .. m : f[i] = Removed(f[i - 1], inputs[i].item, inputs[i].count)

\* The inputs of a recipe are removed one after the other.
LEMMA SpentSteps ==
  ASSUME NEW n \in Nat, NEW s \in Row(n), NEW m \in Nat, NEW inputs, Ingredients(inputs, m)
  PROVE  \E f : Spending(s, inputs, m, f)
<1> USE DEF Ingredients
<1> DEFINE D == 1 .. m
           Takes(t, i) == Removed(t, inputs[i].item, inputs[i].count)
           F(g) == [u \in SUBSET D |->
                     IF u = {} THEN s ELSE Takes(g[u \ {Max(u)}], Max(u))]
<1>1. IsFiniteSet(D)
  BY FS_Interval
<1>2. \E g : g = F(g)
  <2>1. PICK pick : pick = [u \in SUBSET D |-> Max(u)]
    OBVIOUS
  <2>2. \A u \in SUBSET D : u # {} => pick[u] \in u
    BY <2>1, MaxFound
  <2>3. PICK step : step = [e \in D \X Row(n) |-> Takes(e[2], e[1])]
    OBVIOUS
  <2>4. step \in [D \X Row(n) -> Row(n)]
    BY <2>3, RemovedActs
  <2> HIDE DEF Takes
  <2>5. PICK g : IsFold(D, Row(n), s, pick, step, g)
    <3>1. CanFold(D, Row(n), s, pick, step)
      BY <1>1, <2>2, <2>4 DEF CanFold
    <3> QED  BY <3>1, FoldExists
  <2>6. ASSUME NEW u \in SUBSET D PROVE g[u] = F(g)[u]
    <3>1. CASE u = {}
      BY <2>5, <3>1 DEF IsFold
    <3>2. CASE u # {}
      <4>1. pick[u] = Max(u) /\ pick[u] \in D /\ u \ {pick[u]} \in SUBSET D
        BY <2>1, <2>2, <3>2
      <4>2. /\ g[u] = step[<<pick[u], g[u \ {pick[u]}]>>]
            /\ g[u \ {pick[u]}] \in Row(n)
        BY <2>5, <3>2, <4>1 DEF IsFold
      <4>3. g[u] = Takes(g[u \ {pick[u]}], pick[u])
        BY <2>3, <4>1, <4>2
      <4> QED  BY <3>2, <4>1, <4>3
    <3> QED  BY <3>1, <3>2
  <2>7. g = F(g)
    <3>1. PICK h : h = F(g)
      OBVIOUS
    <3>2. h = [u \in SUBSET D |-> h[u]] /\ g \in [SUBSET D -> Row(n)]
      BY <2>5, <3>1 DEF IsFold
    <3>3. \A u \in SUBSET D : g[u] = h[u]
      BY <2>6, <3>1
    <3> HIDE DEF F
    <3>4. g = h
      BY <3>2, <3>3
    <3> QED  BY <3>1, <3>4
  <2> HIDE DEF F
  <2> QED  BY <2>7
<1> DEFINE g0 == CHOOSE g : g = F(g)
<1>3. g0 = F(g0)
  BY <1>2
<1>4. Spent(s, inputs) = g0[D]
  BY DEF Spent, FoldLeft, MapThenFoldSet
<1>5. PICK h : h = g0
  OBVIOUS
<1> HIDE DEF g0
<1>6. h = F(h)
  BY <1>3, <1>5
<1> HIDE DEF Takes
<1>7. PICK f : f = [i \in 0 .. m |-> h[1 .. i]]
  OBVIOUS
<1>8. f[0] = s
  <2>1. 1 .. 0 = {} /\ {} \in SUBSET D /\ 0 \in 0 .. m
    OBVIOUS
  <2>2. h[{}] = s
    BY <1>6
  <2> QED  BY <1>7, <2>1, <2>2
<1>9. ASSUME NEW i \in 1 .. m PROVE f[i] = Takes(f[i - 1], i)
  <2>1. 1 .. i \in SUBSET D /\ 1 .. i # {} /\ i \in 0 .. m /\ i - 1 \in 0 .. m
    <3>1. i \in 1 .. i
      OBVIOUS
    <3>2. 1 .. i \in SUBSET D
      OBVIOUS
    <3>3. i \in 0 .. m /\ i - 1 \in 0 .. m
      OBVIOUS
    <3> QED  BY <3>1, <3>2, <3>3
  <2>2. Max(1 .. i) = i /\ (1 .. i) \ {i} = 1 .. i - 1
    BY MaxFound
  <2>3. h[1 .. i] = Takes(h[1 .. i - 1], i)
    BY <1>6, <2>1, <2>2
  <2> QED  BY <1>7, <2>1, <2>3
<1>10. f[m] = h[D]
  BY <1>7
<1> QED  BY <1>4, <1>5, <1>8, <1>9, <1>10 DEF Takes, Spending

\* handle_craft: what is spent is what the recipe asks for.
LEMMA SpentActs ==
  ASSUME NEW n \in Nat, NEW s \in Row(n), NEW r \in Recipes,
         \A k \in DOMAIN r.inputs : CountIn(s, r.inputs[k].item)[n] >= r.inputs[k].count
  PROVE  /\ Spent(s, r.inputs) \in Row(n) /\ CostOf(r.inputs, Worth) \in Nat
         /\ WorthOf(Spent(s, r.inputs), Worth) = WorthOf(s, Worth) - CostOf(r.inputs, Worth)
<1>1. PICK inputs : inputs = r.inputs
  OBVIOUS
<1>0. PICK Parts : Parts = [item : Items, count : Nat]
  OBVIOUS
<1>2. /\ inputs \in Seq(Parts)
      /\ \A j, k \in DOMAIN inputs : inputs[j].item = inputs[k].item => j = k
  BY <1>0, <1>1, RecipesAssumption
<1>3. PICK m \in Nat : m = Len(inputs) /\ DOMAIN inputs = 1 .. m
  BY <1>2
<1>4. \A i \in 1 .. m : inputs[i].item \in Items /\ inputs[i].count \in Nat
  <2>1. \A i \in 1 .. m : inputs[i] \in Parts
    BY <1>2, <1>3
  <2> QED  BY <1>0, <2>1
<1>5. PICK f : /\ f[0] = s /\ Spent(s, inputs) = f[m]
               /\ \A i \in 1 .. m : f[i] = Removed(f[i - 1], inputs[i].item, inputs[i].count)
  <2>1. Ingredients(inputs, m)
    BY <1>3, <1>4 DEF Ingredients
  <2>2. PICK f : Spending(s, inputs, m, f)
    BY <2>1, SpentSteps
  <2> QED  BY <2>2 DEF Spending
<1>6. PICK v : v = [k \in 1 .. m |-> inputs[k].count * Worth[inputs[k].item]]
  OBVIOUS
<1>7. CostOf(inputs, Worth) = Sums(v)[m]
  BY <1>3, <1>6 DEF CostOf
<1>8. v \in [1 .. m -> Nat]
  <2>1. ASSUME NEW k \in 1 .. m PROVE inputs[k].count * Worth[inputs[k].item] \in Nat
    <3>1. Worth[inputs[k].item] \in Nat /\ inputs[k].count \in Nat
      BY <1>4, WorthAssumption
    <3> QED  BY <3>1, Product
  <2> QED  BY <1>6, <2>1
<1>9. /\ Sums(v)[0] = 0 /\ \A i \in 0 .. m : Sums(v)[i] \in Nat
      /\ \A i \in 1 .. m : Sums(v)[i] = Sums(v)[i - 1] + v[i]
  <2>1. v \in Numbers(m)
    BY <1>8 DEF Numbers
  <2> QED  BY <1>8, <2>1, SumsRecursion, SumsNatural
<1> DEFINE P == {i \in 0 .. m :
                  /\ f[i] \in Row(n)
                  /\ WorthOf(f[i], Worth) = WorthOf(s, Worth) - Sums(v)[i]
                  /\ \A j \in i + 1 .. m :
                       CountIn(f[i], inputs[j].item) = CountIn(s, inputs[j].item)}
<1>10. 0 \in P
  BY <1>5, <1>9, WorthOfRow
<1>11. ASSUME NEW i \in 1 .. m, i - 1 \in P PROVE i \in P
  <2>1. PICK t \in Row(n) : t = f[i - 1]
    BY <1>11
  <2>2. PICK item \in Items, k \in Nat : item = inputs[i].item /\ k = inputs[i].count
    BY <1>4
  <2>3. f[i] = Removed(t, item, k)
    BY <1>5, <2>1, <2>2
  <2>4. CountIn(t, item)[n] >= k
    <3>1. i \in (i - 1) + 1 .. m
      OBVIOUS
    <3>2. CountIn(t, item) = CountIn(s, item)
      BY <1>11, <2>1, <2>2, <3>1
    <3>3. CountIn(s, item)[n] >= k
      BY <1>1, <1>3, <2>2
    <3> QED  BY <3>2, <3>3
  <2>5. /\ f[i] \in Row(n) /\ WorthOf(f[i], Worth) = WorthOf(t, Worth) - k * Worth[item]
        /\ \A other \in Items \ {item} : CountIn(f[i], other) = CountIn(t, other)
    BY <2>3, <2>4, RemovedActs
  <2>6. /\ v[i] = k * Worth[item] /\ v[i] \in Nat
        /\ Sums(v)[i] = Sums(v)[i - 1] + v[i] /\ Sums(v)[i - 1] \in Nat
    <3>1. v[i] = k * Worth[item]
      BY <1>6, <2>2
    <3>2. i - 1 \in 0 .. m /\ v[i] \in Nat
      BY <1>8
    <3> QED  BY <1>9, <3>1, <3>2
  <2>7. WorthOf(f[i], Worth) = WorthOf(s, Worth) - Sums(v)[i]
    <3>1. WorthOf(t, Worth) = WorthOf(s, Worth) - Sums(v)[i - 1] /\ WorthOf(s, Worth) \in Nat
      BY <1>11, <2>1, WorthOfRow
    <3> QED  BY <2>5, <2>6, <3>1
  <2>8. ASSUME NEW j \in i + 1 .. m
        PROVE  CountIn(f[i], inputs[j].item) = CountIn(s, inputs[j].item)
    <3>1. j \in 1 .. m /\ j # i /\ j \in (i - 1) + 1 .. m
      OBVIOUS
    <3>2. inputs[j].item \in Items \ {item}
      BY <1>2, <1>3, <1>4, <2>2, <3>1
    <3>3. CountIn(t, inputs[j].item) = CountIn(s, inputs[j].item)
      BY <1>11, <2>1, <3>1
    <3> QED  BY <2>5, <3>2, <3>3
  <2> QED  BY <2>5, <2>7, <2>8
<1>12. \A i \in 0 .. m : i \in P
  <2> HIDE DEF P
  <2>1. \A i \in 1 .. m : i - 1 \in P => i \in P
    BY <1>11
  <2> QED  BY <1>10, <2>1, IntervalInduction
<1>13. m \in P
  BY <1>12
<1> QED  BY <1>1, <1>5, <1>7, <1>9, <1>13

\* handle_craft makes nothing of more worth than it takes.
LEMMA CraftedActs ==
  ASSUME NEW n \in Nat, NEW s \in Row(n), NEW r \in Recipes,
         \A k \in DOMAIN r.inputs : CountIn(s, r.inputs[k].item)[n] >= r.inputs[k].count
  PROVE  LET t == Added(Spent(s, r.inputs), Stack(r.output, r.count))
         IN  t \in Row(n) /\ WorthOf(t, Worth) <= WorthOf(s, Worth)
<1>1. PICK u \in Row(n) : u = Spent(s, r.inputs)
  BY SpentActs
<1>2. PICK cost \in Nat : cost = CostOf(r.inputs, Worth)
  BY SpentActs
<1>3. WorthOf(u, Worth) = WorthOf(s, Worth) - cost
  BY <1>1, <1>2, SpentActs
<1>4. PICK st : st = Stack(r.output, r.count)
  OBVIOUS
<1>5. /\ st.item = r.output /\ st.count = r.count /\ r.output \in Items /\ r.count \in Nat
      /\ Deal(st)
  BY <1>4, RecipesAssumption DEF Stack, Deal
<1>6. Value(st) <= cost
  <2>1. r.count * Worth[r.output] <= cost
    BY <1>2, WorthAssumption
  <2> QED  BY <1>2, <1>5, <2>1 DEF Value
<1>7. Added(u, st) \in Row(n) /\ WorthOf(Added(u, st), Worth) <= WorthOf(u, Worth) + Value(st)
  BY <1>5, AddedActs
<1>8. Value(st) \in Nat /\ WorthOf(s, Worth) \in Nat /\ WorthOf(Added(u, st), Worth) \in Nat
  BY <1>5, <1>7, DealValue, WorthOfRow
<1>9. WorthOf(Added(u, st), Worth) <= WorthOf(s, Worth)
  BY <1>3, <1>6, <1>7, <1>8
<1> QED  BY <1>1, <1>4, <1>7, <1>9

-----------------------------------------------------------------------------
(* One stack or one row changes.                                           *)

\* inventory_consume, where there is something to consume.
LEMMA ConsumedActs ==
  ASSUME NEW n \in Nat, NEW s \in Row(n), NEW i \in 1 .. n, s[i].item \in Items
  PROVE  /\ Consumed(s, i) \in Row(n) /\ Worth[s[i].item] \in Nat
         /\ WorthOf(Consumed(s, i), Worth) = WorthOf(s, Worth) - Worth[s[i].item]
<1>1. PICK st \in Stacks : st = s[i]
  BY DEF Row
<1>2. st.count # 0 /\ 1 \in 0 .. st.count
  BY <1>1, StackFields, ItemsAssumption
<1>3. PICK u \in Stacks : u = Less(st, 1)
  BY <1>2, LessActs
<1>4. PICK w \in Nat : w = Worth[st.item]
  BY <1>1, WorthAssumption
<1>5. Value(u) = Value(st) - w
  <2>1. Value(u) = Value(st) - 1 * w
    BY <1>2, <1>3, <1>4, LessActs
  <2> QED  BY <2>1
<1>6. Consumed(s, i) = [s EXCEPT ![i] = u]
  BY <1>1, <1>3 DEF Consumed
<1>7. [s EXCEPT ![i] = u] \in Row(n)
      /\ WorthOf([s EXCEPT ![i] = u], Worth) = WorthOf(s, Worth) - Value(s[i]) + Value(u)
  BY SlotChanged
<1>8. Value(st) \in Nat /\ WorthOf(s, Worth) \in Nat
  BY ValueTyped, WorthOfRow
<1>9. WorthOf(Consumed(s, i), Worth) = WorthOf(s, Worth) - w
  BY <1>1, <1>4, <1>5, <1>6, <1>7, <1>8
<1> QED  BY <1>1, <1>4, <1>6, <1>7, <1>9

\* inventory_damage_tool
LEMMA WornActs ==
  ASSUME NEW st \in Stacks
  PROVE  /\ Worn(st) \in Stacks /\ Value(Worn(st)) <= Value(st)
         /\ Worn(st).item \in {st.item, Air}
<1>1. /\ st \in [item : Items \cup {Air}, count : 0 .. StackLimit, dur : 0 .. Durability]
      /\ st.item = Air <=> st.count = 0
      /\ st.count <= StackMax(st.item)
  BY DEF Stacks
<1>2. Value(Empty) = 0 /\ Value(st) \in Nat
  BY EmptyMade, ValueTyped DEF Value
<1>3. CASE st.dur <= 1
  BY <1>2, <1>3, EmptyMade DEF Worn
<1>4. CASE ~(st.dur <= 1)
  <2>1. PICK u : u = [st EXCEPT !.dur = st.dur - 1]
    OBVIOUS
  <2>2. Worn(st) = u
    BY <1>4, <2>1 DEF Worn
  <2>3. st.dur - 1 \in 0 .. Durability
    <3>1. st.dur \in 0 .. Durability
      BY <1>1
    <3> QED  BY <1>4, <3>1, ItemsAssumption
  <2>4. /\ u \in [item : Items \cup {Air}, count : 0 .. StackLimit, dur : 0 .. Durability]
        /\ u.item = st.item /\ u.count = st.count
    BY <1>1, <2>1, <2>3
  <2>5. u \in Stacks
    BY <1>1, <2>4 DEF Stacks
  <2>6. Value(u) = Value(st)
    BY <2>4 DEF Value
  <2> QED  BY <1>2, <2>2, <2>4, <2>5, <2>6
<1> QED  BY <1>3, <1>4

\* inventory_damage_tool does not make the slots worth more.
LEMMA DamagedActs ==
  ASSUME NEW n \in Nat, NEW s \in Row(n), NEW i \in 1 .. n
  PROVE  /\ Damaged(s, i) \in Row(n)
         /\ WorthOf(Damaged(s, i), Worth) <= WorthOf(s, Worth)
<1>0. WorthOf(s, Worth) \in Nat
  BY WorthOfRow
<1>1. CASE s[i].item \notin Tools
  BY <1>0, <1>1 DEF Damaged
<1>2. CASE s[i].item \in Tools
  <2>1. PICK st \in Stacks : st = s[i]
    BY DEF Row
  <2>2. PICK u \in Stacks : u = Worn(st) /\ Value(u) <= Value(st)
    BY WornActs
  <2>3. Damaged(s, i) = [s EXCEPT ![i] = u]
    BY <1>2, <2>1, <2>2 DEF Damaged
  <2>4. [s EXCEPT ![i] = u] \in Row(n)
        /\ WorthOf([s EXCEPT ![i] = u], Worth) = WorthOf(s, Worth) - Value(s[i]) + Value(u)
    BY SlotChanged
  <2>5. Value(st) \in Nat /\ Value(u) \in Nat
    BY ValueTyped
  <2>6. WorthOf(Damaged(s, i), Worth) <= WorthOf(s, Worth)
    BY <1>0, <2>1, <2>2, <2>3, <2>4, <2>5
  <2> QED  BY <2>3, <2>4, <2>6
<1> QED  BY <1>1, <1>2

\* The starter kit is worth nothing.
LEMMA KitActs == KitInventory \in Row(SlotCount) /\ WorthOf(KitInventory, Worth) = 0
<1>1. PICK n \in Nat : n = SlotCount
  BY ItemsAssumption
<1>2. Bare \in Row(n)
  BY <1>1, EmptyMade DEF Bare, Slots, Row
<1>3. WorthOf(Bare, Worth) = 0
  <2>1. \A i \in 1 .. n : Bare[i].count = 0
    BY <1>1, EmptyMade DEF Bare, Slots
  <2> QED  BY <1>2, <2>1, NothingIsWorthNothing
<1>4. PICK m \in Nat : m = Len(Kit) /\ DOMAIN Kit = 1 .. m
  BY ItemsAssumption
<1>5. PICK list : list = [k \in DOMAIN Kit |-> Stack(Kit[k], 1)]
  OBVIOUS
<1>6. \A i \in 1 .. m : Kit[i] \in Items /\ Worth[Kit[i]] = 0
  <2>1. \A i \in 1 .. m : Kit[i] \in Items
    BY <1>4, ItemsAssumption
  <2> QED  BY <1>4, <2>1, WorthAssumption
<1>7. DOMAIN list = 1 .. m /\ \A i \in 1 .. m : Deal(list[i]) /\ Value(list[i]) = 0
  <2>1. ASSUME NEW i \in 1 .. m PROVE Deal(list[i]) /\ Value(list[i]) = 0
    <3>1. list[i].item = Kit[i] /\ list[i].count = 1
      BY <1>4, <1>5 DEF Stack
    <3> QED  BY <1>6, <3>1 DEF Deal, Value
  <2> QED  BY <1>4, <1>5, <2>1
<1>8. PICK v : v = Values(m, list)
  OBVIOUS
<1>9. PICK t : t = Poured(Bare, list)
  OBVIOUS
<1>10. /\ t \in Row(n) /\ v \in [1 .. m -> Nat]
       /\ WorthOf(t, Worth) <= WorthOf(Bare, Worth) + Sums(v)[m]
  BY <1>2, <1>7, <1>8, <1>9, PouredActs
<1>11. Sums(v)[m] = 0
  <2>1. v \in Numbers(m) /\ \A i \in 0 + 1 .. m : v[i] = 0
    BY <1>7, <1>8, <1>10 DEF Numbers, Values
  <2>2. Sums(v)[m] = Sums(v)[0] /\ Sums(v)[0] = 0
    BY <2>1, SumsFrom, SumsRecursion
  <2> QED  BY <2>2
<1>12. WorthOf(t, Worth) = 0
  <2>1. WorthOf(t, Worth) \in Nat
    BY <1>10, WorthOfRow
  <2> QED  BY <1>3, <1>10, <1>11, <2>1
<1>13. KitInventory = t
  BY <1>5, <1>9 DEF KitInventory
<1> QED  BY <1>1, <1>10, <1>12, <1>13

\* A longer row that begins with a shorter one.
LEMMA WorthOfLonger ==
  ASSUME NEW m \in Nat, NEW n \in Nat, m <= n, NEW s \in Row(m), NEW t \in Row(n),
         \A i \in 1 .. m : s[i] = t[i]
  PROVE  /\ WorthOf(s, Worth) <= WorthOf(t, Worth)
         /\ (\A i \in m + 1 .. n : t[i].count = 0) => WorthOf(s, Worth) = WorthOf(t, Worth)
<1>1. PICK v : v = Values(m, s)
  OBVIOUS
<1>2. PICK u : u = Values(n, t)
  OBVIOUS
<1>3. /\ v \in Numbers(m) /\ u \in Numbers(n) /\ u \in [1 .. n -> Nat]
      /\ WorthOf(s, Worth) = Sums(v)[m] /\ WorthOf(t, Worth) = Sums(u)[n]
  BY <1>1, <1>2, WorthOfRow
<1>4. \A i \in 1 .. m : v[i] = u[i]
  BY <1>1, <1>2 DEF Values
<1>5. Sums(v)[m] = Sums(u)[m]
  <2>1. m \in 0 .. m
    OBVIOUS
  <2> QED  BY <1>3, <1>4, <2>1, SumsAgree
<1>6. Sums(u)[m] <= Sums(u)[n]
  <2>1. m \in 0 .. n /\ n \in m .. n
    OBVIOUS
  <2>2. \A i \in m + 1 .. n : u[i] >= 0
    BY <1>3
  <2> QED  BY <1>3, <2>1, <2>2, SumsFrom
<1>7. ASSUME \A i \in m + 1 .. n : t[i].count = 0 PROVE Sums(u)[n] = Sums(u)[m]
  <2>1. m \in 0 .. n
    OBVIOUS
  <2>2. \A i \in m + 1 .. n : u[i] = 0
    BY <1>2, <1>7 DEF Values, Value
  <2> QED  BY <1>3, <2>1, <2>2, SumsFrom
<1> QED  BY <1>3, <1>5, <1>6, <1>7

\* A dungeon chest holds what the loot tables give.
LEMMA LootActs ==
  ASSUME NEW c \in DOMAIN Loot
  PROVE  /\ LootChest(c).slots \in Row(ChestSlots)
         /\ WorthOf(Loot[c], Worth) \in Nat
         /\ WorthOf(LootChest(c).slots, Worth) = WorthOf(Loot[c], Worth)
<1>1. PICK s : s = Loot[c]
  OBVIOUS
<1>2. PICK n \in Nat : n = ChestSlots
  BY ItemsAssumption
<1>3. PICK m \in Nat : m = Len(s) /\ DOMAIN s = 1 .. m /\ m <= n /\ s \in Row(m)
  BY <1>1, <1>2, LootAssumption DEF Row
<1>4. PICK t : t = [i \in 1 .. n |-> IF i \in DOMAIN s THEN s[i] ELSE Empty]
  OBVIOUS
<1>5. t \in Row(n)
  BY <1>3, <1>4, EmptyMade DEF Row
<1>6. /\ \A i \in 1 .. m : s[i] = t[i]
      /\ \A i \in m + 1 .. n : t[i].count = 0
  BY <1>3, <1>4, EmptyMade
<1>7. WorthOf(s, Worth) = WorthOf(t, Worth)
  BY <1>3, <1>5, <1>6, WorthOfLonger
<1>8. LootChest(c).slots = t
  BY <1>1, <1>2, <1>4 DEF LootChest, Entity
<1>9. WorthOf(s, Worth) \in Nat
  BY <1>3, WorthOfRow
<1> QED  BY <1>1, <1>2, <1>5, <1>7, <1>8, <1>9

\* A bounded number is within its bounds.
LEMMA BoundedActs ==
  /\ \A k \in Int, m \in Nat : Bounded(k, m) \in 0 .. m
  /\ \A k, m \in Nat : Bounded(0 - k, m) = 0
  /\ \A k \in Nat : Bounded(k, 0) = 0
BY DEF Bounded

\* Nothing is put anywhere if there is nothing.
LEMMA NothingIsPut ==
  ASSUME NEW n \in Nat, NEW s \in Row(n), NEW item \in Items \cup {Air}
  PROVE  Leftover(s, item, 0) = 0
<1>1. PICK top : top = TopUp(s, item)
  OBVIOUS
<1>2. PICK fill : fill = Filling(s, item)
  OBVIOUS
<1>3. DOMAIN s = 1 .. n /\ Len(s) = n
  <2>1. s \in Seq(Stacks)
    BY DEF Row
  <2> QED  BY <2>1 DEF Row
<1>4. top \in [1 .. n -> Nat] /\ fill \in [1 .. n -> Nat]
  <2>1. ASSUME NEW i \in 1 .. n
        PROVE  /\ StackMax(item) \in Nat
               /\ s[i].item = item => StackMax(item) - s[i].count \in Nat
    <3>1. s[i] \in Stacks
      BY DEF Row
    <3>2. s[i].count \in Nat /\ s[i].count <= StackMax(s[i].item)
      BY <3>1 DEF Stacks
    <3> QED  BY <3>2, StackMaxTyped
  <2> QED  BY <1>1, <1>2, <1>3, <2>1 DEF TopUp, Filling
<1>5. \A k \in 0 .. n : Sums(top)[k] \in Nat /\ Sums(fill)[k] \in Nat
  BY <1>4, SumsNatural
<1>6. PICK put : put = Puts(s, item, 0)
  OBVIOUS
<1>7. put = [i \in 1 .. n |-> Bounded(0 - Sums(top)[i - 1], top[i])
                 + Bounded((0 - Bounded(Sums(top)[n], 0)) - Sums(fill)[i - 1], fill[i])]
  BY <1>1, <1>2, <1>3, <1>6 DEF Puts
<1>8. \A i \in 1 .. n : put[i] = 0
  <2> SUFFICES ASSUME NEW i \in 1 .. n PROVE put[i] = 0
    OBVIOUS
  <2>1. PICK a \in Nat, b \in Nat, x \in Nat, y \in Nat, z \in Nat :
          /\ a = Sums(top)[i - 1] /\ b = Sums(fill)[i - 1] /\ x = top[i] /\ y = fill[i]
          /\ z = Sums(top)[n]
    <3>1. i - 1 \in 0 .. n /\ n \in 0 .. n
      OBVIOUS
    <3> QED  BY <1>4, <1>5, <3>1
  <2>2. put[i] = Bounded(0 - a, x) + Bounded((0 - Bounded(z, 0)) - b, y)
    BY <1>7, <2>1
  <2>3. Bounded(z, 0) = 0 /\ Bounded(0 - a, x) = 0 /\ Bounded(0 - b, y) = 0
    BY BoundedActs
  <2>4. (0 - Bounded(z, 0)) - b = 0 - b
    BY <2>3
  <2> QED  BY <2>2, <2>3, <2>4
<1>9. Sums(put)[n] = 0
  <2>1. put \in Numbers(n) /\ \A i \in 0 + 1 .. n : put[i] = 0
    <3>1. put \in [1 .. n -> {0}]
      BY <1>7, <1>8
    <3> QED  BY <1>8, <3>1 DEF Numbers
  <2>2. Sums(put)[n] = Sums(put)[0] /\ Sums(put)[0] = 0
    BY <2>1, SumsFrom, SumsRecursion
  <2> QED  BY <2>2
<1> QED  BY <1>3, <1>6, <1>9 DEF Leftover

-----------------------------------------------------------------------------
(* Moving items.                                                           *)

\* What a transfer moves, it moves of something that is there.
LEMMA MovedActs ==
  ASSUME NEW st \in Stacks, NEW n \in Nat, NEW s \in Row(n), NEW k \in Nat,
         NEW want, want = Bounded(k, st.count),
         NEW moved, moved = want - Leftover(s, st.item, want), moved > 0
  PROVE  /\ st.item \in Items /\ st.count # 0 /\ st.count \in Nat
         /\ want \in 0 .. st.count /\ want # 0
         /\ moved \in 0 .. st.count /\ moved \in Nat /\ Worth[st.item] \in Nat
         /\ Leftover(s, st.item, want) \in 0 .. want
<1>1. st.count \in Nat /\ st.item \in Items \cup {Air}
  BY DEF Stacks
<1>2. want \in 0 .. st.count /\ want \in Nat
  <2>1. PICK c \in Nat : c = st.count
    BY <1>1
  <2>2. want = Bounded(k, c)
    BY <2>1
  <2> QED  BY <2>1, <2>2 DEF Bounded
<1>3. want # 0
  <2>1. SUFFICES ASSUME want = 0 PROVE FALSE
    OBVIOUS
  <2>2. Leftover(s, st.item, 0) = 0
    BY <1>1, NothingIsPut
  <2> QED  BY <2>1, <2>2
<1>4. st.count # 0 /\ st.item \in Items
  <2>1. st.count # 0
    BY <1>1, <1>2, <1>3
  <2> QED  BY <2>1, StackFields
<1>5. Leftover(s, st.item, want) \in 0 .. want
  <2>1. 0 \in 0 .. Durability
    BY ItemsAssumption
  <2> QED  BY <1>2, <1>4, <2>1, FilledActs
<1>6. Worth[st.item] \in Nat
  BY <1>4, WorthAssumption
<1> QED  BY <1>1, <1>2, <1>3, <1>4, <1>5, <1>6

\* n items of a stack, and the slots without n items of the i-th.
Portion(stack, n) == [stack EXCEPT !.count = n]
Drawn(stacks, i, n) == [stacks EXCEPT ![i] = Less(stacks[i], n)]

\* container_transfer_to_inventory moves what it moves, and nothing else.
LEMMA TakenActs ==
  ASSUME NEW n \in Nat, NEW s \in Row(n), NEW m \in Nat, NEW t \in Row(m), NEW i \in 1 .. m,
         NEW k \in Nat, NEW want, want = Bounded(k, t[i].count),
         NEW moved, moved = want - Leftover(s, t[i].item, want), moved > 0
  PROVE  /\ Added(s, Portion(t[i], want)) \in Row(n)
         /\ Drawn(t, i, moved) \in Row(m)
         /\ \E w \in Nat :
              /\ WorthOf(Added(s, Portion(t[i], want)), Worth)
                   = WorthOf(s, Worth) + w
              /\ WorthOf(Drawn(t, i, moved), Worth)
                   = WorthOf(t, Worth) - w
<1>1. PICK st \in Stacks : st = t[i]
  BY DEF Row
<1>2. /\ st.item \in Items /\ st.count # 0 /\ st.count \in Nat
      /\ want \in 0 .. st.count /\ want # 0
      /\ moved \in 0 .. st.count /\ moved \in Nat /\ Worth[st.item] \in Nat
  BY <1>1, MovedActs
<1>3. PICK a : a = [st EXCEPT !.count = want]
  OBVIOUS
<1>4. a.item = st.item /\ a.count = want /\ Deal(a)
  <2>1. DOMAIN st = {"item", "count", "dur"}
    BY StackFields
  <2> QED  BY <1>2, <1>3, <2>1 DEF Deal
<1>5. /\ Added(s, a) \in Row(n)
      /\ WorthOf(Added(s, a), Worth) = WorthOf(s, Worth) + moved * Worth[st.item]
  BY <1>1, <1>2, <1>4, AddedActs
<1>6. PICK u \in Stacks : u = Less(st, moved)
                          /\ Value(u) = Value(st) - moved * Worth[st.item]
  BY <1>2, LessActs
<1>7. /\ [t EXCEPT ![i] = u] \in Row(m)
      /\ WorthOf([t EXCEPT ![i] = u], Worth) = WorthOf(t, Worth) - Value(t[i]) + Value(u)
  BY SlotChanged
<1>8. moved * Worth[st.item] \in Nat
  BY <1>2, Product
<1>9. Value(st) \in Nat /\ WorthOf(t, Worth) \in Nat
  BY ValueTyped, WorthOfRow
<1>10. PICK w \in Nat : w = moved * Worth[st.item]
  BY <1>8
<1>11. WorthOf([t EXCEPT ![i] = u], Worth) = WorthOf(t, Worth) - w
  BY <1>1, <1>6, <1>7, <1>9, <1>10
<1>12. WorthOf(Added(s, a), Worth) = WorthOf(s, Worth) + w
  BY <1>5, <1>10
<1>13. a = Portion(t[i], want) /\ u = Less(t[i], moved)
  BY <1>1, <1>3, <1>6 DEF Portion
<1>14. PICK t1 : t1 = [t EXCEPT ![i] = u]
  OBVIOUS
<1>15. t1 = Drawn(t, i, moved)
  BY <1>13, <1>14, Zenon DEF Drawn
<1>16. t1 \in Row(m) /\ WorthOf(t1, Worth) = WorthOf(t, Worth) - w
  BY <1>7, <1>11, <1>14
<1>17. PICK s1 : s1 = Added(s, a)
  OBVIOUS
<1>18. s1 = Added(s, Portion(t[i], want))
  BY <1>13, <1>17
<1>19. s1 \in Row(n) /\ WorthOf(s1, Worth) = WorthOf(s, Worth) + w
  BY <1>5, <1>12, <1>17
<1> QED  BY <1>15, <1>16, <1>18, <1>19, Zenon

\* container_transfer_from_inventory, for stacks of any number.
LEMMA GivenActs ==
  ASSUME NEW n \in Nat, NEW s \in Row(n), NEW i \in 1 .. n, NEW m \in Nat, NEW t \in Row(m),
         NEW k \in Nat, NEW want, want = Bounded(k, s[i].count),
         NEW moved, moved = want - Leftover(t, s[i].item, want), moved > 0
  PROVE  /\ Drawn(s, i, moved) \in Row(n)
         /\ Filled(t, s[i].item, want, 0) \in Row(m)
         /\ \E w \in Nat :
              /\ WorthOf(Drawn(s, i, moved), Worth)
                   = WorthOf(s, Worth) - w
              /\ WorthOf(Filled(t, s[i].item, want, 0), Worth)
                   = WorthOf(t, Worth) + w
<1>1. PICK st \in Stacks : st = s[i]
  BY DEF Row
<1>2. /\ st.item \in Items /\ st.count # 0 /\ st.count \in Nat
      /\ want \in 0 .. st.count /\ want # 0
      /\ moved \in 0 .. st.count /\ moved \in Nat /\ Worth[st.item] \in Nat
  BY <1>1, MovedActs
<1>3. PICK w \in Nat : w = moved * Worth[st.item]
  BY <1>2, Product
<1>4. PICK t1 : t1 = Filled(t, st.item, want, 0)
  OBVIOUS
<1>5. t1 \in Row(m) /\ WorthOf(t1, Worth) = WorthOf(t, Worth) + w
  <2>1. PICK item \in Items, j \in Nat : item = st.item /\ j = want
    BY <1>2
  <2>2. PICK d \in 0 .. Durability : d = 0
    BY ItemsAssumption
  <2>3. /\ Filled(t, item, j, d) \in Row(m)
        /\ WorthOf(Filled(t, item, j, d), Worth)
             = WorthOf(t, Worth) + (j - Leftover(t, item, j)) * Worth[item]
    BY FilledActs
  <2>4. t1 = Filled(t, item, j, d)
    BY <1>4, <2>1, <2>2, Zenon
  <2>5. j - Leftover(t, item, j) = moved
    BY <1>1, <2>1
  <2> QED  BY <1>3, <2>1, <2>3, <2>4, <2>5
<1>6. PICK u \in Stacks : u = Less(st, moved)
                          /\ Value(u) = Value(st) - moved * Worth[st.item]
  BY <1>2, LessActs
<1>7. PICK s1 : s1 = [s EXCEPT ![i] = u]
  OBVIOUS
<1>8. s1 \in Row(n) /\ WorthOf(s1, Worth) = WorthOf(s, Worth) - Value(s[i]) + Value(u)
  BY <1>7, SlotChanged
<1>9. Value(st) \in Nat /\ WorthOf(s, Worth) \in Nat
  BY ValueTyped, WorthOfRow
<1>10. WorthOf(s1, Worth) = WorthOf(s, Worth) - w
  BY <1>1, <1>3, <1>6, <1>8, <1>9
<1>11. s1 = Drawn(s, i, moved)
  BY <1>1, <1>6, <1>7, Zenon DEF Drawn
<1>12. t1 = Filled(t, s[i].item, want, 0)
  BY <1>1, <1>4
<1> QED  BY <1>5, <1>8, <1>10, <1>11, <1>12, Zenon

-----------------------------------------------------------------------------
(* Containers.                                                             *)

Fields == {"pos", "kind", "viewers", "burn", "cook", "slots"}

\* What sbe_find returns: a chest or a furnace with its slots.
Holds(e) == /\ DOMAIN e = Fields /\ e.kind \in {Chest, Furnace}
            /\ e.slots \in Row(Capacity(e.kind))
            /\ e.burn \in Nat /\ e.cook \in 0 .. CookTime - 1

\* A container has three slots at least, and no more than a chest.
LEMMA CapacityTyped ==
  ASSUME NEW kind \in {Chest, Furnace}
  PROVE  Capacity(kind) \in Nat /\ Capacity(kind) >= 3 /\ Capacity(kind) <= ChestSlots
BY ItemsAssumption DEF Capacity

\* A furnace has three slots.
LEMMA FurnaceCapacity == Chest # Furnace /\ Capacity(Furnace) = 3
BY ItemsAssumption DEF Capacity

\* A furnace's slots are a row of three.
LEMMA ThreeSlots ==
  ASSUME NEW e, Holds(e), e.kind = Furnace, NEW n \in Nat, n = 3
  PROVE  e.slots \in Row(n)
BY FurnaceCapacity DEF Holds

\* The copy of a furnace that container_transfer_from_inventory fills.
LEMMA AsChestActs ==
  ASSUME NEW e, Holds(e)
  PROVE  /\ AsChest(e) \in Row(ChestSlots)
         /\ WorthOf(AsChest(e), Worth) = WorthOf(e.slots, Worth)
<1>1. PICK n \in Nat : n = ChestSlots /\ n >= 3
  BY ItemsAssumption
<1>2. CASE e.kind = Chest
  <2>1. e.slots \in Row(n) /\ AsChest(e) = e.slots
    BY <1>1, <1>2 DEF Holds, Capacity, AsChest
  <2> QED  BY <1>1, <2>1
<1>3. CASE e.kind # Chest
  <2>1. PICK s : s = e.slots
    OBVIOUS
  <2>2. s \in Row(3)
    BY <1>3, <2>1 DEF Holds, Capacity
  <2>3. PICK t : t = AsChest(e)
    OBVIOUS
  <2>4. t = [i \in 1 .. n |-> IF i <= 3 THEN s[i] ELSE Empty]
    BY <1>1, <1>3, <2>1, <2>3 DEF AsChest
  <2>5. t \in Row(n)
    <3>1. \A i \in 1 .. n : i <= 3 => s[i] \in Stacks
      BY <2>2 DEF Row
    <3> QED  BY <2>4, <3>1, EmptyMade DEF Row
  <2>6. /\ \A i \in 1 .. 3 : s[i] = t[i]
        /\ \A i \in 3 + 1 .. n : t[i].count = 0
    BY <1>1, <2>4, EmptyMade
  <2>7. WorthOf(s, Worth) = WorthOf(t, Worth)
    BY <1>1, <2>2, <2>5, <2>6, WorthOfLonger
  <2> QED  BY <1>1, <2>1, <2>3, <2>5, <2>7
<1> QED  BY <1>2, <1>3

\* The slots that are copied back.
LEMMA WithSlotsActs ==
  ASSUME NEW e, Holds(e), NEW t \in Row(ChestSlots)
  PROVE  /\ Holds(WithSlots(e, t)) /\ WithSlots(e, t).kind = e.kind
         /\ WorthOf(WithSlots(e, t).slots, Worth) <= WorthOf(t, Worth)
         /\ (e.kind = Chest \/ \A i \in 4 .. ChestSlots : t[i].count = 0)
              => WorthOf(WithSlots(e, t).slots, Worth) = WorthOf(t, Worth)
<1>1. PICK n \in Nat : n = ChestSlots /\ n >= 3
  BY ItemsAssumption
<1>2. PICK s : s = IF e.kind = Chest THEN t ELSE SubSeq(t, 1, 3)
  OBVIOUS
<1>3. PICK f : f = WithSlots(e, t)
  OBVIOUS
<1>4. f = [e EXCEPT !.slots = s]
  BY <1>2, <1>3 DEF WithSlots
<1>5. /\ DOMAIN f = Fields /\ f.kind = e.kind /\ f.burn = e.burn /\ f.cook = e.cook
      /\ f.slots = s
  BY <1>4 DEF Holds, Fields
<1>6. WorthOf(t, Worth) \in Nat
  BY <1>1, WorthOfRow
<1>7. CASE e.kind = Chest
  <2>1. s = t /\ s \in Row(Capacity(e.kind))
    BY <1>2, <1>7 DEF Capacity
  <2> QED  BY <1>3, <1>5, <1>6, <1>7, <2>1 DEF Holds
<1>8. CASE e.kind # Chest
  <2>1. s = [i \in 1 .. 3 |-> t[i]]
    <3>1. t \in Seq(Stacks)
      BY <1>1 DEF Row
    <3>2. s = SubSeq(t, 1, 3)
      BY <1>2, <1>8
    <3> QED  BY <3>1, <3>2
  <2>2. s \in Row(3)
    BY <1>1, <2>1 DEF Row
  <2>3. \A i \in 1 .. 3 : s[i] = t[i]
    BY <2>1
  <2>4. /\ WorthOf(s, Worth) <= WorthOf(t, Worth)
        /\ (\A i \in 3 + 1 .. n : t[i].count = 0) => WorthOf(s, Worth) = WorthOf(t, Worth)
    BY <1>1, <2>2, <2>3, WorthOfLonger
  <2>5. s \in Row(Capacity(e.kind))
    BY <1>8, <2>2 DEF Capacity
  <2>6. Holds(f)
    BY <1>5, <2>5 DEF Holds
  <2>7. (\A i \in 4 .. n : t[i].count = 0) => WorthOf(s, Worth) = WorthOf(t, Worth)
    BY <2>4
  <2> QED  BY <1>1, <1>3, <1>5, <1>8, <2>4, <2>6, <2>7
<1> QED  BY <1>7, <1>8

\* What fits into a furnace's slots is not put into the slots it does not have.
LEMMA NothingBeyond ==
  ASSUME NEW e, Holds(e), e.kind = Furnace, NEW item \in Items,
         NEW most \in Nat, Leftover(e.slots, item, most) = 0, NEW want \in Nat,
         most = want - Leftover(AsChest(e), item, want), NEW dur
  PROVE  \A i \in 4 .. ChestSlots : Filled(AsChest(e), item, want, dur)[i].count = 0
<1>1. PICK n \in Nat : n = ChestSlots /\ n >= 3
  BY ItemsAssumption
<1>0. PICK q \in Nat : q = 3
  OBVIOUS
<1>2. PICK s \in Row(q) : s = e.slots
  BY <1>0, ThreeSlots
<1>3. PICK t \in Row(n) : t = AsChest(e)
  BY <1>1, AsChestActs
<1>4. t = [i \in 1 .. n |-> IF i <= 3 THEN s[i] ELSE Empty]
  BY <1>1, <1>2, <1>3, FurnaceCapacity DEF AsChest
<1>5. DOMAIN s = 1 .. 3 /\ Len(s) = 3 /\ DOMAIN t = 1 .. n /\ Len(t) = n
  <2>0. s \in [1 .. q -> Stacks] /\ t \in [1 .. n -> Stacks]
    BY DEF Row
  <2>1. s \in Seq(Stacks) /\ Len(s) = q
    BY <2>0
  <2>2. t \in Seq(Stacks) /\ Len(t) = n
    BY <2>0
  <2> QED  BY <1>0, <2>0, <2>1, <2>2
<1>6. PICK a : a = TopUp(s, item)
  OBVIOUS
<1>7. PICK b : b = Filling(s, item)
  OBVIOUS
<1>8. PICK c : c = TopUp(t, item)
  OBVIOUS
<1>9. PICK d : d = Filling(t, item)
  OBVIOUS
<1>10. /\ a \in [1 .. 3 -> Nat] /\ b \in [1 .. 3 -> Nat]
       /\ c \in [1 .. n -> Nat] /\ d \in [1 .. n -> Nat]
  <2>1. /\ TopUp(s, item) \in [1 .. q -> Nat] /\ Filling(s, item) \in [1 .. q -> Nat]
        /\ TopUp(t, item) \in [1 .. n -> Nat] /\ Filling(t, item) \in [1 .. n -> Nat]
    BY RoomTyped
  <2> QED  BY <1>0, <1>6, <1>7, <1>8, <1>9, <2>1
<1>11. /\ a \in Numbers(3) /\ b \in Numbers(3) /\ c \in Numbers(n) /\ d \in Numbers(n)
  BY <1>10 DEF Numbers
<1>12. \A i \in 1 .. 3 : a[i] = c[i] /\ b[i] = d[i]
  <2>1. ASSUME NEW i \in 1 .. 3 PROVE a[i] = c[i] /\ b[i] = d[i]
    <3>1. t[i] = s[i] /\ i \in DOMAIN s /\ i \in DOMAIN t
      BY <1>1, <1>4, <1>5
    <3> QED  BY <1>6, <1>7, <1>8, <1>9, <3>1 DEF TopUp, Filling
  <2> QED  BY <2>1
<1>13. \A i \in 4 .. n : c[i] = 0
  <2>1. ASSUME NEW i \in 4 .. n PROVE c[i] = 0
    <3>1. t[i].item = Air /\ item # Air /\ i \in DOMAIN t
      BY <1>4, <1>5, EmptyMade, ItemsAssumption
    <3> QED  BY <1>8, <3>1 DEF TopUp
  <2> QED  BY <2>1
<1>14. PICK x \in Nat, y \in Nat : x = Sums(a)[3] /\ y = Sums(b)[3]
  <2>1. 3 \in 0 .. 3
    OBVIOUS
  <2> QED  BY <1>10, <2>1, SumsNatural
<1>15. Sums(c)[3] = x /\ Sums(d)[3] = y
  <2>1. 3 \in 0 .. 3
    OBVIOUS
  <2>2. Sums(a)[3] = Sums(c)[3]
    <3>1. q \in 0 .. q /\ q <= n /\ a \in Numbers(q) /\ \A i \in 1 .. q : a[i] = c[i]
      BY <1>0, <1>1, <1>11, <1>12
    <3>2. Sums(a)[q] = Sums(c)[q]
      BY <1>11, <3>1, SumsAgree
    <3> QED  BY <1>0, <3>2
  <2>3. Sums(b)[3] = Sums(d)[3]
    <3>1. q \in 0 .. q /\ q <= n /\ b \in Numbers(q) /\ \A i \in 1 .. q : b[i] = d[i]
      BY <1>0, <1>1, <1>11, <1>12
    <3>2. Sums(b)[q] = Sums(d)[q]
      BY <1>11, <3>1, SumsAgree
    <3> QED  BY <1>0, <3>2
  <2> QED  BY <1>14, <2>2, <2>3
<1>16. Sums(c)[n] = x
  <2>1. 3 \in 0 .. n
    BY <1>1
  <2>2. \A i \in 3 + 1 .. n : c[i] = 0
    BY <1>13
  <2>3. Sums(c)[n] = Sums(c)[3]
    BY <1>11, <2>1, <2>2, SumsFrom
  <2> QED  BY <1>15, <2>3
<1>17. most = Bounded(x, most) + Bounded(y, most - Bounded(x, most))
  <2>1. PICK put : put = Puts(s, item, most)
    OBVIOUS
  <2>2. q \in 0 .. q /\ s \in Row(q)
    BY <1>0
  <2>3. Sums(put)[3] = Bounded(x, most) + Bounded(y, most - Bounded(x, most))
    <3>1. Sums(put)[q] = Bounded(Sums(a)[q], most)
                         + Bounded(Sums(b)[q], most - Bounded(Sums(a)[q], most))
      <4>1. Sums(Puts(s, item, most))[q] =
              Bounded(Sums(TopUp(s, item))[q], most)
              + Bounded(Sums(Filling(s, item))[q],
                        most - Bounded(Sums(TopUp(s, item))[q], most))
        BY <2>2, PutsActs
      <4> QED  BY <1>6, <1>7, <2>1, <4>1
    <3> QED  BY <1>0, <1>14, <3>1
  <2>4. most - Sums(put)[3] = 0
    BY <1>2, <1>5, <2>1 DEF Leftover
  <2>5. Bounded(x, most) + Bounded(y, most - Bounded(x, most)) \in Int
    BY DEF Bounded
  <2> QED  BY <2>3, <2>4, <2>5
<1>18. PICK put : put = Puts(t, item, want)
  OBVIOUS
<1>19. want \in Nat /\ most \in Nat
  OBVIOUS
<1>20. /\ put \in [1 .. n -> Nat]
       /\ \A k \in 0 .. n : Sums(put)[k] = Bounded(Sums(c)[k], want)
                                           + Bounded(Sums(d)[k], want - Bounded(x, want))
  <2>1. /\ put \in [1 .. n -> Nat]
        /\ \A k \in 0 .. n : Sums(put)[k] =
             Bounded(Sums(c)[k], want) + Bounded(Sums(d)[k], want - Bounded(Sums(c)[n], want))
    <3>1. /\ Puts(t, item, want) \in [1 .. n -> Nat]
          /\ \A k \in 0 .. n :
               Sums(Puts(t, item, want))[k] =
                 Bounded(Sums(TopUp(t, item))[k], want)
                 + Bounded(Sums(Filling(t, item))[k],
                           want - Bounded(Sums(TopUp(t, item))[n], want))
      BY <1>19, PutsActs
    <3> QED  BY <1>8, <1>9, <1>18, <3>1
  <2> QED  BY <1>16, <2>1
<1>21. Sums(put)[3] \in Int /\ Sums(put)[3] >= most
  <2>1. Sums(put)[3] = Bounded(x, want) + Bounded(y, want - Bounded(x, want))
    <3>1. 3 \in 0 .. n
      BY <1>1
    <3>2. Sums(put)[3] = Bounded(Sums(c)[3], want)
                         + Bounded(Sums(d)[3], want - Bounded(x, want))
      BY <1>20, <3>1
    <3> QED  BY <1>15, <3>2
  <2>2. PICK z \in Nat : z = Sums(d)[n]
    <3>1. n \in 0 .. n
      OBVIOUS
    <3> QED  BY <1>10, <3>1, SumsNatural
  <2>3. most = Bounded(x, want) + Bounded(z, want - Bounded(x, want))
    <3>1. n \in 0 .. n
      OBVIOUS
    <3>2. Sums(put)[n] = Bounded(x, want) + Bounded(z, want - Bounded(x, want))
      BY <1>16, <1>20, <2>2, <3>1
    <3>3. most = want - (want - Sums(put)[n])
      BY <1>3, <1>5, <1>18 DEF Leftover
    <3>4. Bounded(x, want) + Bounded(z, want - Bounded(x, want)) \in Int
      BY DEF Bounded
    <3> QED  BY <3>2, <3>3, <3>4
  <2>4. most <= want /\ most <= x + y
    BY <1>17, <1>19, <2>3 DEF Bounded
  <2>5. Bounded(x, want) + Bounded(y, want - Bounded(x, want)) >= most
    BY <1>19, <2>4 DEF Bounded
  <2>6. Bounded(x, want) + Bounded(y, want - Bounded(x, want)) \in Int
    BY DEF Bounded
  <2> QED  BY <2>1, <2>5, <2>6
<1>22. Sums(put)[n] = most
  <2>1. n \in 0 .. n /\ put \in Numbers(n)
    BY <1>20 DEF Numbers
  <2>2. Sums(put)[n] \in Int
    BY <2>1, SumsRecursion
  <2>3. most = want - (want - Sums(put)[n])
    BY <1>3, <1>5, <1>18 DEF Leftover
  <2> QED  BY <2>2, <2>3
<1>23. ASSUME NEW i \in 4 .. n PROVE put[i] = 0
  <2>0. put \in Numbers(n) /\ \A j \in 1 .. n : put[j] >= 0
    BY <1>20 DEF Numbers
  <2>1. /\ i \in 0 .. n /\ n \in i .. n /\ 3 \in 0 .. n /\ i - 1 \in 3 .. n /\ i \in 1 .. n
    BY <1>1
  <2>2. Sums(put)[i] <= Sums(put)[n]
    <3>1. \A j \in i + 1 .. n : put[j] >= 0
      BY <2>0
    <3> QED  BY <2>0, <2>1, <3>1, SumsFrom
  <2>3. Sums(put)[3] <= Sums(put)[i - 1]
    <3>1. \A j \in 3 + 1 .. n : put[j] >= 0
      BY <2>0
    <3> QED  BY <2>0, <2>1, <3>1, SumsFrom
  <2>4. /\ Sums(put)[i] = Sums(put)[i - 1] + put[i]
        /\ Sums(put)[i] \in Int /\ Sums(put)[i - 1] \in Int /\ Sums(put)[n] \in Int
    <3>1. i - 1 \in 0 .. n /\ n \in 0 .. n
      BY <2>1
    <3>2. /\ Sums(put) \in [0 .. n -> Int]
          /\ \A j \in 1 .. n : Sums(put)[j] = Sums(put)[j - 1] + put[j]
      BY <2>0, SumsRecursion
    <3> QED  BY <2>1, <3>1, <3>2
  <2>5. put[i] \in Nat
    BY <1>20, <2>1
  <2> QED  BY <1>19, <1>21, <1>22, <2>2, <2>3, <2>4, <2>5
<1>24. PICK f : f = Filled(t, item, want, dur)
  OBVIOUS
<1>25. ASSUME NEW i \in 4 .. n PROVE f[i].count = 0
  <2>1. i \in DOMAIN t /\ put[i] = 0
    BY <1>5, <1>23
  <2>2. f[i] = t[i]
    BY <1>18, <1>24, <2>1 DEF Filled
  <2>3. t[i] = Empty
    BY <1>4, <1>5, <2>1
  <2> QED  BY <2>2, <2>3, EmptyMade
<1> QED  BY <1>1, <1>3, <1>24, <1>25

-----------------------------------------------------------------------------
(* Furnaces.                                                               *)

\* inventory_consume within a row, at one slot.
LEMMA OneLess ==
  ASSUME NEW n \in Nat, NEW s \in Row(n), NEW i \in 1 .. n, s[i].count # 0
  PROVE  /\ Consumed(s, i) \in Row(n) /\ s[i].item \in Items /\ Worth[s[i].item] \in Nat
         /\ WorthOf(Consumed(s, i), Worth) = WorthOf(s, Worth) - Worth[s[i].item]
         /\ \A j \in (1 .. n) \ {i} : Consumed(s, i)[j] = s[j]
<1>1. PICK st \in Stacks : st = s[i]
  BY DEF Row
<1>2. s[i].item \in Items
  BY <1>1, StackFields
<1>3. \A j \in (1 .. n) \ {i} : Consumed(s, i)[j] = s[j]
  BY DEF Row, Consumed
<1> QED  BY <1>2, <1>3, ConsumedActs

\* Fuel is used up.
LEMMA LitActs ==
  ASSUME NEW e, Holds(e), e.kind = Furnace, e.burn > 0 \/ HasFuel(e)
  PROVE  /\ Holds(Lit(e)) /\ Lit(e).kind = Furnace /\ Lit(e).burn > 0
         /\ Lit(e).slots[1] = e.slots[1] /\ Lit(e).slots[3] = e.slots[3]
         /\ WorthOf(Lit(e).slots, Worth) <= WorthOf(e.slots, Worth)
<1>0. PICK n \in Nat : n = 3
  OBVIOUS
<1>1. PICK s \in Row(n) : s = e.slots
  BY <1>0, ThreeSlots
<1>2. WorthOf(s, Worth) \in Nat
  BY WorthOfRow
<1>3. CASE e.burn > 0
  BY <1>1, <1>2, <1>3 DEF Lit
<1>4. CASE ~(e.burn > 0)
  <2>1. s[2].count > 0 /\ BurnTime[s[2].item] > 0
    BY <1>1, <1>4 DEF HasFuel
  <2>2. PICK t : t = [s EXCEPT ![2] = Less(s[2], 1)]
    OBVIOUS
  <2>3. 2 \in 1 .. n /\ s[2].count # 0
    BY <1>0, <2>1
  <2>4. /\ t \in Row(n) /\ s[2].item \in Items /\ Worth[s[2].item] \in Nat
        /\ WorthOf(t, Worth) = WorthOf(s, Worth) - Worth[s[2].item]
        /\ \A j \in (1 .. n) \ {2} : t[j] = s[j]
    <3>1. PICK i \in 1 .. n : i = 2
      BY <2>3
    <3>2. s[i].count # 0 /\ t = Consumed(s, i)
      BY <2>2, <2>3, <3>1 DEF Consumed
    <3>3. /\ t \in Row(n) /\ s[i].item \in Items /\ Worth[s[i].item] \in Nat
          /\ WorthOf(t, Worth) = WorthOf(s, Worth) - Worth[s[i].item]
          /\ \A j \in (1 .. n) \ {i} : t[j] = s[j]
      BY <3>2, OneLess
    <3> QED  BY <3>1, <3>3
  <2>5. BurnTime[s[2].item] \in Nat
    BY <2>4, ItemsAssumption
  <2>6. PICK f : f = Lit(e)
    OBVIOUS
  <2>7. f = [e EXCEPT !.burn = BurnTime[s[2].item], !.slots = t]
    BY <1>1, <1>4, <2>2, <2>6 DEF Lit, Holds, Fields
  <2>8. /\ DOMAIN f = Fields /\ f.kind = e.kind /\ f.cook = e.cook
        /\ f.burn = BurnTime[s[2].item] /\ f.slots = t
    BY <2>7 DEF Holds, Fields
  <2>9. Holds(f)
    BY <1>0, <2>4, <2>5, <2>8, FurnaceCapacity DEF Holds
  <2>10. t[1] = s[1] /\ t[3] = s[3]
    BY <1>0, <2>4
  <2>11. WorthOf(t, Worth) <= WorthOf(s, Worth)
    BY <1>2, <2>4
  <2> QED  BY <1>1, <2>1, <2>6, <2>8, <2>9, <2>10, <2>11
<1> QED  BY <1>3, <1>4

\* An input becomes a result that is worth no more.
LEMMA BurnedActs ==
  ASSUME NEW e, Holds(e), e.kind = Furnace, CanSmelt(e), e.burn > 0
  PROVE  /\ Holds(Burned(e)) /\ Burned(e).kind = Furnace
         /\ WorthOf(Burned(e).slots, Worth) <= WorthOf(e.slots, Worth)
<1>0. PICK n \in Nat : n = 3
  OBVIOUS
<1>1. PICK s \in Row(n) : s = e.slots
  BY <1>0, ThreeSlots
<1>2. WorthOf(s, Worth) \in Nat
  BY WorthOfRow
<1>3. e.burn - 1 \in Nat /\ e.cook \in Nat /\ e.cook + 1 <= CookTime
      /\ CookTime \in Nat \ {0}
  BY ItemsAssumption DEF Holds
<1>4. CASE e.cook + 1 < CookTime
  <2>1. PICK f : f = Burned(e)
    OBVIOUS
  <2>2. f = [e EXCEPT !.burn = e.burn - 1, !.cook = e.cook + 1]
    BY <1>4, <2>1 DEF Burned
  <2>3. /\ DOMAIN f = Fields /\ f.kind = e.kind /\ f.slots = e.slots
        /\ f.burn = e.burn - 1 /\ f.cook = e.cook + 1
    BY <2>2 DEF Holds, Fields
  <2>4. f.cook \in 0 .. CookTime - 1
    BY <1>3, <1>4, <2>3
  <2>5. Holds(f)
    BY <1>3, <2>3, <2>4 DEF Holds
  <2> QED  BY <1>1, <1>2, <2>1, <2>3, <2>5
<1>5. CASE ~(e.cook + 1 < CookTime)
  <2>1. s[1].count > 0 /\ s[1].item \in DOMAIN SmeltsTo
        /\ \/ s[3].count = 0
           \/ s[3].item = SmeltsTo[s[1].item] /\ s[3].count < StackLimit
    BY <1>1 DEF CanSmelt
  <2>2. PICK x \in Items : x = SmeltsTo[s[1].item] /\ x \notin Tools
    BY <2>1, ItemsAssumption
  <2>3. PICK t : t = [s EXCEPT ![1] = Less(s[1], 1)]
    OBVIOUS
  <2>4. 1 \in 1 .. n /\ s[1].count # 0 /\ 3 \in 1 .. n
    BY <1>0, <2>1
  <2>5. /\ t \in Row(n) /\ s[1].item \in Items /\ Worth[s[1].item] \in Nat
        /\ WorthOf(t, Worth) = WorthOf(s, Worth) - Worth[s[1].item]
        /\ \A j \in (1 .. n) \ {1} : t[j] = s[j]
    <3>1. PICK i \in 1 .. n : i = 1
      BY <2>4
    <3>2. s[i].count # 0 /\ t = Consumed(s, i)
      BY <2>3, <2>4, <3>1 DEF Consumed
    <3>3. /\ t \in Row(n) /\ s[i].item \in Items /\ Worth[s[i].item] \in Nat
          /\ WorthOf(t, Worth) = WorthOf(s, Worth) - Worth[s[i].item]
          /\ \A j \in (1 .. n) \ {i} : t[j] = s[j]
      BY <3>2, OneLess
    <3> QED  BY <3>1, <3>3
  <2>6. t[3] = s[3] /\ s[3] \in Stacks
    BY <1>0, <2>5 DEF Row
  <2>7. PICK c \in Nat : c = s[3].count
    BY <2>6, StackFields
  <2>8. c + 1 \in 1 .. StackMax(x) /\ 0 \in 0 .. Durability
    <3>1. c <= StackMax(s[3].item) /\ StackMax(x) = StackLimit
      BY <2>2, <2>6, <2>7, StackFields DEF StackMax
    <3>2. c + 1 <= StackLimit
      BY <2>1, <2>7, ItemsAssumption
    <3> QED  BY <3>1, <3>2, ItemsAssumption
  <2>9. PICK w \in Nat : w = Worth[x]
    BY WorthAssumption
  <2>10. PICK st : st = [item |-> x, count |-> c + 1, dur |-> 0]
    OBVIOUS
  <2>11. st \in Stacks
    BY <2>8, <2>10, StackMade
  <2>12. Value(st) = (c + 1) * w
    BY <2>9, <2>10 DEF Value
  <2>13. Value(s[3]) = c * w
    <3>1. CASE c = 0
      BY <2>7, <3>1, ZeroTimes DEF Value
    <3>2. CASE c # 0
      BY <2>1, <2>2, <2>7, <2>9, <3>2 DEF Value
    <3> QED  BY <3>1, <3>2
  <2>14. (c + 1) * w = c * w + w /\ c * w \in Nat
    BY Product
  <2>15. PICK u : u = [t EXCEPT ![3] = st]
    OBVIOUS
  <2>16. /\ u \in Row(n)
         /\ WorthOf(u, Worth) = WorthOf(t, Worth) - Value(t[3]) + Value(st)
    BY <2>4, <2>5, <2>11, <2>15, SlotChanged
  <2>17. w <= Worth[s[1].item]
    BY <2>1, <2>2, <2>9, WorthAssumption
  <2>18. WorthOf(u, Worth) <= WorthOf(s, Worth)
    <3>1. WorthOf(u, Worth) = WorthOf(s, Worth) - Worth[s[1].item] - c * w + (c * w + w)
      BY <2>5, <2>6, <2>12, <2>13, <2>14, <2>16
    <3> QED  BY <1>2, <2>5, <2>14, <2>17, <3>1
  <2>19. PICK f : f = Burned(e)
    OBVIOUS
  <2>20. f = [e EXCEPT !.burn = e.burn - 1, !.cook = e.cook + 1 - CookTime,
                       !.slots = [s EXCEPT ![1] = Less(s[1], 1), ![3] = Stack(x, c + 1)]]
    BY <1>1, <1>5, <2>2, <2>7, <2>19 DEF Burned, Holds, Fields
  <2>21. u = [s EXCEPT ![1] = Less(s[1], 1), ![3] = Stack(x, c + 1)]
    BY <2>3, <2>10, <2>15 DEF Stack, Row
  <2>22. f = [e EXCEPT !.burn = e.burn - 1, !.cook = e.cook + 1 - CookTime, !.slots = u]
    BY <2>20, <2>21
  <2>23. /\ DOMAIN f = Fields /\ f.kind = e.kind /\ f.slots = u
         /\ f.burn = e.burn - 1 /\ f.cook = e.cook + 1 - CookTime
    BY <2>22 DEF Holds, Fields
  <2>24. f.cook \in 0 .. CookTime - 1
    BY <1>3, <1>5, <2>23
  <2>25. Holds(f)
    BY <1>0, <1>3, <2>16, <2>23, <2>24, FurnaceCapacity DEF Holds
  <2> QED  BY <1>1, <2>18, <2>19, <2>23, <2>25
<1> QED  BY <1>4, <1>5

\* furnace_tick makes nothing of more worth than it takes.
LEMMA TickedActs ==
  ASSUME NEW e, Holds(e)
  PROVE  /\ Holds(Ticked(e)) /\ Ticked(e).kind = e.kind
         /\ WorthOf(e.slots, Worth) \in Nat /\ WorthOf(Ticked(e).slots, Worth) \in Nat
         /\ WorthOf(Ticked(e).slots, Worth) <= WorthOf(e.slots, Worth)
<1>0. ASSUME NEW f, Holds(f) PROVE WorthOf(f.slots, Worth) \in Nat
  <2>1. PICK n \in Nat : n = Capacity(f.kind)
    BY <1>0, CapacityTyped DEF Holds
  <2>2. f.slots \in Row(n)
    BY <1>0, <2>1 DEF Holds
  <2> QED  BY <2>2, WorthOfRow
<1>1. WorthOf(e.slots, Worth) \in Nat
  BY <1>0
<1>2. CASE e.kind = Furnace /\ CanSmelt(e) /\ (e.burn > 0 \/ HasFuel(e))
  <2>1. PICK f : f = Lit(e)
    OBVIOUS
  <2>2. /\ Holds(f) /\ f.kind = Furnace /\ f.burn > 0
        /\ f.slots[1] = e.slots[1] /\ f.slots[3] = e.slots[3]
        /\ WorthOf(f.slots, Worth) <= WorthOf(e.slots, Worth)
    BY <1>2, <2>1, LitActs
  <2>3. CanSmelt(f)
    BY <1>2, <2>2 DEF CanSmelt
  <2>4. PICK g : g = Burned(f)
    OBVIOUS
  <2>5. /\ Holds(g) /\ g.kind = Furnace
        /\ WorthOf(g.slots, Worth) <= WorthOf(f.slots, Worth)
    BY <2>2, <2>3, <2>4, BurnedActs
  <2>6. WorthOf(f.slots, Worth) \in Nat /\ WorthOf(g.slots, Worth) \in Nat
    BY <1>0, <2>2, <2>5
  <2>7. Ticked(e) = g
    BY <1>2, <2>1, <2>4 DEF Ticked
  <2> QED  BY <1>1, <1>2, <2>2, <2>5, <2>6, <2>7
<1>3. CASE ~(e.kind = Furnace /\ CanSmelt(e) /\ (e.burn > 0 \/ HasFuel(e)))
  BY <1>1, <1>3 DEF Ticked
<1> QED  BY <1>2, <1>3
=============================================================================
