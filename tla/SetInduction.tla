------------------------------ MODULE SetInduction ------------------------------
(***************************************************************************)
(* Induction, least elements and running sums, stated over sets.  A        *)
(* predicate is given by the set of the values it holds for, so no theorem *)
(* takes an operator.                                                      *)
(***************************************************************************)
EXTENDS Integers, Sequences, FiniteSets, WellFoundedInduction, FiniteSetTheorems, TLAPS

\* Induction over the naturals, used for every loop counter and length below:
\* a set that holds 0 and with n also n + 1 holds every natural.
THEOREM NatSetInduction ==
  ASSUME NEW T, 0 \in T, \A n \in Nat : n \in T => n + 1 \in T
  PROVE  Nat \subseteq T
<1> SUFFICES ASSUME Nat \ T # {}
             PROVE  FALSE
  OBVIOUS
<1>1. PICK m \in Nat \ T : \A k \in Nat \ T : ~(<<k, m>> \in OpToRel(<, Nat))
  BY NatLessThanWellFounded, WFMin
<1>2. m # 0
  OBVIOUS
<1>3. m - 1 \in Nat /\ m - 1 < m
  BY <1>2
<1>4. <<m - 1, m>> \in OpToRel(<, Nat)
  BY <1>3 DEF OpToRel
<1>5. m - 1 \in T
  BY <1>1, <1>3, <1>4
<1>6. (m - 1) + 1 \in T
  BY <1>3, <1>5
<1> QED
  BY <1>6

\* The same up to a bound, for positions of a sequence.
THEOREM IntervalInduction ==
  ASSUME NEW n \in Nat, NEW T, 0 \in T, \A i \in 0..(n - 1) : i \in T => i + 1 \in T
  PROVE  0..n \subseteq T
<1> DEFINE U == {i \in Nat : i <= n => i \in T}
<1>1. 0 \in U
  OBVIOUS
<1>2. \A i \in Nat : i \in U => i + 1 \in U
  OBVIOUS
<1>3. Nat \subseteq U
  <2> HIDE DEF U
  <2> QED
    BY <1>1, <1>2, NatSetInduction
<1> QED
  BY <1>3

\* Induction over a finite set, for loops over nodes, rows and edges: a
\* collection that holds the empty set and with T also T and one more element
\* of S holds S.
THEOREM FiniteSetInduction ==
  ASSUME NEW S, IsFiniteSet(S), NEW F, {} \in F,
         \A T \in SUBSET S : \A x \in S \ T : T \in F => T \cup {x} \in F
  PROVE  S \in F
<1>1. PICK n \in Nat : ExistsBijection(1..n, S)
  BY FS_NatBijection
<1>2. PICK f : /\ f \in [1..n -> S]
               /\ \A i, j \in 1..n : f[i] = f[j] => i = j
               /\ \A x \in S : \E i \in 1..n : f[i] = x
  BY <1>1 DEF ExistsBijection, Bijection, Injection, Surjection, IsInjective
<1> DEFINE First(i) == {f[j] : j \in 1..i}
           U == {i \in 0..n : First(i) \in F}
<1>3. 0 \in U
  <2>1. First(0) = {}
    OBVIOUS
  <2> HIDE DEF First
  <2>2. First(0) \in F
    BY <2>1
  <2> QED
    BY <2>2
<1>4. ASSUME NEW i \in 0..(n - 1), i \in U
      PROVE  i + 1 \in U
  <2>1. First(i) \in SUBSET S /\ f[i + 1] \in S \ First(i)
    BY <1>2
  <2>2. First(i + 1) = First(i) \cup {f[i + 1]}
    <3>1. 1..(i + 1) = 1..i \cup {i + 1}
      OBVIOUS
    <3> QED
      BY <3>1
  <2>3. First(i) \in F
    BY <1>4
  <2> HIDE DEF First
  <2>4. First(i + 1) \in F
    BY <2>1, <2>2, <2>3
  <2> QED
    BY <2>4
<1>5. 0..n \subseteq U
  <2> HIDE DEF U
  <2> QED
    BY <1>3, <1>4, IntervalInduction
<1>6. First(n) \in F
  BY <1>5
<1>7. First(n) = S
  BY <1>2
<1> QED
  BY <1>6, <1>7

\* A subset of an interval is finite: node indices and provider indices.
LEMMA SubsetOfInterval ==
  ASSUME NEW n \in Nat, NEW T, T \subseteq 1..n
  PROVE  IsFiniteSet(T)
<1>1. IsFiniteSet(1..n)
  BY FS_Interval
<1>2. T \in SUBSET (1..n)
  OBVIOUS
<1> QED
  BY <1>1, <1>2, FS_Subset

\* A finite set of integers has a least element.
THEOREM LeastInteger ==
  ASSUME NEW S, IsFiniteSet(S), S # {}, S \subseteq Int
  PROVE  \E x \in S : \A y \in S : x <= y
<1> DEFINE F == {T \in SUBSET S : T = {} \/ \E x \in T : \A y \in T : x <= y}
<1>1. {} \in F
  OBVIOUS
<1>2. ASSUME NEW T \in SUBSET S, NEW z \in S \ T, T \in F
      PROVE  T \cup {z} \in F
  <2>1. CASE T = {}
    BY <2>1
  <2>2. CASE T # {}
    <3>1. PICK x \in T : \A y \in T : x <= y
      BY <1>2, <2>2
    <3>2. CASE x <= z
      <4>1. \A y \in T \cup {z} : x <= y
        BY <3>1, <3>2
      <4> QED
        BY <4>1
    <3>3. CASE z < x
      <4>1. \A y \in T \cup {z} : z <= y
        BY <3>1, <3>3
      <4> QED
        BY <4>1
    <3> QED
      BY <3>2, <3>3
  <2> QED
    BY <2>1, <2>2
<1>3. S \in F
  <2> HIDE DEF F
  <2> QED
    BY <1>1, <1>2, FiniteSetInduction
<1> QED
  BY <1>3

\* The values of a loop over 1..n that starts from c and computes each value
\* from the one before.
Iterates(g, n, S, c, step) ==
  /\ g \in [0..n -> S]
  /\ g[0] = c
  /\ \A i \in 1..n : g[i] = step[<<i, g[i - 1]>>]

\* Such a loop has its values: sums, and the numbers that digits are read as.
THEOREM IntervalRecursion ==
  ASSUME NEW n \in Nat, NEW S, NEW c \in S, NEW step \in [(1..n) \X S -> S]
  PROVE  \E g : Iterates(g, n, S, c, step)
<1> DEFINE Loop(m, g) == /\ g \in [0..m -> S]
                         /\ g[0] = c
                         /\ \A i \in 1..m : g[i] = step[<<i, g[i - 1]>>]
           U == {m \in 0..n : \E g \in [0..m -> S] : Loop(m, g)}
<1>1. 0 \in U
  <2> DEFINE z == [i \in 0..0 |-> c]
  <2>1. z \in [0..0 -> S] /\ Loop(0, z)
    OBVIOUS
  <2> HIDE DEF Loop, z
  <2>2. \E g \in [0..0 -> S] : Loop(0, g)
    BY <2>1
  <2> QED
    BY <2>2
<1>2. ASSUME NEW m \in 0..(n - 1), m \in U
      PROVE  m + 1 \in U
  <2>1. PICK g : Loop(m, g)
    BY <1>2
  <2>2. PICK x \in S : x = step[<<m + 1, g[m]>>]
    BY <2>1
  <2> DEFINE h == [i \in 0..(m + 1) |-> IF i <= m THEN g[i] ELSE x]
  <2>3. h \in [0..(m + 1) -> S] /\ h[0] = c
    BY <2>1
  <2>4. ASSUME NEW i \in 1..(m + 1)
        PROVE  h[i] = step[<<i, h[i - 1]>>]
    <3>1. CASE i <= m
      <4>1. h[i] = g[i] /\ h[i - 1] = g[i - 1] /\ i \in 1..m
        BY <3>1
      <4> QED
        BY <2>1, <4>1
    <3>2. CASE i = m + 1
      <4>1. h[i] = x /\ h[i - 1] = g[m]
        BY <3>2
      <4> QED
        BY <2>2, <3>2, <4>1
    <3> QED
      BY <3>1, <3>2
  <2>5. h \in [0..(m + 1) -> S] /\ Loop(m + 1, h)
    BY <2>3, <2>4
  <2> HIDE DEF Loop, h
  <2>6. \E k \in [0..(m + 1) -> S] : Loop(m + 1, k)
    BY <2>5
  <2> QED
    BY <2>6
<1>3. 0..n \subseteq U
  <2> HIDE DEF U
  <2> QED
    BY <1>1, <1>2, IntervalInduction
<1>4. n \in U
  <2> HIDE DEF U
  <2> QED
    BY <1>3
<1>5. PICK g \in [0..n -> S] : Loop(n, g)
  <2> HIDE DEF Loop
  <2> QED
    BY <1>4
<1>6. Iterates(g, n, S, c, step)
  BY <1>5 DEF Iterates
<1> QED
  BY <1>6

\* A sequence of integers can be added up from the front, one by one.
LEMMA RunningSumExists ==
  ASSUME NEW n \in Nat, NEW f \in [1..n -> Int]
  PROVE  \E g : g = [i \in 0..n |-> IF i = 0 THEN 0 ELSE g[i - 1] + f[i]]
<1> DEFINE step == [x \in (1..n) \X Int |-> x[2] + f[x[1]]]
<1>1. step \in [(1..n) \X Int -> Int]
  OBVIOUS
<1>2. \A i \in 1..n, k \in Int : step[<<i, k>>] = k + f[i]
  OBVIOUS
<1> HIDE DEF step
<1>3. 0 \in Int
  OBVIOUS
<1>4. PICK g : Iterates(g, n, Int, 0, step)
  BY <1>1, <1>3, IntervalRecursion
<1>5. g \in [0..n -> Int] /\ g[0] = 0 /\ \A i \in 1..n : g[i] = step[<<i, g[i - 1]>>]
  BY <1>4 DEF Iterates
<1>6. ASSUME NEW i \in 1..n
      PROVE  g[i] = g[i - 1] + f[i]
  <2>1. g[i - 1] \in Int
    BY <1>5
  <2> QED
    BY <1>2, <1>5, <2>1
<1>7. g = [i \in 0..n |-> IF i = 0 THEN 0 ELSE g[i - 1] + f[i]]
  BY <1>5, <1>6
<1> QED
  BY <1>7

\* The recursive function that does so, as a route's cost is defined with it,
\* is that sum.
THEOREM RunningSum ==
  ASSUME NEW n \in Nat, NEW f \in [1..n -> Int]
  PROVE  LET sum[i \in 0..n] == IF i = 0 THEN 0 ELSE sum[i - 1] + f[i]
         IN  /\ sum \in [0..n -> Int]
             /\ sum[0] = 0
             /\ \A i \in 1..n : sum[i] = sum[i - 1] + f[i]
<1> DEFINE sum[i \in 0..n] == IF i = 0 THEN 0 ELSE sum[i - 1] + f[i]
           V == {i \in 0..n : sum[i] \in Int}
<1>1. sum = [i \in 0..n |-> IF i = 0 THEN 0 ELSE sum[i - 1] + f[i]]
  BY RunningSumExists, ZenonT(40)
<1> HIDE DEF sum
<1>2. DOMAIN sum = 0..n /\ \A i \in 0..n : sum[i] = IF i = 0 THEN 0 ELSE sum[i - 1] + f[i]
  BY <1>1
<1>3. sum[0] = 0 /\ \A i \in 1..n : sum[i] = sum[i - 1] + f[i]
  BY <1>2
<1>4. 0..n \subseteq V
  <2>1. 0 \in V
    BY <1>3
  <2>2. ASSUME NEW i \in 0..(n - 1), i \in V
        PROVE  i + 1 \in V
    <3>1. i + 1 \in 1..n /\ (i + 1) - 1 = i
      OBVIOUS
    <3>2. sum[i + 1] = sum[i] + f[i + 1]
      BY <1>3, <3>1
    <3> QED
      BY <2>2, <3>1, <3>2
  <2> HIDE DEF V
  <2> QED
    BY <2>1, <2>2, IntervalInduction
<1>5. sum \in [0..n -> Int]
  BY <1>1, <1>4
<1> QED
  BY <1>3, <1>5 DEF sum

\* What g makes of a set of arguments of f is the sum of f's values there.
AddsUp(g, f) ==
  /\ DOMAIN g = SUBSET DOMAIN f
  /\ g[{}] = 0
  /\ \A s \in SUBSET DOMAIN f : \A x \in s : g[s] = f[x] + g[s \ {x}]

\* Adding up the values of a function, in whatever order the fold of the
\* Functions module takes them, gives g of its domain, when g adds them up: the
\* counts of the dashboard by network.
THEOREM FoldIsSum ==
  ASSUME NEW f, IsFiniteSet(DOMAIN f), NEW g, AddsUp(g, f)
  PROVE  FoldFunction(+, 0, f) = g[DOMAIN f]
<1>0. PICK D : D = DOMAIN f
  OBVIOUS
<1>a. /\ IsFiniteSet(D) /\ DOMAIN g = SUBSET D /\ g[{}] = 0
      /\ \A s \in SUBSET D : \A x \in s : g[s] = f[x] + g[s \ {x}]
  BY <1>0 DEF AddsUp
<1> DEFINE iter[s \in SUBSET DOMAIN f] ==
             IF s = {} THEN 0 ELSE LET x == CHOOSE x \in s : TRUE IN f[x] + iter[s \ {x}]
           Pick(s) == CHOOSE x \in s : TRUE
           V == {n \in Nat : \A s \in SUBSET D : Cardinality(s) = n => iter[s] = g[s]}
<1>1. FoldFunction(+, 0, f) = iter[D]
  BY <1>0, ZenonT(40) DEF FoldFunction, FoldFunctionOnSet, MapThenFoldSet
<1>2. \A s \in SUBSET D : s # {} => Pick(s) \in s
  OBVIOUS
<1>3. \E h : h = [s \in SUBSET DOMAIN f |-> IF s = {} THEN 0 ELSE f[Pick(s)] + h[s \ {Pick(s)}]]
  <2> HIDE DEF Pick
  <2>1. \A s \in SUBSET D : g[s] = IF s = {} THEN 0 ELSE f[Pick(s)] + g[s \ {Pick(s)}]
    BY <1>2, <1>a
  <2>2. \A s \in SUBSET D : s \ {Pick(s)} \in SUBSET D
    OBVIOUS
  <2>3. PICK h : h = [s \in SUBSET D |-> g[s]]
    OBVIOUS
  <2>4. \A s \in SUBSET D : h[s] = g[s]
    BY <2>3
  <2>5. \A s \in SUBSET D : g[s] = IF s = {} THEN 0 ELSE f[Pick(s)] + h[s \ {Pick(s)}]
    BY <2>1, <2>2, <2>4
  <2>6. h = [s \in SUBSET DOMAIN f |-> IF s = {} THEN 0 ELSE f[Pick(s)] + h[s \ {Pick(s)}]]
    BY <1>0, <2>3, <2>5
  <2> QED
    BY <2>6
<1>4. iter = [s \in SUBSET DOMAIN f |-> IF s = {} THEN 0 ELSE f[Pick(s)] + iter[s \ {Pick(s)}]]
  BY <1>3, ZenonT(40)
<1> HIDE DEF iter, Pick
<1>5. \A s \in SUBSET D : iter[s] = IF s = {} THEN 0 ELSE f[Pick(s)] + iter[s \ {Pick(s)}]
  BY <1>0, <1>4
<1>6. 0 \in V
  <2>1. ASSUME NEW s \in SUBSET D, Cardinality(s) = 0
        PROVE  iter[s] = g[s]
    <3>1. IsFiniteSet(s)
      BY <1>a, FS_Subset
    <3>2. s = {}
      BY <2>1, <3>1, FS_EmptySet
    <3> QED
      BY <1>5, <1>a, <3>2
  <2> QED
    BY <2>1
<1>7. ASSUME NEW n \in Nat, n \in V
      PROVE  n + 1 \in V
  <2>1. ASSUME NEW s \in SUBSET D, Cardinality(s) = n + 1
        PROVE  iter[s] = g[s]
    <3>1. IsFiniteSet(s) /\ s # {}
      BY <1>a, <2>1, FS_Subset, FS_EmptySet
    <3>2. PICK x : x = Pick(s)
      OBVIOUS
    <3>3. x \in s
      BY <1>2, <3>1, <3>2
    <3>4. s \ {x} \in SUBSET D /\ Cardinality(s \ {x}) = n
      <4>1. Cardinality(s \ {x}) = Cardinality(s) - 1
        BY <3>1, <3>3, FS_RemoveElement
      <4> QED
        BY <2>1, <4>1
    <3>5. iter[s \ {x}] = g[s \ {x}]
      BY <1>7, <3>4
    <3>6. iter[s] = f[x] + iter[s \ {x}]
      BY <1>5, <3>1, <3>2
    <3>7. g[s] = f[x] + g[s \ {x}]
      BY <1>a, <3>3
    <3> QED
      BY <3>5, <3>6, <3>7
  <2> QED
    BY <2>1
<1>8. Nat \subseteq V
  <2> HIDE DEF V
  <2> QED
    BY <1>6, <1>7, NatSetInduction
<1>9. iter[D] = g[D]
  <2>1. Cardinality(D) \in Nat /\ D \in SUBSET D
    BY <1>a, FS_CardinalityType
  <2> QED
    BY <1>8, <2>1
<1> QED
  BY <1>0, <1>1, <1>9, ZenonT(40)

=============================================================================
