------------------------------ MODULE SumProofs ------------------------------
(***************************************************************************)
(* What the sums over the ledger are, whoever computes them: budgets and   *)
(* alerts, the dashboard, the advisor.                                     *)
(*                                                                         *)
(* A fold takes the elements of a set in some order.  There is a function  *)
(* that holds the sums of all subsets of a finite set, and whatever order  *)
(* a fold takes it comes to that.  So a sum over a set is the sum over its *)
(* groups of the sums of the groups, and rows that stand one for each      *)
(* element of a set add up to the sum over the set.  An allocation is a    *)
(* transaction without a split or a split of one, and splits add up to     *)
(* their transaction: so the categories add up to the spending.            *)
(*                                                                         *)
(* A finite, strictly ordered set gives each element a rank, and sorting   *)
(* puts each at its rank.                                                  *)
(***************************************************************************)
EXTENDS LedgerReports, FiniteSetTheorems, SequenceTheorems, WellFoundedInduction, TLAPS

------------------------------------------------------------------------------
(* Finite sets in order.                                                   *)

\* Finite sets have no endless descent: of sets that fail, one is least.
LEMMA LeastSet ==
    ASSUME NEW S, IsFiniteSet(S), NEW Bad, Bad \subseteq SUBSET S, Bad # {}
    PROVE  \E T \in Bad : \A U \in SUBSET T : U # T => U \notin Bad
<1> DEFINE R == StrictSubsetOrdering(S)
<1>1. IsWellFoundedOn(R, SUBSET S)
  BY FS_StrictSubsetOrderingWellFounded, FS_FiniteSubsetsOfFinite
<1>2. PICK T \in Bad : \A U \in Bad : ~ (<<U, T>> \in R)
  <2> HIDE DEF R
  <2> QED
    BY <1>1, WFMin
<1>3. ASSUME NEW U \in SUBSET T, U # T, U \in Bad
      PROVE  FALSE
  BY <1>2, <1>3 DEF StrictSubsetOrdering
<1> QED
  BY <1>3

\* Of the numbers that fail, one is least.
LEMMA LeastNumber ==
    ASSUME NEW Bad \in SUBSET Nat, Bad # {}
    PROVE  \E n \in Bad : \A m \in Bad : n <= m
<1>1. PICK b : b \in Bad
  OBVIOUS
<1>2. b \in Nat /\ IsFiniteSet(0..b)
  BY <1>1, FS_Interval
<1> DEFINE Up == {T \in SUBSET (0..b) : \E n \in Bad : T = 0..n}
<1>3. 0..b \in Up
  BY <1>1
<1>4. PICK T \in Up : \A U \in SUBSET T : U # T => U \notin Up
  <2>1. Up \subseteq SUBSET (0..b) /\ Up # {}
    BY <1>3
  <2> HIDE DEF Up
  <2> QED
    BY <1>2, <2>1, LeastSet
<1>5. PICK n \in Bad : T = 0..n
  BY <1>4
<1>6. n \in Nat /\ n <= b
  <2>1. n \in Nat /\ n \in 0..n /\ T \subseteq 0..b
    BY <1>4, <1>5
  <2> QED
    BY <1>2, <1>5, <2>1
<1>7. ASSUME NEW m \in Bad, ~ n <= m
      PROVE  FALSE
  <2>1. m \in Nat /\ m < n
    BY <1>6, <1>7
  <2>2. 0..m \in SUBSET T /\ 0..m # T /\ 0..m \in Up
    <3>1. n \in T /\ n \notin 0..m
      BY <1>5, <1>6, <2>1
    <3>2. 0..m \subseteq T /\ 0..m \subseteq 0..b
      BY <1>2, <1>5, <1>6, <2>1
    <3> QED
      BY <1>7, <3>1, <3>2
  <2> QED
    BY <1>4, <2>2
<1> QED
  BY <1>5, <1>7

\* A relation is a set of pairs, smaller first.
StrictOrder(S, R) ==
    /\ \A s, t \in S : s # t => <<s, t>> \in R \/ <<t, s>> \in R
    /\ \A s \in S : <<s, s>> \notin R
    /\ \A s, t, u \in S : <<s, t>> \in R /\ <<t, u>> \in R => <<s, u>> \in R

Smaller(S, R, t) == {u \in S : <<u, t>> \in R}

Rank(S, R, t) == Cardinality(Smaller(S, R, t))

\* Each element of an ordered finite set has a rank of its own.
LEMMA Ranks ==
    ASSUME NEW S, IsFiniteSet(S), NEW R, StrictOrder(S, R)
    PROVE  /\ Cardinality(S) \in Nat
           /\ \A t \in S : Rank(S, R, t) \in 0..(Cardinality(S) - 1)
           /\ \A s, t \in S : <<s, t>> \in R => Rank(S, R, s) < Rank(S, R, t)
           /\ \A i \in 0..(Cardinality(S) - 1) : \E t \in S : Rank(S, R, t) = i
<1> DEFINE n == Cardinality(S)
<1>1. n \in Nat
  BY FS_CardinalityType
<1>2. ASSUME NEW t \in S
      PROVE  /\ IsFiniteSet(Smaller(S, R, t)) /\ Rank(S, R, t) \in Nat
             /\ Rank(S, R, t) < n
  <2>1. Smaller(S, R, t) \in SUBSET S /\ Smaller(S, R, t) # S
    BY DEF Smaller, StrictOrder
  <2>2. IsFiniteSet(Smaller(S, R, t)) /\ Rank(S, R, t) <= n /\ Rank(S, R, t) # n
    BY <2>1, FS_Subset DEF Rank
  <2>3. Rank(S, R, t) \in Nat
    BY <2>2, FS_CardinalityType DEF Rank
  <2> QED
    BY <1>1, <2>2, <2>3
<1>3. ASSUME NEW s \in S, NEW t \in S, <<s, t>> \in R
      PROVE  Rank(S, R, s) < Rank(S, R, t)
  <2>1. Smaller(S, R, s) \in SUBSET Smaller(S, R, t)
    BY <1>3 DEF Smaller, StrictOrder
  <2>2. Smaller(S, R, s) # Smaller(S, R, t)
    BY <1>3 DEF Smaller, StrictOrder
  <2>3. Rank(S, R, s) <= Rank(S, R, t) /\ Rank(S, R, s) # Rank(S, R, t)
    BY <1>2, <2>1, <2>2, FS_Subset DEF Rank
  <2> QED
    BY <1>2, <2>3
<1>4. ASSUME NEW i \in 0..(n - 1)
      PROVE  \E t \in S : Rank(S, R, t) = i
  <2> DEFINE f == [t \in S |-> Rank(S, R, t)]
  <2>1. f \in [S -> 0..(n - 1)]
    BY <1>1, <1>2
  <2>2. ASSUME NEW s \in S, NEW t \in S, f[s] = f[t]
        PROVE  s = t
    <3>1. s # t => <<s, t>> \in R \/ <<t, s>> \in R
      BY DEF StrictOrder
    <3>2. ~ (<<s, t>> \in R) /\ ~ (<<t, s>> \in R)
      BY <1>2, <1>3, <2>2
    <3> QED
      BY <3>1, <3>2
  <2>3. f \in Injection(S, 0..(n - 1))
    BY <2>1, <2>2 DEF Injection, IsInjective
  <2>4. IsFiniteSet(0..(n - 1)) /\ Cardinality(0..(n - 1)) = n
    BY <1>1, FS_Interval
  <2>5. f \in Surjection(S, 0..(n - 1))
    BY <2>3, <2>4, FS_Injection
  <2> QED
    BY <2>5 DEF Surjection
<1> QED
  BY <1>1, <1>2, <1>3, <1>4

\* What it is to list a set in its order, each element once.
Lists(f, S, R) ==
    /\ Cardinality(S) \in Nat
    /\ \A i \in 1..Cardinality(S) : f[i] \in S
    /\ \A t \in S : \E i \in 1..Cardinality(S) : f[i] = t
    /\ \A i, j \in 1..Cardinality(S) : i < j => <<f[i], f[j]>> \in R

\* The sequence by ranks does.
LEMMA InOrder ==
    ASSUME NEW S, IsFiniteSet(S), NEW R, StrictOrder(S, R),
           NEW f,
           \A i \in 1..Cardinality(S) :
              (\E t \in S : Rank(S, R, t) = i - 1) => f[i] \in S /\ Rank(S, R, f[i]) = i - 1
    PROVE  Lists(f, S, R)
<1> DEFINE n == Cardinality(S)
<1>1. /\ n \in Nat
      /\ \A t \in S : Rank(S, R, t) \in 0..(n - 1)
      /\ \A s, t \in S : <<s, t>> \in R => Rank(S, R, s) < Rank(S, R, t)
      /\ \A i \in 0..(n - 1) : \E t \in S : Rank(S, R, t) = i
  BY Ranks
<1>2. ASSUME NEW i \in 1..n
      PROVE  f[i] \in S /\ Rank(S, R, f[i]) = i - 1
  <2>1. i - 1 \in 0..(n - 1)
    BY <1>1
  <2>2. \E t \in S : Rank(S, R, t) = i - 1
    BY <1>1, <2>1
  <2> QED
    BY <2>2
<1>3. \A i \in 1..n : f[i] \in S
  BY <1>2
<1>4. ASSUME NEW s \in S, NEW t \in S, Rank(S, R, s) = Rank(S, R, t)
      PROVE  s = t
  <2>1. s # t => <<s, t>> \in R \/ <<t, s>> \in R
    BY DEF StrictOrder
  <2>2. Rank(S, R, s) \in Nat /\ Rank(S, R, t) \in Nat
    BY <1>1
  <2>3. ~ (<<s, t>> \in R) /\ ~ (<<t, s>> \in R)
    BY <1>1, <1>4, <2>2
  <2> QED
    BY <2>1, <2>3
<1>5. ASSUME NEW t \in S
      PROVE  \E i \in 1..n : f[i] = t
  <2>1. Rank(S, R, t) + 1 \in 1..n
    BY <1>1
  <2>2. f[Rank(S, R, t) + 1] = t
    BY <1>1, <1>2, <1>4, <2>1
  <2> QED
    BY <2>1, <2>2
<1>6. ASSUME NEW i \in 1..n, NEW j \in 1..n, i < j
      PROVE  <<f[i], f[j]>> \in R
  <2>1. Rank(S, R, f[i]) < Rank(S, R, f[j]) /\ f[i] \in S /\ f[j] \in S
    BY <1>1, <1>2, <1>6
  <2>2. f[i] # f[j] /\ ~ (<<f[j], f[i]>> \in R)
    BY <1>1, <2>1
  <2> QED
    BY <2>1, <2>2 DEF StrictOrder
<1> QED
  BY <1>1, <1>3, <1>5, <1>6 DEF Lists

\* The lesser of two numbers.
LEMMA LesserOf ==
    ASSUME NEW a \in Int, NEW b \in Int
    PROVE  Min({a, b}) = IF a <= b THEN a ELSE b
  BY DEF Min

------------------------------------------------------------------------------
(* Loops.                                                                  *)

\* A run of a loop: its values, each computed from the one before.
RunOf(h, first, step, m) ==
    h[0] = first /\ \A n \in 1..m : h[n] = step[<<n, h[n - 1]>>]

\* There is one of any length.
LEMMA RunExists ==
    ASSUME NEW S, NEW first \in S, NEW step \in [Nat \X S -> S], NEW m \in Nat
    PROVE  \E h \in [0..m -> S] : RunOf(h, first, step, m)
<1> DEFINE Bad == {k \in Nat : ~ \E h \in [0..k -> S] : RunOf(h, first, step, k)}
<1>1. CASE m \notin Bad
  BY <1>1
<1>2. CASE m \in Bad
  <2>1. PICK k \in Bad : \A j \in Bad : k <= j
    <3>1. Bad \in SUBSET Nat /\ Bad # {}
      BY <1>2
    <3> HIDE DEF Bad
    <3> QED
      BY <3>1, LeastNumber
  <2>2. CASE k = 0
    <3> DEFINE h == [n \in 0..0 |-> first]
    <3>1. h \in [0..0 -> S] /\ RunOf(h, first, step, 0)
      BY DEF RunOf
    <3> HIDE DEF h
    <3> QED
      BY <2>2, <3>1
  <2>3. CASE k # 0
    <3>1. k \in Nat /\ k - 1 \in Nat /\ k - 1 \notin Bad
      BY <2>1, <2>3
    <3>2. PICK g \in [0..(k - 1) -> S] : RunOf(g, first, step, k - 1)
      BY <3>1
    <3>3. step[<<k, g[k - 1]>>] \in S
      BY <3>1
    <3> DEFINE h == [n \in 0..k |-> IF n = k THEN step[<<k, g[k - 1]>>] ELSE g[n]]
    <3>4. h \in [0..k -> S]
      BY <3>1, <3>3
    <3>5. h[k] = step[<<k, g[k - 1]>>] /\ \A n \in 0..(k - 1) : h[n] = g[n]
      BY <3>1
    <3> HIDE DEF h
    <3>6. h[0] = first
      BY <3>1, <3>2, <3>5 DEF RunOf
    <3>7. ASSUME NEW n \in 1..k
          PROVE  h[n] = step[<<n, h[n - 1]>>]
      <4>1. CASE n = k
        <5>1. h[k - 1] = g[k - 1]
          BY <3>1, <3>5
        <5> QED
          BY <3>5, <4>1, <5>1
      <4>2. CASE n # k
        <5>1. n \in 1..(k - 1) /\ n \in 0..(k - 1) /\ n - 1 \in 0..(k - 1)
          BY <3>1, <4>2
        <5>2. g[n] = step[<<n, g[n - 1]>>]
          BY <3>2, <5>1 DEF RunOf
        <5> QED
          BY <3>5, <5>1, <5>2
      <4> QED
        BY <4>1, <4>2
    <3> QED
      BY <2>1, <3>4, <3>6, <3>7 DEF RunOf
  <2> QED
    BY <2>2, <2>3
<1> QED
  BY <1>1, <1>2

------------------------------------------------------------------------------
(* Sums over finite sets.                                                  *)

\* g holds the sums of the subsets of S, in which x counts v[x].
Additive(g, v, S) ==
    /\ g \in [SUBSET S -> Int] /\ g[{}] = 0
    /\ \A x \in S : v[x] \in Int
    /\ \A T \in SUBSET S : \A x \in T : g[T] = v[x] + g[T \ {x}]

\* What the fold of a set does: it takes the elements one by one.
Folded(f, v, S) ==
    /\ f[{}] = 0
    /\ \A s \in SUBSET S : s # {} => \E c \in s : f[s] = v[c] + f[s \ {c}]

\* There are such sums for every finite set.
LEMMA AdditiveExists ==
    ASSUME NEW S, IsFiniteSet(S), NEW v, \A x \in S : v[x] \in Int
    PROVE  \E g : Additive(g, v, S)
<1> DEFINE Bad == {T \in SUBSET S : ~ \E g : Additive(g, v, T)}
<1> SUFFICES ASSUME Bad # {} PROVE FALSE
  OBVIOUS
<1>1. PICK T \in Bad : \A U \in SUBSET T : U # T => U \notin Bad
  <2> HIDE DEF Bad
  <2>1. Bad \subseteq SUBSET S
    BY DEF Bad
  <2> QED
    BY <2>1, LeastSet
<1>2. CASE T = {}
  <2> DEFINE g == [U \in SUBSET T |-> 0]
  <2>1. Additive(g, v, T)
    BY <1>2 DEF Additive
  <2> QED
    BY <2>1
<1>3. ASSUME NEW c \in T
      PROVE  FALSE
  <2> DEFINE Rest == T \ {c}
  <2>1. PICK h : Additive(h, v, Rest)
    BY <1>1
  <2> DEFINE g == [U \in SUBSET T |-> IF c \in U THEN v[c] + h[U \ {c}] ELSE h[U]]
  <2>2. \A U \in SUBSET T : g[U] = IF c \in U THEN v[c] + h[U \ {c}] ELSE h[U]
    OBVIOUS
  <2>3. h \in [SUBSET Rest -> Int] /\ h[{}] = 0 /\ v[c] \in Int
    BY <2>1 DEF Additive
  <2>4. \A U \in SUBSET Rest : \A x \in U : h[U] = v[x] + h[U \ {x}]
    BY <2>1 DEF Additive
  <2>5. g \in [SUBSET T -> Int]
    <3>1. ASSUME NEW U \in SUBSET T
          PROVE  (IF c \in U THEN v[c] + h[U \ {c}] ELSE h[U]) \in Int
      <4>1. CASE c \in U
        <5>1. U \ {c} \in SUBSET Rest
          OBVIOUS
        <5>2. h[U \ {c}] \in Int
          BY <2>3, <5>1
        <5> QED
          BY <2>3, <4>1, <5>2
      <4>2. CASE c \notin U
        <5>1. U \in SUBSET Rest
          BY <4>2
        <5> QED
          BY <2>3, <4>2, <5>1
      <4> QED
        BY <4>1, <4>2
    <3> QED
      BY <3>1
  <2>6. g[{}] = 0
    BY <2>2, <2>3
  <2> HIDE DEF g
  <2>7. ASSUME NEW U \in SUBSET T, NEW x \in U
        PROVE  g[U] = v[x] + g[U \ {x}]
    <3>1. v[x] \in Int
      OBVIOUS
    <3>2. CASE x = c
      <4>1. U \ {x} \in SUBSET T /\ c \notin U \ {x} /\ c \in U
        BY <3>2
      <4> QED
        BY <2>2, <3>2, <4>1
    <3>3. CASE x # c /\ c \in U
      <4>1. /\ U \ {c} \in SUBSET Rest /\ x \in U \ {c}
            /\ (U \ {c}) \ {x} = (U \ {x}) \ {c} /\ U \ {x} \in SUBSET T /\ c \in U \ {x}
        BY <3>3
      <4>2. h[U \ {c}] = v[x] + h[(U \ {c}) \ {x}]
        BY <2>4, <4>1
      <4>3. h[(U \ {c}) \ {x}] \in Int
        <5>1. (U \ {c}) \ {x} \in SUBSET Rest
          BY <4>1
        <5> QED
          BY <2>3, <5>1
      <4>4. g[U] = v[c] + (v[x] + h[(U \ {c}) \ {x}])
        BY <2>2, <3>3, <4>2
      <4>5. g[U \ {x}] = v[c] + h[(U \ {c}) \ {x}]
        BY <2>2, <4>1
      <4> HIDE DEF Rest
      <4> QED
        BY <2>3, <3>1, <4>3, <4>4, <4>5
    <3>4. CASE c \notin U
      <4>1. U \in SUBSET Rest /\ U \ {x} \in SUBSET T /\ c \notin U \ {x}
        BY <3>4
      <4>2. h[U] = v[x] + h[U \ {x}]
        BY <2>4, <4>1
      <4> QED
        BY <2>2, <3>4, <4>1, <4>2
    <3> QED
      BY <3>2, <3>3, <3>4
  <2>8. Additive(g, v, T)
    BY <2>5, <2>6, <2>7 DEF Additive
  <2> QED
    BY <2>8
<1> QED
  BY <1>2, <1>3

\* In whatever order a fold takes the elements, it comes to the same.
LEMMA SumsUnique ==
    ASSUME NEW S, IsFiniteSet(S), NEW v, NEW g, Additive(g, v, S), NEW f, Folded(f, v, S)
    PROVE  f[S] = g[S]
<1> DEFINE Bad == {T \in SUBSET S : f[T] # g[T]}
<1>1. ASSUME Bad # {}
      PROVE  FALSE
  <2>1. PICK T \in Bad : \A U \in SUBSET T : U # T => U \notin Bad
    <3> HIDE DEF Bad
    <3>1. Bad \subseteq SUBSET S
      BY DEF Bad
    <3> QED
      BY <1>1, <3>1, LeastSet
  <2>2. T # {}
    BY DEF Additive, Folded
  <2>3. PICK c \in T : f[T] = v[c] + f[T \ {c}]
    BY <2>2 DEF Folded
  <2>4. f[T \ {c}] = g[T \ {c}]
    BY <2>1
  <2>5. g[T] = v[c] + g[T \ {c}]
    BY DEF Additive
  <2> QED
    BY <2>3, <2>4, <2>5
<1> QED
  BY <1>1

\* Nor does it matter which element is taken first.
LEMMA AdditiveChosen ==
    ASSUME NEW S, NEW v, NEW g, Additive(g, v, S)
    PROVE  g = [s \in SUBSET S |->
                  IF s = {} THEN 0
                  ELSE v[CHOOSE x \in s : TRUE] + g[s \ {CHOOSE x \in s : TRUE}]]
<1> DEFINE step == [s \in SUBSET S |->
                      IF s = {} THEN 0
                      ELSE v[CHOOSE x \in s : TRUE] + g[s \ {CHOOSE x \in s : TRUE}]]
<1>1. ASSUME NEW s \in SUBSET S, s # {}
      PROVE  g[s] = v[CHOOSE x \in s : TRUE] + g[s \ {CHOOSE x \in s : TRUE}]
  <2>1. (CHOOSE x \in s : TRUE) \in s
    BY <1>1
  <2>2. PICK c \in s : c = CHOOSE x \in s : TRUE
    BY <2>1
  <2>3. g[s] = v[c] + g[s \ {c}]
    BY DEF Additive
  <2> QED
    BY <2>2, <2>3
<1>2. ASSUME NEW s \in SUBSET S
      PROVE  g[s] = step[s]
  BY <1>1 DEF Additive
<1>3. DOMAIN g = SUBSET S /\ g = [s \in DOMAIN g |-> g[s]]
  BY DEF Additive
<1>4. step = [s \in SUBSET S |-> step[s]]
  OBVIOUS
<1> HIDE DEF step
<1>5. g = step
  BY <1>2, <1>3, <1>4
<1> QED
  BY <1>5 DEF step

\* The total of rows is such a sum.
LEMMA TotalsOf ==
    ASSUME NEW S, IsFiniteSet(S), NEW v, \A r \in S : v[r] = r.amount,
           NEW g, Additive(g, v, S)
    PROVE  Total(S) = g[S]
<1> DEFINE Step(f) ==
        [s \in SUBSET S |->
           IF s = {} THEN 0
           ELSE (CHOOSE x \in s : TRUE).amount + f[s \ {CHOOSE x \in s : TRUE}]]
    Fold == CHOOSE f : f = Step(f)
<1>1. Total(S) = Fold[S]
  BY DEF Total, SumOver, MapThenSumSet, MapThenFoldSet
<1>2. \A s \in SUBSET S : s # {} => (CHOOSE x \in s : TRUE) \in S
  OBVIOUS
<1>3. g = Step(g)
  <2> DEFINE step == [s \in SUBSET S |->
                        IF s = {} THEN 0
                        ELSE v[CHOOSE x \in s : TRUE] + g[s \ {CHOOSE x \in s : TRUE}]]
  <2>1. g = step
    BY AdditiveChosen
  <2>2. step = Step(g)
    BY <1>2
  <2> QED
    BY <2>1, <2>2
<1>4. Fold = Step(Fold)
  <2> HIDE DEF Step
  <2> QED
    BY <1>3
<1> HIDE DEF Fold
<1>5. ASSUME NEW s \in SUBSET S, s # {}
      PROVE  \E c \in s : Fold[s] = v[c] + Fold[s \ {c}]
  <2>1. (CHOOSE x \in s : TRUE) \in s
    BY <1>5
  <2>2. Fold[s] = (CHOOSE x \in s : TRUE).amount + Fold[s \ {CHOOSE x \in s : TRUE}]
    BY <1>4, <1>5
  <2> QED
    BY <2>1, <2>2
<1>6. Fold[{}] = 0
  BY <1>4
<1>7. \A s \in SUBSET S : s # {} => \E c \in s : Fold[s] = v[c] + Fold[s \ {c}]
  BY <1>5
<1>8. Fold[S] = g[S]
  <2>1. PICK f : f = Fold
    OBVIOUS
  <2>2. Folded(f, v, S)
    BY <1>6, <1>7, <2>1 DEF Folded
  <2>3. f[S] = g[S]
    BY <2>2, SumsUnique
  <2> QED
    BY <2>1, <2>3
<1> QED
  BY <1>1, <1>8

\* And so is the sum of the values of a function.
LEMMA ValuesOf ==
    ASSUME NEW S, IsFiniteSet(S), NEW v, NEW g, Additive(g, v, S)
    PROVE  ValuesSum(v, S) = g[S]
<1> DEFINE Step(f) ==
        [s \in SUBSET S |->
           IF s = {} THEN 0
           ELSE v[CHOOSE x \in s : TRUE] + f[s \ {CHOOSE x \in s : TRUE}]]
    Fold == CHOOSE f : f = Step(f)
<1>1. ValuesSum(v, S) = Fold[S]
  BY DEF ValuesSum, SumOver, MapThenSumSet, MapThenFoldSet
<1>2. g = Step(g)
  BY AdditiveChosen
<1>3. Fold = Step(Fold)
  <2> HIDE DEF Step
  <2> QED
    BY <1>2
<1> HIDE DEF Fold
<1>4. ASSUME NEW s \in SUBSET S, s # {}
      PROVE  \E c \in s : Fold[s] = v[c] + Fold[s \ {c}]
  <2>1. (CHOOSE x \in s : TRUE) \in s
    BY <1>4
  <2>2. Fold[s] = v[CHOOSE x \in s : TRUE] + Fold[s \ {CHOOSE x \in s : TRUE}]
    BY <1>3, <1>4
  <2> QED
    BY <2>1, <2>2
<1>5. Fold[{}] = 0
  BY <1>3
<1>6. \A s \in SUBSET S : s # {} => \E c \in s : Fold[s] = v[c] + Fold[s \ {c}]
  BY <1>4
<1>7. Fold[S] = g[S]
  <2>1. PICK f : f = Fold
    OBVIOUS
  <2>2. Folded(f, v, S)
    BY <1>5, <1>6, <2>1 DEF Folded
  <2>3. f[S] = g[S]
    BY <2>2, SumsUnique
  <2> QED
    BY <2>1, <2>3
<1> QED
  BY <1>1, <1>7

\* The sums of a set are those of its subsets.
LEMMA AdditiveWithin ==
    ASSUME NEW S, NEW v, NEW g, Additive(g, v, S), NEW T \in SUBSET S
    PROVE  \E h : Additive(h, v, T) /\ h[T] = g[T]
<1> DEFINE h == [U \in SUBSET T |-> g[U]]
<1>1. Additive(h, v, T) /\ h[T] = g[T]
  BY DEF Additive
<1> QED
  BY <1>1

\* Sums of rows are integers.
LEMMA TotalInt ==
    ASSUME NEW S, IsFiniteSet(S), \A r \in S : r.amount \in Int
    PROVE  Total(S) \in Int
<1> DEFINE v == [r \in S |-> r.amount]
<1>1. PICK g : Additive(g, v, S)
  BY AdditiveExists
<1>2. Total(S) = g[S]
  BY <1>1, TotalsOf
<1> QED
  BY <1>1, <1>2 DEF Additive

\* And so are those of values.
LEMMA ValuesInt ==
    ASSUME NEW S, IsFiniteSet(S), NEW v, \A x \in S : v[x] \in Int
    PROVE  ValuesSum(v, S) \in Int
<1>1. PICK g : Additive(g, v, S)
  BY AdditiveExists
<1>2. ValuesSum(v, S) = g[S]
  BY <1>1, ValuesOf
<1> QED
  BY <1>1, <1>2 DEF Additive

\* A sum of naturals is one.
LEMMA SumsGrow ==
    ASSUME NEW S, IsFiniteSet(S), NEW v, \A x \in S : v[x] \in Nat, NEW g, Additive(g, v, S)
    PROVE  g[S] \in Nat
<1> DEFINE Bad == {T \in SUBSET S : g[T] \notin Nat}
<1>1. ASSUME Bad # {}
      PROVE  FALSE
  <2>1. PICK T \in Bad : \A U \in SUBSET T : U # T => U \notin Bad
    <3> HIDE DEF Bad
    <3>1. Bad \subseteq SUBSET S
      BY DEF Bad
    <3> QED
      BY <1>1, <3>1, LeastSet
  <2>2. T # {}
    <3>1. g[{}] = 0 /\ 0 \in Nat
      BY DEF Additive
    <3>2. g[T] \notin Nat
      OBVIOUS
    <3> QED
      BY <3>1, <3>2
  <2>3. PICK c \in T : g[T] = v[c] + g[T \ {c}]
    BY <2>2 DEF Additive
  <2>4. g[T \ {c}] \in Nat
    BY <2>1
  <2> QED
    BY <2>3, <2>4
<1> QED
  BY <1>1

\* Sums of disjoint sets add up.
LEMMA AdditiveUnion ==
    ASSUME NEW S, IsFiniteSet(S), NEW v, NEW g, Additive(g, v, S),
           NEW A \in SUBSET S, NEW B \in SUBSET S, A \cap B = {}
    PROVE  g[A \union B] = g[A] + g[B]
<1> DEFINE Bad == {T \in SUBSET S : A \cap T = {} /\ g[A \union T] # g[A] + g[T]}
<1>1. ASSUME Bad # {}
      PROVE  FALSE
  <2>1. PICK T \in Bad : \A U \in SUBSET T : U # T => U \notin Bad
    <3> HIDE DEF Bad
    <3>1. Bad \subseteq SUBSET S
      BY DEF Bad
    <3> QED
      BY <1>1, <3>1, LeastSet
  <2>2. g \in [SUBSET S -> Int] /\ g[{}] = 0
    BY DEF Additive
  <2>3. T # {}
    <3>1. A \union {} = A /\ g[A] \in Int
      BY <2>2
    <3>2. g[A \union {}] = g[A] + g[{}]
      BY <2>2, <3>1
    <3> QED
      BY <2>1, <3>2
  <2>4. PICK c \in T : TRUE
    BY <2>3
  <2> DEFINE U == T \ {c}
  <2>5. /\ U \in SUBSET T /\ U # T /\ U \in SUBSET S /\ A \cap U = {}
        /\ (A \union T) \ {c} = A \union U /\ c \in A \union T /\ A \union T \in SUBSET S
        /\ A \union U \in SUBSET S /\ c \in S
    BY <2>4
  <2>6. g[A \union U] = g[A] + g[U]
    BY <2>1, <2>5
  <2>7. g[A \union T] = v[c] + g[A \union U]
    <3>1. \A V \in SUBSET S : \A x \in V : g[V] = v[x] + g[V \ {x}]
      BY DEF Additive
    <3>2. g[A \union T] = v[c] + g[(A \union T) \ {c}]
      BY <2>5, <3>1
    <3> HIDE DEF U
    <3> QED
      BY <2>5, <3>2
  <2>8. g[T] = v[c] + g[U]
    BY <2>4 DEF Additive
  <2>9. v[c] \in Int /\ g[A] \in Int /\ g[U] \in Int
    BY <2>2, <2>5 DEF Additive
  <2> HIDE DEF U
  <2>10. g[A \union T] = g[A] + g[T]
    BY <2>6, <2>7, <2>8, <2>9
  <2> QED
    BY <2>1, <2>10
<1> QED
  BY <1>1

\* Nothing added up is nothing.
LEMMA NothingAdds ==
    ASSUME NEW S, IsFiniteSet(S), NEW v, NEW g, Additive(g, v, S), \A x \in S : v[x] = 0
    PROVE  g[S] = 0
<1> DEFINE f == [T \in SUBSET S |-> 0]
<1>1. ASSUME NEW s \in SUBSET S, s # {}
      PROVE  \E c \in s : f[s] = v[c] + f[s \ {c}]
  <2>1. PICK c \in s : TRUE
    BY <1>1
  <2>2. v[c] = 0 /\ s \ {c} \in SUBSET S
    BY <2>1
  <2>3. f[s] = v[c] + f[s \ {c}]
    BY <2>2
  <2> QED
    BY <2>1, <2>3
<1>2. f[{}] = 0 /\ f[S] = 0
  OBVIOUS
<1>3. Folded(f, v, S)
  BY <1>1, <1>2 DEF Folded
<1> HIDE DEF f
<1>4. f[S] = g[S]
  BY <1>3, SumsUnique
<1> QED
  BY <1>2, <1>4

\* What naturals add up to grows with the set.
LEMMA MoreAddsMore ==
    ASSUME NEW S, IsFiniteSet(S), NEW v, NEW g, Additive(g, v, S), \A x \in S : v[x] \in Nat,
           NEW B \in SUBSET S, NEW A \in SUBSET B
    PROVE  g[A] <= g[B] /\ g[A] \in Int /\ g[B] \in Int
<1>1. PICK D : D = B \ A
  OBVIOUS
<1>2. D \in SUBSET S /\ A \in SUBSET S /\ A \cap D = {} /\ A \union D = B /\ IsFiniteSet(D)
  BY <1>1, FS_Subset
<1>3. g[A \union D] = g[A] + g[D]
  BY <1>2, AdditiveUnion
<1>4. PICK h : Additive(h, v, D) /\ h[D] = g[D]
  BY <1>2, AdditiveWithin
<1>5. h[D] \in Nat
  <2>1. \A x \in D : v[x] \in Nat
    BY <1>2
  <2> QED
    BY <1>2, <1>4, <2>1, SumsGrow
<1>6. g[A] \in Int /\ g[B] \in Int /\ g[D] \in Int
  BY <1>2 DEF Additive
<1>7. g[B] = g[A] + g[D]
  BY <1>2, <1>3
<1> QED
  BY ONLY <1>4, <1>5, <1>6, <1>7

\* g holds the totals of the subsets of a set of rows.
Totalled(g, S) ==
    /\ Additive(g, [r \in S |-> r.amount], S)
    /\ \A T \in SUBSET S : g[T] = Total(T)

LEMMA TotalsExist ==
    ASSUME NEW S, IsFiniteSet(S), \A r \in S : r.amount \in Int
    PROVE  \E g : Totalled(g, S)
<1>1. PICK v : v = [r \in S |-> r.amount]
  OBVIOUS
<1>2. PICK g : Additive(g, v, S)
  BY <1>1, AdditiveExists
<1>3. ASSUME NEW T \in SUBSET S
      PROVE  Total(T) = g[T]
  <2>1. IsFiniteSet(T) /\ \A r \in T : v[r] = r.amount
    BY <1>1, FS_Subset
  <2>2. PICK h : Additive(h, v, T) /\ h[T] = g[T]
    BY <1>2, AdditiveWithin
  <2> QED
    BY <2>1, <2>2, TotalsOf
<1> QED
  BY <1>1, <1>2, <1>3 DEF Totalled

\* Totals of naturals are naturals.
LEMMA TotalNat ==
    ASSUME NEW S, IsFiniteSet(S), \A r \in S : r.amount \in Nat
    PROVE  Total(S) \in Nat
<1>1. PICK v : v = [r \in S |-> r.amount]
  OBVIOUS
<1>2. PICK g : Additive(g, v, S) /\ g[S] = Total(S)
  BY <1>1, TotalsExist DEF Totalled
<1>3. \A r \in S : v[r] \in Nat
  BY <1>1
<1> QED
  BY <1>2, <1>3, SumsGrow

\* A total of a part is never more than that of the whole, and as much where the
\* rest is nothing.
LEMMA TotalOfPart ==
    ASSUME NEW S, IsFiniteSet(S), \A r \in S : r.amount \in Nat, NEW T \in SUBSET S
    PROVE  /\ Total(T) <= Total(S) /\ Total(T) \in Int /\ Total(S) \in Int
           /\ (\A r \in S \ T : r.amount = 0) => Total(T) = Total(S)
<1>1. PICK v : v = [r \in S |-> r.amount]
  OBVIOUS
<1>2. PICK g : Additive(g, v, S) /\ \A U \in SUBSET S : g[U] = Total(U)
  BY <1>1, TotalsExist DEF Totalled
<1>3. \A x \in S : v[x] \in Nat
  BY <1>1
<1>4. g[T] <= g[S] /\ g[T] \in Int /\ g[S] \in Int
  BY <1>2, <1>3, MoreAddsMore
<1>5. ASSUME \A r \in S \ T : r.amount = 0
      PROVE  g[T] = g[S]
  <2>1. PICK D : D = S \ T
    OBVIOUS
  <2>2. D \in SUBSET S /\ T \cap D = {} /\ T \union D = S /\ IsFiniteSet(D)
    BY <2>1, FS_Subset
  <2>3. g[T \union D] = g[T] + g[D]
    BY <1>2, <2>2, AdditiveUnion
  <2>4. PICK h : Additive(h, v, D) /\ h[D] = g[D]
    BY <1>2, <2>2, AdditiveWithin
  <2>5. \A x \in D : v[x] = 0
    BY <1>1, <1>5, <2>1
  <2>6. h[D] = 0
    BY <2>2, <2>4, <2>5, NothingAdds
  <2>7. g[S] = g[T] + g[D] /\ g[D] = 0
    BY <2>2, <2>3, <2>4, <2>6
  <2> QED
    BY ONLY <1>4, <2>7
<1> QED
  BY <1>2, <1>4, <1>5

\* The total of one row.
LEMMA TotalOfOne ==
    ASSUME NEW r, r.amount \in Int
    PROVE  Total({r}) = r.amount
<1>1. PICK S : S = {r}
  OBVIOUS
<1>2. IsFiniteSet(S) /\ \A x \in S : x.amount \in Int
  BY <1>1, FS_Singleton
<1>3. PICK g : Totalled(g, S)
  BY <1>2, TotalsExist
<1>4. PICK v : v = [x \in S |-> x.amount]
  OBVIOUS
<1>5. Additive(g, v, S) /\ g[S] = Total(S)
  BY <1>3, <1>4 DEF Totalled
<1>6. r \in S /\ S \ {r} = {} /\ v[r] = r.amount /\ S \in SUBSET S
  BY <1>1, <1>4
<1>7. g[S] = v[r] + g[S \ {r}] /\ g[{}] = 0
  BY <1>5, <1>6 DEF Additive
<1>8. Total(S) = r.amount
  BY <1>5, <1>6, <1>7
<1> QED
  BY <1>1, <1>8

------------------------------------------------------------------------------
(* Sums by group.                                                          *)

\* w holds the sums of the groups of S, which C numbers.
Grouped(S, group, C, g, w) ==
    /\ \A x \in S : group[x] \in C
    /\ \A c \in C : w[c] = g[{x \in S : group[x] = c}]

\* Adding up by category first comes to the same.
LEMMA SumByGroup ==
    ASSUME NEW S, IsFiniteSet(S), NEW v, NEW g, Additive(g, v, S),
           NEW group, NEW C, NEW w, Grouped(S, group, C, g, w)
    PROVE  \E h : Additive(h, w, C) /\ h[C] = g[S]
<1> USE DEF Grouped
<1> DEFINE Of(D) == {x \in S : group[x] \in D}
           h == [D \in SUBSET C |-> g[Of(D)]]
<1>1. g \in [SUBSET S -> Int] /\ g[{}] = 0
  BY DEF Additive
<1>2. \A D \in SUBSET C : Of(D) \in SUBSET S /\ h[D] = g[Of(D)] /\ h[D] \in Int
  BY <1>1
<1>3. h \in [SUBSET C -> Int]
  BY <1>2
<1>4. Of({}) = {} /\ Of(C) = S
  OBVIOUS
<1>5. ASSUME NEW D \in SUBSET C, NEW c \in D
      PROVE  h[D] = w[c] + h[D \ {c}]
  <2>1. D \ {c} \in SUBSET C /\ c \in C
    OBVIOUS
  <2>2. w[c] = g[{x \in S : group[x] = c}]
    BY <2>1
  <2> DEFINE own == {x \in S : group[x] = c}
  <2>3. own \in SUBSET S /\ Of(D \ {c}) \in SUBSET S /\ own \cap Of(D \ {c}) = {}
        /\ own \union Of(D \ {c}) = Of(D)
    OBVIOUS
  <2> HIDE DEF own, Of
  <2>4. g[own \union Of(D \ {c})] = g[own] + g[Of(D \ {c})]
    <3>1. ASSUME NEW A \in SUBSET S, NEW B \in SUBSET S, A \cap B = {}
          PROVE  g[A \union B] = g[A] + g[B]
      BY <3>1, AdditiveUnion
    <3> QED
      BY <2>3, <3>1
  <2>5. w[c] = g[own]
    BY <2>2 DEF own
  <2> QED
    BY <1>2, <2>1, <2>3, <2>4, <2>5
<1> HIDE DEF h, Of
<1>6. Additive(h, w, C) /\ h[C] = g[S]
  BY <1>1, <1>2, <1>3, <1>4, <1>5 DEF Additive
<1> QED
  BY <1>6

\* C holds a row for each group of S, whose amount is the total of the group.
Gathers(group, C, S) ==
    /\ \A x \in S : group[x] \in C
    /\ \A c \in C : c.amount = Total({x \in S : group[x] = c})

\* Rows and their groups have the same total.
LEMMA TotalGathered ==
    ASSUME NEW S, IsFiniteSet(S), \A r \in S : r.amount \in Int,
           NEW C, IsFiniteSet(C), NEW group, Gathers(group, C, S)
    PROVE  Total(C) = Total(S)
<1>1. PICK g : Totalled(g, S)
  BY TotalsExist
<1>2. PICK v, w : v = [r \in S |-> r.amount] /\ w = [c \in C |-> c.amount]
  OBVIOUS
<1>3. Additive(g, v, S) /\ \A T \in SUBSET S : g[T] = Total(T)
  BY <1>1, <1>2 DEF Totalled
<1>4. Grouped(S, group, C, g, w)
  BY <1>2, <1>3 DEF Grouped, Gathers
<1>5. PICK h : Additive(h, w, C) /\ h[C] = g[S]
  BY <1>3, <1>4, SumByGroup
<1>6. Total(C) = h[C]
  BY <1>2, <1>5, TotalsOf
<1> QED
  BY <1>3, <1>5, <1>6

\* The values of a function gather a set as its rows do.
Weighs(w, group, C, S) ==
    /\ \A x \in S : group[x] \in C
    /\ \A c \in C : w[c] = Total({x \in S : group[x] = c})

LEMMA ValuesGathered ==
    ASSUME NEW S, IsFiniteSet(S), \A r \in S : r.amount \in Int,
           NEW C, IsFiniteSet(C), NEW group, NEW w, Weighs(w, group, C, S)
    PROVE  ValuesSum(w, C) = Total(S)
<1>1. PICK g, v : Additive(g, v, S) /\ \A T \in SUBSET S : g[T] = Total(T)
  BY TotalsExist DEF Totalled
<1>2. Grouped(S, group, C, g, w)
  BY <1>1 DEF Grouped, Weighs
<1>3. PICK h : Additive(h, w, C) /\ h[C] = g[S]
  BY <1>1, <1>2, SumByGroup
<1>4. ValuesSum(w, C) = h[C]
  BY <1>3, ValuesOf
<1> QED
  BY <1>1, <1>3, <1>4

------------------------------------------------------------------------------
(* Rows stand for their transactions.                                      *)

\* The rows that stand for some transactions.
RowsOf(T) == UNION {Allocations(t) : t \in T}

\* The rows of a transaction are finitely many and have amounts.
LEMMA AllocationsFit ==
    ASSUME NEW t, t.amount \in Int, IsFiniteSet(t.splits), \A s \in t.splits : s.amount \in Int
    PROVE  IsFiniteSet(Allocations(t)) /\ \A r \in Allocations(t) : r.amount \in Int
<1>1. CASE ActiveSplits(t) = {}
  <2>1. PICK row : /\ row.amount = t.amount
                   /\ row = [transaction |-> t.id, split |-> None, currency |-> t.currency,
                             category |-> t.category, amount |-> t.amount]
    OBVIOUS
  <2>2. Allocations(t) = {row}
    BY <1>1, <2>1 DEF Allocations
  <2>3. IsFiniteSet({row})
    BY FS_Singleton
  <2> QED
    BY <2>1, <2>2, <2>3
<1>2. CASE ActiveSplits(t) # {}
  <2> DEFINE Row(s) == [transaction |-> t.id, split |-> s.id, currency |-> t.currency,
                        category |-> s.category, amount |-> s.amount]
             rows == {Row(s) : s \in ActiveSplits(t)}
             f == [s \in ActiveSplits(t) |-> Row(s)]
  <2>1. Allocations(t) = rows
    BY <1>2 DEF Allocations
  <2>2. ActiveSplits(t) \in SUBSET t.splits
    BY DEF ActiveSplits
  <2>3. f \in Surjection(ActiveSplits(t), rows)
    BY DEF Surjection
  <2>4. \A r \in rows : r.amount \in Int
    BY <2>2
  <2> HIDE DEF f, rows
  <2>5. IsFiniteSet(ActiveSplits(t))
    BY <2>2, FS_Subset
  <2>6. IsFiniteSet(rows)
    BY <2>3, <2>5, FS_Surjection
  <2> QED
    BY <2>1, <2>4, <2>6
<1> QED
  BY <1>1, <1>2

\* Transactions whose amounts are integers.
RowsFitIn(T) ==
    \A t \in T : /\ t.amount \in Int /\ IsFiniteSet(t.splits)
                 /\ \A s \in t.splits : s.amount \in Int

\* And so are those of finitely many transactions.
LEMMA RowsFit ==
    ASSUME NEW T, IsFiniteSet(T), RowsFitIn(T)
    PROVE  IsFiniteSet(RowsOf(T)) /\ \A r \in RowsOf(T) : r.amount \in Int
<1> DEFINE of == {Allocations(t) : t \in T}
           f == [t \in T |-> Allocations(t)]
<1>1. ASSUME NEW t \in T
      PROVE  IsFiniteSet(Allocations(t)) /\ \A r \in Allocations(t) : r.amount \in Int
  BY AllocationsFit DEF RowsFitIn
<1>2. f \in Surjection(T, of)
  BY DEF Surjection
<1>3. \A A \in of : IsFiniteSet(A)
  BY <1>1
<1>4. \A r \in UNION of : r.amount \in Int
  BY <1>1
<1>5. RowsOf(T) = UNION of
  BY DEF RowsOf
<1> HIDE DEF of, f
<1>6. IsFiniteSet(of)
  BY <1>2, FS_Surjection
<1>7. IsFiniteSet(UNION of)
  BY <1>3, <1>6, FS_UNION
<1> QED
  BY <1>4, <1>5, <1>7

\* The rows of a transaction add up to it.
LEMMA AllocationsAddUp ==
    ASSUME NEW T, Whole(T), NEW t \in T
    PROVE  Total(Allocations(t)) = t.amount
<1>1. /\ t.amount \in Nat /\ IsFiniteSet(t.splits) /\ Keyed(t.splits)
      /\ \A s \in t.splits : s.amount \in Nat
      /\ ActiveSplits(t) # {} => Total(ActiveSplits(t)) = t.amount
  BY DEF Whole
<1>2. CASE ActiveSplits(t) = {}
  <2>1. PICK row : /\ row.amount = t.amount
                   /\ row = [transaction |-> t.id, split |-> None, currency |-> t.currency,
                             category |-> t.category, amount |-> t.amount]
    OBVIOUS
  <2>2. Allocations(t) = {row}
    BY <1>2, <2>1 DEF Allocations
  <2> QED
    BY <1>1, <2>1, <2>2, TotalOfOne
<1>3. CASE ActiveSplits(t) # {}
  <2> DEFINE Row(s) == [transaction |-> t.id, split |-> s.id, currency |-> t.currency,
                        category |-> s.category, amount |-> s.amount]
  <2>1. PICK S, C, row : /\ S = ActiveSplits(t) /\ C = Allocations(t)
                         /\ row = [s \in S |-> Row(s)]
    OBVIOUS
  <2>2. S \in SUBSET t.splits
    BY <2>1 DEF ActiveSplits
  <2>3. IsFiniteSet(S) /\ \A s \in S : s.amount \in Nat
    BY <1>1, <2>2, FS_Subset
  <2>4. IsFiniteSet(C) /\ \A r \in C : r.amount \in Int
    BY <1>1, <2>1, AllocationsFit
  <2>5. C = {Row(s) : s \in S}
    BY <1>3, <2>1 DEF Allocations
  <2>6. ASSUME NEW s \in S
        PROVE  /\ row[s] \in C /\ row[s].amount = s.amount
               /\ {x \in S : row[x] = row[s]} = {s}
    <3>1. ASSUME NEW x \in S, row[x] = row[s]
          PROVE  x = s
      <4>1. row[x].split = x.id /\ row[s].split = s.id
        BY <2>1
      <4>2. x.id = s.id
        BY <3>1, <4>1
      <4> QED
        BY <1>1, <2>2, <4>2 DEF Keyed
    <3>2. row[s] \in C /\ row[s].amount = s.amount
      BY <2>1, <2>5
    <3> QED
      BY <3>1, <3>2
  <2>7. ASSUME NEW c \in C
        PROVE  c.amount = Total({x \in S : row[x] = c})
    <3>1. PICK s \in S : c = row[s]
      BY <2>1, <2>5
    <3>2. {x \in S : row[x] = c} = {s} /\ c.amount = s.amount /\ s.amount \in Int
      BY <2>3, <2>6, <3>1
    <3> QED
      BY <3>2, TotalOfOne
  <2>8. Gathers(row, C, S)
    BY <2>6, <2>7 DEF Gathers
  <2>9. Total(C) = Total(S)
    BY <2>3, <2>4, <2>8, TotalGathered
  <2> QED
    BY <1>1, <1>3, <2>1, <2>9
<1> QED
  BY <1>2, <1>3

\* A row knows its transaction.
LEMMA RowOf ==
    ASSUME NEW t, NEW r \in Allocations(t)
    PROVE  r.transaction = t.id /\ r.currency = t.currency
  BY DEF Allocations

\* Rows of whole transactions.
LEMMA WholeRows ==
    ASSUME NEW T, Whole(T)
    PROVE  IsFiniteSet(RowsOf(T)) /\ \A r \in RowsOf(T) : r.amount \in Nat
<1>1. IsFiniteSet(RowsOf(T))
  <2>1. IsFiniteSet(T) /\ RowsFitIn(T)
    BY DEF Whole, RowsFitIn
  <2> QED
    BY <2>1, RowsFit
<1>2. ASSUME NEW t \in T, NEW r \in Allocations(t)
      PROVE  r.amount \in Nat
  <2>1. t.amount \in Nat /\ \A s \in ActiveSplits(t) : s.amount \in Nat
    BY DEF Whole, ActiveSplits
  <2>2. r.amount = t.amount \/ \E s \in ActiveSplits(t) : r.amount = s.amount
    BY DEF Allocations
  <2> QED
    BY <2>1, <2>2
<1> QED
  BY <1>1, <1>2 DEF RowsOf

\* The rows that stand for transactions add up to them.
LEMMA RowsAddUp ==
    ASSUME NEW T, Whole(T)
    PROVE  Total(RowsOf(T)) = Total(T)
<1>1. PICK S, of : /\ S = RowsOf(T)
                   /\ of = [r \in S |-> CHOOSE t \in T : t.id = r.transaction]
  OBVIOUS
<1>2. IsFiniteSet(S) /\ \A r \in S : r.amount \in Int
  BY <1>1, WholeRows
<1>3. ASSUME NEW t \in T, NEW r \in Allocations(t)
      PROVE  r \in S /\ of[r] = t
  <2>1. r \in S
    BY <1>1 DEF RowsOf
  <2>2. \A u \in T : u.id = r.transaction <=> u = t
    BY RowOf DEF Whole, Keyed
  <2> QED
    BY <1>1, <2>1, <2>2
<1>4. ASSUME NEW t \in T
      PROVE  t.amount = Total({r \in S : of[r] = t})
  <2>1. {r \in S : of[r] = t} = Allocations(t)
    <3>1. ASSUME NEW r \in S, of[r] = t
          PROVE  r \in Allocations(t)
      <4>1. PICK u \in T : r \in Allocations(u)
        BY <1>1 DEF RowsOf
      <4> QED
        BY <1>3, <3>1, <4>1
    <3> QED
      BY <1>3, <3>1
  <2> QED
    BY <2>1, AllocationsAddUp
<1>5. ASSUME NEW r \in S
      PROVE  of[r] \in T
  <2>1. PICK t \in T : r \in Allocations(t)
    BY <1>1 DEF RowsOf
  <2> QED
    BY <1>3, <2>1
<1>6. Gathers(of, T, S)
  BY <1>4, <1>5 DEF Gathers
<1>7. IsFiniteSet(T)
  BY DEF Whole
<1>8. Total(T) = Total(S)
  BY <1>2, <1>6, <1>7, TotalGathered
<1> QED
  BY <1>1, <1>8

\* Part of a whole ledger is one.
LEMMA WholePart ==
    ASSUME NEW l, Whole(l), NEW T \in SUBSET l
    PROVE  Whole(T)
<1>1. IsFiniteSet(T)
  BY FS_Subset DEF Whole
<1>2. Keyed(T)
  BY DEF Whole, Keyed
<1> QED
  BY <1>1, <1>2 DEF Whole

------------------------------------------------------------------------------
(* Spending is the outflow.                                                *)

\* The debits of a currency in a scope.
Debits(l, currency, scope) ==
    {u \in l : Within(u, scope) /\ Counted(u) /\ u.direction = "debit" /\ u.currency = currency}

\* What is spent in a currency.
SpentOf(l, scope, currency) == Total({t \in Expenses(l, scope) : t.currency = currency})

LEMMA DebitsAreExpenses ==
    ASSUME NEW l, NEW currency, NEW scope
    PROVE  Debits(l, currency, scope) = {t \in Expenses(l, scope) : t.currency = currency}
  BY DEF Debits, Expenses

\* By category and in total, spending is that of the debits.
LEMMA SpendingTotal ==
    ASSUME NEW l, Whole(l), NEW currency, NEW scope
    PROVE  ExpenseSpending(l, currency, scope).total = SpentOf(l, scope, currency)
<1> DEFINE C == {r.category : r \in RowsOf(Debits(l, currency, scope))}
           by == [c \in C |-> Total({r \in RowsOf(Debits(l, currency, scope)) : r.category = c})]
<1>1. ExpenseSpending(l, currency, scope).total = ValuesSum(by, C)
  BY DEF ExpenseSpending, RowsOf, Debits
<1>2. PICK T, rows : T = Debits(l, currency, scope) /\ rows = RowsOf(T)
  OBVIOUS
<1>3. Whole(T)
  <2>1. T \in SUBSET l
    BY <1>2 DEF Debits
  <2> QED
    BY <2>1, WholePart
<1>4. IsFiniteSet(rows) /\ \A r \in rows : r.amount \in Int
  BY <1>2, <1>3, WholeRows
<1>5. PICK group : group = [r \in rows |-> r.category]
  OBVIOUS
<1>6. group \in Surjection(rows, C) /\ Weighs(by, group, C, rows)
  <2>1. ASSUME NEW c \in C
        PROVE  by[c] = Total({r \in rows : group[r] = c})
    <3>1. {r \in rows : group[r] = c} = {r \in rows : r.category = c}
      BY <1>5
    <3> QED
      BY <1>2, <3>1
  <2> QED
    BY <1>2, <1>5, <2>1 DEF Surjection, Weighs
<1>7. IsFiniteSet(C)
  BY <1>4, <1>6, FS_Surjection
<1> HIDE DEF by, C
<1>8. ValuesSum(by, C) = Total(rows)
  BY <1>4, <1>6, <1>7, ValuesGathered
<1>9. Total(rows) = Total(T)
  BY <1>2, <1>3, RowsAddUp
<1> QED
  BY <1>1, <1>2, <1>8, <1>9, DebitsAreExpenses DEF SpentOf

------------------------------------------------------------------------------
(* The largest of a set.                                                   *)

\* Rows fall by amount, and those of one amount as they are numbered.
FallingPairs(S, place) ==
    {p \in S \X S : \/ p[1].amount > p[2].amount
                    \/ p[1].amount = p[2].amount /\ place[p[1]] < place[p[2]]}

LEMMA FallingOrder ==
    ASSUME NEW S, \A r \in S : r.amount \in Int,
           NEW place \in [S -> Nat], IsInjective(place)
    PROVE  StrictOrder(S, FallingPairs(S, place))
<1>1. \A s, t \in S : <<s, t>> \in FallingPairs(S, place)
          <=> s.amount > t.amount \/ (s.amount = t.amount /\ place[s] < place[t])
  BY DEF FallingPairs
<1>2. \A s, t \in S : s # t => place[s] # place[t]
  BY DEF IsInjective
<1>3. \A s \in S : place[s] \in Nat
  OBVIOUS
<1> QED
  BY <1>1, <1>2, <1>3 DEF StrictOrder

\* So a finite set can be put in that order.
LEMMA RankingExists ==
    ASSUME NEW S, IsFiniteSet(S), \A r \in S : r.amount \in Int
    PROVE  \E s \in [1..Cardinality(S) -> S] : IsInjective(s) /\ Falls(s)
<1>1. PICK n \in Nat : n = Cardinality(S)
  BY FS_CardinalityType
<1>2. PICK f : f \in Bijection(1..n, S)
  BY <1>1, FS_CardinalityType DEF ExistsBijection
<1>3. PICK place : place = [t \in S |-> CHOOSE i \in 1..n : f[i] = t]
  OBVIOUS
<1>4. ASSUME NEW t \in S
      PROVE  place[t] \in 1..n /\ f[place[t]] = t
  <2>1. \E i \in 1..n : f[i] = t
    BY <1>2 DEF Bijection, Surjection
  <2> QED
    BY <1>3, <2>1
<1>5. place \in [S -> Nat] /\ IsInjective(place)
  BY <1>3, <1>4 DEF IsInjective
<1>6. PICK R : R = FallingPairs(S, place)
  OBVIOUS
<1>7. StrictOrder(S, R)
  BY <1>5, <1>6, FallingOrder
<1> DEFINE s == [i \in 1..n |-> CHOOSE t \in S : Rank(S, R, t) = i - 1]
<1>8. ASSUME NEW i \in 1..Cardinality(S), \E t \in S : Rank(S, R, t) = i - 1
      PROVE  s[i] \in S /\ Rank(S, R, s[i]) = i - 1
  BY <1>1, <1>8
<1>9. DOMAIN s = 1..n /\ s = [i \in 1..n |-> s[i]]
  OBVIOUS
<1> HIDE DEF s
<1>10. Lists(s, S, R)
  BY <1>7, <1>8, InOrder
<1>11. s \in [1..n -> S]
  BY <1>1, <1>9, <1>10 DEF Lists
<1>12. \A i, j \in 1..n : i < j => <<s[i], s[j]>> \in R
  BY <1>1, <1>10 DEF Lists
<1>13. IsInjective(s)
  <2>1. ASSUME NEW i \in 1..n, NEW j \in 1..n, s[i] = s[j]
        PROVE  i = j
    <3>1. <<s[i], s[i]>> \notin R /\ s[i] \in S
      BY <1>7, <1>11 DEF StrictOrder
    <3>2. ~ (i < j) /\ ~ (j < i)
      BY <1>12, <2>1, <3>1
    <3> QED
      BY <3>2
  <2> QED
    BY <1>9, <2>1 DEF IsInjective
<1>14. Falls(s)
  <2>1. ASSUME NEW i \in 1..n, NEW j \in 1..n, i < j
        PROVE  s[i].amount >= s[j].amount
    <3>1. s[i] \in S /\ s[j] \in S /\ <<s[i], s[j]>> \in R
      BY <1>11, <1>12, <2>1
    <3> QED
      BY <1>6, <3>1 DEF FallingPairs
  <2> QED
    BY <1>9, <2>1 DEF Falls
<1> QED
  BY <1>1, <1>11, <1>13, <1>14

\* The largest of a set are a list of some of it, and of all if there are no more.
LEMMA LargestListed ==
    ASSUME NEW S, IsFiniteSet(S), \A r \in S : r.amount \in Int, NEW n \in Nat
    PROVE  LET shown == Largest(S, n)
           IN /\ shown \in Seq(S) /\ IsInjective(shown) /\ ToSet(shown) \subseteq S
              /\ Len(shown) = IF Cardinality(S) <= n THEN Cardinality(S) ELSE n
              /\ Cardinality(S) <= n => ToSet(shown) = S
<1>1. PICK k \in Nat : k = Cardinality(S)
  BY FS_CardinalityType
<1> DEFINE ranked == CHOOSE s \in [1..Cardinality(S) -> S] : IsInjective(s) /\ Falls(s)
<1>2. PICK s \in [1..k -> S] : IsInjective(s) /\ s = ranked
  BY <1>1, RankingExists
<1>3. PICK m \in Nat : m = Min({n, k}) /\ m <= k /\ m = IF k <= n THEN k ELSE n
  BY LesserOf
<1>4. Largest(S, n) = SubSeq(s, 1, m)
  BY <1>1, <1>2, <1>3 DEF Largest
<1> HIDE DEF ranked
<1>5. /\ SubSeq(s, 1, m) \in Seq(S) /\ Len(SubSeq(s, 1, m)) = m
      /\ \A i \in 1..m : SubSeq(s, 1, m)[i] = s[i]
  <2>1. \A i \in 1..m : s[i] \in S
    BY <1>3
  <2>2. /\ SubSeq(s, 1, m) \in Seq(S)
        /\ Len(SubSeq(s, 1, m)) = IF 1 <= m THEN m - 1 + 1 ELSE 0
        /\ \A i \in 1..(m - 1 + 1) : SubSeq(s, 1, m)[i] = s[1 + i - 1]
    BY <2>1, SubSeqProperties
  <2> QED
    BY <2>2
<1>6. PICK shown : shown = SubSeq(s, 1, m)
  OBVIOUS
<1>7. DOMAIN shown = 1..m /\ \A i \in 1..m : shown[i] = s[i]
  BY <1>5, <1>6
<1>8. ToSet(shown) = {s[i] : i \in 1..m}
  BY <1>7 DEF ToSet
<1>9. ToSet(shown) \subseteq S
  BY <1>3, <1>8
<1>11. IsInjective(shown)
  <2>1. ASSUME NEW i \in 1..m, NEW j \in 1..m, shown[i] = shown[j]
        PROVE  i = j
    <3>1. i \in 1..k /\ j \in 1..k
      BY <1>3
    <3>2. s[i] = s[j]
      BY <1>7, <2>1
    <3> QED
      BY <1>2, <3>1, <3>2 DEF IsInjective
  <2> QED
    BY <1>7, <2>1 DEF IsInjective
<1>10. ASSUME k <= n
       PROVE  ToSet(shown) = S
  <2>1. s \in Surjection(1..k, S)
    <3>1. s \in Injection(1..k, S)
      BY <1>2 DEF Injection
    <3>2. Cardinality(1..k) = k
      BY FS_Interval
    <3> QED
      BY <1>1, <3>1, <3>2, FS_Injection
  <2>2. m = k
    BY <1>3, <1>10
  <2> QED
    BY <1>8, <2>1, <2>2 DEF Surjection
<1> QED
  BY <1>1, <1>3, <1>4, <1>5, <1>6, <1>9, <1>10, <1>11

LEMMA LargestOf ==
    ASSUME NEW S, IsFiniteSet(S), \A r \in S : r.amount \in Int, NEW n \in Nat
    PROVE  /\ ToSet(Largest(S, n)) \subseteq S
           /\ Cardinality(S) <= n => ToSet(Largest(S, n)) = S
  BY LargestListed

------------------------------------------------------------------------------
(* Sets and sequences of sequences put in a row.                           *)

\* A finite set is listed, each element once.
LEMMA SetListed ==
    ASSUME NEW S, IsFiniteSet(S)
    PROVE  /\ SetToSeq(S) \in [1..Cardinality(S) -> S] /\ IsInjective(SetToSeq(S))
           /\ Cardinality(S) \in Nat
           /\ \A x \in S : \E i \in 1..Cardinality(S) : SetToSeq(S)[i] = x
<1>1. PICK n \in Nat : n = Cardinality(S)
  BY FS_CardinalityType
<1>2. PICK f : f \in Bijection(1..n, S)
  BY <1>1, FS_CardinalityType DEF ExistsBijection
<1>3. f \in [1..n -> S] /\ IsInjective(f)
  BY <1>2 DEF Bijection, Injection, IsInjective
<1>4. PICK s : s \in [1..n -> S] /\ IsInjective(s) /\ s = SetToSeq(S)
  BY <1>1, <1>3 DEF SetToSeq
<1>5. s \in Injection(1..n, S)
  BY <1>4 DEF Injection, IsInjective
<1>6. Cardinality(1..n) = n /\ IsFiniteSet(1..n)
  BY FS_Interval
<1>7. s \in Surjection(1..n, S)
  BY <1>1, <1>5, <1>6, FS_Injection
<1>8. \A x \in S : \E i \in 1..n : s[i] = x
  BY <1>7 DEF Surjection
<1> QED
  BY <1>1, <1>4, <1>8

\* Two lists in a row.
LEMMA Concats ==
    ASSUME NEW X, NEW a \in Seq(X), NEW b \in Seq(X)
    PROVE  /\ a \o b \in Seq(X) /\ ToSet(a \o b) = ToSet(a) \union ToSet(b)
           /\ IsInjective(a) /\ IsInjective(b) /\ ToSet(a) \intersect ToSet(b) = {}
              => IsInjective(a \o b)
<1>1. PICK c : c = a \o b
  OBVIOUS
<1>2. PICK m \in Nat, n \in Nat : m = Len(a) /\ n = Len(b)
  OBVIOUS
<1>3. /\ c \in Seq(X) /\ Len(c) = m + n
      /\ \A i \in 1..m : c[i] = a[i]
      /\ \A i \in 1..n : c[m + i] = b[i]
  BY <1>1, <1>2
<1>4. DOMAIN a = 1..m /\ DOMAIN b = 1..n /\ DOMAIN c = 1..(m + n)
  BY <1>2, <1>3
<1>5. \A i \in 1..(m + n) : i \in 1..m \/ (i - m \in 1..n /\ c[i] = b[i - m])
  BY <1>3
<1>6. ToSet(c) = ToSet(a) \union ToSet(b)
  <2>1. ASSUME NEW i \in 1..(m + n)
        PROVE  c[i] \in ToSet(a) \union ToSet(b)
    <3>1. CASE i \in 1..m
      <4>1. c[i] = a[i] /\ i \in DOMAIN a
        BY <1>3, <1>4, <3>1
      <4> QED
        BY <4>1 DEF ToSet
    <3>2. CASE i \notin 1..m
      <4>1. c[i] = b[i - m] /\ i - m \in DOMAIN b
        BY <1>4, <1>5, <2>1, <3>2
      <4> QED
        BY <4>1 DEF ToSet
    <3> QED
      BY <3>1, <3>2
  <2>2. \A i \in 1..m : a[i] \in ToSet(c)
    BY <1>3, <1>4 DEF ToSet
  <2>3. ASSUME NEW i \in 1..n
        PROVE  b[i] \in ToSet(c)
    <3>1. m + i \in DOMAIN c /\ c[m + i] = b[i]
      BY <1>3, <1>4
    <3> QED
      BY <3>1 DEF ToSet
  <2> QED
    BY <1>4, <2>1, <2>2, <2>3 DEF ToSet
<1>7. ASSUME IsInjective(a), IsInjective(b), ToSet(a) \intersect ToSet(b) = {}
      PROVE  IsInjective(c)
  <2>1. \A i \in 1..m, j \in 1..n : a[i] # b[j]
    BY <1>4, <1>7 DEF ToSet
  <2>2. ASSUME NEW i \in 1..(m + n), NEW j \in 1..(m + n), c[i] = c[j]
        PROVE  i = j
    <3>1. CASE i \in 1..m /\ j \in 1..m
      BY <1>3, <1>4, <1>7, <2>2, <3>1 DEF IsInjective
    <3>2. CASE i \in 1..m /\ j \notin 1..m
      BY <1>3, <1>5, <2>1, <2>2, <3>2
    <3>3. CASE i \notin 1..m /\ j \in 1..m
      BY <1>3, <1>5, <2>1, <2>2, <3>3
    <3>4. CASE i \notin 1..m /\ j \notin 1..m
      <4>1. i - m = j - m
        BY <1>4, <1>5, <1>7, <2>2, <3>4 DEF IsInjective
      <4> QED
        BY <4>1
    <3> QED
      BY <3>1, <3>2, <3>3, <3>4
  <2> QED
    BY <1>4, <2>2 DEF IsInjective
<1> QED
  BY <1>1, <1>3, <1>6, <1>7

\* What the lists of a sequence hold together, and whether they share anything.
AllOf(s, k) == UNION {ToSet(s[i]) : i \in 1..k}

Apart(s, k) ==
    /\ \A i \in 1..k : IsInjective(s[i])
    /\ \A i, j \in 1..k : i # j => ToSet(s[i]) \intersect ToSet(s[j]) = {}

\* What a list of some of them holds.
Holding(list, s, k) == ToSet(list) = AllOf(s, k) /\ (Apart(s, k) => IsInjective(list))

\* One list more.
LEMMA HeldNext ==
    ASSUME NEW X, NEW m \in Nat, NEW s \in [1..m -> Seq(X)], NEW k \in 1..m,
           NEW list \in Seq(X), Holding(list, s, k - 1)
    PROVE  Holding(list \o s[k], s, k)
<1>1. s[k] \in Seq(X)
  OBVIOUS
<1>2. 1..k = (1..(k - 1)) \union {k} /\ k \notin 1..(k - 1)
  OBVIOUS
<1>3. AllOf(s, k) = AllOf(s, k - 1) \union ToSet(s[k])
  BY <1>2 DEF AllOf
<1>4. ToSet(list \o s[k]) = AllOf(s, k)
  BY <1>1, <1>3, Concats DEF Holding
<1>5. ASSUME Apart(s, k)
      PROVE  IsInjective(list \o s[k])
  <2>1. Apart(s, k - 1)
    BY <1>2, <1>5 DEF Apart
  <2>2. /\ \A i \in 1..(k - 1) : ToSet(s[i]) \intersect ToSet(s[k]) = {}
        /\ IsInjective(s[k])
    BY <1>2, <1>5 DEF Apart
  <2>3. ToSet(list) \intersect ToSet(s[k]) = {}
    BY <2>2 DEF Holding, AllOf
  <2> QED
    BY <1>1, <2>1, <2>2, <2>3, Concats DEF Holding
<1> QED
  BY <1>4, <1>5 DEF Holding

\* Flattened, they are one list of what they hold.
LEMMA Flattened ==
    ASSUME NEW X, NEW m \in Nat, NEW s \in [1..m -> Seq(X)]
    PROVE  FlattenSeq(s) \in Seq(X) /\ Holding(FlattenSeq(s), s, m)
<1>1. s \in Seq(Seq(X)) /\ Len(s) = m
  OBVIOUS
<1>2. CASE m = 0
  <2>1. FlattenSeq(s) = s
    BY <1>1, <1>2 DEF FlattenSeq
  <2>2. s \in Seq(X) /\ DOMAIN s = {}
    BY <1>2
  <2>3. ToSet(s) = {} /\ IsInjective(s) /\ AllOf(s, 0) = {}
    BY <2>2 DEF ToSet, IsInjective, AllOf
  <2> QED
    BY <1>2, <2>1, <2>2, <2>3 DEF Holding
<1>3. CASE m # 0
  <2> DEFINE Step(f) == [i \in 1..m |-> IF i = 1 THEN s[i] ELSE f[i - 1] \o s[i]]
             flat == CHOOSE f : f = Step(f)
             step == [p \in Nat \X Seq(X) |-> IF p[1] \in 1..m THEN p[2] \o s[p[1]] ELSE p[2]]
  <2>1. FlattenSeq(s) = flat[m]
    BY <1>1, <1>3 DEF FlattenSeq
  <2>2. step \in [Nat \X Seq(X) -> Seq(X)] /\ <<>> \in Seq(X)
    OBVIOUS
  <2>3. PICK h \in [0..m -> Seq(X)] : RunOf(h, <<>>, step, m)
    <3> HIDE DEF step
    <3> QED
      BY <2>2, RunExists
  <2>4. h[0] = <<>> /\ \A i \in 1..m : h[i] = h[i - 1] \o s[i]
    <3>1. ASSUME NEW i \in 1..m
          PROVE  h[i] = h[i - 1] \o s[i]
      <4>1. h[i - 1] \in Seq(X) /\ i \in Nat
        BY <2>3
      <4>2. step[<<i, h[i - 1]>>] = h[i - 1] \o s[i]
        <5>1. PICK p : p = <<i, h[i - 1]>>
          OBVIOUS
        <5>2. p \in Nat \X Seq(X) /\ p[1] = i /\ p[2] = h[i - 1]
          BY <4>1, <5>1
        <5>3. step[p] = p[2] \o s[p[1]]
          BY <5>2
        <5> QED
          BY <5>1, <5>2, <5>3
      <4>3. h[i] = step[<<i, h[i - 1]>>]
        <5> HIDE DEF step
        <5> QED
          BY <2>3 DEF RunOf
      <4> QED
        BY <4>2, <4>3
    <3>2. h[0] = <<>>
      BY <2>3 DEF RunOf
    <3> QED
      BY <3>1, <3>2
  <2> HIDE DEF step
  <2>5. flat = Step(flat)
    <3> DEFINE g == [i \in 1..m |-> h[i]]
    <3>1. ASSUME NEW i \in 1..m
          PROVE  g[i] = IF i = 1 THEN s[i] ELSE g[i - 1] \o s[i]
      <4>1. h[i] = h[i - 1] \o s[i] /\ g[i] = h[i] /\ s[i] \in Seq(X)
        BY <2>4
      <4>2. CASE i = 1
        <5>1. h[i - 1] = <<>>
          BY <2>4, <4>2
        <5>2. <<>> \o s[i] = s[i]
          BY <4>1
        <5> QED
          BY <4>1, <4>2, <5>1, <5>2
      <4>3. CASE i # 1
        <5>1. i - 1 \in 1..m
          BY <4>3
        <5>2. g[i - 1] = h[i - 1]
          BY <5>1
        <5> QED
          BY <4>1, <4>3, <5>2
      <4> QED
        BY <4>2, <4>3
    <3>2. g = Step(g)
      BY <3>1
    <3> HIDE DEF g, Step
    <3> QED
      BY <3>2
  <2>6. \A i \in 1..m : flat[i] = IF i = 1 THEN s[i] ELSE flat[i - 1] \o s[i]
    <3> HIDE DEF flat
    <3> QED
      BY <2>5
  <2> HIDE DEF flat, Step
  <2>7. ASSUME NEW k \in 1..m
        PROVE  flat[k] \in Seq(X) /\ Holding(flat[k], s, k)
    <3> DEFINE Bad == {j \in 1..m : ~ (flat[j] \in Seq(X) /\ Holding(flat[j], s, j))}
    <3>1. Bad \subseteq Nat
      OBVIOUS
    <3>2. ASSUME Bad # {}
          PROVE  FALSE
      <4>1. PICK j \in Bad : \A i \in Bad : j <= i
        <5> HIDE DEF Bad
        <5> QED
          BY <3>1, <3>2, LeastNumber
      <4>2. j \in 1..m /\ s[j] \in Seq(X)
        BY <4>1
      <4>3. PICK list \in Seq(X) : Holding(list, s, j - 1) /\ flat[j] = list \o s[j]
        <5>1. CASE j = 1
          <6>1. ToSet(<<>>) = {} /\ IsInjective(<<>>) /\ AllOf(s, 0) = {}
            BY DEF ToSet, IsInjective, AllOf
          <6>2. Holding(<<>>, s, 0) /\ <<>> \in Seq(X)
            <7>1. ToSet(<<>>) = AllOf(s, 0)
              BY <6>1
            <7>2. <<>> \in Seq(X)
              OBVIOUS
            <7> QED
              BY <6>1, <7>1, <7>2 DEF Holding
          <6>3. flat[j] = s[j]
            BY <2>6, <4>2, <5>1
          <6>4. <<>> \o s[j] = s[j]
            BY <4>2
          <6>5. j - 1 = 0
            BY <5>1
          <6> QED
            BY <6>2, <6>3, <6>4, <6>5
        <5>2. CASE j # 1
          <6>1. j - 1 \in 1..m
            BY <4>2, <5>2
          <6>2. j - 1 \notin Bad
            BY <4>1, <4>2
          <6>3. flat[j - 1] \in Seq(X) /\ Holding(flat[j - 1], s, j - 1)
            BY <6>1, <6>2
          <6>4. flat[j] = flat[j - 1] \o s[j]
            BY <2>6, <4>2, <5>2
          <6> QED
            BY <6>3, <6>4
        <5> QED
          BY <5>1, <5>2
      <4>4. Holding(flat[j], s, j)
        BY <4>2, <4>3, HeldNext
      <4>5. flat[j] \in Seq(X)
        BY <4>2, <4>3
      <4> QED
        BY <4>1, <4>4, <4>5
    <3> QED
      BY <3>2
  <2> QED
    BY <1>3, <2>1, <2>7
<1> QED
  BY <1>2, <1>3

\* Lists of the elements of a finite set, in whatever order.
LEMMA FlattenedSet ==
    ASSUME NEW X, NEW S, IsFiniteSet(S), NEW part \in [S -> Seq(X)],
           NEW list, list = FlattenSeq([i \in DOMAIN SetToSeq(S) |-> part[SetToSeq(S)[i]]])
    PROVE  /\ list \in Seq(X) /\ ToSet(list) = UNION {ToSet(part[x]) : x \in S}
           /\ (\A x \in S : IsInjective(part[x]))
              /\ (\A x, y \in S : x # y => ToSet(part[x]) \intersect ToSet(part[y]) = {})
              => IsInjective(list)
<1>0. PICK m, q : m = Cardinality(S) /\ q = SetToSeq(S)
  OBVIOUS
<1>1. /\ q = SetToSeq(S) /\ q \in [1..m -> S] /\ IsInjective(q) /\ m \in Nat
      /\ \A x \in S : \E i \in 1..m : q[i] = x
  BY <1>0, SetListed
<1>2. PICK s : s = [i \in 1..m |-> part[q[i]]]
  OBVIOUS
<1>3. s \in [1..m -> Seq(X)] /\ list = FlattenSeq(s)
  <2>1. DOMAIN q = 1..m
    BY <1>1
  <2>2. s = [i \in DOMAIN q |-> part[q[i]]]
    BY <1>2, <2>1
  <2>3. list = FlattenSeq([i \in DOMAIN q |-> part[q[i]]])
    BY <1>0
  <2>4. s \in [1..m -> Seq(X)]
    BY <1>1, <1>2
  <2>5. list = FlattenSeq(s)
    BY ONLY <2>2, <2>3, Zenon
  <2> QED
    BY <2>4, <2>5
<1>4. list \in Seq(X) /\ Holding(list, s, m)
  BY <1>1, <1>3, Flattened
<1>5. AllOf(s, m) = UNION {ToSet(part[x]) : x \in S}
  BY <1>1, <1>2 DEF AllOf
<1>6. ASSUME \A x \in S : IsInjective(part[x]),
             \A x, y \in S : x # y => ToSet(part[x]) \intersect ToSet(part[y]) = {}
      PROVE  Apart(s, m)
  <2>1. ASSUME NEW i \in 1..m, NEW j \in 1..m, i # j
        PROVE  q[i] # q[j]
    BY <1>1, <2>1 DEF IsInjective
  <2> QED
    BY <1>1, <1>2, <1>6, <2>1 DEF Apart
<1> QED
  BY <1>4, <1>5, <1>6 DEF Holding

\* Lists of a set's elements; a list of them all in some order of the elements; lists
\* that repeat nothing.
Parts(part, S) ==
    part = [x \in S |-> part[x]] /\ \A x \in S : part[x] \in Seq(ToSet(part[x]))

Strung(list, part, S) ==
    list = FlattenSeq([i \in DOMAIN SetToSeq(S) |-> part[SetToSeq(S)[i]]])

Unrepeated(part, S) ==
    /\ \A x \in S : IsInjective(part[x])
    /\ \A x, y \in S : x # y => ToSet(part[x]) \intersect ToSet(part[y]) = {}

\* The lists need not be of one kind.
LEMMA FlattenedRows ==
    ASSUME NEW S, IsFiniteSet(S), NEW part, Parts(part, S), NEW list, Strung(list, part, S)
    PROVE  /\ list \in Seq(ToSet(list)) /\ ToSet(list) = UNION {ToSet(part[x]) : x \in S}
           /\ Unrepeated(part, S) => IsInjective(list)
<1>1. PICK X : X = UNION {ToSet(part[x]) : x \in S}
  OBVIOUS
<1>2. ASSUME NEW x \in S
      PROVE  part[x] \in Seq(X)
  <2>1. PICK p, Y : p = part[x] /\ Y = ToSet(part[x])
    OBVIOUS
  <2>2. p \in Seq(Y) /\ Y \subseteq X
    BY <1>1, <2>1 DEF Parts
  <2> QED
    BY <2>1, <2>2
<1>3. part \in [S -> Seq(X)]
  BY <1>2 DEF Parts
<1>4. list = FlattenSeq([i \in DOMAIN SetToSeq(S) |-> part[SetToSeq(S)[i]]])
  BY DEF Strung
<1>5. list \in Seq(X)
  BY <1>3, <1>4, FlattenedSet, SMTT(30)
<1>6. ToSet(list) = UNION {ToSet(part[x]) : x \in S}
  BY <1>3, <1>4, FlattenedSet, SMTT(30)
<1>7. Unrepeated(part, S) => IsInjective(list)
  BY <1>3, <1>4, FlattenedSet, SMTT(30) DEF Unrepeated
<1> QED
  BY <1>1, <1>5, <1>6, <1>7
==============================================================================
