---------------------------- MODULE FoldTheorems ----------------------------
(***************************************************************************)
(* Induction over numbers, finite sets and folds, in a form the provers    *)
(* can use: the library's induction theorems take a predicate as an        *)
(* operator, these take the set of the numbers, or sets, that satisfy it.  *)
(* They follow from the least element of a well-founded order (WFMin).     *)
(***************************************************************************)
EXTENDS Integers, SequencesExt, FiniteSetTheorems, WellFoundedInduction, TLAPS

\* Induction over the natural numbers: G is the set of those that satisfy it.
LEMMA NatInduct ==
  ASSUME NEW G \in SUBSET Nat, 0 \in G, \A n \in G : n + 1 \in G
  PROVE  G = Nat
<1>1. SUFFICES ASSUME Nat \ G # {} PROVE FALSE
  OBVIOUS
<1> DEFINE T == Nat \ G
<1>2. \E n \in T : \A m \in T : ~(<<m, n>> \in OpToRel(<, Nat))
  <2>1. T \subseteq Nat /\ T # {} BY <1>1
  <2> HIDE DEF T
  <2> QED BY <2>1, WFMin, NatLessThanWellFounded
<1>3. PICK n \in T : \A m \in T : ~(m < n)
  BY <1>2 DEF OpToRel
<1>4. n # 0 /\ n - 1 \in Nat /\ n - 1 < n BY <1>3
<1>5. n - 1 \in G BY <1>4, <1>3
<1>6. (n - 1) + 1 \in G BY <1>5
<1> QED BY <1>6, <1>3

\* G has a subset of S when it has every subset with an element less.
FromSmaller(G, S) ==
  /\ G \in SUBSET SUBSET S
  /\ \A s \in SUBSET S : (\A x \in s : s \ {x} \in G) => s \in G

\* Induction over the subsets of a finite set, from the smaller to the larger.
LEMMA RemoveInduct ==
  ASSUME NEW S, IsFiniteSet(S), NEW G, FromSmaller(G, S)
  PROVE  G = SUBSET S
<1> USE DEF FromSmaller
<1>1. SUFFICES ASSUME (SUBSET S) \ G # {} PROVE FALSE
  OBVIOUS
<1> DEFINE T == (SUBSET S) \ G
<1>2. \E U \in T : \A W \in T : ~(<<W, U>> \in StrictSubsetOrdering(S))
  <2>1. T \subseteq FiniteSubsetsOf(S) /\ T # {}
    BY <1>1, FS_FiniteSubsetsOfFinite
  <2> HIDE DEF T
  <2> QED BY <2>1, WFMin, FS_StrictSubsetOrderingWellFounded
<1>3. PICK U \in T : \A W \in T : ~(W \subseteq U /\ W # U)
  BY <1>2 DEF StrictSubsetOrdering
<1>4. ASSUME NEW x \in U PROVE U \ {x} \in G
  BY <1>3
<1> QED BY <1>3, <1>4

\* Induction over the subsets of a finite set, one element at a time.
LEMMA FiniteInduct ==
  ASSUME NEW S, IsFiniteSet(S), NEW G \in SUBSET SUBSET S, {} \in G,
         \A U \in G : \A x \in S \ U : U \cup {x} \in G
  PROVE  G = SUBSET S
<1>1. FromSmaller(G, S)
  <2>1. ASSUME NEW s \in SUBSET S, \A x \in s : s \ {x} \in G PROVE s \in G
    <3>1. CASE s = {}
      BY <3>1
    <3>2. CASE s # {}
      <4>1. PICK x \in s : TRUE
        BY <3>2
      <4>2. (s \ {x}) \cup {x} = s
        OBVIOUS
      <4> QED BY <2>1, <4>1, <4>2
    <3> QED BY <3>1, <3>2
  <2> QED BY <2>1 DEF FromSmaller
<1> QED BY <1>1, RemoveInduct

\* Two functions that agree on a subset when they agree on those with an
\* element less agree.
LEMMA SetsAgree ==
  ASSUME NEW S, IsFiniteSet(S), NEW f, NEW g,
         \A s \in SUBSET S :
           (\A x \in s : f[s \ {x}] = g[s \ {x}]) => f[s] = g[s]
  PROVE  f[S] = g[S]
<1> DEFINE G == {s \in SUBSET S : f[s] = g[s]}
<1>1. ASSUME NEW s \in SUBSET S, \A x \in s : s \ {x} \in G PROVE s \in G
  BY <1>1
<1>2. G = SUBSET S
  <2>1. FromSmaller(G, S)
    BY <1>1 DEF FromSmaller
  <2> HIDE DEF G
  <2> QED BY <2>1, RemoveInduct
<1> QED BY <1>2

-------------------------------------------------------------------------------
(***************************************************************************)
(* Folds over finite sets.  A fold's function, on the subsets of S, is     *)
(* described by two functions: pick, the element it takes of a subset, and *)
(* op, op[e][x] its step from x with the element e.                        *)
(***************************************************************************)
Picks(pick, S) == \A s \in SUBSET S : s # {} => pick[s] \in s

StepOn(op, S, X) == \A e \in S, x \in X : op[e][x] \in X

IsIter(g, S, base, pick, op) ==
  \A s \in SUBSET S :
    g[s] = IF s = {} THEN base ELSE op[pick[s]][g[s \ {pick[s]}]]

\* The recursion has a solution: one subset size after the other.
LEMMA IterExists ==
  ASSUME NEW S, IsFiniteSet(S), NEW X, NEW base \in X, NEW pick, NEW op,
         Picks(pick, S), StepOn(op, S, X)
  PROVE  \E g \in [SUBSET S -> X] : IsIter(g, S, base, pick, op)
<1> DEFINE Upto(n) == {s \in SUBSET S : Cardinality(s) <= n}
           Solves(g, n) ==
             \A s \in Upto(n) :
               g[s] = IF s = {} THEN base ELSE op[pick[s]][g[s \ {pick[s]}]]
           G == {n \in Nat : \E g \in [Upto(n) -> X] : Solves(g, n)}
<1>1. \A s \in SUBSET S : /\ Cardinality(s) \in Nat
                          /\ Cardinality(s) = 0 <=> s = {}
  BY FS_Subset, FS_EmptySet, FS_CardinalityType
<1>2. ASSUME NEW n \in Nat, NEW s \in Upto(n + 1), s # {}
      PROVE  s \ {pick[s]} \in Upto(n)
  <2>1. pick[s] \in s /\ IsFiniteSet(s) BY <1>2, FS_Subset DEF Picks
  <2>2. Cardinality(s \ {pick[s]}) = Cardinality(s) - 1
    BY <2>1, FS_RemoveElement
  <2> QED BY <1>1, <1>2, <2>2
<1>3. 0 \in G
  <2>1. Solves([s \in Upto(0) |-> base], 0)
    BY <1>1
  <2> QED BY <2>1
<1>4. ASSUME NEW n \in G PROVE n + 1 \in G
  <2>1. PICK g \in [Upto(n) -> X] : Solves(g, n) BY <1>4
  <2> DEFINE h == [s \in Upto(n + 1) |->
                     IF s = {} THEN base ELSE op[pick[s]][g[s \ {pick[s]}]]]
  <2>2. n \in Nat /\ n + 1 \in Nat BY <1>4
  <2>3. ASSUME NEW s \in Upto(n + 1) PROVE h[s] \in X
    BY <1>2, <2>1, <2>2, <2>3 DEF Picks, StepOn
  <2>4. ASSUME NEW s \in Upto(n) PROVE s \in Upto(n + 1) /\ h[s] = g[s]
    <3>1. s \in Upto(n + 1) BY <1>1, <2>2
    <3>2. h[s] = IF s = {} THEN base ELSE op[pick[s]][g[s \ {pick[s]}]]
      BY <3>1
    <3>3. g[s] = IF s = {} THEN base ELSE op[pick[s]][g[s \ {pick[s]}]]
      BY <2>1
    <3> QED BY <3>1, <3>2, <3>3
  <2>5. Solves(h, n + 1)
    BY <1>2, <2>2, <2>4
  <2>6. h \in [Upto(n + 1) -> X] BY <2>3
  <2> HIDE DEF h, Solves
  <2> QED BY <2>2, <2>5, <2>6
<1>5. Cardinality(S) \in G
  <2> HIDE DEF G
  <2>1. G \in SUBSET Nat BY DEF G
  <2>2. G = Nat BY <2>1, <1>3, <1>4, NatInduct
  <2> QED BY <2>2, FS_CardinalityType
<1>6. Upto(Cardinality(S)) = SUBSET S BY FS_Subset, <1>1
<1> QED BY <1>5, <1>6 DEF IsIter

-------------------------------------------------------------------------------
(***************************************************************************)
(* FoldLeft goes over a sequence by taking the largest of its indices.     *)
(***************************************************************************)
LEMMA MaxIsLargest ==
  ASSUME NEW S \in SUBSET Int, IsFiniteSet(S), S # {}
  PROVE  Max(S) \in S /\ \A y \in S : Max(S) >= y
<1> DEFINE G == {U \in SUBSET S : U = {} \/ \E m \in U : \A y \in U : m >= y}
<1>1. ASSUME NEW U \in G, NEW x \in S \ U PROVE U \cup {x} \in G
  <2>1. CASE U = {}
    BY <2>1
  <2>2. CASE U # {}
    <3>1. PICK m \in U : \A y \in U : m >= y BY <2>2
    <3>2. CASE m >= x BY <3>1, <3>2
    <3>3. CASE ~(m >= x)
      <4>1. \A y \in U \cup {x} : x >= y BY <3>1, <3>3
      <4> QED BY <4>1
    <3> QED BY <3>2, <3>3
  <2> QED BY <2>1, <2>2
<1>2. S \in G
  <2>1. {} \in G /\ G \in SUBSET SUBSET S OBVIOUS
  <2> HIDE DEF G
  <2>2. G = SUBSET S BY <1>1, <2>1, FiniteInduct
  <2> QED BY <2>2
<1>3. \E m \in S : \A y \in S : m >= y BY <1>2
<1> QED BY <1>3 DEF Max

LEMMA MaxOfInterval ==
  ASSUME NEW k \in Nat \ {0}
  PROVE  Max(1 .. k) = k /\ (1 .. k) \ {k} = 1 .. (k - 1)
<1>1. IsFiniteSet(1 .. k) /\ 1 .. k \in SUBSET Int /\ k \in 1 .. k
  BY FS_Interval
<1>2. Max(1 .. k) \in 1 .. k /\ Max(1 .. k) >= k
  BY <1>1, MaxIsLargest
<1> QED BY <1>2

\* g is the function of FoldLeft over a sequence of length n, op[i][x] its step
\* from x with the i-th element, h[k] its result after the first k elements;
\* any function that makes the steps of g where it agrees with g ends as it.
IsFold(g, h, n, base, op) ==
  /\ g[{}] = base
  /\ \A s \in SUBSET (1 .. n) : s # {} =>
       Max(s) \in 1 .. n /\ g[s] = op[Max(s)][g[s \ {Max(s)}]]
  /\ h[0] = base
  /\ \A k \in 1 .. n : h[k] = op[k][h[k - 1]]
  /\ \A f : /\ f[{}] = base
            /\ \A s \in SUBSET (1 .. n) :
                 s # {} /\ f[s \ {Max(s)}] = g[s \ {Max(s)}] => f[s] = g[s]
           => f[1 .. n] = h[n]

LEMMA FoldSteps ==
  ASSUME NEW n \in Nat, NEW X, NEW base \in X, NEW op, StepOn(op, 1 .. n, X)
  PROVE  \E g \in [SUBSET (1 .. n) -> X], h \in [0 .. n -> X] :
           IsFold(g, h, n, base, op)
<1> DEFINE last == [s \in SUBSET (1 .. n) |-> Max(s)]
<1>1. ASSUME NEW s \in SUBSET (1 .. n), s # {}
      PROVE  last[s] = Max(s) /\ Max(s) \in s
  <2>1. IsFiniteSet(s)
    <3>1. IsFiniteSet(1 .. n) BY FS_Interval
    <3> QED BY <3>1, FS_Subset
  <2> QED BY <1>1, <2>1, MaxIsLargest
<1>2. PICK g \in [SUBSET (1 .. n) -> X] : IsIter(g, 1 .. n, base, last, op)
  <2>1. IsFiniteSet(1 .. n) BY FS_Interval
  <2>2. Picks(last, 1 .. n) BY <1>1 DEF Picks
  <2> HIDE DEF last
  <2> QED BY <2>1, <2>2, IterExists
<1>3. g[{}] = base BY <1>2 DEF IsIter
<1>4. ASSUME NEW s \in SUBSET (1 .. n), s # {}
      PROVE  Max(s) \in 1 .. n /\ g[s] = op[Max(s)][g[s \ {Max(s)}]]
  <2>1. g[s] = op[last[s]][g[s \ {last[s]}]] BY <1>2, <1>4 DEF IsIter
  <2> HIDE DEF last
  <2> QED BY <1>1, <1>4, <2>1
<1> HIDE DEF last
<1> DEFINE h == [k \in 0 .. n |-> g[1 .. k]]
<1>5. h \in [0 .. n -> X] BY <1>2
<1>6. h[0] = base
  <2>1. 1 .. 0 = {} OBVIOUS
  <2> QED BY <1>3, <2>1
<1>7. ASSUME NEW k \in 1 .. n
      PROVE  /\ 1 .. k \in SUBSET (1 .. n) /\ 1 .. k # {}
             /\ Max(1 .. k) = k /\ (1 .. k) \ {k} = 1 .. (k - 1)
  <2> HIDE DEF h
  <2>1. k \in Nat \ {0} /\ 1 .. k \in SUBSET (1 .. n) /\ k \in 1 .. k
    OBVIOUS
  <2> QED BY <2>1, MaxOfInterval
<1>8. ASSUME NEW k \in 1 .. n PROVE h[k] = op[k][h[k - 1]]
  <2>1. g[1 .. k] = op[k][g[1 .. (k - 1)]] BY <1>4, <1>7
  <2>2. k - 1 \in 0 .. n /\ k \in 0 .. n OBVIOUS
  <2> QED BY <2>1, <2>2
<1>9. ASSUME NEW f, f[{}] = base,
             \A s \in SUBSET (1 .. n) :
               s # {} /\ f[s \ {Max(s)}] = g[s \ {Max(s)}] => f[s] = g[s]
      PROVE  f[1 .. n] = h[n]
  <2> DEFINE G == {k \in Nat : k <= n => f[1 .. k] = g[1 .. k]}
  <2>1. 0 \in G
    <3>1. 1 .. 0 = {} OBVIOUS
    <3> QED BY <1>3, <1>9, <3>1
  <2>2. ASSUME NEW k \in G PROVE k + 1 \in G
    <3>1. ASSUME k + 1 <= n PROVE f[1 .. (k + 1)] = g[1 .. (k + 1)]
      <4>1. k + 1 \in 1 .. n /\ (k + 1) - 1 = k BY <3>1
      <4>2. f[1 .. k] = g[1 .. k] BY <2>2, <3>1
      <4> QED BY <1>7, <1>9, <4>1, <4>2
    <3> QED BY <2>2, <3>1
  <2>3. G \in SUBSET Nat OBVIOUS
  <2> HIDE DEF G
  <2>4. G = Nat BY <2>1, <2>2, <2>3, NatInduct
  <2> QED BY <2>4 DEF G
<1>10. IsFold(g, h, n, base, op)
  <2> HIDE DEF h
  <2> QED BY <1>3, <1>4, <1>6, <1>8, <1>9 DEF IsFold
<1> QED BY <1>2, <1>5, <1>10

-------------------------------------------------------------------------------
(***************************************************************************)
(* Sums over finite sets: MapThenSumSet takes any element first, and the   *)
(* sum does not depend on which.                                           *)
(***************************************************************************)
\* g has the sum of v over each subset of S.
IsSum(g, S, v) ==
  /\ g[{}] = 0
  /\ \A s \in SUBSET S : \A x \in s : g[s] = v[x] + g[s \ {x}]
  /\ \A s \in SUBSET S : MapThenSumSet(LAMBDA x : v[x], s) = g[s]

LEMMA SumExists ==
  ASSUME NEW S, IsFiniteSet(S), NEW v \in [S -> Nat]
  PROVE  \E g \in [SUBSET S -> Nat] : IsSum(g, S, v)
<1> DEFINE pick == [s \in SUBSET S |-> CHOOSE x \in s : TRUE]
           op == [e \in S |-> [x \in Nat |-> v[e] + x]]
<1>1. \A s \in SUBSET S : s # {} => pick[s] = (CHOOSE x \in s : TRUE) /\ pick[s] \in s
  OBVIOUS
<1>2. \A e \in S, x \in Nat : op[e][x] = v[e] + x /\ op[e][x] \in Nat
  OBVIOUS
<1> HIDE DEF pick, op
<1>3. PICK g \in [SUBSET S -> Nat] : IsIter(g, S, 0, pick, op)
  <2>1. Picks(pick, S) /\ StepOn(op, S, Nat)
    BY <1>1, <1>2 DEF Picks, StepOn
  <2> QED BY <2>1, IterExists
<1>4. g[{}] = 0
  BY <1>3 DEF IsIter
<1>5. ASSUME NEW s \in SUBSET S, s # {}
      PROVE  pick[s] \in s /\ g[s] = v[pick[s]] + g[s \ {pick[s]}]
  BY <1>1, <1>2, <1>3, <1>5 DEF IsIter
<1>6. \A s \in SUBSET S : \A x \in s : g[s] = v[x] + g[s \ {x}]
  <2> DEFINE G == {s \in SUBSET S : \A x \in s : g[s] = v[x] + g[s \ {x}]}
  <2>1. ASSUME NEW s \in SUBSET S, \A x \in s : s \ {x} \in G, NEW x \in s
        PROVE  g[s] = v[x] + g[s \ {x}]
    <3> DEFINE p == pick[s]
    <3>1. p \in s /\ g[s] = v[p] + g[s \ {p}]
      BY <1>5
    <3>2. CASE x = p
      BY <3>1, <3>2
    <3>3. CASE x # p
      <4>1. g[s \ {p}] = v[x] + g[(s \ {p}) \ {x}]
        BY <2>1, <3>1, <3>3
      <4>2. g[s \ {x}] = v[p] + g[(s \ {x}) \ {p}]
        BY <2>1, <3>1, <3>3
      <4>3. g[(s \ {p}) \ {x}] = g[(s \ {x}) \ {p}]
        <5>1. (s \ {p}) \ {x} = (s \ {x}) \ {p}
          OBVIOUS
        <5> QED BY <5>1, Zenon
      <4>4. v[x] \in Nat /\ v[p] \in Nat /\ g[(s \ {x}) \ {p}] \in Nat
        BY <3>1
      <4> HIDE DEF p, G
      <4> QED BY <3>1, <4>1, <4>2, <4>3, <4>4
    <3> QED BY <3>2, <3>3
  <2>2. G = SUBSET S
    <3>1. FromSmaller(G, S)
      BY <2>1 DEF FromSmaller
    <3> HIDE DEF G
    <3> QED BY <3>1, RemoveInduct
  <2> QED BY <2>2
<1>7. ASSUME NEW u \in SUBSET S PROVE MapThenSumSet(LAMBDA x : v[x], u) = g[u]
  <2> DEFINE Solves(f) ==
               f = [t \in SUBSET u |->
                      IF t = {} THEN 0
                      ELSE v[CHOOSE x \in t : TRUE]
                             + f[t \ {CHOOSE x \in t : TRUE}]]
             iter == CHOOSE f : Solves(f)
  <2>1. ASSUME NEW t \in SUBSET u, t # {}
        PROVE  /\ (CHOOSE x \in t : TRUE) = pick[t]
               /\ g[t] = v[pick[t]] + g[t \ {pick[t]}]
    BY <1>1, <1>5, <2>1
  <2>2. Solves([t \in SUBSET u |-> g[t]])
    BY <1>4, <2>1
  <2>3. Solves(iter)
    BY <2>2
  <2>4. ASSUME NEW t \in SUBSET u, \A x \in t : iter[t \ {x}] = g[t \ {x}]
        PROVE  iter[t] = g[t]
    <3>1. CASE t = {}
      BY <1>4, <2>3, <3>1
    <3>2. CASE t # {}
      <4> DEFINE p == CHOOSE x \in t : TRUE
      <4>1. p \in t /\ g[t] = v[p] + g[t \ {p}]
        BY <1>1, <2>1, <3>2
      <4>2. iter[t] = v[p] + iter[t \ {p}]
        BY <2>3, <3>2
      <4>3. iter[t \ {p}] = g[t \ {p}]
        BY <2>4, <4>1
      <4> HIDE DEF p, iter
      <4> QED BY <4>1, <4>2, <4>3
    <3> QED BY <3>1, <3>2
  <2>5. iter[u] = g[u]
    <3>1. IsFiniteSet(u)
      BY FS_Subset
    <3> HIDE DEF iter
    <3> QED BY <2>4, <3>1, SetsAgree
  <2>6. MapThenSumSet(LAMBDA x : v[x], u) = iter[u]
    BY DEF MapThenSumSet, MapThenFoldSet
  <2> QED BY <2>5, <2>6
<1> QED BY <1>4, <1>6, <1>7 DEF IsSum

\* The sum of two sets apart.
LEMMA SumApart ==
  ASSUME NEW S, IsFiniteSet(S), NEW v \in [S -> Nat],
         NEW g \in [SUBSET S -> Nat], IsSum(g, S, v),
         NEW a \in SUBSET S, NEW b \in SUBSET S, a \cap b = {}
  PROVE  g[a \cup b] = g[a] + g[b]
<1> DEFINE G == {s \in SUBSET b : g[a \cup s] = g[a] + g[s]}
<1>1. ASSUME NEW s \in SUBSET b, \A x \in s : s \ {x} \in G PROVE s \in G
  <2>1. CASE s = {}
    <3>1. g[a] \in Nat /\ g[{}] = 0 /\ a \cup s = a
      BY <2>1 DEF IsSum
    <3> QED BY <2>1, <3>1
  <2>2. CASE s # {}
    <3>1. PICK x \in s : TRUE
      BY <2>2
    <3>2. g[s] = v[x] + g[s \ {x}] /\ g[a \cup s] = v[x] + g[(a \cup s) \ {x}]
      BY DEF IsSum
    <3>3. g[(a \cup s) \ {x}] = g[a \cup (s \ {x})]
      <4>1. (a \cup s) \ {x} = a \cup (s \ {x})
        OBVIOUS
      <4> QED BY <4>1, Zenon
    <3>4. g[a \cup (s \ {x})] = g[a] + g[s \ {x}]
      BY <1>1
    <3>5. v[x] \in Nat /\ g[a] \in Nat /\ g[s \ {x}] \in Nat
      OBVIOUS
    <3>6. g[a \cup s] = g[a] + g[s]
      BY <3>2, <3>3, <3>4, <3>5
    <3> QED BY <3>6
  <2> QED BY <2>1, <2>2
<1>2. G = SUBSET b
  <2>1. FromSmaller(G, b)
    BY <1>1 DEF FromSmaller
  <2>2. IsFiniteSet(b)
    BY FS_Subset
  <2> HIDE DEF G
  <2> QED BY <2>1, <2>2, RemoveInduct
<1> QED BY <1>2

\* A sum is at most, or at least, its number of terms times their bound.
LEMMA SumBound ==
  ASSUME NEW S, IsFiniteSet(S), NEW v \in [S -> Nat],
         NEW g \in [SUBSET S -> Nat], IsSum(g, S, v),
         NEW a \in SUBSET S, NEW m \in Nat
  PROVE  /\ Cardinality(a) \in Nat
         /\ (\A x \in a : v[x] <= m) => g[a] <= m * Cardinality(a)
         /\ (\A x \in a : m <= v[x]) => m * Cardinality(a) <= g[a]
<1> DEFINE Bound(s) ==
             /\ (\A x \in a : v[x] <= m) => g[s] <= m * Cardinality(s)
             /\ (\A x \in a : m <= v[x]) => m * Cardinality(s) <= g[s]
           G == {s \in SUBSET a : Bound(s)}
<1>1. IsFiniteSet(a) /\ \A s \in SUBSET a : Cardinality(s) \in Nat
  BY FS_Subset, FS_CardinalityType
<1>2. ASSUME NEW s \in SUBSET a, \A x \in s : s \ {x} \in G PROVE s \in G
  <2>1. CASE s = {}
    <3>1. Cardinality(s) = 0 /\ g[s] = 0 /\ m * 0 = 0
      BY <2>1, FS_EmptySet DEF IsSum
    <3> QED BY <3>1
  <2>2. CASE s # {}
    <3>1. PICK x \in s : TRUE
      BY <2>2
    <3> DEFINE n == Cardinality(s \ {x})
    <3>2. g[s] = v[x] + g[s \ {x}]
      BY DEF IsSum
    <3>3. n \in Nat /\ Cardinality(s) = n + 1
      <4>1. IsFiniteSet(s) /\ x \in s
        BY <1>1, FS_Subset
      <4>2. Cardinality(s \ {x}) = Cardinality(s) - 1
        BY <4>1, FS_RemoveElement
      <4>3. Cardinality(s) \in Nat /\ Cardinality(s \ {x}) \in Nat
        BY <1>1
      <4> QED BY <4>2, <4>3
    <3>4. m * (n + 1) = m * n + m /\ m * n \in Nat
      BY <3>3
    <3>5. /\ (\A y \in a : v[y] <= m) => g[s \ {x}] <= m * n
          /\ (\A y \in a : m <= v[y]) => m * n <= g[s \ {x}]
      BY <1>2
    <3>6. x \in a /\ v[x] \in Nat /\ g[s \ {x}] \in Nat
      OBVIOUS
    <3> HIDE DEF n
    <3> DEFINE p == m * n
               c == Cardinality(s)
               r == g[s \ {x}]
    <3>7. p \in Nat /\ r \in Nat /\ m * c = p + m
      BY <3>3, <3>4, <3>6
    <3>8. (\A y \in a : v[y] <= m) => g[s] <= m * c
      <4> SUFFICES ASSUME \A y \in a : v[y] <= m PROVE g[s] <= m * c
        OBVIOUS
      <4>1. r <= p /\ v[x] <= m
        BY <3>5, <3>6
      <4> HIDE DEF p, c, r
      <4> QED BY <3>2, <3>6, <3>7, <4>1 DEF r
    <3>9. (\A y \in a : m <= v[y]) => m * c <= g[s]
      <4> SUFFICES ASSUME \A y \in a : m <= v[y] PROVE m * c <= g[s]
        OBVIOUS
      <4>1. p <= r /\ m <= v[x]
        BY <3>5, <3>6
      <4> HIDE DEF p, c, r
      <4> QED BY <3>2, <3>6, <3>7, <4>1 DEF r
    <3> QED BY <3>8, <3>9
  <2> QED BY <2>1, <2>2
<1>3. G = SUBSET a
  <2>1. FromSmaller(G, a)
    BY <1>2 DEF FromSmaller
  <2> HIDE DEF G, Bound
  <2> QED BY <1>1, <2>1, RemoveInduct
<1> QED BY <1>1, <1>3

\* One of finitely many terms is the largest.
LEMMA LargestExists ==
  ASSUME NEW S, IsFiniteSet(S), S # {}, NEW v, \A x \in S : v[x] \in Nat
  PROVE  \E x \in S : \A y \in S : v[y] <= v[x]
<1> DEFINE G == {s \in SUBSET S : s = {} \/ \E x \in s : \A y \in s : v[y] <= v[x]}
<1>1. ASSUME NEW U \in G, NEW z \in S \ U PROVE U \cup {z} \in G
  <2>1. CASE U = {}
    BY <2>1
  <2>2. CASE U # {}
    <3>1. PICK x \in U : \A y \in U : v[y] <= v[x]
      BY <2>2
    <3>2. CASE v[z] <= v[x]
      BY <3>1, <3>2
    <3>3. CASE ~(v[z] <= v[x])
      <4>1. \A y \in U \cup {z} : v[y] <= v[z]
        BY <3>1, <3>3
      <4> QED BY <4>1
    <3> QED BY <3>2, <3>3
  <2> QED BY <2>1, <2>2
<1>2. G = SUBSET S
  <2>1. {} \in G /\ G \in SUBSET SUBSET S
    OBVIOUS
  <2> HIDE DEF G
  <2> QED BY <1>1, <2>1, FiniteInduct
<1> QED BY <1>2

\* No set of as many terms has a larger sum than one whose own terms are at
\* least the other's.
LEMMA SumLargest ==
  ASSUME NEW S, IsFiniteSet(S), NEW v \in [S -> Nat],
         NEW g \in [SUBSET S -> Nat], IsSum(g, S, v),
         NEW a \in SUBSET S, NEW b \in SUBSET S,
         Cardinality(a) = Cardinality(b),
         \A x \in a \ b : \A y \in b \ a : v[x] <= v[y]
  PROVE  g[a] <= g[b]
<1> DEFINE both == a \cap b
           p == a \ b
           q == b \ a
<1>1. a = both \cup p /\ b = both \cup q /\ both \cap p = {} /\ both \cap q = {}
  OBVIOUS
<1>2. g[a] = g[both] + g[p] /\ g[b] = g[both] + g[q]
  <2>1. g[both \cup p] = g[both] + g[p] /\ g[both \cup q] = g[both] + g[q]
    <3>1. /\ both \in SUBSET S /\ p \in SUBSET S /\ q \in SUBSET S
          /\ both \cap p = {} /\ both \cap q = {}
      OBVIOUS
    <3> HIDE DEF both, p, q
    <3> QED
      BY ONLY IsFiniteSet(S), v \in [S -> Nat], g \in [SUBSET S -> Nat],
              IsSum(g, S, v), <3>1, SumApart
  <2>2. g[both \cup p] = g[a] /\ g[both \cup q] = g[b]
    BY <1>1, Zenon
  <2> HIDE DEF both, p, q
  <2> QED BY <2>1, <2>2
<1>3. /\ IsFiniteSet(both) /\ IsFiniteSet(p) /\ IsFiniteSet(q)
      /\ IsFiniteSet(a) /\ IsFiniteSet(b)
  BY FS_Subset
<1>4. Cardinality(p) = Cardinality(q) /\ Cardinality(p) \in Nat
  <2>1. /\ Cardinality(p) = Cardinality(a) - Cardinality(a \cap b)
        /\ Cardinality(q) = Cardinality(b) - Cardinality(b \cap a)
    BY <1>3, FS_Difference
  <2>2. Cardinality(a \cap b) = Cardinality(b \cap a)
    <3>1. a \cap b = b \cap a
      OBVIOUS
    <3> QED BY <3>1, Zenon
  <2>3. Cardinality(p) \in Nat
    BY <1>3, FS_CardinalityType
  <2> QED BY <2>1, <2>2, <2>3
<1>5. g[p] <= g[q]
  <2>1. CASE p = {}
    <3>1. g[p] = 0 /\ g[q] \in Nat
      BY <2>1 DEF IsSum
    <3> QED BY <3>1
  <2>2. CASE p # {}
    <3>1. PICK x \in p : \A y \in p : v[y] <= v[x]
      BY <1>3, <2>2, LargestExists
    <3> DEFINE m == v[x]
    <3>2. m \in Nat /\ (\A y \in p : v[y] <= m) /\ (\A y \in q : m <= v[y])
      BY <3>1
    <3>3. g[p] <= m * Cardinality(p) /\ m * Cardinality(q) <= g[q]
      <4> HIDE DEF m
      <4>1. p \in SUBSET S /\ q \in SUBSET S
        OBVIOUS
      <4> HIDE DEF p, q
      <4> QED BY <3>2, <4>1, SumBound
    <3>4. g[p] \in Nat /\ g[q] \in Nat /\ m * Cardinality(p) \in Nat
      BY <1>4, <3>2
    <3> QED BY <1>4, <3>3, <3>4
  <2> QED BY <2>1, <2>2
<1>6. g[both] \in Nat /\ g[p] \in Nat /\ g[q] \in Nat
  OBVIOUS
<1> QED BY <1>2, <1>5, <1>6
=============================================================================
