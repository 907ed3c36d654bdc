----------------------------- MODULE NatFacts -----------------------------
(***************************************************************************)
(* Induction over the natural numbers, stated with sets and functions, and *)
(* what follows from it for recursively defined functions and for sums     *)
(* over finite sets.                                                       *)
(***************************************************************************)
EXTENDS Integers, FiniteSetTheorems, WellFoundedInduction, TLAPS

(* The order of the natural numbers is well-founded. *)
LEMMA NatOrder == \E R : IsWellFoundedOn(R, Nat) /\ \A x, y \in Nat : y < x => <<y, x>> \in R
<1>1. IsWellFoundedOn(OpToRel(<, Nat), Nat)
  BY NatLessThanWellFounded
<1>2. \A x, y \in Nat : y < x => <<y, x>> \in OpToRel(<, Nat)
  BY DEF OpToRel
<1> QED BY <1>1, <1>2, Zenon

(* A non-empty set of natural numbers has a least element. *)
LEMMA LeastNumber ==
    ASSUME NEW T \in SUBSET Nat, T # {}
    PROVE  \E x \in T : \A y \in T : x <= y
<1>1. PICK R : IsWellFoundedOn(R, Nat) /\ \A x, y \in Nat : y < x => <<y, x>> \in R
  BY NatOrder
<1>2. \E x \in T : \A y \in T : <<y, x>> \notin R
  BY <1>1, WFMin
<1>3. \A x, y \in Nat : y < x => <<y, x>> \in R
  BY <1>1
<1>4. \E x \in T : \A y \in T : ~(y < x)
  BY <1>2, <1>3, Zenon
<1> QED BY <1>4

(* A set of numbers that has 0 and every successor of its members has them all. *)
LEMMA NatSetInduction ==
    ASSUME NEW T \in SUBSET Nat, 0 \in T, \A n \in T : n + 1 \in T
    PROVE  T = Nat
<1> SUFFICES ASSUME Nat \ T # {} PROVE FALSE
  OBVIOUS
<1>1. PICK x \in Nat \ T : \A y \in Nat \ T : x <= y
  BY LeastNumber
<1>2. x - 1 \in T
  BY <1>1
<1> QED BY <1>1, <1>2

(* g lists what succ makes of start, step after step. *)
Iterates(g, start, succ) == g[0] = start /\ \A n \in Nat : g[n + 1] = succ[g[n]]

(* A start and a step define a sequence of values. *)
LEMMA SequenceExists ==
    ASSUME NEW S, NEW start \in S, NEW succ \in [S -> S]
    PROVE  \E g \in [Nat -> S] : Iterates(g, start, succ)
<1> DEFINE Upto(n, f) == f \in [0..n -> S] /\ f[0] = start /\ \A m \in 0..(n - 1) : f[m + 1] = succ[f[m]]
           Reached == {n \in Nat : \E f : Upto(n, f)}
           Same == {n \in Nat : \A a, b \in Nat : \A f, h :
                      n <= a /\ n <= b /\ Upto(a, f) /\ Upto(b, h) => f[n] = h[n]}
<1>1. Reached = Nat
  <2>1. 0 \in Reached
    <3>1. Upto(0, [m \in 0..0 |-> start])
      OBVIOUS
    <3> QED BY <3>1
  <2>2. ASSUME NEW n \in Reached PROVE n + 1 \in Reached
    <3>1. PICK f : Upto(n, f)
      OBVIOUS
    <3> DEFINE h == [m \in 0..(n + 1) |-> IF m = n + 1 THEN succ[f[n]] ELSE f[m]]
    <3>2. h \in [0..(n + 1) -> S]
      BY <3>1
    <3>3. h[0] = start
      BY <3>1
    <3>4. ASSUME NEW m \in 0..n PROVE h[m + 1] = succ[h[m]]
      BY <3>1
    <3> HIDE DEF h
    <3>5. Upto(n + 1, h)
      BY <3>2, <3>3, <3>4
    <3> QED BY <3>5
  <2> HIDE DEF Upto
  <2>3. Reached \in SUBSET Nat
    OBVIOUS
  <2> HIDE DEF Reached
  <2> QED BY <2>1, <2>2, <2>3, NatSetInduction
<1>2. Same = Nat
  <2>1. 0 \in Same
    OBVIOUS
  <2>2. ASSUME NEW n \in Same PROVE n + 1 \in Same
    <3>1. ASSUME NEW a \in Nat, NEW b \in Nat, NEW f, NEW h, n + 1 <= a, n + 1 <= b,
                 Upto(a, f), Upto(b, h)
          PROVE  f[n + 1] = h[n + 1]
      <4>0. n \in Nat
        OBVIOUS
      <4>1. n <= a /\ n <= b /\ n \in 0..(a - 1) /\ n \in 0..(b - 1)
        BY ONLY <3>1, <4>0
      <4>2. f[n] = h[n]
        <5> HIDE DEF Upto
        <5> QED BY <3>1, <4>1
      <4>3. f[n + 1] = succ[f[n]] /\ h[n + 1] = succ[h[n]]
        BY <3>1, <4>1
      <4> QED BY <4>2, <4>3
    <3>2. n + 1 \in Nat
      OBVIOUS
    <3> HIDE DEF Upto
    <3> QED BY <3>1, <3>2
  <2>3. Same \in SUBSET Nat
    OBVIOUS
  <2> HIDE DEF Same
  <2> QED BY <2>1, <2>2, <2>3, NatSetInduction
<1> DEFINE F(n) == CHOOSE f : Upto(n, f)
           g == [n \in Nat |-> F(n)[n]]
<1>3. ASSUME NEW n \in Nat PROVE Upto(n, F(n))
  <2> HIDE DEF Upto
  <2> QED BY <1>1
<1> HIDE DEF F
<1>4. ASSUME NEW n \in Nat PROVE g[n + 1] = succ[g[n]] /\ g[n] \in S
  <2>0. n \in Same /\ n + 1 \in Nat
    <3> HIDE DEF Same
    <3> QED BY <1>2
  <2>1. Upto(n, F(n)) /\ Upto(n + 1, F(n + 1))
    <3> HIDE DEF Upto
    <3> QED BY <1>3, <2>0
  <2>2. F(n)[n] = F(n + 1)[n]
    <3> HIDE DEF Upto
    <3> QED BY <2>0, <2>1
  <2>3. F(n + 1)[n + 1] = succ[F(n + 1)[n]] /\ F(n)[n] \in S
    <3>1. n \in 0..((n + 1) - 1) /\ n \in 0..n
      OBVIOUS
    <3> QED BY <2>1, <3>1
  <2> QED BY <2>2, <2>3
<1>5. g[0] = start
  <2>1. Upto(0, F(0))
    <3> HIDE DEF Upto
    <3> QED BY <1>3
  <2> QED BY <2>1
<1>6. g \in [Nat -> S]
  BY <1>4
<1> HIDE DEF g
<1> QED BY <1>4, <1>5, <1>6 DEF Iterates

(* A start and a step define a sequence of numbers. *)
LEMMA IterationExists ==
    ASSUME NEW start \in Nat, NEW succ \in [Nat -> Nat]
    PROVE  \E g \in [Nat -> Nat] : Iterates(g, start, succ)
<1>1. PICK S : S = Nat
  OBVIOUS
<1>2. start \in S /\ succ \in [S -> S]
  BY <1>1
<1>3. \E g \in [Nat -> S] : Iterates(g, start, succ)
  BY ONLY <1>2, SequenceExists
<1> QED BY <1>1, <1>3

(* What the quotient of two numbers is. *)
LEMMA QuotientBounds ==
    ASSUME NEW a \in Nat, NEW d \in Nat \ {0}
    PROVE  a \div d \in Nat /\ (a \div d) * d <= a /\ a < (a \div d) * d + d
OBVIOUS

(* A larger factor makes the product larger by at least the other factor. *)
LEMMA ProductGrows ==
    ASSUME NEW p \in Nat, NEW q \in Nat, NEW d \in Nat, p > q
    PROVE  p * d >= q * d + d
OBVIOUS

(* Division keeps the order. *)
LEMMA QuotientMonotone ==
    ASSUME NEW a \in Nat, NEW b \in Nat, NEW d \in Nat \ {0}, a <= b
    PROVE  a \div d <= b \div d
<1> DEFINE p == a \div d
           q == b \div d
<1>1. p \in Nat /\ p * d <= a
  BY QuotientBounds
<1>2. q \in Nat /\ b < q * d + d
  BY QuotientBounds
<1> HIDE DEF p, q
<1>3. ASSUME p > q PROVE FALSE
  <2>1. p * d >= q * d + d
    BY <1>1, <1>2, <1>3, ProductGrows
  <2>2. p * d \in Nat /\ q * d \in Nat
    BY <1>1, <1>2
  <2> QED BY <1>1, <1>2, <2>1, <2>2
<1> QED BY <1>1, <1>2, <1>3 DEF p, q

-----------------------------------------------------------------------------
(* Sums of a function over finite sets, the way the folds of the libraries take them: an
   arbitrary element first. *)
AnyOf(s) == CHOOSE x \in s : TRUE
RuleAt(g, w, s) == IF s = {} THEN 0 ELSE w[AnyOf(s)] + g[s \ {AnyOf(s)}]
SumRule(g, w, S) == g = [s \in SUBSET S |-> RuleAt(g, w, s)]

(* An element taken from a set. *)
LEMMA AnyOfSet == ASSUME NEW s, s # {} PROVE AnyOf(s) \in s
BY DEF AnyOf

(* A subset of a finite set without one of its elements is smaller by one. *)
LEMMA OneLess ==
    ASSUME NEW S, IsFiniteSet(S), NEW s \in SUBSET S, NEW x \in s
    PROVE  /\ IsFiniteSet(s) /\ Cardinality(s) \in Nat /\ Cardinality(s) > 0
           /\ Cardinality(s \ {x}) = Cardinality(s) - 1 /\ s \ {x} \in SUBSET S
<1>1. IsFiniteSet(s) /\ Cardinality(s) \in Nat
  BY FS_Subset, FS_CardinalityType
<1>2. Cardinality(s \ {x}) = Cardinality(s) - 1
  BY <1>1, FS_RemoveElement
<1>3. IsFiniteSet(s \ {x}) /\ Cardinality(s \ {x}) \in Nat
  BY <1>1, FS_RemoveElement, FS_CardinalityType
<1> QED BY <1>1, <1>2, <1>3

(* Sums exist. *)
LEMMA SumExists ==
    ASSUME NEW S, IsFiniteSet(S), NEW w \in [S -> Nat]
    PROVE  \E g : SumRule(g, w, S)
<1> DEFINE Upto(k, g) == \A s \in SUBSET S : Cardinality(s) <= k => g[s] = RuleAt(g, w, s)
           Reached == {k \in Nat : \E g \in [SUBSET S -> Nat] : Upto(k, g)}
<1>1. \A s \in SUBSET S : IsFiniteSet(s) /\ Cardinality(s) \in Nat /\ (Cardinality(s) = 0 <=> s = {})
  BY FS_Subset, FS_CardinalityType, FS_EmptySet
<1>2. 0 \in Reached
  <2> DEFINE g == [s \in SUBSET S |-> 0]
  <2>1. g \in [SUBSET S -> Nat]
    OBVIOUS
  <2>2. Upto(0, g)
    BY <1>1 DEF RuleAt
  <2> QED BY <2>1, <2>2
<1>3. ASSUME NEW k \in Reached PROVE k + 1 \in Reached
  <2>0. k \in Nat
    OBVIOUS
  <2>1. PICK g \in [SUBSET S -> Nat] : Upto(k, g)
    OBVIOUS
  <2> DEFINE h == [s \in SUBSET S |-> IF Cardinality(s) <= k THEN g[s] ELSE RuleAt(g, w, s)]
  <2>2. ASSUME NEW s \in SUBSET S, s # {}
        PROVE  /\ AnyOf(s) \in S /\ s \ {AnyOf(s)} \in SUBSET S
               /\ Cardinality(s \ {AnyOf(s)}) = Cardinality(s) - 1
    <3>1. AnyOf(s) \in s
      BY <2>2, AnyOfSet
    <3> QED BY <3>1, OneLess
  <2>3. ASSUME NEW s \in SUBSET S PROVE RuleAt(g, w, s) \in Nat
    <3>1. CASE s = {}
      BY <3>1 DEF RuleAt
    <3>2. CASE s # {}
      <4>1. w[AnyOf(s)] \in Nat /\ g[s \ {AnyOf(s)}] \in Nat
        BY <2>2, <3>2
      <4> QED BY <3>2, <4>1 DEF RuleAt
    <3> QED BY <3>1, <3>2
  <2>4. h \in [SUBSET S -> Nat]
    BY <2>3
  <2>5. ASSUME NEW s \in SUBSET S, Cardinality(s) <= k + 1 PROVE h[s] = RuleAt(h, w, s)
    <3>1. h[s] = RuleAt(g, w, s)
      BY <2>1
    <3>2. CASE s = {}
      BY <3>1, <3>2 DEF RuleAt
    <3>3. CASE s # {}
      <4>1. Cardinality(s \ {AnyOf(s)}) <= k /\ s \ {AnyOf(s)} \in SUBSET S
        BY <1>1, <2>0, <2>2, <2>5, <3>3
      <4>2. h[s \ {AnyOf(s)}] = g[s \ {AnyOf(s)}]
        BY <4>1
      <4> HIDE DEF h
      <4> QED BY <3>1, <4>2 DEF RuleAt
    <3> QED BY <3>2, <3>3
  <2> HIDE DEF h
  <2>6. Upto(k + 1, h)
    BY <2>5
  <2> QED BY <2>0, <2>4, <2>6
<1> HIDE DEF Upto
<1>4. Reached \in SUBSET Nat
  OBVIOUS
<1> HIDE DEF Reached
<1>5. Reached = Nat
  BY <1>2, <1>3, <1>4, NatSetInduction
<1>6. Cardinality(S) \in Nat
  BY <1>1
<1>7. PICK g \in [SUBSET S -> Nat] : Upto(Cardinality(S), g)
  BY <1>5, <1>6 DEF Reached
<1>8. ASSUME NEW s \in SUBSET S PROVE g[s] = RuleAt(g, w, s)
  <2>1. Cardinality(s) <= Cardinality(S)
    BY FS_Subset
  <2> QED BY <1>7, <2>1 DEF Upto
<1>9. g = [s \in SUBSET S |-> RuleAt(g, w, s)]
  BY <1>8
<1> QED BY <1>9 DEF SumRule

(* Two sums agree where the functions they add up do. *)
LEMMA SumsAgree ==
    ASSUME NEW S, NEW T, NEW U, IsFiniteSet(U), U \subseteq S, U \subseteq T,
           NEW w, NEW v, \A x \in U : w[x] = v[x] /\ w[x] \in Nat,
           NEW g, NEW h, SumRule(g, w, S), SumRule(h, v, T)
    PROVE  g[U] = h[U] /\ g[U] \in Nat
<1> DEFINE Agree == {k \in Nat : \A s \in SUBSET U : Cardinality(s) = k => g[s] = h[s] /\ g[s] \in Nat}
<1>1. \A s \in SUBSET U : /\ IsFiniteSet(s) /\ Cardinality(s) \in Nat /\ (Cardinality(s) = 0 <=> s = {})
                          /\ s \in SUBSET S /\ s \in SUBSET T
  BY FS_Subset, FS_CardinalityType, FS_EmptySet
<1>2. \A s \in SUBSET U : g[s] = RuleAt(g, w, s) /\ h[s] = RuleAt(h, v, s)
  BY <1>1 DEF SumRule
<1>3. 0 \in Agree
  BY <1>1, <1>2 DEF RuleAt
<1>4. ASSUME NEW k \in Agree PROVE k + 1 \in Agree
  <2>1. ASSUME NEW s \in SUBSET U, Cardinality(s) = k + 1 PROVE g[s] = h[s] /\ g[s] \in Nat
    <3>1. s # {}
      BY <1>1, <2>1
    <3>2. PICK x \in s : x = AnyOf(s)
      BY <3>1, AnyOfSet
    <3>3. Cardinality(s \ {x}) = k /\ s \ {x} \in SUBSET U
      BY <2>1, OneLess
    <3>4. g[s \ {x}] = h[s \ {x}] /\ g[s \ {x}] \in Nat
      BY <3>3
    <3>5. g[s] = w[x] + g[s \ {x}] /\ h[s] = v[x] + h[s \ {x}]
      BY <1>2, <3>1, <3>2 DEF RuleAt
    <3> QED BY <3>4, <3>5
  <2> QED BY <2>1
<1>5. Agree \in SUBSET Nat
  OBVIOUS
<1> HIDE DEF Agree
<1>6. Agree = Nat
  BY <1>3, <1>4, <1>5, NatSetInduction
<1>7. Cardinality(U) \in Nat
  BY <1>1
<1> QED BY <1>6, <1>7 DEF Agree

TakesFirst(g, w, U, x) == g[U] = w[x] + g[U \ {x}]

(* A sum may take any element first. *)
LEMMA SumTakesAny ==
    ASSUME NEW S, IsFiniteSet(S), NEW w \in [S -> Nat], NEW g, SumRule(g, w, S), NEW U \in SUBSET S, NEW x \in U
    PROVE  TakesFirst(g, w, U, x)
<1> DEFINE Free == {k \in Nat : \A s \in SUBSET S : \A y \in s : Cardinality(s) = k => g[s] = w[y] + g[s \ {y}]}
<1>1. \A s \in SUBSET S : g[s] = RuleAt(g, w, s)
  BY DEF SumRule
<1>2. \A s \in SUBSET S : IsFiniteSet(s) /\ Cardinality(s) \in Nat /\ (Cardinality(s) = 0 <=> s = {})
  BY FS_Subset, FS_CardinalityType, FS_EmptySet
<1>3. \A s \in SUBSET S : g[s] \in Nat
  <2>1. ASSUME NEW s \in SUBSET S PROVE g[s] \in Nat
    <3>1. \A y \in s : w[y] = w[y] /\ w[y] \in Nat
      OBVIOUS
    <3> QED BY <1>2, <3>1, SumsAgree
  <2> QED BY <2>1
<1>4. 0 \in Free
  BY <1>2
<1>5. ASSUME NEW k \in Free PROVE k + 1 \in Free
  <2>0. k \in Nat
    OBVIOUS
  <2>1. ASSUME NEW s \in SUBSET S, NEW y \in s, Cardinality(s) = k + 1 PROVE g[s] = w[y] + g[s \ {y}]
    <3>1. PICK c \in s : c = AnyOf(s)
      BY AnyOfSet
    <3>2. g[s] = w[c] + g[s \ {c}]
      BY <1>1, <3>1 DEF RuleAt
    <3>3. CASE y = c
      BY <3>2, <3>3
    <3>4. CASE y # c
      <4>1. PICK a \in SUBSET S, b \in SUBSET S, d \in SUBSET S : a = s \ {c} /\ b = s \ {y} /\ d = s \ {c, y}
        OBVIOUS
      <4>2. Cardinality(a) = k /\ Cardinality(b) = k
        BY <2>0, <2>1, <4>1, OneLess
      <4>3. y \in a /\ c \in b /\ a \ {y} = d /\ b \ {c} = d
        BY <3>4, <4>1
      <4>4. g[a] = w[y] + g[d] /\ g[b] = w[c] + g[d]
        BY <4>2, <4>3
      <4>5. w[c] \in Nat /\ w[y] \in Nat /\ g[d] \in Nat
        BY <1>3
      <4>6. g[s] = w[c] + g[a] /\ g[s \ {y}] = g[b]
        BY <3>2, <4>1
      <4> QED BY <4>4, <4>5, <4>6
    <3> QED BY <3>3, <3>4
  <2> QED BY <2>0, <2>1
<1>6. Free \in SUBSET Nat
  OBVIOUS
<1> HIDE DEF Free
<1>7. Free = Nat
  BY <1>4, <1>5, <1>6, NatSetInduction
<1>8. Cardinality(U) \in Nat
  BY <1>2
<1> QED BY <1>7, <1>8 DEF Free, TakesFirst

(* t is what the values of w add up to. *)
IsTotal(t, w) == \E g : SumRule(g, w, DOMAIN w) /\ t = g[DOMAIN w]

(* Nothing adds up to 0. *)
LEMMA TotalOfNothing == ASSUME NEW w, DOMAIN w = {}, NEW t, IsTotal(t, w) PROVE t = 0
BY DEF IsTotal, SumRule, RuleAt

(* Giving one more argument a value adds that value, or less when it had one before. *)
LEMMA TotalGrows ==
    ASSUME NEW D, IsFiniteSet(D), NEW w \in [D -> Nat], NEW t, IsTotal(t, w),
           NEW x, NEW v \in [D \cup {x} -> Nat], \A y \in D \ {x} : v[y] = w[y], NEW u, IsTotal(u, v)
    PROVE  t \in Nat /\ u \in Nat /\ u <= t + v[x] /\ (x \notin D => u = t + v[x])
<1>1. PICK g : SumRule(g, w, D) /\ t = g[D]
  BY DEF IsTotal
<1>2. PICK E : E = D \cup {x} /\ IsFiniteSet(E) /\ v \in [E -> Nat] /\ D \subseteq E /\ x \in E
  BY FS_AddElement
<1>3. PICK h : SumRule(h, v, E) /\ u = h[E]
  BY <1>2 DEF IsTotal
<1>4. PICK R : R = D \ {x} /\ R \subseteq D /\ R \subseteq E /\ IsFiniteSet(R) /\ R = E \ {x}
  <2>1. D \ {x} = (D \cup {x}) \ {x}
    OBVIOUS
  <2>2. IsFiniteSet(D \ {x})
    BY FS_Subset
  <2> QED BY <1>2, <2>1, <2>2
<1>5. \A y \in R : w[y] = v[y] /\ w[y] \in Nat
  BY <1>4
<1>6. g[R] = h[R] /\ g[R] \in Nat
  BY <1>1, <1>3, <1>4, <1>5, SumsAgree
<1>7. h[E] = v[x] + h[E \ {x}] /\ v[x] \in Nat
  <2>1. TakesFirst(h, v, E, x)
    BY <1>2, <1>3, SumTakesAny
  <2> QED BY <1>2, <2>1 DEF TakesFirst
<1>8. u = v[x] + g[R] /\ u \in Nat
  BY <1>3, <1>4, <1>6, <1>7
<1>9. CASE x \in D
  <2>1. TakesFirst(g, w, D, x)
    BY <1>1, <1>9, SumTakesAny
  <2>2. t = w[x] + g[R] /\ w[x] \in Nat
    BY <1>1, <1>4, <1>9, <2>1 DEF TakesFirst
  <2> QED BY <1>6, <1>7, <1>8, <1>9, <2>2
<1>10. CASE x \notin D
  <2>1. R = D
    BY <1>4, <1>10
  <2> QED BY <1>1, <1>6, <1>7, <1>8, <2>1
<1> QED BY <1>9, <1>10

SumsFrom(g, w, i, k) == g[i..k] = w[i] + g[(i + 1)..k]

(* The sum over the numbers from i to k, its first one taken first. *)
LEMMA SumFrom ==
    ASSUME NEW k \in Nat, NEW w \in [1..k -> Nat], NEW g, SumRule(g, w, 1..k), NEW i \in 1..k
    PROVE  SumsFrom(g, w, i, k)
<1>1. PICK D, s, j, v : D = 1..k /\ s = i..k /\ j = i /\ v = w
  OBVIOUS
<1>2. IsFiniteSet(D)
  BY <1>1, FS_Interval
<1>3. v \in [D -> Nat] /\ SumRule(g, v, D)
  BY <1>1
<1>4. s \in SUBSET D /\ j \in s
  BY <1>1
<1>5. TakesFirst(g, v, s, j)
  BY ONLY <1>2, <1>3, <1>4, SumTakesAny
<1>6. s \ {j} = (i + 1)..k
  BY <1>1
<1> QED BY <1>1, <1>5, <1>6 DEF TakesFirst, SumsFrom
=============================================================================
