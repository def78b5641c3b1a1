-------------------------------- MODULE Sums --------------------------------
(***************************************************************************)
(* What a sum over a finite set is, and how it changes with one of its     *)
(* terms.  The community modules define it by a recursive function on the  *)
(* subsets of the set.  The same of folds over a sequence, which are such  *)
(* functions too, and what may stand in for an induction over them.        *)
(***************************************************************************)
EXTENDS Integers, FiniteSetsExt, FiniteSetTheorems, WellFoundedInduction, TLAPS

\* A set of subsets of a finite set has a minimal one.
LEMMA MinimalSubset ==
  ASSUME NEW S, IsFiniteSet(S), NEW T \in SUBSET SUBSET S, T # {}
  PROVE  \E x \in T : \A y \in T : y \subseteq x => y = x
<1>1. IsWellFoundedOn(StrictSubsetOrdering(S), FiniteSubsetsOf(S))
  BY FS_StrictSubsetOrderingWellFounded
<1>2. T \subseteq FiniteSubsetsOf(S)
  BY FS_FiniteSubsetsOfFinite
<1>3. \E x \in T : \A y \in T : ~ (<<y, x>> \in StrictSubsetOrdering(S))
  BY <1>1, <1>2, WFMin
<1> QED BY <1>3 DEF StrictSubsetOrdering

-----------------------------------------------------------------------------
(* The recursive function exists and is one, for the subsets that contradict *)
(* it have a minimal one.                                                  *)

\* The element a sum takes first.
Chosen(S) == CHOOSE s \in S : TRUE

\* f[S] is the sum of weight[s] for s in S, for the subsets S of T.
SumsOn(f, weight, T) ==
  f = [S \in SUBSET T |-> IF S = {} THEN 0 ELSE weight[Chosen(S)] + f[S \ {Chosen(S)}]]

\* How the sum of a set follows from that of a smaller one.
LEMMA SumStep ==
  ASSUME NEW f, NEW weight, NEW T, SumsOn(f, weight, T)
  PROVE  /\ f[{}] = 0
         /\ \A S \in SUBSET T : S # {} =>
              /\ Chosen(S) \in S /\ S \ {Chosen(S)} \in SUBSET T
              /\ f[S] = weight[Chosen(S)] + f[S \ {Chosen(S)}]
<1>1. f[{}] = 0
  BY DEF SumsOn
<1>2. ASSUME NEW S \in SUBSET T, S # {}
      PROVE  /\ Chosen(S) \in S /\ S \ {Chosen(S)} \in SUBSET T
             /\ f[S] = weight[Chosen(S)] + f[S \ {Chosen(S)}]
  <2>1. Chosen(S) \in S
    BY <1>2 DEF Chosen
  <2>2. f[S] = weight[Chosen(S)] + f[S \ {Chosen(S)}]
    BY <1>2 DEF SumsOn
  <2> QED BY <2>1, <2>2
<1> QED BY <1>1, <1>2

\* Two such functions are the same.
LEMMA SumUnique ==
  ASSUME NEW T, IsFiniteSet(T), NEW weight, NEW f, SumsOn(f, weight, T),
         NEW g, SumsOn(g, weight, T)
  PROVE  f = g
<1> DEFINE differ == {S \in SUBSET T : f[S] # g[S]}
<1>1. differ = {}
  <2> SUFFICES ASSUME differ # {} PROVE FALSE
    OBVIOUS
  <2>1. PICK S \in differ : \A R \in differ : R \subseteq S => R = S
    <3>1. differ \in SUBSET SUBSET T
      OBVIOUS
    <3> HIDE DEF differ
    <3> QED BY <3>1, MinimalSubset
  <2>2. S \in SUBSET T /\ f[S] # g[S]
    OBVIOUS
  <2>3. S # {}
    BY <2>2, SumStep
  <2>4. /\ Chosen(S) \in S /\ S \ {Chosen(S)} \in SUBSET T
        /\ f[S] = weight[Chosen(S)] + f[S \ {Chosen(S)}]
        /\ g[S] = weight[Chosen(S)] + g[S \ {Chosen(S)}]
    BY <2>2, <2>3, SumStep
  <2>5. S \ {Chosen(S)} \notin differ
    BY <2>1, <2>4
  <2> QED BY <2>2, <2>4, <2>5
<1>2. \A S \in SUBSET T : f[S] = g[S]
  BY <1>1
<1>3. /\ f = [S \in SUBSET T |-> f[S]]
      /\ g = [S \in SUBSET T |-> g[S]]
  BY DEF SumsOn
<1> QED BY <1>2, <1>3

\* There is one.
LEMMA SumExists ==
  ASSUME NEW T, IsFiniteSet(T), NEW weight
  PROVE  \E f : SumsOn(f, weight, T)
<1> DEFINE value(S) == (CHOOSE f : SumsOn(f, weight, S))[S]
           F(U) == [S \in SUBSET U |-> value(S)]
           bad == {U \in SUBSET T : ~SumsOn(F(U), weight, U)}
<1> HIDE DEF value
<1>1. bad = {}
  <2> SUFFICES ASSUME bad # {} PROVE FALSE
    OBVIOUS
  <2>1. PICK U \in bad : \A R \in bad : R \subseteq U => R = U
    <3>1. bad \in SUBSET SUBSET T
      OBVIOUS
    <3> HIDE DEF bad
    <3> QED BY <3>1, MinimalSubset
  <2>2. U \in SUBSET T /\ ~SumsOn(F(U), weight, U)
    OBVIOUS
  <2> DEFINE rhs(S) == IF S = {} THEN 0 ELSE weight[Chosen(S)] + value(S \ {Chosen(S)})
  <2>3. ASSUME NEW S \in SUBSET U, S # U
        PROVE  value(S) = rhs(S)
    <3>1. SumsOn(F(S), weight, S)
      BY <2>1, <2>2, <2>3
    <3>2. F(S)[S] = value(S)
      OBVIOUS
    <3> DEFINE Fs == F(S)
    <3>3. Fs[{}] = 0 /\ (S # {} => /\ S \ {Chosen(S)} \in SUBSET S
                                   /\ Fs[S] = weight[Chosen(S)] + Fs[S \ {Chosen(S)}])
      <4> HIDE DEF Fs
      <4>1. SumsOn(Fs, weight, S)
        BY <3>1 DEF Fs
      <4>2. S \in SUBSET S
        OBVIOUS
      <4> QED BY <4>1, <4>2, SumStep
    <3> QED BY <3>2, <3>3
  <2> DEFINE G == [S \in SUBSET U |-> IF S = U THEN rhs(U) ELSE value(S)]
  <2>4. SumsOn(G, weight, U)
    <3>1. ASSUME NEW S \in SUBSET U
          PROVE  G[S] = IF S = {} THEN 0 ELSE weight[Chosen(S)] + G[S \ {Chosen(S)}]
      <4>1. G[S] = rhs(S)
        BY <2>3
      <4>2. CASE S = {}
        BY <4>1, <4>2
      <4>3. CASE S # {}
        <5>1. Chosen(S) \in S
          BY <4>3 DEF Chosen
        <5>2. S \ {Chosen(S)} \in SUBSET U /\ S \ {Chosen(S)} # U
          BY <5>1
        <5>3. G[S \ {Chosen(S)}] = value(S \ {Chosen(S)})
          BY <5>2
        <5> HIDE DEF G
        <5> QED BY <4>1, <4>3, <5>3
      <4> QED BY <4>2, <4>3
    <3>2. G = [S \in SUBSET U |-> G[S]]
      OBVIOUS
    <3> HIDE DEF G
    <3>3. [S \in SUBSET U |-> G[S]] =
            [S \in SUBSET U |-> IF S = {} THEN 0 ELSE weight[Chosen(S)] + G[S \ {Chosen(S)}]]
      BY <3>1
    <3> QED BY <3>2, <3>3 DEF SumsOn
  <2>5. value(U) = rhs(U)
    <3>1. G[U] = rhs(U)
      OBVIOUS
    <3> HIDE DEF G, rhs
    <3> DEFINE H == CHOOSE f : SumsOn(f, weight, U)
    <3>2. SumsOn(H, weight, U)
      BY <2>4
    <3>3. IsFiniteSet(U)
      BY <2>2, FS_Subset
    <3>4. H = G
      <4> HIDE DEF H
      <4> QED BY <2>4, <3>2, <3>3, SumUnique
    <3> QED BY <3>1, <3>4 DEF value
  <2>6. SumsOn(F(U), weight, U)
    <3>1. ASSUME NEW S \in SUBSET U
          PROVE  value(S) = IF S = {} THEN 0 ELSE weight[Chosen(S)] + F(U)[S \ {Chosen(S)}]
      <4>1. value(S) = rhs(S)
        BY <2>3, <2>5
      <4> QED BY <4>1
    <3> QED BY <3>1 DEF SumsOn
  <2> QED BY <2>2, <2>6
<1>2. SumsOn(F(T), weight, T)
  BY <1>1
<1> QED BY <1>2

\* Sums of natural numbers are natural numbers.
LEMMA SumNat ==
  ASSUME NEW T, IsFiniteSet(T), NEW weight, \A t \in T : weight[t] \in Nat, NEW f, SumsOn(f, weight, T)
  PROVE  \A S \in SUBSET T : f[S] \in Nat
<1> DEFINE bad == {S \in SUBSET T : f[S] \notin Nat}
<1> SUFFICES ASSUME bad # {} PROVE FALSE
  OBVIOUS
<1>1. PICK S \in bad : \A R \in bad : R \subseteq S => R = S
  <2>1. bad \in SUBSET SUBSET T
    OBVIOUS
  <2> HIDE DEF bad
  <2> QED BY <2>1, MinimalSubset
<1>2. S \in SUBSET T /\ f[S] \notin Nat
  OBVIOUS
<1>3. S # {}
  <2>1. f[{}] = 0
    BY SumStep
  <2> QED BY <1>2, <2>1
<1>4. /\ Chosen(S) \in S /\ S \ {Chosen(S)} \in SUBSET T
      /\ f[S] = weight[Chosen(S)] + f[S \ {Chosen(S)}]
  BY <1>2, <1>3, SumStep
<1>5. f[S \ {Chosen(S)}] \in Nat
  BY <1>1, <1>4
<1>6. weight[Chosen(S)] \in Nat
  BY <1>2, <1>4
<1> QED BY <1>2, <1>4, <1>5, <1>6

\* A sum changes by what one of its terms changes.
LEMMA SumChange ==
  ASSUME NEW T, IsFiniteSet(T), NEW weight, \A t \in T : weight[t] \in Nat,
         NEW w2, \A t \in T : w2[t] \in Nat,
         NEW e \in T, \A t \in T \ {e} : w2[t] = weight[t],
         NEW f, SumsOn(f, weight, T), NEW g, SumsOn(g, w2, T)
  PROVE  g[T] = f[T] + (w2[e] - weight[e])
<1> DEFINE change(S) == IF e \in S THEN w2[e] - weight[e] ELSE 0
           bad == {S \in SUBSET T : g[S] # f[S] + change(S)}
<1> SUFFICES ASSUME bad # {} PROVE FALSE
  OBVIOUS
<1>1. PICK S \in bad : \A R \in bad : R \subseteq S => R = S
  <2>1. bad \in SUBSET SUBSET T
    OBVIOUS
  <2> HIDE DEF bad
  <2> QED BY <2>1, MinimalSubset
<1>2. S \in SUBSET T /\ g[S] # f[S] + change(S)
  OBVIOUS
<1>3. S # {}
  <2>1. f[{}] = 0 /\ g[{}] = 0
    BY SumStep
  <2>2. change({}) = 0 /\ 0 = 0 + 0
    OBVIOUS
  <2> HIDE DEF change
  <2> QED BY <1>2, <2>1, <2>2
<1> DEFINE c == Chosen(S)
           R == S \ {c}
<1>4. /\ c \in S /\ R \in SUBSET T
      /\ f[S] = weight[c] + f[R] /\ g[S] = w2[c] + g[R]
  <2>1. c \in S /\ R \in SUBSET T /\ f[S] = weight[c] + f[R]
    <3>1. \A Q \in SUBSET T : Q # {} =>
            /\ Chosen(Q) \in Q /\ Q \ {Chosen(Q)} \in SUBSET T
            /\ f[Q] = weight[Chosen(Q)] + f[Q \ {Chosen(Q)}]
      BY SumStep
    <3> QED BY <1>2, <1>3, <3>1
  <2>2. g[S] = w2[c] + g[R]
    <3>1. \A Q \in SUBSET T : Q # {} => g[Q] = w2[Chosen(Q)] + g[Q \ {Chosen(Q)}]
      <4> HIDE DEF bad, change, c, R
      <4>1. /\ g[{}] = 0
            /\ \A Q \in SUBSET T : Q # {} =>
                 /\ Chosen(Q) \in Q /\ Q \ {Chosen(Q)} \in SUBSET T
                 /\ g[Q] = w2[Chosen(Q)] + g[Q \ {Chosen(Q)}]
        BY SumStep
      <4> QED BY <4>1
    <3> QED BY <1>2, <1>3, <3>1
  <2> QED BY <2>1, <2>2
<1>5. g[R] = f[R] + change(R)
  BY <1>1, <1>4
<1>6. /\ f[R] \in Nat /\ weight[c] \in Nat /\ w2[c] \in Nat /\ weight[e] \in Nat /\ w2[e] \in Nat
  <2>1. f[R] \in Nat
    <3> HIDE DEF R, bad
    <3> QED BY <1>4, SumNat
  <2> QED BY <1>2, <1>4, <2>1
<1>7. CASE c = e
  <2>1. change(R) = 0 /\ change(S) = w2[e] - weight[e]
    BY <1>4, <1>7
  <2> HIDE DEF change, R, c
  <2> QED BY <1>2, <1>4, <1>5, <1>6, <1>7, <2>1
<1>8. CASE c # e
  <2>1. change(R) = change(S) /\ w2[c] = weight[c] /\ change(S) \in Int
    BY <1>2, <1>4, <1>6, <1>8
  <2> HIDE DEF change, R, c
  <2> QED BY <1>2, <1>4, <1>5, <1>6, <2>1
<1> QED BY <1>7, <1>8

-----------------------------------------------------------------------------
(* Sums over sets *)

SumOf(weight, T) == MapThenSumSet(LAMBDA t : weight[t], T)

\* Such a sum is the value of the recursive function.
LEMMA SumOfIs ==
  ASSUME NEW T, IsFiniteSet(T), NEW weight, NEW f, SumsOn(f, weight, T)
  PROVE  SumOf(weight, T) = f[T]
<1> DEFINE Is(g) == g = [S \in SUBSET T |->
                           IF S = {} THEN 0
                           ELSE LET s == CHOOSE x \in S : TRUE
                                IN  weight[s] + g[S \ {s}]]
           g == CHOOSE h : Is(h)
<1>1. SumOf(weight, T) = g[T]
  BY DEF SumOf, MapThenSumSet, MapThenFoldSet
<1>2. ASSUME NEW h PROVE Is(h) <=> SumsOn(h, weight, T)
  BY DEF SumsOn, Chosen
<1> HIDE DEF Is
<1>3. Is(f)
  BY <1>2
<1>4. Is(g)
  BY <1>3
<1> HIDE DEF g
<1>5. SumsOn(g, weight, T)
  BY <1>2, <1>4
<1>6. g = f
  BY <1>5, SumUnique
<1> QED BY <1>1, <1>6

\* A sum of natural numbers is one.
LEMMA SumOfNat ==
  ASSUME NEW T, IsFiniteSet(T), NEW weight, \A t \in T : weight[t] \in Nat
  PROVE  SumOf(weight, T) \in Nat
<1>1. PICK f : SumsOn(f, weight, T)
  BY SumExists
<1>2. SumOf(weight, T) = f[T]
  BY <1>1, SumOfIs
<1>3. \A S \in SUBSET T : f[S] \in Nat
  BY <1>1, SumNat
<1>4. T \in SUBSET T
  OBVIOUS
<1> QED BY <1>2, <1>3, <1>4

\* It changes by what one of its terms does.
LEMMA SumOfChange ==
  ASSUME NEW T, IsFiniteSet(T), NEW weight, \A t \in T : weight[t] \in Nat,
         NEW w2, \A t \in T : w2[t] \in Nat,
         NEW e \in T, \A t \in T \ {e} : w2[t] = weight[t]
  PROVE  SumOf(w2, T) = SumOf(weight, T) + (w2[e] - weight[e])
<1>1. PICK f : SumsOn(f, weight, T)
  BY SumExists
<1>2. PICK g : SumsOn(g, w2, T)
  BY SumExists
<1>3. SumOf(weight, T) = f[T]
  BY <1>1, SumOfIs
<1>4. SumOf(w2, T) = g[T]
  BY <1>2, SumOfIs
<1>5. g[T] = f[T] + (w2[e] - weight[e])
  BY <1>1, <1>2, SumChange
<1> QED BY <1>3, <1>4, <1>5

\* It depends on its terms only.
LEMMA SumOfSame ==
  ASSUME NEW T, IsFiniteSet(T), NEW weight, NEW w2, \A t \in T : w2[t] = weight[t]
  PROVE  SumOf(w2, T) = SumOf(weight, T)
<1>1. PICK f : SumsOn(f, weight, T)
  BY SumExists
<1> DEFINE lhs(S) == IF S = {} THEN 0 ELSE weight[Chosen(S)] + f[S \ {Chosen(S)}]
           rhs(S) == IF S = {} THEN 0 ELSE w2[Chosen(S)] + f[S \ {Chosen(S)}]
<1>2. ASSUME NEW S \in SUBSET T PROVE lhs(S) = rhs(S)
  <2>1. S # {} => Chosen(S) \in T
    BY DEF Chosen
  <2> QED BY <2>1
<1> HIDE DEF lhs, rhs
<1>3. [S \in SUBSET T |-> lhs(S)] = [S \in SUBSET T |-> rhs(S)]
  BY <1>2
<1>4. SumsOn(f, w2, T)
  BY <1>1, <1>3 DEF SumsOn, lhs, rhs
<1>5. SumOf(weight, T) = f[T]
  BY <1>1, SumOfIs
<1>6. SumOf(w2, T) = f[T]
  BY <1>4, SumOfIs
<1> QED BY <1>5, <1>6

\* A sum of nothing is 0.
LEMMA SumOfNone ==
  ASSUME NEW T, IsFiniteSet(T), NEW weight, \A t \in T : weight[t] = 0
  PROVE  SumOf(weight, T) = 0
<1> DEFINE f == [S \in SUBSET T |-> 0]
<1>1. SumsOn(f, weight, T)
  <2>1. ASSUME NEW S \in SUBSET T, S # {}
        PROVE  weight[Chosen(S)] + f[S \ {Chosen(S)}] = 0
    <3>1. Chosen(S) \in S
      BY <2>1 DEF Chosen
    <3>2. weight[Chosen(S)] = 0 /\ f[S \ {Chosen(S)}] = 0
      BY <3>1
    <3> QED BY <3>2
  <2>2. f = [S \in SUBSET T |-> IF S = {} THEN 0 ELSE weight[Chosen(S)] + f[S \ {Chosen(S)}]]
    BY <2>1
  <2> QED BY <2>2 DEF SumsOn
<1>2. f[T] = 0
  OBVIOUS
<1> HIDE DEF f
<1> QED BY <1>1, <1>2, SumOfIs

-----------------------------------------------------------------------------
(* Folds over 1 .. n *)

\* A set of numbers up to n has a least one.
LEMMA LeastOf ==
  ASSUME NEW n \in Nat, NEW S \in SUBSET (1 .. n), S # {}
  PROVE  \E m \in S : \A k \in S : m <= k
<1> DEFINE below(m) == {k \in S : k <= m}
           T == {below(m) : m \in S}
           U == 1 .. n
<1>1. T \in SUBSET SUBSET U /\ T # {}
  OBVIOUS
<1>2. PICK x \in T : \A y \in T : y \subseteq x => y = x
  <2>1. IsFiniteSet(U)
    BY FS_Interval, 1 \in Int, n \in Int
  <2> HIDE DEF T, U
  <2> QED BY <1>1, <2>1, MinimalSubset
<1>3. PICK m \in S : x = below(m)
  OBVIOUS
<1>4. ASSUME NEW k \in S PROVE m <= k
  <2> SUFFICES ASSUME k < m PROVE FALSE
    OBVIOUS
  <2>1. below(k) \in T
    OBVIOUS
  <2>3. below(k) \subseteq below(m)
    <3> SUFFICES ASSUME NEW j \in S, j <= k PROVE j <= m
      OBVIOUS
    <3> QED OBVIOUS
  <2>2. m \in below(m) /\ m \notin below(k)
    OBVIOUS
  <2> QED BY <1>2, <1>3, <2>1, <2>2, <2>3
<1> QED BY <1>4

\* A set of numbers up to n has a greatest one, which is its maximum.
LEMMA MaxIn ==
  ASSUME NEW n \in Nat, NEW S \in SUBSET (1 .. n), S # {}
  PROVE  Max(S) \in S /\ \A x \in S : x <= Max(S)
<1> DEFINE above(m) == {k \in S : k >= m}
           T == {above(m) : m \in S}
           U == 1 .. n
<1>1. T \in SUBSET SUBSET U /\ T # {}
  OBVIOUS
<1>2. PICK x \in T : \A y \in T : y \subseteq x => y = x
  <2>1. IsFiniteSet(U)
    BY FS_Interval, 1 \in Int, n \in Int
  <2> HIDE DEF T, U
  <2> QED BY <1>1, <2>1, MinimalSubset
<1>3. PICK m \in S : x = above(m)
  OBVIOUS
<1>4. ASSUME NEW k \in S PROVE k <= m
  <2> SUFFICES ASSUME m < k PROVE FALSE
    OBVIOUS
  <2>1. above(k) \in T
    OBVIOUS
  <2>3. above(k) \subseteq above(m)
    <3> SUFFICES ASSUME NEW j \in S, j >= k PROVE j >= m
      OBVIOUS
    <3> QED OBVIOUS
  <2>2. m \in above(m) /\ m \notin above(k)
    OBVIOUS
  <2> QED BY <1>2, <1>3, <2>1, <2>2, <2>3
<1>5. \E y \in S : \A z \in S : y >= z
  BY <1>4
<1> QED BY <1>5 DEF Max

\* The values of a fold, on the subsets of 1 .. n, with F for the operator.
FoldsBy(f, F, a, w, n) ==
  \A s \in SUBSET (1 .. n) : f[s] = IF s = {} THEN a ELSE F[<<f[s \ {Max(s)}], w[Max(s)]>>]

\* A fold exists.
LEMMA FoldExists ==
  ASSUME NEW D, NEW E, NEW a \in D, NEW n \in Nat, NEW w \in [1 .. n -> E], NEW F \in [D \X E -> D]
  PROVE  \E f \in [SUBSET (1 .. n) -> D] : FoldsBy(f, F, a, w, n)
<1> DEFINE ok(k) == \E f \in [SUBSET (1 .. k) -> D] : FoldsBy(f, F, a, w, k)
           bad == {k \in 1 .. n : ~ok(k)}
<1>1. ok(0)
  <2> DEFINE f == [s \in SUBSET (1 .. 0) |-> a]
  <2>1. f \in [SUBSET (1 .. 0) -> D]
    OBVIOUS
  <2>2. \A s \in SUBSET (1 .. 0) : s = {} /\ f[s] = a
    OBVIOUS
  <2>3. FoldsBy(f, F, a, w, 0)
    BY <2>2 DEF FoldsBy
  <2> QED BY <2>1, <2>3
<1>2. ASSUME NEW k \in 0 .. n - 1, ok(k) PROVE ok(k + 1)
  <2>1. PICK f \in [SUBSET (1 .. k) -> D] : FoldsBy(f, F, a, w, k)
    BY <1>2
  <2> DEFINE g == [s \in SUBSET (1 .. k + 1) |->
                     IF k + 1 \in s THEN F[<<f[s \ {k + 1}], w[k + 1]>>] ELSE f[s]]
  <2>2. k \in Nat /\ k + 1 \in 1 .. n
    OBVIOUS
  <2>3. ASSUME NEW s \in SUBSET (1 .. k + 1)
        PROVE  /\ g[s] \in D
               /\ g[s] = IF s = {} THEN a ELSE F[<<g[s \ {Max(s)}], w[Max(s)]>>]
    <3>1. CASE k + 1 \in s
      <4>1. Max(s) = k + 1
        <5>1. k + 1 \in Nat
          BY <2>2
        <5>2. Max(s) \in s /\ k + 1 <= Max(s)
          BY <3>1, <5>1, MaxIn
        <5>3. Max(s) \in 1 .. k + 1
          BY <5>2
        <5> QED BY <2>2, <5>2, <5>3
      <4>2. s \ {k + 1} \in SUBSET (1 .. k) /\ k + 1 \notin s \ {k + 1}
        BY <2>2
      <4>3. s \ {k + 1} \in SUBSET (1 .. k + 1)
        OBVIOUS
      <4>4. g[s \ {k + 1}] = f[s \ {k + 1}]
        BY <4>2, <4>3
      <4>5. f[s \ {k + 1}] \in D /\ w[k + 1] \in E
        BY <2>2, <4>2
      <4>6. g[s] = F[<<f[s \ {k + 1}], w[k + 1]>>]
        BY <3>1
      <4>7. F[<<f[s \ {k + 1}], w[k + 1]>>] \in D
        BY <4>5
      <4> QED BY <3>1, <4>1, <4>4, <4>6, <4>7
    <3>2. CASE k + 1 \notin s
      <4>1. s \in SUBSET (1 .. k)
        BY <2>2, <3>2
      <4>2. g[s] = f[s] /\ f[s] \in D
        BY <3>2, <4>1
      <4>3. f[s] = IF s = {} THEN a ELSE F[<<f[s \ {Max(s)}], w[Max(s)]>>]
        BY <2>1, <4>1 DEF FoldsBy
      <4>4. g[s \ {Max(s)}] = f[s \ {Max(s)}]
        BY <3>2
      <4> QED BY <4>2, <4>3, <4>4
    <3> QED BY <3>1, <3>2
  <2>4. g \in [SUBSET (1 .. k + 1) -> D]
    <3>1. \A s \in SUBSET (1 .. k + 1) : g[s] \in D
      BY <2>3
    <3>2. g = [s \in SUBSET (1 .. k + 1) |-> g[s]]
      OBVIOUS
    <3> HIDE DEF g
    <3> QED BY <3>1, <3>2
  <2>5. FoldsBy(g, F, a, w, k + 1)
    <3> HIDE DEF g
    <3> QED BY <2>3 DEF FoldsBy
  <2> HIDE DEF g
  <2> QED BY <2>4, <2>5
<1>3. ASSUME bad # {} PROVE FALSE
  <2>1. PICK m \in bad : \A k \in bad : m <= k
    <3>1. bad \in SUBSET (1 .. n)
      OBVIOUS
    <3> HIDE DEF bad
    <3> QED BY <1>3, <3>1, LeastOf
  <2>2. m \in 1 .. n /\ ~ok(m)
    OBVIOUS
  <2>3. m - 1 \in 0 .. n - 1 /\ (m - 1) + 1 = m
    BY <2>2
  <2>4. ok(m - 1)
    <3>1. CASE m - 1 = 0
      BY <1>1, <3>1
    <3>2. CASE m - 1 # 0
      <4>1. m - 1 \in 1 .. n /\ ~(m <= m - 1)
        BY <2>2, <3>2
      <4>2. m - 1 \notin bad
        BY <2>1, <4>1
      <4> QED BY <4>1, <4>2
    <3> QED BY <3>1, <3>2
  <2> HIDE DEF ok
  <2> QED BY <1>2, <2>2, <2>3, <2>4
<1>4. n = 0 \/ n \in 1 .. n
  OBVIOUS
<1>5. ok(n)
  BY <1>1, <1>3, <1>4
<1> QED BY <1>5

\* The set of the first k numbers.
LEMMA FirstK ==
  ASSUME NEW k \in Nat \ {0}
  PROVE  1 .. k # {} /\ Max(1 .. k) = k /\ (1 .. k) \ {k} = 1 .. k - 1
<1>1. k \in 1 .. k /\ (1 .. k) \ {k} = 1 .. k - 1
  OBVIOUS
<1>2. Max(1 .. k) \in 1 .. k /\ k <= Max(1 .. k)
  BY <1>1, MaxIn
<1> DEFINE m == Max(1 .. k)
<1>3. m \in 1 .. k /\ k <= m
  BY <1>2
<1> HIDE DEF m
<1>4. m = k
  BY <1>3
<1> QED BY <1>1, <1>4 DEF m

\* What holds at 0, and at each number up to n if at the one before, holds up to n.
LEMMA UpTo ==
  ASSUME NEW n \in Nat, NEW S, 0 \in S, \A k \in 1 .. n : k - 1 \in S => k \in S
  PROVE  0 .. n \subseteq S
<1> DEFINE bad == (1 .. n) \ S
<1> SUFFICES ASSUME bad # {} PROVE FALSE
  OBVIOUS
<1>1. PICK m \in bad : \A k \in bad : m <= k
  <2>1. bad \in SUBSET (1 .. n)
    OBVIOUS
  <2> HIDE DEF bad
  <2> QED BY <2>1, LeastOf
<1>2. m \in 1 .. n /\ m \notin S /\ m - 1 \notin bad
  BY <1>1
<1>3. m - 1 \in S
  BY <1>2
<1> QED BY <1>2, <1>3
=============================================================================
