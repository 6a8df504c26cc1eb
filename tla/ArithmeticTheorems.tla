------------------------ MODULE ArithmeticTheorems ------------------------
(***************************************************************************)
(* What the proofs need of numbers: quotients, and sums of the values of a *)
(* function over a finite set (SumFunctionOnSet of the community modules). *)
(* A sum is defined by recursion on the set, so its facts are proved by    *)
(* induction on finite sets: a subset without the property would have a    *)
(* smallest one below it.  Folds over sequences (FoldLeft) come from the   *)
(* same recursion, on sets of positions.                                   *)
(***************************************************************************)
EXTENDS Integers, SequencesExt, FiniteSetTheorems, TLAPS

-----------------------------------------------------------------------------
(***************************************************************************)
(* Products and quotients.                                                 *)
(***************************************************************************)
\* a lies in the interval of length n that its quotient names.
LEMMA DivBounds ==
    ASSUME NEW n \in Nat \ {0}, NEW a \in Nat
    PROVE  /\ a \div n \in Nat
           /\ n * (a \div n) <= a
           /\ a < n * (a \div n) + n
  OBVIOUS

\* A larger factor gives no smaller product.
LEMMA TimesMonotone ==
    ASSUME NEW n \in Nat, NEW x \in Nat, NEW y \in Nat, x <= y
    PROVE  n * x <= n * y
  OBVIOUS

\* One step further in a product.
LEMMA TimesSuccessor ==
    ASSUME NEW n \in Nat, NEW x \in Nat
    PROVE  /\ n * x \in Nat
           /\ n * (x + 1) = n * x + n
           /\ x * n = n * x
           /\ (x + 1) * n = n * x + n
  OBVIOUS

-----------------------------------------------------------------------------
(***************************************************************************)
(* Induction on finite sets.                                               *)
(***************************************************************************)
\* Some set of a family of subsets of a finite set has none of them below it.
LEMMA MinimalSubset ==
  ASSUME NEW S, IsFiniteSet(S), NEW Bad, Bad \subseteq SUBSET S, Bad # {}
  PROVE  \E T \in Bad : \A U \in Bad : ~(U \subseteq T /\ U # T)
<1>1. IsWellFoundedOn(StrictSubsetOrdering(S), SUBSET S)
  BY FS_StrictSubsetOrderingWellFounded, FS_FiniteSubsetsOfFinite
<1>2. PICK T \in Bad : \A U \in Bad : ~(<<U, T>> \in StrictSubsetOrdering(S))
  BY <1>1, WFMin
<1> QED BY <1>2 DEF StrictSubsetOrdering

\* What holds of every subset that it holds of all smaller ones of, holds of all.
LEMMA FiniteInduction ==
  ASSUME NEW S, IsFiniteSet(S), NEW Good,
         \A T \in SUBSET S : (\A U \in SUBSET T : U # T => U \in Good) => T \in Good
  PROVE  \A T \in SUBSET S : T \in Good
<1> SUFFICES ASSUME (SUBSET S) \ Good # {} PROVE FALSE
  OBVIOUS
<1> DEFINE Bad == (SUBSET S) \ Good
<1>1. Bad \subseteq SUBSET S /\ Bad # {}
  OBVIOUS
<1>2. PICK T \in Bad : \A U \in Bad : ~(U \subseteq T /\ U # T)
  <2> HIDE DEF Bad
  <2> QED BY <1>1, MinimalSubset
<1> QED BY <1>2

\* The largest value of a function on a finite set.
LEMMA LargestValue ==
  ASSUME NEW f, NEW S, IsFiniteSet(S), S # {}, \A x \in S : f[x] \in Int
  PROVE  \E m \in S : \A x \in S : f[x] <= f[m]
<1> DEFINE Good == {s \in SUBSET S : s # {} => \E m \in s : \A x \in s : f[x] <= f[m]}
<1>1. ASSUME NEW s \in SUBSET S, \A u \in SUBSET s : u # s => u \in Good PROVE s \in Good
  <2> SUFFICES ASSUME s # {} PROVE \E m \in s : \A x \in s : f[x] <= f[m]
    OBVIOUS
  <2>1. PICK y \in s : TRUE
    OBVIOUS
  <2>2. s \ {y} \in Good
    BY <1>1, <2>1
  <2>3. CASE s \ {y} = {}
    BY <2>1, <2>3
  <2>4. CASE s \ {y} # {}
    <3>1. PICK m \in s \ {y} : \A x \in s \ {y} : f[x] <= f[m]
      BY <2>2, <2>4
    <3>2. f[y] \in Int /\ f[m] \in Int /\ \A x \in s : f[x] \in Int
      OBVIOUS
    <3>3. CASE f[y] <= f[m]
      BY <3>1, <3>3
    <3>4. CASE ~(f[y] <= f[m])
      <4>1. \A x \in s : f[x] <= f[y]
        BY <3>1, <3>2, <3>4
      <4> QED BY <4>1, <2>1
    <3> QED BY <3>3, <3>4
  <2> QED BY <2>3, <2>4
<1>2. S \in Good
  <2> HIDE DEF Good
  <2>1. \A s \in SUBSET S : s \in Good
    BY <1>1, FiniteInduction
  <2> QED BY <2>1
<1> QED BY <1>2

-----------------------------------------------------------------------------
(***************************************************************************)
(* Sums. SumFunctionOnSet takes the elements one after another in an order *)
(* that is chosen: the function it chooses exists and there is only one on *)
(* each subset, so any element may come first.                             *)
(***************************************************************************)
Pick(s) == CHOOSE x \in s : TRUE
Adds(g, f, S) == g = [s \in SUBSET S |-> IF s = {} THEN 0 ELSE f[Pick(s)] + g[s \ {Pick(s)}]]

\* The definition of a sum, in the terms used here.
LEMMA SumIsChosen ==
  ASSUME NEW f, NEW S
  PROVE  SumFunctionOnSet(f, S) = (CHOOSE g : Adds(g, f, S))[S]
BY DEF SumFunctionOnSet, FoldFunctionOnSet, MapThenFoldSet, Adds, Pick

\* A function that adds up starts from 0.
LEMMA AddsEmpty ==
  ASSUME NEW f, NEW S, NEW g, Adds(g, f, S)
  PROVE  g[{}] = 0
<1>1. {} \in SUBSET S
  OBVIOUS
<1> QED BY <1>1 DEF Adds

\* A function that adds up adds the chosen element to the sum of the others.
LEMMA AddsAt ==
  ASSUME NEW f, NEW S, NEW g, Adds(g, f, S), NEW s \in SUBSET S, s # {}
  PROVE  /\ g[s] = f[Pick(s)] + g[s \ {Pick(s)}]
         /\ Pick(s) \in s /\ s \ {Pick(s)} \in SUBSET s /\ s \ {Pick(s)} # s
BY DEF Adds, Pick

\* Two functions that add up agree where both are defined.
LEMMA AddsUnique ==
  ASSUME NEW f, NEW S, NEW T, IsFiniteSet(T), T \subseteq S, NEW g, NEW h, Adds(g, f, T), Adds(h, f, S)
  PROVE  g[T] = h[T]
<1> DEFINE Good == {s \in SUBSET T : g[s] = h[s]}
<1>1. ASSUME NEW s \in SUBSET T, \A u \in SUBSET s : u # s => u \in Good PROVE s \in Good
  <2>1. CASE s = {}
    <3>1. g[{}] = 0 /\ h[{}] = 0
      BY AddsEmpty
    <3> QED BY <2>1, <3>1
  <2>2. CASE s # {}
    <3>1. g[s] = f[Pick(s)] + g[s \ {Pick(s)}] /\ h[s] = f[Pick(s)] + h[s \ {Pick(s)}]
      BY <2>2, AddsAt
    <3>2. s \ {Pick(s)} \in Good
      BY <1>1, <2>2, AddsAt
    <3> QED BY <3>1, <3>2
  <2> QED BY <2>1, <2>2
<1>2. \A s \in SUBSET T : s \in Good
  <2> HIDE DEF Good
  <2> QED BY <1>1, FiniteInduction
<1> QED BY <1>2

\* There is a function that adds up.
LEMMA AddsExists ==
  ASSUME NEW f, NEW S, IsFiniteSet(S)
  PROVE  \E g : Adds(g, f, S)
<1> DEFINE Good == {s \in SUBSET S : \E g : Adds(g, f, s)}
           V(s) == (CHOOSE g : Adds(g, f, s))[s]
<1>1. ASSUME NEW t \in SUBSET S, \A u \in SUBSET t : u # t => u \in Good PROVE t \in Good
  <2> DEFINE W(s) == IF s # t THEN V(s) ELSE IF s = {} THEN 0 ELSE f[Pick(s)] + V(s \ {Pick(s)})
             G == [s \in SUBSET t |-> W(s)]
  <2>1. ASSUME NEW s \in SUBSET t
        PROVE  G[s] = IF s = {} THEN 0 ELSE f[Pick(s)] + G[s \ {Pick(s)}]
    <3>1. CASE s = t
      BY <3>1 DEF Pick
    <3>2. CASE s # t
      <4> DEFINE h == CHOOSE g : Adds(g, f, s)
      <4>1. Adds(h, f, s)
        BY <1>1, <3>2
      <4>2. G[s] = h[s]
        BY <3>2
      <4>3. CASE s = {}
        <5> HIDE DEF h, G
        <5>1. h[{}] = 0
          BY <4>1, AddsEmpty
        <5> QED BY <4>2, <4>3, <5>1
      <4>4. CASE s # {}
        <5> DEFINE r == s \ {Pick(s)}
                   k == CHOOSE g : Adds(g, f, r)
        <5>1. r \in SUBSET s /\ r # s /\ r # t /\ r \in SUBSET t
          BY <4>4 DEF Pick
        <5>2. G[r] = k[r]
          BY <5>1
        <5>3. Adds(k, f, r)
          BY <1>1, <5>1
        <5>4. IsFiniteSet(r)
          BY <5>1, FS_Subset
        <5>5. k[r] = h[r]
          <6> HIDE DEF h, k, r
          <6> QED BY <4>1, <5>1, <5>3, <5>4, AddsUnique
        <5>6. h[s] = f[Pick(s)] + h[r]
          <6>1. s \in SUBSET s
            OBVIOUS
          <6> HIDE DEF h
          <6> QED BY <4>1, <4>4, <6>1, AddsAt
        <5> HIDE DEF h, k, G
        <5> QED BY <4>2, <5>2, <5>5, <5>6, <4>4
      <4> QED BY <4>3, <4>4
    <3> QED BY <3>1, <3>2
  <2> HIDE DEF W
  <2>2. Adds(G, f, t)
    BY <2>1 DEF Adds
  <2> QED BY <2>2
<1>2. \A t \in SUBSET S : t \in Good
  <2> HIDE DEF Good
  <2> QED BY <1>1, FiniteInduction
<1> QED BY <1>2

\* A sum adds up some element and the sum of the others.
LEMMA SumPick ==
  ASSUME NEW f, NEW S, IsFiniteSet(S)
  PROVE  /\ S = {} => SumFunctionOnSet(f, S) = 0
         /\ S # {} => /\ SumFunctionOnSet(f, S) = f[Pick(S)] + SumFunctionOnSet(f, S \ {Pick(S)})
                      /\ Pick(S) \in S /\ S \ {Pick(S)} \in SUBSET S /\ S \ {Pick(S)} # S
<1> DEFINE g == CHOOSE a : Adds(a, f, S)
           r == S \ {Pick(S)}
           h == CHOOSE a : Adds(a, f, r)
<1>1. Adds(g, f, S)
  BY AddsExists
<1>2. SumFunctionOnSet(f, S) = g[S]
  BY SumIsChosen
<1>3. IsFiniteSet(r)
  BY FS_Subset
<1>4. Adds(h, f, r)
  <2> HIDE DEF r
  <2> QED BY <1>3, AddsExists
<1>5. SumFunctionOnSet(f, r) = h[r]
  BY SumIsChosen
<1>6. h[r] = g[r]
  <2>1. r \subseteq S
    OBVIOUS
  <2> HIDE DEF g, h, r
  <2> QED BY <1>1, <1>3, <1>4, <2>1, AddsUnique
<1>7. S \in SUBSET S
  OBVIOUS
<1> HIDE DEF g, h
<1>8. g[{}] = 0
  BY <1>1, AddsEmpty
<1>9. S # {} => g[S] = f[Pick(S)] + g[r] /\ Pick(S) \in S
  BY <1>1, <1>7, AddsAt
<1>10. S # {} => r \in SUBSET S /\ r # S
  BY <1>9
<1> HIDE DEF r
<1>11. S # {} => SumFunctionOnSet(f, S) = f[Pick(S)] + SumFunctionOnSet(f, r)
  BY <1>2, <1>5, <1>6, <1>9
<1> QED BY <1>2, <1>8, <1>9, <1>10, <1>11 DEF r

\* Sums of integers are integers, of naturals naturals.
LEMMA SumType ==
  ASSUME NEW f, NEW S, IsFiniteSet(S), NEW N \in {Nat, Int}, \A x \in S : f[x] \in N
  PROVE  SumFunctionOnSet(f, S) \in N
<1> DEFINE Good == {s \in SUBSET S : SumFunctionOnSet(f, s) \in N}
<1>1. ASSUME NEW s \in SUBSET S, \A u \in SUBSET s : u # s => u \in Good PROVE s \in Good
  <2>1. IsFiniteSet(s)
    BY FS_Subset
  <2>2. CASE s = {}
    <3>1. SumFunctionOnSet(f, {}) = 0
      BY SumPick, FS_EmptySet
    <3> QED BY <2>2, <3>1
  <2>3. CASE s # {}
    <3>1. SumFunctionOnSet(f, s \ {Pick(s)}) \in N /\ f[Pick(s)] \in N
      BY <1>1, <2>1, <2>3, SumPick
    <3>2. SumFunctionOnSet(f, s) = f[Pick(s)] + SumFunctionOnSet(f, s \ {Pick(s)})
      BY <2>1, <2>3, SumPick
    <3> QED BY <3>1, <3>2
  <2> QED BY <2>2, <2>3
<1>2. \A s \in SUBSET S : s \in Good
  <2> HIDE DEF Good
  <2> QED BY <1>1, FiniteInduction
<1> QED BY <1>2

\* Any element may be taken out first.
LEMMA SumRemove ==
  ASSUME NEW f, NEW S, IsFiniteSet(S), \A x \in S : f[x] \in Int, NEW x \in S
  PROVE  SumFunctionOnSet(f, S) = f[x] + SumFunctionOnSet(f, S \ {x})
<1> DEFINE Good == {s \in SUBSET S : \A y \in s : SumFunctionOnSet(f, s) = f[y] + SumFunctionOnSet(f, s \ {y})}
<1>1. ASSUME NEW s \in SUBSET S, \A u \in SUBSET s : u # s => u \in Good PROVE s \in Good
  <2> SUFFICES ASSUME NEW y \in s PROVE SumFunctionOnSet(f, s) = f[y] + SumFunctionOnSet(f, s \ {y})
    OBVIOUS
  <2> DEFINE p == Pick(s)
  <2>1. \A u \in SUBSET s : IsFiniteSet(u)
    BY FS_Subset
  <2>2. SumFunctionOnSet(f, s) = f[p] + SumFunctionOnSet(f, s \ {p}) /\ p \in s
    BY <2>1, SumPick
  <2>3. CASE y = p
    BY <2>2, <2>3
  <2>4. CASE y # p
    <3>1. SumFunctionOnSet(f, s \ {p}) = f[y] + SumFunctionOnSet(f, (s \ {p}) \ {y})
      BY <1>1, <2>2, <2>4
    <3>2. SumFunctionOnSet(f, s \ {y}) = f[p] + SumFunctionOnSet(f, (s \ {y}) \ {p})
      BY <1>1, <2>2, <2>4
    <3>3. (s \ {p}) \ {y} = (s \ {y}) \ {p}
      OBVIOUS
    <3> DEFINE q == (s \ {y}) \ {p}
    <3>4. SumFunctionOnSet(f, q) \in Int
      <4>1. IsFiniteSet(q) /\ \A z \in q : f[z] \in Int
        BY <2>1
      <4> HIDE DEF q
      <4> QED BY <4>1, SumType
    <3>5. f[y] \in Int /\ f[p] \in Int
      BY <2>2
    <3> HIDE DEF q, p
    <3>6. SumFunctionOnSet(f, s \ {p}) = f[y] + SumFunctionOnSet(f, q) /\ SumFunctionOnSet(f, s \ {y}) = f[p] + SumFunctionOnSet(f, q)
      BY <3>1, <3>2, <3>3 DEF q
    <3> QED BY <3>4, <3>5, <3>6, <2>2
  <2> QED BY <2>3, <2>4
<1>2. \A s \in SUBSET S : s \in Good
  <2> HIDE DEF Good
  <2> QED BY <1>1, FiniteInduction
<1> QED BY <1>2

\* A sum depends on the values of the elements only.
LEMMA SumSame ==
  ASSUME NEW f, NEW g, NEW S, IsFiniteSet(S), \A x \in S : f[x] = g[x]
  PROVE  SumFunctionOnSet(f, S) = SumFunctionOnSet(g, S)
<1> DEFINE Good == {s \in SUBSET S : SumFunctionOnSet(f, s) = SumFunctionOnSet(g, s)}
<1>1. ASSUME NEW s \in SUBSET S, \A u \in SUBSET s : u # s => u \in Good PROVE s \in Good
  <2>1. IsFiniteSet(s)
    BY FS_Subset
  <2>2. CASE s = {}
    <3>1. SumFunctionOnSet(f, {}) = 0 /\ SumFunctionOnSet(g, {}) = 0
      BY SumPick, FS_EmptySet
    <3> QED BY <2>2, <3>1
  <2>3. CASE s # {}
    <3> DEFINE r == s \ {Pick(s)}
    <3>1. SumFunctionOnSet(f, s) = f[Pick(s)] + SumFunctionOnSet(f, r) /\ Pick(s) \in s /\ r \in SUBSET s /\ r # s
      BY <2>1, <2>3, SumPick
    <3>2. SumFunctionOnSet(g, s) = g[Pick(s)] + SumFunctionOnSet(g, r)
      BY <2>1, <2>3, SumPick
    <3>3. SumFunctionOnSet(f, r) = SumFunctionOnSet(g, r)
      BY <1>1, <3>1
    <3> HIDE DEF r
    <3> QED BY <3>1, <3>2, <3>3
  <2> QED BY <2>2, <2>3
<1>2. \A s \in SUBSET S : s \in Good
  <2> HIDE DEF Good
  <2> QED BY <1>1, FiniteInduction
<1> QED BY <1>2

\* Every element of a sum of naturals is a part of it.
LEMMA SumBounds ==
  ASSUME NEW f, NEW S, IsFiniteSet(S), \A x \in S : f[x] \in Nat, NEW x \in S
  PROVE  f[x] <= SumFunctionOnSet(f, S)
<1>1. IsFiniteSet(S \ {x}) /\ \A y \in S \ {x} : f[y] \in Nat
  BY FS_Subset
<1>2. SumFunctionOnSet(f, S \ {x}) \in Nat
  BY <1>1, SumType
<1>3. SumFunctionOnSet(f, S) = f[x] + SumFunctionOnSet(f, S \ {x})
  BY SumRemove
<1> QED BY <1>2, <1>3

\* A sum of nothing is 0.
LEMMA SumEmpty == ASSUME NEW f PROVE SumFunctionOnSet(f, {}) = 0
BY SumPick, FS_EmptySet

\* A sum over one more element.
LEMMA SumAddElement ==
  ASSUME NEW f, NEW S, IsFiniteSet(S), NEW x, x \notin S, f[x] \in Int, \A y \in S : f[y] \in Int
  PROVE  SumFunctionOnSet(f, S \cup {x}) = SumFunctionOnSet(f, S) + f[x]
<1> DEFINE T == S \cup {x}
<1>1. IsFiniteSet(T)
  BY FS_AddElement
<1>2. x \in T /\ \A y \in T : f[y] \in Int
  OBVIOUS
<1> DEFINE R == T \ {x}
<1>3. R = S
  OBVIOUS
<1>4. SumFunctionOnSet(f, S) \in Int
  BY SumType
<1> HIDE DEF T
<1>5. SumFunctionOnSet(f, T) = f[x] + SumFunctionOnSet(f, R)
  BY <1>1, <1>2, SumRemove
<1> HIDE DEF R
<1>6. SumFunctionOnSet(f, T) = SumFunctionOnSet(f, S) + f[x]
  BY <1>3, <1>4, <1>5
<1> QED BY <1>6 DEF T

\* A sum of one value is that value.
LEMMA SumSingleton ==
  ASSUME NEW f, NEW x, f[x] \in Int
  PROVE  SumFunctionOnSet(f, {x}) = f[x]
<1>1. {} \cup {x} = {x}
  OBVIOUS
<1>2. SumFunctionOnSet(f, {} \cup {x}) = SumFunctionOnSet(f, {}) + f[x]
  BY FS_EmptySet, SumAddElement
<1>3. SumFunctionOnSet(f, {} \cup {x}) = f[x]
  BY <1>2, SumEmpty
<1> QED BY <1>1, <1>3

\* A sum of zeros is 0.
LEMMA SumOfZeros ==
  ASSUME NEW f, NEW S, IsFiniteSet(S), \A x \in S : f[x] = 0
  PROVE  SumFunctionOnSet(f, S) = 0
<1> DEFINE Good == {s \in SUBSET S : SumFunctionOnSet(f, s) = 0}
<1>1. ASSUME NEW s \in SUBSET S, \A u \in SUBSET s : u # s => u \in Good PROVE s \in Good
  <2>1. CASE s = {}
    <3>1. SumFunctionOnSet(f, {}) = 0
      BY SumEmpty
    <3> QED BY <2>1, <3>1
  <2>2. CASE s # {}
    <3> DEFINE r == s \ {Pick(s)}
    <3>1. IsFiniteSet(s)
      BY FS_Subset
    <3>2. SumFunctionOnSet(f, s) = f[Pick(s)] + SumFunctionOnSet(f, r) /\ Pick(s) \in s /\ r \in SUBSET s /\ r # s
      BY <2>2, <3>1, SumPick
    <3>3. SumFunctionOnSet(f, r) = 0
      BY <1>1, <3>2
    <3> QED BY <3>2, <3>3
  <2> QED BY <2>1, <2>2
<1>2. \A s \in SUBSET S : s \in Good
  <2> HIDE DEF Good
  <2> QED BY <1>1, FiniteInduction
<1> QED BY <1>2

\* One value changes, and the sum by the difference.
LEMMA SumChange ==
  ASSUME NEW f, NEW g, NEW S, IsFiniteSet(S), NEW x \in S,
         \A y \in S : f[y] \in Int, g[x] \in Int, \A y \in S \ {x} : g[y] = f[y]
  PROVE  SumFunctionOnSet(g, S) = (SumFunctionOnSet(f, S) - f[x]) + g[x]
<1> DEFINE T == S \ {x}
<1>1. IsFiniteSet(T) /\ \A y \in T : f[y] \in Int
  BY FS_Subset
<1>2. SumFunctionOnSet(f, S) = f[x] + SumFunctionOnSet(f, T)
  BY SumRemove
<1>3. \A y \in S : g[y] \in Int
  OBVIOUS
<1>4. SumFunctionOnSet(g, S) = g[x] + SumFunctionOnSet(g, T)
  BY <1>3, SumRemove
<1>5. \A y \in T : g[y] = f[y]
  OBVIOUS
<1> HIDE DEF T
<1>6. SumFunctionOnSet(g, T) = SumFunctionOnSet(f, T)
  BY <1>1, <1>5, SumSame
<1>7. SumFunctionOnSet(f, T) \in Int
  BY <1>1, SumType
<1> QED BY <1>2, <1>4, <1>6, <1>7

\* The sum of a function that is a sum is the sum of the sums.
LEMMA SumOfSums ==
  ASSUME NEW f, NEW g, NEW h, NEW S, IsFiniteSet(S),
         \A x \in S : f[x] \in Int /\ g[x] \in Int /\ h[x] = f[x] + g[x]
  PROVE  SumFunctionOnSet(h, S) = SumFunctionOnSet(f, S) + SumFunctionOnSet(g, S)
<1> DEFINE Good == {s \in SUBSET S : SumFunctionOnSet(h, s) = SumFunctionOnSet(f, s) + SumFunctionOnSet(g, s)}
<1>1. ASSUME NEW s \in SUBSET S, \A u \in SUBSET s : u # s => u \in Good PROVE s \in Good
  <2>1. IsFiniteSet(s)
    BY FS_Subset
  <2>2. CASE s = {}
    <3>1. SumFunctionOnSet(h, {}) = 0 /\ SumFunctionOnSet(f, {}) = 0 /\ SumFunctionOnSet(g, {}) = 0
      BY SumEmpty
    <3> QED BY <2>2, <3>1
  <2>3. CASE s # {}
    <3> DEFINE r == s \ {Pick(s)}
    <3>1. SumFunctionOnSet(f, s) = f[Pick(s)] + SumFunctionOnSet(f, r) /\ Pick(s) \in s /\ r \in SUBSET s /\ r # s
      BY <2>1, <2>3, SumPick
    <3>2. SumFunctionOnSet(g, s) = g[Pick(s)] + SumFunctionOnSet(g, r)
      BY <2>1, <2>3, SumPick
    <3>3. SumFunctionOnSet(h, s) = h[Pick(s)] + SumFunctionOnSet(h, r)
      BY <2>1, <2>3, SumPick
    <3>4. SumFunctionOnSet(h, r) = SumFunctionOnSet(f, r) + SumFunctionOnSet(g, r)
      BY <1>1, <3>1
    <3>5. IsFiniteSet(r) /\ \A x \in r : f[x] \in Int /\ g[x] \in Int
      BY <2>1, FS_Subset
    <3> HIDE DEF r
    <3>6. SumFunctionOnSet(f, r) \in Int /\ SumFunctionOnSet(g, r) \in Int
      BY <3>5, SumType
    <3>7. f[Pick(s)] \in Int /\ g[Pick(s)] \in Int /\ h[Pick(s)] = f[Pick(s)] + g[Pick(s)]
      BY <3>1
    <3> QED BY <3>1, <3>2, <3>3, <3>4, <3>6, <3>7
  <2> QED BY <2>2, <2>3
<1>2. \A s \in SUBSET S : s \in Good
  <2> HIDE DEF Good
  <2> QED BY <1>1, FiniteInduction
<1> QED BY <1>2

\* A sum over two parts.
LEMMA SumOfParts ==
  ASSUME NEW f, NEW S, IsFiniteSet(S), \A x \in S : f[x] \in Int, NEW T \in SUBSET S
  PROVE  SumFunctionOnSet(f, S) = SumFunctionOnSet(f, T) + SumFunctionOnSet(f, S \ T)
<1> DEFINE Good == {s \in SUBSET T : SumFunctionOnSet(f, S) = SumFunctionOnSet(f, s) + SumFunctionOnSet(f, S \ s)}
<1>1. ASSUME NEW s \in SUBSET T, \A u \in SUBSET s : u # s => u \in Good PROVE s \in Good
  <2>1. CASE s = {}
    <3>1. SumFunctionOnSet(f, {}) = 0
      BY SumEmpty
    <3>2. SumFunctionOnSet(f, S) \in Int
      BY SumType
    <3>3. S \ {} = S
      OBVIOUS
    <3> QED BY <2>1, <3>1, <3>2, <3>3
  <2>2. CASE s # {}
    <3>1. PICK x \in s : TRUE
      BY <2>2
    <3> DEFINE r == s \ {x}
    <3>2. SumFunctionOnSet(f, S) = SumFunctionOnSet(f, r) + SumFunctionOnSet(f, S \ r)
      BY <1>1, <3>1
    <3>3. IsFiniteSet(s) /\ IsFiniteSet(r) /\ IsFiniteSet(S \ r) /\ IsFiniteSet(S \ s)
      BY FS_Subset
    <3>4. \A y \in S \ r : f[y] \in Int
      OBVIOUS
    <3>5. SumFunctionOnSet(f, s) = f[x] + SumFunctionOnSet(f, r)
      BY <3>3, SumRemove
    <3>6. x \in S \ r /\ (S \ r) \ {x} = S \ s
      OBVIOUS
    <3>7. SumFunctionOnSet(f, S \ r) = f[x] + SumFunctionOnSet(f, (S \ r) \ {x})
      BY <3>3, <3>4, <3>6, SumRemove
    <3>8. SumFunctionOnSet(f, r) \in Int /\ SumFunctionOnSet(f, S \ s) \in Int /\ f[x] \in Int
      BY <3>3, SumType
    <3> HIDE DEF r
    <3>9. SumFunctionOnSet(f, S) = SumFunctionOnSet(f, s) + SumFunctionOnSet(f, S \ s)
      <4> DEFINE a == SumFunctionOnSet(f, S \ s)
                 b == SumFunctionOnSet(f, S \ r)
                 c == SumFunctionOnSet(f, s)
                 d == SumFunctionOnSet(f, r)
      <4>1. b = f[x] + a
        BY <3>6, <3>7
      <4>2. SumFunctionOnSet(f, S) = d + b /\ c = f[x] + d /\ d \in Int /\ a \in Int /\ f[x] \in Int
        BY <3>2, <3>5, <3>8
      <4> HIDE DEF a, b, c, d
      <4>3. SumFunctionOnSet(f, S) = c + a
        BY <4>1, <4>2
      <4> QED BY <4>3 DEF a, c
    <3> QED BY <3>9
  <2> QED BY <2>1, <2>2
<1>2. IsFiniteSet(T)
  BY FS_Subset
<1>3. \A s \in SUBSET T : s \in Good
  <2> HIDE DEF Good
  <2> QED BY <1>1, <1>2, FiniteInduction
<1> QED BY <1>3

\* A sum may be taken over other names of the elements.
LEMMA SumRenamed ==
  ASSUME NEW f, NEW g, NEW h, NEW S, IsFiniteSet(S),
         \A x \in S : f[x] \in Int /\ f[x] = g[h[x]],
         \A x, y \in S : h[x] = h[y] => x = y
  PROVE  SumFunctionOnSet(f, S) = SumFunctionOnSet(g, {h[x] : x \in S})
<1> DEFINE Image(s) == {h[x] : x \in s}
           Good == {s \in SUBSET S : IsFiniteSet(Image(s)) /\ SumFunctionOnSet(f, s) = SumFunctionOnSet(g, Image(s))}
<1>1. ASSUME NEW s \in SUBSET S, \A u \in SUBSET s : u # s => u \in Good PROVE s \in Good
  <2>1. IsFiniteSet(s)
    BY FS_Subset
  <2>2. CASE s = {}
    <3>1. SumFunctionOnSet(f, {}) = 0 /\ SumFunctionOnSet(g, {}) = 0
      BY SumEmpty
    <3>2. Image({}) = {}
      OBVIOUS
    <3> QED BY <2>2, <3>1, <3>2, FS_EmptySet
  <2>3. CASE s # {}
    <3>1. PICK x \in s : TRUE
      BY <2>3
    <3> DEFINE r == s \ {x}
    <3>2. r \in Good
      BY <1>1
    <3>3. Image(s) = Image(r) \cup {h[x]} /\ h[x] \notin Image(r)
      OBVIOUS
    <3>4. SumFunctionOnSet(f, s) = f[x] + SumFunctionOnSet(f, r)
      BY <2>1, SumRemove
    <3>5. \A y \in Image(r) : g[y] \in Int
      OBVIOUS
    <3>6. g[h[x]] \in Int /\ f[x] \in Int /\ f[x] = g[h[x]]
      OBVIOUS
    <3>7. IsFiniteSet(r) /\ \A y \in r : f[y] \in Int
      BY FS_Subset
    <3>8. SumFunctionOnSet(f, r) \in Int
      BY <3>7, SumType
    <3>9. IsFiniteSet(Image(r)) /\ SumFunctionOnSet(f, r) = SumFunctionOnSet(g, Image(r))
      BY <3>2
    <3>10. IsFiniteSet(Image(s))
      BY <3>3, <3>9, FS_AddElement
    <3> HIDE DEF r, Image
    <3>11. SumFunctionOnSet(g, Image(s)) = SumFunctionOnSet(g, Image(r)) + g[h[x]]
      BY <3>3, <3>5, <3>6, <3>9, SumAddElement
    <3>12. SumFunctionOnSet(f, s) = SumFunctionOnSet(g, Image(s))
      BY <3>4, <3>6, <3>8, <3>9, <3>11
    <3> QED BY <3>10, <3>12
  <2> QED BY <2>2, <2>3
<1>2. \A s \in SUBSET S : s \in Good
  <2> HIDE DEF Good
  <2> QED BY <1>1, FiniteInduction
<1>3. S \in SUBSET S
  OBVIOUS
<1>4. S \in Good
  BY <1>2, <1>3
<1> QED BY <1>4

\* Larger values give a larger sum.
LEMMA SumMonotone ==
  ASSUME NEW f, NEW g, NEW S, IsFiniteSet(S), \A x \in S : f[x] \in Int /\ g[x] \in Int /\ f[x] <= g[x]
  PROVE  SumFunctionOnSet(f, S) <= SumFunctionOnSet(g, S)
<1> DEFINE h == [x \in S |-> g[x] - f[x]]
<1>1. \A x \in S : f[x] \in Int /\ h[x] \in Nat /\ h[x] \in Int /\ g[x] = f[x] + h[x]
  OBVIOUS
<1> HIDE DEF h
<1>2. SumFunctionOnSet(g, S) = SumFunctionOnSet(f, S) + SumFunctionOnSet(h, S)
  BY <1>1, SumOfSums
<1>3. SumFunctionOnSet(h, S) \in Nat /\ SumFunctionOnSet(f, S) \in Int
  BY <1>1, SumType
<1> QED BY <1>2, <1>3

\* A sum of values up to m.
LEMMA SumAtMost ==
  ASSUME NEW f, NEW S, IsFiniteSet(S), NEW m \in Int, \A x \in S : f[x] \in Int /\ f[x] <= m
  PROVE  SumFunctionOnSet(f, S) <= Cardinality(S) * m
<1> DEFINE Good == {s \in SUBSET S : SumFunctionOnSet(f, s) <= Cardinality(s) * m}
<1>1. ASSUME NEW s \in SUBSET S, \A u \in SUBSET s : u # s => u \in Good PROVE s \in Good
  <2>1. IsFiniteSet(s)
    BY FS_Subset
  <2>2. CASE s = {}
    <3>1. SumFunctionOnSet(f, s) = 0 /\ Cardinality(s) = 0
      BY <2>2, SumEmpty, FS_EmptySet
    <3> QED BY <3>1
  <2>3. CASE s # {}
    <3>1. PICK y \in s : TRUE
      BY <2>3
    <3> DEFINE r == s \ {y}
    <3>2. r \in Good /\ IsFiniteSet(r)
      BY <1>1, <2>1, <3>1, FS_Subset
    <3>3. SumFunctionOnSet(f, s) = f[y] + SumFunctionOnSet(f, r)
      BY <2>1, <3>1, SumRemove
    <3>4. Cardinality(s) = Cardinality(r) + 1 /\ Cardinality(r) \in Nat
      <4>1. Cardinality(s) \in Nat /\ Cardinality(r) \in Nat
        BY <2>1, <3>2, FS_CardinalityType
      <4>2. Cardinality(r) = Cardinality(s) - 1
        BY <2>1, <3>1, FS_RemoveElement
      <4> QED BY <4>1, <4>2
    <3>5. SumFunctionOnSet(f, r) \in Int
      BY <3>2, SumType
    <3> DEFINE k == Cardinality(r)
               t == SumFunctionOnSet(f, r)
    <3>6. t <= k * m /\ f[y] \in Int /\ f[y] <= m /\ k \in Nat
      BY <3>1, <3>2, <3>4
    <3> HIDE DEF k, t
    <3>7. (k + 1) * m = k * m + m /\ k * m \in Int
      BY <3>6
    <3>8. t + f[y] <= (k + 1) * m
      BY <3>5, <3>6, <3>7 DEF t
    <3>9. SumFunctionOnSet(f, s) <= Cardinality(s) * m
      BY <3>3, <3>4, <3>5, <3>6, <3>8 DEF k, t
    <3> QED BY <3>9
  <2> QED BY <2>2, <2>3
<1>2. S \in Good
  <2> HIDE DEF Good
  <2>1. \A s \in SUBSET S : s \in Good
    BY <1>1, FiniteInduction
  <2> QED BY <2>1
<1> QED BY <1>2

-----------------------------------------------------------------------------
(***************************************************************************)
(* Folds over sequences.  FoldLeft is defined by recursion on the set of   *)
(* positions, the last one first; the function it chooses exists when the  *)
(* step keeps within a set.                                                *)
(***************************************************************************)

\* What holds at 0 and passes from each number to the next holds up to n.
LEMMA UpTo ==
  ASSUME NEW n \in Nat, NEW Good, 0 \in Good, \A i \in 0 .. n - 1 : i \in Good => i + 1 \in Good
  PROVE  \A i \in 0 .. n : i \in Good
<1> SUFFICES ASSUME NEW m \in 0 .. n, m \notin Good PROVE FALSE
  OBVIOUS
<1> DEFINE Bad == {i \in 0 .. n : i \notin Good}
           f == [i \in Int |-> 0 - i]
<1>1. IsFiniteSet(Bad)
  <2>1. IsFiniteSet(0 .. n)
    BY FS_Interval
  <2> QED BY <2>1, FS_Subset
<1>2. Bad # {} /\ \A x \in Bad : f[x] \in Int
  OBVIOUS
<1>3. PICK i \in Bad : \A x \in Bad : f[x] <= f[i]
  <2> HIDE DEF Bad, f
  <2> QED BY <1>1, <1>2, LargestValue
<1>4. i - 1 \in 0 .. n - 1 /\ i - 1 \in Good
  <2>1. i \in Int /\ 0 <= i /\ i <= n /\ i # 0 /\ i \notin Good
    OBVIOUS
  <2>2. i - 1 \notin Bad
    BY <1>3, <2>1
  <2> QED BY <2>1, <2>2
<1>5. (i - 1) + 1 \in Good
  BY <1>4
<1> QED BY <1>4, <1>5

\* The least and the greatest element of a set of numbers.
LEMMA MinIs ==
  ASSUME NEW S, S \subseteq Nat, IsFiniteSet(S), S # {}
  PROVE  Min(S) \in S /\ \A x \in S : Min(S) <= x
<1> DEFINE f == [i \in Int |-> 0 - i]
<1>1. PICK m \in S : \A x \in S : f[x] <= f[m]
  <2>1. \A x \in S : f[x] \in Int
    OBVIOUS
  <2> HIDE DEF f
  <2> QED BY <2>1, LargestValue
<1>2. \A x \in S : m <= x
  BY <1>1
<1> QED BY <1>2 DEF Min

\* The greatest element of a set of positions.
LEMMA MaxIs ==
  ASSUME NEW n \in Nat, NEW s \in SUBSET (1 .. n), s # {}
  PROVE  Max(s) \in s /\ \A x \in s : x <= Max(s)
<1> DEFINE f == [i \in Int |-> i]
<1>1. IsFiniteSet(s)
  <2>1. IsFiniteSet(1 .. n)
    BY FS_Interval
  <2> QED BY <2>1, FS_Subset
<1>2. PICK m \in s : \A x \in s : f[x] <= f[m]
  <2>1. \A x \in s : f[x] \in Int
    OBVIOUS
  <2> HIDE DEF f
  <2> QED BY <1>1, <2>1, LargestValue
<1>3. \A x \in s : x <= m
  BY <1>2
<1> QED BY <1>3 DEF Max

\* A fold goes through the positions from the first to the last.
LEMMA MaxOfFirst ==
  ASSUME NEW n \in Nat, NEW i \in 1 .. n
  PROVE  Max(1 .. i) = i /\ (1 .. i) \ {i} = 1 .. i - 1 /\ 1 .. i \in SUBSET (1 .. n) /\ 1 .. i # {}
<1>1. 1 .. i \in SUBSET (1 .. n) /\ 1 .. i # {}
  OBVIOUS
<1>2. Max(1 .. i) \in 1 .. i /\ \A x \in 1 .. i : x <= Max(1 .. i)
  BY <1>1, MaxIs
<1>3. Max(1 .. i) = i
  BY <1>2
<1> QED BY <1>1, <1>3

Positions(S) == \E n \in Nat : S \subseteq 1 .. n

\* g goes through the subsets of S as FoldLeft does.
Folds(g, S, base, step) ==
  g = [s \in SUBSET S |-> IF s = {} THEN base ELSE step[Max(s)][g[s \ {Max(s)}]]]

\* Two such functions agree where both are defined.
LEMMA FoldsUnique ==
  ASSUME NEW S, NEW T, T \subseteq S, Positions(S), NEW first, NEW next, NEW g, NEW h,
         Folds(g, T, first, next), Folds(h, S, first, next)
  PROVE  g[T] = h[T]
<1> DEFINE Good == {s \in SUBSET T : g[s] = h[s]}
<1>1. IsFiniteSet(T)
  <2>1. PICK n \in Nat : S \subseteq 1 .. n
    BY DEF Positions
  <2>2. IsFiniteSet(1 .. n)
    BY FS_Interval
  <2> QED BY <2>1, <2>2, FS_Subset
<1>2. ASSUME NEW s \in SUBSET T, \A u \in SUBSET s : u # s => u \in Good PROVE s \in Good
  <2>1. CASE s = {}
    BY <2>1 DEF Folds
  <2>2. CASE s # {}
    <3>1. Max(s) \in s
      BY <2>2, MaxIs DEF Positions
    <3>2. s \ {Max(s)} \in Good
      BY <1>2, <3>1
    <3>3. g[s] = next[Max(s)][g[s \ {Max(s)}]]
      BY <2>2 DEF Folds
    <3>4. s \in SUBSET S /\ h[s] = next[Max(s)][h[s \ {Max(s)}]]
      BY <2>2 DEF Folds
    <3> QED BY <3>2, <3>3, <3>4
  <2> QED BY <2>1, <2>2
<1>3. \A s \in SUBSET T : s \in Good
  <2> HIDE DEF Good
  <2> QED BY <1>1, <1>2, FiniteInduction
<1> QED BY <1>3

\* There is one when the step keeps within W.
LEMMA FoldExists ==
  ASSUME NEW n \in Nat, NEW W, NEW base \in W, NEW step \in [1 .. n -> [W -> W]]
  PROVE  \E g \in [SUBSET (1 .. n) -> W] : Folds(g, 1 .. n, base, step)
<1> DEFINE N == 1 .. n
           Is(g, S) == Folds(g, S, base, step)
           Good == {S \in SUBSET N : \E g \in [SUBSET S -> W] : Is(g, S)}
           At(S) == CHOOSE g \in [SUBSET S -> W] : Is(g, S)
           V(S) == At(S)[S]
<1>1. IsFiniteSet(N)
  BY FS_Interval
<1>2. \A s \in SUBSET (1 .. n) : Positions(s)
  BY DEF Positions
<1>3. ASSUME NEW t \in SUBSET N, \A u \in SUBSET t : u # t => u \in Good PROVE t \in Good
  <2> DEFINE X(s) == IF s # t THEN V(s) ELSE IF s = {} THEN base ELSE step[Max(s)][V(s \ {Max(s)})]
             G == [s \in SUBSET t |-> X(s)]
  <2>1. ASSUME NEW s \in SUBSET t, s # t
        PROVE  At(s) \in [SUBSET s -> W] /\ Is(At(s), s) /\ V(s) \in W
    <3>1. \E g \in [SUBSET s -> W] : Is(g, s)
      BY <1>3, <2>1
    <3>2. At(s) \in [SUBSET s -> W] /\ Is(At(s), s)
      BY <3>1
    <3> HIDE DEF At, Is
    <3> QED BY <3>2
  <2>2. ASSUME NEW s \in SUBSET t
        PROVE  G[s] = IF s = {} THEN base ELSE step[Max(s)][G[s \ {Max(s)}]]
    <3>1. CASE s = {}
      <4>1. CASE s = t
        BY <3>1, <4>1
      <4>2. CASE s # t
        <5>1. V(s) = base
          <6> HIDE DEF At
          <6> QED BY <2>1, <3>1, <4>2 DEF Folds
        <5> HIDE DEF V
        <5> QED BY <3>1, <4>2, <5>1
      <4> QED BY <4>1, <4>2
    <3>2. CASE s # {}
      <4> DEFINE m == Max(s)
                 r == s \ {m}
      <4>1. m \in s /\ r \in SUBSET s /\ r # s /\ r # t /\ r \in SUBSET t /\ r \in SUBSET N
        <5>1. m \in s
          BY <3>2, MaxIs
        <5> QED BY <5>1
      <4>2. G[r] = V(r)
        BY <4>1
      <4>3. G[s] = step[m][V(r)]
        <5>1. CASE s = t
          BY <3>2, <5>1
        <5>2. CASE s # t
          <6>1. V(s) = step[m][At(s)[r]]
            <7>1. Is(At(s), s)
              BY <2>1, <5>2
            <7> DEFINE a == At(s)
            <7>2. Is(a, s)
              BY <7>1
            <7> HIDE DEF a
            <7>3. a[s] = step[m][a[r]]
              BY <3>2, <7>2 DEF Folds
            <7> QED BY <7>3 DEF a
          <6>2. At(s)[r] = V(r)
            <7> DEFINE a == At(s)
                       b == At(r)
            <7>1. Is(a, s) /\ Is(b, r)
              BY <2>1, <4>1, <5>2
            <7> HIDE DEF a, b, r
            <7>2. b[r] = a[r]
              <8>1. r \subseteq s /\ Positions(s) /\ Folds(b, r, base, step) /\ Folds(a, s, base, step)
                BY <1>2, <4>1, <7>1
              <8>2. ASSUME NEW x, NEW y, NEW u, NEW v, u \subseteq v, Positions(v), Folds(y, u, base, step), Folds(x, v, base, step)
                    PROVE y[u] = x[u]
                BY <8>2, FoldsUnique
              <8> QED BY <8>1, <8>2
            <7> QED BY <7>2 DEF a, b
          <6>3. G[s] = V(s)
            BY <5>2
          <6> QED BY <6>1, <6>2, <6>3
        <5> QED BY <5>1, <5>2
      <4> HIDE DEF G, V
      <4> QED BY <3>2, <4>2, <4>3
    <3> QED BY <3>1, <3>2
  <2>3. G \in [SUBSET t -> W]
    <3>1. ASSUME NEW s \in SUBSET t PROVE X(s) \in W
      <4>1. CASE s # t
        BY <2>1, <4>1
      <4>2. CASE s = t /\ s = {}
        BY <4>2
      <4>3. CASE s = t /\ s # {}
        <5>1. Max(s) \in s /\ Max(s) \in N
          BY <4>3, MaxIs
        <5>2. V(s \ {Max(s)}) \in W
          BY <2>1, <4>3, <5>1
        <5> HIDE DEF V
        <5> QED BY <4>3, <5>1, <5>2
      <4> QED BY <4>1, <4>2, <4>3
    <3> HIDE DEF X
    <3> QED BY <3>1
  <2>4. Is(G, t)
    <3> HIDE DEF X
    <3> QED BY <2>2 DEF Folds
  <2> HIDE DEF G
  <2> QED BY <2>3, <2>4
<1>4. N \in Good
  <2>1. \A s \in SUBSET N : s \in Good
    <3> HIDE DEF Good, N
    <3> QED BY <1>1, <1>3, FiniteInduction
  <2> QED BY <2>1
<1> QED BY <1>4

\* g starts from base and takes a step at a time while it is in W.
Follows(g, n, W, base, step) ==
  /\ g[{}] = base
  /\ \A t \in SUBSET (1 .. n) : t # {} /\ g[t \ {Max(t)}] \in W => g[t] = step[Max(t)][g[t \ {Max(t)}]]

\* What such a function gives for the first positions.
FoldSteps(g, n, W, base, step) ==
  /\ g[1 .. 0] = base
  /\ \A i \in 0 .. n : g[1 .. i] \in W
  /\ \A i \in 0 .. n - 1 : g[1 .. i + 1] = step[i + 1][g[1 .. i]]

\* A fold with those steps is the last of the values that follow each other.
LEMMA FoldFollows ==
  ASSUME NEW n \in Nat, NEW W, NEW base \in W, NEW step \in [1 .. n -> [W -> W]], NEW g, Follows(g, n, W, base, step)
  PROVE  FoldSteps(g, n, W, base, step)
<1>1. g[1 .. 0] = base
  <2>1. 1 .. 0 = {}
    OBVIOUS
  <2> QED BY <2>1 DEF Follows
<1>2. ASSUME NEW i \in 0 .. n - 1, g[1 .. i] \in W PROVE g[1 .. i + 1] = step[i + 1][g[1 .. i]]
  <2>1. i + 1 \in 1 .. n /\ (i + 1) - 1 = i
    OBVIOUS
  <2> DEFINE u == 1 .. i + 1
  <2>2. Max(u) = i + 1 /\ u \ {i + 1} = 1 .. i /\ u \in SUBSET (1 .. n) /\ u # {}
    BY <2>1, MaxOfFirst
  <2> HIDE DEF u
  <2>3. g[u] = step[i + 1][g[1 .. i]]
    BY <1>2, <2>2 DEF Follows
  <2> QED BY <2>3 DEF u
<1> DEFINE Good == {i \in 0 .. n : g[1 .. i] \in W}
<1>3. 0 \in Good
  BY <1>1
<1>4. ASSUME NEW i \in 0 .. n - 1, i \in Good PROVE i + 1 \in Good
  <2>1. i + 1 \in 1 .. n
    OBVIOUS
  <2> QED BY <1>2, <1>4, <2>1
<1>5. \A i \in 0 .. n : i \in Good
  <2> HIDE DEF Good
  <2> QED BY <1>3, <1>4, UpTo
<1> QED BY <1>1, <1>2, <1>5 DEF FoldSteps
=============================================================================
