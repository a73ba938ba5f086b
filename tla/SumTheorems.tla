----------------------------- MODULE SumTheorems -----------------------------
(***************************************************************************)
(* Sums of the values of a function over a finite set, which the           *)
(* invariants about money are made of: what SumFunctionOnSet returns, and  *)
(* how a sum changes with the set and with the function.                   *)
(*                                                                         *)
(* SumFunctionOnSet is a recursive function on the subsets of the set.     *)
(* Facts about it are proved by looking at a smallest subset that breaks   *)
(* them (SmallestSet).                                                     *)
(***************************************************************************)
EXTENDS FiniteSetTheorems, TLAPS

\* A non-empty collection of subsets of a finite set has a smallest member.
LEMMA SmallestSet ==
    ASSUME NEW S, IsFiniteSet(S), NEW T \in SUBSET (SUBSET S), T # {}
    PROVE  \E U \in T : \A V \in T : V \subseteq U => V = U
<1>1. IsWellFoundedOn(StrictSubsetOrdering(S), FiniteSubsetsOf(S))
  BY FS_StrictSubsetOrderingWellFounded
<1>2. FiniteSubsetsOf(S) = SUBSET S
  BY FS_FiniteSubsetsOfFinite
<1>3. PICK U \in T : \A V \in T : <<V, U>> \notin StrictSubsetOrdering(S)
  BY <1>1, <1>2, WFMin
<1>4. ASSUME NEW V \in T, V \subseteq U PROVE V = U
  <2>1. V \in SUBSET S /\ U \in SUBSET S
    OBVIOUS
  <2> QED BY <1>3, <1>4, <2>1 DEF StrictSubsetOrdering
<1> QED BY <1>4

-----------------------------------------------------------------------------
(* The recursion.                                                          *)

\* The element the fold takes next.
Picked(s) == CHOOSE x \in s : TRUE

\* What the fold computes for s, from the sums h of smaller sets.
NextSum(h, f, s) == IF s = {} THEN 0 ELSE f[Picked(s)] + h[s \ {Picked(s)}]

\* h holds the sums of f over all subsets of S.
Sums(h, f, S) == h = [s \in SUBSET S |-> NextSum(h, f, s)]

\* The function the fold iterates to.
Iter(f, S) == CHOOSE h : Sums(h, f, S)

LEMMA SumIsIter == \A f, S : SumFunctionOnSet(f, S) = Iter(f, S)[S]
BY DEF SumFunctionOnSet, FoldFunctionOnSet, MapThenFoldSet, Iter, Sums, NextSum, Picked

LEMMA PickedIn == \A s : s # {} => Picked(s) \in s
BY DEF Picked

\* Two tables of sums agree where both are defined.
LEMMA SumsAgree ==
    ASSUME NEW f, NEW S, IsFiniteSet(S), NEW U, NEW g, NEW h,
           Sums(g, f, S), Sums(h, f, U)
    PROVE  \A s \in SUBSET S : s \subseteq U => g[s] = h[s]
<1> DEFINE Bad == {s \in SUBSET S : s \subseteq U /\ g[s] # h[s]}
<1> SUFFICES ASSUME Bad # {} PROVE FALSE
  OBVIOUS
<1>0. Bad \in SUBSET (SUBSET S)
  OBVIOUS
<1>1. PICK s \in Bad : \A t \in Bad : t \subseteq s => t = s
  <2> HIDE DEF Bad
  <2> QED BY <1>0, SmallestSet
<1>2. g[s] = NextSum(g, f, s) /\ h[s] = NextSum(h, f, s)
  BY DEF Sums
<1>3. s # {}
  BY <1>2 DEF NextSum
<1> DEFINE t == s \ {Picked(s)}
<1>4. g[t] = h[t]
  <2>1. t \in SUBSET S /\ t \subseteq U /\ t \subseteq s /\ t # s
    BY <1>3, PickedIn
  <2> QED BY <2>1, <1>1
<1> QED BY <1>2, <1>3, <1>4 DEF NextSum

\* There is a table of sums for every finite set.
LEMMA SumsExist ==
    ASSUME NEW f, NEW S, IsFiniteSet(S)
    PROVE  Sums(Iter(f, S), f, S)
<1> DEFINE Bad == {U \in SUBSET S : ~ \E h : Sums(h, f, U)}
<1>1. SUFFICES Bad = {}
  BY DEF Iter
<1> SUFFICES ASSUME Bad # {} PROVE FALSE
  OBVIOUS
<1>0. Bad \in SUBSET (SUBSET S)
  OBVIOUS
<1>2. PICK U \in Bad : \A V \in Bad : V \subseteq U => V = U
  <2> HIDE DEF Bad
  <2> QED BY <1>0, SmallestSet
<1>3. \A V \in SUBSET U : V # U => Sums(Iter(f, V), f, V)
  BY <1>2 DEF Iter
<1> DEFINE rest(s) == s \ {Picked(s)}
           g == [s \in SUBSET U |->
                    IF s = {} THEN 0
                    ELSE f[Picked(s)] + Iter(f, rest(s))[rest(s)]]
<1>4. ASSUME NEW s \in SUBSET U, s # {}
      PROVE  g[rest(s)] = Iter(f, rest(s))[rest(s)]
  <2> DEFINE t == rest(s)
  <2>1. t \in SUBSET U /\ t # U /\ t \subseteq t
    BY <1>4, PickedIn
  <2>2. Sums(Iter(f, t), f, t)
    BY <2>1, <1>3
  <2>3. Iter(f, t)[t] = NextSum(Iter(f, t), f, t)
    BY <2>1, <2>2 DEF Sums
  <2>4. CASE t = {}
    BY <2>1, <2>3, <2>4 DEF NextSum
  <2>5. CASE t # {}
    <3> DEFINE r == rest(t)
    <3>1. r \in SUBSET t /\ r \in SUBSET U /\ r # U /\ r \in SUBSET r
      BY <2>1, <2>5, PickedIn
    <3>2. Sums(Iter(f, r), f, r)
      BY <3>1, <1>3
    <3>3. IsFiniteSet(t)
      BY <2>1, FS_Subset
    <3>4. Iter(f, t)[r] = Iter(f, r)[r]
      <4> HIDE DEF t, r
      <4> QED BY <2>2, <3>1, <3>2, <3>3, SumsAgree
    <3>5. Iter(f, t)[t] = f[Picked(t)] + Iter(f, t)[r]
      BY <2>3, <2>5 DEF NextSum
    <3>6. g[t] = f[Picked(t)] + Iter(f, r)[r]
      BY <2>1, <2>5
    <3> QED BY <3>4, <3>5, <3>6
  <2> QED BY <2>4, <2>5
<1>5. Sums(g, f, U)
  <2>1. \A s \in SUBSET U : NextSum(g, f, s) =
            IF s = {} THEN 0 ELSE f[Picked(s)] + Iter(f, rest(s))[rest(s)]
    BY <1>4 DEF NextSum
  <2> QED BY <2>1 DEF Sums
<1> QED BY <1>2, <1>5

-----------------------------------------------------------------------------
(* What a sum is.                                                          *)

LEMMA SumEmpty == \A f : SumFunctionOnSet(f, {}) = 0
<1> TAKE f
<1>1. IsFiniteSet({})
  BY FS_EmptySet
<1>2. Sums(Iter(f, {}), f, {})
  BY <1>1, SumsExist
<1> QED BY <1>2, SumIsIter DEF Sums, NextSum

\* The sum of a set is that of the element taken and of the rest.
LEMMA SumUnfold ==
    ASSUME NEW f, NEW S, IsFiniteSet(S), S # {}
    PROVE  SumFunctionOnSet(f, S)
           = f[Picked(S)] + SumFunctionOnSet(f, S \ {Picked(S)})
<1> DEFINE rest == S \ {Picked(S)}
<1>1. rest \in SUBSET S /\ rest \in SUBSET rest /\ rest \subseteq rest
  OBVIOUS
<1>2. IsFiniteSet(rest)
  BY FS_Subset
<1>3. Sums(Iter(f, S), f, S) /\ Sums(Iter(f, rest), f, rest)
  BY <1>2, SumsExist
<1>4. Iter(f, S)[S] = f[Picked(S)] + Iter(f, S)[rest]
  BY <1>3 DEF Sums, NextSum
<1>5. Iter(f, S)[rest] = Iter(f, rest)[rest]
  <2> HIDE DEF rest
  <2> QED BY <1>1, <1>3, SumsAgree
<1> QED BY <1>4, <1>5, SumIsIter

\* A sum of integers is an integer.
LEMMA SumInt ==
    ASSUME NEW S, IsFiniteSet(S), NEW f, \A x \in S : f[x] \in Int
    PROVE  SumFunctionOnSet(f, S) \in Int
<1> DEFINE Bad == {U \in SUBSET S : SumFunctionOnSet(f, U) \notin Int}
<1> SUFFICES ASSUME Bad # {} PROVE FALSE
  OBVIOUS
<1>0. Bad \in SUBSET (SUBSET S)
  OBVIOUS
<1>1. PICK U \in Bad : \A V \in Bad : V \subseteq U => V = U
  <2> HIDE DEF Bad
  <2> QED BY <1>0, SmallestSet
<1>2. IsFiniteSet(U) /\ U # {}
  <2>1. SumFunctionOnSet(f, {}) \in Int
    BY SumEmpty
  <2>2. {} \notin Bad
    BY <2>1
  <2> QED BY <2>2, FS_Subset
<1>3. Picked(U) \in U
  BY <1>2, PickedIn
<1>4. SumFunctionOnSet(f, U \ {Picked(U)}) \in Int
  BY <1>1, <1>3
<1> QED BY <1>2, <1>3, <1>4, SumUnfold

\* Any element may be taken out first.
LEMMA SumRemove ==
    ASSUME NEW S, IsFiniteSet(S), NEW f, \A x \in S : f[x] \in Int
    PROVE  \A x \in S :
               SumFunctionOnSet(f, S) = f[x] + SumFunctionOnSet(f, S \ {x})
<1> DEFINE Bad == {U \in SUBSET S : \E x \in U :
                      SumFunctionOnSet(f, U) # f[x] + SumFunctionOnSet(f, U \ {x})}
<1> SUFFICES ASSUME Bad # {} PROVE FALSE
  OBVIOUS
<1>0. Bad \in SUBSET (SUBSET S)
  OBVIOUS
<1>1. PICK U \in Bad : \A V \in Bad : V \subseteq U => V = U
  <2> HIDE DEF Bad
  <2> QED BY <1>0, SmallestSet
<1>2. PICK x \in U : SumFunctionOnSet(f, U) # f[x] + SumFunctionOnSet(f, U \ {x})
  OBVIOUS
<1> DEFINE p == Picked(U)
<1>3. p \in U
  BY <1>2, PickedIn
<1> HIDE DEF p
<1>4. IsFiniteSet(U) /\ IsFiniteSet(U \ {p}) /\ IsFiniteSet(U \ {x})
  BY FS_Subset
<1>5. SumFunctionOnSet(f, U) = f[p] + SumFunctionOnSet(f, U \ {p})
  BY <1>2, <1>4, SumUnfold DEF p
<1>6. x # p
  BY <1>2, <1>5
<1> DEFINE both == (U \ {p}) \ {x}
<1>7. both = (U \ {x}) \ {p}
  OBVIOUS
<1>8. SumFunctionOnSet(f, U \ {p}) = f[x] + SumFunctionOnSet(f, both)
  <2>1. U \ {p} \notin Bad
    <3> HIDE DEF Bad
    <3> QED BY <1>1, <1>3
  <2>2. x \in U \ {p} /\ U \ {p} \in SUBSET S
    BY <1>2, <1>6
  <2> QED BY <2>1, <2>2
<1>9. SumFunctionOnSet(f, U \ {x}) = f[p] + SumFunctionOnSet(f, both)
  <2>1. U \ {x} \notin Bad
    <3> HIDE DEF Bad
    <3> QED BY <1>1, <1>2
  <2>2. p \in U \ {x} /\ U \ {x} \in SUBSET S
    BY <1>3, <1>6
  <2> QED BY <2>1, <2>2, <1>7
<1>10. f[x] \in Int /\ f[p] \in Int /\ SumFunctionOnSet(f, both) \in Int
  <2>1. IsFiniteSet(both) /\ both \in SUBSET S
    BY <1>4, FS_Subset
  <2> HIDE DEF both
  <2>2. SumFunctionOnSet(f, both) \in Int
    BY <2>1, SumInt
  <2> QED BY <1>2, <1>3, <2>2
<1> HIDE DEF both
<1> QED BY <1>2, <1>5, <1>8, <1>9, <1>10

\* Adding an element adds its value.
LEMMA SumAdd ==
    ASSUME NEW S, IsFiniteSet(S), NEW x, x \notin S,
           NEW f, \A y \in S \cup {x} : f[y] \in Int
    PROVE  SumFunctionOnSet(f, S \cup {x}) = SumFunctionOnSet(f, S) + f[x]
<1> DEFINE T == S \cup {x}
<1>1. IsFiniteSet(T)
  BY FS_AddElement
<1>2. x \in T /\ T \ {x} = S
  OBVIOUS
<1>3. SumFunctionOnSet(f, T) = f[x] + SumFunctionOnSet(f, T \ {x})
  <2>1. \A y \in T : f[y] \in Int
    OBVIOUS
  <2> HIDE DEF T
  <2> QED BY <1>1, <1>2, <2>1, SumRemove
<1>4. SumFunctionOnSet(f, S) \in Int /\ f[x] \in Int
  BY SumInt
<1>5. SumFunctionOnSet(f, T \ {x}) = SumFunctionOnSet(f, S)
  BY <1>2
<1> QED BY <1>3, <1>4, <1>5

-----------------------------------------------------------------------------
(* How sums compare.                                                       *)

\* Smaller values have a smaller sum.
LEMMA SumMonotone ==
    ASSUME NEW S, IsFiniteSet(S), NEW f, NEW g,
           \A x \in S : f[x] \in Int /\ g[x] \in Int /\ f[x] <= g[x]
    PROVE  SumFunctionOnSet(f, S) <= SumFunctionOnSet(g, S)
<1> DEFINE Bad == {U \in SUBSET S :
                      ~ (SumFunctionOnSet(f, U) <= SumFunctionOnSet(g, U))}
<1> SUFFICES ASSUME Bad # {} PROVE FALSE
  OBVIOUS
<1>0. Bad \in SUBSET (SUBSET S)
  OBVIOUS
<1>1. PICK U \in Bad : \A V \in Bad : V \subseteq U => V = U
  <2> HIDE DEF Bad
  <2> QED BY <1>0, SmallestSet
<1>2. IsFiniteSet(U) /\ U # {}
  <2>1. SumFunctionOnSet(f, {}) = 0 /\ SumFunctionOnSet(g, {}) = 0
    BY SumEmpty
  <2>2. {} \notin Bad
    BY <2>1
  <2> QED BY <2>2, FS_Subset
<1> DEFINE p == Picked(U)
           rest == U \ {p}
<1>3. p \in U /\ rest \in SUBSET S
  BY <1>2, PickedIn
<1>4. SumFunctionOnSet(f, rest) <= SumFunctionOnSet(g, rest)
  BY <1>1, <1>3
<1>5. IsFiniteSet(rest)
  BY <1>2, FS_Subset
<1>6. SumFunctionOnSet(f, rest) \in Int /\ SumFunctionOnSet(g, rest) \in Int
  <2> HIDE DEF rest
  <2> QED BY <1>3, <1>5, SumInt
<1>7. /\ SumFunctionOnSet(f, U) = f[p] + SumFunctionOnSet(f, rest)
      /\ SumFunctionOnSet(g, U) = g[p] + SumFunctionOnSet(g, rest)
  BY <1>2, SumUnfold
<1>8. f[p] \in Int /\ g[p] \in Int /\ f[p] <= g[p]
  BY <1>3
<1>9. SumFunctionOnSet(f, U) <= SumFunctionOnSet(g, U)
  <2> HIDE DEF p, rest
  <2> QED BY <1>4, <1>6, <1>7, <1>8
<1> QED BY <1>9

\* Functions that agree on the set have one sum.
LEMMA SumSame ==
    ASSUME NEW S, IsFiniteSet(S), NEW f, NEW g,
           \A x \in S : f[x] \in Int /\ f[x] = g[x]
    PROVE  SumFunctionOnSet(f, S) = SumFunctionOnSet(g, S)
<1>1. SumFunctionOnSet(f, S) <= SumFunctionOnSet(g, S)
  BY SumMonotone
<1>2. SumFunctionOnSet(g, S) <= SumFunctionOnSet(f, S)
  BY SumMonotone
<1>3. SumFunctionOnSet(f, S) \in Int /\ SumFunctionOnSet(g, S) \in Int
  BY SumInt
<1> QED BY <1>1, <1>2, <1>3

\* The sum of a function with one value changed.
LEMMA SumChange ==
    ASSUME NEW S, IsFiniteSet(S), NEW x \in S, NEW f, NEW g,
           \A y \in S : f[y] \in Int /\ g[y] \in Int,
           \A y \in S \ {x} : f[y] = g[y]
    PROVE  SumFunctionOnSet(g, S) = SumFunctionOnSet(f, S) - f[x] + g[x]
<1> DEFINE rest == S \ {x}
<1>1. IsFiniteSet(rest)
  BY FS_Subset
<1>2. SumFunctionOnSet(f, rest) = SumFunctionOnSet(g, rest)
  BY <1>1, SumSame
<1>3. SumFunctionOnSet(f, rest) \in Int
  BY <1>1, SumInt
<1>4. /\ SumFunctionOnSet(f, S) = f[x] + SumFunctionOnSet(f, rest)
      /\ SumFunctionOnSet(g, S) = g[x] + SumFunctionOnSet(g, rest)
  BY SumRemove
<1>5. f[x] \in Int /\ g[x] \in Int
  OBVIOUS
<1> HIDE DEF rest
<1> QED BY <1>2, <1>3, <1>4, <1>5

\* A sum of zeros is zero.
LEMMA SumZero ==
    ASSUME NEW S, IsFiniteSet(S), NEW f, \A x \in S : f[x] = 0
    PROVE  SumFunctionOnSet(f, S) = 0
<1> DEFINE Bad == {U \in SUBSET S : SumFunctionOnSet(f, U) # 0}
<1> SUFFICES ASSUME Bad # {} PROVE FALSE
  OBVIOUS
<1>0. Bad \in SUBSET (SUBSET S)
  OBVIOUS
<1>1. PICK U \in Bad : \A V \in Bad : V \subseteq U => V = U
  <2> HIDE DEF Bad
  <2> QED BY <1>0, SmallestSet
<1>2. IsFiniteSet(U) /\ U # {}
  BY FS_Subset, SumEmpty
<1>3. Picked(U) \in U
  BY <1>2, PickedIn
<1>4. SumFunctionOnSet(f, U \ {Picked(U)}) = 0
  BY <1>1, <1>3
<1>5. f[Picked(U)] = 0
  BY <1>3
<1>6. SumFunctionOnSet(f, U) = 0 + 0
  BY <1>2, <1>4, <1>5, SumUnfold
<1> QED BY <1>6

\* A sum of numbers that are not negative is not negative.
LEMMA SumNat ==
    ASSUME NEW S, IsFiniteSet(S), NEW f, \A x \in S : f[x] \in Nat
    PROVE  SumFunctionOnSet(f, S) \in Nat
<1> DEFINE zero == [x \in S |-> 0]
<1>1. \A x \in S : zero[x] = 0
  OBVIOUS
<1> HIDE DEF zero
<1>2. SumFunctionOnSet(zero, S) = 0
  BY <1>1, SumZero
<1>3. SumFunctionOnSet(zero, S) <= SumFunctionOnSet(f, S)
  BY <1>1, SumMonotone
<1>4. SumFunctionOnSet(f, S) \in Int
  BY SumInt
<1> QED BY <1>2, <1>3, <1>4

\* A larger set of such numbers has a larger sum.
LEMMA SumSubset ==
    ASSUME NEW S, IsFiniteSet(S), NEW T \in SUBSET S,
           NEW f, \A x \in S : f[x] \in Nat
    PROVE  SumFunctionOnSet(f, T) <= SumFunctionOnSet(f, S)
<1> DEFINE Bad == {U \in SUBSET S : /\ T \subseteq U
                                    /\ ~ (SumFunctionOnSet(f, T) <= SumFunctionOnSet(f, U))}
<1> SUFFICES ASSUME Bad # {} PROVE FALSE
  OBVIOUS
<1>0. Bad \in SUBSET (SUBSET S)
  OBVIOUS
<1>1. PICK U \in Bad : \A V \in Bad : V \subseteq U => V = U
  <2> HIDE DEF Bad
  <2> QED BY <1>0, SmallestSet
<1>2. IsFiniteSet(U) /\ IsFiniteSet(T)
  BY FS_Subset
<1>3. SumFunctionOnSet(f, T) \in Int
  BY <1>2, SumInt
<1>4. PICK x \in U : x \notin T
  BY <1>3
<1> DEFINE rest == U \ {x}
<1>5. IsFiniteSet(rest) /\ rest \in SUBSET S /\ T \subseteq rest
  BY <1>2, <1>4, FS_Subset
<1>6. SumFunctionOnSet(f, T) <= SumFunctionOnSet(f, rest)
  BY <1>1, <1>4, <1>5
<1> HIDE DEF rest
<1>7. SumFunctionOnSet(f, rest) \in Int /\ f[x] \in Nat
  BY <1>5, SumInt
<1>8. SumFunctionOnSet(f, U) = f[x] + SumFunctionOnSet(f, rest)
  BY <1>2, SumRemove DEF rest
<1>9. SumFunctionOnSet(f, T) <= SumFunctionOnSet(f, U)
  BY <1>3, <1>6, <1>7, <1>8
<1> QED BY <1>9

\* One term grows by at most k and no other grows: so does the sum.
LEMMA SumAtMost ==
    ASSUME NEW S, IsFiniteSet(S), NEW x \in S, NEW f, NEW g, NEW k \in Int,
           \A y \in S : f[y] \in Int /\ g[y] \in Int,
           \A y \in S \ {x} : g[y] <= f[y], g[x] <= f[x] + k
    PROVE  SumFunctionOnSet(g, S) <= SumFunctionOnSet(f, S) + k
<1> DEFINE h == [y \in S |-> IF y = x THEN g[x] ELSE f[y]]
<1>1. /\ \A y \in S : f[y] \in Int /\ h[y] \in Int
      /\ \A y \in S \ {x} : f[y] = h[y]
      /\ h[x] = g[x]
  OBVIOUS
<1>2. \A y \in S : g[y] \in Int /\ h[y] \in Int /\ g[y] <= h[y]
  OBVIOUS
<1> HIDE DEF h
<1>3. SumFunctionOnSet(g, S) <= SumFunctionOnSet(h, S)
  BY <1>2, SumMonotone
<1>4. SumFunctionOnSet(h, S) = SumFunctionOnSet(f, S) - f[x] + h[x]
  BY <1>1, SumChange
<1>5. /\ SumFunctionOnSet(f, S) \in Int /\ SumFunctionOnSet(g, S) \in Int
      /\ SumFunctionOnSet(h, S) \in Int
  BY <1>1, <1>2, SumInt
<1>6. f[x] \in Int /\ g[x] \in Int
  OBVIOUS
<1> QED BY <1>1, <1>3, <1>4, <1>5, <1>6

\* A sum counts at least the terms that are one or more.
LEMMA SumCounts ==
    ASSUME NEW S, IsFiniteSet(S), NEW T \in SUBSET S, NEW f,
           \A x \in S : f[x] \in Nat, \A x \in T : 1 <= f[x]
    PROVE  Cardinality(T) <= SumFunctionOnSet(f, S)
<1> DEFINE Bad == {U \in SUBSET T : ~ (Cardinality(U) <= SumFunctionOnSet(f, U))}
<1>0. IsFiniteSet(T)
  BY FS_Subset
<1>1. Bad = {}
  <2> SUFFICES ASSUME Bad # {} PROVE FALSE
    OBVIOUS
  <2>0. Bad \in SUBSET (SUBSET T)
    OBVIOUS
  <2>1. PICK U \in Bad : \A V \in Bad : V \subseteq U => V = U
    <3> HIDE DEF Bad
    <3> QED BY <1>0, <2>0, SmallestSet
  <2>2. U \in SUBSET T /\ ~ (Cardinality(U) <= SumFunctionOnSet(f, U)) /\ IsFiniteSet(U)
    BY <1>0, FS_Subset
  <2>3. U # {}
    <3>1. Cardinality({}) = 0 /\ SumFunctionOnSet(f, {}) = 0
      BY FS_EmptySet, SumEmpty
    <3> QED BY <2>2, <3>1
  <2>4. PICK x \in U : TRUE
    BY <2>3
  <2> DEFINE V == U \ {x}
  <2>5. V \in SUBSET T /\ V \subseteq U /\ V # U
    BY <2>2
  <2>6. Cardinality(V) <= SumFunctionOnSet(f, V)
    BY <2>1, <2>5
  <2>7. SumFunctionOnSet(f, U) = f[x] + SumFunctionOnSet(f, V)
    <3>1. \A y \in U : f[y] \in Int
      BY <2>2
    <3> QED BY <2>2, <3>1, SumRemove
  <2>8. Cardinality(V) = Cardinality(U) - 1 /\ IsFiniteSet(V)
    BY <2>2, FS_RemoveElement
  <2>9. f[x] \in Int /\ 1 <= f[x]
    BY <2>2
  <2> HIDE DEF V
  <2>10. SumFunctionOnSet(f, V) \in Int
    <3>1. \A y \in V : f[y] \in Int
      BY <2>5
    <3> QED BY <2>8, <3>1, SumInt
  <2>11. Cardinality(U) \in Nat
    BY <2>2, FS_CardinalityType
  <2> QED BY <2>2, <2>6, <2>7, <2>8, <2>9, <2>10, <2>11
<1>2. Cardinality(T) <= SumFunctionOnSet(f, T)
  BY <1>1
<1>3. SumFunctionOnSet(f, T) <= SumFunctionOnSet(f, S)
  BY SumSubset
<1>4. SumFunctionOnSet(f, T) \in Int /\ SumFunctionOnSet(f, S) \in Int /\ Cardinality(T) \in Int
  <2>1. \A x \in S : f[x] \in Int
    OBVIOUS
  <2>2. \A x \in T : f[x] \in Int
    OBVIOUS
  <2> QED BY <1>0, <2>1, <2>2, SumInt, FS_CardinalityType
<1> QED BY <1>2, <1>3, <1>4

\* A sum is at most the sum over any larger set into which its summands can be
\* mapped one to one, each to one at least as large.
LEMMA SumInjects ==
    ASSUME NEW S, IsFiniteSet(S), NEW T, IsFiniteSet(T), NEW f, NEW g,
           \A x \in S : f[x] \in Nat, \A y \in T : g[y] \in Nat,
           NEW own \in [S -> T],
           \A x, y \in S : own[x] = own[y] => x = y,
           \A x \in S : f[x] <= g[own[x]]
    PROVE  SumFunctionOnSet(f, S) <= SumFunctionOnSet(g, T)
<1> DEFINE Image(U) == {own[x] : x \in U}
           Bad == {U \in SUBSET S :
                      ~ (SumFunctionOnSet(f, U) <= SumFunctionOnSet(g, Image(U)))}
<1>0. Bad \in SUBSET (SUBSET S)
  OBVIOUS
<1>1. Bad = {}
  <2> SUFFICES ASSUME Bad # {} PROVE FALSE
    OBVIOUS
  <2>1. PICK U \in Bad : \A V \in Bad : V \subseteq U => V = U
    <3> HIDE DEF Bad
    <3> QED BY <1>0, SmallestSet
  <2>2. /\ U \in SUBSET S /\ IsFiniteSet(U)
        /\ ~ (SumFunctionOnSet(f, U) <= SumFunctionOnSet(g, Image(U)))
    BY <2>1, FS_Subset
  <2>3. U # {}
    <3>1. SUFFICES ASSUME U = {} PROVE FALSE
      OBVIOUS
    <3>2. Image(U) = {}
      BY <3>1
    <3> HIDE DEF Image
    <3> QED BY <2>2, <3>1, <3>2, SumEmpty
  <2>4. PICK x : x \in U
    BY <2>3
  <2> DEFINE V == U \ {x}
  <2>5. SumFunctionOnSet(f, V) <= SumFunctionOnSet(g, Image(V))
    <3>1. V \notin Bad
      BY <2>1, <2>4
    <3> QED BY <3>1, <2>2
  <2>6. /\ Image(U) = Image(V) \cup {own[x]} /\ own[x] \notin Image(V)
        /\ Image(V) \in SUBSET T /\ own[x] \in T /\ IsFiniteSet(Image(V))
    <3>1. Image(U) = Image(V) \cup {own[x]} /\ own[x] \notin Image(V)
      BY <2>2, <2>4
    <3>2. Image(V) \in SUBSET T /\ own[x] \in T
      BY <2>2, <2>4
    <3> QED BY <3>1, <3>2, FS_Subset
  <2>7. SumFunctionOnSet(f, U) = f[x] + SumFunctionOnSet(f, V)
    <3>1. \A y \in U : f[y] \in Int
      BY <2>2
    <3> QED BY <3>1, <2>2, <2>4, SumRemove
  <2> HIDE DEF Image, Bad
  <2>8. SumFunctionOnSet(g, Image(U)) = SumFunctionOnSet(g, Image(V)) + g[own[x]]
    <3> DEFINE W == Image(V)
    <3> HIDE DEF V
    <3>1. W \in SUBSET T /\ own[x] \in T
      BY <2>6
    <3> HIDE DEF W
    <3>2. \A y \in W \cup {own[x]} : g[y] \in Int
      BY <3>1
    <3> USE DEF W
    <3> QED BY <3>2, <2>6, SumAdd
  <2>9. SumFunctionOnSet(g, Image(V)) \in Int
    <3> HIDE DEF V
    <3>1. \A y \in Image(V) : g[y] \in Int
      BY <2>6
    <3> QED BY <3>1, <2>6, SumInt
  <2>10. SumFunctionOnSet(f, V) \in Int
    <3>1. IsFiniteSet(V) /\ \A y \in V : f[y] \in Int
      BY <2>2, FS_Subset
    <3> QED BY <3>1, SumInt
  <2>11. f[x] \in Int /\ g[own[x]] \in Int /\ f[x] <= g[own[x]]
    BY <2>2, <2>4, <2>6
  <2> HIDE DEF V
  <2> QED BY <2>2, <2>5, <2>7, <2>8, <2>9, <2>10, <2>11
<1>2. SumFunctionOnSet(f, S) <= SumFunctionOnSet(g, Image(S))
  BY <1>1
<1>3. /\ IsFiniteSet(Image(S)) /\ Image(S) \in SUBSET T
      /\ \A y \in Image(S) : g[y] \in Int
  BY FS_Subset
<1>4. SumFunctionOnSet(g, Image(S)) <= SumFunctionOnSet(g, T)
  BY <1>3, SumSubset
<1>5. /\ SumFunctionOnSet(f, S) \in Int
      /\ SumFunctionOnSet(g, Image(S)) \in Int
      /\ SumFunctionOnSet(g, T) \in Int
  <2>1. (\A x \in S : f[x] \in Int) /\ \A y \in T : g[y] \in Int
    OBVIOUS
  <2> HIDE DEF Image
  <2> QED BY <2>1, <1>3, SumInt
<1> HIDE DEF Image
<1> QED BY <1>2, <1>4, <1>5
\* A sum over a set is the sum over a part of it and over the rest.
LEMMA SumSplit ==
    ASSUME NEW S, IsFiniteSet(S), NEW f, \A x \in S : f[x] \in Int, NEW T \in SUBSET S
    PROVE  SumFunctionOnSet(f, S) = SumFunctionOnSet(f, T) + SumFunctionOnSet(f, S \ T)
<1> DEFINE Holds(U) == SumFunctionOnSet(f, S) = SumFunctionOnSet(f, U) + SumFunctionOnSet(f, S \ U)
           Bad == {U \in SUBSET S : ~Holds(U)}
<1> SUFFICES ASSUME Bad # {} PROVE FALSE
  OBVIOUS
<1>0. Bad \in SUBSET (SUBSET S)
  OBVIOUS
<1>1. PICK U \in Bad : \A V \in Bad : V \subseteq U => V = U
  <2> HIDE DEF Bad
  <2> QED BY <1>0, SmallestSet
<1>2. SumFunctionOnSet(f, S) \in Int
  BY SumInt
<1>3. U # {}
  <2>1. SumFunctionOnSet(f, {}) = 0 /\ S \ {} = S
    BY SumEmpty
  <2>2. Holds({})
    BY <1>2, <2>1
  <2>3. ~Holds(U)
    BY <1>1
  <2> HIDE DEF Holds
  <2> QED BY <2>2, <2>3
<1>4. PICK x \in U : TRUE
  BY <1>3
<1> DEFINE V == U \ {x}
           R == S \ U
<1>5. /\ IsFiniteSet(U) /\ IsFiniteSet(R) /\ U \in SUBSET S /\ V \in SUBSET S
      /\ IsFiniteSet(V) /\ x \notin R /\ S \ V = R \cup {x} /\ V # U /\ V \subseteq U
  BY <1>1, <1>4, FS_Subset
<1>6. Holds(V)
  <2>1. V \notin Bad
    <3> HIDE DEF Bad, V
    <3> QED BY <1>1, <1>5
  <2> QED BY <1>5, <2>1
<1>7. SumFunctionOnSet(f, U) = f[x] + SumFunctionOnSet(f, V)
  BY <1>4, <1>5, SumRemove
<1>8. SumFunctionOnSet(f, S \ V) = SumFunctionOnSet(f, R) + f[x]
  BY <1>4, <1>5, SumAdd
<1>9. f[x] \in Int /\ SumFunctionOnSet(f, R) \in Int /\ SumFunctionOnSet(f, V) \in Int
  BY <1>4, <1>5, SumInt
<1>10. ~Holds(U)
  BY <1>1
<1> HIDE DEF V, R
<1> QED BY <1>6, <1>7, <1>8, <1>9, <1>10 DEF R
=============================================================================
