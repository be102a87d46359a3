------------------------------ MODULE SumLemmas ------------------------------
(***************************************************************************)
(* Sums of integers over finite sets, for the proofs of the properties     *)
(* that add up quantities: the community operator SumFunctionOnSet, whose  *)
(* definition takes the elements one after the other by CHOOSE, does not   *)
(* depend on their order.  Each fact about every finite set is proved from *)
(* a smallest counterexample.                                              *)
(***************************************************************************)
EXTENDS FiniteSetsExt, FiniteSetTheorems, TLAPS

\* g is what the recursive function in the definition of the sum of f over S is meant
\* to be.
First(s)     == CHOOSE x \in s : TRUE
Adds(g, f, S) ==
  g = [s \in SUBSET S |-> IF s = {} THEN 0 ELSE f[First(s)] + g[s \ {First(s)}]]

-----------------------------------------------------------------------------
\* Every collection of subsets of a finite set has a smallest member.
LEMMA SmallestSubset ==
  ASSUME NEW S, IsFiniteSet(S), NEW B, B \subseteq SUBSET S, B # {}
  PROVE  \E T \in B : IsFiniteSet(T) /\ \A U \in B : U \subseteq T => U = T
<1>1. IsWellFoundedOn(StrictSubsetOrdering(S), SUBSET S)
  BY FS_StrictSubsetOrderingWellFounded, FS_FiniteSubsetsOfFinite
<1>2. PICK T \in B : \A U \in B : <<U, T>> \notin StrictSubsetOrdering(S)
  BY <1>1, WFMin
<1>3. \A U \in B : U \subseteq T => U = T
  BY <1>2 DEF StrictSubsetOrdering
<1>4. IsFiniteSet(T)
  BY FS_Subset
<1> QED
  BY <1>3, <1>4

LEMMA FirstIn == \A s : s # {} => First(s) \in s
BY DEF First

LEMMA AddsAt ==
  ASSUME NEW g, NEW f, NEW S, Adds(g, f, S), NEW s \in SUBSET S
  PROVE  g[s] = IF s = {} THEN 0 ELSE f[First(s)] + g[s \ {First(s)}]
BY DEF Adds

\* Two such functions agree where both are defined.
LEMMA AddsUnique ==
  ASSUME NEW f, NEW S, NEW T, NEW g, NEW h, Adds(g, f, S), Adds(h, f, T),
         NEW U, U \subseteq S, U \subseteq T, IsFiniteSet(U)
  PROVE  g[U] = h[U]
<1> DEFINE B == {s \in SUBSET U : g[s] # h[s]}
<1>1. SUFFICES ASSUME B # {} PROVE FALSE
  OBVIOUS
<1>a. B \subseteq SUBSET U
  OBVIOUS
<1> HIDE DEF B
<1>2. PICK s \in B : \A r \in B : r \subseteq s => r = s
  BY <1>1, <1>a, SmallestSubset
<1> USE DEF B
<1>3. s \in SUBSET S /\ s \in SUBSET T
  OBVIOUS
<1>4. CASE s = {}
  BY <1>3, <1>4, AddsAt
<1>5. CASE s # {}
  <2>1. First(s) \in s /\ s \ {First(s)} \subseteq s
    BY <1>5, FirstIn
  <2>2. s \ {First(s)} \notin B /\ s \ {First(s)} \in SUBSET U
    BY <1>2, <2>1
  <2>3. g[s \ {First(s)}] = h[s \ {First(s)}]
    BY <2>2
  <2> QED
    BY <1>3, <1>5, <2>3, AddsAt
<1> QED
  BY <1>4, <1>5

\* There is one for every finite set.
LEMMA AddsExists ==
  ASSUME NEW f, NEW S, IsFiniteSet(S)
  PROVE  \E g : Adds(g, f, S)
<1> DEFINE B == {s \in SUBSET S : ~ \E g : Adds(g, f, s)}
<1>1. SUFFICES ASSUME B # {} PROVE FALSE
  OBVIOUS
<1>a. B \subseteq SUBSET S
  OBVIOUS
<1> HIDE DEF B
<1>2. PICK T \in B : IsFiniteSet(T) /\ \A r \in B : r \subseteq T => r = T
  BY <1>1, <1>a, SmallestSubset
<1> USE DEF B
<1> DEFINE some(s) == CHOOSE g : Adds(g, f, s)
           value(s) == IF s = {} THEN 0 ELSE f[First(s)] + some(s \ {First(s)})[s \ {First(s)}]
           g == [s \in SUBSET T |-> value(s)]
<1>3. ASSUME NEW s \in SUBSET T, s # T PROVE Adds(some(s), f, s)
  <2>1. s \in SUBSET S /\ s \notin B
    BY <1>2, <1>3
  <2> QED
    BY <2>1
<1>4. ASSUME NEW s \in SUBSET T, s # T PROVE some(s)[s] = value(s)
  <2>1. Adds(some(s), f, s)
    BY <1>3, <1>4
  <2>2. some(s)[s] = IF s = {} THEN 0 ELSE f[First(s)] + some(s)[s \ {First(s)}]
    BY <2>1, AddsAt
  <2>3. CASE s # {}
    <3> DEFINE r == s \ {First(s)}
    <3>1. First(s) \in s /\ r \in SUBSET T /\ r # T /\ r \subseteq s
      BY <2>3, FirstIn
    <3>2. Adds(some(r), f, r) /\ IsFiniteSet(r)
      BY <1>2, <1>3, <3>1, FS_Subset
    <3> HIDE DEF some, r
    <3>3. some(s)[r] = some(r)[r]
      BY <2>1, <3>1, <3>2, AddsUnique
    <3> QED
      BY <2>2, <2>3, <3>3 DEF r
  <2> QED
    BY <2>2, <2>3
<1> HIDE DEF some
<1>5. ASSUME NEW s \in SUBSET T
      PROVE  value(s) = IF s = {} THEN 0 ELSE f[First(s)] + g[s \ {First(s)}]
  <2>1. CASE s # {}
    <3> DEFINE r == s \ {First(s)}
    <3>1. First(s) \in s
      BY <2>1, FirstIn
    <3>2. r \in SUBSET T /\ r # T
      BY <3>1
    <3>3. some(r)[r] = value(r) /\ g[r] = value(r)
      BY <1>4, <3>2
    <3> QED
      BY <2>1, <3>3
  <2> QED
    BY <2>1
<1>6. Adds(g, f, T)
  BY <1>5 DEF Adds
<1> QED
  BY <1>2, <1>6

-----------------------------------------------------------------------------
LEMMA SumIsAdded ==
  ASSUME NEW f, NEW S, IsFiniteSet(S)
  PROVE  \E g : Adds(g, f, S) /\ SumFunctionOnSet(f, S) = g[S]
<1>1. PICK g : g = CHOOSE h : Adds(h, f, S)
  OBVIOUS
<1>2. Adds(g, f, S)
  BY <1>1, AddsExists
<1>3. SumFunctionOnSet(f, S) = (CHOOSE h : Adds(h, f, S))[S]
  BY DEF SumFunctionOnSet, FoldFunctionOnSet, MapThenFoldSet, Adds, First
<1> QED
  BY <1>1, <1>2, <1>3

LEMMA SumStep ==
  ASSUME NEW f, NEW S, IsFiniteSet(S)
  PROVE  SumFunctionOnSet(f, S) =
           IF S = {} THEN 0 ELSE f[First(S)] + SumFunctionOnSet(f, S \ {First(S)})
<1>1. PICK g : Adds(g, f, S) /\ SumFunctionOnSet(f, S) = g[S]
  BY SumIsAdded
<1>2. g[S] = IF S = {} THEN 0 ELSE f[First(S)] + g[S \ {First(S)}]
  BY <1>1, AddsAt
<1>3. PICK R : R = S \ {First(S)}
  OBVIOUS
<1>4. IsFiniteSet(R) /\ R \subseteq S
  BY <1>3, FS_Subset
<1>5. PICK h : Adds(h, f, R) /\ SumFunctionOnSet(f, R) = h[R]
  BY <1>4, SumIsAdded
<1>6. g[R] = h[R]
  BY <1>1, <1>4, <1>5, AddsUnique
<1> QED
  BY <1>1, <1>2, <1>3, <1>5, <1>6

LEMMA SumEmpty == \A f : SumFunctionOnSet(f, {}) = 0
BY FS_EmptySet, SumStep

-----------------------------------------------------------------------------
(* Sums of integers.                                                       *)

LEMMA SumInt ==
  ASSUME NEW f, NEW S, IsFiniteSet(S), \A x \in S : f[x] \in Int
  PROVE  SumFunctionOnSet(f, S) \in Int
<1> DEFINE B == {s \in SUBSET S : SumFunctionOnSet(f, s) \notin Int}
<1>1. SUFFICES ASSUME B # {} PROVE FALSE
  OBVIOUS
<1>2. B \subseteq SUBSET S
  OBVIOUS
<1> HIDE DEF B
<1>3. PICK T \in B : IsFiniteSet(T) /\ \A r \in B : r \subseteq T => r = T
  BY <1>1, <1>2, SmallestSubset
<1>4. T # {}
  <2>1. SUFFICES ASSUME T = {} PROVE FALSE
    OBVIOUS
  <2>2. {} \notin B
    BY SumEmpty DEF B
  <2> QED
    BY <2>1, <2>2
<1>5. First(T) \in T /\ T \ {First(T)} \subseteq T
  BY <1>4, FirstIn
<1>6. T \ {First(T)} \notin B /\ T \ {First(T)} \in SUBSET S
  BY <1>2, <1>3, <1>5
<1>7. SumFunctionOnSet(f, T \ {First(T)}) \in Int /\ f[First(T)] \in Int
  BY <1>2, <1>3, <1>5, <1>6 DEF B
<1>8. SumFunctionOnSet(f, T) \in Int
  BY <1>3, <1>4, <1>7, SumStep
<1> QED
  BY <1>3, <1>8 DEF B

\* Any element may be added last.
LEMMA SumRemove ==
  ASSUME NEW f, NEW S, IsFiniteSet(S), \A x \in S : f[x] \in Int, NEW x \in S
  PROVE  SumFunctionOnSet(f, S) = f[x] + SumFunctionOnSet(f, S \ {x})
<1> DEFINE Bad(s) == \E y \in s :
             SumFunctionOnSet(f, s) # f[y] + SumFunctionOnSet(f, s \ {y})
           B == {s \in SUBSET S : Bad(s)}
<1>1. SUFFICES ASSUME B # {} PROVE FALSE
  OBVIOUS
<1>2. B \subseteq SUBSET S
  OBVIOUS
<1> HIDE DEF B
<1>3. PICK T \in B : IsFiniteSet(T) /\ \A r \in B : r \subseteq T => r = T
  BY <1>1, <1>2, SmallestSubset
<1>4. PICK y \in T : SumFunctionOnSet(f, T) # f[y] + SumFunctionOnSet(f, T \ {y})
  BY <1>3 DEF B
<1>5. PICK z \in T : z = First(T)
  BY <1>4, FirstIn
<1>6. SumFunctionOnSet(f, T) = f[z] + SumFunctionOnSet(f, T \ {z})
  BY <1>3, <1>4, <1>5, SumStep
<1>7. y # z
  BY <1>4, <1>6
<1>8. /\ T \ {z} \in SUBSET S /\ T \ {z} \notin B /\ y \in T \ {z}
      /\ T \ {y} \in SUBSET S /\ T \ {y} \notin B /\ z \in T \ {y}
  BY <1>2, <1>3, <1>4, <1>5, <1>7
<1>9. /\ SumFunctionOnSet(f, T \ {z}) = f[y] + SumFunctionOnSet(f, (T \ {z}) \ {y})
      /\ SumFunctionOnSet(f, T \ {y}) = f[z] + SumFunctionOnSet(f, (T \ {y}) \ {z})
  BY <1>8 DEF B
<1>10. PICK R : R = (T \ {z}) \ {y}
  OBVIOUS
<1>11. R = (T \ {y}) \ {z} /\ R \subseteq T /\ R \subseteq S
  BY <1>2, <1>3, <1>10
<1>12. SumFunctionOnSet(f, R) \in Int /\ f[y] \in Int /\ f[z] \in Int
  BY <1>2, <1>3, <1>11, FS_Subset, SumInt
<1>13. /\ SumFunctionOnSet(f, T \ {z}) = f[y] + SumFunctionOnSet(f, R)
       /\ SumFunctionOnSet(f, T \ {y}) = f[z] + SumFunctionOnSet(f, R)
  BY <1>9, <1>10, <1>11
<1> QED
  BY <1>4, <1>6, <1>12, <1>13

\* The sum depends on the values at the elements of the set only.
LEMMA SumAgree ==
  ASSUME NEW f, NEW g, NEW S, IsFiniteSet(S), \A x \in S : f[x] = g[x]
  PROVE  SumFunctionOnSet(f, S) = SumFunctionOnSet(g, S)
<1> DEFINE B == {s \in SUBSET S : SumFunctionOnSet(f, s) # SumFunctionOnSet(g, s)}
<1>1. SUFFICES ASSUME B # {} PROVE FALSE
  OBVIOUS
<1>2. B \subseteq SUBSET S
  OBVIOUS
<1> HIDE DEF B
<1>3. PICK T \in B : IsFiniteSet(T) /\ \A r \in B : r \subseteq T => r = T
  BY <1>1, <1>2, SmallestSubset
<1>4. T # {}
  <2>1. SUFFICES ASSUME T = {} PROVE FALSE
    OBVIOUS
  <2>2. {} \notin B
    BY SumEmpty DEF B
  <2> QED
    BY <2>1, <2>2
<1>5. First(T) \in T /\ T \ {First(T)} \subseteq T
  BY <1>4, FirstIn
<1>6. T \ {First(T)} \notin B /\ T \ {First(T)} \in SUBSET S
  BY <1>2, <1>3, <1>5
<1>7. /\ SumFunctionOnSet(f, T \ {First(T)}) = SumFunctionOnSet(g, T \ {First(T)})
      /\ f[First(T)] = g[First(T)]
  BY <1>2, <1>3, <1>5, <1>6 DEF B
<1>8. SumFunctionOnSet(f, T) = SumFunctionOnSet(g, T)
  BY <1>3, <1>4, <1>7, SumStep
<1> QED
  BY <1>3, <1>8 DEF B

\* One value changes, and the sum by as much.
LEMMA SumUpdate ==
  ASSUME NEW f, NEW g, NEW S, IsFiniteSet(S), NEW x \in S,
         \A y \in S : f[y] \in Int /\ g[y] \in Int,
         \A y \in S \ {x} : f[y] = g[y]
  PROVE  SumFunctionOnSet(g, S) = SumFunctionOnSet(f, S) - f[x] + g[x]
<1>1. PICK R : R = S \ {x}
  OBVIOUS
<1>2. IsFiniteSet(R) /\ \A y \in R : f[y] = g[y] /\ f[y] \in Int
  BY <1>1, FS_Subset
<1>3. SumFunctionOnSet(f, R) = SumFunctionOnSet(g, R) /\ SumFunctionOnSet(f, R) \in Int
  BY <1>2, SumAgree, SumInt
<1>4. /\ SumFunctionOnSet(f, S) = f[x] + SumFunctionOnSet(f, R)
      /\ SumFunctionOnSet(g, S) = g[x] + SumFunctionOnSet(g, R)
  BY <1>1, SumRemove
<1> QED
  BY <1>3, <1>4

\* Smaller values, smaller sum.
LEMMA SumMonotone ==
  ASSUME NEW f, NEW g, NEW S, IsFiniteSet(S),
         \A x \in S : f[x] \in Int /\ g[x] \in Int /\ f[x] <= g[x]
  PROVE  SumFunctionOnSet(f, S) <= SumFunctionOnSet(g, S)
<1> DEFINE B == {s \in SUBSET S : ~ SumFunctionOnSet(f, s) <= SumFunctionOnSet(g, s)}
<1>1. SUFFICES ASSUME B # {} PROVE FALSE
  OBVIOUS
<1>2. B \subseteq SUBSET S
  OBVIOUS
<1> HIDE DEF B
<1>3. PICK T \in B : IsFiniteSet(T) /\ \A r \in B : r \subseteq T => r = T
  BY <1>1, <1>2, SmallestSubset
<1>4. T # {}
  <2>1. SUFFICES ASSUME T = {} PROVE FALSE
    OBVIOUS
  <2>2. {} \notin B
    BY SumEmpty DEF B
  <2> QED
    BY <2>1, <2>2
<1>5. First(T) \in T /\ T \ {First(T)} \subseteq T
  BY <1>4, FirstIn
<1>6. T \ {First(T)} \notin B /\ T \ {First(T)} \in SUBSET S /\ IsFiniteSet(T \ {First(T)})
  BY <1>2, <1>3, <1>5, FS_Subset
<1>7. /\ SumFunctionOnSet(f, T \ {First(T)}) <= SumFunctionOnSet(g, T \ {First(T)})
      /\ f[First(T)] \in Int /\ g[First(T)] \in Int /\ f[First(T)] <= g[First(T)]
  BY <1>2, <1>3, <1>5, <1>6 DEF B
<1>8. /\ SumFunctionOnSet(f, T \ {First(T)}) \in Int
      /\ SumFunctionOnSet(g, T \ {First(T)}) \in Int
  BY <1>6, SumInt
<1>9. /\ SumFunctionOnSet(f, T) = f[First(T)] + SumFunctionOnSet(f, T \ {First(T)})
      /\ SumFunctionOnSet(g, T) = g[First(T)] + SumFunctionOnSet(g, T \ {First(T)})
  BY <1>3, <1>4, SumStep
<1>10. SumFunctionOnSet(f, T) <= SumFunctionOnSet(g, T)
  BY <1>7, <1>8, <1>9
<1> QED
  BY <1>3, <1>10 DEF B

\* The sum of the sums.
LEMMA SumPlus ==
  ASSUME NEW f, NEW g, NEW h, NEW S, IsFiniteSet(S),
         \A x \in S : f[x] \in Int /\ g[x] \in Int /\ h[x] = f[x] + g[x]
  PROVE  SumFunctionOnSet(h, S) = SumFunctionOnSet(f, S) + SumFunctionOnSet(g, S)
<1> DEFINE B == {s \in SUBSET S : SumFunctionOnSet(h, s)
                                    # SumFunctionOnSet(f, s) + SumFunctionOnSet(g, s)}
<1>1. SUFFICES ASSUME B # {} PROVE FALSE
  OBVIOUS
<1>2. B \subseteq SUBSET S
  OBVIOUS
<1> HIDE DEF B
<1>3. PICK T \in B : IsFiniteSet(T) /\ \A r \in B : r \subseteq T => r = T
  BY <1>1, <1>2, SmallestSubset
<1>4. T # {}
  <2>1. SUFFICES ASSUME T = {} PROVE FALSE
    OBVIOUS
  <2>2. {} \notin B
    BY SumEmpty DEF B
  <2> QED
    BY <2>1, <2>2
<1>5. First(T) \in T /\ T \ {First(T)} \subseteq T
  BY <1>4, FirstIn
<1>6. T \ {First(T)} \notin B /\ T \ {First(T)} \in SUBSET S /\ IsFiniteSet(T \ {First(T)})
  BY <1>2, <1>3, <1>5, FS_Subset
<1>7. PICK R : R = T \ {First(T)}
  OBVIOUS
<1>8. SumFunctionOnSet(h, R) = SumFunctionOnSet(f, R) + SumFunctionOnSet(g, R)
  BY <1>6, <1>7 DEF B
<1>9. SumFunctionOnSet(f, R) \in Int /\ SumFunctionOnSet(g, R) \in Int
  BY <1>6, <1>7, SumInt
<1>10. PICK x \in S : x = First(T)
  BY <1>2, <1>3, <1>5
<1>11. /\ SumFunctionOnSet(f, T) = f[x] + SumFunctionOnSet(f, R)
       /\ SumFunctionOnSet(g, T) = g[x] + SumFunctionOnSet(g, R)
       /\ SumFunctionOnSet(h, T) = h[x] + SumFunctionOnSet(h, R)
  BY <1>3, <1>4, <1>7, <1>10, SumStep
<1>12. SumFunctionOnSet(h, T) = SumFunctionOnSet(f, T) + SumFunctionOnSet(g, T)
  BY <1>8, <1>9, <1>10, <1>11
<1> QED
  BY <1>3, <1>12 DEF B

-----------------------------------------------------------------------------
(* Sums of natural numbers.                                                *)

LEMMA SumZero ==
  ASSUME NEW f, NEW S, IsFiniteSet(S), \A x \in S : f[x] = 0
  PROVE  SumFunctionOnSet(f, S) = 0
<1>1. PICK n \in Int : n = SumFunctionOnSet(f, S)
  BY SumInt
<1>2. n = n + n
  BY <1>1, SumPlus
<1>3. n = 0
  BY <1>2
<1> QED
  BY <1>1, <1>3

LEMMA SumNat ==
  ASSUME NEW f, NEW S, IsFiniteSet(S), \A x \in S : f[x] \in Nat
  PROVE  SumFunctionOnSet(f, S) \in Nat
<1>1. PICK z : z = [x \in S |-> 0]
  OBVIOUS
<1>2. SumFunctionOnSet(z, S) = 0
  BY <1>1, SumZero
<1>3. SumFunctionOnSet(z, S) <= SumFunctionOnSet(f, S)
  BY <1>1, SumMonotone
<1>4. SumFunctionOnSet(f, S) \in Int
  BY SumInt
<1> QED
  BY <1>2, <1>3, <1>4

LEMMA SumElement ==
  ASSUME NEW f, NEW S, IsFiniteSet(S), \A x \in S : f[x] \in Nat, NEW x \in S
  PROVE  f[x] <= SumFunctionOnSet(f, S)
<1>1. SumFunctionOnSet(f, S) = f[x] + SumFunctionOnSet(f, S \ {x})
  BY SumRemove
<1>2. SumFunctionOnSet(f, S \ {x}) \in Nat
  BY FS_RemoveElement, SumNat
<1> QED
  BY <1>1, <1>2

\* A positive sum has a positive term.
LEMMA SumPositive ==
  ASSUME NEW f, NEW S, IsFiniteSet(S), \A x \in S : f[x] \in Nat,
         SumFunctionOnSet(f, S) > 0
  PROVE  \E x \in S : f[x] > 0
<1>1. SUFFICES ASSUME \A x \in S : ~ f[x] > 0 PROVE FALSE
  OBVIOUS
<1>2. \A x \in S : f[x] = 0
  BY <1>1
<1> QED
  BY <1>2, SumZero

\* A part adds up to no more than the whole.
LEMMA SumSubset ==
  ASSUME NEW f, NEW T, IsFiniteSet(T), \A x \in T : f[x] \in Nat, NEW S, S \subseteq T
  PROVE  SumFunctionOnSet(f, S) <= SumFunctionOnSet(f, T)
<1> DEFINE B == {R \in SUBSET (T \ S) :
                   ~ SumFunctionOnSet(f, S) <= SumFunctionOnSet(f, S \cup R)}
<1>1. SUFFICES B = {}
  <2>1. T \ S \in SUBSET (T \ S) /\ S \cup (T \ S) = T
    OBVIOUS
  <2> QED
    BY <2>1
<1>2. SUFFICES ASSUME B # {} PROVE FALSE
  OBVIOUS
<1>3. B \subseteq SUBSET (T \ S) /\ IsFiniteSet(T \ S)
  BY FS_Subset
<1> HIDE DEF B
<1>4. PICK R \in B : IsFiniteSet(R) /\ \A Q \in B : Q \subseteq R => Q = R
  BY <1>2, <1>3, SmallestSubset
<1>5. PICK U : U = S \cup R
  OBVIOUS
<1>6. /\ R \subseteq T \ S /\ U \subseteq T /\ IsFiniteSet(U) /\ IsFiniteSet(S)
      /\ \A x \in U : f[x] \in Int
  BY <1>3, <1>5, FS_Subset
<1>7. PICK a \in Int, b \in Int : a = SumFunctionOnSet(f, S) /\ b = SumFunctionOnSet(f, U)
  BY <1>6, SumInt
<1>8. ~ a <= b
  BY <1>4, <1>5, <1>7 DEF B
<1>9. R # {}
  <2>1. SUFFICES ASSUME R = {} PROVE FALSE
    OBVIOUS
  <2>2. U = S
    BY <1>5, <2>1
  <2> QED
    BY <1>7, <1>8, <2>2
<1>10. PICK x \in R : TRUE
  BY <1>9
<1>11. PICK V : V = U \ {x}
  OBVIOUS
<1>12. V = S \cup (R \ {x}) /\ R \ {x} \in SUBSET (T \ S)
  BY <1>5, <1>6, <1>11
<1>13. R \ {x} \notin B
  BY <1>4, <1>10
<1>14. a <= SumFunctionOnSet(f, V)
  BY <1>7, <1>12, <1>13 DEF B
<1>15. V \subseteq U /\ IsFiniteSet(V)
  BY <1>6, <1>11, FS_Subset
<1>16. PICK c \in Int : c = SumFunctionOnSet(f, V)
  BY <1>6, <1>15, SumInt
<1>17. x \in U /\ f[x] \in Nat
  BY <1>5, <1>6
<1>18. b = f[x] + c
  BY <1>6, <1>7, <1>11, <1>16, <1>17, SumRemove
<1> QED
  BY <1>8, <1>14, <1>16, <1>17, <1>18

\* The sum over a part is the sum over the whole with nothing for the rest.
LEMMA SumPart ==
  ASSUME NEW f, NEW T, IsFiniteSet(T), \A x \in T : f[x] \in Int, NEW S, S \subseteq T, NEW g,
         \A x \in T : g[x] = IF x \in S THEN f[x] ELSE 0
  PROVE  SumFunctionOnSet(g, T) = SumFunctionOnSet(f, S)
<1>0. IsFiniteSet(S)
  BY FS_Subset
<1>1. SumFunctionOnSet(g, S) = SumFunctionOnSet(f, S)
  BY <1>0, SumAgree
<1> DEFINE B == {R \in SUBSET (T \ S) :
                   SumFunctionOnSet(g, S \cup R) # SumFunctionOnSet(g, S)}
<1>2. SUFFICES B = {}
  <2>1. T \ S \in SUBSET (T \ S) /\ S \cup (T \ S) = T
    OBVIOUS
  <2>2. SUFFICES ASSUME B = {} PROVE SumFunctionOnSet(g, T) = SumFunctionOnSet(f, S)
    OBVIOUS
  <2>3. T \ S \notin B
    BY <2>2
  <2>4. SumFunctionOnSet(g, S \cup (T \ S)) = SumFunctionOnSet(g, S)
    BY <2>1, <2>3
  <2> QED
    BY <1>1, <2>1, <2>4
<1>3. SUFFICES ASSUME B # {} PROVE FALSE
  OBVIOUS
<1>4. B \subseteq SUBSET (T \ S) /\ IsFiniteSet(T \ S)
  BY FS_Subset
<1> HIDE DEF B
<1>5. PICK R \in B : IsFiniteSet(R) /\ \A Q \in B : Q \subseteq R => Q = R
  BY <1>3, <1>4, SmallestSubset
<1>6. PICK U : U = S \cup R
  OBVIOUS
<1>7. R \subseteq T \ S /\ U \subseteq T /\ IsFiniteSet(U) /\ \A x \in U : g[x] \in Int
  BY <1>4, <1>6, FS_Subset
<1>8. SumFunctionOnSet(g, U) # SumFunctionOnSet(g, S)
  BY <1>5, <1>6 DEF B
<1>9. R # {}
  <2>1. SUFFICES ASSUME R = {} PROVE FALSE
    OBVIOUS
  <2>2. U = S
    BY <1>6, <2>1
  <2> QED
    BY <1>8, <2>2
<1>10. PICK x \in R : TRUE
  BY <1>9
<1>11. PICK V : V = U \ {x}
  OBVIOUS
<1>12. V = S \cup (R \ {x}) /\ R \ {x} \in SUBSET (T \ S)
  BY <1>6, <1>7, <1>11
<1>13. R \ {x} \notin B
  BY <1>5, <1>10
<1>14. SumFunctionOnSet(g, V) = SumFunctionOnSet(g, S)
  BY <1>12, <1>13 DEF B
<1>15. x \in U /\ g[x] = 0 /\ V \subseteq U /\ IsFiniteSet(V)
  BY <1>6, <1>7, <1>11, FS_Subset
<1>16. SumFunctionOnSet(g, V) \in Int
  BY <1>7, <1>15, SumInt
<1>17. SumFunctionOnSet(g, U) = g[x] + SumFunctionOnSet(g, V)
  BY <1>7, <1>11, <1>15, SumRemove
<1> QED
  BY <1>8, <1>14, <1>15, <1>16, <1>17
=============================================================================
