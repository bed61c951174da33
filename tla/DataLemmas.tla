------------------------------ MODULE DataLemmas ------------------------------
(***************************************************************************)
(* Facts about the data the modules are built of, none of them about the   *)
(* system: the least element of a set of naturals, which is what every     *)
(* induction here rests on, sorted listings, and sums over finite sets.    *)
(***************************************************************************)
EXTENDS Integers, Sequences, SequencesExt, FiniteSetTheorems,
        WellFoundedInduction, TLAPS

\* Every nonempty set of naturals has a least element.
LEMMA LeastNat ==
  ASSUME NEW T, T \subseteq Nat, T # {}
  PROVE  \E x \in T : \A y \in T : x <= y
<1>1. PICK x \in T : \A y \in T : ~(<<y, x>> \in OpToRel(<, Nat))
  BY NatLessThanWellFounded, WFMin
<1>2. \A y \in T : ~(y < x)
  BY <1>1 DEF OpToRel
<1> QED BY <1>2

\* A nonempty family of finite sets has a member with the fewest elements.
LEMMA SmallestSet ==
  ASSUME NEW F, F # {}, \A s \in F : IsFiniteSet(s)
  PROVE  \E s \in F : \A t \in F : Cardinality(s) <= Cardinality(t)
<1> DEFINE T == {Cardinality(s) : s \in F}
<1>1. T \subseteq Nat /\ T # {}
  BY FS_CardinalityType
<1> HIDE DEF T
<1>2. PICK n \in T : \A m \in T : n <= m
  BY <1>1, LeastNat
<1>3. QED
  BY <1>2 DEF T

-----------------------------------------------------------------------------
(* SumFunctionOnSet is defined by a fold in an order of its own choosing.  *)

Chosen(s) == CHOOSE x \in s : TRUE

IsFold(g, f, F) ==
  g = [s \in F |-> IF s = {} THEN 0 ELSE f[Chosen(s)] + g[s \ {Chosen(s)}]]

AddsUp(g, f, S) == IsFold(g, f, SUBSET S)

\* One element fewer.
LEMMA WithoutChosen ==
  ASSUME NEW s, IsFiniteSet(s), s # {}
  PROVE  /\ Chosen(s) \in s
         /\ IsFiniteSet(s \ {Chosen(s)})
         /\ Cardinality(s \ {Chosen(s)}) = Cardinality(s) - 1
         /\ Cardinality(s) \in Nat \ {0}
<1>1. Chosen(s) \in s
  BY DEF Chosen
<1>2. QED
  BY <1>1, FS_RemoveElement, FS_CardinalityType, FS_EmptySet

\* A fold of f exists on the subsets of up to any size of a finite set.
LEMMA FoldExists ==
  ASSUME NEW f, NEW S, IsFiniteSet(S)
  PROVE  \E g : IsFold(g, f, SUBSET S)
<1> DEFINE Upto(n) == {s \in SUBSET S : Cardinality(s) <= n}
           T == {n \in Nat : ~ \E g : IsFold(g, f, Upto(n))}
<1>1. \A s \in SUBSET S : IsFiniteSet(s) /\ Cardinality(s) \in Nat
  BY FS_Subset, FS_CardinalityType
<1>2. ASSUME NEW n \in Nat, NEW h, IsFold(h, f, Upto(n))
      PROVE  \E g : IsFold(g, f, Upto(n + 1))
  <2> DEFINE g == [s \in Upto(n + 1) |->
                     IF s = {} THEN 0 ELSE f[Chosen(s)] + h[s \ {Chosen(s)}]]
  <2>1. ASSUME NEW s \in Upto(n + 1), s # {}
        PROVE  g[s \ {Chosen(s)}] = h[s \ {Chosen(s)}]
    <3> DEFINE t == s \ {Chosen(s)}
    <3>1. t \in Upto(n)
      BY <1>1, <2>1, WithoutChosen
    <3>2. t \in Upto(n + 1)
      BY <1>1, <3>1
    <3> HIDE DEF t, Upto
    <3>3. h[t] = IF t = {} THEN 0 ELSE f[Chosen(t)] + h[t \ {Chosen(t)}]
      BY <1>2, <3>1 DEF IsFold
    <3>4. g[t] = IF t = {} THEN 0 ELSE f[Chosen(t)] + h[t \ {Chosen(t)}]
      BY <3>2
    <3>5. QED
      BY <3>3, <3>4 DEF t
  <2>2. IsFold(g, f, Upto(n + 1))
    <3> HIDE DEF Upto
    <3>1. QED
      BY <2>1 DEF IsFold
  <2>3. QED
    BY <2>2
<1>3. \E g : IsFold(g, f, Upto(0))
  <2>1. \A s \in Upto(0) : s = {}
    BY <1>1, FS_EmptySet
  <2> HIDE DEF Upto
  <2>2. IsFold([s \in Upto(0) |-> 0], f, Upto(0))
    BY <2>1 DEF IsFold
  <2>3. QED
    BY <2>2
<1>4. T = {}
  <2>1. SUFFICES ASSUME T # {} PROVE FALSE
    OBVIOUS
  <2>2. PICK n \in T : \A m \in T : n <= m
    <3>1. T \subseteq Nat
      OBVIOUS
    <3> HIDE DEF T
    <3>2. QED
      BY <2>1, <3>1, LeastNat
  <2>3. CASE n = 0
    BY <1>3, <2>3
  <2>4. CASE n # 0
    <3>1. n - 1 \in Nat /\ n - 1 \notin T
      <4>1. n \in Nat
        BY <2>2
      <4> HIDE DEF T
      <4>2. QED
        BY <2>2, <2>4, <4>1
    <3>2. PICK h : IsFold(h, f, Upto(n - 1))
      BY <3>1
    <3> HIDE DEF Upto
    <3>3. \E g : IsFold(g, f, Upto((n - 1) + 1))
      BY <1>2, <3>1, <3>2
    <3>4. (n - 1) + 1 = n
      OBVIOUS
    <3>5. QED
      BY <3>3, <3>4
  <2>5. QED
    BY <2>3, <2>4
<1>5. Upto(Cardinality(S)) = SUBSET S
  BY FS_Subset
<1>6. QED
  <2>1. Cardinality(S) \in Nat
    BY <1>1
  <2> HIDE DEF Upto
  <2>2. \A n \in Nat : \E g : IsFold(g, f, Upto(n))
    BY <1>4
  <2>3. QED
    BY <1>5, <2>1, <2>2

\* Two folds agree where both are defined and what they add up agrees.
LEMMA FoldUnique ==
  ASSUME NEW f, NEW e, NEW S, IsFiniteSet(S), \A x \in S : f[x] = e[x],
         NEW R, S \subseteq R,
         NEW g, AddsUp(g, f, S), NEW h, AddsUp(h, e, R)
  PROVE  g[S] = h[S]
<1> DEFINE T == {s \in SUBSET S : g[s] # h[s]}
<1>1. SUFFICES ASSUME T # {} PROVE FALSE
  OBVIOUS
<1>2. \A s \in T : IsFiniteSet(s)
  BY FS_Subset
<1> HIDE DEF T
<1>3. PICK s \in T : \A t \in T : Cardinality(s) <= Cardinality(t)
  BY <1>1, <1>2, SmallestSet
<1>4. s \in SUBSET S /\ g[s] # h[s] /\ s \in SUBSET R
  BY DEF T
<1>5. /\ g[s] = IF s = {} THEN 0 ELSE f[Chosen(s)] + g[s \ {Chosen(s)}]
      /\ h[s] = IF s = {} THEN 0 ELSE e[Chosen(s)] + h[s \ {Chosen(s)}]
  BY <1>4 DEF AddsUp, IsFold
<1>6. s # {}
  BY <1>4, <1>5
<1>7. Chosen(s) \in S /\ s \ {Chosen(s)} \notin T
  BY <1>2, <1>3, <1>4, <1>6, WithoutChosen
<1>8. g[s \ {Chosen(s)}] = h[s \ {Chosen(s)}]
  BY <1>4, <1>7 DEF T
<1>9. QED
  BY <1>4, <1>5, <1>7, <1>8

\* What SumFunctionOnSet stands for.
LEMMA SumIsFold ==
  ASSUME NEW f, NEW S, IsFiniteSet(S)
  PROVE  \E g : AddsUp(g, f, S) /\ SumFunctionOnSet(f, S) = g[S]
<1> DEFINE h == CHOOSE g : AddsUp(g, f, S)
<1>1. AddsUp(h, f, S)
  BY FoldExists DEF AddsUp
<1>2. SumFunctionOnSet(f, S) = h[S]
  BY DEF SumFunctionOnSet, FoldFunctionOnSet, MapThenFoldSet, AddsUp, IsFold, Chosen
<1>3. QED
  BY <1>1, <1>2

-----------------------------------------------------------------------------
(* The laws of sums.                                                       *)

\* The sum over no element.
LEMMA SumOfNone == \A f : SumFunctionOnSet(f, {}) = 0
<1>1. SUFFICES ASSUME NEW f PROVE SumFunctionOnSet(f, {}) = 0
  OBVIOUS
<1>2. PICK g : AddsUp(g, f, {}) /\ SumFunctionOnSet(f, {}) = g[{}]
  BY SumIsFold, FS_EmptySet
<1>3. QED
  BY <1>2 DEF AddsUp, IsFold

\* A sum depends on what it adds up and on nothing else.
LEMMA SumOfSame ==
  ASSUME NEW f, NEW e, NEW S, IsFiniteSet(S), \A x \in S : f[x] = e[x]
  PROVE  SumFunctionOnSet(f, S) = SumFunctionOnSet(e, S)
<1>1. PICK g : AddsUp(g, f, S) /\ SumFunctionOnSet(f, S) = g[S]
  BY SumIsFold
<1>2. PICK h : AddsUp(h, e, S) /\ SumFunctionOnSet(e, S) = h[S]
  BY SumIsFold
<1>3. g[S] = h[S]
  <2>1. S \subseteq S /\ AddsUp(g, f, S) /\ AddsUp(h, e, S)
    BY <1>1, <1>2
  <2>2. QED
    BY <2>1, FoldUnique
<1>4. QED
  BY <1>1, <1>2, <1>3

\* A sum is unfolded at the element that the fold chooses first.
LEMMA SumWithoutChosen ==
  ASSUME NEW f, NEW S, IsFiniteSet(S), S # {}
  PROVE  SumFunctionOnSet(f, S) = f[Chosen(S)] + SumFunctionOnSet(f, S \ {Chosen(S)})
<1> DEFINE R == S \ {Chosen(S)}
<1>1. IsFiniteSet(R)
  BY WithoutChosen
<1>2. PICK h : AddsUp(h, f, S) /\ SumFunctionOnSet(f, S) = h[S]
  BY SumIsFold
<1>3. PICK g : AddsUp(g, f, R) /\ SumFunctionOnSet(f, R) = g[R]
  BY <1>1, SumIsFold
<1>4. g[R] = h[R]
  <2>1. R \subseteq S /\ AddsUp(g, f, R) /\ AddsUp(h, f, S)
    BY <1>2, <1>3
  <2> DEFINE e == f
  <2>e. AddsUp(g, e, R) /\ \A x \in R : f[x] = e[x]
    BY <2>1
  <2> HIDE DEF e
  <2> HIDE DEF R
  <2>2. QED
    BY <1>1, <2>1, <2>e, FoldUnique
<1>5. h[S] = f[Chosen(S)] + h[R]
  BY <1>2 DEF AddsUp, IsFold
<1>6. QED
  BY <1>2, <1>3, <1>4, <1>5

\* A sum of integers is one, and splits at any of its elements.
LEMMA SumSplits ==
  ASSUME NEW f, NEW S, IsFiniteSet(S), \A x \in S : f[x] \in Int
  PROVE  /\ SumFunctionOnSet(f, S) \in Int
         /\ \A x \in S : SumFunctionOnSet(f, S) = f[x] + SumFunctionOnSet(f, S \ {x})
<1> DEFINE Splits(s) ==
             /\ SumFunctionOnSet(f, s) \in Int
             /\ \A x \in s : SumFunctionOnSet(f, s) = f[x] + SumFunctionOnSet(f, s \ {x})
           T == {s \in SUBSET S : ~Splits(s)}
<1>1. SUFFICES ASSUME T # {} PROVE FALSE
  OBVIOUS
<1>2. \A s \in SUBSET S : IsFiniteSet(s) /\ Cardinality(s) \in Nat
  BY FS_Subset, FS_CardinalityType
<1>3. PICK s \in T : \A t \in T : Cardinality(s) <= Cardinality(t)
  <2>1. \A t \in T : IsFiniteSet(t)
    BY <1>2
  <2> HIDE DEF T
  <2>2. QED
    BY <1>1, <2>1, SmallestSet
<1>4. s # {}
  BY <1>3, SumOfNone
<1>5. ASSUME NEW x \in s
      PROVE  Splits(s \ {x}) /\ s \ {x} \in SUBSET S
  <2>1. Cardinality(s \ {x}) = Cardinality(s) - 1
    BY <1>2, <1>5, FS_RemoveElement
  <2>2. s \ {x} \notin T
    <3>1. Cardinality(s) \in Nat
      BY <1>2
    <3> HIDE DEF T
    <3>2. QED
      BY <1>3, <2>1, <3>1
  <2>3. s \ {x} \in SUBSET S
    OBVIOUS
  <2> HIDE DEF Splits
  <2>4. QED
    BY <2>2, <2>3
<1> DEFINE c == Chosen(s)
<1>6. c \in s /\ IsFiniteSet(s)
  BY <1>2, <1>4, WithoutChosen
<1>7. SumFunctionOnSet(f, s) = f[c] + SumFunctionOnSet(f, s \ {c})
  BY <1>4, <1>6, SumWithoutChosen
<1> HIDE DEF c
<1>8. ASSUME NEW x \in s, x # c
      PROVE  SumFunctionOnSet(f, s) = f[x] + SumFunctionOnSet(f, s \ {x})
  <2>1. SumFunctionOnSet(f, s \ {c}) = f[x] + SumFunctionOnSet(f, (s \ {c}) \ {x})
    BY <1>5, <1>6, <1>8
  <2>2. SumFunctionOnSet(f, s \ {x}) = f[c] + SumFunctionOnSet(f, (s \ {x}) \ {c})
    BY <1>5, <1>6, <1>8
  <2>3. (s \ {x}) \ {c} = (s \ {c}) \ {x}
    OBVIOUS
  <2>4. /\ f[x] \in Int /\ f[c] \in Int
        /\ SumFunctionOnSet(f, (s \ {c}) \ {x}) \in Int
    <3>1. Splits((s \ {c}) \ {x}) 
      <4>1. (s \ {c}) \ {x} \in SUBSET S
        OBVIOUS
      <4>2. Cardinality((s \ {c}) \ {x}) < Cardinality(s)
        <5>1. /\ IsFiniteSet(s \ {c}) /\ Cardinality(s) \in Nat
              /\ Cardinality(s \ {c}) = Cardinality(s) - 1
          BY <1>2, <1>6, FS_RemoveElement
        <5>2. x \in s \ {c}
          BY <1>8
        <5>3. Cardinality((s \ {c}) \ {x}) = Cardinality(s \ {c}) - 1
          BY <5>1, <5>2, FS_RemoveElement
        <5>4. QED
          BY <5>1, <5>3
      <4>3. (s \ {c}) \ {x} \notin T
        <5>1. Cardinality((s \ {c}) \ {x}) \in Nat /\ Cardinality(s) \in Nat
          BY <1>2, <4>1
        <5> HIDE DEF T
        <5>2. QED
          BY <1>3, <4>2, <5>1
      <4> HIDE DEF Splits
      <4>4. QED
        BY <4>1, <4>3
    <3>2. QED
      BY <1>6, <3>1
  <2> DEFINE d == SumFunctionOnSet(f, (s \ {c}) \ {x})
  <2>5. /\ SumFunctionOnSet(f, s \ {c}) = f[x] + d
        /\ SumFunctionOnSet(f, s \ {x}) = f[c] + d
    BY <2>1, <2>2, <2>3
  <2>6. d \in Int
    BY <2>4
  <2> HIDE DEF d
  <2>7. QED
    BY <1>7, <2>4, <2>5, <2>6
<1>9. SumFunctionOnSet(f, s) \in Int
  BY <1>5, <1>6, <1>7
<1>10. QED
  BY <1>3, <1>7, <1>8, <1>9

\* One more element adds its own.
LEMMA SumJoins ==
  ASSUME NEW f, NEW S, IsFiniteSet(S), NEW x, x \notin S,
         \A y \in S : f[y] \in Int, f[x] \in Int
  PROVE  /\ SumFunctionOnSet(f, S) \in Int
         /\ SumFunctionOnSet(f, S \cup {x}) = f[x] + SumFunctionOnSet(f, S)
<1> DEFINE T == S \cup {x}
<1>1. IsFiniteSet(T)
  BY FS_AddElement
<1>2. x \in T /\ T \ {x} = S /\ \A y \in T : f[y] \in Int
  OBVIOUS
<1> HIDE DEF T
<1>3. SumFunctionOnSet(f, T) = f[x] + SumFunctionOnSet(f, T \ {x})
  BY <1>1, <1>2, SumSplits
<1>4. SumFunctionOnSet(f, S) \in Int
  BY SumSplits
<1>5. QED
  BY <1>2, <1>3, <1>4 DEF T

\* A sum over two disjoint sets is the sum of their sums.
LEMMA SumOfUnion ==
  ASSUME NEW f, NEW A, NEW B, IsFiniteSet(A), IsFiniteSet(B), A \cap B = {},
         \A x \in A : f[x] \in Int, \A x \in B : f[x] \in Int
  PROVE  SumFunctionOnSet(f, A \cup B) = SumFunctionOnSet(f, A) + SumFunctionOnSet(f, B)
<1> DEFINE Adds(s) == SumFunctionOnSet(f, A \cup s) =
                        SumFunctionOnSet(f, A) + SumFunctionOnSet(f, s)
           T == {s \in SUBSET B : ~Adds(s)}
<1>1. SUFFICES ASSUME T # {} PROVE FALSE
  OBVIOUS
<1>2. \A s \in SUBSET B : IsFiniteSet(s) /\ IsFiniteSet(A \cup s)
  BY FS_Subset, FS_Union
<1>3. PICK s \in T : \A t \in T : Cardinality(s) <= Cardinality(t)
  BY <1>1, <1>2, SmallestSet
<1>4. s \in SUBSET B /\ ~Adds(s)
  BY <1>3
<1>5. SumFunctionOnSet(f, A) \in Int
  BY SumSplits
<1>6. s # {}
  <2>1. A \cup {} = A /\ SumFunctionOnSet(f, {}) = 0
    BY SumOfNone
  <2>2. Adds({})
    BY <1>5, <2>1
  <2>3. QED
    BY <1>4, <2>2
<1>7. PICK x \in s : TRUE
  BY <1>6
<1> DEFINE r == s \ {x}
<1>8. r \in SUBSET B /\ IsFiniteSet(s) /\ IsFiniteSet(r) /\ IsFiniteSet(A \cup r)
  BY <1>2, <1>4
<1>9. Adds(r)
  <2>1. Cardinality(r) = Cardinality(s) - 1 /\ Cardinality(s) \in Nat
    BY <1>7, <1>8, FS_RemoveElement, FS_CardinalityType
  <2>2. r \notin T
    <3>1. ~(Cardinality(s) <= Cardinality(r))
      BY <2>1
    <3> HIDE DEF T, r
    <3>2. QED
      BY <1>3, <3>1
  <2>3. QED
    BY <1>8, <2>2
<1>10. SumFunctionOnSet(f, r \cup {x}) = f[x] + SumFunctionOnSet(f, r)
       /\ SumFunctionOnSet(f, r) \in Int
  <2>1. x \notin r /\ f[x] \in Int /\ \A y \in r : f[y] \in Int
    BY <1>4, <1>7
  <2> HIDE DEF r
  <2>2. QED
    BY <1>8, <2>1, SumJoins
<1> DEFINE u == A \cup r
<1>11. SumFunctionOnSet(f, u \cup {x}) = f[x] + SumFunctionOnSet(f, u)
  <2>1. x \notin u /\ f[x] \in Int /\ (\A y \in u : f[y] \in Int) /\ IsFiniteSet(u)
    BY <1>4, <1>7, <1>8
  <2> HIDE DEF u
  <2>2. QED
    BY <2>1, SumJoins
<1>12. r \cup {x} = s /\ u \cup {x} = A \cup s /\ f[x] \in Int
  BY <1>4, <1>7
<1>13. QED
  <2>1. SumFunctionOnSet(f, u) = SumFunctionOnSet(f, A) + SumFunctionOnSet(f, r)
    BY <1>9
  <2>2. SumFunctionOnSet(f, s) = f[x] + SumFunctionOnSet(f, r)
    BY <1>10, <1>12
  <2>3. SumFunctionOnSet(f, A \cup s) = f[x] + SumFunctionOnSet(f, u)
    BY <1>11, <1>12
  <2> HIDE DEF u, r, T
  <2>4. Adds(s)
    BY <1>5, <1>10, <1>12, <2>1, <2>2, <2>3
  <2>5. QED
    BY <1>4, <2>4

\* A sum of naturals is one.
LEMMA SumIsNat ==
  ASSUME NEW f, NEW S, IsFiniteSet(S), \A x \in S : f[x] \in Nat
  PROVE  SumFunctionOnSet(f, S) \in Nat
<1> DEFINE T == {s \in SUBSET S : SumFunctionOnSet(f, s) \notin Nat}
<1>1. SUFFICES ASSUME T # {} PROVE FALSE
  OBVIOUS
<1>2. \A s \in SUBSET S : IsFiniteSet(s) /\ Cardinality(s) \in Nat
  BY FS_Subset, FS_CardinalityType
<1>3. PICK s \in T : \A t \in T : Cardinality(s) <= Cardinality(t)
  <2>1. \A t \in T : IsFiniteSet(t)
    BY <1>2
  <2> HIDE DEF T
  <2>2. QED
    BY <1>1, <2>1, SmallestSet
<1>4. PICK x \in s : TRUE
  BY SumOfNone
<1>5. Cardinality(s \ {x}) = Cardinality(s) - 1
  BY <1>2, FS_RemoveElement
<1>6. s \ {x} \notin T
  BY <1>2, <1>3, <1>5
<1>7. SumFunctionOnSet(f, s) = f[x] + SumFunctionOnSet(f, s \ {x})
  <2>1. \A y \in s : f[y] \in Int
    OBVIOUS
  <2>2. QED
    BY <1>2, <2>1, SumSplits
<1>8. QED
  BY <1>6, <1>7

\* A sum of n integers up to c is at most c * n.
LEMMA SumAtMost ==
  ASSUME NEW f, NEW S, IsFiniteSet(S), NEW c \in Int,
         \A x \in S : f[x] \in Int /\ f[x] <= c
  PROVE  /\ Cardinality(S) \in Nat /\ SumFunctionOnSet(f, S) \in Int
         /\ SumFunctionOnSet(f, S) <= c * Cardinality(S)
<1> DEFINE Holds(s) == SumFunctionOnSet(f, s) <= c * Cardinality(s)
           T == {s \in SUBSET S : ~ Holds(s)}
<1>1. \A s \in SUBSET S : /\ IsFiniteSet(s) /\ Cardinality(s) \in Nat
                          /\ SumFunctionOnSet(f, s) \in Int
  <2>1. \A s \in SUBSET S : IsFiniteSet(s) /\ \A x \in s : f[x] \in Int
    BY FS_Subset
  <2>2. QED
    BY <2>1, FS_CardinalityType, SumSplits
<1>2. SUFFICES ASSUME T # {} PROVE FALSE
  <2>1. S \in SUBSET S
    OBVIOUS
  <2>2. S \notin T => Holds(S)
    BY <2>1
  <2>3. QED
    BY <1>1, <2>1, <2>2
<1>3. PICK s \in T : \A t \in T : Cardinality(s) <= Cardinality(t)
  <2>1. \A t \in T : IsFiniteSet(t)
    BY <1>1
  <2> HIDE DEF T
  <2>2. QED
    BY <1>2, <2>1, SmallestSet
<1>4. s \in SUBSET S /\ ~ Holds(s) /\ IsFiniteSet(s) /\ Cardinality(s) \in Nat
  BY <1>1, <1>3
<1>5. PICK x \in s : TRUE
  <2>1. Cardinality({}) = 0 /\ c * 0 = 0 /\ SumFunctionOnSet(f, {}) = 0
    BY SumOfNone, FS_EmptySet
  <2>2. Holds({})
    BY <2>1
  <2> HIDE DEF Holds
  <2>3. QED
    BY <1>4, <2>2
<1> DEFINE r == s \ {x}
           n == Cardinality(r)
<1>6. r \in SUBSET S /\ Cardinality(s) = n + 1 /\ n \in Nat
  BY <1>1, <1>4, FS_RemoveElement, FS_CardinalityType
<1>7. Holds(r)
  <2>1. r \notin T
    <3> HIDE DEF T, r
    <3>1. QED
      BY <1>3, <1>6
  <2> HIDE DEF Holds
  <2>2. QED
    BY <1>6, <2>1
<1>8. SumFunctionOnSet(f, s) = f[x] + SumFunctionOnSet(f, r)
  <2>1. \A y \in s : f[y] \in Int
    BY <1>4
  <2>2. QED
    BY <1>4, <2>1, SumSplits
<1>9. f[x] \in Int /\ f[x] <= c /\ SumFunctionOnSet(f, r) \in Int
  BY <1>1, <1>4, <1>6
<1>10. c * (n + 1) = c * n + c /\ c * n \in Int
  BY <1>6
<1> HIDE DEF r
<1>11. QED
  BY <1>4, <1>6, <1>7, <1>8, <1>9, <1>10

\* A sum of n integers from c on is at least c * n.
LEMMA SumAtLeast ==
  ASSUME NEW f, NEW S, IsFiniteSet(S), NEW c \in Int,
         \A x \in S : f[x] \in Int /\ f[x] >= c
  PROVE  /\ Cardinality(S) \in Nat /\ SumFunctionOnSet(f, S) \in Int
         /\ SumFunctionOnSet(f, S) >= c * Cardinality(S)
<1> DEFINE Holds(s) == SumFunctionOnSet(f, s) >= c * Cardinality(s)
           T == {s \in SUBSET S : ~ Holds(s)}
<1>1. \A s \in SUBSET S : /\ IsFiniteSet(s) /\ Cardinality(s) \in Nat
                          /\ SumFunctionOnSet(f, s) \in Int
  <2>1. \A s \in SUBSET S : IsFiniteSet(s) /\ \A x \in s : f[x] \in Int
    BY FS_Subset
  <2>2. QED
    BY <2>1, FS_CardinalityType, SumSplits
<1>2. SUFFICES ASSUME T # {} PROVE FALSE
  <2>1. S \in SUBSET S
    OBVIOUS
  <2>2. S \notin T => Holds(S)
    BY <2>1
  <2>3. QED
    BY <1>1, <2>1, <2>2
<1>3. PICK s \in T : \A t \in T : Cardinality(s) <= Cardinality(t)
  <2>1. \A t \in T : IsFiniteSet(t)
    BY <1>1
  <2> HIDE DEF T
  <2>2. QED
    BY <1>2, <2>1, SmallestSet
<1>4. s \in SUBSET S /\ ~ Holds(s) /\ IsFiniteSet(s) /\ Cardinality(s) \in Nat
  BY <1>1, <1>3
<1>5. PICK x \in s : TRUE
  <2>1. Cardinality({}) = 0 /\ c * 0 = 0 /\ SumFunctionOnSet(f, {}) = 0
    BY SumOfNone, FS_EmptySet
  <2>2. Holds({})
    BY <2>1
  <2> HIDE DEF Holds
  <2>3. QED
    BY <1>4, <2>2
<1> DEFINE r == s \ {x}
           n == Cardinality(r)
<1>6. r \in SUBSET S /\ Cardinality(s) = n + 1 /\ n \in Nat
  BY <1>1, <1>4, FS_RemoveElement, FS_CardinalityType
<1>7. Holds(r)
  <2>1. r \notin T
    <3> HIDE DEF T, r
    <3>1. QED
      BY <1>3, <1>6
  <2> HIDE DEF Holds
  <2>2. QED
    BY <1>6, <2>1
<1>8. SumFunctionOnSet(f, s) = f[x] + SumFunctionOnSet(f, r)
  <2>1. \A y \in s : f[y] \in Int
    BY <1>4
  <2>2. QED
    BY <1>4, <2>1, SumSplits
<1>9. f[x] \in Int /\ f[x] >= c /\ SumFunctionOnSet(f, r) \in Int
  BY <1>1, <1>4, <1>6
<1>10. c * (n + 1) = c * n + c /\ c * n \in Int
  BY <1>6
<1> HIDE DEF r
<1>11. QED
  BY <1>4, <1>6, <1>7, <1>8, <1>9, <1>10

\* A finite part of a sum of naturals is at most the whole.
LEMMA SumOfPart ==
  ASSUME NEW f, NEW S, IsFiniteSet(S), \A x \in S : f[x] \in Nat,
         NEW R \in SUBSET S
  PROVE  SumFunctionOnSet(f, R) <= SumFunctionOnSet(f, S)
<1> DEFINE T == {s \in SUBSET S : R \subseteq s
                   /\ ~(SumFunctionOnSet(f, R) <= SumFunctionOnSet(f, s))}
<1>1. SUFFICES ASSUME T # {} PROVE FALSE
  OBVIOUS
<1>2. \A s \in SUBSET S : IsFiniteSet(s) /\ Cardinality(s) \in Nat
  BY FS_Subset, FS_CardinalityType
<1>3. PICK s \in T : \A t \in T : Cardinality(s) <= Cardinality(t)
  <2>1. \A t \in T : IsFiniteSet(t)
    BY <1>2
  <2> HIDE DEF T
  <2>2. QED
    BY <1>1, <2>1, SmallestSet
<1>4. s \in SUBSET S /\ R \subseteq s
  BY <1>3
<1>5. \A t \in SUBSET S : SumFunctionOnSet(f, t) \in Nat
  BY <1>2, SumIsNat
<1>6. PICK x \in s : x \notin R
  <2>1. SumFunctionOnSet(f, R) \in Nat
    BY <1>5
  <2>2. s # R
    BY <1>3, <2>1
  <2>3. QED
    BY <1>4, <2>2
<1>7. Cardinality(s \ {x}) = Cardinality(s) - 1
  BY <1>2, <1>4, FS_RemoveElement
<1>8. s \ {x} \notin T
  <2>1. Cardinality(s) \in Nat
    BY <1>2, <1>4
  <2> HIDE DEF T
  <2>2. QED
    BY <1>3, <1>7, <2>1
<1>9. SumFunctionOnSet(f, s) = f[x] + SumFunctionOnSet(f, s \ {x})
  <2>1. \A y \in s : f[y] \in Int
    BY <1>4
  <2>2. QED
    BY <1>2, <1>4, <2>1, SumSplits
<1>10. /\ SumFunctionOnSet(f, R) \in Nat
       /\ SumFunctionOnSet(f, s \ {x}) \in Nat
       /\ f[x] \in Nat
  BY <1>4, <1>5
<1>11. SumFunctionOnSet(f, R) <= SumFunctionOnSet(f, s \ {x})
  BY <1>4, <1>6, <1>8
<1>12. ~(SumFunctionOnSet(f, R) <= SumFunctionOnSet(f, s))
  BY <1>3
<1> HIDE DEF T
<1>13. QED
  BY <1>9, <1>10, <1>11, <1>12

\* What adds nothing may be left out of a sum.
LEMMA SumWithoutZeros ==
  ASSUME NEW f, NEW S, IsFiniteSet(S), \A x \in S : f[x] \in Int,
         NEW R \in SUBSET S, \A x \in S \ R : f[x] = 0
  PROVE  SumFunctionOnSet(f, R) = SumFunctionOnSet(f, S)
<1> DEFINE T == {s \in SUBSET S : R \subseteq s
                   /\ SumFunctionOnSet(f, R) # SumFunctionOnSet(f, s)}
<1>1. SUFFICES ASSUME T # {} PROVE FALSE
  OBVIOUS
<1>2. \A s \in SUBSET S : IsFiniteSet(s) /\ Cardinality(s) \in Nat
  BY FS_Subset, FS_CardinalityType
<1>3. PICK s \in T : \A t \in T : Cardinality(s) <= Cardinality(t)
  <2>1. \A t \in T : IsFiniteSet(t)
    BY <1>2
  <2> HIDE DEF T
  <2>2. QED
    BY <1>1, <2>1, SmallestSet
<1>4. s \in SUBSET S /\ R \subseteq s
  BY <1>3
<1>5. PICK x \in s : x \notin R
  BY <1>3, <1>4
<1>6. Cardinality(s \ {x}) = Cardinality(s) - 1
  BY <1>2, <1>4, FS_RemoveElement
<1>7. s \ {x} \notin T
  <2>1. Cardinality(s) \in Nat
    BY <1>2, <1>4
  <2> HIDE DEF T
  <2>2. QED
    BY <1>3, <1>6, <2>1
<1>8. SumFunctionOnSet(f, s) = f[x] + SumFunctionOnSet(f, s \ {x})
  <2>1. \A y \in s : f[y] \in Int
    BY <1>4
  <2>2. QED
    BY <1>2, <1>4, <2>1, SumSplits
<1>9. f[x] = 0 /\ SumFunctionOnSet(f, s \ {x}) \in Int
  <2>1. \A y \in s \ {x} : f[y] \in Int
    BY <1>4
  <2>2. IsFiniteSet(s \ {x})
    BY <1>2, <1>4
  <2>3. QED
    BY <1>4, <1>5, <2>1, <2>2, SumSplits
<1>10. SumFunctionOnSet(f, R) = SumFunctionOnSet(f, s \ {x})
  BY <1>4, <1>5, <1>7
<1>11. SumFunctionOnSet(f, R) # SumFunctionOnSet(f, s)
  BY <1>3
<1> HIDE DEF T
<1>12. QED
  BY <1>8, <1>9, <1>10, <1>11

\* The elements of R are those of S under other names.
Renames(h, S, R) ==
  /\ \A x \in S : h[x] \in R
  /\ \A x, y \in S : h[x] = h[y] => x = y
  /\ \A z \in R : \E x \in S : h[x] = z

\* A sum is the same under other names.
LEMMA SumRenamed ==
  ASSUME NEW f, NEW e, NEW S, IsFiniteSet(S), \A x \in S : f[x] \in Int,
         NEW h, NEW R, Renames(h, S, R), \A x \in S : e[h[x]] = f[x]
  PROVE  SumFunctionOnSet(f, S) = SumFunctionOnSet(e, R)
<1> DEFINE Image(s) == {h[x] : x \in s}
           T == {s \in SUBSET S : SumFunctionOnSet(f, s) # SumFunctionOnSet(e, Image(s))}
<1>1. ASSUME T # {} PROVE FALSE
  <2>1. \A s \in SUBSET S : IsFiniteSet(s) /\ Cardinality(s) \in Nat
    BY FS_Subset, FS_CardinalityType
  <2>2. PICK s \in T : \A t \in T : Cardinality(s) <= Cardinality(t)
    <3>1. \A t \in T : IsFiniteSet(t)
      BY <2>1
    <3> HIDE DEF T
    <3>2. QED
      BY <1>1, <3>1, SmallestSet
  <2>3. s \in SUBSET S /\ SumFunctionOnSet(f, s) # SumFunctionOnSet(e, Image(s))
    BY <2>2
  <2>4. PICK x \in s : TRUE
    <3>1. Image({}) = {}
      OBVIOUS
    <3> HIDE DEF Image
    <3>2. s # {}
      BY <2>3, <3>1, SumOfNone
    <3>3. QED
      BY <3>2
  <2>5. Cardinality(s \ {x}) = Cardinality(s) - 1
    BY <2>1, <2>3, FS_RemoveElement
  <2>6. s \ {x} \notin T
    <3>1. Cardinality(s) \in Nat
      BY <2>1, <2>3
    <3> HIDE DEF T
    <3>2. QED
      BY <2>2, <2>5, <3>1
  <2>7. SumFunctionOnSet(f, s \ {x}) = SumFunctionOnSet(e, Image(s \ {x}))
    BY <2>3, <2>6
  <2>8. SumFunctionOnSet(f, s) = f[x] + SumFunctionOnSet(f, s \ {x})
    <3>1. \A y \in s : f[y] \in Int
      BY <2>3
    <3>2. QED
      BY <2>1, <2>3, <3>1, SumSplits
  <2>9. Image(s \ {x}) = Image(s) \ {h[x]}
    BY <2>3 DEF Renames
  <2>10. SumFunctionOnSet(e, Image(s)) = e[h[x]] + SumFunctionOnSet(e, Image(s) \ {h[x]})
    <3>1. IsFiniteSet(Image(s))
      <4>1. IsFiniteSet(s)
        BY <2>1, <2>3
      <4>2. [y \in s |-> h[y]] \in Surjection(s, Image(s))
        BY DEF Surjection
      <4> HIDE DEF Image
      <4>3. QED
        BY <4>1, <4>2, FS_Surjection
    <3>2. \A z \in Image(s) : e[z] \in Int
      BY <2>3
    <3>3. h[x] \in Image(s)
      OBVIOUS
    <3> HIDE DEF Image
    <3>4. QED
      BY <3>1, <3>2, <3>3, SumSplits
  <2>11. e[h[x]] = f[x]
    BY <2>3
  <2> HIDE DEF T, Image
  <2>12. QED
    BY <2>3, <2>7, <2>8, <2>9, <2>10, <2>11
<1>2. Image(S) = R
  BY DEF Renames
<1>3. QED
  BY <1>1, <1>2

-----------------------------------------------------------------------------
(* Listings.                                                               *)

\* A list without repetition is as long as what it lists.
LEMMA InjectiveCounts ==
  ASSUME NEW S, NEW q \in Seq(S), \A i, j \in DOMAIN q : i # j => q[i] # q[j]
  PROVE  Cardinality(Range(q)) = Len(q)
<1>1. Len(q) \in Nat /\ DOMAIN q = 1 .. Len(q)
  OBVIOUS
<1>2. [i \in 1 .. Len(q) |-> q[i]] \in Bijection(1 .. Len(q), Range(q))
  BY <1>1 DEF Bijection, Injection, Surjection, IsInjective, Range
<1>3. ExistsBijection(1 .. Len(q), Range(q))
  BY <1>2 DEF ExistsBijection
<1>4. QED
  BY <1>1, <1>3, FS_CountingElements

\* The relation R orders the elements of S.
Arranges(R, S) ==
  /\ \A x \in S : <<x, x>> \notin R
  /\ \A x, y \in S : x # y => <<x, y>> \in R \/ <<y, x>> \in R
  /\ \A x, y, z \in S : <<x, y>> \in R /\ <<y, z>> \in R => <<x, z>> \in R

\* A finite nonempty set has a last element.
LEMMA LastElement ==
  ASSUME NEW S, IsFiniteSet(S), S # {}, NEW R, Arranges(R, S)
  PROVE  \E x \in S : \A y \in S \ {x} : <<y, x>> \in R
<1> DEFINE After(x) == {y \in S : <<x, y>> \in R}
           F == {After(x) : x \in S}
<1>1. \A x \in S : IsFiniteSet(After(x)) /\ Cardinality(After(x)) \in Nat
  BY FS_Subset, FS_CardinalityType
<1>2. PICK x \in S : \A y \in S : Cardinality(After(x)) <= Cardinality(After(y))
  <2>1. F # {} /\ \A s \in F : IsFiniteSet(s)
    BY <1>1
  <2>2. PICK s \in F : \A t \in F : Cardinality(s) <= Cardinality(t)
    <3> HIDE DEF F
    <3>1. QED
      BY <2>1, SmallestSet
  <2>3. QED
    BY <2>2
<1>3. ASSUME NEW y \in S, <<x, y>> \in R PROVE FALSE
  <2>1. After(y) \subseteq After(x) /\ y \in After(x) /\ y \notin After(y)
    BY <1>3 DEF Arranges
  <2> DEFINE a == After(x)
             b == After(y)
  <2>2. /\ IsFiniteSet(a) /\ Cardinality(a) \in Nat /\ Cardinality(b) \in Nat
        /\ b \in SUBSET a /\ a # b /\ Cardinality(a) <= Cardinality(b)
    BY <1>1, <1>2, <2>1
  <2> HIDE DEF a, b
  <2>3. Cardinality(b) <= Cardinality(a) /\ (Cardinality(a) = Cardinality(b) => a = b)
    BY <2>2, FS_Subset
  <2>4. QED
    BY <2>2, <2>3
<1>4. QED
  BY <1>3 DEF Arranges

\* And a first one.
LEMMA FirstElement ==
  ASSUME NEW S, IsFiniteSet(S), S # {}, NEW R, Arranges(R, S)
  PROVE  \E x \in S : \A y \in S \ {x} : <<x, y>> \in R
<1> DEFINE Q == {p \in S \X S : <<p[2], p[1]>> \in R}
<1>1. \A x, y \in S : <<x, y>> \in Q <=> <<y, x>> \in R
  OBVIOUS
<1> HIDE DEF Q
<1>2. Arranges(Q, S)
  BY <1>1 DEF Arranges
<1>3. QED
  BY <1>1, <1>2, LastElement

\* q lists S in the order of R.
Listed(q, S, R) ==
  /\ q \in SetToSeqs(S)
  /\ \A i, j \in DOMAIN q : i < j => <<q[i], q[j]>> \in R

\* A finite set can be listed in the order of R.
LEMMA SortedListing ==
  ASSUME NEW S, IsFiniteSet(S), NEW R, Arranges(R, S)
  PROVE  \E q : Listed(q, S, R)
<1> DEFINE T == {s \in SUBSET S : ~ \E q : Listed(q, s, R)}
<1>1. SUFFICES ASSUME T # {} PROVE FALSE
  OBVIOUS
<1>2. \A s \in SUBSET S : IsFiniteSet(s) /\ Cardinality(s) \in Nat
  BY FS_Subset, FS_CardinalityType
<1>3. PICK s \in T : \A t \in T : Cardinality(s) <= Cardinality(t)
  <2>1. \A t \in T : IsFiniteSet(t)
    BY <1>2
  <2> HIDE DEF T
  <2>2. QED
    BY <1>1, <2>1, SmallestSet
<1>4. s \in SUBSET S /\ IsFiniteSet(s) /\ Cardinality(s) \in Nat /\ ~ \E q : Listed(q, s, R)
  BY <1>2, <1>3
<1>5. s # {}
  <2>1. Listed(<<>>, {}, R)
    <3>1. Cardinality({}) = 0
      BY FS_EmptySet
    <3>2. <<>> \in [1 .. 0 -> {}] /\ DOMAIN <<>> = {}
      OBVIOUS
    <3>3. QED
      BY <3>1, <3>2 DEF Listed, SetToSeqs
  <2>2. QED
    BY <1>4, <2>1
<1>6. PICK x \in s : \A y \in s \ {x} : <<y, x>> \in R
  <2>1. Arranges(R, s)
    BY <1>4 DEF Arranges
  <2>2. QED
    BY <1>4, <1>5, <2>1, LastElement
<1> DEFINE r == s \ {x}
           n == Cardinality(r)
<1>7. n \in Nat /\ Cardinality(s) = n + 1
  <2>1. Cardinality(r) = Cardinality(s) - 1 /\ IsFiniteSet(r)
    BY <1>4, FS_RemoveElement
  <2>2. Cardinality(r) \in Nat
    BY <2>1, FS_CardinalityType
  <2>3. QED
    BY <1>4, <2>1, <2>2
<1>8. PICK q : Listed(q, r, R)
  <2>1. r \notin T
    <3> HIDE DEF T, r
    <3>1. QED
      BY <1>3, <1>7
  <2>2. r \in SUBSET S
    BY <1>4
  <2>3. QED
    BY <2>1, <2>2
<1>9. /\ q \in [1 .. n -> r] /\ DOMAIN q = 1 .. n
      /\ \A i, j \in 1 .. n : i # j => q[i] # q[j]
      /\ \A i, j \in 1 .. n : i < j => <<q[i], q[j]>> \in R
  BY <1>8 DEF Listed, SetToSeqs
<1> DEFINE p == [i \in 1 .. n + 1 |-> IF i = n + 1 THEN x ELSE q[i]]
<1> HIDE DEF n
<1>10. /\ p \in [1 .. n + 1 -> s]
       /\ \A i, j \in 1 .. n + 1 : i # j => p[i] # p[j]
       /\ \A i, j \in 1 .. n + 1 : i < j => <<p[i], p[j]>> \in R
  <2>1. \A i \in 1 .. n : i \in 1 .. n + 1 /\ i # n + 1 /\ q[i] \in r
    BY <1>7, <1>9
  <2>2. \A i \in 1 .. n + 1 : i = n + 1 \/ i \in 1 .. n
    BY <1>7
  <2>3. \A i \in 1 .. n : p[i] = q[i] /\ p[i] \in s /\ p[i] # x
    BY <2>1
  <2>4. p[n + 1] = x /\ n + 1 \in 1 .. n + 1
    BY <1>7
  <2>5. \A i, j \in 1 .. n + 1 : i < j => i \in 1 .. n
    BY <1>7
  <2>6. p \in [1 .. n + 1 -> s]
    BY <2>2, <2>1
  <2> HIDE DEF p
  <2>7. \A i, j \in 1 .. n + 1 : i # j => p[i] # p[j]
    BY <1>9, <2>2, <2>3, <2>4
  <2>8. \A i, j \in 1 .. n + 1 : i < j => <<p[i], p[j]>> \in R
    BY <1>6, <1>9, <2>1, <2>2, <2>3, <2>4, <2>5
  <2>9. QED
    BY <2>6, <2>7, <2>8
<1>11. Listed(p, s, R)
  <2>1. DOMAIN p = 1 .. n + 1
    OBVIOUS
  <2> HIDE DEF p
  <2>2. p \in SetToSeqs(s)
    BY <1>7, <1>10 DEF SetToSeqs
  <2>3. QED
    BY <1>10, <2>1, <2>2 DEF Listed
<1>12. QED
  BY <1>4, <1>11

\* What a listing has at a place another with the same beginning has later.
LEMMA ListedLater ==
  ASSUME NEW S, IsFiniteSet(S), NEW R, NEW p, Listed(p, S, R), NEW q, Listed(q, S, R),
         NEW i \in DOMAIN p, \A j \in DOMAIN p : j < i => p[j] = q[j], p[i] # q[i]
  PROVE  <<q[i], p[i]>> \in R
<1> DEFINE n == Cardinality(S)
<1>1. n \in Nat
  BY FS_CardinalityType
<1>2. /\ p \in [1 .. n -> S] /\ \A j, k \in 1 .. n : j # k => p[j] # p[k]
      /\ q \in [1 .. n -> S] /\ \A j, k \in 1 .. n : j # k => q[j] # q[k]
      /\ \A j, k \in 1 .. n : j < k => <<q[j], q[k]>> \in R
  BY DEF Listed, SetToSeqs
<1>3. \A x \in S : \E k \in 1 .. n : q[k] = x
  <2>1. q \in Injection(1 .. n, S)
    BY <1>2 DEF Injection, IsInjective
  <2>2. IsFiniteSet(1 .. n) /\ Cardinality(1 .. n) = n
    BY <1>1, FS_Interval
  <2>3. q \in Surjection(1 .. n, S)
    BY <2>1, <2>2, FS_Injection
  <2>4. QED
    BY <2>3 DEF Surjection
<1> HIDE DEF n
<1>4. DOMAIN p = 1 .. n /\ i \in 1 .. n
  BY <1>2
<1>5. PICK k \in 1 .. n : q[k] = p[i]
  BY <1>2, <1>3, <1>4
<1>6. ~(k < i)
  BY <1>2, <1>4, <1>5
<1>7. i < k
  <2>1. k # i /\ k \in Int /\ i \in Int
    BY <1>1, <1>4, <1>5
  <2>2. QED
    BY <1>6, <2>1
<1>8. QED
  BY <1>2, <1>4, <1>5, <1>7

\* There is one listing of a set in the order of a relation.
LEMMA OneListing ==
  ASSUME NEW S, IsFiniteSet(S), NEW R, Arranges(R, S),
         NEW p, Listed(p, S, R), NEW q, Listed(q, S, R)
  PROVE  p = q
<1> DEFINE n == Cardinality(S)
           T == {i \in 1 .. n : p[i] # q[i]}
<1>1. n \in Nat
  BY FS_CardinalityType
<1>2. p \in [1 .. n -> S] /\ q \in [1 .. n -> S]
  BY DEF Listed, SetToSeqs
<1>3. DOMAIN p = 1 .. n /\ DOMAIN q = 1 .. n
  BY <1>2
<1>4. SUFFICES ASSUME T # {} PROVE FALSE
  <2>1. ASSUME T = {} PROVE p = q
    <3> HIDE DEF n
    <3>1. \A i \in 1 .. n : p[i] = q[i]
      BY <2>1
    <3> HIDE DEF T
    <3>2. /\ p = [i \in 1 .. n |-> p[i]]
          /\ q = [i \in 1 .. n |-> q[i]]
      BY <1>2
    <3>3. [i \in 1 .. n |-> p[i]] = [i \in 1 .. n |-> q[i]]
      BY <3>1
    <3>4. QED
      BY <3>2, <3>3
  <2>2. QED
    BY <2>1
<1>5. PICK i \in T : \A j \in T : i <= j
  <2>1. T \subseteq Nat
    BY <1>1
  <2> HIDE DEF T
  <2>2. QED
    BY <1>4, <2>1, LeastNat
<1>6. i \in 1 .. n /\ p[i] # q[i] /\ p[i] \in S /\ q[i] \in S
  BY <1>2
<1>7. \A j \in 1 .. n : j < i => p[j] = q[j]
  BY <1>1, <1>5
<1> HIDE DEF T, n
<1>8. /\ i \in DOMAIN p /\ i \in DOMAIN q
      /\ \A j \in DOMAIN p : j < i => p[j] = q[j]
      /\ \A j \in DOMAIN q : j < i => q[j] = p[j]
  BY <1>3, <1>6, <1>7
<1>9. <<q[i], p[i]>> \in R /\ <<p[i], q[i]>> \in R
  BY <1>6, <1>8, ListedLater
<1>10. QED
  BY <1>6, <1>9 DEF Arranges

-----------------------------------------------------------------------------
(* Sums of what is taken in turn.                                          *)

\* No term above: no greater sum.
LEMMA SumGrows ==
  ASSUME NEW f, NEW e, NEW S, IsFiniteSet(S),
         \A x \in S : f[x] \in Int /\ e[x] \in Int /\ f[x] <= e[x]
  PROVE  SumFunctionOnSet(f, S) <= SumFunctionOnSet(e, S)
<1> DEFINE T == {s \in SUBSET S : ~(SumFunctionOnSet(f, s) <= SumFunctionOnSet(e, s))}
<1>1. SUFFICES ASSUME T # {} PROVE FALSE
  OBVIOUS
<1>2. \A s \in SUBSET S : IsFiniteSet(s) /\ Cardinality(s) \in Nat
  BY FS_Subset, FS_CardinalityType
<1>3. PICK s \in T : \A t \in T : Cardinality(s) <= Cardinality(t)
  <2>1. \A t \in T : IsFiniteSet(t)
    BY <1>2
  <2> HIDE DEF T
  <2>2. QED
    BY <1>1, <2>1, SmallestSet
<1>4. s \in SUBSET S /\ IsFiniteSet(s) /\ Cardinality(s) \in Nat
      /\ ~(SumFunctionOnSet(f, s) <= SumFunctionOnSet(e, s))
  BY <1>2, <1>3
<1>5. s # {}
  BY <1>4, SumOfNone
<1>6. PICK x : x \in s
  BY <1>5
<1> DEFINE r == s \ {x}
<1>7. r \in SUBSET S /\ IsFiniteSet(r) /\ Cardinality(r) = Cardinality(s) - 1
  BY <1>4, <1>6, FS_RemoveElement
<1>8. /\ SumFunctionOnSet(f, s) = f[x] + SumFunctionOnSet(f, r)
      /\ SumFunctionOnSet(e, s) = e[x] + SumFunctionOnSet(e, r)
  <2>1. \A y \in s : f[y] \in Int /\ e[y] \in Int
    BY <1>4
  <2>2. QED
    BY <1>4, <1>6, <2>1, SumSplits
<1>9. SumFunctionOnSet(f, r) \in Int /\ SumFunctionOnSet(e, r) \in Int
  <2>1. \A y \in r : f[y] \in Int /\ e[y] \in Int
    BY <1>4
  <2> HIDE DEF r
  <2>2. QED
    BY <1>7, <2>1, SumSplits
<1>10. SumFunctionOnSet(f, r) <= SumFunctionOnSet(e, r)
  <2>1. Cardinality(r) \in Nat
    BY <1>7, <1>2
  <2>2. r \notin T
    <3> HIDE DEF T, r
    <3>1. QED
      BY <1>3, <1>4, <1>7, <2>1
  <2>3. QED
    BY <1>7, <2>2
<1>11. f[x] \in Int /\ e[x] \in Int /\ f[x] <= e[x]
  BY <1>4, <1>6
<1> HIDE DEF r
<1>12. QED
  BY <1>4, <1>8, <1>9, <1>10, <1>11

\* Taking from the members of C in turn until there is enough.  f is what each
\* has, g what each gives, want what is asked for and left what is missing in
\* the end: those ahead of a member that gives are used up, those behind a
\* member that is not used up give nothing.
TakesInTurn(R, C, ahead, f, g, want, left) ==
  /\ \A x \in R : f[x] \in Nat \ {0} /\ g[x] \in Nat /\ g[x] <= f[x]
  /\ \A x \in R \ C : g[x] = 0
  /\ \A x \in C : ahead[x] \in SUBSET (C \ {x})
  /\ \A x, y \in C : y \in ahead[x] => x \notin ahead[y]
  /\ \A x, y \in C : x # y /\ g[x] > 0 /\ g[y] < f[y] => x \in ahead[y]
  /\ left \in Nat
  /\ left = 0 \/ \A x \in C : g[x] = f[x]
  /\ want = left + SumFunctionOnSet(g, R)

\* What one who has most gives of rest.
Share(rest, most) == IF rest > 0 THEN IF rest < most THEN rest ELSE most ELSE 0

\* A member gives whatever those ahead of it leave, at most all it has.
LEMMA ClosedForm ==
  ASSUME NEW R, IsFiniteSet(R), NEW C \in SUBSET R, NEW ahead, NEW f, NEW g,
         NEW want, NEW left, TakesInTurn(R, C, ahead, f, g, want, left), NEW m \in C
  PROVE  g[m] = Share(want - SumFunctionOnSet(f, ahead[m]), f[m])
<1> USE DEF TakesInTurn
<1> DEFINE A == ahead[m]
           has == SumFunctionOnSet(f, A)
           gives == SumFunctionOnSet(g, A)
           all == SumFunctionOnSet(g, R)
           rest == want - has
<1>1. A \in SUBSET C /\ m \notin A /\ A \in SUBSET R /\ A \cup {m} \in SUBSET R
      /\ IsFiniteSet(A)
  BY FS_Subset
<1>2. \A x \in R : f[x] \in Int /\ g[x] \in Int /\ g[x] \in Nat /\ g[x] <= f[x]
  OBVIOUS
<1> HIDE DEF A
<1>3. has \in Int /\ gives \in Int /\ gives <= has
  BY <1>1, <1>2, SumSplits, SumGrows
<1>4. all \in Int
  BY <1>2, SumSplits
<1>5. SumFunctionOnSet(g, A \cup {m}) = g[m] + gives
  <2>1. \A y \in A : g[y] \in Int
    BY <1>1, <1>2
  <2>2. g[m] \in Int
    BY <1>2
  <2>3. QED
    BY <1>1, <2>1, <2>2, SumJoins
<1>6. g[m] + gives <= all
  <2>1. SumFunctionOnSet(g, A \cup {m}) <= all
    BY <1>1, <1>2, SumOfPart
  <2>2. QED
    BY <1>5, <2>1
<1>7. g[m] < f[m] => left = 0 /\ all = g[m] + gives
  <2>1. SUFFICES ASSUME g[m] < f[m] PROVE left = 0 /\ all = g[m] + gives
    OBVIOUS
  <2>2. left = 0
    <3>1. g[m] # f[m]
      BY <1>2, <2>1
    <3>2. QED
      BY <3>1
  <2>3. \A x \in R \ (A \cup {m}) : g[x] = 0
    <3>1. SUFFICES ASSUME NEW x \in C, x # m, x \notin A PROVE g[x] = 0
      OBVIOUS
    <3>2. ~(g[x] > 0)
      BY <2>1, <3>1 DEF A
    <3>3. g[x] \in Nat
      BY <1>2
    <3>4. QED
      BY <3>2, <3>3
  <2>4. SumFunctionOnSet(g, A \cup {m}) = all
    BY <1>1, <1>2, <2>3, SumWithoutZeros
  <2>5. QED
    BY <1>5, <2>2, <2>4
<1>8. g[m] > 0 => has = gives
  <2>1. SUFFICES ASSUME g[m] > 0 PROVE has = gives
    OBVIOUS
  <2>2. \A x \in A : g[x] = f[x]
    <3>1. SUFFICES ASSUME NEW x \in A PROVE g[x] = f[x]
      OBVIOUS
    <3>2. x \in C /\ x # m /\ m \notin ahead[x]
      BY <1>1 DEF A
    <3>3. ~(g[x] < f[x])
      BY <2>1, <3>2
    <3>4. g[x] \in Int /\ f[x] \in Int /\ g[x] <= f[x]
      BY <1>2, <3>2
    <3>5. QED
      BY <3>3, <3>4
  <2>3. QED
    BY <1>1, <2>2, SumOfSame
<1>9. f[m] \in Nat \ {0} /\ g[m] \in Nat /\ g[m] <= f[m]
  OBVIOUS
<1>10. want = left + all
  OBVIOUS
<1> HIDE DEF has, gives, all
<1>11. g[m] = IF rest > 0 THEN IF rest < f[m] THEN rest ELSE f[m] ELSE 0
  <2>1. CASE g[m] = f[m]
    BY <1>3, <1>4, <1>6, <1>8, <1>9, <1>10, <2>1
  <2>2. CASE g[m] < f[m] /\ g[m] > 0
    BY <1>3, <1>4, <1>7, <1>8, <1>9, <1>10, <2>2
  <2>3. CASE g[m] = 0
    BY <1>3, <1>4, <1>7, <1>9, <1>10, <2>3
  <2>4. QED
    BY <1>9, <2>1, <2>2, <2>3
<1>12. QED
  BY <1>11 DEF has, A, Share

\* Places that are followed by places of the same kind only are the last ones.
LEMMA LastPlaces ==
  ASSUME NEW n \in Nat, NEW S \in SUBSET (1 .. n),
         \A i \in S : \A j \in 1 .. n : i < j => j \in S
  PROVE  \E k \in 0 .. n : S = k + 1 .. n
<1>1. CASE S = {}
  <2>1. n + 1 .. n = {} /\ n \in 0 .. n
    OBVIOUS
  <2>2. QED
    BY <1>1, <2>1
<1>2. CASE S # {}
  <2>1. PICK i \in S : \A j \in S : i <= j
    <3>1. S \subseteq Nat
      OBVIOUS
    <3>2. QED
      BY <1>2, <3>1, LeastNat
  <2>2. i \in 1 .. n
    OBVIOUS
  <2>3. \A j \in 1 .. n : j \in S <=> i <= j
    BY <2>1, <2>2
  <2>4. PICK k \in 0 .. n : k + 1 = i
    <3>1. i - 1 \in 0 .. n /\ (i - 1) + 1 = i
      BY <2>2
    <3>2. QED
      BY <3>1
  <2>5. \A j \in Int : j \in k + 1 .. n <=> j \in 1 .. n /\ i <= j
    BY <2>2, <2>4
  <2>6. \A j : j \in S <=> j \in k + 1 .. n
    <3>1. \A j : j \in k + 1 .. n => j \in Int
      OBVIOUS
    <3>2. \A j : j \in S => j \in 1 .. n
      OBVIOUS
    <3>3. \A j : j \in 1 .. n => j \in Int
      OBVIOUS
    <3>4. QED
      BY <2>3, <2>5, <3>1, <3>2, <3>3
  <2>7. S = k + 1 .. n
    BY <2>6
  <2>8. QED
    BY <2>7
<1>3. QED
  BY <1>1, <1>2

-----------------------------------------------------------------------------
(* Quotients and remainders.                                               *)

\* A number is its quotient and its remainder.
LEMMA Quotient ==
  ASSUME NEW n \in Int, NEW m \in Nat \ {0}
  PROVE  /\ n % m \in 0 .. m - 1 /\ n \div m \in Int
         /\ n = m * (n \div m) + (n % m)
OBVIOUS

\* There is one quotient and one remainder.
LEMMA QuotientUnique ==
  ASSUME NEW m \in Nat \ {0}, NEW x \in Int, NEW y \in Int,
         NEW r \in 0 .. m - 1, NEW t \in 0 .. m - 1, m * x + r = m * y + t
  PROVE  x = y /\ r = t
<1>1. m * (x - y) = t - r
  OBVIOUS
<1>2. CASE x - y >= 1
  <2>1. m * (x - y) >= m
    BY <1>2
  <2>2. QED
    BY <1>1, <2>1
<1>3. CASE y - x >= 1
  <2>1. m * (y - x) >= m
    BY <1>3
  <2>2. QED
    BY <1>1, <2>1
<1>4. x = y
  BY <1>2, <1>3
<1>5. QED
  BY <1>4

\* Multiples of the divisor leave the remainder alone.
LEMMA Multiples ==
  ASSUME NEW n \in Int, NEW m \in Nat \ {0}, NEW k \in Int
  PROVE  (n + m * k) % m = n % m
<1> DEFINE z == n + m * k
           q == n \div m
           r == n % m
           x == z \div m
           t == z % m
<1>1. z \in Int
  OBVIOUS
<1>2. r \in 0 .. m - 1 /\ q \in Int /\ n = m * q + r
  BY Quotient
<1> HIDE DEF q, r
<1>3. z = m * (q + k) + r /\ q + k \in Int
  BY <1>2
<1> HIDE DEF z
<1>4. t \in 0 .. m - 1 /\ x \in Int /\ z = m * x + t
  BY <1>1, Quotient
<1> HIDE DEF x, t
<1> DEFINE y == q + k
<1>5. y \in Int /\ m * x + t = m * y + r
  BY <1>3, <1>4
<1> HIDE DEF y
<1>6. t = r
  BY <1>2, <1>4, <1>5, QuotientUnique
<1>7. QED
  BY <1>6 DEF t, r, z

=============================================================================
