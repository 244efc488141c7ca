---------------------------- MODULE SumTheorems -----------------------------
(***************************************************************************)
(* What the sum of a function over a finite set is, for sums of every      *)
(* length: the folds of the community modules pick the elements in an      *)
(* unspecified order, so that none of this holds by definition.            *)
(*                                                                         *)
(* The induction principles of the library take the hypothesis as an       *)
(* operator; here each induction is spelled out with MinimalSubset: among  *)
(* the subsets that refute the claim there would be one with no smaller.   *)
(***************************************************************************)
EXTENDS Integers, Functions, FiniteSetTheorems, WellFoundedInduction, TLAPS

\* The element that the folds take next.
Pick(T) == CHOOSE x \in T : TRUE

\* g maps each subset of S to its sum, one element after the other.
IsIter(g, f, S) ==
    g = [T \in SUBSET S |-> IF T = {} THEN 0 ELSE f[Pick(T)] + g[T \ {Pick(T)}]]

SumOn(f, S) == (CHOOSE g : IsIter(g, f, S))[S]

\* SumFunctionOnSet of the community modules is this sum.
LEMMA SumOnIs == \A f, S : SumFunctionOnSet(f, S) = SumOn(f, S)
  BY DEF SumFunctionOnSet, FoldFunctionOnSet, MapThenFoldSet, SumOn, IsIter, Pick

\* Every set of subsets of a finite set has one that contains no other.
LEMMA MinimalSubset ==
    ASSUME NEW S, IsFiniteSet(S), NEW Q \in SUBSET (SUBSET S), Q # {}
    PROVE  \E T \in Q : \A U \in SUBSET T : U # T => U \notin Q
  <1>1. Q \subseteq FiniteSubsetsOf(S)
    BY FS_Subset DEF FiniteSubsetsOf
  <1>2. IsWellFoundedOn(StrictSubsetOrdering(S), FiniteSubsetsOf(S))
    BY FS_StrictSubsetOrderingWellFounded
  <1>3. PICK T \in Q : \A U \in Q : ~(<<U, T>> \in StrictSubsetOrdering(S))
    BY <1>1, <1>2, WFMin
  <1>4. ASSUME NEW U \in SUBSET T, U # T, U \in Q
        PROVE  FALSE
    BY <1>3, <1>4 DEF StrictSubsetOrdering
  <1> QED BY <1>3, <1>4

\* The sum of a subset does not depend on the set it is a subset of.
LEMMA ItersAgree ==
    ASSUME NEW f, NEW A, NEW B, NEW g, NEW h, IsIter(g, f, A), IsIter(h, f, B),
           NEW V, V \subseteq A, V \subseteq B, IsFiniteSet(V)
    PROVE  g[V] = h[V]
  <1> DEFINE Q == {W \in SUBSET V : g[W] # h[W]}
  <1>1. SUFFICES ASSUME Q # {} PROVE FALSE
    OBVIOUS
  <1>2. PICK T \in Q : \A U \in SUBSET T : U # T => U \notin Q
    <2> HIDE DEF Q
    <2>1. Q \in SUBSET (SUBSET V) BY DEF Q
    <2> QED BY <1>1, <2>1, MinimalSubset
  <1>3. T # {}
    BY DEF IsIter
  <1>4. Pick(T) \in T
    BY <1>3 DEF Pick
  <1>5. g[T \ {Pick(T)}] = h[T \ {Pick(T)}]
    BY <1>2, <1>4
  <1>6. g[T] = f[Pick(T)] + g[T \ {Pick(T)}]
    BY <1>3 DEF IsIter
  <1>7. h[T] = f[Pick(T)] + h[T \ {Pick(T)}]
    BY <1>3 DEF IsIter
  <1> QED BY <1>5, <1>6, <1>7

\* The recursion has a solution, so that the CHOOSE of the fold finds it.
LEMMA IterExists ==
    ASSUME NEW f, NEW S, IsFiniteSet(S)
    PROVE  \E g : IsIter(g, f, S)
  <1> DEFINE Q == {W \in SUBSET S : ~ \E g : IsIter(g, f, W)}
  <1>1. SUFFICES ASSUME Q # {} PROVE FALSE
    OBVIOUS
  <1>2. PICK T \in Q : \A U \in SUBSET T : U # T => U \notin Q
    <2> HIDE DEF Q
    <2>1. Q \in SUBSET (SUBSET S) BY DEF Q
    <2> QED BY <1>1, <2>1, MinimalSubset
  <1>3. \A U \in SUBSET T : U # T => IsIter(CHOOSE g : IsIter(g, f, U), f, U)
    <2> TAKE U \in SUBSET T
    <2> HAVE U # T
    <2>1. \E g : IsIter(g, f, U) BY <1>2
    <2> QED BY <2>1
  <1> DEFINE h == [W \in SUBSET T |->
                      IF W = {} THEN 0 ELSE f[Pick(W)] + SumOn(f, W \ {Pick(W)})]
  <1>4. \A U \in SUBSET T : U # T => h[U] = SumOn(f, U)
    <2> TAKE U \in SUBSET T
    <2> HAVE U # T
    <2> DEFINE g == CHOOSE g : IsIter(g, f, U)
    <2>1. IsIter(g, f, U) BY <1>3
    <2>2. SumOn(f, U) = g[U] BY DEF SumOn
    <2>3. CASE U = {}
      <3>1. g[U] = 0 BY <2>1, <2>3 DEF IsIter
      <3> QED BY <3>1, <2>2, <2>3
    <2>4. CASE U # {}
      <3>1. Pick(U) \in U BY <2>4 DEF Pick
      <3> DEFINE V == U \ {Pick(U)}
                 k == CHOOSE k : IsIter(k, f, V)
      <3>2. g[U] = f[Pick(U)] + g[V] BY <2>1, <2>4 DEF IsIter
      <3>3. V \in SUBSET T /\ V # T BY <3>1
      <3>4. IsIter(k, f, V) BY <1>3, <3>3
      <3>5. SumOn(f, V) = k[V] BY DEF SumOn
      <3>6. IsFiniteSet(V)
        BY <3>3, FS_Subset
      <3>7. g[V] = k[V]
        <4> HIDE DEF V, k, g
        <4>1. V \subseteq U BY DEF V
        <4> QED BY <4>1, <2>1, <3>4, <3>6, ItersAgree
      <3> QED BY <3>2, <3>5, <3>7, <2>2, <2>4
    <2> QED BY <2>3, <2>4
  <1>5. IsIter(h, f, T)
    <2>1. ASSUME NEW W \in SUBSET T, W # {}
          PROVE  SumOn(f, W \ {Pick(W)}) = h[W \ {Pick(W)}]
      <3>1. Pick(W) \in W BY <2>1 DEF Pick
      <3>2. W \ {Pick(W)} \in SUBSET T /\ W \ {Pick(W)} # T BY <3>1
      <3> HIDE DEF h
      <3> QED BY <3>2, <1>4
    <2> QED BY <2>1 DEF IsIter
  <1> QED BY <1>5, <1>2

\* One step of the fold.
LEMMA SumStep ==
    ASSUME NEW f, NEW S, IsFiniteSet(S)
    PROVE  SumOn(f, S) = IF S = {} THEN 0 ELSE f[Pick(S)] + SumOn(f, S \ {Pick(S)})
  <1> DEFINE V == S \ {Pick(S)}
             g == CHOOSE g : IsIter(g, f, S)
             h == CHOOSE h : IsIter(h, f, V)
  <1>1. IsFiniteSet(V)
    BY FS_Subset
  <1>2. IsIter(g, f, S)
    BY IterExists
  <1>3. IsIter(h, f, V)
    <2> HIDE DEF V
    <2>1. \E k : IsIter(k, f, V) BY <1>1, IterExists
    <2> QED BY <2>1
  <1>4. g[V] = h[V]
    <2> HIDE DEF V, g, h
    <2>1. V \subseteq S BY DEF V
    <2> QED BY <1>1, <1>2, <1>3, <2>1, ItersAgree
  <1>5. SumOn(f, S) = g[S] /\ SumOn(f, V) = h[V]
    BY DEF SumOn
  <1>6. g[S] = IF S = {} THEN 0 ELSE f[Pick(S)] + g[V]
    <2> HIDE DEF g
    <2> QED BY <1>2 DEF IsIter
  <1> HIDE DEF g, h
  <1> QED BY <1>4, <1>5, <1>6

\* The sum of integers is an integer, and any element can be split off.
LEMMA SumSplit ==
    ASSUME NEW f, NEW S, IsFiniteSet(S), \A x \in S : f[x] \in Int
    PROVE  /\ SumOn(f, S) \in Int
           /\ \A x \in S : SumOn(f, S) = f[x] + SumOn(f, S \ {x})
  <1> DEFINE Good(T) == /\ SumOn(f, T) \in Int
                        /\ \A x \in T : SumOn(f, T) = f[x] + SumOn(f, T \ {x})
             Q == {T \in SUBSET S : ~Good(T)}
  <1>1. SUFFICES ASSUME Q # {} PROVE FALSE
    OBVIOUS
  <1>2. PICK T \in Q : \A U \in SUBSET T : U # T => U \notin Q
    <2> HIDE DEF Q
    <2>1. Q \in SUBSET (SUBSET S) BY DEF Q
    <2> QED BY <1>1, <2>1, MinimalSubset
  <1>3. \A U \in SUBSET T : U # T => Good(U)
    BY <1>2
  <1> HIDE DEF Good
  <1>4. IsFiniteSet(T)
    BY <1>2, FS_Subset
  <1>a. \A x \in T : f[x] \in Int
    BY <1>2
  <1>b. ~Good(T)
    BY <1>2
  <1> HIDE DEF Q
  <1>5. CASE T = {}
    <2>1. SumOn(f, T) = 0 BY <1>4, <1>5, SumStep
    <2> QED BY <1>5, <1>b, <2>1 DEF Good
  <1>6. CASE T # {}
    <2> DEFINE p == Pick(T)
    <2>1. p \in T BY <1>6 DEF Pick
    <2> HIDE DEF p
    <2>2. SumOn(f, T) = f[p] + SumOn(f, T \ {p}) BY <1>4, <1>6, SumStep DEF p
    <2>3. Good(T \ {p}) BY <1>3, <2>1
    <2>4. f[p] \in Int BY <1>a, <2>1
    <2>5. SumOn(f, T \ {p}) \in Int BY <2>3 DEF Good
    <2>6. ASSUME NEW x \in T, x # p
          PROVE  SumOn(f, T) = f[x] + SumOn(f, T \ {x})
      <3>1. SumOn(f, T \ {p}) = f[x] + SumOn(f, (T \ {p}) \ {x}) BY <2>3, <2>6 DEF Good
      <3>2. Good(T \ {x}) /\ Good((T \ {p}) \ {x}) BY <1>3, <2>1, <2>6
      <3>3. SumOn(f, T \ {x}) = f[p] + SumOn(f, (T \ {x}) \ {p}) BY <3>2, <2>1, <2>6 DEF Good
      <3>4. (T \ {x}) \ {p} = (T \ {p}) \ {x} OBVIOUS
      <3>5. f[x] \in Int BY <1>a, <2>6
      <3>6. SumOn(f, (T \ {p}) \ {x}) \in Int BY <3>2 DEF Good
      <3>7. f[p] + (f[x] + SumOn(f, (T \ {p}) \ {x})) = f[x] + (f[p] + SumOn(f, (T \ {p}) \ {x}))
        BY <2>4, <3>5, <3>6
      <3> QED BY <2>2, <3>1, <3>3, <3>4, <3>7
    <2>7. Good(T) BY <2>2, <2>4, <2>5, <2>6 DEF Good
    <2> QED BY <1>b, <2>7
  <1> QED BY <1>5, <1>6

\* The sum depends on the values at the elements only.
LEMMA SumSame ==
    ASSUME NEW f, NEW g, NEW S, IsFiniteSet(S), \A x \in S : f[x] = g[x]
    PROVE  SumOn(f, S) = SumOn(g, S)
  <1> DEFINE Q == {T \in SUBSET S : SumOn(f, T) # SumOn(g, T)}
  <1>1. SUFFICES ASSUME Q # {} PROVE FALSE
    OBVIOUS
  <1>2. PICK T \in Q : \A U \in SUBSET T : U # T => U \notin Q
    <2> HIDE DEF Q
    <2>1. Q \in SUBSET (SUBSET S) BY DEF Q
    <2> QED BY <1>1, <2>1, MinimalSubset
  <1>3. IsFiniteSet(T)
    BY <1>2, FS_Subset
  <1>4. T # {}
    BY <1>2, <1>3, SumStep
  <1> DEFINE p == Pick(T)
  <1>5. p \in T
    BY <1>4 DEF Pick
  <1> HIDE DEF p
  <1>6. SumOn(f, T \ {p}) = SumOn(g, T \ {p})
    BY <1>2, <1>5
  <1>7. SumOn(f, T) = f[p] + SumOn(f, T \ {p}) /\ SumOn(g, T) = g[p] + SumOn(g, T \ {p})
    BY <1>3, <1>4, SumStep DEF p
  <1> QED BY <1>2, <1>5, <1>6, <1>7

\* A sum of naturals is one, and at least as much as any of its terms.
LEMMA SumOfNaturals ==
    ASSUME NEW f, NEW S, IsFiniteSet(S), \A x \in S : f[x] \in Nat
    PROVE  /\ SumOn(f, S) \in Nat
           /\ \A x \in S : SumOn(f, S) >= f[x]
  <1>1. ASSUME NEW R \in SUBSET S PROVE SumOn(f, R) \in Nat
    <2> DEFINE Q == {T \in SUBSET S : SumOn(f, T) \notin Nat}
    <2>1. SUFFICES ASSUME Q # {} PROVE FALSE
      OBVIOUS
    <2>2. PICK T \in Q : \A U \in SUBSET T : U # T => U \notin Q
      <3> HIDE DEF Q
      <3>1. Q \in SUBSET (SUBSET S) BY DEF Q
      <3> QED BY <2>1, <3>1, MinimalSubset
    <2>3. IsFiniteSet(T)
      BY <2>2, FS_Subset
    <2>4. T # {}
      <3>1. T = {} => SumOn(f, T) = 0 BY <2>3, SumStep
      <3> QED BY <2>2, <3>1
    <2> DEFINE p == Pick(T)
    <2>5. p \in T
      BY <2>4 DEF Pick
    <2> HIDE DEF p
    <2>6. SumOn(f, T \ {p}) \in Nat /\ f[p] \in Nat
      BY <2>2, <2>5
    <2>7. SumOn(f, T) = f[p] + SumOn(f, T \ {p})
      BY <2>3, <2>4, SumStep DEF p
    <2> QED BY <2>2, <2>6, <2>7
  <1>2. ASSUME NEW x \in S PROVE SumOn(f, S) >= f[x]
    <2>1. SumOn(f, S) = f[x] + SumOn(f, S \ {x}) BY SumSplit
    <2>2. SumOn(f, S \ {x}) \in Nat /\ f[x] \in Nat BY <1>1
    <2> QED BY <2>1, <2>2
  <1> QED BY <1>1, <1>2

\* Another value at one element.
LEMMA SumUpdate ==
    ASSUME NEW f, NEW g, NEW S, IsFiniteSet(S), NEW x \in S,
           \A y \in S : f[y] \in Int /\ g[y] \in Int, \A y \in S \ {x} : g[y] = f[y]
    PROVE  SumOn(g, S) = SumOn(f, S) - f[x] + g[x]
  <1>1. IsFiniteSet(S \ {x})
    BY FS_RemoveElement
  <1>2. SumOn(f, S \ {x}) = SumOn(g, S \ {x})
    BY <1>1, SumSame
  <1>3. SumOn(f, S) = f[x] + SumOn(f, S \ {x}) /\ SumOn(g, S) = g[x] + SumOn(g, S \ {x})
    BY SumSplit
  <1>4. SumOn(f, S \ {x}) \in Int
    BY <1>1, SumSplit
  <1> QED BY <1>2, <1>3, <1>4

\* One element more.
LEMMA SumExtend ==
    ASSUME NEW f, NEW S, IsFiniteSet(S), NEW x, x \notin S, \A y \in S \cup {x} : f[y] \in Int
    PROVE  SumOn(f, S \cup {x}) = SumOn(f, S) + f[x]
  <1> DEFINE T == S \cup {x}
  <1>1. IsFiniteSet(T) /\ x \in T /\ T \ {x} = S
    BY FS_AddElement
  <1>2. SumOn(f, T) = f[x] + SumOn(f, T \ {x})
    <2> HIDE DEF T
    <2>1. \A y \in T : f[y] \in Int BY DEF T
    <2> QED BY <1>1, <2>1, SumSplit
  <1>3. SumOn(f, S) \in Int
    <2>1. \A y \in S : f[y] \in Int OBVIOUS
    <2> QED BY <2>1, SumSplit
  <1>4. f[x] \in Int
    OBVIOUS
  <1> HIDE DEF T
  <1>5. SumOn(f, T) = f[x] + SumOn(f, S)
    BY <1>1, <1>2
  <1>6. SumOn(f, T) = SumOn(f, S) + f[x]
    BY <1>3, <1>4, <1>5
  <1> QED BY <1>6 DEF T

\* Nothing to add, or nothing but zeros.
LEMMA SumOfZeros ==
    ASSUME NEW f, NEW S, IsFiniteSet(S), \A x \in S : f[x] = 0
    PROVE  SumOn(f, S) = 0
  <1>1. SumOn(f, S) \in Nat
    BY SumOfNaturals
  <1>2. CASE S = {}
    BY <1>2, SumStep
  <1>3. CASE S # {}
    <2> DEFINE Q == {T \in SUBSET S : SumOn(f, T) # 0}
    <2>1. SUFFICES ASSUME Q # {} PROVE FALSE
      OBVIOUS
    <2>2. PICK T \in Q : \A U \in SUBSET T : U # T => U \notin Q
      <3> HIDE DEF Q
      <3>1. Q \in SUBSET (SUBSET S) BY DEF Q
      <3> QED BY <2>1, <3>1, MinimalSubset
    <2>3. IsFiniteSet(T) /\ T # {}
      BY <2>2, FS_Subset, SumStep
    <2>4. Pick(T) \in T
      BY <2>3 DEF Pick
    <2>5. SumOn(f, T \ {Pick(T)}) = 0 /\ f[Pick(T)] = 0
      BY <2>2, <2>4
    <2> QED BY <2>2, <2>3, <2>5, SumStep
  <1> QED BY <1>2, <1>3

\* The same terms under other names.
LEMMA SumRenamed ==
    ASSUME NEW f, NEW g, NEW h, NEW S, IsFiniteSet(S),
           \A x \in S : f[x] \in Int /\ g[h[x]] = f[x],
           \A x, y \in S : h[x] = h[y] => x = y
    PROVE  SumOn(g, {h[x] : x \in S}) = SumOn(f, S)
  <1> DEFINE Image(T) == {h[x] : x \in T}
             Q == {T \in SUBSET S : ~(/\ IsFiniteSet(Image(T))
                                      /\ SumOn(g, Image(T)) = SumOn(f, T))}
  <1>1. SUFFICES ASSUME Q # {} PROVE FALSE
    OBVIOUS
  <1>2. PICK T \in Q : \A U \in SUBSET T : U # T => U \notin Q
    <2> HIDE DEF Q
    <2>1. Q \in SUBSET (SUBSET S) BY DEF Q
    <2> QED BY <1>1, <2>1, MinimalSubset
  <1> HIDE DEF Image
  <1>3. IsFiniteSet(T) /\ T \in SUBSET S
    BY <1>2, FS_Subset
  <1>4. T # {}
    <2>1. SUFFICES ASSUME T = {} PROVE FALSE
      OBVIOUS
    <2>2. Image(T) = {} BY <2>1 DEF Image
    <2>3. SumOn(g, {}) = 0 /\ SumOn(f, {}) = 0 /\ IsFiniteSet({}) BY FS_EmptySet, SumStep
    <2> QED BY <1>2, <2>1, <2>2, <2>3
  <1> DEFINE p == Pick(T)
             V == T \ {p}
  <1>5. p \in T /\ V \in SUBSET T /\ V # T
    BY <1>4 DEF Pick
  <1>6. SumOn(f, T) = f[p] + SumOn(f, V)
    BY <1>3, <1>4, SumStep
  <1> HIDE DEF p
  <1>7. IsFiniteSet(Image(V)) /\ SumOn(g, Image(V)) = SumOn(f, V)
    BY <1>2, <1>5
  <1>8. Image(T) = Image(V) \cup {h[p]} /\ h[p] \notin Image(V)
    BY <1>3, <1>5 DEF Image
  <1>9. IsFiniteSet(Image(T))
    <2>1. IsFiniteSet(Image(V) \cup {h[p]}) BY <1>7, FS_AddElement
    <2> QED BY <1>8, <2>1
  <1>10. \A y \in Image(T) : g[y] \in Int
    BY <1>3 DEF Image
  <1>11. SumOn(g, Image(T)) = SumOn(g, Image(V)) + g[h[p]]
    <2> HIDE DEF V
    <2> QED BY <1>7, <1>8, <1>10, SumExtend
  <1>12. g[h[p]] = f[p] /\ f[p] \in Int
    BY <1>3, <1>5
  <1>13. SumOn(f, V) \in Int
    <2>1. IsFiniteSet(V) /\ \A x \in V : f[x] \in Int BY <1>3, FS_Subset
    <2> HIDE DEF V
    <2> QED BY <2>1, SumSplit
  <1> HIDE DEF V
  <1> QED BY <1>2, <1>6, <1>7, <1>9, <1>11, <1>12, <1>13

\* The sum of the first values of a sequence.
LEMMA SumOfSequence ==
    ASSUME NEW f, NEW n \in Nat, \A k \in 1 .. n + 1 : f[k] \in Int
    PROVE  /\ SumOn(f, 1 .. 0) = 0 /\ SumOn(f, 1 .. n) \in Int
           /\ SumOn(f, 1 .. n + 1) = SumOn(f, 1 .. n) + f[n + 1]
  <1>1. IsFiniteSet(1 .. n) /\ \A k \in 1 .. n : f[k] \in Int
    BY FS_Interval
  <1>2. SumOn(f, 1 .. 0) = 0
    <2>1. 1 .. 0 = {} /\ IsFiniteSet({}) BY FS_EmptySet
    <2>2. SumOn(f, {}) = 0 BY <2>1, SumStep
    <2> QED BY <2>1, <2>2
  <1>3. SumOn(f, 1 .. n) \in Int
    BY <1>1, SumSplit
  <1>4. (1 .. n) \cup {n + 1} = 1 .. n + 1 /\ n + 1 \notin 1 .. n
    OBVIOUS
  <1>5. SumOn(f, (1 .. n) \cup {n + 1}) = SumOn(f, 1 .. n) + f[n + 1]
    <2> DEFINE S == 1 .. n
    <2>1. /\ \A k \in S \cup {n + 1} : f[k] \in Int
          /\ n + 1 \notin S /\ IsFiniteSet(S)
      BY <1>1, <1>4
    <2> HIDE DEF S
    <2>2. SumOn(f, S \cup {n + 1}) = SumOn(f, S) + f[n + 1]
      BY <2>1, SumExtend
    <2> QED BY <2>2 DEF S
  <1> QED BY <1>2, <1>3, <1>4, <1>5

\* The sum of differences.
LEMMA SumOfDifferences ==
    ASSUME NEW f, NEW g, NEW h, NEW S, IsFiniteSet(S),
           \A x \in S : f[x] \in Int /\ g[x] \in Int /\ h[x] = f[x] - g[x]
    PROVE  SumOn(h, S) = SumOn(f, S) - SumOn(g, S)
  <1> DEFINE Q == {T \in SUBSET S : SumOn(h, T) # SumOn(f, T) - SumOn(g, T)}
  <1>1. SUFFICES ASSUME Q # {} PROVE FALSE
    OBVIOUS
  <1>2. PICK T \in Q : \A U \in SUBSET T : U # T => U \notin Q
    <2> HIDE DEF Q
    <2>1. Q \in SUBSET (SUBSET S) BY DEF Q
    <2> QED BY <1>1, <2>1, MinimalSubset
  <1>3. IsFiniteSet(T) /\ T \in SUBSET S
    BY <1>2, FS_Subset
  <1>4. T # {}
    <2>1. SUFFICES ASSUME T = {} PROVE FALSE
      OBVIOUS
    <2>2. SumOn(f, T) = 0 /\ SumOn(g, T) = 0 /\ SumOn(h, T) = 0 BY <1>3, <2>1, SumStep
    <2> QED BY <1>2, <2>2
  <1> DEFINE p == Pick(T)
  <1>5. p \in T
    BY <1>4 DEF Pick
  <1>6. /\ SumOn(f, T) = f[p] + SumOn(f, T \ {p}) /\ SumOn(g, T) = g[p] + SumOn(g, T \ {p})
        /\ SumOn(h, T) = h[p] + SumOn(h, T \ {p})
    BY <1>3, <1>4, SumStep
  <1> HIDE DEF p
  <1>7. SumOn(h, T \ {p}) = SumOn(f, T \ {p}) - SumOn(g, T \ {p})
    BY <1>2, <1>5
  <1>8. SumOn(f, T \ {p}) \in Int /\ SumOn(g, T \ {p}) \in Int
    <2> DEFINE V == T \ {p}
    <2>1. IsFiniteSet(V) /\ \A x \in V : f[x] \in Int /\ g[x] \in Int
      BY <1>3, FS_Subset
    <2> HIDE DEF V
    <2>2. SumOn(f, V) \in Int /\ SumOn(g, V) \in Int BY <2>1, SumSplit
    <2> QED BY <2>2 DEF V
  <1>9. f[p] \in Int /\ g[p] \in Int /\ h[p] = f[p] - g[p]
    BY <1>3, <1>5
  <1> QED BY <1>2, <1>6, <1>7, <1>8, <1>9

\* Terms that are all at most some bound.
LEMMA SumBounded ==
    ASSUME NEW f, NEW S, IsFiniteSet(S), NEW b \in Nat, \A x \in S : f[x] \in Int /\ f[x] <= b
    PROVE  SumOn(f, S) <= b * Cardinality(S)
  <1> DEFINE Q == {T \in SUBSET S : ~(SumOn(f, T) <= b * Cardinality(T))}
  <1>1. SUFFICES ASSUME Q # {} PROVE FALSE
    OBVIOUS
  <1>2. PICK T \in Q : \A U \in SUBSET T : U # T => U \notin Q
    <2> HIDE DEF Q
    <2>1. Q \in SUBSET (SUBSET S) BY DEF Q
    <2> QED BY <1>1, <2>1, MinimalSubset
  <1>3. IsFiniteSet(T) /\ T \in SUBSET S
    BY <1>2, FS_Subset
  <1>4. T # {}
    <2>1. SUFFICES ASSUME T = {} PROVE FALSE
      OBVIOUS
    <2>2. SumOn(f, T) = 0 /\ Cardinality(T) = 0 BY <1>3, <2>1, SumStep, FS_EmptySet
    <2> QED BY <1>2, <2>2
  <1> DEFINE p == Pick(T)
             V == T \ {p}
  <1>5. p \in T /\ V \in SUBSET T /\ V # T
    BY <1>4 DEF Pick
  <1>6. SumOn(f, T) = f[p] + SumOn(f, V)
    BY <1>3, <1>4, SumStep
  <1>7. Cardinality(V) = Cardinality(T) - 1 /\ IsFiniteSet(V) /\ Cardinality(T) \in Nat
    BY <1>3, <1>5, FS_RemoveElement, FS_CardinalityType
  <1> HIDE DEF p, V
  <1>8. SumOn(f, V) <= b * Cardinality(V)
    BY <1>2, <1>5
  <1>9. SumOn(f, V) \in Int /\ f[p] \in Int /\ f[p] <= b
    <2>1. V \in SUBSET S /\ p \in S BY <1>3, <1>5
    <2>2. \A x \in V : f[x] \in Int BY <2>1
    <2> QED BY <1>7, <2>1, <2>2, SumSplit
  <1>10. b * Cardinality(T) = b * (Cardinality(T) - 1) + b
    BY <1>7
  <1>11. b * (Cardinality(T) - 1) \in Int /\ b * Cardinality(T) \in Int
    BY <1>7
  <1> QED BY <1>2, <1>6, <1>7, <1>8, <1>9, <1>10, <1>11

=============================================================================
