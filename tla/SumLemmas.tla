------------------------------ MODULE SumLemmas ------------------------------
(***************************************************************************)
(* Facts about the sums of the community module Functions (SumFunction,   *)
(* SumFunctionOnSet) over finite sets, for the proofs about the flow       *)
(* channel manager's accounting and the genesis supply.                    *)
(*                                                                         *)
(* SumFunctionOnSet folds + over a set with MapThenFoldSet, whose helper   *)
(* iter is a function defined by recursion over the subsets of the set.   *)
(* The library's induction theorems take the predicate as an operator      *)
(* parameter, which the provers here cannot instantiate; induction is      *)
(* taken instead from the well-foundedness of < on Nat (WFMin), whose      *)
(* parameters are sets: a set of naturals that holds 0 and is closed       *)
(* under successor holds every natural.                                    *)
(***************************************************************************)
EXTENDS Integers, Functions, FiniteSetTheorems, WellFoundedInduction, TLAPS

\* A non-empty set of naturals has a least element.
LEMMA LeastOfNat ==
    ASSUME NEW T \in SUBSET Nat, T # {}
    PROVE  \E x \in T : \A y \in T : x <= y
<1>1. PICK x \in T : \A y \in T : ~(<<y, x>> \in OpToRel(<, Nat))
  BY NatLessThanWellFounded, WFMin
<1>2. \A y \in T : y < x => <<y, x>> \in OpToRel(<, Nat)
  BY Zenon DEF OpToRel
<1>3. \A y \in T : ~(y < x)
  BY <1>1, <1>2, Zenon
<1>4. QED
  BY <1>3

\* Induction over Nat, with the property as the set of naturals that have
\* it.
LEMMA NatSetInduction ==
    ASSUME NEW P \in SUBSET Nat, 0 \in P, \A n \in P : n + 1 \in P
    PROVE  Nat \subseteq P
<1>1. SUFFICES ASSUME Nat \ P # {} PROVE FALSE
  OBVIOUS
<1>2. PICK x \in Nat \ P : \A y \in Nat \ P : x <= y
  BY <1>1, LeastOfNat
<1>3. x # 0 /\ x - 1 \in Nat
  BY <1>2
<1>4. x - 1 \in P
  BY <1>2, <1>3
<1>5. QED
  BY <1>2, <1>3, <1>4

-----------------------------------------------------------------------------
\* The element MapThenFoldSet takes out of a set at each step.
Pick(s) == CHOOSE x \in s : TRUE

\* g is a helper iter of the sum of f over S: a function on the subsets of
\* S that satisfies the equation of its recursive definition.
IsIter(g, f, S) ==
    g = [s \in SUBSET S |-> IF s = {} THEN 0 ELSE f[Pick(s)] + g[s \ {Pick(s)}]]

\* SumFunctionOnSet is the value at S of the helper its definition chooses.
LEMMA SumIsChosenIter ==
    ASSUME NEW f, NEW S
    PROVE  SumFunctionOnSet(f, S) = (CHOOSE g : IsIter(g, f, S))[S]
BY DEF SumFunctionOnSet, FoldFunctionOnSet, MapThenFoldSet, IsIter, Pick

\* Two helpers agree on the finite sets both are defined on.
LEMMA IterAgree ==
    ASSUME NEW f, NEW S, NEW U, NEW g, NEW h, IsIter(g, f, S), IsIter(h, f, U),
           NEW s \in SUBSET (S \cap U), IsFiniteSet(s)
    PROVE  g[s] = h[s]
<1> DEFINE P == {n \in Nat : \A t \in SUBSET (S \cap U) :
                    IsFiniteSet(t) /\ Cardinality(t) = n => g[t] = h[t]}
<1>1. 0 \in P
  <2> SUFFICES ASSUME NEW t \in SUBSET (S \cap U), IsFiniteSet(t),
                      Cardinality(t) = 0
               PROVE  g[t] = h[t]
    OBVIOUS
  <2>1. t = {}
    BY FS_EmptySet
  <2>2. QED
    BY <2>1 DEF IsIter
<1>2. ASSUME NEW n \in P PROVE n + 1 \in P
  <2> SUFFICES ASSUME NEW t \in SUBSET (S \cap U), IsFiniteSet(t),
                      Cardinality(t) = n + 1
               PROVE  g[t] = h[t]
    OBVIOUS
  <2> DEFINE x == Pick(t)
  <2>1. t # {}
    BY FS_EmptySet
  <2>2. x \in t
    BY <2>1 DEF Pick
  <2>0. n \in Nat
    OBVIOUS
  <2>3. IsFiniteSet(t \ {x}) /\ Cardinality(t \ {x}) = n
    <3>1. IsFiniteSet(t \ {x}) /\ Cardinality(t \ {x}) = Cardinality(t) - 1
      BY <2>2, FS_RemoveElement
    <3>2. QED
      BY <2>0, <3>1
  <2>4. g[t \ {x}] = h[t \ {x}]
    BY <2>3
  <2>5. g[t] = f[x] + g[t \ {x}] /\ h[t] = f[x] + h[t \ {x}]
    BY <2>1 DEF IsIter
  <2>6. QED
    BY <2>4, <2>5
<1>3. Nat \subseteq P
  BY <1>1, <1>2, NatSetInduction
<1>4. QED
  BY <1>3, FS_CardinalityType

\* The subsets of S of at most n elements.
SubsetsUpTo(S, n) == {t \in SUBSET S : Cardinality(t) <= n}

\* g satisfies the helper's equation on the subsets of at most n elements.
IsIterUpTo(g, f, S, n) ==
    g = [t \in SubsetsUpTo(S, n) |->
            IF t = {} THEN 0 ELSE f[Pick(t)] + g[t \ {Pick(t)}]]

\* For a finite set, a helper exists.
LEMMA IterExists ==
    ASSUME NEW f, NEW S, IsFiniteSet(S)
    PROVE  \E g : IsIter(g, f, S)
<1> DEFINE P == {n \in Nat : \E g : IsIterUpTo(g, f, S, n)}
<1>0. \A t \in SUBSET S : IsFiniteSet(t) /\ Cardinality(t) \in Nat
  BY FS_Subset, FS_CardinalityType
<1>1. 0 \in P
  <2> DEFINE g == [t \in SubsetsUpTo(S, 0) |-> 0]
  <2>1. \A t \in SubsetsUpTo(S, 0) : t = {}
    BY <1>0, FS_EmptySet DEF SubsetsUpTo
  <2>2. IsIterUpTo(g, f, S, 0)
    BY <2>1 DEF IsIterUpTo
  <2>3. QED
    BY <2>2
<1>2. ASSUME NEW n \in P PROVE n + 1 \in P
  <2>1. PICK g : IsIterUpTo(g, f, S, n)
    OBVIOUS
  <2> DEFINE E(k, t) == IF t = {} THEN 0 ELSE f[Pick(t)] + k[t \ {Pick(t)}]
  <2> DEFINE g2 == [t \in SubsetsUpTo(S, n + 1) |-> E(g, t)]
  <2>2. ASSUME NEW t \in SubsetsUpTo(S, n + 1), t # {}
        PROVE  t \ {Pick(t)} \in SubsetsUpTo(S, n)
    <3>1. Pick(t) \in t
      BY <2>2 DEF Pick
    <3>2. Cardinality(t \ {Pick(t)}) = Cardinality(t) - 1
      BY <1>0, <3>1, FS_RemoveElement DEF SubsetsUpTo
    <3>3. QED
      BY <1>0, <3>2 DEF SubsetsUpTo
  <2>3. \A u \in SubsetsUpTo(S, n) : g[u] = g2[u]
    <3> SUFFICES ASSUME NEW u \in SubsetsUpTo(S, n) PROVE g[u] = g2[u]
      OBVIOUS
    <3>1. u \in SubsetsUpTo(S, n + 1)
      BY <1>0 DEF SubsetsUpTo
    <3>2. g[u] = E(g, u)
      BY <2>1 DEF IsIterUpTo
    <3>3. QED
      BY <3>1, <3>2
  <2>4. \A t \in SubsetsUpTo(S, n + 1) : E(g, t) = E(g2, t)
    BY <2>2, <2>3
  <2>5. IsIterUpTo(g2, f, S, n + 1)
    BY <2>4 DEF IsIterUpTo
  <2>6. QED
    BY <2>5
<1>3. Nat \subseteq P
  BY <1>1, <1>2, NatSetInduction
<1>4. SubsetsUpTo(S, Cardinality(S)) = SUBSET S
  BY FS_Subset DEF SubsetsUpTo
<1>5. PICK g : IsIterUpTo(g, f, S, Cardinality(S))
  BY <1>3, FS_CardinalityType
<1>6. QED
  BY <1>4, <1>5 DEF IsIterUpTo, IsIter

-----------------------------------------------------------------------------
\* Over a finite set, the sum is the value of any helper at the set.
LEMMA SumIsIter ==
    ASSUME NEW f, NEW S, IsFiniteSet(S), NEW g, IsIter(g, f, S)
    PROVE  SumFunctionOnSet(f, S) = g[S]
<1>1. IsIter(CHOOSE k : IsIter(k, f, S), f, S)
  BY IterExists
<1>2. (CHOOSE k : IsIter(k, f, S))[S] = g[S]
  BY <1>1, IterAgree
<1>3. QED
  BY <1>2, SumIsChosenIter

\* The sum over no element is 0.
LEMMA SumEmpty ==
    ASSUME NEW f
    PROVE  SumFunctionOnSet(f, {}) = 0
<1>1. PICK g : IsIter(g, f, {})
  BY IterExists, FS_EmptySet
<1>2. g[{}] = 0
  BY <1>1 DEF IsIter
<1>3. QED
  BY <1>1, <1>2, SumIsIter, FS_EmptySet

\* The defining equation: the sum over a non-empty finite set is the term
\* of the element MapThenFoldSet picks plus the sum over the rest.
LEMMA SumPick ==
    ASSUME NEW f, NEW S, IsFiniteSet(S), S # {}
    PROVE  SumFunctionOnSet(f, S) = f[Pick(S)] + SumFunctionOnSet(f, S \ {Pick(S)})
<1> DEFINE x == Pick(S)
<1>1. IsFiniteSet(S \ {x})
  BY FS_RemoveElement
<1>2. PICK g : IsIter(g, f, S)
  BY IterExists
<1>3. PICK h : IsIter(h, f, S \ {x})
  BY <1>1, IterExists
<1>4. g[S] = f[x] + g[S \ {x}]
  BY <1>2 DEF IsIter
<1>5. h[S \ {x}] = g[S \ {x}]
  BY <1>1, <1>2, <1>3, IterAgree
<1>6. QED
  BY <1>1, <1>2, <1>3, <1>4, <1>5, SumIsIter

\* The sum depends only on the terms of the elements summed.
LEMMA SumAgree ==
    ASSUME NEW f, NEW h, NEW S, IsFiniteSet(S), \A x \in S : f[x] = h[x]
    PROVE  SumFunctionOnSet(f, S) = SumFunctionOnSet(h, S)
<1>1. PICK g : IsIter(g, f, S)
  BY IterExists
<1>2. \A s \in SUBSET S : s # {} => Pick(s) \in S
  BY DEF Pick
<1>3. IsIter(g, h, S)
  BY <1>1, <1>2 DEF IsIter
<1>4. QED
  BY <1>1, <1>3, SumIsIter

\* A sum of naturals is a natural, and a sum of integers an integer.
LEMMA SumType ==
    ASSUME NEW f, NEW S, IsFiniteSet(S), NEW Typ \in {Nat, Int},
           \A x \in S : f[x] \in Typ
    PROVE  SumFunctionOnSet(f, S) \in Typ
<1> DEFINE P == {n \in Nat : \A T \in SUBSET S :
                    IsFiniteSet(T) /\ Cardinality(T) = n =>
                       SumFunctionOnSet(f, T) \in Typ}
<1>1. 0 \in P
  BY SumEmpty, FS_EmptySet
<1>2. ASSUME NEW n \in P PROVE n + 1 \in P
  <2> SUFFICES ASSUME NEW T \in SUBSET S, IsFiniteSet(T), Cardinality(T) = n + 1
               PROVE  SumFunctionOnSet(f, T) \in Typ
    OBVIOUS
  <2>0. n \in Nat
    OBVIOUS
  <2>1. T # {} /\ Pick(T) \in T
    BY FS_EmptySet DEF Pick
  <2>2. IsFiniteSet(T \ {Pick(T)}) /\ Cardinality(T \ {Pick(T)}) = Cardinality(T) - 1
    BY <2>1, FS_RemoveElement
  <2>3. SumFunctionOnSet(f, T \ {Pick(T)}) \in Typ
    BY <2>0, <2>2
  <2>4. QED
    BY <2>1, <2>3, SumPick
<1>3. QED
  BY <1>1, <1>2, NatSetInduction, FS_CardinalityType

\* Any element of a finite set of integer terms may be taken out of the
\* sum first, not only the one MapThenFoldSet picks.
LEMMA SumRemove ==
    ASSUME NEW f, NEW S, IsFiniteSet(S), \A y \in S : f[y] \in Int, NEW x \in S
    PROVE  SumFunctionOnSet(f, S) = f[x] + SumFunctionOnSet(f, S \ {x})
<1> DEFINE Q(T) == \A z \in T : SumFunctionOnSet(f, T) = f[z] + SumFunctionOnSet(f, T \ {z})
<1> DEFINE P == {n \in Nat : \A T \in SUBSET S :
                    IsFiniteSet(T) /\ Cardinality(T) = n => Q(T)}
<1>1. 0 \in P
  BY FS_EmptySet
<1>2. ASSUME NEW n \in P PROVE n + 1 \in P
  <2> SUFFICES ASSUME NEW T \in SUBSET S, IsFiniteSet(T), Cardinality(T) = n + 1,
                      NEW z \in T
               PROVE  SumFunctionOnSet(f, T) = f[z] + SumFunctionOnSet(f, T \ {z})
    OBVIOUS
  <2>0. n \in Nat
    OBVIOUS
  <2> DEFINE y == Pick(T)
  <2>1. T # {} /\ y \in T
    BY DEF Pick
  <2>2. SumFunctionOnSet(f, T) = f[y] + SumFunctionOnSet(f, T \ {y})
    BY <2>1, SumPick
  <2>3. CASE z = y
    BY <2>2, <2>3
  <2>4. CASE z # y
    <3>1. IsFiniteSet(T \ {y}) /\ Cardinality(T \ {y}) = n
      <4>1. IsFiniteSet(T \ {y}) /\ Cardinality(T \ {y}) = Cardinality(T) - 1
        BY <2>1, FS_RemoveElement
      <4>2. QED
        BY <2>0, <4>1
    <3>2. IsFiniteSet(T \ {z}) /\ Cardinality(T \ {z}) = n
      <4>1. IsFiniteSet(T \ {z}) /\ Cardinality(T \ {z}) = Cardinality(T) - 1
        BY FS_RemoveElement
      <4>2. QED
        BY <2>0, <4>1
    <3>3. (T \ {y}) \ {z} = (T \ {z}) \ {y}
      OBVIOUS
    <3>4. SumFunctionOnSet(f, T \ {y}) = f[z] + SumFunctionOnSet(f, (T \ {y}) \ {z})
      BY <2>4, <3>1
    <3>5. SumFunctionOnSet(f, T \ {z}) = f[y] + SumFunctionOnSet(f, (T \ {z}) \ {y})
      BY <2>1, <2>4, <3>2
    <3>6. IsFiniteSet((T \ {z}) \ {y})
      BY <3>2, FS_RemoveElement
    <3>7. SumFunctionOnSet(f, (T \ {z}) \ {y}) \in Int
      BY <3>6, SumType
    <3>8. f[y] \in Int /\ f[z] \in Int
      BY <2>1
    <3>9. QED
      BY <2>2, <3>3, <3>4, <3>5, <3>7, <3>8
  <2>5. QED
    BY <2>3, <2>4
<1>3. Nat \subseteq P
  BY <1>1, <1>2, NatSetInduction
<1>4. QED
  BY <1>3, FS_CardinalityType

\* Changing one term of a sum changes the sum by the difference.
LEMMA SumExcept ==
    ASSUME NEW f, NEW S, IsFiniteSet(S), S \subseteq DOMAIN f,
           \A y \in S : f[y] \in Int, NEW x \in S, NEW v \in Int
    PROVE  SumFunctionOnSet([f EXCEPT ![x] = v], S) = SumFunctionOnSet(f, S) - f[x] + v
<1> DEFINE g == [f EXCEPT ![x] = v]
<1>1. \A y \in S : g[y] \in Int
  OBVIOUS
<1>2. IsFiniteSet(S \ {x})
  BY FS_RemoveElement
<1>3. SumFunctionOnSet(g, S \ {x}) = SumFunctionOnSet(f, S \ {x})
  BY <1>2, SumAgree
<1>4. SumFunctionOnSet(f, S \ {x}) \in Int
  BY <1>2, SumType
<1>5. SumFunctionOnSet(g, S) = v + SumFunctionOnSet(g, S \ {x})
  BY <1>1, SumRemove
<1>6. SumFunctionOnSet(f, S) = f[x] + SumFunctionOnSet(f, S \ {x})
  BY SumRemove
<1>7. QED
  BY <1>3, <1>4, <1>5, <1>6

\* A sum of zeros is 0.
LEMMA SumZero ==
    ASSUME NEW f, NEW S, IsFiniteSet(S), \A x \in S : f[x] = 0
    PROVE  SumFunctionOnSet(f, S) = 0
<1> DEFINE P == {n \in Nat : \A T \in SUBSET S :
                    IsFiniteSet(T) /\ Cardinality(T) = n =>
                       SumFunctionOnSet(f, T) = 0}
<1>1. 0 \in P
  BY SumEmpty, FS_EmptySet
<1>2. ASSUME NEW n \in P PROVE n + 1 \in P
  <2> SUFFICES ASSUME NEW T \in SUBSET S, IsFiniteSet(T), Cardinality(T) = n + 1
               PROVE  SumFunctionOnSet(f, T) = 0
    OBVIOUS
  <2>0. n \in Nat
    OBVIOUS
  <2>1. T # {} /\ Pick(T) \in T
    BY FS_EmptySet DEF Pick
  <2>2. IsFiniteSet(T \ {Pick(T)}) /\ Cardinality(T \ {Pick(T)}) = Cardinality(T) - 1
    BY <2>1, FS_RemoveElement
  <2>3. SumFunctionOnSet(f, T \ {Pick(T)}) = 0
    BY <2>0, <2>2
  <2>4. QED
    BY <2>1, <2>3, SumPick
<1>3. QED
  BY <1>1, <1>2, NatSetInduction, FS_CardinalityType
\* Terms that are 0 may be left out of a sum.
LEMMA SumDropZeros ==
    ASSUME NEW f, NEW S, NEW T, IsFiniteSet(S), T \subseteq S,
           \A x \in S : f[x] \in Int, \A x \in S \ T : f[x] = 0
    PROVE  SumFunctionOnSet(f, S) = SumFunctionOnSet(f, T)
<1> DEFINE P == {n \in Nat : \A U \in SUBSET (S \ T) :
                    IsFiniteSet(U) /\ Cardinality(U) = n =>
                       SumFunctionOnSet(f, T \cup U) = SumFunctionOnSet(f, T)}
<1>0. IsFiniteSet(T) /\ IsFiniteSet(S \ T)
  BY FS_Subset
<1>1. 0 \in P
  BY FS_EmptySet
<1>2. ASSUME NEW n \in P PROVE n + 1 \in P
  <2> SUFFICES ASSUME NEW U \in SUBSET (S \ T), IsFiniteSet(U), Cardinality(U) = n + 1
               PROVE  SumFunctionOnSet(f, T \cup U) = SumFunctionOnSet(f, T)
    OBVIOUS
  <2>0. n \in Nat
    OBVIOUS
  <2> DEFINE z == Pick(U)
  <2>1. U # {} /\ z \in U
    BY FS_EmptySet DEF Pick
  <2>2. IsFiniteSet(U \ {z}) /\ Cardinality(U \ {z}) = Cardinality(U) - 1
    BY <2>1, FS_RemoveElement
  <2>3. SumFunctionOnSet(f, T \cup (U \ {z})) = SumFunctionOnSet(f, T)
    BY <2>0, <2>2
  <2>4. IsFiniteSet(T \cup U)
    BY FS_Subset
  <2>5. SumFunctionOnSet(f, T \cup U) = f[z] + SumFunctionOnSet(f, (T \cup U) \ {z})
    BY <2>1, <2>4, SumRemove
  <2>6. (T \cup U) \ {z} = T \cup (U \ {z})
    BY <2>1
  <2>7. SumFunctionOnSet(f, T) \in Int
    BY <1>0, SumType
  <2>8. f[z] = 0
    BY <2>1
  <2>9. SumFunctionOnSet(f, T \cup U) = 0 + SumFunctionOnSet(f, T)
    BY <2>3, <2>5, <2>6, <2>8
  <2>10. QED
    BY <2>7, <2>9
<1>3. Nat \subseteq P
  BY <1>1, <1>2, NatSetInduction
<1>4. Cardinality(S \ T) \in Nat
  BY <1>0, FS_CardinalityType
<1>5. S = T \cup (S \ T)
  OBVIOUS
<1>6. QED
  BY <1>0, <1>3, <1>4, <1>5
=============================================================================
