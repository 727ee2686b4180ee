------------------------------- MODULE SumLemmas -------------------------------
(***************************************************************************)
(* Sums over finite sets, as the models write them: a function W and       *)
(* SumFunctionOnSet(W, S).  The community modules fold with a recursive    *)
(* function that takes the elements in an unspecified order; what holds in *)
(* every order is shown here, by a smallest counterexample.                *)
(***************************************************************************)
EXTENDS Integers, FiniteSets, Functions, TLAPS, FiniteSetTheorems, WellFoundedInduction

\* A set of natural numbers that is not empty has a least element.
LEMMA LeastNatural ==
  ASSUME NEW S, S \subseteq Nat, S # {}
  PROVE  \E w \in S : \A v \in S : w <= v
<1> DEFINE R == OpToRel(<, Nat)
<1>1. \A x, y \in Nat : <<x, y>> \in R <=> x < y
  BY DEF OpToRel
<1>2. IsWellFoundedOn(R, Nat)
  BY NatLessThanWellFounded
<1> HIDE DEF R
<1>3. PICK x \in S : \A y \in S : <<y, x>> \notin R
  BY <1>2, WFMin
<1>4. \A y \in S : ~(y < x)
  BY <1>1, <1>3
<1> QED BY <1>3, <1>4

\* The element that a fold takes out of a set first.
Picked(s) == CHOOSE x \in s : TRUE
Unpicked(s) == s \ {Picked(s)}

\* f is the recursive function that sums W over the subsets of S.
IsSum(f, W, S) ==
  f = [s \in SUBSET S |-> IF s = {} THEN 0 ELSE W[Picked(s)] + f[Unpicked(s)]]

\* The sum is what such a function gives for the whole set.
LEMMA SumIsSum ==
  ASSUME NEW W, NEW S
  PROVE  SumFunctionOnSet(W, S) = (CHOOSE f : IsSum(f, W, S))[S]
BY DEF SumFunctionOnSet, FoldFunctionOnSet, MapThenFoldSet, IsSum, Picked, Unpicked

\* Of the finite subsets of a set that have a property, one has no smaller one that has it.
LEMMA SmallestSet ==
  ASSUME NEW P, NEW S \in P, \A s \in P : IsFiniteSet(s)
  PROVE  \E s \in P : \A t \in P : Cardinality(s) <= Cardinality(t)
<1> DEFINE C == {Cardinality(s) : s \in P}
<1>1. C \subseteq Nat /\ C # {}
  BY FS_CardinalityType
<1>2. PICK n \in C : \A m \in C : n <= m
  BY <1>1, LeastNatural
<1> QED BY <1>2

\* Without its first element a finite set is smaller.
LEMMA RestSmaller ==
  ASSUME NEW S, IsFiniteSet(S), S # {}
  PROVE  /\ Picked(S) \in S /\ Unpicked(S) \subseteq S /\ IsFiniteSet(Unpicked(S))
         /\ Cardinality(Unpicked(S)) < Cardinality(S)
<1>1. Picked(S) \in S
  BY DEF Picked
<1>2. IsFiniteSet(Unpicked(S)) /\ Cardinality(Unpicked(S)) = Cardinality(S) - 1
  BY <1>1, FS_RemoveElement DEF Unpicked
<1>3. Cardinality(S) \in Nat
  BY FS_CardinalityType
<1> QED BY <1>1, <1>2, <1>3 DEF Unpicked

\* What such functions give for a set does not depend on the set they were made for.
LEMMA SumUnique ==
  ASSUME NEW W, NEW S, IsFiniteSet(S), NEW T, NEW f, NEW g, IsSum(f, W, S), IsSum(g, W, T)
  PROVE  \A s \in SUBSET S : s \subseteq T => f[s] = g[s]
<1> DEFINE P == {s \in SUBSET S : s \subseteq T /\ f[s] # g[s]}
<1> SUFFICES ASSUME P # {} PROVE FALSE
  OBVIOUS
<1>1. \A s \in P : IsFiniteSet(s)
  BY FS_Subset
<1>2. PICK s \in P : \A t \in P : Cardinality(s) <= Cardinality(t)
  BY <1>1, SmallestSet
<1>3. /\ f[s] = IF s = {} THEN 0 ELSE W[Picked(s)] + f[Unpicked(s)]
      /\ g[s] = IF s = {} THEN 0 ELSE W[Picked(s)] + g[Unpicked(s)]
  BY DEF IsSum
<1>4. s # {}
  BY <1>3
<1>5. /\ Unpicked(s) \subseteq s /\ IsFiniteSet(Unpicked(s)) /\ Cardinality(Unpicked(s)) < Cardinality(s)
  BY <1>1, <1>4, RestSmaller
<1>6. Unpicked(s) \notin P
  <2>1. Cardinality(s) \in Nat /\ Cardinality(Unpicked(s)) \in Nat
    BY <1>1, <1>5, FS_CardinalityType
  <2> QED BY <1>2, <1>5, <2>1
<1>7. f[Unpicked(s)] = g[Unpicked(s)]
  BY <1>5, <1>6
<1> QED BY <1>3, <1>4, <1>7

\* Every finite set has such a function.
LEMMA SumExists ==
  ASSUME NEW W, NEW S, IsFiniteSet(S)
  PROVE  \E f : IsSum(f, W, S)
<1> DEFINE P == {T \in SUBSET S : ~\E f : IsSum(f, W, T)}
<1> SUFFICES ASSUME P # {} PROVE FALSE
  OBVIOUS
<1>1. \A T \in P : IsFiniteSet(T)
  BY FS_Subset
<1>2. PICK T \in P : \A U \in P : Cardinality(T) <= Cardinality(U)
  BY <1>1, SmallestSet
<1> DEFINE F(s) == CHOOSE f : IsSum(f, W, s)
           V(s) == F(s)[s]
           g    == [s \in SUBSET T |-> IF s = {} THEN 0 ELSE W[Picked(s)] + V(Unpicked(s))]
<1>3. ASSUME NEW s \in SUBSET T, s # {} PROVE Unpicked(s) \in SUBSET T /\ IsSum(F(Unpicked(s)), W, Unpicked(s))
  <2>1. IsFiniteSet(s) /\ IsFiniteSet(T) /\ Cardinality(s) <= Cardinality(T)
    BY <1>1, FS_Subset
  <2>2. Unpicked(s) \subseteq s /\ IsFiniteSet(Unpicked(s)) /\ Cardinality(Unpicked(s)) < Cardinality(s)
    BY <1>3, <2>1, RestSmaller
  <2>3. /\ Cardinality(s) \in Nat /\ Cardinality(T) \in Nat /\ Cardinality(Unpicked(s)) \in Nat
    BY <2>1, <2>2, FS_CardinalityType
  <2>4. Unpicked(s) \notin P
    BY <1>2, <2>1, <2>2, <2>3
  <2>5. \E f : IsSum(f, W, Unpicked(s))
    BY <2>2, <2>4
  <2> QED BY <2>2, <2>5
<1>4. ASSUME NEW s \in SUBSET T, s # {} PROVE g[Unpicked(s)] = V(Unpicked(s))
  <2> DEFINE r == Unpicked(s)
  <2>1. r \in SUBSET T /\ IsSum(F(r), W, r) /\ IsFiniteSet(r)
    BY <1>1, <1>3, <1>4, FS_Subset
  <2>2. F(r)[r] = IF r = {} THEN 0 ELSE W[Picked(r)] + F(r)[Unpicked(r)]
    BY <2>1 DEF IsSum
  <2>3. CASE r = {}
    BY <2>1, <2>2, <2>3
  <2>4. CASE r # {}
    <3>1. IsSum(F(Unpicked(r)), W, Unpicked(r)) /\ Unpicked(r) \subseteq r
      BY <1>3, <2>1, <2>4 DEF Unpicked
    <3>2. F(r)[Unpicked(r)] = F(Unpicked(r))[Unpicked(r)]
      BY <2>1, <3>1, SumUnique
    <3>3. g[r] = W[Picked(r)] + V(Unpicked(r))
      BY <2>1, <2>4
    <3> QED BY <2>2, <2>4, <3>2, <3>3
  <2> QED BY <2>3, <2>4
<1>5. g = [s \in SUBSET T |-> IF s = {} THEN 0 ELSE W[Picked(s)] + g[Unpicked(s)]]
  <2>1. ASSUME NEW s \in SUBSET T
        PROVE  g[s] = IF s = {} THEN 0 ELSE W[Picked(s)] + g[Unpicked(s)]
    <3>1. CASE s = {}
      BY <3>1
    <3>2. CASE s # {}
      <4>1. g[s] = W[Picked(s)] + V(Unpicked(s))
        BY <3>2
      <4>2. g[Unpicked(s)] = V(Unpicked(s))
        BY <1>4, <3>2
      <4> HIDE DEF g, V
      <4> QED BY <3>2, <4>1, <4>2
    <3> QED BY <3>1, <3>2
  <2>2. g = [s \in SUBSET T |-> g[s]]
    OBVIOUS
  <2> HIDE DEF g
  <2> QED BY <2>1, <2>2
<1>6. IsSum(g, W, T)
  BY <1>5 DEF IsSum
<1> QED BY <1>6

\* The sum of a finite set takes its first element and goes on with the rest.
LEMMA SumStep ==
  ASSUME NEW W, NEW S, IsFiniteSet(S)
  PROVE  SumFunctionOnSet(W, S) = IF S = {} THEN 0 ELSE W[Picked(S)] + SumFunctionOnSet(W, Unpicked(S))
<1> DEFINE F(s) == CHOOSE f : IsSum(f, W, s)
<1>1. IsSum(F(S), W, S)
  BY SumExists
<1>2. F(S)[S] = IF S = {} THEN 0 ELSE W[Picked(S)] + F(S)[Unpicked(S)]
  BY <1>1 DEF IsSum
<1>3. ASSUME S # {} PROVE F(S)[Unpicked(S)] = F(Unpicked(S))[Unpicked(S)]
  <2>1. IsFiniteSet(Unpicked(S)) /\ Unpicked(S) \subseteq S
    BY <1>3, RestSmaller
  <2>2. IsSum(F(Unpicked(S)), W, Unpicked(S))
    BY <2>1, SumExists
  <2> QED BY <1>1, <2>1, <2>2, SumUnique
<1> QED BY <1>2, <1>3, SumIsSum

\* A sum of natural numbers is one.
LEMMA SumNat ==
  ASSUME NEW W, NEW S, IsFiniteSet(S), \A x \in S : W[x] \in Nat
  PROVE  SumFunctionOnSet(W, S) \in Nat
<1> DEFINE P == {T \in SUBSET S : SumFunctionOnSet(W, T) \notin Nat}
<1> SUFFICES ASSUME P # {} PROVE FALSE
  OBVIOUS
<1>1. \A T \in P : IsFiniteSet(T)
  BY FS_Subset
<1>2. PICK T \in P : \A U \in P : Cardinality(T) <= Cardinality(U)
  BY <1>1, SmallestSet
<1>3. SumFunctionOnSet(W, T) = IF T = {} THEN 0 ELSE W[Picked(T)] + SumFunctionOnSet(W, Unpicked(T))
  BY <1>1, SumStep
<1>4. T # {}
  BY <1>3
<1>5. Picked(T) \in T /\ Unpicked(T) \subseteq T /\ IsFiniteSet(Unpicked(T)) /\ Cardinality(Unpicked(T)) < Cardinality(T)
  BY <1>1, <1>4, RestSmaller
<1>6. Unpicked(T) \notin P
  <2>1. Cardinality(T) \in Nat /\ Cardinality(Unpicked(T)) \in Nat
    BY <1>1, <1>5, FS_CardinalityType
  <2> QED BY <1>2, <1>5, <2>1
<1> QED BY <1>3, <1>4, <1>5, <1>6

\* Only the values that are added up matter.
LEMMA SumAgrees ==
  ASSUME NEW V, NEW W, NEW S, IsFiniteSet(S), \A x \in S : V[x] = W[x]
  PROVE  SumFunctionOnSet(V, S) = SumFunctionOnSet(W, S)
<1> DEFINE P == {T \in SUBSET S : SumFunctionOnSet(V, T) # SumFunctionOnSet(W, T)}
<1> SUFFICES ASSUME P # {} PROVE FALSE
  OBVIOUS
<1>1. \A T \in P : IsFiniteSet(T)
  BY FS_Subset
<1>2. PICK T \in P : \A U \in P : Cardinality(T) <= Cardinality(U)
  BY <1>1, SmallestSet
<1>3. /\ SumFunctionOnSet(V, T) = IF T = {} THEN 0 ELSE V[Picked(T)] + SumFunctionOnSet(V, Unpicked(T))
      /\ SumFunctionOnSet(W, T) = IF T = {} THEN 0 ELSE W[Picked(T)] + SumFunctionOnSet(W, Unpicked(T))
  BY <1>1, SumStep
<1>4. T # {}
  BY <1>3
<1>5. Picked(T) \in T /\ Unpicked(T) \subseteq T /\ IsFiniteSet(Unpicked(T)) /\ Cardinality(Unpicked(T)) < Cardinality(T)
  BY <1>1, <1>4, RestSmaller
<1>6. Unpicked(T) \notin P
  <2>1. Cardinality(T) \in Nat /\ Cardinality(Unpicked(T)) \in Nat
    BY <1>1, <1>5, FS_CardinalityType
  <2> QED BY <1>2, <1>5, <2>1
<1> QED BY <1>3, <1>4, <1>5, <1>6

\* Any element may be taken first: the order of the fold does not matter.
LEMMA SumTake ==
  ASSUME NEW W, NEW S, IsFiniteSet(S), \A x \in S : W[x] \in Nat, NEW e \in S
  PROVE  SumFunctionOnSet(W, S) = W[e] + SumFunctionOnSet(W, S \ {e})
<1> DEFINE Sum(T) == SumFunctionOnSet(W, T)
           P == {T \in SUBSET S : \E x \in T : Sum(T) # W[x] + Sum(T \ {x})}
<1> SUFFICES ASSUME P # {} PROVE FALSE
  OBVIOUS
<1>1. \A T \in P : IsFiniteSet(T)
  BY FS_Subset
<1>2. PICK T \in P : \A U \in P : Cardinality(T) <= Cardinality(U)
  BY <1>1, SmallestSet
<1>3. PICK x \in T : Sum(T) # W[x] + Sum(T \ {x})
  BY <1>2
<1> DEFINE c == Picked(T)
<1>4. c \in T /\ Sum(T) = W[c] + Sum(T \ {c})
  BY <1>1, <1>3, SumStep, RestSmaller DEF Unpicked
<1>5. c # x
  BY <1>3, <1>4
<1>6. ASSUME NEW y \in T
      PROVE  T \ {y} \notin P /\ T \ {y} \in SUBSET S /\ \A z \in T \ {y} : Sum(T \ {y, z}) \in Nat
  <2>1. IsFiniteSet(T \ {y}) /\ Cardinality(T \ {y}) = Cardinality(T) - 1 /\ IsFiniteSet(T)
    BY <1>1, FS_RemoveElement
  <2>2. Cardinality(T) \in Nat
    BY <2>1, FS_CardinalityType
  <2>3. T \ {y} \notin P
    BY <1>2, <2>1, <2>2
  <2>4. ASSUME NEW z \in T \ {y} PROVE Sum(T \ {y, z}) \in Nat
    <3>1. T \ {y, z} \in SUBSET T
      OBVIOUS
    <3>2. IsFiniteSet(T \ {y, z})
      BY <2>1, <3>1, FS_Subset
    <3> QED BY <3>2, SumNat
  <2> QED BY <2>3, <2>4
<1>7. Sum(T \ {c}) = W[x] + Sum(T \ {c, x})
  <2>1. x \in T \ {c} /\ (T \ {c}) \ {x} = T \ {c, x}
    BY <1>5
  <2> QED BY <1>4, <1>6, <2>1
<1>8. Sum(T \ {x}) = W[c] + Sum(T \ {c, x})
  <2>1. c \in T \ {x} /\ (T \ {x}) \ {c} = T \ {c, x}
    BY <1>4, <1>5
  <2>2. T \ {x} \in SUBSET S /\ T \ {x} \notin P
    BY <1>3, <1>6
  <2>3. \A z \in T \ {x} : Sum(T \ {x}) = W[z] + Sum((T \ {x}) \ {z})
    BY <2>2
  <2> QED BY <2>1, <2>3
<1>9. W[x] \in Nat /\ W[c] \in Nat /\ Sum(T \ {c, x}) \in Nat
  BY <1>3, <1>4, <1>5, <1>6
<1> HIDE DEF Sum
<1> QED BY <1>3, <1>4, <1>7, <1>8, <1>9

\* A sum with one element more.
LEMMA SumAdd ==
  ASSUME NEW W, NEW S, IsFiniteSet(S), NEW e, e \notin S, \A x \in S \cup {e} : W[x] \in Nat
  PROVE  SumFunctionOnSet(W, S \cup {e}) = SumFunctionOnSet(W, S) + W[e]
<1>1. IsFiniteSet(S \cup {e}) /\ (S \cup {e}) \ {e} = S
  BY FS_AddElement
<1>2. SumFunctionOnSet(W, S \cup {e}) = W[e] + SumFunctionOnSet(W, S)
  BY <1>1, SumTake
<1>3. SumFunctionOnSet(W, S) \in Nat
  BY SumNat
<1> QED BY <1>2, <1>3

\* Of a part the sum is no larger.
LEMMA SumOfPart ==
  ASSUME NEW W, NEW S, IsFiniteSet(S), \A x \in S : W[x] \in Nat, NEW T, T \subseteq S
  PROVE  SumFunctionOnSet(W, T) <= SumFunctionOnSet(W, S)
<1> DEFINE Sum(U) == SumFunctionOnSet(W, U)
           P == {U \in SUBSET S : T \subseteq U /\ ~(Sum(T) <= Sum(U))}
<1> SUFFICES ASSUME P # {} PROVE FALSE
  OBVIOUS
<1>1. \A U \in SUBSET S : IsFiniteSet(U) /\ Sum(U) \in Nat
  BY FS_Subset, SumNat
<1>2. PICK U \in P : \A X \in P : Cardinality(U) <= Cardinality(X)
  BY <1>1, SmallestSet
<1>3. U # T
  BY <1>1, <1>2
<1>4. PICK x \in U : x \notin T
  BY <1>2, <1>3
<1>5. Sum(U) = W[x] + Sum(U \ {x})
  BY <1>1, <1>2, SumTake
<1>6. Cardinality(U \ {x}) < Cardinality(U)
  <2>1. Cardinality(U \ {x}) = Cardinality(U) - 1 /\ Cardinality(U) \in Nat
    BY <1>1, <1>2, FS_RemoveElement, FS_CardinalityType
  <2> QED BY <2>1
<1>7. U \ {x} \notin P
  <2>1. Cardinality(U) \in Nat /\ Cardinality(U \ {x}) \in Nat
    BY <1>1, <1>2, FS_CardinalityType
  <2> QED BY <1>2, <1>6, <2>1
<1>8. Sum(T) <= Sum(U \ {x})
  BY <1>2, <1>4, <1>7
<1>9. W[x] \in Nat /\ Sum(U \ {x}) \in Nat /\ Sum(T) \in Nat /\ Sum(U) \in Nat
  BY <1>1, <1>2, <1>4
<1> HIDE DEF Sum
<1> QED BY <1>2, <1>5, <1>8, <1>9

\* The sum of two parts.
LEMMA SumUnion ==
  ASSUME NEW W, NEW S, NEW T, IsFiniteSet(S), IsFiniteSet(T), S \cap T = {}, \A x \in S \cup T : W[x] \in Nat
  PROVE  SumFunctionOnSet(W, S \cup T) = SumFunctionOnSet(W, S) + SumFunctionOnSet(W, T)
<1> DEFINE Sum(U) == SumFunctionOnSet(W, U)
           P == {U \in SUBSET T : Sum(S \cup U) # Sum(S) + Sum(U)}
<1> SUFFICES ASSUME P # {} PROVE FALSE
  OBVIOUS
<1>1. \A U \in SUBSET T : IsFiniteSet(U) /\ Sum(U) \in Nat /\ Sum(S) \in Nat
  BY FS_Subset, SumNat
<1>2. PICK U \in P : \A X \in P : Cardinality(U) <= Cardinality(X)
  BY <1>1, SmallestSet
<1>3. U # {}
  <2>1. SumFunctionOnSet(W, {}) = 0
    BY FS_EmptySet, SumStep
  <2>2. ASSUME U = {} PROVE Sum(S \cup U) = Sum(S) /\ Sum(U) = 0
    BY <2>1, <2>2
  <2> QED BY <1>1, <1>2, <2>2
<1>4. PICK x \in U : TRUE
  BY <1>3
<1> DEFINE V == U \ {x}
<1>5. V \in SUBSET T /\ x \notin V /\ x \notin S /\ U = V \cup {x} /\ S \cup U = (S \cup V) \cup {x}
  BY <1>2, <1>4
<1>6. V \notin P
  <2>1. Cardinality(V) = Cardinality(U) - 1 /\ Cardinality(U) \in Nat
    BY <1>1, <1>2, <1>4, FS_RemoveElement, FS_CardinalityType
  <2> QED BY <1>2, <2>1
<1>7. Sum(U) = Sum(V) + W[x]
  <2>1. \A y \in V \cup {x} : W[y] \in Nat
    BY <1>2, <1>4
  <2> HIDE DEF V
  <2> QED BY <1>1, <1>5, <2>1, SumAdd
<1>8. Sum(S \cup U) = Sum(S \cup V) + W[x]
  <2>1. IsFiniteSet(S \cup V)
    BY <1>1, <1>5, FS_Union
  <2>2. x \notin S \cup V /\ \A y \in (S \cup V) \cup {x} : W[y] \in Nat
    BY <1>2, <1>4, <1>5
  <2> HIDE DEF V
  <2> QED BY <1>5, <2>1, <2>2, SumAdd
<1>9. W[x] \in Nat /\ Sum(V) \in Nat /\ Sum(S) \in Nat
  BY <1>1, <1>2, <1>4, <1>5
<1>10. Sum(S \cup V) = Sum(S) + Sum(V)
  BY <1>5, <1>6
<1> HIDE DEF Sum, V
<1>11. Sum(S \cup U) = Sum(S) + Sum(U)
  BY <1>7, <1>8, <1>9, <1>10
<1> QED BY <1>2, <1>11 DEF Sum

\* One term changes.
LEMMA SumChange ==
  ASSUME NEW V, NEW W, NEW S, IsFiniteSet(S), NEW e \in S,
         \A x \in S : V[x] \in Nat /\ W[x] \in Nat, \A x \in S \ {e} : W[x] = V[x]
  PROVE  SumFunctionOnSet(W, S) + V[e] = SumFunctionOnSet(V, S) + W[e]
<1>1. /\ SumFunctionOnSet(V, S) = V[e] + SumFunctionOnSet(V, S \ {e})
      /\ SumFunctionOnSet(W, S) = W[e] + SumFunctionOnSet(W, S \ {e})
  BY SumTake
<1>2. IsFiniteSet(S \ {e})
  BY FS_RemoveElement
<1>3. SumFunctionOnSet(V, S \ {e}) = SumFunctionOnSet(W, S \ {e}) /\ SumFunctionOnSet(V, S \ {e}) \in Nat
  BY <1>2, SumAgrees, SumNat
<1> QED BY <1>1, <1>3

\* The sum over a part is the sum of terms that are zero outside it.
LEMMA SumFilter ==
  ASSUME NEW W, NEW S, IsFiniteSet(S), \A x \in S : W[x] \in Nat, NEW T, T \subseteq S
  PROVE  SumFunctionOnSet(W, T) = SumFunctionOnSet([x \in S |-> IF x \in T THEN W[x] ELSE 0], S)
<1> DEFINE V == [x \in S |-> IF x \in T THEN W[x] ELSE 0]
           P == {U \in SUBSET (S \ T) : SumFunctionOnSet(V, U) # 0}
<1>1. \A U \in SUBSET S : IsFiniteSet(U)
  BY FS_Subset
<1>2. P = {}
  <2> SUFFICES ASSUME P # {} PROVE FALSE
    OBVIOUS
  <2>1. PICK U \in P : \A X \in P : Cardinality(U) <= Cardinality(X)
    BY <1>1, SmallestSet
  <2>2. IsFiniteSet(U) /\ U \in SUBSET (S \ T)
    BY <1>1, <2>1
  <2>3. SumFunctionOnSet(V, U) = IF U = {} THEN 0 ELSE V[Picked(U)] + SumFunctionOnSet(V, Unpicked(U))
    BY <2>2, SumStep
  <2>4. U # {}
    BY <2>1, <2>3
  <2>5. Picked(U) \in U /\ Unpicked(U) \subseteq U /\ IsFiniteSet(Unpicked(U)) /\ Cardinality(Unpicked(U)) < Cardinality(U)
    BY <2>2, <2>4, RestSmaller
  <2>6. Unpicked(U) \notin P
    <3>1. Cardinality(U) \in Nat /\ Cardinality(Unpicked(U)) \in Nat
      BY <2>2, <2>5, FS_CardinalityType
    <3> QED BY <2>1, <2>5, <3>1
  <2>7. V[Picked(U)] = 0 /\ SumFunctionOnSet(V, Unpicked(U)) = 0
    BY <2>2, <2>5, <2>6
  <2> QED BY <2>1, <2>3, <2>4, <2>7
<1>3. \A x \in S : V[x] \in Nat
  OBVIOUS
<1>4. T \cup (S \ T) = S /\ T \cap (S \ T) = {}
  OBVIOUS
<1>5. SumFunctionOnSet(V, S \ T) = 0
  BY <1>2
<1>6. SumFunctionOnSet(V, T) = SumFunctionOnSet(W, T)
  <2>1. \A x \in T : V[x] = W[x]
    OBVIOUS
  <2> HIDE DEF V
  <2> QED BY <1>1, <2>1, SumAgrees
<1> HIDE DEF V
<1>7. SumFunctionOnSet(V, S) = SumFunctionOnSet(V, T) + SumFunctionOnSet(V, S \ T)
  <2>1. IsFiniteSet(T) /\ IsFiniteSet(S \ T)
    BY <1>1
  <2>2. SumFunctionOnSet(V, T \cup (S \ T)) = SumFunctionOnSet(V, T) + SumFunctionOnSet(V, S \ T)
    BY <1>3, <1>4, <2>1, SumUnion
  <2> QED BY <1>4, <2>2
<1>8. SumFunctionOnSet(V, T) \in Nat
  BY <1>1, <1>3, SumNat
<1> QED BY <1>5, <1>6, <1>7, <1>8 DEF V
=============================================================================
