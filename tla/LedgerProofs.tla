---------------------------- MODULE LedgerProofs ----------------------------
(***************************************************************************)
(* Sums over finite sets, and what one posting does to the balances of the *)
(* ledger.  The sum of the community modules folds the elements in some    *)
(* order; that the order does not matter is an induction over finite sets, *)
(* which the library offers only with an operator as a parameter: the      *)
(* lemmas here take a smallest counterexample among the subsets instead.   *)
(***************************************************************************)
EXTENDS Ledger, FiniteSetTheorems, WellFoundedInduction, TLAPS

\* Among subsets of a finite set, one has no strict subset among them.
LEMMA SmallestSet ==
    ASSUME NEW S, IsFiniteSet(S), NEW C \in SUBSET SUBSET S, C # {}
    PROVE  \E T \in C : \A U \in C : U \subseteq T => U = T
<1>1. C \subseteq FiniteSubsetsOf(S)
  BY FS_Subset DEF FiniteSubsetsOf
<1>2. IsWellFoundedOn(StrictSubsetOrdering(S), FiniteSubsetsOf(S))
  BY FS_StrictSubsetOrderingWellFounded
<1>3. \E T \in C : \A U \in C : ~(<<U, T>> \in StrictSubsetOrdering(S))
  BY <1>1, <1>2, WFMin
<1> QED BY <1>3 DEF StrictSubsetOrdering

\* A set of numbers has a smallest one.
LEMMA SmallestNumber ==
    ASSUME NEW C \in SUBSET Nat, C # {}
    PROVE  \E n \in C : \A m \in C : n <= m
<1>1. PICK n \in C : \A m \in C : ~(<<m, n>> \in OpToRel(<, Nat))
  BY NatLessThanWellFounded, WFMin
<1>2. \A m \in C : m \in Nat /\ n \in Nat /\ ~(m < n)
  BY <1>1 DEF OpToRel
<1> QED BY <1>2

\* A finite set of numbers has a largest one.
LEMMA LargestNumber ==
    ASSUME NEW S, IsFiniteSet(S), \A n \in S : n \in Nat, S # {}
    PROVE  \E n \in S : \A m \in S : m <= n
<1> DEFINE above(n) == {m \in S : m > n}
           C == {above(n) : n \in S}
<1>1. C # {}
  OBVIOUS
<1>2. PICK T \in C : \A U \in C : U \subseteq T => U = T
  <2>1. C \in SUBSET SUBSET S
    OBVIOUS
  <2> HIDE DEF C
  <2> QED BY <1>1, <2>1, SmallestSet
<1>3. PICK n \in S : T = above(n)
  OBVIOUS
<1>4. \A m \in S : m \in Nat
  OBVIOUS
<1>5. ASSUME NEW m \in S, m > n PROVE FALSE
  <2>1. above(m) \in C /\ m \in above(n) /\ m \notin above(m)
    BY <1>4, <1>5
  <2>2. above(m) \subseteq above(n)
    <3> SUFFICES ASSUME NEW k \in above(m) PROVE k \in above(n)
      OBVIOUS
    <3>1. k \in S /\ k \in Nat /\ k > m /\ m \in Nat /\ n \in Nat
      BY <1>4
    <3> QED BY <1>5, <3>1
  <2> HIDE DEF above, C
  <2> QED BY <1>2, <1>3, <2>1, <2>2
<1> QED BY <1>4, <1>5

-----------------------------------------------------------------------------

First(s) == CHOOSE x \in s : TRUE

\* The element a fold takes first is of the set.
LEMMA FirstIn == ASSUME NEW s, s # {} PROVE First(s) \in s
BY DEF First

\* What the recursive function of the fold is over the subsets of S.
Sums(g, f, S) ==
    g = [s \in SUBSET S |-> IF s = {} THEN 0 ELSE f[First(s)] + g[s \ {First(s)}]]

\* A sum is the value of a function chosen on the subsets.
LEMMA SumIsChoice ==
    ASSUME NEW f, NEW S
    PROVE  SumFunctionOnSet(f, S) = (CHOOSE g : Sums(g, f, S))[S]
BY DEF SumFunctionOnSet, FoldFunctionOnSet, MapThenFoldSet, Sums, First

\* Two such functions agree where both are defined.
LEMMA SumsAgree ==
    ASSUME NEW f, NEW S, NEW T, NEW g, NEW h, Sums(g, f, S), Sums(h, f, T),
           NEW U, U \subseteq S, U \subseteq T, IsFiniteSet(U)
    PROVE  g[U] = h[U]
<1> DEFINE C == {V \in SUBSET U : g[V] # h[V]}
<1>1. SUFFICES ASSUME C # {} PROVE FALSE
  OBVIOUS
<1>2. \A V \in C : V \subseteq U /\ IsFiniteSet(V)
  BY FS_Subset
<1>3. PICK V \in C : \A W \in C : W \subseteq V => W = V
  <2>1. C \in SUBSET SUBSET U
    OBVIOUS
  <2> HIDE DEF C
  <2> QED BY <1>1, <2>1, SmallestSet
<1>4. V \in SUBSET S /\ V \in SUBSET T
  OBVIOUS
<1>5. /\ g[V] = IF V = {} THEN 0 ELSE f[First(V)] + g[V \ {First(V)}]
      /\ h[V] = IF V = {} THEN 0 ELSE f[First(V)] + h[V \ {First(V)}]
  BY <1>4, Zenon DEF Sums
<1>6. V # {}
  BY <1>5
<1>7. V \ {First(V)} \notin C
  BY <1>3, <1>6, FirstIn
<1>8. g[V \ {First(V)}] = h[V \ {First(V)}]
  BY <1>7
<1> QED BY <1>5, <1>8

\* There is one, on every finite set.
LEMMA SumsExist ==
    ASSUME NEW f, NEW S, IsFiniteSet(S)
    PROVE  \E g : Sums(g, f, S)
<1> DEFINE C == {V \in SUBSET S : ~\E g : Sums(g, f, V)}
<1>1. SUFFICES ASSUME C # {} PROVE FALSE
  OBVIOUS
<1>2. \A V \in C : V \subseteq S /\ IsFiniteSet(V)
  BY FS_Subset
<1>3. PICK V \in C : \A W \in C : W \subseteq V => W = V
  <2>1. C \in SUBSET SUBSET S
    OBVIOUS
  <2> HIDE DEF C
  <2> QED BY <1>1, <2>1, SmallestSet
<1> DEFINE G(W) == CHOOSE g : Sums(g, f, W)
           rest(W) == W \ {First(W)}
           h == [s \in SUBSET V |->
                    IF s = {} THEN 0 ELSE f[First(s)] + G(rest(s))[rest(s)]]
<1>4. \A W \in SUBSET V : W # V => Sums(G(W), f, W)
  BY <1>3
<1>5. \A W \in SUBSET V : W # {} =>
          rest(W) \in SUBSET V /\ rest(W) # V /\ IsFiniteSet(rest(W))
  BY <1>2, FirstIn, FS_Subset
<1>6. \A W \in SUBSET V : W # V => h[W] = G(W)[W]
  <2> SUFFICES ASSUME NEW W \in SUBSET V, W # V PROVE h[W] = G(W)[W]
    OBVIOUS
  <2>0. Sums(G(W), f, W)
    BY <1>4
  <2>1. G(W)[W] = IF W = {} THEN 0 ELSE f[First(W)] + G(W)[rest(W)]
    <3> HIDE DEF G
    <3> QED BY <2>0, Zenon DEF Sums
  <2>2. CASE W = {}
    BY <2>1, <2>2
  <2>3. CASE W # {}
    <3>1. Sums(G(W), f, W) /\ Sums(G(rest(W)), f, rest(W))
      BY <1>4, <1>5, <2>3
    <3>2. rest(W) \subseteq W /\ IsFiniteSet(rest(W))
      BY <1>5, <2>3
    <3> HIDE DEF G
    <3>3. G(W)[rest(W)] = G(rest(W))[rest(W)]
      BY <3>1, <3>2, SumsAgree
    <3>4. h[W] = f[First(W)] + G(rest(W))[rest(W)]
      BY <2>3
    <3> QED BY <2>1, <2>3, <3>3, <3>4
  <2> QED BY <2>2, <2>3
<1>7. \A s \in SUBSET V : s # {} => h[rest(s)] = G(rest(s))[rest(s)]
  BY <1>5, <1>6
<1>8. h = [s \in SUBSET V |-> IF s = {} THEN 0 ELSE f[First(s)] + h[rest(s)]]
  <2> DEFINE k == [s \in SUBSET V |-> IF s = {} THEN 0 ELSE f[First(s)] + h[rest(s)]]
  <2>1. \A s \in SUBSET V : h[s] = k[s]
    <3> SUFFICES ASSUME NEW s \in SUBSET V PROVE h[s] = k[s]
      OBVIOUS
    <3>1. CASE s = {}
      BY <3>1
    <3>2. CASE s # {}
      <4>1. h[rest(s)] = G(rest(s))[rest(s)]
        BY <1>7, <3>2
      <4>2. h[s] = f[First(s)] + G(rest(s))[rest(s)]
        BY <3>2
      <4>3. k[s] = f[First(s)] + h[rest(s)]
        BY <3>2
      <4> HIDE DEF h, k, G, rest
      <4> QED BY <4>1, <4>2, <4>3
    <3> QED BY <3>1, <3>2
  <2>2. h = [s \in SUBSET V |-> h[s]] /\ k = [s \in SUBSET V |-> k[s]]
    OBVIOUS
  <2> HIDE DEF h, k
  <2>3. h = k
    BY <2>1, <2>2
  <2> QED BY <2>3 DEF k
<1>9. Sums(h, f, V)
  <2> HIDE DEF h
  <2> QED BY <1>8 DEF Sums
<1> QED BY <1>3, <1>9

\* The sum of nothing, and of a set by its first element.
LEMMA SumUnfolds ==
    ASSUME NEW f, NEW S, IsFiniteSet(S)
    PROVE  SumFunctionOnSet(f, S) =
              IF S = {} THEN 0 ELSE f[First(S)] + SumFunctionOnSet(f, S \ {First(S)})
<1> DEFINE G(W) == CHOOSE g : Sums(g, f, W)
           T == S \ {First(S)}
<1>1. IsFiniteSet(T) /\ T \subseteq S
  BY FS_Subset
<1>2. Sums(G(S), f, S) /\ Sums(G(T), f, T)
  BY <1>1, SumsExist
<1>3. SumFunctionOnSet(f, S) = G(S)[S] /\ SumFunctionOnSet(f, T) = G(T)[T]
  BY SumIsChoice
<1> HIDE DEF G
<1>4. G(S)[T] = G(T)[T]
  BY <1>1, <1>2, SumsAgree
<1>5. G(S)[S] = IF S = {} THEN 0 ELSE f[First(S)] + G(S)[T]
  BY <1>2, Zenon DEF Sums
<1> QED BY <1>3, <1>4, <1>5

-----------------------------------------------------------------------------

\* The empty sum.
LEMMA SumEmpty == ASSUME NEW f PROVE SumFunctionOnSet(f, {}) = 0
BY SumUnfolds, FS_EmptySet

\* The sum over one element.
LEMMA SumSingle ==
    ASSUME NEW f, NEW y, f[y] \in Nat
    PROVE  SumFunctionOnSet(f, {y}) = f[y]
<1>1. First({y}) = y /\ {y} \ {y} = {} /\ IsFiniteSet({y})
  BY FirstIn, FS_Singleton
<1>2. SumFunctionOnSet(f, {y}) = f[y] + SumFunctionOnSet(f, {})
  BY <1>1, SumUnfolds
<1> QED BY <1>2, SumEmpty

\* Sums of integers are integers, of natural numbers natural.
LEMMA SumType ==
    ASSUME NEW f, NEW S, IsFiniteSet(S), NEW N \in {Nat, Int}, \A x \in S : f[x] \in N
    PROVE  SumFunctionOnSet(f, S) \in N
<1> DEFINE C == {V \in SUBSET S : SumFunctionOnSet(f, V) \notin N}
<1>1. SUFFICES ASSUME C # {} PROVE FALSE
  OBVIOUS
<1>2. \A V \in C : V \subseteq S /\ IsFiniteSet(V)
  BY FS_Subset
<1>3. PICK V \in C : \A W \in C : W \subseteq V => W = V
  <2>1. C \in SUBSET SUBSET S
    OBVIOUS
  <2> HIDE DEF C
  <2> QED BY <1>1, <2>1, SmallestSet
<1> DEFINE x == First(V)
           W == V \ {x}
<1>4. SumFunctionOnSet(f, V) = IF V = {} THEN 0 ELSE f[x] + SumFunctionOnSet(f, W)
  BY <1>2, SumUnfolds
<1>5. V # {}
  BY <1>4
<1>6. x \in V /\ W \in SUBSET S /\ W \notin C
  BY <1>3, <1>5, FirstIn
<1>7. SumFunctionOnSet(f, W) \in N /\ f[x] \in N
  BY <1>6
<1> HIDE DEF x, W
<1>8. SumFunctionOnSet(f, V) \in N
  BY <1>4, <1>5, <1>7
<1> QED BY <1>8

\* Any element may be taken out first.
LEMMA SumRemove ==
    ASSUME NEW f, NEW S, IsFiniteSet(S), \A x \in S : f[x] \in Int, NEW y \in S
    PROVE  SumFunctionOnSet(f, S) = f[y] + SumFunctionOnSet(f, S \ {y})
<1> DEFINE Sum(V) == SumFunctionOnSet(f, V)
           C == {V \in SUBSET S : \E z \in V : Sum(V) # f[z] + Sum(V \ {z})}
<1>1. SUFFICES ASSUME C # {} PROVE FALSE
  OBVIOUS
<1>2. \A V \in C : V \subseteq S /\ IsFiniteSet(V)
  BY FS_Subset
<1>3. PICK V \in C : \A W \in C : W \subseteq V => W = V
  <2>1. C \in SUBSET SUBSET S
    OBVIOUS
  <2> HIDE DEF C
  <2> QED BY <1>1, <2>1, SmallestSet
<1>4. PICK z \in V : Sum(V) # f[z] + Sum(V \ {z})
  BY <1>3
<1> DEFINE x == First(V)
<1>5. x \in V /\ V \subseteq S /\ IsFiniteSet(V)
  BY <1>2, <1>4, FirstIn
<1>6. Sum(V) = f[x] + Sum(V \ {x})
  BY <1>4, <1>5, SumUnfolds
<1>7. x # z
  BY <1>4, <1>6
<1>8. /\ V \ {x} \in SUBSET S /\ V \ {x} \notin C /\ z \in V \ {x}
      /\ V \ {z} \in SUBSET S /\ V \ {z} \notin C /\ x \in V \ {z}
  BY <1>3, <1>5, <1>7
<1>9. /\ Sum(V \ {x}) = f[z] + Sum((V \ {x}) \ {z})
      /\ Sum(V \ {z}) = f[x] + Sum((V \ {z}) \ {x})
  BY <1>8
<1>10. (V \ {x}) \ {z} = (V \ {z}) \ {x}
  OBVIOUS
<1>11. f[x] \in Int /\ f[z] \in Int /\ Sum((V \ {x}) \ {z}) \in Int
  <2>1. IsFiniteSet((V \ {x}) \ {z}) /\ (V \ {x}) \ {z} \subseteq S
    BY <1>5, FS_Subset
  <2> QED BY <1>5, <2>1, SumType
<1>12. Sum(V) # f[z] + Sum(V \ {z})
  BY <1>4
<1>13. Sum((V \ {z}) \ {x}) = Sum((V \ {x}) \ {z})
  BY <1>10
<1> HIDE DEF x, Sum, C
<1> QED BY <1>6, <1>9, <1>11, <1>12, <1>13

\* A sum depends on the values it adds only.
LEMMA SumSame ==
    ASSUME NEW f, NEW g, NEW S, IsFiniteSet(S), \A x \in S : f[x] = g[x]
    PROVE  SumFunctionOnSet(f, S) = SumFunctionOnSet(g, S)
<1> DEFINE C == {V \in SUBSET S : SumFunctionOnSet(f, V) # SumFunctionOnSet(g, V)}
<1>1. SUFFICES ASSUME C # {} PROVE FALSE
  OBVIOUS
<1>2. \A V \in C : V \subseteq S /\ IsFiniteSet(V)
  BY FS_Subset
<1>3. PICK V \in C : \A W \in C : W \subseteq V => W = V
  <2>1. C \in SUBSET SUBSET S
    OBVIOUS
  <2> HIDE DEF C
  <2> QED BY <1>1, <2>1, SmallestSet
<1> DEFINE x == First(V)
           W == V \ {x}
<1>4. /\ SumFunctionOnSet(f, V) = IF V = {} THEN 0 ELSE f[x] + SumFunctionOnSet(f, W)
      /\ SumFunctionOnSet(g, V) = IF V = {} THEN 0 ELSE g[x] + SumFunctionOnSet(g, W)
  BY <1>2, SumUnfolds
<1>5. V # {}
  BY <1>4
<1>6. x \in V /\ W \in SUBSET S /\ W \notin C
  BY <1>3, <1>5, FirstIn
<1>7. SumFunctionOnSet(f, W) = SumFunctionOnSet(g, W) /\ f[x] = g[x]
  BY <1>6
<1> HIDE DEF x, W
<1> QED BY <1>4, <1>5, <1>7

\* One element more.
LEMMA SumAdd ==
    ASSUME NEW f, NEW S, IsFiniteSet(S), NEW y, y \notin S,
           \A x \in S \cup {y} : f[x] \in Int
    PROVE  SumFunctionOnSet(f, S \cup {y}) = SumFunctionOnSet(f, S) + f[y]
<1>1. IsFiniteSet(S \cup {y}) /\ (S \cup {y}) \ {y} = S
  BY FS_AddElement
<1>2. SumFunctionOnSet(f, S \cup {y}) = f[y] + SumFunctionOnSet(f, S)
  BY <1>1, SumRemove
<1>3. SumFunctionOnSet(f, S) \in Int
  BY SumType
<1> QED BY <1>2, <1>3

\* Two sets without a common element.
LEMMA SumOfUnion ==
    ASSUME NEW f, NEW S, NEW T, IsFiniteSet(S), IsFiniteSet(T), S \cap T = {},
           \A x \in S \cup T : f[x] \in Int
    PROVE  SumFunctionOnSet(f, S \cup T) = SumFunctionOnSet(f, S) + SumFunctionOnSet(f, T)
<1> DEFINE Sum(V) == SumFunctionOnSet(f, V)
           C == {V \in SUBSET T : Sum(S \cup V) # Sum(S) + Sum(V)}
<1>1. SUFFICES ASSUME C # {} PROVE FALSE
  OBVIOUS
<1>2. \A V \in C : V \subseteq T /\ IsFiniteSet(V)
  BY FS_Subset
<1>3. PICK V \in C : \A W \in C : W \subseteq V => W = V
  <2>1. C \in SUBSET SUBSET T
    OBVIOUS
  <2> HIDE DEF C
  <2> QED BY <1>1, <2>1, SmallestSet
<1>4. Sum({}) = 0 /\ S \cup {} = S /\ Sum(S) \in Int
  BY SumEmpty, SumType
<1>5. V # {}
  <2>1. Sum(S \cup V) # Sum(S) + Sum(V)
    BY <1>3
  <2> HIDE DEF Sum, C
  <2>2. SUFFICES ASSUME V = {} PROVE FALSE
    OBVIOUS
  <2> QED BY <2>1, <2>2, <1>4
<1>6. PICK y \in V : TRUE
  BY <1>5
<1> DEFINE W == V \ {y}
<1>7. /\ W \in SUBSET T /\ W \notin C /\ y \notin S /\ y \in T
      /\ IsFiniteSet(W) /\ IsFiniteSet(V) /\ IsFiniteSet(S \cup W)
      /\ y \notin W /\ V = W \cup {y} /\ S \cup V = (S \cup W) \cup {y}
  <2>1. V \subseteq T /\ IsFiniteSet(V) /\ y \in V
    BY <1>2, <1>6
  <2>2. IsFiniteSet(W) /\ IsFiniteSet(S \cup W)
    BY <2>1, FS_Subset, FS_Union
  <2>3. W \notin C
    <3> HIDE DEF C
    <3> QED BY <1>3, <2>1
  <2> HIDE DEF C
  <2> QED BY <2>1, <2>2, <2>3
<1>8. Sum(S \cup W) = Sum(S) + Sum(W)
  BY <1>7
<1> HIDE DEF W
<1>9. Sum(V) = Sum(W) + f[y] /\ Sum(S \cup V) = Sum(S \cup W) + f[y]
  <2>1. /\ \A x \in W \cup {y} : f[x] \in Int
        /\ \A x \in (S \cup W) \cup {y} : f[x] \in Int
        /\ y \notin S \cup W
    BY <1>7
  <2>2. Sum(W \cup {y}) = Sum(W) + f[y]
    BY <1>7, <2>1, SumAdd
  <2>3. Sum((S \cup W) \cup {y}) = Sum(S \cup W) + f[y]
    BY <1>7, <2>1, SumAdd
  <2> QED BY <1>7, <2>2, <2>3
<1>10. Sum(W) \in Int /\ f[y] \in Int
  BY <1>7, SumType
<1> HIDE DEF Sum
<1>11. Sum(S \cup V) = Sum(S) + Sum(V)
  BY <1>4, <1>8, <1>9, <1>10
<1> QED BY <1>3, <1>11

\* A sum over the same numbers and one more.
LEMMA SumGrows ==
    ASSUME NEW f, NEW g, NEW S, IsFiniteSet(S), \A x \in S : f[x] \in Int /\ g[x] = f[x],
           NEW y, y \notin S, g[y] \in Int
    PROVE  SumFunctionOnSet(g, S \cup {y}) = SumFunctionOnSet(f, S) + g[y]
<1>1. SumFunctionOnSet(f, S) = SumFunctionOnSet(g, S)
  BY SumSame
<1>2. \A x \in S \cup {y} : g[x] \in Int
  OBVIOUS
<1> QED BY <1>1, <1>2, SumAdd

\* A sum less one of its terms.
LEMMA SumShrinks ==
    ASSUME NEW f, NEW S, IsFiniteSet(S), \A x \in S : f[x] \in Int, NEW y \in S
    PROVE  SumFunctionOnSet(f, S \ {y}) = SumFunctionOnSet(f, S) - f[y]
<1>1. SumFunctionOnSet(f, S) = f[y] + SumFunctionOnSet(f, S \ {y})
  BY SumRemove
<1>2. SumFunctionOnSet(f, S \ {y}) \in Int
  <2>1. IsFiniteSet(S \ {y}) /\ \A x \in S \ {y} : f[x] \in Int
    BY FS_RemoveElement
  <2> QED BY <2>1, SumType
<1> QED BY <1>1, <1>2

\* A sum with one of its terms changed.
LEMMA SumUpdate ==
    ASSUME NEW f, NEW g, NEW S, IsFiniteSet(S), \A x \in S : f[x] \in Int, NEW y \in S,
           g[y] \in Int, \A x \in S \ {y} : g[x] = f[x]
    PROVE  SumFunctionOnSet(g, S) = SumFunctionOnSet(f, S) - f[y] + g[y]
<1> DEFINE T == S \ {y}
<1>1. IsFiniteSet(T) /\ \A x \in T : f[x] \in Int
  BY FS_RemoveElement
<1>2. SumFunctionOnSet(f, T) = SumFunctionOnSet(g, T)
  BY <1>1, SumSame
<1>3. SumFunctionOnSet(f, S) = f[y] + SumFunctionOnSet(f, T)
  BY SumRemove
<1>4. \A x \in S : g[x] \in Int
  OBVIOUS
<1>5. SumFunctionOnSet(g, S) = g[y] + SumFunctionOnSet(g, T)
  BY <1>4, SumRemove
<1>6. SumFunctionOnSet(f, T) \in Int
  BY <1>1, SumType
<1> QED BY <1>2, <1>3, <1>5, <1>6

\* A sum over the same numbers under other names.
LEMMA SumRenamed ==
    ASSUME NEW f, NEW g, NEW S, IsFiniteSet(S), NEW h,
           \A x \in S : f[x] \in Int /\ g[h[x]] = f[x],
           \A x, y \in S : h[x] = h[y] => x = y
    PROVE  /\ IsFiniteSet({h[x] : x \in S})
           /\ SumFunctionOnSet(g, {h[x] : x \in S}) = SumFunctionOnSet(f, S)
<1> DEFINE Names(V) == {h[x] : x \in V}
           Right(V) == /\ IsFiniteSet(Names(V))
                       /\ SumFunctionOnSet(g, Names(V)) = SumFunctionOnSet(f, V)
           C == {V \in SUBSET S : ~Right(V)}
<1>1. SUFFICES ASSUME C # {} PROVE FALSE
  OBVIOUS
<1>2. \A V \in C : V \subseteq S /\ IsFiniteSet(V) /\ ~Right(V)
  BY FS_Subset
<1>3. PICK V \in C : \A W \in C : W \subseteq V => W = V
  <2>1. C \in SUBSET SUBSET S
    OBVIOUS
  <2> HIDE DEF C
  <2> QED BY <1>1, <2>1, SmallestSet
<1>4. V # {}
  <2>1. SUFFICES ASSUME V = {} PROVE Right(V)
    BY <1>2
  <2>2. Names(V) = {}
    BY <2>1
  <2> QED BY <2>1, <2>2, FS_EmptySet, SumEmpty
<1>5. PICK y \in V : TRUE
  BY <1>4
<1> DEFINE W == V \ {y}
<1>6. W \in SUBSET S /\ y \in S /\ y \notin W /\ V = W \cup {y} /\ W # V
  BY <1>2
<1>7. Right(W)
  BY <1>3, <1>6
<1>8. IsFiniteSet(W)
  BY <1>2, FS_RemoveElement
<1>9. Names(V) = Names(W) \cup {h[y]} /\ h[y] \notin Names(W)
  BY <1>6
<1>10. \A z \in Names(W) \cup {h[y]} : g[z] \in Int
  BY <1>6
<1>11. SumFunctionOnSet(f, V) = SumFunctionOnSet(f, W) + f[y]
  <2>1. \A x \in W \cup {y} : f[x] \in Int
    BY <1>6
  <2> HIDE DEF W
  <2> QED BY <1>6, <1>8, <2>1, SumAdd
<1>12. SumFunctionOnSet(g, Names(V)) = SumFunctionOnSet(g, Names(W)) + g[h[y]]
  <2> HIDE DEF Names, W
  <2> QED BY <1>7, <1>9, <1>10, SumAdd
<1>13. IsFiniteSet(Names(V))
  <2> HIDE DEF Names, W
  <2> QED BY <1>7, <1>9, FS_AddElement
<1>14. g[h[y]] = f[y]
  BY <1>6
<1>15. Right(V)
  <2> HIDE DEF Names, W
  <2> QED BY <1>7, <1>11, <1>12, <1>13, <1>14
<1> QED BY <1>2, <1>15

-----------------------------------------------------------------------------
(* Tables.                                                                 *)

\* An element of a table is a row.
LEMMA ElementOf ==
    ASSUME NEW S, NEW s \in Seq(S), NEW n \in DOMAIN s
    PROVE  s[n] \in S
OBVIOUS

\* Rows appended to a table.
LEMMA Joined ==
    ASSUME NEW S, NEW s \in Seq(S), NEW t \in Seq(S)
    PROVE  /\ s \o t \in Seq(S) /\ Len(s \o t) = Len(s) + Len(t)
           /\ Len(s) \in Nat /\ Len(t) \in Nat
           /\ \A i \in DOMAIN s : (s \o t)[i] = s[i]
           /\ \A i \in DOMAIN (s \o t) : i \notin DOMAIN s
                 => i - Len(s) \in DOMAIN t /\ (s \o t)[i] = t[i - Len(s)]
OBVIOUS

\* One row appended to a table.
LEMMA Appended ==
    ASSUME NEW S, NEW s \in Seq(S), NEW e \in S
    PROVE  /\ Append(s, e) \in Seq(S)
           /\ Len(s) \in Nat /\ DOMAIN s = 1..Len(s)
           /\ Len(Append(s, e)) = Len(s) + 1
           /\ DOMAIN Append(s, e) = DOMAIN s \cup {Len(s) + 1}
           /\ Len(s) + 1 \notin DOMAIN s
           /\ Append(s, e)[Len(s) + 1] = e
           /\ \A i \in DOMAIN s : Append(s, e)[i] = s[i]
OBVIOUS

\* A table of rows of a kind is one of rows of any wider kind.
LEMMA WiderSeq ==
    ASSUME NEW S, NEW T, S \subseteq T, NEW s \in Seq(S) PROVE s \in Seq(T)
OBVIOUS

\* Two rows appended at once, or one after the other.
LEMMA JoinPair ==
    ASSUME NEW S, NEW t \in Seq(S), NEW x \in S, NEW y \in S
    PROVE  t \o <<x, y>> = Append(Append(t, x), y)
<1>1. PICK p \in Seq(S) : p = <<x, y>> /\ Len(p) = 2 /\ p[1] = x /\ p[2] = y
  <2>1. <<x, y>> \in Seq(S)
    OBVIOUS
  <2> QED BY <2>1
<1>2. PICK n \in Nat : n = Len(t)
  OBVIOUS
<1> DEFINE u == t \o p
           v == Append(t, x)
           w == Append(v, y)
<1>3. /\ u \in Seq(S) /\ Len(u) = n + 2 /\ DOMAIN u = 1 .. n + 2
      /\ \A i \in 1 .. n : u[i] = t[i]
      /\ u[n + 1] = x /\ u[n + 2] = y
  <2>1. /\ u \in Seq(S) /\ Len(u) = Len(t) + Len(p)
        /\ \A i \in DOMAIN t : u[i] = t[i]
        /\ \A i \in DOMAIN u : i \notin DOMAIN t => i - Len(t) \in DOMAIN p /\ u[i] = p[i - Len(t)]
    BY <1>1, Joined
  <2> HIDE DEF u
  <2>2. DOMAIN t = 1 .. n /\ DOMAIN p = 1 .. 2 /\ Len(u) = n + 2
    BY <1>1, <1>2, <2>1
  <2>3. DOMAIN u = 1 .. n + 2
    BY <2>1, <2>2
  <2>4. n + 1 \in DOMAIN u /\ n + 2 \in DOMAIN u /\ n + 1 \notin DOMAIN t /\ n + 2 \notin DOMAIN t
        /\ (n + 1) - n = 1 /\ (n + 2) - n = 2
    BY <2>2, <2>3
  <2> QED BY <1>1, <1>2, <2>1, <2>2, <2>3, <2>4
<1>4. /\ v \in Seq(S) /\ Len(v) = n + 1
      /\ \A i \in 1 .. n : v[i] = t[i]
      /\ v[n + 1] = x
  BY <1>2
<1>5. /\ w \in Seq(S) /\ Len(w) = n + 2 /\ DOMAIN w = 1 .. n + 2
      /\ \A i \in 1 .. n : w[i] = t[i]
      /\ w[n + 1] = x /\ w[n + 2] = y
  <2> HIDE DEF v
  <2>1. w \in Seq(S) /\ Len(w) = n + 2 /\ DOMAIN w = 1 .. n + 2 /\ w[n + 2] = y
    BY <1>4
  <2>2. \A i \in 1 .. n + 1 : w[i] = v[i]
    BY <1>4
  <2> QED BY <1>4, <2>1, <2>2
<1> HIDE DEF u, v, w
<1>6. \A i \in 1 .. n + 2 : u[i] = w[i]
  BY <1>3, <1>5
<1>7. u = [i \in 1 .. n + 2 |-> u[i]] /\ w = [i \in 1 .. n + 2 |-> w[i]]
  BY <1>3, <1>5
<1>8. u = w
  BY <1>6, <1>7
<1> QED BY <1>1, <1>8 DEF u, v, w

\* One row of a table rewritten.
LEMMA Rewritten ==
    ASSUME NEW S, NEW s \in Seq(S), NEW i, NEW x, i \in DOMAIN s => x \in S
    PROVE  LET t == [s EXCEPT ![i] = x]
           IN /\ t \in Seq(S) /\ Len(t) = Len(s) /\ DOMAIN t = DOMAIN s
              /\ \A j \in DOMAIN s : t[j] = IF j = i THEN x ELSE s[j]
<1>1. CASE i \in DOMAIN s
  BY <1>1
<1>2. CASE i \notin DOMAIN s
  <2>1. [s EXCEPT ![i] = x] = s
    BY <1>2
  <2> QED BY <1>2, <2>1
<1> QED BY <1>1, <1>2

\* Every row of a table rewritten.
LEMMA Mapped ==
    ASSUME NEW S, NEW s \in Seq(S), NEW t, t = [i \in DOMAIN s |-> t[i]],
           \A i \in DOMAIN s : t[i] \in S
    PROVE  t \in Seq(S) /\ DOMAIN t = DOMAIN s /\ Len(t) = Len(s)
<1>1. Len(s) \in Nat /\ DOMAIN s = 1..Len(s)
  OBVIOUS
<1> QED BY <1>1

-----------------------------------------------------------------------------
(* Numbers and sequences the other modules meet.                           *)

\* A quotient of numbers.
LEMMA Quotient ==
    ASSUME NEW a \in Nat, NEW b \in Nat, b # 0
    PROVE  a \div b \in Nat
  OBVIOUS

\* The sign of a product.
LEMMA ProductSign ==
    ASSUME NEW v \in Int, NEW q \in Int, NEW p \in Nat, p # 0
    PROVE  /\ v * p \in Int /\ v * q \in Int
           /\ v >= 0 => v * p >= 0
           /\ v < 0 => v * p < 0
           /\ v > 0 /\ q < 0 => v * q < 0
           /\ v < 0 /\ q > 0 => v * q < 0
  OBVIOUS

\* A row after one row.
LEMMA AppendToOne ==
    ASSUME NEW S, NEW x \in S, NEW y \in S, NEW s \in Seq(S), s = <<x>>
    PROVE  /\ Append(s, y) \in Seq(S) /\ Len(Append(s, y)) = 2
           /\ Append(s, y)[1] = x /\ Append(s, y)[2] = y
  OBVIOUS

\* The first row of a table and the others.
LEMMA HeadAndTail ==
    ASSUME NEW S, NEW s \in Seq(S), s # <<>>
    PROVE  /\ Head(s) \in S /\ Tail(s) \in Seq(S) /\ Len(Tail(s)) = Len(s) - 1
           /\ Len(s) \in Nat \ {0} /\ Head(s) = s[1]
           /\ \A i \in 1 .. Len(s) - 1 : Tail(s)[i] = s[i + 1]
  OBVIOUS

\* A place behind the first m.
LEMMA BehindFirst ==
    ASSUME NEW m \in Nat, NEW n \in Nat, NEW k \in 1 .. m + n, k \notin 1 .. m
    PROVE  \E j \in 1 .. n : k = m + j
<1>1. k - m \in 1 .. n /\ k = m + (k - m)
  OBVIOUS
<1> QED BY <1>1

-----------------------------------------------------------------------------
(* The ledger.                                                             *)

\* The active entries an account is on one side of.
Debits(account)  == {i \in ActiveEntries : ledger[i].debit = account}
Credits(account) == {i \in ActiveEntries : ledger[i].credit = account}

\* The ledger is a finite table of entries.
LEMMA LedgerFinite ==
    ASSUME LedgerTypeOK
    PROVE  /\ Len(ledger) \in Nat /\ DOMAIN ledger = 1..Len(ledger)
           /\ IsFiniteSet(DOMAIN ledger)
           /\ \A i \in DOMAIN ledger : ledger[i] \in Entries /\ Amounts[i] = ledger[i].amount
                                         /\ Amounts[i] \in Nat
<1>1. Len(ledger) \in Nat /\ DOMAIN ledger = 1..Len(ledger)
  BY DEF LedgerTypeOK
<1>2. IsFiniteSet(1..Len(ledger))
  BY <1>1, FS_Interval
<1>3. \A i \in DOMAIN ledger : ledger[i] \in Entries
  BY DEF LedgerTypeOK
<1> QED BY <1>1, <1>2, <1>3 DEF Amounts, Entries

\* Totals are natural numbers.
LEMMA TotalType ==
    ASSUME LedgerTypeOK, NEW S \in SUBSET DOMAIN ledger
    PROVE  Total(S) \in Nat /\ IsFiniteSet(S)
<1>1. IsFiniteSet(S)
  BY LedgerFinite, FS_Subset
<1>2. \A i \in S : Amounts[i] \in Nat
  BY LedgerFinite
<1> QED BY <1>1, <1>2, SumType DEF Total

\* A balance is an integer.
LEMMA BalanceType ==
    ASSUME LedgerTypeOK, NEW account
    PROVE  Balance(account) \in Int
<1>1. Debits(account) \in SUBSET DOMAIN ledger /\ Credits(account) \in SUBSET DOMAIN ledger
  BY DEF Debits, Credits, ActiveEntries
<1>2. Total(Debits(account)) \in Nat /\ Total(Credits(account)) \in Nat
  BY <1>1, TotalType
<1> QED BY <1>2 DEF Balance, Debits, Credits

\* An entry that is posted leaves the totals of the earlier ones alone.
LEMMA PostKeepsTotals ==
    ASSUME LedgerTypeOK, NEW e \in Entries, Post(e), NEW S \in SUBSET DOMAIN ledger
    PROVE  /\ Total(S)' = Total(S)
           /\ \A T : T = S \cup {Len(ledger) + 1} => Total(T)' = Total(S) + e.amount
<1> DEFINE n == Len(ledger) + 1
<1>1. /\ n \in Nat /\ DOMAIN ledger = 1..Len(ledger) /\ n \notin S
      /\ LedgerTypeOK' /\ DOMAIN ledger' = 1..n
      /\ ledger'[n] = e /\ \A i \in DOMAIN ledger : ledger'[i] = ledger[i]
  BY LedgerFinite DEF LedgerTypeOK, Post
<1>2. IsFiniteSet(S)
  BY TotalType
<1>3. \A i \in S : Amounts[i] = Amounts'[i]
  BY <1>1 DEF Amounts
<1>4. SumFunctionOnSet(Amounts', S) = SumFunctionOnSet(Amounts, S)
  BY <1>2, <1>3, SumSame
<1>5. \A i \in S \cup {n} : Amounts'[i] \in Int
  <2>1. \A i \in DOMAIN ledger : Amounts[i] \in Nat
    BY LedgerFinite
  <2>2. \A i \in S : Amounts'[i] \in Int
    BY <1>3, <2>1
  <2>3. Amounts'[n] = e.amount /\ e.amount \in Int
    BY <1>1 DEF Amounts, Entries
  <2> QED BY <2>2, <2>3
<1>6. SumFunctionOnSet(Amounts', S \cup {n}) = SumFunctionOnSet(Amounts', S) + Amounts'[n]
  BY <1>1, <1>2, <1>5, SumAdd
<1>7. Amounts'[n] = e.amount
  BY <1>1 DEF Amounts
<1>8. SUFFICES ASSUME NEW T, T = S \cup {n}
               PROVE  Total(S)' = Total(S) /\ Total(T)' = Total(S) + e.amount
  OBVIOUS
<1>9. Total(S)' = SumFunctionOnSet(Amounts', S) /\ Total(S) = SumFunctionOnSet(Amounts, S)
  BY DEF Total
<1>10. Total(T)' = SumFunctionOnSet(Amounts', T)
  BY DEF Total
<1> QED BY <1>4, <1>6, <1>7, <1>8, <1>9, <1>10

\* What a posting does to a balance.
LEMMA PostMovesBalance ==
    ASSUME LedgerTypeOK, NEW e \in Entries, e.status = "active", Post(e), NEW account
    PROVE  Balance(account)' = Balance(account)
               + (IF e.debit = account THEN e.amount ELSE 0)
               - (IF e.credit = account THEN e.amount ELSE 0)
<1> DEFINE n == Len(ledger) + 1
<1>1. /\ n \in Nat /\ DOMAIN ledger = 1..Len(ledger) /\ DOMAIN ledger' = 1..n
      /\ ledger'[n] = e /\ \A i \in DOMAIN ledger : ledger'[i] = ledger[i]
  BY LedgerFinite DEF LedgerTypeOK, Post
<1>2. /\ Debits(account)' = Debits(account) \cup (IF e.debit = account THEN {n} ELSE {})
      /\ Credits(account)' = Credits(account) \cup (IF e.credit = account THEN {n} ELSE {})
  BY <1>1 DEF Debits, Credits, ActiveEntries
<1>3. /\ Debits(account) \in SUBSET DOMAIN ledger
      /\ Credits(account) \in SUBSET DOMAIN ledger
  BY DEF Debits, Credits, ActiveEntries
<1>4. /\ Total(Debits(account)) \in Nat /\ Total(Credits(account)) \in Nat
      /\ e.amount \in Nat
  BY <1>3, TotalType DEF Entries
<1>5. PICK D : D = Debits(account)'
  OBVIOUS
<1>6. PICK C : C = Credits(account)'
  OBVIOUS
<1>7. SumFunctionOnSet(Amounts', D) =
          Total(Debits(account)) + (IF e.debit = account THEN e.amount ELSE 0)
  <2>1. PICK S \in SUBSET DOMAIN ledger : S = Debits(account)
    BY <1>3
  <2>2. Total(S)' = Total(S) /\ \A T : T = S \cup {n} => Total(T)' = Total(S) + e.amount
    BY PostKeepsTotals
  <2>3. D = IF e.debit = account THEN S \cup {n} ELSE S
    BY <1>2, <1>5, <2>1
  <2>4. Total(D)' = SumFunctionOnSet(Amounts', D)
    BY DEF Total
  <2> HIDE DEF n
  <2>5. CASE e.debit = account
    <3>1. Total(D)' = Total(S) + e.amount
      BY <2>2, <2>3, <2>5
    <3> QED BY <2>1, <2>4, <2>5, <3>1
  <2>6. CASE e.debit # account
    <3>1. Total(D)' = Total(S)
      BY <2>2, <2>3, <2>6
    <3> QED BY <1>4, <2>1, <2>4, <2>6, <3>1
  <2> QED BY <2>5, <2>6
<1>8. SumFunctionOnSet(Amounts', C) =
          Total(Credits(account)) + (IF e.credit = account THEN e.amount ELSE 0)
  <2>1. PICK S \in SUBSET DOMAIN ledger : S = Credits(account)
    BY <1>3
  <2>2. Total(S)' = Total(S) /\ \A T : T = S \cup {n} => Total(T)' = Total(S) + e.amount
    BY PostKeepsTotals
  <2>3. C = IF e.credit = account THEN S \cup {n} ELSE S
    BY <1>2, <1>6, <2>1
  <2>4. Total(C)' = SumFunctionOnSet(Amounts', C)
    BY DEF Total
  <2> HIDE DEF n
  <2>5. CASE e.credit = account
    <3>1. Total(C)' = Total(S) + e.amount
      BY <2>2, <2>3, <2>5
    <3> QED BY <2>1, <2>4, <2>5, <3>1
  <2>6. CASE e.credit # account
    <3>1. Total(C)' = Total(S)
      BY <2>2, <2>3, <2>6
    <3> QED BY <1>4, <2>1, <2>4, <2>6, <3>1
  <2> QED BY <2>5, <2>6
<1>9. Balance(account)' = SumFunctionOnSet(Amounts', D) - SumFunctionOnSet(Amounts', C)
  BY <1>5, <1>6 DEF Balance, Total, Debits, Credits
<1>10. Balance(account) = Total(Debits(account)) - Total(Credits(account))
  BY DEF Balance, Debits, Credits
<1> QED BY <1>4, <1>7, <1>8, <1>9, <1>10

\* A balance does not change with entries of other accounts.
LEMMA SameBalance ==
    ASSUME LedgerTypeOK, NEW account, Debits(account)' = Debits(account),
           Credits(account)' = Credits(account), DOMAIN ledger \subseteq DOMAIN ledger',
           \A e \in DOMAIN ledger : ledger'[e].amount = ledger[e].amount
    PROVE  Balance(account)' = Balance(account)
<1>1. PICK D : D = Debits(account)
  OBVIOUS
<1>2. PICK C : C = Credits(account)
  OBVIOUS
<1>3. D \subseteq DOMAIN ledger /\ C \subseteq DOMAIN ledger
  BY <1>1, <1>2 DEF Debits, Credits, ActiveEntries
<1>4. \A e \in DOMAIN ledger : Amounts'[e] = Amounts[e]
  BY DEF Amounts
<1>5. SumFunctionOnSet(Amounts', D) = SumFunctionOnSet(Amounts, D)
  <2>1. IsFiniteSet(D) /\ \A e \in D : Amounts[e] = Amounts'[e]
    BY <1>3, <1>4, TotalType
  <2> QED BY <2>1, SumSame
<1>6. SumFunctionOnSet(Amounts', C) = SumFunctionOnSet(Amounts, C)
  <2>1. IsFiniteSet(C) /\ \A e \in C : Amounts[e] = Amounts'[e]
    BY <1>3, <1>4, TotalType
  <2> QED BY <2>1, SumSame
<1>7. Balance(account) = SumFunctionOnSet(Amounts, D) - SumFunctionOnSet(Amounts, C)
  BY <1>1, <1>2 DEF Balance, Total, Debits, Credits
<1>8. Balance(account)' = SumFunctionOnSet(Amounts', D) - SumFunctionOnSet(Amounts', C)
  BY <1>1, <1>2 DEF Balance, Total, Debits, Credits
<1> QED BY <1>5, <1>6, <1>7, <1>8

=============================================================================
