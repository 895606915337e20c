------------------------ MODULE OrdersDocumentsProofs ------------------------
(***************************************************************************)
(* Proofs about OrdersDocuments and its ledgers, for any number of         *)
(* attempts, requests, items and documents: the types of every table; that *)
(* the advisory locks are taken in one order, so that no deadlock arises   *)
(* without the correction of a registration; that the balances a           *)
(* transaction read under its locks are current when it writes, so that    *)
(* both ledgers chain; that what it found out about a document is still    *)
(* true then, so that the last prices follow; that the effect of every     *)
(* document in both ledgers is that of its status; and that a request that *)
(* was carried out is not refused when it comes again.  The first half     *)
(* describes what the folds of a posting, the sequences of locks and the   *)
(* records of a request are; the second takes the steps one by one.  The   *)
(* invariants and the terms of the lemmas are those of OrdersInvariants.   *)
(***************************************************************************)
EXTENDS OrdersInvariants, FiniteSetTheorems, WellFoundedInduction, TLAPS

\* The lemmas about sums and sequences need no ledger.
Sums == INSTANCE LedgerProofs WITH Accounts <- {}, ledger <- <<>>

LEMMA SameFinite == ASSUME NEW S PROVE Sums!IsFiniteSet(S) <=> IsFiniteSet(S)
  BY DEF IsFiniteSet, Sums!IsFiniteSet

LEMMA SameSum ==
    ASSUME NEW f, NEW S PROVE Sums!SumFunctionOnSet(f, S) = SumFunctionOnSet(f, S)
  BY DEF SumFunctionOnSet, FoldFunctionOnSet, MapThenFoldSet,
         Sums!SumFunctionOnSet, Sums!FoldFunctionOnSet, Sums!MapThenFoldSet

LEMMA SmallestSet ==
    ASSUME NEW S, IsFiniteSet(S), NEW C, Family(C, S)
    PROVE  \E T \in C : \A U \in C : U \subseteq T => U = T
  BY Sums!SmallestSet, SameFinite DEF Family

\* A finite set of numbers has a largest one.
LEMMA LargestNumber ==
    ASSUME NEW S \in SUBSET Nat, IsFiniteSet(S), S # {}
    PROVE  Max(S) \in S /\ \A m \in S : m <= Max(S)
<1>1. PICK n \in S : \A m \in S : m <= n
  BY Sums!LargestNumber, SameFinite
<1>2. \E k \in S : \A m \in S : k >= m
  BY <1>1
<1> QED BY <1>2 DEF Max

--------------------
\* Sets of numbers in order.

\* An injective count of the elements of a finite set takes every value below
\* their number.
LEMMA RankOnto ==
    ASSUME NEW S, IsFiniteSet(S), NEW rank \in [S -> 0 .. Cardinality(S) - 1],
           \A i, j \in S : rank[i] = rank[j] => i = j
    PROVE  \A n \in 1 .. Cardinality(S) : \E i \in S : rank[i] = n - 1
<1> DEFINE T == 0 .. Cardinality(S) - 1
<1>1. Cardinality(S) \in Nat
  BY FS_CardinalityType
<1>2. IsFiniteSet(T) /\ Cardinality(T) = Cardinality(S)
  BY <1>1, FS_Interval
<1>3. rank \in Injection(S, T)
  BY DEF Injection, IsInjective
<1>4. rank \in Surjection(S, T)
  BY <1>2, <1>3, FS_Injection
<1> QED BY <1>1, <1>4 DEF Surjection

\* A sequence that takes the elements of a finite set by the number of those
\* before them lists the set in order.
LEMMA SortedLists ==
    ASSUME NEW S \in SUBSET Nat, IsFiniteSet(S), NEW before, NEW s, Sorted(s, S, before)
    PROVE  Lists(s, S) /\ \A m, n \in DOMAIN s : m < n => s[n] \notin before[s[m]]
<1> DEFINE c == Cardinality(S)
           rank == [i \in S |-> Cardinality(before[i])]
<1>1. \A i \in S : IsFiniteSet(before[i]) /\ Cardinality(before[i]) \in 0 .. c - 1
  <2> SUFFICES ASSUME NEW i \in S
               PROVE  IsFiniteSet(before[i]) /\ Cardinality(before[i]) \in 0 .. c - 1
    OBVIOUS
  <2>1. IsFiniteSet(S \ {i}) /\ Cardinality(S \ {i}) = c - 1 /\ c \in Nat
    BY FS_RemoveElement, FS_CardinalityType
  <2>2. IsFiniteSet(before[i]) /\ Cardinality(before[i]) <= c - 1
    BY <2>1, FS_Subset DEF Sorted
  <2> QED BY <2>1, <2>2, FS_CardinalityType
<1>2. \A i, j \in S : i \in before[j] => rank[i] < rank[j]
  BY <1>1, FS_Subset DEF Sorted
<1>3. rank \in [S -> 0 .. c - 1]
  BY <1>1
<1> HIDE DEF rank
<1>4. \A i, j \in S : rank[i] = rank[j] => i = j
  BY <1>2, <1>3 DEF Sorted
<1>5. \A n \in 1 .. c : \E i \in S : rank[i] = n - 1
  BY <1>3, <1>4, RankOnto
<1>6. DOMAIN s = 1 .. c /\ c \in Nat
  BY FS_CardinalityType DEF Sorted
<1>7. \A n \in 1 .. c : s[n] \in S /\ rank[s[n]] = n - 1
  BY <1>5, <1>6 DEF Sorted, rank
<1> HIDE DEF c
<1>8. \A i \in S : \E n \in 1 .. c : s[n] = i
  <2> SUFFICES ASSUME NEW i \in S PROVE \E n \in 1 .. c : s[n] = i
    OBVIOUS
  <2>1. PICK n \in 1 .. c : n - 1 = rank[i]
    <3>1. rank[i] \in 0 .. c - 1 /\ rank[i] + 1 \in 1 .. c /\ (rank[i] + 1) - 1 = rank[i]
      BY <1>3, <1>6
    <3> QED BY <3>1
  <2> QED BY <1>4, <1>7, <2>1
<1>9. \A m, n \in 1 .. c : s[m] = s[n] => m - 1 = n - 1
  BY <1>7
<1>10. \A m, n \in 1 .. c : m < n => s[n] \notin before[s[m]]
  <2> SUFFICES ASSUME NEW m \in 1 .. c, NEW n \in 1 .. c, m < n, s[n] \in before[s[m]] PROVE FALSE
    OBVIOUS
  <2>1. n - 1 < m - 1
    BY <1>2, <1>7
  <2> QED BY <1>6, <2>1
<1> QED BY <1>6, <1>7, <1>8, <1>9, <1>10 DEF Lists, c

LEMMA UpwardsLists ==
    ASSUME NEW S \in SUBSET Nat, IsFiniteSet(S)
    PROVE  /\ Lists(Upwards(S), S)
           /\ \A m, n \in DOMAIN Upwards(S) : m < n => Upwards(S)[m] < Upwards(S)[n]
<1> DEFINE up == Upwards(S)
<1>1. PICK before : before = [i \in S |-> {j \in S : j < i}]
  OBVIOUS
<1>2. \A n \in 1 .. Cardinality(S) : up[n] = CHOOSE i \in S : Cardinality({j \in S : j < i}) = n - 1
  BY DEF Upwards
<1>3. DOMAIN up = 1 .. Cardinality(S) /\ \A i \in S : before[i] = {j \in S : j < i}
  BY <1>1 DEF Upwards
<1> HIDE DEF up
<1>4. Sorted(up, S, before)
  <2>1. ASSUME NEW i \in S, NEW j \in S, i \in before[j], NEW k \in before[i] PROVE k \in before[j]
    <3>1. i < j /\ k < i /\ k \in S /\ i \in Nat /\ j \in Nat
      BY <1>3, <2>1
    <3>2. k \in Nat
      BY <3>1
    <3>3. k < j
      BY <3>1, <3>2
    <3> QED BY <1>3, <3>1, <3>3
  <2>3. \A i, j \in S : i \in before[j] => before[i] \subseteq before[j]
    BY <2>1
  <2>4. \A i \in S : before[i] \subseteq S \ {i}
    BY <1>3
  <2>5. \A i, j \in S : i # j => i \in before[j] \/ j \in before[i]
    BY <1>3
  <2>2. ASSUME NEW n \in DOMAIN up, NEW i \in S, Cardinality(before[i]) = n - 1
        PROVE  up[n] \in S /\ Cardinality(before[up[n]]) = n - 1
    BY <1>2, <1>3, <2>2
  <2> QED BY <1>3, <2>2, <2>3, <2>4, <2>5 DEF Sorted
<1>5. Lists(up, S) /\ \A m, n \in DOMAIN up : m < n => up[n] \notin before[up[m]]
  BY <1>4, SortedLists
<1>6. \A m, n \in DOMAIN up : up[m] = up[n] => m = n
  BY <1>5 DEF Lists
<1>7. \A n \in DOMAIN up : n \in Nat /\ up[n] \in S
  BY <1>5, <1>3 DEF Lists
<1>8. \A n \in DOMAIN up : up[n] \in Nat
  BY <1>7
<1> QED BY <1>3, <1>5, <1>6, <1>7, <1>8 DEF up

LEMMA DownwardsLists ==
    ASSUME NEW S \in SUBSET Nat, IsFiniteSet(S)
    PROVE  Lists(Downwards(S), S)
<1> DEFINE down == Downwards(S)
<1>1. PICK before : before = [i \in S |-> {j \in S : j > i}]
  OBVIOUS
<1>2. \A n \in 1 .. Cardinality(S) : down[n] = CHOOSE i \in S : Cardinality({j \in S : j > i}) = n - 1
  BY DEF Downwards
<1>3. DOMAIN down = 1 .. Cardinality(S) /\ \A i \in S : before[i] = {j \in S : j > i}
  BY <1>1 DEF Downwards
<1> HIDE DEF down
<1>4. Sorted(down, S, before)
  <2>1. ASSUME NEW i \in S, NEW j \in S, i \in before[j], NEW k \in before[i] PROVE k \in before[j]
    <3>1. i > j /\ k > i /\ k \in S /\ i \in Nat /\ j \in Nat
      BY <1>3, <2>1
    <3>2. k \in Nat
      BY <3>1
    <3>3. k > j
      BY <3>1, <3>2
    <3> QED BY <1>3, <3>1, <3>3
  <2>3. \A i, j \in S : i \in before[j] => before[i] \subseteq before[j]
    BY <2>1
  <2>4. \A i \in S : before[i] \subseteq S \ {i}
    BY <1>3
  <2>5. \A i, j \in S : i # j => i \in before[j] \/ j \in before[i]
    BY <1>3
  <2>2. ASSUME NEW n \in DOMAIN down, NEW i \in S, Cardinality(before[i]) = n - 1
        PROVE  down[n] \in S /\ Cardinality(before[down[n]]) = n - 1
    BY <1>2, <1>3, <2>2
  <2> QED BY <1>3, <2>2, <2>3, <2>4, <2>5 DEF Sorted
<1> QED BY <1>4, SortedLists DEF down

--------------------
\* Recursive functions: the folds of the postings, and the chains of
\* reversals.

\* A recursion whose rank falls at each step, and is bounded, has a function.
LEMMA RecursionExists ==
    ASSUME NEW kind, NEW seen, NEW D, NEW stop, NEW end, NEW next, NEW m, NEW rank,
           Falls(D, stop, next, rank), NEW top \in Nat, \A x \in D : rank[x] < top
    PROVE  \E g : Recursion(g, kind, seen, D, stop, end, next, m)
<1> DEFINE under(n) == {x \in D : rank[x] < n}
           C == {n \in Nat : ~\E g : Recursion(g, kind, seen, under(n), stop, end, next, m)}
<1>1. SUFFICES ASSUME C # {} PROVE FALSE
  BY <1>1
<1>2. PICK n \in C : \A k \in C : n <= k
  <2>1. C \in SUBSET Nat
    OBVIOUS
  <2> HIDE DEF C
  <2> QED BY <1>1, <2>1, Sums!SmallestNumber
<1>3. n \in Nat /\ ~\E g : Recursion(g, kind, seen, under(n), stop, end, next, m)
  OBVIOUS
<1>4. n # 0
  <2> SUFFICES ASSUME n = 0 PROVE FALSE
    OBVIOUS
  <2>1. under(n) = {}
    BY DEF Falls
  <2> DEFINE g == [x \in {} |-> x]
  <2>2. g = [x \in under(n) |-> IF x \in stop THEN end[x]
                               ELSE StepOf(kind, seen, g[next[x]], m[x])]
    BY <2>1
  <2> HIDE DEF g, under
  <2>3. Recursion(g, kind, seen, under(n), stop, end, next, m)
    BY <2>2 DEF Recursion
  <2> QED BY <1>3, <2>3
<1>5. PICK k \in Nat : k = n - 1 /\ k < n
  BY <1>3, <1>4
<1>6. k \notin C
  <2> HIDE DEF C
  <2> QED BY <1>2, <1>3, <1>5
<1>7. PICK g : Recursion(g, kind, seen, under(k), stop, end, next, m)
  BY <1>6
<1> DEFINE h == [x \in under(n) |-> IF x \in stop THEN end[x]
                                   ELSE StepOf(kind, seen, g[next[x]], m[x])]
<1>8. \A x \in under(n) : x \notin stop => next[x] \in under(k) /\ next[x] \in under(n)
  <2> SUFFICES ASSUME NEW x \in under(n), x \notin stop
               PROVE  next[x] \in under(k) /\ next[x] \in under(n)
    OBVIOUS
  <2>1. x \in D /\ rank[x] < n /\ rank[x] \in Nat
    BY DEF Falls
  <2>2. next[x] \in D /\ rank[next[x]] < rank[x] /\ rank[next[x]] \in Nat
    BY <2>1 DEF Falls
  <2>3. rank[next[x]] < k /\ rank[next[x]] < n
    BY <1>3, <1>5, <2>1, <2>2
  <2> QED BY <2>2, <2>3
<1>9. \A x \in under(k) : x \in under(n) /\ g[x] = h[x]
  <2> SUFFICES ASSUME NEW x \in under(k) PROVE x \in under(n) /\ g[x] = h[x]
    OBVIOUS
  <2>1. x \in under(n)
    BY <1>3, <1>5 DEF Falls
  <2>2. g[x] = IF x \in stop THEN end[x] ELSE StepOf(kind, seen, g[next[x]], m[x])
    <3> HIDE DEF under
    <3> QED BY <1>7, Zenon DEF Recursion
  <2>3. h[x] = IF x \in stop THEN end[x] ELSE StepOf(kind, seen, g[next[x]], m[x])
    <3> HIDE DEF under
    <3> QED BY <2>1
  <2> HIDE DEF h, under
  <2> QED BY <2>1, <2>2, <2>3
<1> DEFINE f == [x \in under(n) |-> IF x \in stop THEN end[x]
                                   ELSE StepOf(kind, seen, h[next[x]], m[x])]
<1>10. \A x \in under(n) : h[x] = f[x]
  <2> SUFFICES ASSUME NEW x \in under(n) PROVE h[x] = f[x]
    OBVIOUS
  <2> HIDE DEF under
  <2>1. CASE x \in stop
    BY <2>1
  <2>2. CASE x \notin stop
    <3>1. g[next[x]] = h[next[x]]
      <4> HIDE DEF h
      <4> QED BY <1>8, <1>9, <2>2
    <3>2. h[x] = StepOf(kind, seen, g[next[x]], m[x])
      BY <2>2
    <3>3. f[x] = StepOf(kind, seen, h[next[x]], m[x])
      <4> HIDE DEF h
      <4> QED BY <2>2
    <3> HIDE DEF h, f
    <3> QED BY <3>1, <3>2, <3>3
  <2> QED BY <2>1, <2>2
<1>11. h = f
  <2>1. h = [x \in under(n) |-> h[x]] /\ f = [x \in under(n) |-> f[x]]
    <3> HIDE DEF under
    <3> QED OBVIOUS
  <2> HIDE DEF h, f, under
  <2> QED BY <1>10, <2>1
<1>12. Recursion(h, kind, seen, under(n), stop, end, next, m)
  <2> HIDE DEF h, under
  <2> QED BY <1>11 DEF Recursion
<1> QED BY <1>3, <1>12

\* The value of a recursion at a point.
LEMMA RecursionValue ==
    ASSUME NEW g, NEW kind, NEW seen, NEW D, NEW stop, NEW end, NEW next, NEW m,
           Recursion(g, kind, seen, D, stop, end, next, m), NEW x \in D
    PROVE  g[x] = IF x \in stop THEN end[x] ELSE StepOf(kind, seen, g[next[x]], m[x])
  BY Zenon DEF Recursion

LEMMA PostedIsFold ==
    ASSUME NEW ms, NEW seen
    PROVE  Posted(ms, seen) = (CHOOSE g : StockFold(g, ms, seen))[DOMAIN ms].rows
  BY DEF Posted, FoldLeft, MapThenFoldSet, StockFold, StockStep

LEMMA FundsPostedIsFold ==
    ASSUME NEW ms, NEW seen
    PROVE  FundsPosted(ms, seen) = (CHOOSE g : FundsFold(g, ms, seen))[DOMAIN ms]
  BY DEF FundsPosted, FoldLeft, MapThenFoldSet, FundsFold, FundsStep

LEMMA FoldsExist ==
    ASSUME NEW ms, NEW n \in Nat, DOMAIN ms = 1 .. n, NEW seen
    PROVE  (\E g : StockFold(g, ms, seen)) /\ (\E g : FundsFold(g, ms, seen))
<1> DEFINE D == SUBSET DOMAIN ms
           stop == {{}}
           next == [s \in D |-> s \ {Max(s)}]
           m == [s \in D |-> ms[Max(s)]]
           rank == [s \in D |-> IF s = {} THEN 0 ELSE Max(s)]
<1>1. \A s \in D : s # {} => Max(s) \in s /\ Max(s) \in 1 .. n /\ \A i \in s : i <= Max(s)
  <2> SUFFICES ASSUME NEW s \in D, s # {}
               PROVE  Max(s) \in s /\ Max(s) \in 1 .. n /\ \A i \in s : i <= Max(s)
    OBVIOUS
  <2>1. s \in SUBSET (1 .. n)
    OBVIOUS
  <2>2. IsFiniteSet(1 .. n)
    BY FS_Interval
  <2>3. IsFiniteSet(s) /\ s \in SUBSET Nat
    BY <2>1, <2>2, FS_Subset
  <2>4. Max(s) \in s /\ \A i \in s : i <= Max(s)
    BY <2>3, LargestNumber
  <2> QED BY <2>1, <2>4
<1>2. Falls(D, stop, next, rank)
  <2> SUFFICES ASSUME NEW s \in D
               PROVE  rank[s] \in Nat /\ (s \notin stop => next[s] \in D /\ rank[next[s]] < rank[s])
    BY DEF Falls
  <2>1. CASE s = {}
    BY <2>1
  <2>2. CASE s # {}
    <3>1. rank[s] = Max(s) /\ Max(s) \in 1 .. n
      BY <1>1, <2>2
    <3>2. PICK t \in D : t = s \ {Max(s)} /\ next[s] = t
      OBVIOUS
    <3>3. CASE t = {}
      BY <3>1, <3>2, <3>3
    <3>4. CASE t # {}
      <4>1. Max(t) \in s /\ Max(t) # Max(s) /\ Max(t) \in 1 .. n /\ Max(t) <= Max(s)
        BY <1>1, <2>2, <3>2, <3>4
      <4>2. rank[t] = Max(t)
        BY <3>4
      <4> HIDE DEF rank, next
      <4>3. Max(t) < Max(s)
        BY <3>1, <4>1
      <4> QED BY <3>1, <3>2, <4>2, <4>3
    <3> QED BY <3>3, <3>4
  <2> QED BY <2>1, <2>2
<1>3. \A s \in D : rank[s] < n + 1
  <2> SUFFICES ASSUME NEW s \in D PROVE rank[s] < n + 1
    OBVIOUS
  <2>1. CASE s = {}
    BY <2>1
  <2>2. CASE s # {}
    BY <1>1, <2>2
  <2> QED BY <2>1, <2>2
<1>4. ASSUME NEW kind, NEW end
      PROVE  \E g : Recursion(g, kind, seen, D, stop, end, next, m)
  <2>1. n + 1 \in Nat
    OBVIOUS
  <2> HIDE DEF D, stop, next, rank, m
  <2> QED BY <1>2, <1>3, <2>1, RecursionExists
<1>5. \E g : StockFold(g, ms, seen)
  <2> DEFINE end == [s \in D |-> [rows |-> <<>>, balance |-> seen]]
  <2>1. PICK g : Recursion(g, "stock", seen, D, stop, end, next, m)
    <3> HIDE DEF D, stop, next, m, end
    <3> QED BY <1>4
  <2> DEFINE h == [s \in D |-> IF s = {} THEN [rows |-> <<>>, balance |-> seen]
                                ELSE StockStep(g[s \ {Max(s)}], ms[Max(s)])]
  <2>2. \A s \in D : g[s] = h[s]
    <3> SUFFICES ASSUME NEW s \in D PROVE g[s] = h[s]
      OBVIOUS
    <3>1. g[s] = IF s \in stop THEN end[s] ELSE StepOf("stock", seen, g[next[s]], m[s])
      <4> HIDE DEF D, stop, next, m, end
      <4> QED BY <2>1, RecursionValue
    <3>2. g[s] = IF s = {} THEN [rows |-> <<>>, balance |-> seen]
                 ELSE StockStep(g[s \ {Max(s)}], ms[Max(s)])
      BY <3>1 DEF StepOf
    <3> QED BY <3>2
  <2>3. g = [s \in D |-> g[s]] /\ h = [s \in D |-> h[s]]
    <3>1. g = [s \in D |-> IF s \in stop THEN end[s] ELSE StepOf("stock", seen, g[next[s]], m[s])]
      <4> HIDE DEF D, stop, next, m, end
      <4> QED BY <2>1 DEF Recursion
    <3> HIDE DEF D, stop, next, m, end
    <3> QED BY <3>1
  <2>4. g = h
    <3> HIDE DEF D, h
    <3> QED BY <2>2, <2>3
  <2> HIDE DEF stop, next, m, end
  <2> QED BY <2>4 DEF StockFold
<1>6. \E g : FundsFold(g, ms, seen)
  <2> DEFINE end == [s \in D |-> <<>>]
  <2>1. PICK g : Recursion(g, "funds", seen, D, stop, end, next, m)
    <3> HIDE DEF D, stop, next, m, end
    <3> QED BY <1>4
  <2> DEFINE h == [s \in D |-> IF s = {} THEN <<>>
                                ELSE FundsStep(seen, g[s \ {Max(s)}], ms[Max(s)])]
  <2>2. \A s \in D : g[s] = h[s]
    <3> SUFFICES ASSUME NEW s \in D PROVE g[s] = h[s]
      OBVIOUS
    <3>1. g[s] = IF s \in stop THEN end[s] ELSE StepOf("funds", seen, g[next[s]], m[s])
      <4> HIDE DEF D, stop, next, m, end
      <4> QED BY <2>1, RecursionValue
    <3>2. g[s] = IF s = {} THEN <<>> ELSE FundsStep(seen, g[s \ {Max(s)}], ms[Max(s)])
      BY <3>1 DEF StepOf
    <3> QED BY <3>2
  <2>3. g = [s \in D |-> g[s]] /\ h = [s \in D |-> h[s]]
    <3>1. g = [s \in D |-> IF s \in stop THEN end[s] ELSE StepOf("funds", seen, g[next[s]], m[s])]
      <4> HIDE DEF D, stop, next, m, end
      <4> QED BY <2>1 DEF Recursion
    <3> HIDE DEF D, stop, next, m, end
    <3> QED BY <3>1
  <2>4. g = h
    <3> HIDE DEF D, h
    <3> QED BY <2>2, <2>3
  <2> HIDE DEF stop, next, m, end
  <2> QED BY <2>4 DEF FundsFold
<1> QED BY <1>5, <1>6

LEMMA LastOfInterval ==
    ASSUME NEW k \in Nat, k # 0
    PROVE  Max(1 .. k) = k /\ (1 .. k) \ {k} = 1 .. k - 1
<1>1. k \in 1 .. k /\ \A i \in 1 .. k : k >= i
  OBVIOUS
<1>2. \A i \in 1 .. k : (\A j \in 1 .. k : i >= j) => i = k
  OBVIOUS
<1>3. Max(1 .. k) = k
  <2> DEFINE T == 1 .. k
  <2>1. k \in T /\ (\A i \in T : k >= i) /\ \A i \in T : (\A j \in T : i >= j) => i = k
    BY <1>1, <1>2
  <2> HIDE DEF T
  <2>2. Max(T) = k
    BY <2>1 DEF Max
  <2> QED BY <2>2 DEF T
<1> QED BY <1>3

LEMMA Runs ==
    ASSUME NEW ms, NEW n \in Nat, DOMAIN ms = 1 .. n, NEW seen
    PROVE  /\ \E acc : StockRun(acc, ms, seen, n) /\ Posted(ms, seen) = acc[n].rows
           /\ \E acc : FundsRun(acc, ms, seen, n) /\ FundsPosted(ms, seen) = acc[n]
<1>1. PICK g : StockFold(g, ms, seen) /\ Posted(ms, seen) = g[DOMAIN ms].rows
  <2> DEFINE G == CHOOSE g : StockFold(g, ms, seen)
  <2>1. StockFold(G, ms, seen)
    BY FoldsExist
  <2>2. Posted(ms, seen) = G[DOMAIN ms].rows
    BY PostedIsFold
  <2> HIDE DEF G
  <2> QED BY <2>1, <2>2
<1>2. PICK h : FundsFold(h, ms, seen) /\ FundsPosted(ms, seen) = h[DOMAIN ms]
  <2> DEFINE G == CHOOSE k : FundsFold(k, ms, seen)
  <2>1. FundsFold(G, ms, seen)
    BY FoldsExist
  <2>2. FundsPosted(ms, seen) = G[DOMAIN ms]
    BY FundsPostedIsFold
  <2> HIDE DEF G
  <2> QED BY <2>1, <2>2
<1> DEFINE a == [k \in 0 .. n |-> g[1 .. k]]
           b == [k \in 0 .. n |-> h[1 .. k]]
<1>3. \A k \in 0 .. n : 1 .. k \in SUBSET DOMAIN ms /\ (k # 0 => 1 .. k # {})
  OBVIOUS
<1>4. 1 .. 0 = {}
  OBVIOUS
<1>5. \A s \in SUBSET DOMAIN ms :
         /\ g[s] = IF s = {} THEN [rows |-> <<>>, balance |-> seen]
                   ELSE StockStep(g[s \ {Max(s)}], ms[Max(s)])
         /\ h[s] = IF s = {} THEN <<>> ELSE FundsStep(seen, h[s \ {Max(s)}], ms[Max(s)])
  BY <1>1, <1>2, Zenon DEF StockFold, FundsFold
<1>6. a[0] = [rows |-> <<>>, balance |-> seen] /\ b[0] = <<>>
  <2>1. a[0] = g[{}] /\ b[0] = h[{}]
    BY <1>4
  <2> HIDE DEF a, b
  <2> QED BY <1>5, <2>1
<1>7. \A k \in 1 .. n : a[k] = StockStep(a[k - 1], ms[k]) /\ b[k] = FundsStep(seen, b[k - 1], ms[k])
  <2> SUFFICES ASSUME NEW k \in 1 .. n
               PROVE  a[k] = StockStep(a[k - 1], ms[k]) /\ b[k] = FundsStep(seen, b[k - 1], ms[k])
    OBVIOUS
  <2>1. PICK s \in SUBSET DOMAIN ms : s = 1 .. k /\ s # {} /\ Max(s) = k /\ s \ {k} = 1 .. k - 1
    <3>1. k \in Nat /\ k # 0 /\ k \in 0 .. n
      OBVIOUS
    <3>2. 1 .. k \in SUBSET DOMAIN ms /\ 1 .. k # {}
      BY <1>3, <3>1
    <3>3. Max(1 .. k) = k /\ (1 .. k) \ {k} = 1 .. k - 1
      BY <3>1, LastOfInterval
    <3> QED BY <3>2, <3>3, Zenon
  <2>2. g[s] = StockStep(g[s \ {k}], ms[k]) /\ h[s] = FundsStep(seen, h[s \ {k}], ms[k])
    BY <1>5, <2>1, Zenon
  <2>3. a[k] = g[1 .. k] /\ a[k - 1] = g[1 .. k - 1] /\ b[k] = h[1 .. k] /\ b[k - 1] = h[1 .. k - 1]
    OBVIOUS
  <2> HIDE DEF a, b
  <2> QED BY <2>1, <2>2, <2>3
<1>8. a[n] = g[DOMAIN ms] /\ b[n] = h[DOMAIN ms]
  OBVIOUS
<1> HIDE DEF a, b
<1>9. StockRun(a, ms, seen, n) /\ Posted(ms, seen) = a[n].rows
  BY <1>1, <1>6, <1>7, <1>8 DEF StockRun
<1>10. FundsRun(b, ms, seen, n) /\ FundsPosted(ms, seen) = b[n]
  BY <1>2, <1>6, <1>7, <1>8 DEF FundsRun
<1> QED BY <1>9, <1>10

--------------------
\* The chains of reversals.

LEMMA HeadUnfolds ==
    ASSUME OfEarlier
    PROVE  \E head : /\ \A d : EffectHead(d) = head[d]
                     /\ \A d \in DOMAIN docs :
                           head[d] = IF Undone(d) THEN head[Successor(d)] ELSE d
<1> DEFINE D == DOMAIN docs
           F(h) == h = [e \in D |-> IF \E f \in D : docs[f].of = e
                                    THEN h[CHOOSE f \in D : docs[f].of = e] ELSE e]
           head == CHOOSE h : F(h)
<1>1. \A d : EffectHead(d) = head[d]
  BY DEF EffectHead
<1> DEFINE stop == {e \in D : ~Undone(e)}
           next == [e \in D |-> Successor(e)]
           rank == [e \in D |-> Len(docs) - e]
           id == [e \in D |-> e]
<1>2. Falls(D, stop, next, rank)
  <2> SUFFICES ASSUME NEW e \in D
               PROVE  /\ rank[e] \in Nat
                      /\ e \notin stop => next[e] \in D /\ rank[next[e]] < rank[e]
    BY DEF Falls
  <2>1. rank[e] \in Nat
    BY DEF OfEarlier
  <2>2. ASSUME e \notin stop PROVE next[e] \in D /\ rank[next[e]] < rank[e]
    <3>1. Successor(e) \in D /\ docs[Successor(e)].of = e
      BY <2>2 DEF Undone, Successor
    <3>2. PICK f \in D : f = Successor(e) /\ docs[f].of = e
      BY <3>1
    <3>3. e < f /\ e \in Nat /\ f \in Nat /\ Len(docs) \in Nat
      BY <3>2 DEF OfEarlier
    <3>4. rank[f] < rank[e]
      BY <3>3
    <3> HIDE DEF rank
    <3> QED BY <3>2, <3>4
  <2> QED BY <2>1, <2>2
<1>3. \A e \in D : rank[e] < Len(docs) /\ Len(docs) \in Nat
  BY DEF OfEarlier
<1>4. Len(docs) \in Nat
  BY DEF OfEarlier
<1>5. PICK h : Recursion(h, "chain", 0, D, stop, id, next, id)
  <2> HIDE DEF D, stop, next, rank, id
  <2> QED BY <1>2, <1>3, <1>4, RecursionExists
<1>6. h = [e \in D |-> IF e \in stop THEN id[e] ELSE StepOf("chain", 0, h[next[e]], id[e])]
  <2> HIDE DEF D, stop, next, rank, id
  <2> QED BY <1>5 DEF Recursion
<1>7. F(h)
  <2> DEFINE k == [e \in D |-> IF \E f \in D : docs[f].of = e
                               THEN h[CHOOSE f \in D : docs[f].of = e] ELSE e]
  <2>1. \A e \in D : h[e] = k[e]
    <3> SUFFICES ASSUME NEW e \in D PROVE h[e] = k[e]
      OBVIOUS
    <3>1. h[e] = IF e \in stop THEN id[e] ELSE StepOf("chain", 0, h[next[e]], id[e])
      <4> HIDE DEF D, stop, next, id
      <4> QED BY <1>5, RecursionValue
    <3>2. h[e] = IF Undone(e) THEN h[Successor(e)] ELSE e
      BY <3>1 DEF StepOf
    <3> QED BY <3>2 DEF Undone, Successor
  <2>2. h = [e \in D |-> h[e]] /\ k = [e \in D |-> k[e]]
    <3>1. k = [e \in D |-> k[e]]
      OBVIOUS
    <3> HIDE DEF D, stop, next, id, k
    <3> QED BY <1>6, <3>1
  <2>3. h = k
    <3> HIDE DEF D, k
    <3> QED BY <2>1, <2>2
  <2> QED BY <2>3
<1>8. F(head)
  <2> HIDE DEF F
  <2> QED BY <1>7
<1>9. \A d \in D : head[d] = IF Undone(d) THEN head[Successor(d)] ELSE d
  <2> SUFFICES ASSUME NEW d \in D PROVE head[d] = IF Undone(d) THEN head[Successor(d)] ELSE d
    OBVIOUS
  <2> HIDE DEF head
  <2>1. head[d] = IF \E f \in D : docs[f].of = d
                  THEN head[CHOOSE f \in D : docs[f].of = d] ELSE d
    BY <1>8, Zenon
  <2> QED BY <2>1 DEF Undone, Successor
<1> HIDE DEF head
<1> QED BY <1>1, <1>9

LEMMA HeadIsLast ==
    ASSUME OfEarlier
    PROVE  \A d \in DOMAIN docs : HeadOf(d)
<1>1. PICK head : /\ \A d : EffectHead(d) = head[d]
                  /\ \A d \in DOMAIN docs :
                        head[d] = IF Undone(d) THEN head[Successor(d)] ELSE d
  BY HeadUnfolds
<1>2. \A d \in DOMAIN docs : Undone(d) =>
         Successor(d) \in DOMAIN docs /\ docs[Successor(d)].of = d /\ d < Successor(d)
  <2> SUFFICES ASSUME NEW d \in DOMAIN docs, Undone(d)
               PROVE Successor(d) \in DOMAIN docs /\ docs[Successor(d)].of = d /\ d < Successor(d)
    OBVIOUS
  <2>1. Successor(d) \in DOMAIN docs /\ docs[Successor(d)].of = d
    BY DEF Undone, Successor
  <2> QED BY <2>1 DEF OfEarlier
<1> DEFINE bad(d) == ~(head[d] \in DOMAIN docs /\ ~Undone(head[d]) /\ d <= head[d])
           C == {d \in DOMAIN docs : bad(d)}
<1>3. C = {}
  <2> SUFFICES ASSUME C # {} PROVE FALSE
    OBVIOUS
  <2>1. PICK d \in C : \A e \in C : e <= d
    <3>1. IsFiniteSet(1 .. Len(docs)) /\ C \subseteq 1 .. Len(docs) /\ Len(docs) \in Nat
      BY FS_Interval DEF OfEarlier
    <3>2. IsFiniteSet(C) /\ C \in SUBSET Nat
      BY <3>1, FS_Subset
    <3> HIDE DEF C
    <3> QED BY <3>2, LargestNumber
  <2>0. d \in DOMAIN docs /\ d \in Nat /\ bad(d)
    BY DEF OfEarlier
  <2>2. CASE Undone(d)
    <3>1. PICK e \in DOMAIN docs : e = Successor(d) /\ d < e /\ head[d] = head[e]
      BY <1>1, <1>2, <2>0, <2>2
    <3>2. e \in Nat
      BY DEF OfEarlier
    <3>3. ~bad(e)
      BY <2>0, <2>1, <3>1, <3>2
    <3>4. head[e] \in Nat
      BY <3>3 DEF OfEarlier
    <3> QED BY <2>0, <3>1, <3>2, <3>3, <3>4
  <2>3. CASE ~Undone(d)
    BY <1>1, <2>0, <2>3
  <2> QED BY <2>2, <2>3
<1> QED BY <1>1, <1>2, <1>3 DEF HeadOf

--------------------
\* The arithmetic of the postings.

LEMMA RoundedType ==
    ASSUME NEW a \in Int, NEW b \in Int, b # 0
    PROVE  /\ Rounded(a, b) \in Int
           /\ (a >= 0 /\ b > 0) \/ (a < 0 /\ b < 0) => Rounded(a, b) \in Nat
<1> DEFINE p == IF a < 0 THEN -a ELSE a
           q == IF b < 0 THEN -b ELSE b
           k == (2 * p + q) \div (2 * q)
<1>1. p \in Nat /\ q \in Nat /\ q # 0
  OBVIOUS
<1>2. 2 * p + q \in Nat /\ 2 * q \in Nat /\ 2 * q # 0
  BY <1>1
<1>3. k \in Nat
  <2> DEFINE x == 2 * p + q
             y == 2 * q
  <2>1. x \in Nat /\ y \in Nat /\ y # 0
    BY <1>2
  <2> HIDE DEF x, y
  <2>2. x \div y \in Nat
    BY <2>1, Sums!Quotient
  <2> QED BY <2>2 DEF x, y
<1>4. Rounded(a, b) = IF (a < 0) = (b < 0) THEN k ELSE -k
  BY DEF Rounded
<1> HIDE DEF k
<1>5. Rounded(a, b) = k \/ Rounded(a, b) = -k
  BY <1>4
<1>6. (a >= 0 /\ b > 0) \/ (a < 0 /\ b < 0) => Rounded(a, b) = k
  BY <1>4
<1> QED BY <1>3, <1>5, <1>6

\* The rounded quotient of zero is zero, and that of opposites is opposite.
LEMMA ZeroRounded == ASSUME NEW b \in Int, b # 0 PROVE Rounded(0, b) = 0
<1> DEFINE q == IF b < 0 THEN -b ELSE b
<1>1. q \in Nat /\ q # 0
  OBVIOUS
<1>2. (2 * 0 + q) \div (2 * q) = 0
  <2> HIDE DEF q
  <2>1. q \in 0 .. 2 * q - 1 /\ 2 * 0 + q = q /\ 2 * q \in Nat /\ 2 * q # 0
    BY <1>1
  <2>2. \A y \in Nat : y # 0 => \A x \in 0 .. y - 1 : x \div y = 0
    OBVIOUS
  <2> QED BY <2>1, <2>2
<1>3. Rounded(0, b) = IF (0 < 0) = (b < 0) THEN (2 * 0 + q) \div (2 * q)
                      ELSE -((2 * 0 + q) \div (2 * q))
  BY DEF Rounded
<1> HIDE DEF q
<1> QED BY <1>2, <1>3

LEMMA AverageType ==
    ASSUME NEW v \in Int, NEW q \in Int, NEW fallback \in Nat
    PROVE  AverageCost(v, q, fallback) \in Nat
<1>0. Parts \in Nat /\ Parts # 0
  BY StockConstants
<1>1. CASE q = 0 \/ v * q < 0
  BY <1>1 DEF AverageCost
<1>2. CASE ~(q = 0 \/ v * q < 0)
  <2>1. AverageCost(v, q, fallback) = Rounded(v * Parts, q)
    BY <1>2 DEF AverageCost
  <2>2. PICK p \in Int : p = v * Parts /\ (v >= 0 => p >= 0) /\ (v < 0 => p < 0)
    BY <1>0, Sums!ProductSign
  <2>3. CASE v = 0
    BY <1>0, <1>2, <2>1, <2>2, <2>3, ZeroRounded
  <2>4. CASE v > 0
    BY <1>0, <1>2, <2>1, <2>2, <2>4, Sums!ProductSign, RoundedType
  <2>5. CASE v < 0
    BY <1>0, <1>2, <2>1, <2>2, <2>5, Sums!ProductSign, RoundedType
  <2> QED BY <2>3, <2>4, <2>5
<1> QED BY <1>1, <1>2

--------------------
\* Movements and the rows they become.

LEMMA MovedType ==
    ASSUME NEW b \in Balances, NEW qty \in Int, NEW value \in Int, NEW fallback \in Nat
    PROVE  /\ Moved(b, qty, value, fallback) \in Balances
           /\ Moved(b, qty, value, fallback).qty = b.qty + qty
           /\ Moved(b, qty, value, fallback).value = b.value + value
<1>1. b.qty + qty \in Int /\ b.value + value \in Int
  BY DEF Balances
<1>2. AverageCost(b.value + value, b.qty + qty, fallback) \in Nat
  BY <1>1, AverageType
<1> QED BY <1>1, <1>2 DEF Moved, Balances

LEMMA RowFollows ==
    ASSUME NEW b \in Balances, NEW m, IsMove(m), NEW kind \in MovementKinds,
           NEW qty \in Int, NEW value \in Int, NEW cost \in Nat, NEW after \in Balances,
           after.qty = b.qty + qty, after.value = b.value + value,
           NEW row, row = Row(m, kind, qty, value, cost, after)
    PROVE  Continues(row, b, m) /\ row.qty = qty /\ row.value = value /\ row.after = after
  BY DEF Row, Continues, IsMove, StockRows

LEMMA IssueFollows ==
    ASSUME NEW b \in Balances, NEW m, IsMove(m), m.kind \in {"issue", "cancellation"}
    PROVE  RowsFollow(Issue(b, m), b, m)
<1>0. Parts \in Int /\ Parts # 0 /\ b.cost \in Nat /\ m.cost \in Nat /\ m.qty \in Int
  BY StockConstants DEF IsMove, Balances
<1>1. PICK unit \in Nat : unit = IF b.cost > 0 THEN b.cost ELSE m.cost
  BY <1>0
<1>2. PICK p \in Int : p = m.qty * unit
  BY <1>0
<1>3. PICK value \in Int : value = -Rounded(p, Parts)
  BY <1>0, RoundedType
<1>4. PICK qty \in Int : qty = -m.qty
  BY <1>0
<1>5. PICK after \in Balances : /\ after = Moved(b, qty, value, unit)
                                /\ after.qty = b.qty + qty /\ after.value = b.value + value
  BY MovedType
<1>6. PICK row : row = Row(m, m.kind, qty, value, unit, after)
  OBVIOUS
<1>7. Continues(row, b, m) /\ row.qty = qty
  BY <1>5, <1>6, RowFollows DEF MovementKinds
<1>8. Adds(row, m)
  BY <1>4, <1>7 DEF Adds
<1>9. Issue(b, m) = <<row>>
  BY <1>1, <1>2, <1>3, <1>4, <1>5, <1>6 DEF Issue
<1> QED BY <1>7, <1>8, <1>9 DEF RowsFollow, OneRow

LEMMA StocktakeFollows ==
    ASSUME NEW b \in Balances, NEW m, IsMove(m), m.kind = "stocktake"
    PROVE  RowsFollow(Stocktake(b, m), b, m)
<1>0. Parts \in Int /\ Parts # 0 /\ b.cost \in Nat /\ b.qty \in Int /\ b.value \in Int
      /\ m.qty \in Int
  BY StockConstants DEF IsMove, Balances
<1>1. PICK qty \in Int : qty = m.qty - b.qty
  BY <1>0
<1>2. PICK p \in Int : p = qty * b.cost
  BY <1>0
<1>3. PICK value \in Int : value = Rounded(p, Parts)
  BY <1>0, RoundedType
<1>4. PICK after \in Balances : /\ after = [qty |-> m.qty, value |-> b.value + value, cost |-> b.cost]
                                /\ after.qty = b.qty + qty /\ after.value = b.value + value
  <2>1. m.qty = b.qty + qty /\ b.value + value \in Int
    BY <1>0, <1>1
  <2>2. PICK v \in Int : v = b.value + value
    BY <2>1
  <2>3. [qty |-> m.qty, value |-> v, cost |-> b.cost] \in Balances
    BY <1>0 DEF Balances
  <2> QED BY <2>1, <2>2, <2>3
<1>5. PICK row : row = Row(m, "stocktake", qty, value, b.cost, after)
  OBVIOUS
<1>6. Continues(row, b, m)
  <2>1. "stocktake" \in MovementKinds
    BY DEF MovementKinds
  <2> QED BY <1>0, <1>4, <1>5, <2>1, RowFollows
<1>7. Adds(row, m)
  BY DEF Adds
<1>8. Stocktake(b, m) = IF qty = 0 THEN <<>> ELSE <<row>>
  BY <1>1, <1>2, <1>3, <1>4, <1>5 DEF Stocktake
<1> QED BY <1>6, <1>7, <1>8 DEF RowsFollow, OneRow, NoRow

LEMMA ReversalFollows ==
    ASSUME stock \in Seq(StockRows), NEW b \in Balances, NEW m, IsMove(m), m.kind = "reversal"
    PROVE  RowsFollow(Reversal(b, m), b, m)
<1>1. PICK o \in StockRows : o = stock[m.reverses]
  BY DEF IsMove
<1>2. o.qty \in Int /\ o.value \in Int /\ o.cost \in Nat
  BY DEF StockRows
<1>3. PICK qty \in Int : qty = -o.qty
  BY <1>2
<1>4. PICK value \in Int : value = -o.value
  BY <1>2
<1>5. PICK after \in Balances : /\ after = Moved(b, qty, value, 0)
                                /\ after.qty = b.qty + qty /\ after.value = b.value + value
  BY MovedType
<1>6. PICK row : row = Row(m, "reversal", qty, value, o.cost, after)
  OBVIOUS
<1>7. Continues(row, b, m) /\ row.qty = qty /\ row.value = value
  <2>1. "reversal" \in MovementKinds
    BY DEF MovementKinds
  <2> QED BY <1>2, <1>5, <1>6, <2>1, RowFollows
<1>8. Adds(row, m)
  BY <1>1, <1>3, <1>4, <1>7 DEF Adds
<1>9. Reversal(b, m) = <<row>>
  BY <1>1, <1>3, <1>4, <1>5, <1>6 DEF Reversal
<1> QED BY <1>7, <1>8, <1>9 DEF RowsFollow, OneRow

LEMMA ReceiptFollows ==
    ASSUME NEW b \in Balances, NEW m, IsMove(m), m.kind = "receipt"
    PROVE  RowsFollow(Receipt(b, m), b, m)
<1>0. Parts \in Nat /\ Parts # 0 /\ b.cost \in Nat /\ b.qty \in Int /\ b.value \in Int
      /\ m.qty \in Nat /\ m.qty # 0 /\ m.value \in Nat
  BY StockConstants DEF IsMove, Balances
<1>1. PICK unit \in Nat : unit = Rounded(m.value * Parts, m.qty)
  <2>1. PICK p \in Int : p = m.value * Parts /\ p >= 0
    BY <1>0, Sums!ProductSign
  <2>2. m.qty \in Int /\ m.qty > 0
    BY <1>0
  <2>3. Rounded(p, m.qty) \in Nat
    BY <2>1, <2>2, RoundedType
  <2> QED BY <2>1, <2>3
<1>2. PICK p \in Int : p = b.qty * unit
  BY <1>0
<1>3. PICK value \in Int : value = Rounded(p, Parts)
  BY <1>0, RoundedType
<1>4. PICK more \in Int : more = value - b.value
  BY <1>0
<1>zero. PICK zero \in Int : zero = 0
  OBVIOUS
<1>5. PICK higher \in Balances : /\ higher = [b EXCEPT !.value = value, !.cost = unit]
                                 /\ higher.qty = b.qty + zero /\ higher.value = b.value + more
  <2>1. [b EXCEPT !.value = value, !.cost = unit] \in Balances
    BY DEF Balances
  <2>2. /\ [b EXCEPT !.value = value, !.cost = unit].qty = b.qty
        /\ [b EXCEPT !.value = value, !.cost = unit].value = value
    BY DEF Balances
  <2>3. value = b.value + more /\ b.qty = b.qty + zero
    BY <1>0, <1>4, <1>zero
  <2> QED BY <2>1, <2>2, <2>3
<1>6. PICK base : base = Row(m, "revaluation", zero, more, unit, higher)
  OBVIOUS
<1>7. Continues(base, b, m) /\ base.qty = zero /\ base.after = higher
  <2>1. "revaluation" \in MovementKinds
    BY DEF MovementKinds
  <2>2. higher.qty = b.qty + zero /\ higher.value = b.value + more
    BY <1>5
  <2> QED BY <1>6, <2>1, <2>2, RowFollows
<1>8. Revaluation(b, m, unit) = <<>> \/ Revaluation(b, m, unit) = <<base>>
  BY <1>zero, <1>2, <1>3, <1>4, <1>5, <1>6 DEF Revaluation
<1>9. PICK start \in Balances :
         start = IF Revaluation(b, m, unit) = <<>> THEN b ELSE Revaluation(b, m, unit)[1].after
  BY <1>7, <1>8
<1>10. PICK after \in Balances : /\ after = Moved(start, m.qty, m.value, unit)
                                 /\ after.qty = start.qty + m.qty
                                 /\ after.value = start.value + m.value
  BY <1>0, MovedType
<1>11. PICK row : row = Row(m, "receipt", m.qty, m.value, unit, after)
  OBVIOUS
<1>12. Continues(row, start, m) /\ row.qty = m.qty
  <2>1. "receipt" \in MovementKinds /\ m.qty \in Int /\ m.value \in Int
    BY <1>0 DEF MovementKinds
  <2> QED BY <1>10, <1>11, <2>1, RowFollows
<1>13. Adds(row, m)
  BY <1>12 DEF Adds
<1>14. Receipt(b, m) = Append(Revaluation(b, m, unit), row)
  BY <1>1, <1>9, <1>10, <1>11 DEF Receipt
<1>15. CASE Revaluation(b, m, unit) = <<>>
  BY <1>9, <1>12, <1>13, <1>14, <1>15 DEF RowsFollow, OneRow
<1>16. CASE Revaluation(b, m, unit) = <<base>>
  <2>1. /\ Receipt(b, m) \in Seq(StockRows) /\ Len(Receipt(b, m)) = 2
        /\ Receipt(b, m)[1] = base /\ Receipt(b, m)[2] = row
    <3>1. base \in StockRows /\ row \in StockRows
      BY <1>7, <1>12 DEF Continues
    <3>2. PICK s \in Seq(StockRows) : s = <<base>>
      <4>1. <<base>> \in Seq(StockRows)
        BY <3>1
      <4> QED BY <4>1, Zenon
    <3>3. Receipt(b, m) = Append(s, row)
      BY <1>14, <1>16, <3>2
    <3> QED BY <3>1, <3>2, <3>3, Sums!AppendToOne
  <2>2. start = base.after
    BY <1>7, <1>9, <1>16
  <2>3. TwoRows(Receipt(b, m), b, m)
    BY <1>zero, <1>7, <1>12, <1>13, <2>1, <2>2, Zenon DEF TwoRows
  <2> QED BY <2>3 DEF RowsFollow
<1> QED BY <1>8, <1>15, <1>16

LEMMA RowsOfFollow ==
    ASSUME stock \in Seq(StockRows), NEW b \in Balances, NEW m, IsMove(m)
    PROVE  RowsFollow(RowsOf(b, m), b, m)
<1>1. CASE m.kind = "receipt"
  BY <1>1, ReceiptFollows DEF RowsOf
<1>2. CASE m.kind \in {"issue", "cancellation"}
  BY <1>2, IssueFollows DEF RowsOf
<1>3. CASE m.kind = "stocktake"
  BY <1>3, StocktakeFollows DEF RowsOf
<1>4. CASE m.kind = "reversal"
  BY <1>4, ReversalFollows DEF RowsOf
<1> QED BY <1>1, <1>2, <1>3, <1>4 DEF IsMove, MoveKinds

--------------------
\* The rows of a posting have their types.

LEMMA FollowTyped ==
    ASSUME NEW rows, NEW b, NEW m, RowsFollow(rows, b, m)
    PROVE  rows \in Seq(StockRows) /\ (rows = <<>> \/ Len(rows) \in 1 .. 2)
<1>1. CASE NoRow(rows, b, m)
  BY <1>1 DEF NoRow
<1>2. CASE OneRow(rows, b, m)
  <2>1. PICK row \in StockRows : rows = <<row>>
    BY <1>2 DEF OneRow, Continues
  <2>2. <<row>> \in Seq(StockRows) /\ Len(<<row>>) = 1
    OBVIOUS
  <2> QED BY <2>1, <2>2
<1>3. CASE TwoRows(rows, b, m)
  BY <1>3 DEF TwoRows
<1> QED BY <1>1, <1>2, <1>3 DEF RowsFollow

LEMMA StepAdds ==
    ASSUME stock \in Seq(StockRows), NEW done, Typed(done), NEW m, IsMove(m)
    PROVE  /\ Typed(StockStep(done, m))
           /\ \E rows : Adding(rows, done, StockStep(done, m), m)
<1>1. PICK b \in Balances : b = done.balance[m.item]
  BY DEF Typed, IsMove
<1>2. PICK rows : rows = RowsOf(b, m) /\ RowsFollow(rows, b, m)
  BY RowsOfFollow
<1>3. rows \in Seq(StockRows) /\ (rows = <<>> \/ Len(rows) \in 1 .. 2)
  BY <1>2, FollowTyped
<1>4. PICK bal : bal = IF rows = <<>> THEN done.balance
                       ELSE [done.balance EXCEPT ![m.item] = Last(rows).after]
  OBVIOUS
<1>5. StockStep(done, m) = [rows |-> done.rows \o rows, balance |-> bal]
  BY <1>1, <1>2, <1>4 DEF StockStep
<1>6. StockStep(done, m).rows = done.rows \o rows /\ StockStep(done, m).balance = bal
      /\ StockStep(done, m) = [rows |-> StockStep(done, m).rows,
                               balance |-> StockStep(done, m).balance]
  BY <1>5
<1>7. done.rows \o rows \in Seq(StockRows)
  BY <1>3, Sums!Joined DEF Typed
<1>8. \/ rows = <<>> /\ bal = done.balance
      \/ /\ rows # <<>> /\ Len(rows) \in 1 .. 2
         /\ bal = [done.balance EXCEPT ![m.item] = rows[Len(rows)].after]
  BY <1>3, <1>4 DEF Last
<1>9. bal \in [Items -> Balances]
  <2>1. CASE rows = <<>>
    BY <1>8, <2>1 DEF Typed
  <2>2. CASE rows # <<>>
    <3>1. rows[Len(rows)] \in StockRows
      BY <1>3, <2>2
    <3>2. rows[Len(rows)].after \in Balances
      BY <3>1 DEF StockRows
    <3> QED BY <1>8, <2>2, <3>2 DEF Typed
  <2> QED BY <2>1, <2>2
<1>10. Typed(StockStep(done, m))
  BY <1>6, <1>7, <1>9 DEF Typed
<1>11. Adding(rows, done, StockStep(done, m), m)
  BY <1>1, <1>2, <1>3, <1>6, <1>8 DEF Adding
<1> QED BY <1>10, <1>11

LEMMA RunTyped ==
    ASSUME stock \in Seq(StockRows), NEW ms, NEW n, MoveList(ms, n), NEW seen \in [Items -> Balances],
           NEW acc, StockRun(acc, ms, seen, n)
    PROVE  \A k \in 0 .. n : Typed(acc[k])
<1> DEFINE C == {k \in 0 .. n : ~Typed(acc[k])}
<1>0. n \in Nat
  BY DEF MoveList
<1>1. SUFFICES ASSUME C # {} PROVE FALSE
  OBVIOUS
<1>2. PICK k \in C : \A j \in C : k <= j
  <2>1. C \in SUBSET Nat
    BY <1>0
  <2> HIDE DEF C
  <2> QED BY <1>1, <2>1, Sums!SmallestNumber
<1>3. k # 0
  <2>1. acc[0] = [rows |-> <<>>, balance |-> seen]
    BY DEF StockRun
  <2>2. <<>> \in Seq(StockRows)
    OBVIOUS
  <2>3. Typed(acc[0])
    BY <2>1, <2>2 DEF Typed
  <2> QED BY <2>3
<1>4. PICK j \in 0 .. n : j = k - 1 /\ k \in 1 .. n /\ j < k
  BY <1>0, <1>3
<1>5. Typed(acc[j])
  BY <1>2, <1>4
<1>6. acc[k] = StockStep(acc[j], ms[k]) /\ IsMove(ms[k])
  BY <1>4 DEF StockRun, MoveList
<1>7. Typed(acc[k])
  BY <1>5, <1>6, StepAdds
<1> QED BY <1>7

LEMMA FundStepAdds ==
    ASSUME NEW rows \in Seq(CustodyRows), NEW f, IsFund(f), NEW seen \in Int
    PROVE  FundAdded(rows, FundsStep(seen, rows, f), f, seen)
<1>1. PICK b \in Int : b = IF rows = <<>> THEN seen ELSE Last(rows).after
  <2>1. CASE rows = <<>>
    BY <2>1
  <2>2. CASE rows # <<>>
    <3>1. rows[Len(rows)] \in CustodyRows
      BY <2>2
    <3> QED BY <2>2, <3>1 DEF Last, CustodyRows
  <2> QED BY <2>1, <2>2
<1>2. PICK row : row = [amount |-> f.amount, doc |-> f.doc, reverses |-> f.reverses,
                        after |-> f.amount + b]
  OBVIOUS
<1>3. row \in CustodyRows
  BY <1>2 DEF CustodyRows, IsFund
<1>4. FundsStep(seen, rows, f) = Append(rows, row)
  BY <1>1, <1>2 DEF FundsStep
<1>5. row = [amount |-> f.amount, doc |-> f.doc, reverses |-> f.reverses,
           after |-> f.amount + (IF rows = <<>> THEN seen ELSE rows[Len(rows)].after)]
  BY <1>1, <1>2 DEF Last
<1>6. /\ Append(rows, row) \in Seq(CustodyRows) /\ Len(Append(rows, row)) = Len(rows) + 1
      /\ Len(rows) \in Nat /\ Append(rows, row)[Len(rows) + 1] = row
      /\ \A j \in 1 .. Len(rows) : Append(rows, row)[j] = rows[j]
  BY <1>3
<1> QED BY <1>4, <1>5, <1>6 DEF FundAdded

LEMMA FundRunTyped ==
    ASSUME NEW fs, NEW n, FundList(fs, n), NEW seen \in Int,
           NEW acc, FundsRun(acc, fs, seen, n)
    PROVE  \A k \in 0 .. n : acc[k] \in Seq(CustodyRows)
<1> DEFINE C == {k \in 0 .. n : acc[k] \notin Seq(CustodyRows)}
<1>0. n \in Nat
  BY DEF FundList
<1>1. SUFFICES ASSUME C # {} PROVE FALSE
  OBVIOUS
<1>2. PICK k \in C : \A j \in C : k <= j
  <2>1. C \in SUBSET Nat
    BY <1>0
  <2> HIDE DEF C
  <2> QED BY <1>1, <2>1, Sums!SmallestNumber
<1>3. k # 0
  <2>1. acc[0] = <<>>
    BY DEF FundsRun
  <2>2. <<>> \in Seq(CustodyRows)
    OBVIOUS
  <2>3. acc[0] \in Seq(CustodyRows)
    BY <2>1, <2>2
  <2> QED BY <2>3
<1>4. PICK j \in 0 .. n : j = k - 1 /\ k \in 1 .. n /\ j < k
  BY <1>0, <1>3
<1>5. acc[j] \in Seq(CustodyRows)
  BY <1>2, <1>4
<1>6. acc[k] = FundsStep(seen, acc[j], fs[k]) /\ IsFund(fs[k])
  BY <1>4 DEF FundsRun, FundList
<1>7. FundAdded(acc[j], acc[k], fs[k], seen)
  BY <1>5, <1>6, FundStepAdds
<1> QED BY <1>7 DEF FundAdded

LEMMA JoinGrows ==
    ASSUME NEW R, NEW s \in Seq(R), NEW t \in Seq(R)
    PROVE  Grown(s, s \o t, R)
<1>1. /\ s \o t \in Seq(R) /\ Len(s) \in Nat /\ Len(t) \in Nat /\ Len(s \o t) = Len(s) + Len(t)
      /\ \A i \in DOMAIN s : (s \o t)[i] = s[i]
  BY Sums!Joined
<1>2. DOMAIN s = 1 .. Len(s)
  OBVIOUS
<1> QED BY <1>1, <1>2 DEF Grown

LEMMA PostGrows ==
    ASSUME LedgersTypeOK, NEW r, NEW ms, NEW fs, NEW n, NEW k,
           MoveList(ms, n), FundList(fs, k), Post(r, ms, fs),
           attempt[r].seen.balance \in [Items -> Balances], attempt[r].seen.funds \in Int
    PROVE  LedgersTypeOK' /\ Grown(stock, stock', StockRows) /\ Grown(custody, custody', CustodyRows)
<1>0. n \in Nat /\ DOMAIN ms = 1 .. n /\ k \in Nat /\ DOMAIN fs = 1 .. k
  BY DEF MoveList, FundList
<1>1. PICK b \in [Items -> Balances] : b = attempt[r].seen.balance
  OBVIOUS
<1>2. PICK f \in Int : f = attempt[r].seen.funds
  OBVIOUS
<1>3. PICK acc : StockRun(acc, ms, b, n) /\ Posted(ms, b) = acc[n].rows
  BY <1>0, Runs
<1>4. PICK con : FundsRun(con, fs, f, k) /\ FundsPosted(fs, f) = con[k]
  BY <1>0, Runs
<1>5. Posted(ms, b) \in Seq(StockRows)
  <2>0. n \in 0 .. n
    BY <1>0
  <2>1. Typed(acc[n])
    BY <1>3, <2>0, RunTyped DEF LedgersTypeOK
  <2> QED BY <1>3, <2>1 DEF Typed
<1>6. FundsPosted(fs, f) \in Seq(CustodyRows)
  <2>0. k \in 0 .. k
    BY <1>0
  <2> QED BY <1>4, <2>0, FundRunTyped
<1>7. stock' = stock \o Posted(ms, b) /\ custody' = custody \o FundsPosted(fs, f)
  BY <1>1, <1>2 DEF Post
<1>8. Grown(stock, stock', StockRows)
  BY <1>5, <1>7, JoinGrows DEF LedgersTypeOK
<1>9. Grown(custody, custody', CustodyRows)
  BY <1>6, <1>7, JoinGrows DEF LedgersTypeOK
<1> QED BY <1>8, <1>9 DEF LedgersTypeOK, Grown

--------------------
\* Types.

LEMMA UnsentIdle == Unsent.pc = "idle"
  BY DEF Unsent

LEMMA TypeInvIsType == ASSUME TypeInv PROVE TypeOK
<1>1. \A r \in Attempts : attempt[r] # Unsent => attempt[r].request \in Requests
  BY DEF TypeInv, AttemptsOK, AttemptOK
<1> QED BY <1>1 DEF TypeInv, TypeOK, DocsOK, TablesOK, LockOK

\* The lines of the requests.
LEMMA RequestLines ==
    ASSUME NEW q \in Requests, q.op \in WithLines
    PROVE  /\ IsFiniteSet(DOMAIN q.lines) /\ DOMAIN q.lines \in SUBSET Items
           /\ DOMAIN q.lines \in SUBSET Nat
  BY OrdersConstants, StockConstants DEF IsLines, WithLines

LEMMA DocsNumbered == ASSUME DocsOK PROVE OfEarlier
<1>1. Len(docs) \in Nat /\ DOMAIN docs = 1 .. Len(docs)
  BY DEF DocsOK
<1>2. \A d \in DOMAIN docs : docs[d].of \in Nat /\ docs[d].of < d
  BY DEF DocsOK, IsDocument
<1> QED BY <1>1, <1>2 DEF OfEarlier

--------------------
\* The locks and their order.

LEMMA LockKinds ==
    /\ Class(Window) = 0 /\ Class(Custody) = 3
    /\ \A day : Class(Section(day)) = 1 /\ Section(day)[2] = day
    /\ \A i : Class(StockOf(i)) = 2 /\ StockOf(i)[2] = i
    /\ \A i, j : StockOf(i) = StockOf(j) => i = j
    /\ Window \in Locks /\ Custody \in Locks /\ \A day \in Days : Section(day) \in Locks
    /\ \A i \in Items : StockOf(i) \in Locks
  BY DEF Class, Window, Section, Custody, StockOf, Locks

LEMMA LockCases ==
    ASSUME NEW k \in Locks
    PROVE  \/ k = Window \/ k = Custody
           \/ (\E day \in Days : k = Section(day)) \/ \E i \in Items : k = StockOf(i)
  BY DEF Locks

LEMMA LockClasses ==
    ASSUME NEW k \in Locks
    PROVE  Class(k) \in 0 .. 3 /\ (Class(k) = 2 => k[2] \in Nat /\ k = StockOf(k[2]))
                               /\ (k[2] \in Nat)
<1>1. CASE k \in {Window, Custody}
  <2>1. Window[2] = 0 /\ Custody[2] = 0
    BY DEF Window, Custody
  <2>2. Class(k) \in {0, 3} /\ k[2] = 0
    BY <1>1, <2>1, LockKinds
  <2> QED BY <2>2
<1>3. CASE \E day \in Days : k = Section(day)
  BY <1>3, LockKinds, OrdersConstants
<1>2. CASE \E i \in Items : k = StockOf(i)
  BY <1>2, LockKinds, StockConstants
<1> QED BY <1>1, <1>2, <1>3, LockCases

LEMMA PrecedesOrder ==
    ASSUME NEW j \in Locks, NEW k \in Locks, NEW l \in Locks
    PROVE  /\ ~Precedes(k, k)
           /\ Precedes(j, k) /\ Precedes(k, l) => Precedes(j, l)
  BY LockClasses DEF Precedes

LEMMA KeysSpec ==
    ASSUME NEW S, IsFiniteSet(S), S \in SUBSET Items, NEW q
    PROVE  KeyLocks(KeysInOrder(S, q), S)
<1> DEFINE up == Upwards(S)
           keys == KeysInOrder(S, q)
<1>0. S \in SUBSET Nat
  BY StockConstants
<1>1. Lists(up, S) /\ \A m, n \in DOMAIN up : m < n => up[m] < up[n]
  BY <1>0, UpwardsLists
<1>2. keys = [n \in DOMAIN up |-> StockOf(up[n])]
  BY DEF KeysInOrder, Each
<1> HIDE DEF up, keys
<1>3. DOMAIN keys = DOMAIN up /\ \A n \in DOMAIN up : keys[n] = StockOf(up[n])
  BY <1>2
<1>4. PICK c \in Nat : DOMAIN up = 1 .. c
  BY <1>1 DEF Lists
<1>5. \A n \in DOMAIN up : up[n] \in S /\ up[n] \in Items /\ keys[n] \in Locks
  BY <1>1, <1>3, LockKinds DEF Lists
<1>6. keys \in Seq(Locks)
  BY <1>2, <1>3, <1>4, <1>5
<1>7. \A i \in S : \E n \in DOMAIN keys : keys[n] = StockOf(i)
  <2> SUFFICES ASSUME NEW i \in S PROVE \E n \in DOMAIN keys : keys[n] = StockOf(i)
    OBVIOUS
  <2>1. PICK n \in DOMAIN up : up[n] = i
    BY <1>1 DEF Lists
  <2> QED BY <1>3, <2>1
<1>8. Ordered(keys)
  <2> SUFFICES ASSUME NEW m \in DOMAIN keys, NEW n \in DOMAIN keys, m < n
               PROVE  Precedes(keys[m], keys[n])
    BY DEF Ordered
  <2>1. up[m] < up[n] /\ keys[m] = StockOf(up[m]) /\ keys[n] = StockOf(up[n])
    BY <1>1, <1>3
  <2> QED BY <2>1, LockKinds DEF Precedes
<1>9. \A n \in DOMAIN keys : \E i \in S : keys[n] = StockOf(i)
  BY <1>3, <1>5
<1>10. KeyLocks(keys, S)
  BY <1>6, <1>7, <1>8, <1>9 DEF KeyLocks
<1> QED BY <1>10 DEF keys

LEMMA JoinLocks ==
    ASSUME NEW s \in Seq(Locks), NEW t \in Seq(Locks)
    PROVE  /\ s \o t \in Seq(Locks)
           /\ \A k : (\E n \in DOMAIN (s \o t) : (s \o t)[n] = k)
                 <=> (\E n \in DOMAIN s : s[n] = k) \/ (\E n \in DOMAIN t : t[n] = k)
           /\ Ordered(s) /\ Ordered(t)
              /\ (\A m \in DOMAIN s, n \in DOMAIN t : Precedes(s[m], t[n]))
                 => Ordered(s \o t)
<1> DEFINE u == s \o t
<1>1. /\ u \in Seq(Locks) /\ Len(u) = Len(s) + Len(t) /\ Len(s) \in Nat /\ Len(t) \in Nat
      /\ \A i \in DOMAIN s : u[i] = s[i]
      /\ \A i \in DOMAIN u : i \notin DOMAIN s => i - Len(s) \in DOMAIN t /\ u[i] = t[i - Len(s)]
  BY Sums!Joined
<1>2. DOMAIN s = 1 .. Len(s) /\ DOMAIN t = 1 .. Len(t) /\ DOMAIN u = 1 .. Len(s) + Len(t)
  <2>1. u \in Seq(Locks) /\ Len(u) = Len(s) + Len(t)
    BY <1>1
  <2> HIDE DEF u
  <2> QED BY <2>1
<1> HIDE DEF u
<1>3. \A n \in DOMAIN t : n + Len(s) \in DOMAIN u /\ u[n + Len(s)] = t[n]
  <2> SUFFICES ASSUME NEW n \in DOMAIN t
               PROVE  n + Len(s) \in DOMAIN u /\ u[n + Len(s)] = t[n]
    OBVIOUS
  <2>1. PICK i \in Int : i = n + Len(s) /\ i - Len(s) = n
    BY <1>1, <1>2
  <2>2. i \in DOMAIN u /\ i \notin DOMAIN s
    BY <1>1, <1>2, <2>1
  <2> QED BY <1>1, <2>1, <2>2
<1>4. ASSUME NEW k
      PROVE  (\E n \in DOMAIN u : u[n] = k)
                 <=> (\E n \in DOMAIN s : s[n] = k) \/ (\E n \in DOMAIN t : t[n] = k)
  <2>1. ASSUME NEW n \in DOMAIN s, s[n] = k PROVE \E m \in DOMAIN u : u[m] = k
    BY <1>1, <1>2, <2>1
  <2>2. ASSUME NEW n \in DOMAIN t, t[n] = k PROVE \E m \in DOMAIN u : u[m] = k
    BY <1>3, <2>2
  <2>3. ASSUME NEW n \in DOMAIN u, u[n] = k
        PROVE  (\E m \in DOMAIN s : s[m] = k) \/ (\E m \in DOMAIN t : t[m] = k)
    <3>1. CASE n \in DOMAIN s
      BY <1>1, <2>3, <3>1
    <3>2. CASE n \notin DOMAIN s
      BY <1>1, <2>3, <3>2
    <3> QED BY <3>1, <3>2
  <2> QED BY <2>1, <2>2, <2>3
<1>5. ASSUME Ordered(s), Ordered(t), \A m \in DOMAIN s, n \in DOMAIN t : Precedes(s[m], t[n])
      PROVE  Ordered(u)
  <2> SUFFICES ASSUME NEW m \in DOMAIN u, NEW n \in DOMAIN u, m < n
               PROVE  Precedes(u[m], u[n])
    BY DEF Ordered
  <2>1. CASE n \in DOMAIN s
    BY <1>1, <1>2, <1>5, <2>1 DEF Ordered
  <2>2. CASE n \notin DOMAIN s /\ m \in DOMAIN s
    BY <1>1, <1>5, <2>2
  <2>3. CASE n \notin DOMAIN s /\ m \notin DOMAIN s
    <3>1. PICK i \in DOMAIN t : i = m - Len(s) /\ u[m] = t[i]
      BY <1>1, <2>3
    <3>2. PICK j \in DOMAIN t : j = n - Len(s) /\ u[n] = t[j]
      BY <1>1, <2>3
    <3>3. i < j
      BY <1>1, <1>2, <3>1, <3>2
    <3> QED BY <1>5, <3>1, <3>2, <3>3 DEF Ordered
  <2>4. n \in DOMAIN s => m \in DOMAIN s
    BY <1>1, <1>2
  <2> QED BY <2>1, <2>2, <2>3, <2>4
<1> QED BY <1>1, <1>4, <1>5 DEF u

LEMMA OneLock ==
    ASSUME NEW k \in Locks, NEW l, l = <<k>>
    PROVE  /\ l \in Seq(Locks) /\ Ordered(l) /\ Len(l) = 1
           /\ (\A n \in DOMAIN l : l[n] = k) /\ (\E n \in DOMAIN l : l[n] = k)
<1>1. l \in Seq(Locks) /\ Len(l) = 1 /\ l[1] = k /\ DOMAIN l = 1 .. 1
  OBVIOUS
<1> QED BY <1>1 DEF Ordered

LEMMA NoLock == <<>> \in Seq(Locks) /\ Ordered(<<>>) /\ DOMAIN <<>> = {}
  BY DEF Ordered

\* The locks of a section, of items and of the custody, in this order.
LEMMA LocksInOrder ==
    ASSUME NEW section \in Sections, NEW keys, NEW S, KeyLocks(keys, S),
           NEW tail, tail \in {<<>>, <<Custody>>}
    PROVE  LET locks == (section \o keys) \o tail
           IN  /\ locks \in Seq(Locks) /\ Ordered(locks) /\ NoWindow(locks)
               /\ Covers(locks, S, tail = <<Custody>>)
<1>1. /\ section \in Seq(Locks) /\ Ordered(section)
      /\ \A n \in DOMAIN section : Class(section[n]) = 1
  <2>1. CASE section = <<>>
    BY <2>1, NoLock
  <2>2. ASSUME NEW day \in Days, section = <<Section(day)>>
        PROVE  /\ section \in Seq(Locks) /\ Ordered(section)
               /\ \A n \in DOMAIN section : Class(section[n]) = 1
    BY <2>2, OneLock, LockKinds
  <2> QED BY <2>1, <2>2 DEF Sections
<1>2. /\ tail \in Seq(Locks) /\ Ordered(tail)
      /\ \A n \in DOMAIN tail : tail[n] = Custody
      /\ tail = <<Custody>> => \E n \in DOMAIN tail : tail[n] = Custody
  <2>1. CASE tail = <<>>
    BY <2>1, NoLock
  <2>2. CASE tail = <<Custody>>
    BY <2>2, OneLock, LockKinds
  <2> QED BY <2>1, <2>2
<1>3. /\ keys \in Seq(Locks) /\ Ordered(keys)
      /\ \A n \in DOMAIN keys : \E i \in S : keys[n] = StockOf(i)
      /\ \A i \in S : \E n \in DOMAIN keys : keys[n] = StockOf(i)
  BY DEF KeyLocks
<1>4. \A n \in DOMAIN keys : Class(keys[n]) = 2
  BY <1>3, LockKinds
<1>5. \A m \in DOMAIN section, n \in DOMAIN keys : Precedes(section[m], keys[n])
  BY <1>1, <1>4, LockKinds DEF Precedes
<1>6. PICK first : /\ first = section \o keys /\ first \in Seq(Locks) /\ Ordered(first)
                   /\ \A k : (\E n \in DOMAIN first : first[n] = k)
                        <=> (\E n \in DOMAIN section : section[n] = k)
                            \/ (\E n \in DOMAIN keys : keys[n] = k)
  <2>1. /\ section \o keys \in Seq(Locks) /\ Ordered(section \o keys)
        /\ \A k : (\E n \in DOMAIN (section \o keys) : (section \o keys)[n] = k)
              <=> (\E n \in DOMAIN section : section[n] = k) \/ (\E n \in DOMAIN keys : keys[n] = k)
    BY <1>1, <1>3, <1>5, JoinLocks
  <2> QED BY <2>1, Zenon
<1>7. \A n \in DOMAIN first : Class(first[n]) \in {1, 2}
  <2> SUFFICES ASSUME NEW n \in DOMAIN first PROVE Class(first[n]) \in {1, 2}
    OBVIOUS
  <2>1. (\E m \in DOMAIN section : section[m] = first[n]) \/ (\E m \in DOMAIN keys : keys[m] = first[n])
    BY <1>6
  <2> QED BY <1>1, <1>4, <2>1, LockKinds
<1>8. \A m \in DOMAIN first, n \in DOMAIN tail : Precedes(first[m], tail[n])
  BY <1>2, <1>7, LockKinds DEF Precedes
<1>9. PICK locks : /\ locks = first \o tail /\ locks \in Seq(Locks) /\ Ordered(locks)
                   /\ \A k : (\E n \in DOMAIN locks : locks[n] = k)
                        <=> (\E n \in DOMAIN first : first[n] = k)
                            \/ (\E n \in DOMAIN tail : tail[n] = k)
  <2>1. /\ first \o tail \in Seq(Locks) /\ Ordered(first \o tail)
        /\ \A k : (\E n \in DOMAIN (first \o tail) : (first \o tail)[n] = k)
              <=> (\E n \in DOMAIN first : first[n] = k) \/ (\E n \in DOMAIN tail : tail[n] = k)
    BY <1>2, <1>6, <1>8, JoinLocks
  <2> QED BY <2>1, Zenon
<1>10. NoWindow(locks)
  <2> SUFFICES ASSUME NEW n \in DOMAIN locks PROVE locks[n] # Window
    BY DEF NoWindow
  <2>1. (\E m \in DOMAIN first : first[m] = locks[n]) \/ (\E m \in DOMAIN tail : tail[m] = locks[n])
    BY <1>9
  <2>2. Class(locks[n]) \in {1, 2, 3}
    BY <1>2, <1>7, <2>1, LockKinds
  <2> QED BY <2>2, LockKinds
<1>11. Covers(locks, S, tail = <<Custody>>)
  BY <1>2, <1>3, <1>6, <1>9, Zenon DEF Covers
<1> QED BY <1>6, <1>9, <1>10, <1>11, Zenon

\* The locks of a correction of a registration: the old ones, then the new ones.
LEMMA LocksOfAmend ==
    ASSUME NEW old, NEW S, KeyLocks(old, S), NEW new, NEW T, KeyLocks(new, T), NEW day \in Days
    PROVE  LET locks == (<<Section(day)>> \o old) \o new
           IN  locks \in Seq(Locks) /\ NoWindow(locks) /\ Covers(locks, S \cup T, FALSE)
<1>1. PICK section : section = <<Section(day)>> /\ section \in Seq(Locks)
                     /\ \A n \in DOMAIN section : section[n] = Section(day)
  <2>1. PICK section : section = <<Section(day)>>
    OBVIOUS
  <2>2. Section(day) \in Locks
    BY LockKinds
  <2> QED BY <2>1, <2>2, OneLock
<1>2. PICK first : /\ first = section \o old /\ first \in Seq(Locks)
                   /\ \A k : (\E n \in DOMAIN first : first[n] = k)
                        <=> (\E n \in DOMAIN section : section[n] = k)
                            \/ (\E n \in DOMAIN old : old[n] = k)
  <2>1. /\ section \o old \in Seq(Locks)
        /\ \A k : (\E n \in DOMAIN (section \o old) : (section \o old)[n] = k)
              <=> (\E n \in DOMAIN section : section[n] = k) \/ (\E n \in DOMAIN old : old[n] = k)
    BY <1>1, JoinLocks DEF KeyLocks
  <2> QED BY <2>1, Zenon
<1>3. PICK locks : /\ locks = first \o new /\ locks \in Seq(Locks)
                   /\ \A k : (\E n \in DOMAIN locks : locks[n] = k)
                        <=> (\E n \in DOMAIN first : first[n] = k)
                            \/ (\E n \in DOMAIN new : new[n] = k)
  <2>1. /\ first \o new \in Seq(Locks)
        /\ \A k : (\E n \in DOMAIN (first \o new) : (first \o new)[n] = k)
              <=> (\E n \in DOMAIN first : first[n] = k) \/ (\E n \in DOMAIN new : new[n] = k)
    BY <1>2, JoinLocks DEF KeyLocks
  <2> QED BY <2>1, Zenon
<1>4. NoWindow(locks)
  <2> SUFFICES ASSUME NEW n \in DOMAIN locks PROVE locks[n] # Window
    BY DEF NoWindow
  <2>1. \/ \E m \in DOMAIN section : section[m] = locks[n]
        \/ \E m \in DOMAIN old : old[m] = locks[n]
        \/ \E m \in DOMAIN new : new[m] = locks[n]
    BY <1>2, <1>3
  <2>2. Class(locks[n]) \in {1, 2}
    BY <1>1, <2>1, LockKinds DEF KeyLocks
  <2> QED BY <2>2, LockKinds
<1>5. Covers(locks, S \cup T, FALSE)
  <2> SUFFICES ASSUME NEW i \in S \cup T PROVE \E n \in DOMAIN locks : locks[n] = StockOf(i)
    BY DEF Covers
  <2>1. (\E n \in DOMAIN old : old[n] = StockOf(i)) \/ (\E n \in DOMAIN new : new[n] = StockOf(i))
    BY DEF KeyLocks
  <2> QED BY <1>2, <1>3, <2>1
<1> QED BY <1>1, <1>2, <1>3, <1>4, <1>5, Zenon

--------------------
\* What the steps that only read do: they end, or take locks.

LEMMA AnsweredEnds == ASSUME NEW r, NEW d, Answered(r, d) PROVE EndsQuietly(r)
  BY DEF Answered, EndsQuietly, Closed

LEMMA RefusedEnds == ASSUME NEW r, Refused(r) PROVE EndsQuietly(r)
  BY DEF Refused, EndsQuietly, Closed

LEMMA EmptyJoin ==
    ASSUME NEW s \in Seq(Locks) PROVE <<>> \o s = s /\ s \o <<>> = s
  OBVIOUS

\* A request of an attempt that was sent.
LEMMA DoingRequest ==
    ASSUME TypeInv, NEW r \in Attempts, NEW op, Doing(r, op)
    PROVE  attempt[r].request \in Requests /\ attempt[r].request.op = op
  BY DEF Doing, TypeInv, AttemptsOK, AttemptOK

LEMMA NumbersOf ==
    ASSUME NEW t, NEW S, t \in Seq(S), NEW rows \in SUBSET DOMAIN t
    PROVE  rows \in SUBSET Nat /\ IsFiniteSet(rows) /\ 0 \notin rows
<1>1. Len(t) \in Nat /\ DOMAIN t = 1 .. Len(t)
  OBVIOUS
<1>2. IsFiniteSet(1 .. Len(t)) /\ rows \subseteq 1 .. Len(t)
  BY <1>1, FS_Interval
<1> QED BY <1>1, <1>2, FS_Subset

LEMMA ItemsFinite ==
    ASSUME LedgersTypeOK, NEW rows \in SUBSET DOMAIN stock
    PROVE  IsFiniteSet(ItemsOf(rows)) /\ ItemsOf(rows) \in SUBSET Items
<1>1. stock \in Seq(StockRows)
  BY DEF LedgersTypeOK
<1>3. IsFiniteSet(rows)
  BY <1>1, NumbersOf
<1> DEFINE f == [n \in rows |-> stock[n].item]
<1>4. f \in Surjection(rows, ItemsOf(rows))
  BY DEF Surjection, ItemsOf
<1>5. IsFiniteSet(ItemsOf(rows))
  BY <1>3, <1>4, FS_Surjection
<1>6. \A n \in rows : stock[n].item \in Items
  <2> SUFFICES ASSUME NEW n \in rows PROVE stock[n].item \in Items
    OBVIOUS
  <2>1. n \in DOMAIN stock
    OBVIOUS
  <2>2. stock[n] \in StockRows
    BY <1>1, <2>1
  <2> QED BY <2>2 DEF StockRows
<1> QED BY <1>5, <1>6 DEF ItemsOf

LEMMA NothingReadOK ==
    ASSUME DocsOK
    PROVE  /\ ReadOK(NothingRead) /\ ItemsOf(NothingRead.rows) = {}
           /\ NothingRead.owed = {} /\ NothingRead.rows = {}
<1>1. Len(docs) \in Nat
  BY DEF DocsOK
<1> QED BY <1>1 DEF ReadOK, NothingRead, Methods, ItemsOf, NoDoc

LEMMA OwnedRows ==
    ASSUME NEW rows, NEW head PROVE Owned(rows, head) \in SUBSET DOMAIN rows
  BY DEF Owned

\* The head of the chain of a document is a document.
LEMMA HeadType ==
    ASSUME DocsOK, NEW d \in DOMAIN docs
    PROVE  EffectHead(d) \in 0 .. Len(docs) /\ EffectHead(d) \in DOMAIN docs
<1>1. EffectHead(d) \in DOMAIN docs
  BY DocsNumbered, HeadIsLast DEF HeadOf
<1> QED BY <1>1 DEF DocsOK

LEMMA DateType == ASSUME DocsOK, NEW d \in DOMAIN docs PROVE DateOf(d) \in Days
<1>1. /\ docs[d].receipt \in Requests \cup {Unsent}
      /\ docs[d].request \in Requests \cup {OldOrders[n].request : n \in DOMAIN OldOrders}
  BY DEF DocsOK, IsDocument
<1> QED BY <1>1, OrdersConstants, OldOrdersPrepared DEF DateOf

LEMMA StartRegistrationReads ==
    ASSUME TypeInv, NEW r \in Attempts, StartRegistration(r) PROVE ReadsOnly(r)
<1> DEFINE q == attempt[r].request
           same == WithKey(Key("document", q))
<1>1. q \in Requests /\ q.op = "register" /\ attempt[r].pc = "start"
  BY DoingRequest DEF StartRegistration, At
<1>2. CASE same # {}
  <2>1. PICK d : Answered(r, d) \/ Refused(r)
    BY <1>2 DEF StartRegistration
  <2> QED BY <2>1, AnsweredEnds, RefusedEnds DEF ReadsOnly
<1>3. CASE same = {}
  <2>1. PICK section \in Sections :
           section = IF q.kind = "cancellation" THEN <<Section(q.date)>> ELSE <<>>
    BY <1>1, OrdersConstants DEF Sections
  <2>2. PICK keys : keys = KeysInOrder(DOMAIN q.lines, q) /\ KeyLocks(keys, DOMAIN q.lines)
    BY <1>1, RequestLines, KeysSpec DEF WithLines
  <2>3. PICK locks : /\ locks = section \o keys
                     /\ locks \in Seq(Locks) /\ Ordered(locks) /\ NoWindow(locks)
                     /\ Covers(locks, DOMAIN q.lines, FALSE)
    <3>1. section \in Seq(Locks) /\ keys \in Seq(Locks)
      BY <2>2, NoLock, OneLock, LockKinds DEF KeyLocks, Sections
    <3>2. section \o keys \in Seq(Locks)
      BY <3>1, JoinLocks
    <3>3. (section \o keys) \o <<>> = section \o keys
      BY <3>2, EmptyJoin
    <3>4. <<>> # <<Custody>>
      OBVIOUS
    <3>5. LET locks == (section \o keys) \o <<>>
          IN  /\ locks \in Seq(Locks) /\ Ordered(locks) /\ NoWindow(locks)
              /\ Covers(locks, DOMAIN q.lines, <<>> = <<Custody>>)
      BY <2>2, LocksInOrder
    <3> QED BY <3>3, <3>4, <3>5, Zenon
  <2>4. Lock(r, locks, "balances", NothingRead) /\ Unwritten
    BY <1>3, <2>1, <2>2, <2>3 DEF StartRegistration
  <2>5. Touched(q, NothingRead) = DOMAIN q.lines /\ ~TouchesFunds(q, NothingRead)
        /\ ReadOK(NothingRead)
    BY <1>1, NothingReadOK DEF TypeInv, Touched, TouchesFunds, WithLines
  <2>6. LocksFor(q, locks, "balances", NothingRead)
    BY <1>1, <2>3, <2>5 DEF LocksFor, ByDocument, Covers
  <2>7. TakesLocks(r, locks, "balances", NothingRead)
    BY <1>1, <2>4, <2>6 DEF TakesLocks
  <2> QED BY <2>7 DEF ReadsOnly
<1> QED BY <1>2, <1>3

LEMMA StartCountReads ==
    ASSUME TypeInv, NEW r \in Attempts, StartCount(r) PROVE ReadsOnly(r)
<1> DEFINE q == attempt[r].request
           same == {n \in DOMAIN counts : counts[n].key = q.key}
<1>1. q \in Requests /\ q.op = "count" /\ attempt[r].pc = "start"
  BY DoingRequest DEF StartCount, At
<1>2. CASE same # {}
  <2>1. PICK d : Answered(r, d) \/ Refused(r)
    BY <1>2 DEF StartCount
  <2> QED BY <2>1, AnsweredEnds, RefusedEnds DEF ReadsOnly
<1>3. CASE same = {}
  <2>1. PICK locks : locks = KeysInOrder(DOMAIN q.lines, q) /\ KeyLocks(locks, DOMAIN q.lines)
    BY <1>1, RequestLines, KeysSpec DEF WithLines
  <2>2. /\ locks \in Seq(Locks) /\ Ordered(locks) /\ NoWindow(locks)
        /\ Covers(locks, DOMAIN q.lines, FALSE)
    BY <2>1, LockKinds DEF KeyLocks, Covers, NoWindow
  <2>3. Lock(r, locks, "balances", NothingRead) /\ Unwritten
    BY <1>3, <2>1 DEF StartCount
  <2>4. Touched(q, NothingRead) = DOMAIN q.lines /\ ~TouchesFunds(q, NothingRead)
        /\ ReadOK(NothingRead)
    BY <1>1, NothingReadOK DEF TypeInv, Touched, TouchesFunds, WithLines
  <2>5. LocksFor(q, locks, "balances", NothingRead)
    BY <1>1, <2>2, <2>4 DEF LocksFor, ByDocument, Covers
  <2>6. TakesLocks(r, locks, "balances", NothingRead)
    BY <1>1, <2>3, <2>5 DEF TakesLocks
  <2> QED BY <2>6 DEF ReadsOnly
<1> QED BY <1>2, <1>3

LEMMA StartAmendReads ==
    ASSUME TypeInv, NEW r \in Attempts, StartAmend(r) PROVE ReadsOnly(r)
<1> DEFINE q == attempt[r].request
           kept == ReplyTo(Key("amend", q))
<1>1. q \in Requests /\ q.op = "amend" /\ attempt[r].pc = "start"
  BY DoingRequest DEF StartAmend, At
<1>2. CASE kept # {}
  <2>1. PICK p : Answered(r, p.doc) \/ Refused(r)
    BY <1>2 DEF StartAmend
  <2> QED BY <2>1, AnsweredEnds, RefusedEnds DEF ReadsOnly
<1>3. CASE kept = {}
  <2>1. PICK locks : locks = <<Window>> /\ locks \in Seq(Locks)
    BY OneLock, LockKinds
  <2>2. Lock(r, locks, "read", NothingRead) /\ Unwritten
    BY <1>3, <2>1 DEF StartAmend
  <2>3. LocksFor(q, locks, "read", NothingRead)
    BY <1>1, <2>1, NothingReadOK DEF LocksFor, TypeInv
  <2>4. TakesLocks(r, locks, "read", NothingRead)
    BY <1>1, <2>2, <2>3 DEF TakesLocks
  <2> QED BY <2>4 DEF ReadsOnly
<1> QED BY <1>2, <1>3

LEMMA AnswerReplayReads ==
    ASSUME NEW r, AnswerReplay(r) PROVE EndsQuietly(r)
<1>1. PICK p : Answered(r, p.doc) \/ Refused(r)
  BY DEF AnswerReplay
<1> QED BY <1>1, AnsweredEnds, RefusedEnds

\* The locks of a receipt, of a correction or of a reversal.
LEMMA LedgerLocksSpec ==
    ASSUME TypeInv, NEW S, IsFiniteSet(S), S \in SUBSET Items, NEW q,
           NEW section \in Sections, NEW tail, tail \in {<<>>, <<Custody>>}
    PROVE  LET locks == (section \o KeysInOrder(S, q)) \o tail
           IN  /\ locks \in Seq(Locks) /\ Ordered(locks) /\ NoWindow(locks)
               /\ Covers(locks, S, tail = <<Custody>>)
<1>1. PICK keys : keys = KeysInOrder(S, q) /\ KeyLocks(keys, S)
  BY KeysSpec
<1>2. LET locks == (section \o keys) \o tail
      IN  /\ locks \in Seq(Locks) /\ Ordered(locks) /\ NoWindow(locks)
          /\ Covers(locks, S, tail = <<Custody>>)
  BY <1>1, LocksInOrder
<1> QED BY <1>1, <1>2, Zenon

LEMMA ReadLocks ==
    ASSUME TypeInv, NEW q \in Requests, q.op \in WithLines, NEW rows \in SUBSET DOMAIN stock,
           NEW funds, NEW method, NEW locks, locks = LedgerLocks(q, rows, funds, method)
    PROVE  LedgerLocksOK(q, rows, funds, method, locks)
<1> DEFINE S == DOMAIN q.lines \cup ItemsOf(rows)
           tail == IF method = "custody" \/ funds # {} THEN <<Custody>> ELSE <<>>
<1>1. IsFiniteSet(S) /\ S \in SUBSET Items
  BY RequestLines, ItemsFinite, FS_Union DEF TypeInv
<1>2. LET l == (<<>> \o KeysInOrder(S, q)) \o tail
      IN  /\ l \in Seq(Locks) /\ Ordered(l) /\ NoWindow(l)
          /\ Covers(l, S, tail = <<Custody>>)
  BY <1>1, LedgerLocksSpec DEF Sections
<1>3. KeysInOrder(S, q) \in Seq(Locks)
  BY <1>1, KeysSpec DEF KeyLocks
<1>4. <<>> \o KeysInOrder(S, q) = KeysInOrder(S, q)
  BY <1>3, EmptyJoin
<1>5. tail = <<Custody>> <=> method = "custody" \/ funds # {}
  OBVIOUS
<1>6. locks = KeysInOrder(S, q) \o tail
  BY DEF LedgerLocks
<1> HIDE DEF tail, S
<1>7. locks \in Seq(Locks) /\ Ordered(locks) /\ NoWindow(locks) /\ Covers(locks, S, tail = <<Custody>>)
  BY <1>2, <1>4, <1>6, Zenon
<1> QED BY <1>5, <1>7 DEF S, Covers, LedgerLocksOK

LEMMA MethodType ==
    ASSUME NEW q \in Requests, q.op \in {"receive", "correct"}, NEW inherited \in Methods
    PROVE  MethodOf(q, inherited) \in Methods /\ q.fund \in Nat
  BY OrdersConstants DEF MethodOf

LEMMA SameRead ==
    ASSUME NEW a, a = [i \in ReadFields |-> a[i]],
           NEW method, NEW fund, NEW rows, NEW owed, NEW head,
           a.method = method, a.fund = fund, a.rows = rows, a.owed = owed, a.head = head
    PROVE  a = [method |-> method, fund |-> fund, rows |-> rows, owed |-> owed, head |-> head]
<1>1. PICK b : b = [method |-> method, fund |-> fund, rows |-> rows, owed |-> owed, head |-> head]
  OBVIOUS
<1>2. b = [i \in ReadFields |-> b[i]]
  BY <1>1 DEF ReadFields
<1>3. \A i \in ReadFields : a[i] = b[i]
  BY <1>1 DEF ReadFields
<1>4. a = b
  BY <1>2, <1>3
<1> QED BY <1>1, <1>4

\* What the reads leave of the record of nothing read.
LEMMA ReadOfReceipt ==
    ASSUME NEW method, NEW fund
    PROVE  [NothingRead EXCEPT !.method = method, !.fund = fund]
              = [method |-> method, fund |-> fund, rows |-> {}, owed |-> {}, head |-> NoDoc]
<1>1. PICK n, none, zero, nil : /\ n = NothingRead /\ none = "none" /\ zero = 0 /\ nil = {}
         /\ n = [method |-> none, fund |-> zero, rows |-> nil, owed |-> nil, head |-> zero]
  BY DEF NothingRead, NoDoc
<1>2. PICK read : read = [n EXCEPT !.method = method, !.fund = fund]
  OBVIOUS
<1>3. read = [i \in ReadFields |-> read[i]]
  BY <1>1, <1>2 DEF ReadFields
<1>4. /\ read.method = method /\ read.fund = fund /\ read.rows = nil
      /\ read.owed = nil /\ read.head = zero
  BY <1>1, <1>2
<1>5. read = [method |-> method, fund |-> fund, rows |-> nil, owed |-> nil, head |-> zero]
  BY <1>3, <1>4, SameRead
<1> QED BY <1>1, <1>2, <1>5, Zenon DEF NoDoc

LEMMA ReadOfCorrection ==
    ASSUME NEW method, NEW fund, NEW rows, NEW owed
    PROVE  CorrectionRead(method, fund, rows, owed)
              = [method |-> method, fund |-> fund, rows |-> rows, owed |-> owed, head |-> NoDoc]
<1>1. PICK n, none, zero, nil : /\ n = NothingRead /\ none = "none" /\ zero = 0 /\ nil = {}
         /\ n = [method |-> none, fund |-> zero, rows |-> nil, owed |-> nil, head |-> zero]
  BY DEF NothingRead, NoDoc
<1>2. PICK read : read = [n EXCEPT !.method = method, !.rows = rows, !.owed = owed, !.fund = fund]
  OBVIOUS
<1>3. read = [i \in ReadFields |-> read[i]]
  BY <1>1, <1>2 DEF ReadFields
<1>4. /\ read.method = method /\ read.fund = fund /\ read.rows = rows
      /\ read.owed = owed /\ read.head = zero
  BY <1>1, <1>2
<1>5. read = [method |-> method, fund |-> fund, rows |-> rows, owed |-> owed, head |-> zero]
  BY <1>3, <1>4, SameRead
<1> QED BY <1>1, <1>2, <1>5, Zenon DEF NoDoc, CorrectionRead

LEMMA ReadOfToggle ==
    ASSUME NEW rows, NEW owed, NEW head
    PROVE  [NothingRead EXCEPT !.rows = rows, !.owed = owed, !.head = head]
              = [method |-> "none", fund |-> 0, rows |-> rows, owed |-> owed, head |-> head]
<1>1. PICK n, none, zero, nil : /\ n = NothingRead /\ none = "none" /\ zero = 0 /\ nil = {}
         /\ n = [method |-> none, fund |-> zero, rows |-> nil, owed |-> nil, head |-> zero]
  BY DEF NothingRead, NoDoc
<1>2. PICK read : read = [n EXCEPT !.rows = rows, !.owed = owed, !.head = head]
  OBVIOUS
<1>3. read = [i \in ReadFields |-> read[i]]
  BY <1>1, <1>2 DEF ReadFields
<1>4. /\ read.method = none /\ read.fund = zero /\ read.rows = rows
      /\ read.owed = owed /\ read.head = head
  BY <1>1, <1>2
<1>5. read = [method |-> none, fund |-> zero, rows |-> rows, owed |-> owed, head |-> head]
  BY <1>3, <1>4, SameRead
<1> QED BY <1>1, <1>2, <1>5, Zenon DEF NoDoc

LEMMA ReadOfAmend ==
    ASSUME NEW rows, NEW head
    PROVE  [NothingRead EXCEPT !.rows = rows, !.head = head]
              = [method |-> "none", fund |-> 0, rows |-> rows, owed |-> {}, head |-> head]
<1>1. PICK n, none, zero, nil : /\ n = NothingRead /\ none = "none" /\ zero = 0 /\ nil = {}
         /\ n = [method |-> none, fund |-> zero, rows |-> nil, owed |-> nil, head |-> zero]
  BY DEF NothingRead, NoDoc
<1>2. PICK read : read = [n EXCEPT !.rows = rows, !.head = head]
  OBVIOUS
<1>3. read = [i \in ReadFields |-> read[i]]
  BY <1>1, <1>2 DEF ReadFields
<1>4. /\ read.method = none /\ read.fund = zero /\ read.rows = rows
      /\ read.owed = nil /\ read.head = head
  BY <1>1, <1>2
<1>5. read = [method |-> none, fund |-> zero, rows |-> rows, owed |-> nil, head |-> head]
  BY <1>3, <1>4, SameRead
<1> QED BY <1>1, <1>2, <1>5, Zenon DEF NoDoc

LEMMA ReadReceiptReads ==
    ASSUME TypeInv, NEW r \in Attempts, ReadReceipt(r)
    PROVE  \/ ReadsOnly(r)
           \/ \E p \in [key : Keys, request : Requests, doc : DOMAIN docs] :
                /\ replies' = replies \cup {p} /\ Ended(r, "done", p.doc)
                /\ UNCHANGED <<stock, custody, docs, counts, prices, lastPrice>>
<1> DEFINE q == attempt[r].request
           d == q.doc
           method == MethodOf(q, "custody")
           again == IsPurchase(d) /\ docs[d].status = "received" /\ ReceivedUnder(d, q.key)
           fresh == /\ IsPurchase(d) /\ docs[d].status = "prepared"
                    /\ docs[d].revision = q.revision
                    /\ method = "cash" => Amount(q.lines) <= CashAvailable(NoDoc, q.date)
           read == [NothingRead EXCEPT !.method = method, !.fund = q.fund]
           locks == LedgerLocks(q, {}, {}, method)
<1>1. q \in Requests /\ q.op = "receive" /\ attempt[r].pc = "read"
  BY DoingRequest DEF ReadReceipt, At
<1>2. \/ /\ again /\ docs[d].receipt = q
         /\ replies' = replies \cup {[key |-> Key("receive", q), request |-> q, doc |-> d]}
         /\ Ended(r, "done", d)
         /\ UNCHANGED <<stock, custody, docs, counts, prices, lastPrice>>
      \/ Refused(r)
      \/ fresh /\ Lock(r, locks, "balances", read) /\ Unwritten
  BY DEF ReadReceipt
<1>3. CASE /\ again /\ docs[d].receipt = q
           /\ replies' = replies \cup {[key |-> Key("receive", q), request |-> q, doc |-> d]}
           /\ Ended(r, "done", d)
           /\ UNCHANGED <<stock, custody, docs, counts, prices, lastPrice>>
  <2>1. d \in DOMAIN docs
    BY <1>3 DEF IsPurchase
  <2>2. Key("receive", q) \in Keys
    BY <1>1 DEF Keys, Tags
  <2>3. PICK p : p = [key |-> Key("receive", q), request |-> q, doc |-> d]
    OBVIOUS
  <2>4. p \in [key : Keys, request : Requests, doc : DOMAIN docs] /\ p.doc = d
    BY <1>1, <2>1, <2>2, <2>3
  <2> QED BY <1>3, <2>3, <2>4
<1>4. CASE Refused(r)
  BY <1>4, RefusedEnds DEF ReadsOnly
<1>5. CASE fresh /\ Lock(r, locks, "balances", read) /\ Unwritten
  <2>1. method \in Methods /\ q.fund \in Nat
    BY <1>1, MethodType DEF Methods
  <2>2. d \in DOMAIN docs
    BY <1>5 DEF IsPurchase
  <2>11. docs[d].of = NoDoc /\ docs[d].type = "purchase" /\ docs[d].status = "prepared"
    BY <1>5 DEF IsPurchase
  <2> HIDE DEF method, fresh, again
  <2>3. /\ read.method = method /\ read.rows = {} /\ read.owed = {} /\ ReadOK(read)
        /\ ItemsOf(read.rows) = {}
    <3>0. PICK f : f = q.fund /\ read = [NothingRead EXCEPT !.method = method, !.fund = f]
      OBVIOUS
    <3> HIDE DEF read
    <3>1. read = [method |-> method, fund |-> f, rows |-> {}, owed |-> {}, head |-> NoDoc]
      BY <3>0, ReadOfReceipt
    <3>2. Len(docs) \in Nat
      BY DEF TypeInv, DocsOK
    <3>3. /\ read.method = method /\ read.fund = f /\ read.rows = {} /\ read.owed = {}
          /\ read.head = 0
      BY <3>1 DEF NoDoc
    <3>4. read = [method |-> read.method, fund |-> read.fund, rows |-> read.rows,
                  owed |-> read.owed, head |-> read.head]
      BY <3>1
    <3>5. ReadOK(read)
      BY <2>1, <3>0, <3>2, <3>3, <3>4 DEF ReadOK
    <3>6. ItemsOf(read.rows) = {}
      BY <3>3 DEF ItemsOf
    <3> QED BY <3>3, <3>5, <3>6
  <2>4. /\ locks \in Seq(Locks) /\ Ordered(locks) /\ NoWindow(locks)
        /\ Covers(locks, DOMAIN q.lines \cup ItemsOf({}), method = "custody" \/ {} # {})
    <3>0. PICK none : none = {}
      OBVIOUS
    <3>1. none \in SUBSET DOMAIN stock /\ q.op \in WithLines
      BY <1>1, <3>0 DEF WithLines
    <3>2. PICK l : l = LedgerLocks(q, none, none, method)
      OBVIOUS
    <3>4. l = locks
      BY <3>0, <3>2
    <3> HIDE DEF locks
    <3>3. LedgerLocksOK(q, none, none, method, l)
      BY <1>1, <3>1, <3>2, ReadLocks
    <3> QED BY <3>0, <3>3, <3>4, Zenon DEF LedgerLocksOK
  <2> HIDE DEF read, locks
  <2>5. Touched(q, read) = DOMAIN q.lines \cup ItemsOf({})
    BY <1>1, <2>3 DEF Touched, WithLines
  <2>6. TouchesFunds(q, read) <=> (method = "custody" \/ {} # {})
    BY <1>1, <2>3 DEF TouchesFunds
  <2>7. Covers(locks, Touched(q, read), TouchesFunds(q, read))
    BY <2>4, <2>5, <2>6 DEF Covers
  <2>10. Certified(q, read)
    BY <1>1, <2>2, <2>11 DEF Certified, Standing, HeadRead
  <2>8. LocksFor(q, locks, "balances", read)
    BY <1>1, <2>2, <2>3, <2>4, <2>7, <2>10 DEF LocksFor
  <2>9. TakesLocks(r, locks, "balances", read)
    BY <1>1, <1>5, <2>8 DEF TakesLocks
  <2> QED BY <2>9 DEF ReadsOnly
<1> QED BY <1>2, <1>3, <1>4, <1>5

LEMMA ReadCorrectionReads ==
    ASSUME TypeInv, NEW r \in Attempts, ReadCorrection(r) PROVE ReadsOnly(r)
<1> DEFINE q == attempt[r].request
           d == q.doc
           same == WithKey(Key("document", q))
           fresh == IsPurchase(d) /\ docs[d].status = "received" /\ docs[d].revision = q.revision
           method == MethodOf(q, docs[d].method)
           head  == EffectHead(d)
           rows  == Owned(stock, head)
           funds == Owned(custody, head)
           fund  == IF q.fund > 0 THEN q.fund ELSE docs[d].fund
           read  == [NothingRead EXCEPT !.method = method, !.rows = rows, !.owed = funds,
                                        !.fund = fund]
           locks == LedgerLocks(q, rows, funds, method)
<1>1. q \in Requests /\ q.op = "correct" /\ attempt[r].pc = "read"
  BY DoingRequest DEF ReadCorrection, At
<1>2. \/ \E e : Answered(r, e) \/ Refused(r)
      \/ fresh /\ Lock(r, locks, "balances", read) /\ Unwritten
  BY Zenon DEF ReadCorrection
<1>3. CASE \E e : Answered(r, e) \/ Refused(r)
  BY <1>3, AnsweredEnds, RefusedEnds DEF ReadsOnly
<1>4. CASE fresh /\ Lock(r, locks, "balances", read) /\ Unwritten
  <2>1. d \in DOMAIN docs
    BY <1>4 DEF IsPurchase
  <2>2. docs[d].method \in Methods /\ docs[d].fund \in Nat
    BY <2>1 DEF TypeInv, DocsOK, IsDocument
  <2>3. method \in Methods /\ fund \in Nat
    BY <1>1, <2>2, MethodType
  <2>4. rows \in SUBSET DOMAIN stock /\ funds \in SUBSET DOMAIN custody
    BY OwnedRows
  <2>12. /\ docs[d].of = NoDoc /\ docs[d].type = "purchase" /\ docs[d].status = "received"
         /\ rows = Owned(stock, EffectHead(d)) /\ funds = Owned(custody, EffectHead(d))
    BY <1>4 DEF IsPurchase
  <2> HIDE DEF method, fresh, rows, funds, fund, head
  <2>5. /\ read.method = method /\ read.rows = rows /\ read.owed = funds /\ ReadOK(read)
    <3>1. read = [method |-> method, fund |-> fund, rows |-> rows, owed |-> funds, head |-> NoDoc]
      <4>1. read = CorrectionRead(method, fund, rows, funds)
        BY DEF CorrectionRead
      <4> HIDE DEF read
      <4> QED BY <4>1, ReadOfCorrection
    <3>2. Len(docs) \in Nat
      BY DEF TypeInv, DocsOK
    <3> HIDE DEF read
    <3> QED BY <2>3, <2>4, <3>1, <3>2 DEF ReadOK, NoDoc
  <2>6. /\ locks \in Seq(Locks) /\ Ordered(locks) /\ NoWindow(locks)
        /\ Covers(locks, DOMAIN q.lines \cup ItemsOf(rows), method = "custody" \/ funds # {})
    BY <1>1, <2>4, ReadLocks DEF WithLines, LedgerLocksOK
  <2> HIDE DEF read, locks
  <2>7. Touched(q, read) = DOMAIN q.lines \cup ItemsOf(rows)
    BY <1>1, <2>5 DEF Touched, WithLines
  <2>8. TouchesFunds(q, read) <=> (method = "custody" \/ funds # {})
    BY <1>1, <2>5 DEF TouchesFunds
  <2>9. Covers(locks, Touched(q, read), TouchesFunds(q, read))
    BY <2>6, <2>7, <2>8 DEF Covers
  <2>13. Certified(q, read)
    BY <1>1, <2>1, <2>5, <2>12 DEF Certified, Standing, HeadRead
  <2>10. LocksFor(q, locks, "balances", read)
    BY <1>1, <2>1, <2>5, <2>6, <2>9, <2>13 DEF LocksFor
  <2>11. TakesLocks(r, locks, "balances", read)
    BY <1>1, <1>4, <2>10 DEF TakesLocks
  <2> QED BY <2>11 DEF ReadsOnly
<1> QED BY <1>2, <1>3, <1>4

LEMMA ReadToggleReads ==
    ASSUME TypeInv, NEW r \in Attempts, ReadToggle(r) PROVE ReadsOnly(r)
<1> DEFINE q == attempt[r].request
           d == q.doc
           head  == EffectHead(d)
           rows  == Owned(stock, head)
           funds == Owned(custody, head)
           section == IF docs[d].type = "purchase" THEN <<>> ELSE <<Section(DateOf(d))>>
           tail == IF funds = {} THEN <<>> ELSE <<Custody>>
           read  == [NothingRead EXCEPT !.rows = rows, !.owed = funds, !.head = head]
           locks == (section \o KeysInOrder(ItemsOf(rows), q)) \o tail
<1>1. q \in Requests /\ q.op \in {"reverse", "undo"} /\ attempt[r].pc = "read"
  BY DoingRequest DEF ReadToggle, At
<1>2. \/ \E e : Answered(r, e) \/ Refused(r)
      \/ Togglable(d, q.op = "undo") /\ Lock(r, locks, "balances", read) /\ Unwritten
  BY Zenon DEF ReadToggle
<1>3. CASE \E e : Answered(r, e) \/ Refused(r)
  BY <1>3, AnsweredEnds, RefusedEnds DEF ReadsOnly
<1>4. CASE Togglable(d, q.op = "undo") /\ Lock(r, locks, "balances", read) /\ Unwritten
  <2>1. d \in DOMAIN docs
    BY <1>4 DEF Togglable
  <2>2. head \in 0 .. Len(docs)
    BY <2>1, HeadType DEF TypeInv
  <2>3. section \in Sections /\ tail \in {<<>>, <<Custody>>}
        /\ (tail = <<Custody>> <=> funds # {})
    BY <2>1, DateType DEF TypeInv, Sections
  <2>4. rows \in SUBSET DOMAIN stock /\ funds \in SUBSET DOMAIN custody
    BY OwnedRows
  <2>12. /\ docs[d].of = NoDoc /\ head = EffectHead(d)
         /\ docs[d].status = IF q.op = "undo" THEN "reversed" ELSE "received"
         /\ q.op = "undo" => ~docs[d].corrected
         /\ rows = Owned(stock, EffectHead(d)) /\ funds = Owned(custody, EffectHead(d))
    BY <1>4 DEF Togglable
  <2> HIDE DEF rows, funds, head, section, tail
  <2>5. /\ read.rows = rows /\ read.owed = funds /\ read.head = head /\ ReadOK(read)
    <3>1. read = [method |-> "none", fund |-> 0, rows |-> rows, owed |-> funds, head |-> head]
      BY ReadOfToggle
    <3>2. "none" \in Methods
      BY DEF Methods
    <3> HIDE DEF read
    <3> QED BY <2>2, <2>4, <3>1, <3>2 DEF ReadOK
  <2>6. /\ locks \in Seq(Locks) /\ Ordered(locks) /\ NoWindow(locks)
        /\ Covers(locks, ItemsOf(rows), tail = <<Custody>>)
    BY <2>3, <2>4, ItemsFinite, LedgerLocksSpec DEF TypeInv
  <2> HIDE DEF read, locks
  <2>7. Touched(q, read) = ItemsOf(rows)
    BY <1>1, <2>5 DEF Touched, WithLines
  <2>8. TouchesFunds(q, read) <=> funds # {}
    BY <1>1, <2>5 DEF TouchesFunds
  <2>9. Covers(locks, Touched(q, read), TouchesFunds(q, read))
    BY <2>3, <2>6, <2>7, <2>8 DEF Covers
  <2>13. Certified(q, read)
    BY <1>1, <2>1, <2>5, <2>12 DEF Certified, Standing, HeadRead
  <2>10. LocksFor(q, locks, "balances", read)
    BY <1>1, <2>1, <2>5, <2>6, <2>9, <2>13 DEF LocksFor
  <2>11. TakesLocks(r, locks, "balances", read)
    BY <1>1, <1>4, <2>10 DEF TakesLocks
  <2> QED BY <2>11 DEF ReadsOnly
<1> QED BY <1>2, <1>3, <1>4

LEMMA ReadAmendReads ==
    ASSUME TypeInv, NEW r \in Attempts, ReadAmend(r) PROVE ReadsOnly(r)
<1> DEFINE q == attempt[r].request
           d == q.doc
           head == EffectHead(d)
           rows == Owned(stock, head)
           read == [NothingRead EXCEPT !.rows = rows, !.head = head]
           old  == KeysInOrder(ItemsOf(rows), q)
           new  == KeysInOrder(DOMAIN q.lines, q)
           locks == (<<Section(DateOf(d))>> \o old) \o new
           Amendable == /\ d \in DOMAIN docs /\ docs[d].type = "issue" /\ docs[d].of = NoDoc
                        /\ docs[d].status = "received" /\ docs[d].revision = q.revision
<1>1. q \in Requests /\ q.op = "amend" /\ attempt[r].pc = "read"
  BY DoingRequest DEF ReadAmend, At
<1>2. \/ Refused(r)
      \/ Amendable /\ Lock(r, locks, "balances", read) /\ Unwritten
  BY Zenon DEF ReadAmend
<1>3. CASE Refused(r)
  BY <1>3, RefusedEnds DEF ReadsOnly
<1>4. CASE Amendable /\ Lock(r, locks, "balances", read) /\ Unwritten
  <2>2. head \in 0 .. Len(docs)
    BY <1>4, HeadType DEF TypeInv
  <2>4. rows \in SUBSET DOMAIN stock
    BY OwnedRows
  <2>3. IsFiniteSet(DOMAIN q.lines) /\ DOMAIN q.lines \in SUBSET Items
    BY <1>1, RequestLines DEF WithLines
  <2>5. IsFiniteSet(ItemsOf(rows)) /\ ItemsOf(rows) \in SUBSET Items
    BY <2>4, ItemsFinite DEF TypeInv
  <2>13. head = EffectHead(d) /\ rows = Owned(stock, EffectHead(d))
    OBVIOUS
  <2> HIDE DEF rows, head
  <2>6. /\ read.rows = rows /\ read.owed = {} /\ read.head = head /\ ReadOK(read)
    <3>1. read = [method |-> "none", fund |-> 0, rows |-> rows, owed |-> {}, head |-> head]
      BY ReadOfAmend
    <3>2. "none" \in Methods
      BY DEF Methods
    <3> HIDE DEF read
    <3> QED BY <2>2, <2>4, <3>1, <3>2 DEF ReadOK
  <2>7. KeyLocks(old, ItemsOf(rows)) /\ KeyLocks(new, DOMAIN q.lines)
    BY <2>3, <2>5, KeysSpec
  <2> HIDE DEF old, new
  <2>8. locks \in Seq(Locks) /\ NoWindow(locks) /\ Covers(locks, ItemsOf(rows) \cup DOMAIN q.lines, FALSE)
    BY <1>4, <2>7, DateType, LocksOfAmend DEF TypeInv
  <2> HIDE DEF read, locks
  <2>9. Touched(q, read) = ItemsOf(rows) \cup DOMAIN q.lines /\ ~TouchesFunds(q, read)
    BY <1>1, <2>6 DEF Touched, TouchesFunds, WithLines
  <2>10. Covers(locks, Touched(q, read), TouchesFunds(q, read))
    BY <2>8, <2>9 DEF Covers
  <2>14. Certified(q, read)
    BY <1>1, <1>4, <2>6, <2>13 DEF Certified, Standing, HeadRead
  <2>11. LocksFor(q, locks, "balances", read)
    BY <1>1, <1>4, <2>6, <2>8, <2>10, <2>14 DEF LocksFor
  <2>12. TakesLocks(r, locks, "balances", read)
    BY <1>1, <1>4, <2>11 DEF TakesLocks
  <2> QED BY <2>12 DEF ReadsOnly
<1> QED BY <1>2, <1>3, <1>4

--------------------
\* The documents.

LEMMA DocumentOfFields ==
    ASSUME NEW doc, doc = [i \in DocFields |-> doc[i]], FieldsOK(doc)
    PROVE  IsDocument(doc)
<1> DEFINE R == [type : {"purchase", "issue", "cancellation"},
              status : {"prepared", "received", "reversed"}, method : Methods, fund : Nat,
              lines : {doc.lines}, of : Nat, key : DocKeys,
              request : DocRequests,
              receipt : Requests \cup {Unsent}, revision : Nat, corrected : BOOLEAN]
<1>1. doc \in R
  <2>1. doc = [type |-> doc.type, status |-> doc.status, method |-> doc.method,
               fund |-> doc.fund, lines |-> doc.lines, of |-> doc.of, key |-> doc.key,
               request |-> doc.request, receipt |-> doc.receipt, revision |-> doc.revision,
               corrected |-> doc.corrected]
    <3>1. PICK b : b = [type |-> doc.type, status |-> doc.status, method |-> doc.method,
               fund |-> doc.fund, lines |-> doc.lines, of |-> doc.of, key |-> doc.key,
               request |-> doc.request, receipt |-> doc.receipt, revision |-> doc.revision,
               corrected |-> doc.corrected]
      OBVIOUS
    <3>2. b = [i \in DocFields |-> b[i]]
      BY <3>1 DEF DocFields
    <3>3. \A i \in DocFields : doc[i] = b[i]
      BY <3>1 DEF DocFields
    <3>4. doc = b
      BY <3>2, <3>3
    <3> QED BY <3>1, <3>4
  <2> QED BY <2>1 DEF FieldsOK
<1> QED BY <1>1 DEF IsDocument, FieldsOK, DocKeys, DocRequests

LEMMA FieldsOfDocument ==
    ASSUME NEW doc, IsDocument(doc)
    PROVE  doc = [i \in DocFields |-> doc[i]] /\ FieldsOK(doc)
  BY DEF IsDocument, FieldsOK, DocKeys, DocRequests, DocFields

LEMMA OverItsRange ==
    ASSUME NEW S, NEW t \in Seq(S)
    PROVE  t \in Seq(Range(t)) /\ t \in Seq(S \cup Range(t))
  BY DEF Range

LEMMA DocsExtended ==
    ASSUME NEW t, DocTable(t), NEW S, NEW u \in Seq(S), DOMAIN t \subseteq DOMAIN u,
           \A d \in DOMAIN t : IsDocument(u[d]) /\ u[d].of = t[d].of,
           \A d \in DOMAIN u \ DOMAIN t : IsDocument(u[d]) /\ u[d].of < d
    PROVE  DocTable(u)
<1>1. u \in Seq(Range(u))
  BY OverItsRange
<1>2. \A d \in DOMAIN u : IsDocument(u[d]) /\ u[d].of < d
  BY DEF DocTable
<1> QED BY <1>1, <1>2 DEF DocTable

\* One document is changed, or one or two are added.
LEMMA DocChanged ==
    ASSUME NEW t, DocTable(t), NEW d, NEW x, d \in DOMAIN t => IsDocument(x) /\ x.of = t[d].of,
           NEW u, u = [t EXCEPT ![d] = x]
    PROVE  DocTable(u) /\ DOMAIN u = DOMAIN t
<1>1. PICK S : t \in Seq(S) /\ (d \in DOMAIN t => x \in S)
  <2>1. t \in Seq(Range(t) \cup {x})
    BY OverItsRange DEF DocTable
  <2> QED BY <2>1
<1>2. u \in Seq(S) /\ DOMAIN u = DOMAIN t /\ \A j \in DOMAIN t : u[j] = IF j = d THEN x ELSE t[j]
  BY <1>1, Sums!Rewritten
<1>3. \A j \in DOMAIN t : IsDocument(u[j]) /\ u[j].of = t[j].of
  BY <1>2 DEF DocTable
<1> QED BY <1>2, <1>3, DocsExtended

LEMMA DocAppended ==
    ASSUME NEW t, DocTable(t), NEW x, IsDocument(x), x.of <= Len(t), NEW u, u = Append(t, x)
    PROVE  /\ DocTable(u) /\ DOMAIN u = DOMAIN t \cup {Len(t) + 1} /\ Len(u) = Len(t) + 1
           /\ Len(t) \in Nat /\ Len(t) + 1 \notin DOMAIN t
<1>1. PICK S : t \in Seq(S) /\ x \in S
  <2>1. t \in Seq(Range(t) \cup {x})
    BY OverItsRange DEF DocTable
  <2> QED BY <2>1
<1>2. /\ u \in Seq(S) /\ DOMAIN u = DOMAIN t \cup {Len(t) + 1} /\ Len(u) = Len(t) + 1
      /\ Len(t) \in Nat /\ Len(t) + 1 \notin DOMAIN t
  BY <1>1, Sums!Appended
<1>3. u[Len(t) + 1] = x /\ \A j \in DOMAIN t : u[j] = t[j]
  BY <1>1
<1>4. x.of \in Nat
  BY FieldsOfDocument DEF FieldsOK
<1>5. x.of < Len(t) + 1
  BY <1>2, <1>4
<1>6. \A j \in DOMAIN t : IsDocument(u[j]) /\ u[j].of = t[j].of
  BY <1>3 DEF DocTable
<1>7. \A j \in DOMAIN u \ DOMAIN t : IsDocument(u[j]) /\ u[j].of < j
  BY <1>2, <1>3, <1>5
<1> QED BY <1>2, <1>6, <1>7, DocsExtended

--------------------
\* The movements of the operations.

LEMMA MovementIs ==
    ASSUME NEW d \in Nat, NEW kind \in MoveKinds, NEW i \in Items, NEW qty \in Int,
           NEW value \in Int, NEW cost, NEW row \in Nat,
           kind = "receipt" => qty \in Nat \ {0} /\ value \in Nat,
           kind \in {"issue", "cancellation"} => cost \in Nat,
           IF kind = "reversal" THEN row \in DOMAIN stock ELSE row = 0,
           NEW m, m = Movement(d, kind, i, qty, value, cost, row)
    PROVE  /\ IsMove(m) /\ m.item = i /\ m.doc = d /\ m.kind = kind /\ m.qty = qty
           /\ m.value = value /\ m.reverses = row
  BY DEF Movement, IsMove

\* A list made of a listed set.
LEMMA EachSeq ==
    ASSUME NEW S, NEW up, Lists(up, S), NEW s, s = [n \in DOMAIN up |-> s[n]]
    PROVE  /\ s \in Seq(Range(s)) /\ Cardinality(S) \in Nat
           /\ DOMAIN s = 1 .. Cardinality(S) /\ DOMAIN s = DOMAIN up
           /\ Len(s) = Cardinality(S)
<1>1. PICK c \in Nat : c = Cardinality(S) /\ DOMAIN up = 1 .. c
  BY DEF Lists
<1>2. s = [n \in 1 .. c |-> s[n]]
  BY <1>1
<1>3. s \in [1 .. c -> Range(s)]
  BY <1>2 DEF Range
<1>4. s \in Seq(Range(s)) /\ DOMAIN s = 1 .. c /\ Len(s) = c
  BY <1>3
<1> QED BY <1>1, <1>4

LEMMA ReceiptsMove ==
    ASSUME NEW d \in Nat, NEW lines, IsLines(lines, Bought)
    PROVE  MovesOver(Receipts(d, lines), Cardinality(DOMAIN lines), DOMAIN lines)
<1> DEFINE up == Upwards(DOMAIN lines)
           ms == Receipts(d, lines)
           c == Cardinality(DOMAIN lines)
<1>0. DOMAIN lines \in SUBSET Nat /\ IsFiniteSet(DOMAIN lines) /\ DOMAIN lines \in SUBSET Items
  BY StockConstants DEF IsLines
<1>1. Lists(up, DOMAIN lines)
  BY <1>0, UpwardsLists
<1>2. ms = [n \in DOMAIN up |-> Movement(d, "receipt", up[n], lines[up[n]].qty,
                                         lines[up[n]].qty * lines[up[n]].price, 0, 0)]
  BY DEF Receipts, Each
<1> HIDE DEF up, ms
<1>3. ms = [n \in DOMAIN up |-> ms[n]]
  BY <1>2
<1>4. /\ ms \in Seq(Range(ms)) /\ c \in Nat /\ DOMAIN ms = 1 .. c /\ DOMAIN ms = DOMAIN up
  BY <1>1, <1>3, EachSeq
<1>5. \A k \in 1 .. c : IsMove(ms[k]) /\ ms[k].item \in DOMAIN lines
  <2> SUFFICES ASSUME NEW k \in 1 .. c PROVE IsMove(ms[k]) /\ ms[k].item \in DOMAIN lines
    OBVIOUS
  <2>1. PICK i \in DOMAIN lines : i = up[k] /\ i \in Items
    BY <1>0, <1>1, <1>4 DEF Lists
  <2>2. lines[i].qty \in Nat \ {0} /\ lines[i].price \in Nat
    BY DEF IsLines, Bought
  <2>3. PICK qty \in Nat \ {0}, value \in Nat : qty = lines[i].qty /\ value = qty * lines[i].price
    BY <2>2
  <2>4. ms[k] = Movement(d, "receipt", i, qty, value, 0, 0)
    BY <1>2, <1>4, <2>1, <2>3
  <2>5. "receipt" \in MoveKinds /\ qty \in Int /\ value \in Int /\ 0 \in Nat
    BY DEF MoveKinds
  <2>6. IsMove(ms[k]) /\ ms[k].item = i
    BY <2>1, <2>4, <2>5, MovementIs
  <2> QED BY <2>6
<1> QED BY <1>4, <1>5 DEF MovesOver, MoveList, ms

LEMMA IssuesMove ==
    ASSUME NEW d \in Nat, NEW kind \in {"issue", "cancellation"}, NEW lines,
           IsLines(lines, Used), NEW cost, \A i \in DOMAIN lines : cost[i] \in Nat
    PROVE  MovesOver(Issues(d, kind, lines, cost), Cardinality(DOMAIN lines), DOMAIN lines)
<1> DEFINE up == Upwards(DOMAIN lines)
           ms == Issues(d, kind, lines, cost)
           c == Cardinality(DOMAIN lines)
<1>0. DOMAIN lines \in SUBSET Nat /\ IsFiniteSet(DOMAIN lines) /\ DOMAIN lines \in SUBSET Items
  BY StockConstants DEF IsLines
<1>1. Lists(up, DOMAIN lines)
  BY <1>0, UpwardsLists
<1>2. ms = [n \in DOMAIN up |-> Movement(d, kind, up[n], lines[up[n]].qty, 0, cost[up[n]], 0)]
  BY DEF Issues, Each
<1> HIDE DEF up, ms
<1>3. ms = [n \in DOMAIN up |-> ms[n]]
  BY <1>2
<1>4. /\ ms \in Seq(Range(ms)) /\ c \in Nat /\ DOMAIN ms = 1 .. c /\ DOMAIN ms = DOMAIN up
  BY <1>1, <1>3, EachSeq
<1>5. \A k \in 1 .. c : IsMove(ms[k]) /\ ms[k].item \in DOMAIN lines
  <2> SUFFICES ASSUME NEW k \in 1 .. c PROVE IsMove(ms[k]) /\ ms[k].item \in DOMAIN lines
    OBVIOUS
  <2>1. PICK i \in DOMAIN lines : i = up[k] /\ i \in Items
    BY <1>0, <1>1, <1>4 DEF Lists
  <2>2. PICK qty \in Int, unit \in Nat : qty = lines[i].qty /\ unit = cost[i]
    BY DEF IsLines, Used
  <2>4. ms[k] = Movement(d, kind, i, qty, 0, unit, 0)
    BY <1>2, <1>4, <2>1, <2>2
  <2>5. kind \in MoveKinds /\ 0 \in Int /\ 0 \in Nat /\ kind # "receipt" /\ kind # "reversal"
    BY DEF MoveKinds
  <2>6. IsMove(ms[k]) /\ ms[k].item = i
    BY <2>1, <2>4, <2>5, MovementIs
  <2> QED BY <2>6
<1> QED BY <1>4, <1>5 DEF MovesOver, MoveList, ms

LEMMA StocktakesMove ==
    ASSUME NEW lines, IsLines(lines, [qty : Nat])
    PROVE  MovesOver(Stocktakes(lines), Cardinality(DOMAIN lines), DOMAIN lines)
<1> DEFINE up == Upwards(DOMAIN lines)
           ms == Stocktakes(lines)
           c == Cardinality(DOMAIN lines)
<1>0. DOMAIN lines \in SUBSET Nat /\ IsFiniteSet(DOMAIN lines) /\ DOMAIN lines \in SUBSET Items
  BY StockConstants DEF IsLines
<1>1. Lists(up, DOMAIN lines)
  BY <1>0, UpwardsLists
<1>2. ms = [n \in DOMAIN up |-> Movement(NoDoc, "stocktake", up[n], lines[up[n]].qty, 0, 0, 0)]
  BY DEF Stocktakes, Each
<1> HIDE DEF up, ms
<1>3. ms = [n \in DOMAIN up |-> ms[n]]
  BY <1>2
<1>4. /\ ms \in Seq(Range(ms)) /\ c \in Nat /\ DOMAIN ms = 1 .. c /\ DOMAIN ms = DOMAIN up
  BY <1>1, <1>3, EachSeq
<1>5. \A k \in 1 .. c : IsMove(ms[k]) /\ ms[k].item \in DOMAIN lines
  <2> SUFFICES ASSUME NEW k \in 1 .. c PROVE IsMove(ms[k]) /\ ms[k].item \in DOMAIN lines
    OBVIOUS
  <2>1. PICK i \in DOMAIN lines : i = up[k] /\ i \in Items
    BY <1>0, <1>1, <1>4 DEF Lists
  <2>2. PICK qty \in Int : qty = lines[i].qty
    BY DEF IsLines
  <2>4. ms[k] = Movement(NoDoc, "stocktake", i, qty, 0, 0, 0)
    BY <1>2, <1>4, <2>1, <2>2
  <2>5. "stocktake" \in MoveKinds /\ 0 \in Int /\ 0 \in Nat /\ NoDoc \in Nat
    BY DEF MoveKinds, NoDoc
  <2>6. IsMove(ms[k]) /\ ms[k].item = i
    BY <2>1, <2>4, <2>5, MovementIs
  <2> QED BY <2>6
<1> QED BY <1>4, <1>5 DEF MovesOver, MoveList, ms

LEMMA ReversalsMove ==
    ASSUME LedgersTypeOK, NEW d \in Nat, NEW rows \in SUBSET DOMAIN stock
    PROVE  MovesOver(Reversals(d, rows), Cardinality(rows), ItemsOf(rows))
<1> DEFINE down == Downwards(rows)
           ms == Reversals(d, rows)
           c == Cardinality(rows)
<1>0. rows \in SUBSET Nat /\ IsFiniteSet(rows)
  BY NumbersOf DEF LedgersTypeOK
<1>1. Lists(down, rows)
  BY <1>0, DownwardsLists
<1>2. ms = [n \in DOMAIN down |-> Movement(d, "reversal", stock[down[n]].item, 0, 0, 0, down[n])]
  BY DEF Reversals, Each
<1> HIDE DEF down, ms
<1>3. ms = [n \in DOMAIN down |-> ms[n]]
  BY <1>2
<1>4. /\ ms \in Seq(Range(ms)) /\ c \in Nat /\ DOMAIN ms = 1 .. c /\ DOMAIN ms = DOMAIN down
  BY <1>1, <1>3, EachSeq
<1>5. \A k \in 1 .. c : IsMove(ms[k]) /\ ms[k].item \in ItemsOf(rows)
  <2> SUFFICES ASSUME NEW k \in 1 .. c PROVE IsMove(ms[k]) /\ ms[k].item \in ItemsOf(rows)
    OBVIOUS
  <2>1. PICK row \in rows : row = down[k] /\ row \in Nat /\ row \in DOMAIN stock
    BY <1>0, <1>1, <1>4 DEF Lists
  <2>2. PICK i \in Items : i = stock[row].item /\ i \in ItemsOf(rows)
    <3>1. stock[row] \in StockRows
      BY <2>1 DEF LedgersTypeOK
    <3> QED BY <3>1 DEF StockRows, ItemsOf
  <2>4. ms[k] = Movement(d, "reversal", i, 0, 0, 0, row)
    BY <1>2, <1>4, <2>1, <2>2
  <2>5. "reversal" \in MoveKinds /\ 0 \in Int /\ 0 \in Nat
    BY DEF MoveKinds
  <2>6. IsMove(ms[k]) /\ ms[k].item = i
    BY <2>1, <2>4, <2>5, MovementIs
  <2> QED BY <2>2, <2>6
<1> QED BY <1>4, <1>5 DEF MovesOver, MoveList, ms

\* One list after another.
LEMMA JoinMoves ==
    ASSUME NEW s, NEW m, NEW S, MovesOver(s, m, S), NEW t, NEW n, NEW T, MovesOver(t, n, T)
    PROVE  MovesOver(s \o t, m + n, S \cup T)
<1> DEFINE R == Range(s) \cup Range(t)
           u == s \o t
<1>1. s \in Seq(R) /\ t \in Seq(R)
  BY OverItsRange DEF MovesOver
<1> HIDE DEF R
<1>2. /\ u \in Seq(R) /\ Len(u) = Len(s) + Len(t) /\ Len(s) \in Nat /\ Len(t) \in Nat
      /\ \A i \in DOMAIN s : u[i] = s[i]
      /\ \A i \in DOMAIN u : i \notin DOMAIN s => i - Len(s) \in DOMAIN t /\ u[i] = t[i - Len(s)]
  BY <1>1, Sums!Joined
<1>3. Len(s) = m /\ DOMAIN s = 1 .. m /\ Len(t) = n /\ DOMAIN t = 1 .. n /\ m \in Nat /\ n \in Nat
  BY <1>1 DEF MovesOver, MoveList
<1> HIDE DEF u
<1>4. DOMAIN u = 1 .. m + n /\ m + n \in Nat
  BY <1>2, <1>3
<1>5. \A k \in 1 .. m + n : IsMove(u[k]) /\ u[k].item \in S \cup T
  <2> SUFFICES ASSUME NEW k \in 1 .. m + n PROVE IsMove(u[k]) /\ u[k].item \in S \cup T
    OBVIOUS
  <2>1. CASE k \in DOMAIN s
    BY <1>2, <1>3, <2>1 DEF MovesOver, MoveList
  <2>2. CASE k \notin DOMAIN s
    <3>1. PICK j \in 1 .. n : u[k] = t[j]
      BY <1>2, <1>3, <1>4, <2>2
    <3> QED BY <3>1 DEF MovesOver, MoveList
  <2> QED BY <2>1, <2>2
<1>6. u \in Seq(Range(u))
  BY <1>2, OverItsRange
<1> QED BY <1>4, <1>5, <1>6 DEF MovesOver, MoveList, u

--------------------
\* The movements of the custody, and the costs of the components.

\* A finite sum of numbers is a number.
LEMMA SumNumber ==
    ASSUME NEW f, IsFiniteSet(DOMAIN f), NEW N \in {Nat, Int}, \A i \in DOMAIN f : f[i] \in N
    PROVE  SumOf(f) \in N
<1> DEFINE S == DOMAIN f
<1>1. Sums!IsFiniteSet(S)
  BY SameFinite
<1>2. Sums!SumFunctionOnSet(f, S) \in N
  <2>1. \A i \in S : f[i] \in N
    OBVIOUS
  <2> HIDE DEF S
  <2> QED BY <1>1, <2>1, Sums!SumType
<1> QED BY <1>2, SameSum DEF SumOf

LEMMA AmountType == ASSUME NEW lines, IsLines(lines, Bought) PROVE Amount(lines) \in Nat
<1> DEFINE f == [i \in DOMAIN lines |-> lines[i].qty * lines[i].price]
<1>1. \A i \in DOMAIN lines : lines[i].qty \in Nat /\ lines[i].price \in Nat
  BY DEF IsLines, Bought
<1>2. \A p, q \in Nat : p * q \in Nat
  OBVIOUS
<1>3. IsFiniteSet(DOMAIN f) /\ \A i \in DOMAIN f : f[i] \in Nat
  BY <1>1, <1>2 DEF IsLines
<1>4. Amount(lines) = SumOf(f)
  BY DEF Amount
<1> HIDE DEF f
<1> QED BY <1>3, <1>4, SumNumber

LEMMA FundIs ==
    ASSUME NEW d \in Nat, NEW amount \in Int, NEW row \in Nat
    PROVE  IsFund(Funds(d, amount, row))
  BY DEF IsFund, Funds

LEMMA FundsReversalsList ==
    ASSUME LedgersTypeOK, NEW d \in Nat, NEW rows \in SUBSET DOMAIN custody
    PROVE  FundsOver(FundsReversals(d, rows), Cardinality(rows), rows # {})
<1> DEFINE up == Upwards(rows)
           fs == FundsReversals(d, rows)
           c == Cardinality(rows)
<1>0. rows \in SUBSET Nat /\ IsFiniteSet(rows)
  BY FS_Interval, FS_Subset DEF LedgersTypeOK
<1>1. Lists(up, rows)
  BY <1>0, UpwardsLists
<1>2. fs = [n \in DOMAIN up |-> Funds(d, -custody[up[n]].amount, up[n])]
  BY DEF FundsReversals, Each
<1>3. c # 0 => rows # {}
  BY FS_EmptySet
<1> HIDE DEF up, fs
<1>4. fs = [n \in DOMAIN up |-> fs[n]]
  BY <1>2
<1>5. fs \in Seq(Range(fs)) /\ c \in Nat /\ DOMAIN fs = 1 .. c /\ DOMAIN fs = DOMAIN up
  BY <1>1, <1>4, EachSeq
<1>6. \A k \in 1 .. c : IsFund(fs[k])
  <2> SUFFICES ASSUME NEW k \in 1 .. c PROVE IsFund(fs[k])
    OBVIOUS
  <2>1. PICK row \in rows : row = up[k] /\ row \in Nat /\ row \in DOMAIN custody
    BY <1>0, <1>1, <1>5 DEF Lists
  <2>2. custody[row] \in CustodyRows
    BY <2>1 DEF LedgersTypeOK
  <2>3. PICK amount \in Int : amount = -custody[row].amount
    BY <2>2 DEF CustodyRows
  <2>4. fs[k] = Funds(d, amount, row)
    BY <1>2, <1>5, <2>1, <2>3
  <2> QED BY <2>1, <2>4, FundIs
<1> QED BY <1>3, <1>5, <1>6 DEF FundsOver, FundList, fs

LEMMA OneFund ==
    ASSUME NEW f, IsFund(f), NEW c, c PROVE FundsOver(<<f>>, 1, c)
<1>1. DOMAIN <<f>> = 1 .. 1 /\ <<f>>[1] = f
  OBVIOUS
<1>2. <<f>> \in Seq({f})
  OBVIOUS
<1>3. <<f>> \in Seq(Range(<<f>>))
  BY <1>2, OverItsRange
<1> QED BY <1>1, <1>3 DEF FundsOver, FundList

LEMMA NoFund == ASSUME NEW c PROVE FundsOver(<<>>, 0, c)
<1>1. DOMAIN <<>> = 1 .. 0 /\ <<>> \in Seq({})
  OBVIOUS
<1>2. <<>> \in Seq(Range(<<>>))
  BY <1>1, OverItsRange
<1> QED BY <1>1, <1>2 DEF FundsOver, FundList

LEMMA JoinFunds ==
    ASSUME NEW s, NEW m, NEW b, FundsOver(s, m, b), NEW t, NEW n, NEW c, FundsOver(t, n, c)
    PROVE  FundsOver(s \o t, m + n, b \/ c)
<1> DEFINE R == Range(s) \cup Range(t)
           u == s \o t
<1>1. s \in Seq(R) /\ t \in Seq(R)
  BY OverItsRange DEF FundsOver
<1> HIDE DEF R
<1>2. /\ u \in Seq(R) /\ Len(u) = Len(s) + Len(t) /\ Len(s) \in Nat /\ Len(t) \in Nat
      /\ \A i \in DOMAIN s : u[i] = s[i]
      /\ \A i \in DOMAIN u : i \notin DOMAIN s => i - Len(s) \in DOMAIN t /\ u[i] = t[i - Len(s)]
  BY <1>1, Sums!Joined
<1>3. Len(s) = m /\ DOMAIN s = 1 .. m /\ Len(t) = n /\ DOMAIN t = 1 .. n /\ m \in Nat /\ n \in Nat
  BY <1>1 DEF FundsOver, FundList
<1> HIDE DEF u
<1>4. DOMAIN u = 1 .. m + n /\ m + n \in Nat
  BY <1>2, <1>3
<1>5. \A k \in 1 .. m + n : IsFund(u[k])
  <2> SUFFICES ASSUME NEW k \in 1 .. m + n PROVE IsFund(u[k])
    OBVIOUS
  <2>1. CASE k \in DOMAIN s
    BY <1>2, <1>3, <2>1 DEF FundsOver, FundList
  <2>2. CASE k \notin DOMAIN s
    <3>1. PICK j \in 1 .. n : u[k] = t[j]
      BY <1>2, <1>3, <1>4, <2>2
    <3> QED BY <3>1 DEF FundsOver, FundList
  <2> QED BY <2>1, <2>2
<1>6. u \in Seq(Range(u))
  BY <1>2, OverItsRange
<1>7. m + n # 0 => b \/ c
  <2>1. m + n # 0 => m # 0 \/ n # 0
    BY <1>3
  <2> QED BY <2>1, Zenon DEF FundsOver
<1>8. FundList(u, m + n)
  BY <1>4, <1>5 DEF FundList
<1> QED BY <1>6, <1>7, <1>8 DEF FundsOver, u

LEMMA FundsPurchaseList ==
    ASSUME NEW d \in Nat, NEW method, NEW fund \in Nat, NEW lines, IsLines(lines, Bought)
    PROVE  SomeFunds(FundsPurchase(d, method, fund, lines), method = "custody")
<1>1. CASE method # "custody"
  BY <1>1, NoFund DEF FundsPurchase, SomeFunds
<1>2. CASE method = "custody"
  <2>1. PICK amount \in Int : amount = -Amount(lines)
    BY AmountType
  <2>0. IsFund(Funds(d, fund, 0)) /\ IsFund(Funds(d, amount, 0))
    BY FundIs
  <2>2. PICK first, n : /\ n \in Nat /\ FundsOver(first, n, TRUE)
                        /\ first = IF fund > 0 THEN <<Funds(d, fund, 0)>> ELSE <<>>
    <3>1. FundsOver(<<Funds(d, fund, 0)>>, 1, TRUE) /\ FundsOver(<<>>, 0, TRUE)
      BY <2>0, OneFund, NoFund
    <3>2. 0 \in Nat /\ 1 \in Nat
      OBVIOUS
    <3>3. CASE fund > 0
      <4>1. <<Funds(d, fund, 0)>> = IF fund > 0 THEN <<Funds(d, fund, 0)>> ELSE <<>>
        BY <3>3
      <4> QED BY <3>1, <3>2, <4>1, Zenon
    <3>4. CASE ~(fund > 0)
      <4>1. <<>> = IF fund > 0 THEN <<Funds(d, fund, 0)>> ELSE <<>>
        BY <3>4
      <4> QED BY <3>1, <3>2, <4>1, Zenon
    <3> QED BY <3>3, <3>4
  <2>3. FundsOver(<<Funds(d, amount, 0)>>, 1, TRUE)
    BY <2>0, OneFund
  <2>4. FundsOver(first \o <<Funds(d, amount, 0)>>, n + 1, TRUE \/ TRUE)
    BY <2>2, <2>3, JoinFunds
  <2>5. FundsPurchase(d, method, fund, lines) = first \o <<Funds(d, amount, 0)>>
    BY <1>2, <2>1, <2>2 DEF FundsPurchase
  <2>6. FundsOver(first \o <<Funds(d, amount, 0)>>, n + 1, method = "custody")
    BY <1>2, <2>4 DEF FundsOver
  <2>7. n + 1 \in Nat
    BY <2>2
  <2> QED BY <2>5, <2>6, <2>7 DEF SomeFunds
<1> QED BY <1>1, <1>2

\* The newest rows of the price history: the last of those of the latest day.
LEMMA LatestIs ==
    ASSUME NEW D, NEW t \in Seq(PriceRows(D)), NEW S \in SUBSET DOMAIN t, S # {}
    PROVE  /\ Latest(S, t) \in S
           /\ \A m \in S : /\ t[m].date \in Nat /\ m \in Nat /\ t[m].date <= t[Latest(S, t)].date
                           /\ t[m].date = t[Latest(S, t)].date => m <= Latest(S, t)
<1> DEFINE dates == {t[n].date : n \in S}
           last == {n \in S : t[n].date = Max(dates)}
<1>1. IsFiniteSet(S) /\ S \in SUBSET Nat
  BY NumbersOf
<1>2. \A n \in S : t[n].date \in Nat
  <2> SUFFICES ASSUME NEW n \in S PROVE t[n].date \in Nat
    OBVIOUS
  <2>1. t[n] \in PriceRows(D)
    BY Sums!ElementOf
  <2> QED BY <2>1, OrdersConstants DEF PriceRows
<1>3. IsFiniteSet(dates) /\ dates \in SUBSET Nat /\ dates # {}
  <2> DEFINE f == [n \in S |-> t[n].date]
  <2>1. f \in Surjection(S, dates)
    BY DEF Surjection
  <2>2. IsFiniteSet(dates)
    BY <1>1, <2>1, FS_Surjection
  <2> QED BY <1>2, <2>2
<1>4. Max(dates) \in dates /\ \A e \in dates : e <= Max(dates)
  BY <1>3, LargestNumber
<1>5. last \in SUBSET Nat /\ IsFiniteSet(last) /\ last # {}
  BY <1>1, <1>4, FS_Subset
<1>6. Max(last) \in last /\ \A m \in last : m <= Max(last)
  BY <1>5, LargestNumber
<1>7. Latest(S, t) = Max(last)
  BY DEF Latest
<1> QED BY <1>1, <1>2, <1>4, <1>6, <1>7

\* Rows that stay as they are have the same newest one.
LEMMA LatestStays ==
    ASSUME NEW S, NEW t, NEW u, \A n \in S : u[n] = t[n] PROVE Latest(S, u) = Latest(S, t)
<1>1. {u[n].date : n \in S} = {t[n].date : n \in S}
  OBVIOUS
<1>2. PICK day : day = Max({t[n].date : n \in S})
  OBVIOUS
<1>3. {n \in S : u[n].date = day} = {n \in S : t[n].date = day}
  OBVIOUS
<1> QED BY <1>1, <1>2, <1>3 DEF Latest

LEMMA NewestPrice ==
    ASSUME NEW D, prices \in Seq(PriceRows(D)), NEW S \in SUBSET DOMAIN prices, S # {}
    PROVE  \E n \in S : \A m \in S : ~Newer(m, n)
<1>1. PICK n : n = Latest(S, prices)
  OBVIOUS
<1>2. /\ n \in S /\ n \in Nat
      /\ \A m \in S : /\ prices[m].date \in Nat /\ m \in Nat
                      /\ prices[m].date <= prices[n].date
                      /\ prices[m].date = prices[n].date => m <= n
  BY <1>1, LatestIs
<1>3. \A m \in S : ~Newer(m, n)
  BY <1>2 DEF Newer
<1> QED BY <1>2, <1>3

\* What the components of a registration cost.
LEMMA LastFiveType ==
    ASSUME TablesOK, NEW i, Priced(i) # {} PROVE LastFive(i) \in Nat
<1> DEFINE recent == {n \in Priced(i) : Cardinality({m \in Priced(i) : Newer(m, n)}) < 5}
           f == [n \in recent |-> prices[n].price * Parts]
<1>1. Len(prices) \in Nat /\ DOMAIN prices = 1 .. Len(prices)
  BY DEF TablesOK
<1>2. IsFiniteSet(Priced(i)) /\ Priced(i) \in SUBSET Nat /\ Priced(i) \subseteq DOMAIN prices
  <2>1. IsFiniteSet(1 .. Len(prices)) /\ Priced(i) \subseteq 1 .. Len(prices)
    BY <1>1, FS_Interval DEF Priced
  <2> QED BY <1>1, <2>1, FS_Subset
<1>3. IsFiniteSet(recent) /\ recent \subseteq DOMAIN prices
  BY <1>2, FS_Subset
<1>4. recent # {}
  <2>1. PICK top \in Priced(i) : \A m \in Priced(i) : ~Newer(m, top)
    BY <1>2, NewestPrice DEF TablesOK, PriceRows
  <2>2. {m \in Priced(i) : Newer(m, top)} = {}
    BY <2>1
  <2>3. Cardinality({m \in Priced(i) : Newer(m, top)}) = 0
    BY <2>2, FS_EmptySet
  <2> QED BY <2>1, <2>3
<1>5. Cardinality(recent) \in Nat /\ Cardinality(recent) # 0
  BY <1>3, <1>4, FS_CardinalityType, FS_EmptySet
<1>6. \A n \in DOMAIN f : f[n] \in Nat
  <2> SUFFICES ASSUME NEW n \in recent PROVE prices[n].price * Parts \in Nat
    OBVIOUS
  <2>1. prices[n] \in PriceRows(DOMAIN docs)
    BY <1>3, Sums!ElementOf DEF TablesOK, PriceRows
  <2>2. prices[n].price \in Nat /\ Parts \in Nat
    BY <2>1, StockConstants DEF PriceRows
  <2> QED BY <2>2
<1>7. SumOf(f) \in Nat
  <2>1. IsFiniteSet(DOMAIN f)
    BY <1>3
  <2> HIDE DEF f
  <2> QED BY <1>6, <2>1, SumNumber
<1>8. LastFive(i) = Rounded(SumOf(f), Cardinality(recent))
  BY DEF LastFive
<1> HIDE DEF f, recent
<1>9. PICK a \in Nat, b \in Nat : a = SumOf(f) /\ b = Cardinality(recent) /\ b # 0
  BY <1>5, <1>7
<1> QED BY <1>8, <1>9, RoundedType

--------------------
\* What the writes leave.

LEMMA AttemptWider ==
    ASSUME Wider, NEW CONSTANT a, AttemptOK(a) PROVE AttemptOK(a)'
<1>1. CASE a = Unsent \/ a.pc \in Closed
  BY <1>1 DEF AttemptOK
<1>2. CASE IsActive(a)
  BY <1>2 DEF IsActive, ReadOK, Wider, SeenOK, Past, AttemptOK
<1> QED BY <1>1, <1>2 DEF AttemptOK

LEMMA AttemptMoves ==
    ASSUME AttemptsOK, Wider, NEW CONSTANT r \in Attempts, NEW CONSTANT b,
           attempt' = [attempt EXCEPT ![r] = b], AttemptOK(b)'
    PROVE  AttemptsOK'
<1>1. attempt' = [s \in Attempts |-> IF s = r THEN b ELSE attempt[s]]
  BY DEF AttemptsOK
<1>2. ASSUME NEW CONSTANT s \in Attempts PROVE AttemptOK(attempt[s])'
  <2>1. PICK a : a = attempt[s] /\ AttemptOK(a)
    BY DEF AttemptsOK
  <2>2. AttemptOK(a)'
    BY <2>1, AttemptWider
  <2>3. PICK c : c = attempt'[s] /\ (c = a \/ c = b)
    BY <1>1, <2>1
  <2>4. AttemptOK(c)'
    BY <2>2, <2>3
  <2> QED BY <2>3, <2>4 DEF AttemptOK, IsActive, ReadOK, SeenOK, Past
<1>3. attempt' = [s \in Attempts |-> attempt'[s]]
  BY <1>1
<1>4. \A s \in Attempts : AttemptOK(attempt[s])'
  BY <1>2
<1> QED BY <1>3, <1>4 DEF AttemptsOK

\* An attempt ends and its locks are released.
LEMMA EndedKeeps ==
    ASSUME TypeInv, Wider, NEW CONSTANT r \in Attempts, attempt[r] # Unsent,
           NEW pc \in Closed, NEW reply, Ended(r, pc, reply)
    PROVE  AttemptsOK' /\ LockOK'
<1>1. attempt[r].request \in Requests
  BY DEF TypeInv, AttemptsOK, AttemptOK
<1>2. PICK b : b = [pc |-> pc, request |-> attempt[r].request, reply |-> reply]
  OBVIOUS
<1>3. attempt' = [attempt EXCEPT ![r] = b] /\ Release(r)
  BY <1>2 DEF Ended
<1>4. AttemptOK(b)'
  BY <1>1, <1>2 DEF AttemptOK
<1>5. AttemptsOK'
  BY <1>3, <1>4, AttemptMoves DEF TypeInv
<1>6. LockOK'
  BY <1>3 DEF Release, LockOK, TypeInv
<1> QED BY <1>5, <1>6

LEMMA NewPricesType ==
    ASSUME NEW D, NEW d \in D, NEW lines, IsLines(lines, Bought), NEW day \in Days
    PROVE  NewPrices(d, lines, day) \in Seq(PriceRows(D))
<1> DEFINE up == Upwards(DOMAIN lines)
           s == NewPrices(d, lines, day)
<1>0. DOMAIN lines \in SUBSET Nat /\ IsFiniteSet(DOMAIN lines) /\ DOMAIN lines \in SUBSET Items
  BY StockConstants DEF IsLines
<1>1. Lists(up, DOMAIN lines)
  BY <1>0, UpwardsLists
<1>2. s = [n \in DOMAIN up |-> [item |-> up[n], doc |-> d, price |-> lines[up[n]].price, date |-> day]]
  BY DEF NewPrices, Each
<1> HIDE DEF up, s
<1>3. PICK c \in Nat : DOMAIN up = 1 .. c
  BY <1>1 DEF Lists
<1>4. \A n \in 1 .. c : s[n] \in PriceRows(D)
  <2> SUFFICES ASSUME NEW n \in 1 .. c PROVE s[n] \in PriceRows(D)
    OBVIOUS
  <2>1. PICK i \in DOMAIN lines : i = up[n] /\ i \in Items
    BY <1>0, <1>1, <1>3 DEF Lists
  <2>2. lines[i].price \in Nat
    BY DEF IsLines, Bought
  <2>3. s[n] = [item |-> i, doc |-> d, price |-> lines[i].price, date |-> day]
    BY <1>2, <1>3, <2>1
  <2> QED BY <2>1, <2>2, <2>3 DEF PriceRows
<1>5. s = [n \in 1 .. c |-> s[n]]
  BY <1>2, <1>3
<1>6. s \in Seq(PriceRows(D))
  BY <1>4, <1>5
<1> QED BY <1>6 DEF s

\* The price history follows the documents.
LEMMA PricesExtended ==
    ASSUME NEW D, NEW E, D \subseteq E, NEW s \in Seq(PriceRows(D)),
           NEW d \in E, NEW lines, IsLines(lines, Bought), NEW day \in Days
    PROVE  /\ s \in Seq(PriceRows(E)) /\ s \o NewPrices(d, lines, day) \in Seq(PriceRows(E))
<1>1. PriceRows(D) \subseteq PriceRows(E)
  BY DEF PriceRows
<1>2. s \in Seq(PriceRows(E))
  BY <1>1, Sums!WiderSeq
<1>3. NewPrices(d, lines, day) \in Seq(PriceRows(E))
  BY NewPricesType
<1> QED BY <1>2, <1>3, Sums!Joined

LEMMA OfferedType ==
    ASSUME lastPrice \in Prices, NEW lines, IsLines(lines, Bought)
    PROVE  [i \in Items |-> IF i \in DOMAIN lines THEN lines[i].price ELSE lastPrice[i]] \in Prices
<1>1. \A i \in Items : (IF i \in DOMAIN lines THEN lines[i].price ELSE lastPrice[i])
                           \in Nat \cup {NoPrice}
  <2> SUFFICES ASSUME NEW i \in Items
               PROVE  (IF i \in DOMAIN lines THEN lines[i].price ELSE lastPrice[i])
                           \in Nat \cup {NoPrice}
    OBVIOUS
  <2>1. i \in DOMAIN lines => lines[i].price \in Nat
    BY DEF IsLines, Bought
  <2>2. lastPrice[i] \in Nat \cup {NoPrice}
    BY DEF Prices
  <2> QED BY <2>1, <2>2
<1> QED BY <1>1 DEF Prices

LEMMA RefreshedType ==
    ASSUME NEW D, prices' \in Seq(PriceRows(D)), NEW CONSTANT items, NEW CONSTANT old \in Prices
    PROVE  Refreshed(items, old) \in Prices
<1> DEFINE left(i) == {n \in DOMAIN prices' : /\ prices'[n].item = i
                                              /\ docs'[prices'[n].doc].status = "received"}
<1>2. ASSUME NEW CONSTANT i \in Items, left(i) # {} PROVE prices'[Latest(left(i), prices')].price \in Nat
  <2>1. PICK k : k = Latest(left(i), prices')
    OBVIOUS
  <2>2. left(i) \in SUBSET DOMAIN prices'
    OBVIOUS
  <2>3. k \in DOMAIN prices'
    <3> HIDE DEF left
    <3> QED BY <1>2, <2>1, <2>2, LatestIs
  <2>4. prices'[k] \in PriceRows(D)
    BY <2>3, Sums!ElementOf
  <2> HIDE DEF left
  <2> QED BY <2>1, <2>4 DEF PriceRows
<1>3. Refreshed(items, old) =
         [i \in Items |-> IF i \notin items THEN old[i]
                          ELSE IF left(i) = {} THEN NoPrice ELSE prices'[Latest(left(i), prices')].price]
  BY DEF Refreshed
<1>4. \A i \in Items : old[i] \in Nat \cup {NoPrice}
  BY DEF Prices
<1> HIDE DEF left
<1>5. \A i \in Items : (IF i \notin items THEN old[i]
                        ELSE IF left(i) = {} THEN NoPrice ELSE prices'[Latest(left(i), prices')].price)
                            \in Nat \cup {NoPrice}
  BY <1>2, <1>4
<1> QED BY <1>3, <1>5 DEF Prices

--------------------
\* The documents that are written.

LEMMA NoLines == IsLines(<<>>, Bought)
<1>1. DOMAIN <<>> = {} /\ <<>> \in [{} -> Bought]
  OBVIOUS
<1> QED BY <1>1, FS_EmptySet DEF IsLines

LEMMA KeyType ==
    ASSUME NEW q \in Requests, NEW tag \in Tags PROVE Key(tag, q) \in Keys /\ Key(tag, q) \in DocKeys
  BY DEF Keys, DocKeys

LEMMA DocumentFields ==
    ASSUME NEW type, NEW status, NEW q, NEW tag, NEW doc,
           doc = Document(type, status, q, Key(tag, q))
    PROVE  DocIs(doc, type, status, q, tag, <<>>, "none", 0, NoDoc, Unsent, 1)
<1>1. PICK key, empty, unsent : key = Key(tag, q) /\ empty = <<>> /\ unsent = Unsent
  OBVIOUS
<1>2. doc = [type |-> type, status |-> status, method |-> "none", fund |-> 0, lines |-> empty,
             of |-> NoDoc, key |-> key, request |-> q, receipt |-> unsent, revision |-> 1,
             corrected |-> FALSE]
  BY <1>1 DEF Document
<1>3. doc = [i \in DocFields |-> doc[i]]
  BY <1>2 DEF DocFields
<1>4. /\ doc.type = type /\ doc.status = status /\ doc.method = "none" /\ doc.fund = 0
      /\ doc.lines = empty /\ doc.of = NoDoc /\ doc.key = key /\ doc.request = q
      /\ doc.receipt = unsent /\ doc.revision = 1 /\ doc.corrected = FALSE
  BY <1>2
<1> QED BY <1>1, <1>3, <1>4, Zenon DEF DocIs

LEMMA NewDocument ==
    ASSUME NEW q \in Requests, NEW tag \in Tags,
           NEW type \in {"purchase", "issue", "cancellation"},
           NEW status \in {"prepared", "received", "reversed"},
           NEW lines, IsLines(lines, Bought) \/ IsLines(lines, Used), NEW method \in Methods,
           NEW fund \in Nat, NEW of \in Nat, NEW receipt \in Requests \cup {Unsent},
           NEW revision \in Nat, NEW doc,
           DocIs(doc, type, status, q, tag, lines, method, fund, of, receipt, revision)
    PROVE  IsDocument(doc)
<1>1. Key(tag, q) \in DocKeys /\ q \in DocRequests
  BY KeyType DEF DocRequests
<1>2. FieldsOK(doc)
  BY <1>1 DEF DocIs, FieldsOK
<1> QED BY <1>2, DocumentOfFields DEF DocIs

\* The documents the operations write, from the plain one b.
LEMMA OrderDocument ==
    ASSUME NEW type, NEW status, NEW q, NEW tag, NEW lines, NEW method, NEW fund, NEW doc,
           doc = [Document(type, status, q, Key(tag, q))
                     EXCEPT !.lines = lines, !.method = method, !.fund = fund]
    PROVE  DocIs(doc, type, status, q, tag, lines, method, fund, NoDoc, Unsent, 1)
<1>1. PICK b : /\ b = Document(type, status, q, Key(tag, q))
               /\ DocIs(b, type, status, q, tag, <<>>, "none", 0, NoDoc, Unsent, 1)
  BY DocumentFields
<1>2. doc = [b EXCEPT !.lines = lines, !.method = method, !.fund = fund]
  BY <1>1
<1> QED BY <1>1, <1>2 DEF DocIs, DocFields

LEMMA RegistrationDocument ==
    ASSUME NEW type, NEW status, NEW q, NEW tag, NEW lines, NEW doc,
           doc = [Document(type, status, q, Key(tag, q)) EXCEPT !.lines = lines]
    PROVE  DocIs(doc, type, status, q, tag, lines, "none", 0, NoDoc, Unsent, 1)
<1>1. PICK b : /\ b = Document(type, status, q, Key(tag, q))
               /\ DocIs(b, type, status, q, tag, <<>>, "none", 0, NoDoc, Unsent, 1)
  BY DocumentFields
<1>2. doc = [b EXCEPT !.lines = lines]
  BY <1>1
<1> QED BY <1>1, <1>2 DEF DocIs, DocFields

LEMMA ReplacementDocument ==
    ASSUME NEW type, NEW status, NEW q, NEW tag, NEW lines, NEW method, NEW fund, NEW doc,
           doc = [Document(type, status, q, Key(tag, q))
                     EXCEPT !.lines = lines, !.method = method, !.fund = fund,
                            !.receipt = q, !.revision = 2]
    PROVE  DocIs(doc, type, status, q, tag, lines, method, fund, NoDoc, q, 2)
<1>1. PICK b : /\ b = Document(type, status, q, Key(tag, q))
               /\ DocIs(b, type, status, q, tag, <<>>, "none", 0, NoDoc, Unsent, 1)
  BY DocumentFields
<1>2. doc = [b EXCEPT !.lines = lines, !.method = method, !.fund = fund,
                      !.receipt = q, !.revision = 2]
  BY <1>1
<1> QED BY <1>1, <1>2 DEF DocIs, DocFields

LEMMA ReversalDocument ==
    ASSUME NEW type, NEW status, NEW q, NEW tag, NEW method, NEW of, NEW doc,
           doc = [Document(type, status, q, Key(tag, q)) EXCEPT !.method = method, !.of = of]
    PROVE  DocIs(doc, type, status, q, tag, <<>>, method, 0, of, Unsent, 1)
<1>1. PICK b : /\ b = Document(type, status, q, Key(tag, q))
               /\ DocIs(b, type, status, q, tag, <<>>, "none", 0, NoDoc, Unsent, 1)
  BY DocumentFields
<1>2. doc = [b EXCEPT !.method = method, !.of = of]
  BY <1>1
<1> QED BY <1>1, <1>2 DEF DocIs, DocFields

LEMMA UndoneDocument ==
    ASSUME NEW type, NEW status, NEW q, NEW tag, NEW of, NEW doc,
           doc = [Document(type, status, q, Key(tag, q)) EXCEPT !.of = of]
    PROVE  DocIs(doc, type, status, q, tag, <<>>, "none", 0, of, Unsent, 1)
<1>1. PICK b : /\ b = Document(type, status, q, Key(tag, q))
               /\ DocIs(b, type, status, q, tag, <<>>, "none", 0, NoDoc, Unsent, 1)
  BY DocumentFields
<1>2. doc = [b EXCEPT !.of = of]
  BY <1>1
<1> QED BY <1>1, <1>2 DEF DocIs, DocFields

LEMMA ReceivedDocument ==
    ASSUME NEW old, IsDocument(old), NEW q \in Requests, IsLines(q.lines, Bought),
           NEW method \in Methods, NEW fund \in Nat, NEW doc,
           doc = ReceivedAs(old, q, method, fund)
    PROVE  /\ IsDocument(doc) /\ Restated(doc, old)
           /\ doc.status = "received" /\ doc.lines = q.lines /\ doc.method = method
           /\ doc.fund = fund /\ doc.receipt = q /\ doc.corrected = old.corrected
<1>1. old = [i \in DocFields |-> old[i]] /\ FieldsOK(old)
  BY FieldsOfDocument
<1>0. old.revision \in Nat
  BY <1>1 DEF FieldsOK
<1>2. PICK lines, more : lines = q.lines /\ more = old.revision + 1 /\ more \in Nat
  BY <1>0
<1>3. doc = [old EXCEPT !.status = "received", !.lines = lines, !.method = method,
                        !.fund = fund, !.revision = more, !.receipt = q]
  BY <1>2 DEF ReceivedAs
<1>4. /\ doc = [i \in DocFields |-> doc[i]]
      /\ doc.type = old.type /\ doc.of = old.of /\ doc.key = old.key
      /\ doc.request = old.request /\ doc.corrected = old.corrected
      /\ doc.status = "received" /\ doc.lines = lines /\ doc.method = method
      /\ doc.fund = fund /\ doc.receipt = q /\ doc.revision = more
  BY <1>1, <1>3 DEF DocFields
<1>5. FieldsOK(doc)
  BY <1>1, <1>2, <1>4 DEF FieldsOK
<1> QED BY <1>2, <1>4, <1>5, DocumentOfFields DEF Restated

\* A document is reversed, restored, or reversed for good.
LEMMA TurnedDocument ==
    ASSUME NEW old, IsDocument(old), NEW status \in {"prepared", "received", "reversed"},
           NEW corrected \in BOOLEAN, NEW doc, doc = [i \in DocFields |-> doc[i]],
           \A i \in DocFields \ {"status", "corrected"} : doc[i] = old[i],
           doc.status = status, doc.corrected = corrected
    PROVE  IsDocument(doc) /\ Restated(doc, old) /\ doc.lines = old.lines
<1>1. FieldsOK(old)
  BY FieldsOfDocument
<1>2. /\ doc.type = old.type /\ doc.of = old.of /\ doc.key = old.key
      /\ doc.request = old.request /\ doc.lines = old.lines /\ doc.method = old.method
      /\ doc.fund = old.fund /\ doc.receipt = old.receipt /\ doc.revision = old.revision
  BY DEF DocFields
<1>3. FieldsOK(doc)
  BY <1>1, <1>2 DEF FieldsOK
<1> QED BY <1>2, <1>3, DocumentOfFields DEF Restated

--------------------
\* The steps that write.

LEMMA DocsNumbers == ASSUME DocsOK PROVE DocTable(docs) /\ Len(docs) \in Nat /\ DOMAIN docs = 1 .. Len(docs)
  BY DEF DocsOK, DocTable

LEMMA GrowByTable ==
    ASSUME DocsOK, DocTable(docs'), DOMAIN docs \subseteq DOMAIN docs' PROVE DocsGrow
<1>1. Len(docs) \in Nat /\ DOMAIN docs = 1 .. Len(docs)
  BY DocsNumbers
<1>2. Len(docs') \in Nat /\ DOMAIN docs' = 1 .. Len(docs') /\ DocsOK'
  BY DEF DocTable, DocsOK
<1>3. Len(docs) <= Len(docs')
  BY <1>1, <1>2
<1> QED BY <1>1, <1>2, <1>3 DEF DocsGrow

LEMMA GrowByOne ==
    ASSUME DocsOK, NEW doc, IsDocument(doc), doc.of <= Len(docs), docs' = Append(docs, doc)
    PROVE  DocsGrow /\ Len(docs') \in DOMAIN docs' /\ Len(docs') = Len(docs) + 1
<1>1. DocTable(docs') /\ DOMAIN docs' = DOMAIN docs \cup {Len(docs) + 1}
      /\ Len(docs') = Len(docs) + 1
  BY DocsNumbers, DocAppended
<1> QED BY <1>1, GrowByTable

LEMMA GrowBySame == ASSUME DocsOK, UNCHANGED docs PROVE DocsGrow
  BY DocsNumbers, GrowByTable

\* The tables of counts, prices and answers, rewritten or not.
LEMMA TablesWritten ==
    ASSUME TablesOK, DOMAIN docs \subseteq DOMAIN docs',
           counts' \in Seq(Requests), prices' \in Seq(PriceRows(DOMAIN docs')),
           lastPrice' \in Prices,
           NEW P, P \subseteq [key : Keys, request : Requests, doc : DOMAIN docs'],
           replies' \subseteq replies \cup P
    PROVE  TablesOK'
<1>1. replies' \subseteq [key : Keys, request : Requests, doc : DOMAIN docs']
  BY DEF TablesOK
<1>2. PICK D : D = DOMAIN docs'
  OBVIOUS
<1>3. prices' \in Seq([item : Items, doc : D, price : Nat, date : Days])
  BY <1>2 DEF PriceRows
<1> QED BY <1>1, <1>2, <1>3 DEF TablesOK, Prices

LEMMA TablesAre ==
    ASSUME TablesOK
    PROVE  /\ counts \in Seq(Requests) /\ prices \in Seq(PriceRows(DOMAIN docs))
           /\ lastPrice \in Prices
  BY DEF TablesOK, PriceRows, Prices

LEMMA PricesUnchanged ==
    ASSUME TablesOK, DOMAIN docs \subseteq DOMAIN docs', UNCHANGED prices
    PROVE  prices' \in Seq(PriceRows(DOMAIN docs'))
<1>1. PriceRows(DOMAIN docs) \subseteq PriceRows(DOMAIN docs')
  BY DEF PriceRows
<1> QED BY <1>1, TablesAre, Sums!WiderSeq

LEMMA TablesUnchanged ==
    ASSUME TablesOK, DOMAIN docs \subseteq DOMAIN docs',
           UNCHANGED <<counts, prices, lastPrice>>,
           NEW P, P \subseteq [key : Keys, request : Requests, doc : DOMAIN docs'],
           replies' \subseteq replies \cup P
    PROVE  TablesOK'
  BY TablesAre, PricesUnchanged, TablesWritten

LEMMA ReplyType ==
    ASSUME NEW q \in Requests, NEW tag \in Tags, NEW d \in DOMAIN docs'
    PROVE  {[key |-> Key(tag, q), request |-> q, doc |-> d]}
              \subseteq [key : Keys, request : Requests, doc : DOMAIN docs']
<1>1. PICK k \in Keys : k = Key(tag, q)
  BY KeyType
<1> QED BY <1>1

\* The lines of a request.
LEMMA LinesOf ==
    ASSUME NEW q \in Requests
    PROVE  /\ q.op \in {"order", "receive", "correct"} => IsLines(q.lines, Bought)
           /\ q.op \in {"register", "amend"} => IsLines(q.lines, Used)
           /\ q.op = "count" => IsLines(q.lines, [qty : Nat])
           /\ q.op = "register" => q.kind \in {"issue", "cancellation"}
           /\ q.op = "order" => q.method \in Methods /\ q.fund \in Nat
  BY OrdersConstants

\* What was read by a request about to write.
LEMMA ReadAtCommit ==
    ASSUME TypeInv, NEW r \in Attempts, attempt[r].pc = "commit"
    PROVE  /\ attempt[r] # Unsent /\ attempt[r].request \in Requests
           /\ IsActive(attempt[r]) /\ ReadOK(attempt[r].read) /\ SeenOK(attempt[r])
           /\ attempt[r].request.op \in ByDocument => attempt[r].request.doc \in DOMAIN docs
<1>1. attempt[r] # Unsent
  BY UnsentIdle
<1>2. attempt[r].pc \notin Closed
  BY DEF Closed
<1>3. attempt[r].request \in Requests /\ IsActive(attempt[r])
  BY <1>1, <1>2 DEF TypeInv, AttemptsOK, AttemptOK
<1> QED BY <1>1, <1>3 DEF IsActive, Past

LEMMA PrepareWrites ==
    ASSUME TypeInv, NEW r \in Attempts, Prepare(r) PROVE EndsQuietly(r) \/ WritesOnly(r)
<1> DEFINE q == attempt[r].request
           same == WithKey(Key("document", q))
           doc == [Document("purchase", "prepared", q, Key("document", q))
                     EXCEPT !.lines = q.lines, !.method = q.method, !.fund = q.fund]
<1>1. q \in Requests /\ q.op = "order" /\ attempt[r].pc = "read" /\ attempt[r] # Unsent
  BY DoingRequest, UnsentIdle DEF Prepare, At
<1>2. \/ \E e : Answered(r, e) \/ Refused(r)
      \/ /\ docs' = Append(docs, doc) /\ Ended(r, "done", Len(docs'))
         /\ UNCHANGED <<stock, custody, counts, prices, lastPrice, replies>>
  BY Zenon DEF Prepare
<1>3. CASE \E e : Answered(r, e) \/ Refused(r)
  BY <1>3, AnsweredEnds, RefusedEnds
<1>4. CASE /\ docs' = Append(docs, doc) /\ Ended(r, "done", Len(docs'))
           /\ UNCHANGED <<stock, custody, counts, prices, lastPrice, replies>>
  <2>1. PICK lines, method, fund : lines = q.lines /\ method = q.method /\ fund = q.fund
    OBVIOUS
  <2>2. DocIs(doc, "purchase", "prepared", q, "document", lines, method, fund, NoDoc, Unsent, 1)
    BY <2>1, OrderDocument
  <2> HIDE DEF doc
  <2>3. IsLines(lines, Bought) /\ method \in Methods /\ fund \in Nat
    BY <1>1, <2>1, LinesOf
  <2>4. "document" \in Tags /\ NoDoc \in Nat /\ 1 \in Nat
    BY DEF Tags, NoDoc
  <2>5. IsDocument(doc)
    BY <1>1, <2>2, <2>3, <2>4, NewDocument
  <2>6. doc.of <= Len(docs)
    BY <2>2, DocsNumbers DEF DocIs, NoDoc, TypeInv
  <2>7. DocsGrow
    BY <1>4, <2>5, <2>6, GrowByOne DEF TypeInv
  <2>8. TablesOK'
    BY <1>4, <2>7, TablesUnchanged DEF DocsGrow, TypeInv
  <2> QED BY <1>1, <1>4, <2>7, <2>8 DEF WritesOnly, Records
<1> QED BY <1>2, <1>3, <1>4

LEMMA OneList == ASSUME NEW ms, NEW n, NEW S, MovesOver(ms, n, S) PROVE SomeMoves(ms, S)
<1>1. n \in Nat
  BY DEF MovesOver, MoveList
<1> QED BY <1>1 DEF SomeMoves

LEMMA TwoLists ==
    ASSUME NEW s, NEW S, SomeMoves(s, S), NEW t, NEW T, SomeMoves(t, T)
    PROVE  SomeMoves(s \o t, S \cup T)
<1>1. PICK m \in Nat : MovesOver(s, m, S)
  BY DEF SomeMoves
<1>2. PICK n \in Nat : MovesOver(t, n, T)
  BY DEF SomeMoves
<1>3. MovesOver(s \o t, m + n, S \cup T)
  BY <1>1, <1>2, JoinMoves
<1> QED BY <1>3, OneList

LEMMA OneFundList == ASSUME NEW fs, NEW n, NEW c, FundsOver(fs, n, c) PROVE SomeFunds(fs, c)
<1>1. n \in Nat
  BY DEF FundsOver, FundList
<1> QED BY <1>1 DEF SomeFunds

LEMMA TwoFundLists ==
    ASSUME NEW s, NEW b, SomeFunds(s, b), NEW t, NEW c, SomeFunds(t, c)
    PROVE  SomeFunds(s \o t, b \/ c)
<1>1. PICK m \in Nat : FundsOver(s, m, b)
  BY DEF SomeFunds
<1>2. PICK n \in Nat : FundsOver(t, n, c)
  BY DEF SomeFunds
<1>3. FundsOver(s \o t, m + n, b \/ c)
  BY <1>1, <1>2, JoinFunds
<1> QED BY <1>3, OneFundList

LEMMA NoFunds == SomeFunds(<<>>, FALSE)
  BY NoFund, OneFundList

LEMMA CommitRegistrationCommits ==
    ASSUME TypeInv, NEW r \in Attempts, CommitRegistration(r) PROVE Commits(r)
<1> DEFINE q == attempt[r].request
           doc == [Document(q.kind, "received", q, Key("document", q)) EXCEPT !.lines = q.lines]
           ms == Issues(Len(docs'), q.kind, q.lines, attempt[r].seen.cost)
<1>1. q \in Requests /\ q.op = "register" /\ attempt[r].pc = "commit" /\ attempt[r] # Unsent
      /\ SeenOK(attempt[r])
  BY DoingRequest, ReadAtCommit DEF CommitRegistration, At
<1>2. /\ docs' = Append(docs, doc) /\ Ended(r, "done", Len(docs'))
      /\ Post(r, ms, <<>>) /\ UNCHANGED <<counts, prices, lastPrice, replies>>
  BY DEF CommitRegistration
<1>3. PICK lines, kind, cost : lines = q.lines /\ kind = q.kind /\ cost = attempt[r].seen.cost
  OBVIOUS
<1>4. IsLines(lines, Used) /\ kind \in {"issue", "cancellation"}
  BY <1>1, <1>3, LinesOf
<1>5. \A i \in DOMAIN lines : cost[i] \in Nat
  BY <1>1, <1>3 DEF SeenOK
<1>6. DocIs(doc, kind, "received", q, "document", lines, "none", 0, NoDoc, Unsent, 1)
  BY <1>3, RegistrationDocument
<1> HIDE DEF doc
<1>7. "document" \in Tags /\ NoDoc \in Nat /\ 1 \in Nat /\ 0 \in Nat /\ "none" \in Methods
      /\ kind \in {"purchase", "issue", "cancellation"}
  BY <1>4 DEF Tags, NoDoc, Methods
<1>8. IsDocument(doc)
  BY <1>1, <1>4, <1>6, <1>7, NewDocument
<1>9. doc.of <= Len(docs)
  BY <1>6, DocsNumbers DEF DocIs, NoDoc, TypeInv
<1>10. DocsGrow /\ Len(docs') \in Nat
  BY <1>2, <1>8, <1>9, GrowByOne DEF TypeInv, DocsGrow
<1>11. TablesOK'
  BY <1>2, <1>10, TablesUnchanged DEF DocsGrow, TypeInv
<1>12. SomeMoves(ms, DOMAIN lines)
  <2>1. PICK d \in Nat : d = Len(docs')
    BY <1>10
  <2>2. ms = Issues(d, kind, lines, cost)
    BY <1>3, <2>1
  <2> QED BY <1>4, <1>5, <2>2, IssuesMove, OneList
<1>13. DOMAIN lines \subseteq Touched(q, attempt[r].read)
  BY <1>1, <1>3 DEF Touched, WithLines
<1>14. Posts(r, ms, DOMAIN lines, <<>>, FALSE)
  BY <1>2, <1>12, <1>13, NoFunds DEF Posts
<1> QED BY <1>1, <1>2, <1>10, <1>11, <1>14 DEF Commits, Records

LEMMA CommitCountCommits ==
    ASSUME TypeInv, NEW r \in Attempts, CommitCount(r) PROVE Commits(r)
<1> DEFINE q == attempt[r].request
           ms == Stocktakes(q.lines)
<1>1. q \in Requests /\ q.op = "count" /\ attempt[r].pc = "commit" /\ attempt[r] # Unsent
  BY DoingRequest, ReadAtCommit DEF CommitCount, At
<1>2. /\ counts' = Append(counts, q) /\ Ended(r, "done", Len(counts'))
      /\ Post(r, ms, <<>>) /\ UNCHANGED <<docs, prices, lastPrice, replies>>
  BY DEF CommitCount
<1>3. PICK lines : lines = q.lines /\ IsLines(lines, [qty : Nat])
  BY <1>1, LinesOf
<1>4. DocsGrow
  BY <1>2, GrowBySame DEF TypeInv
<1>5. counts' \in Seq(Requests)
  BY <1>1, <1>2, TablesAre, Sums!Appended DEF TypeInv
<1>6. TablesOK'
  BY <1>2, <1>5, TablesAre, TablesWritten DEF TypeInv
<1>7. SomeMoves(ms, DOMAIN lines)
  BY <1>3, StocktakesMove, OneList
<1>8. DOMAIN lines \subseteq Touched(q, attempt[r].read)
  BY <1>1, <1>3 DEF Touched, WithLines
<1>9. Posts(r, ms, DOMAIN lines, <<>>, FALSE)
  BY <1>2, <1>7, <1>8, NoFunds DEF Posts
<1> QED BY <1>1, <1>2, <1>4, <1>6, <1>9 DEF Commits, Records

LEMMA CommitReceiptCommits ==
    ASSUME TypeInv, NEW r \in Attempts, CommitReceipt(r) PROVE Commits(r)
<1> DEFINE q == attempt[r].request
           d == q.doc
           a == attempt[r].read
           fund == IF a.method = "custody" THEN a.fund ELSE 0
           new == ReceivedAs(docs[d], q, a.method, fund)
           ms == Receipts(d, q.lines)
           fs == FundsPurchase(d, a.method, fund, q.lines)
<1>1. q \in Requests /\ q.op = "receive" /\ attempt[r].pc = "commit" /\ attempt[r] # Unsent
      /\ ReadOK(a) /\ d \in DOMAIN docs
  BY DoingRequest, ReadAtCommit DEF CommitReceipt, At, ByDocument
<1>2. /\ docs' = [docs EXCEPT ![d] = new] /\ Ended(r, "done", d)
      /\ Post(r, ms, fs) /\ UNCHANGED counts
      /\ prices' = prices \o NewPrices(d, q.lines, q.date)
      /\ lastPrice' = [i \in Items |-> IF i \in DOMAIN q.lines THEN q.lines[i].price
                                       ELSE lastPrice[i]]
      /\ replies' = replies \cup {[key |-> Key("receive", q), request |-> q, doc |-> d]}
  BY DEF CommitReceipt, ReceivedAs
<1>3. PICK method \in Methods, money \in Nat : method = a.method /\ money = fund
  BY <1>1 DEF ReadOK
<1>4. PICK lines : lines = q.lines /\ IsLines(lines, Bought)
  BY <1>1, LinesOf
<1>5. PICK old : old = docs[d] /\ IsDocument(old)
  BY <1>1 DEF TypeInv, DocsOK
<1>6. IsDocument(new) /\ new.of = docs[d].of
  <2>1. new = ReceivedAs(old, q, method, money)
    BY <1>3, <1>5
  <2>2. IsLines(q.lines, Bought)
    BY <1>4
  <2> HIDE DEF new, q
  <2>3. q \in Requests
    BY <1>1
  <2>4. IsDocument(new) /\ Restated(new, old)
    BY <1>5, <2>1, <2>2, <2>3, ReceivedDocument
  <2> QED BY <1>5, <2>4 DEF Restated
<1> HIDE DEF new
<1>7. DocTable(docs') /\ DOMAIN docs' = DOMAIN docs
  BY <1>2, <1>6, DocsNumbers, DocChanged DEF TypeInv
<1>8. DocsGrow /\ d \in DOMAIN docs'
  BY <1>1, <1>7, GrowByTable DEF TypeInv
<1>9. TablesOK'
  <2>1. prices' \in Seq(PriceRows(DOMAIN docs'))
    <3>1. q.date \in Days
      BY <1>1, OrdersConstants
    <3> QED BY <1>2, <1>4, <1>7, <1>8, <3>1, TablesAre, PricesExtended DEF TypeInv
  <2>2. lastPrice' \in Prices
    BY <1>2, <1>4, TablesAre, OfferedType DEF TypeInv
  <2>3. counts' \in Seq(Requests)
    BY <1>2, TablesAre DEF TypeInv
  <2>4. "receive" \in Tags
    BY DEF Tags
  <2>5. {[key |-> Key("receive", q), request |-> q, doc |-> d]}
              \subseteq [key : Keys, request : Requests, doc : DOMAIN docs']
    BY <1>1, <1>8, <2>4, ReplyType
  <2>6. TablesOK /\ DOMAIN docs \subseteq DOMAIN docs'
    BY <1>7 DEF TypeInv
  <2>7. PICK P : /\ P \subseteq [key : Keys, request : Requests, doc : DOMAIN docs']
                 /\ replies' = replies \cup P
    BY <1>2, <2>5, Zenon
  <2>8. replies' \subseteq replies \cup P
    BY <2>7
  <2> QED BY <2>1, <2>2, <2>3, <2>6, <2>7, <2>8, TablesWritten
<1>10. d \in Nat
  BY <1>1, DocsNumbers DEF TypeInv
<1>11. SomeMoves(ms, DOMAIN lines)
  BY <1>4, <1>10, ReceiptsMove, OneList
<1>12. SomeFunds(fs, method = "custody")
  BY <1>3, <1>4, <1>10, FundsPurchaseList
<1>13. /\ DOMAIN lines \subseteq Touched(q, attempt[r].read)
       /\ (method = "custody") => TouchesFunds(q, attempt[r].read)
  BY <1>1, <1>3, <1>4 DEF Touched, TouchesFunds, WithLines
<1>14. Posts(r, ms, DOMAIN lines, fs, method = "custody")
  BY <1>2, <1>11, <1>12, <1>13, Zenon DEF Posts
<1> QED BY <1>1, <1>2, <1>8, <1>9, <1>14, Zenon DEF Commits, Records

LEMMA TurnedTable ==
    ASSUME NEW t, DocTable(t), NEW d \in DOMAIN t, NEW x, NEW status, NEW corrected,
           TurnedRecord(x, t[d], status, corrected), NEW u, u = [t EXCEPT ![d] = x]
    PROVE  TurnedTo(u, t, d, status, corrected)
<1>1. IsDocument(t[d])
  BY DEF DocTable
<1>2. IsDocument(x) /\ Restated(x, t[d])
  BY <1>1, TurnedDocument DEF TurnedRecord
<1>3. x.of = t[d].of
  BY <1>2 DEF Restated
<1>4. DocTable(u) /\ DOMAIN u = DOMAIN t
  BY <1>2, <1>3, DocChanged
<1>5. u[d] = x /\ \A e \in DOMAIN t : e # d => u[e] = t[e]
  OBVIOUS
<1>6. Len(u) = Len(t)
  BY <1>4 DEF DocTable
<1> QED BY <1>2, <1>4, <1>5, <1>6 DEF TurnedTo, TurnedRecord

LEMMA ForGood ==
    ASSUME NEW t, DocTable(t), NEW d \in DOMAIN t, NEW u,
           u = [t EXCEPT ![d].status = "reversed", ![d].corrected = TRUE]
    PROVE  TurnedTo(u, t, d, "reversed", TRUE)
<1>1. PICK old : old = t[d] /\ old = [i \in DocFields |-> old[i]]
  BY FieldsOfDocument DEF DocTable
<1>2. PICK x : x = [old EXCEPT !.status = "reversed", !.corrected = TRUE]
  OBVIOUS
<1>3. u = [t EXCEPT ![d] = x]
  BY <1>1, <1>2
<1>4. TurnedRecord(x, t[d], "reversed", TRUE)
  BY <1>1, <1>2 DEF DocFields, TurnedRecord
<1> QED BY <1>3, <1>4, TurnedTable

LEMMA BackAndForth ==
    ASSUME NEW t, DocTable(t), NEW d \in DOMAIN t, NEW u,
           NEW status \in {"prepared", "received", "reversed"},
           u = [t EXCEPT ![d].status = status]
    PROVE  TurnedTo(u, t, d, status, t[d].corrected)
<1>1. PICK old : /\ old = t[d] /\ old = [i \in DocFields |-> old[i]]
                 /\ old.corrected \in BOOLEAN
  BY FieldsOfDocument DEF DocTable, FieldsOK
<1>2. PICK x : x = [old EXCEPT !.status = status]
  OBVIOUS
<1>3. u = [t EXCEPT ![d] = x]
  BY <1>1, <1>2
<1>4. TurnedRecord(x, t[d], status, t[d].corrected)
  BY <1>1, <1>2 DEF DocFields, TurnedRecord
<1> QED BY <1>3, <1>4, TurnedTable

LEMMA GrowAfterTurn ==
    ASSUME DocsOK, NEW t, NEW d \in DOMAIN docs, NEW status, NEW corrected,
           TurnedTo(t, docs, d, status, corrected),
           NEW doc, IsDocument(doc), doc.of <= Len(docs), docs' = Append(t, doc)
    PROVE  /\ DocsGrow /\ Len(docs) + 1 \in DOMAIN docs' /\ Len(docs') = Len(docs) + 1
           /\ Len(docs) + 1 \in Nat
<1>1. DocTable(t) /\ DOMAIN t = DOMAIN docs /\ Len(t) = Len(docs)
  BY DEF TurnedTo
<1>2. /\ DocTable(docs') /\ DOMAIN docs' = DOMAIN t \cup {Len(t) + 1}
      /\ Len(docs') = Len(t) + 1 /\ Len(t) \in Nat
  BY <1>1, DocAppended
<1> QED BY <1>1, <1>2, GrowByTable

LEMMA CommitCorrectionCommits ==
    ASSUME TypeInv, NEW r \in Attempts, CommitCorrection(r) PROVE Commits(r)
<1> DEFINE q == attempt[r].request
           d == q.doc
           a == attempt[r].read
           new == Len(docs) + 1
           fund == IF a.method = "custody" THEN a.fund ELSE 0
           doc == [Document("purchase", "received", q, Key("document", q))
                      EXCEPT !.lines = q.lines, !.method = a.method, !.fund = fund,
                             !.receipt = q, !.revision = 2]
           turned == [docs EXCEPT ![q.doc].status = "reversed", ![q.doc].corrected = TRUE]
           old == [i \in Items |-> IF i \in DOMAIN q.lines THEN q.lines[i].price
                                   ELSE lastPrice[i]]
           ms == Reversals(new, a.rows) \o Receipts(new, q.lines)
           fs == FundsReversals(new, a.owed) \o FundsPurchase(new, a.method, fund, q.lines)
<1>1. q \in Requests /\ q.op = "correct" /\ attempt[r].pc = "commit" /\ attempt[r] # Unsent
      /\ ReadOK(a) /\ d \in DOMAIN docs
  BY DoingRequest, ReadAtCommit DEF CommitCorrection, At, ByDocument
<1>2. /\ docs' = Append(turned, doc) /\ Ended(r, "done", new)
      /\ Post(r, ms, fs) /\ UNCHANGED counts
      /\ prices' = prices \o NewPrices(new, q.lines, q.date)
      /\ lastPrice' = Refreshed(DOMAIN docs[q.doc].lines, old)
      /\ replies' = replies \cup {[key |-> Key("receive", q), request |-> q, doc |-> new]}
  BY DEF CommitCorrection
<1>3. PICK method \in Methods, money \in Nat : method = a.method /\ money = fund
  BY <1>1 DEF ReadOK
<1>4. PICK lines : lines = q.lines /\ IsLines(lines, Bought)
  BY <1>1, LinesOf
<1>5. IsDocument(doc) /\ doc.of = NoDoc
  <2>1. DocIs(doc, "purchase", "received", q, "document", lines, method, money, NoDoc, q, 2)
    BY <1>3, <1>4, ReplacementDocument
  <2> HIDE DEF doc
  <2>2. "document" \in Tags /\ NoDoc \in Nat /\ 2 \in Nat
    BY DEF Tags, NoDoc
  <2> QED BY <1>1, <1>3, <1>4, <2>1, <2>2, NewDocument DEF DocIs
<1> HIDE DEF doc
<1>6. TurnedTo(turned, docs, d, "reversed", TRUE)
  BY <1>1, DocsNumbers, ForGood DEF TypeInv
<1> HIDE DEF turned
<1>7. doc.of <= Len(docs)
  BY <1>5, DocsNumbers DEF NoDoc, TypeInv
<1>8. DocsGrow /\ new \in DOMAIN docs' /\ new \in Nat
  BY <1>1, <1>2, <1>5, <1>6, <1>7, GrowAfterTurn DEF TypeInv
<1> HIDE DEF new
<1>9. TablesOK'
  <2>1. prices' \in Seq(PriceRows(DOMAIN docs'))
    <3>1. q.date \in Days
      BY <1>1, OrdersConstants
    <3> QED BY <1>2, <1>4, <1>8, <3>1, TablesAre, PricesExtended DEF TypeInv, DocsGrow
  <2>2. lastPrice' \in Prices
    <3>1. PICK before \in Prices : before = old
      BY <1>4, TablesAre, OfferedType DEF TypeInv
    <3>2. PICK items : items = DOMAIN docs[q.doc].lines
      OBVIOUS
    <3>3. Refreshed(items, before) \in Prices
      BY <2>1, RefreshedType
    <3> QED BY <1>2, <3>1, <3>2, <3>3
  <2>3. counts' \in Seq(Requests)
    BY <1>2, TablesAre DEF TypeInv
  <2>4. "receive" \in Tags
    BY DEF Tags
  <2>5. {[key |-> Key("receive", q), request |-> q, doc |-> new]}
              \subseteq [key : Keys, request : Requests, doc : DOMAIN docs']
    BY <1>1, <1>8, <2>4, ReplyType
  <2>6. TablesOK /\ DOMAIN docs \subseteq DOMAIN docs'
    BY <1>8 DEF TypeInv, DocsGrow
  <2>7. PICK P : /\ P \subseteq [key : Keys, request : Requests, doc : DOMAIN docs']
                 /\ replies' = replies \cup P
    BY <1>2, <2>5, Zenon
  <2>8. replies' \subseteq replies \cup P
    BY <2>7
  <2> QED BY <2>1, <2>2, <2>3, <2>6, <2>7, <2>8, TablesWritten
<1>11. SomeMoves(ms, ItemsOf(a.rows) \cup DOMAIN lines)
  BY <1>1, <1>4, <1>8, ReversalsMove, OneList, ReceiptsMove, TwoLists DEF TypeInv, ReadOK
<1>12. SomeFunds(fs, a.owed # {} \/ method = "custody")
  <2>1. SomeFunds(FundsReversals(new, a.owed), a.owed # {})
    BY <1>1, <1>8, FundsReversalsList, OneFundList DEF TypeInv, ReadOK
  <2>2. SomeFunds(FundsPurchase(new, a.method, fund, q.lines), method = "custody")
    BY <1>3, <1>4, <1>8, FundsPurchaseList
  <2>3. PICK s, t : /\ s = FundsReversals(new, a.owed)
                    /\ t = FundsPurchase(new, a.method, fund, q.lines)
    OBVIOUS
  <2>4. PICK b, c : b = (a.owed # {}) /\ c = (method = "custody")
    OBVIOUS
  <2>5. SomeFunds(s, b) /\ SomeFunds(t, c)
    BY <2>1, <2>2, <2>3, <2>4
  <2>6. SomeFunds(s \o t, b \/ c)
    BY <2>5, TwoFundLists
  <2> QED BY <2>3, <2>4, <2>6
<1>13. /\ ItemsOf(a.rows) \cup DOMAIN lines \subseteq Touched(q, attempt[r].read)
       /\ (a.owed # {} \/ method = "custody") => TouchesFunds(q, attempt[r].read)
  BY <1>1, <1>3, <1>4 DEF Touched, TouchesFunds, WithLines
<1>14. Posts(r, ms, ItemsOf(a.rows) \cup DOMAIN lines, fs, a.owed # {} \/ method = "custody")
  BY <1>2, <1>11, <1>12, <1>13, Zenon DEF Posts
<1> QED BY <1>1, <1>2, <1>8, <1>9, <1>14, Zenon DEF Commits, Records

LEMMA CommitToggleCommits ==
    ASSUME TypeInv, NEW r \in Attempts, CommitToggle(r) PROVE Commits(r)
<1> DEFINE q == attempt[r].request
           d == q.doc
           a == attempt[r].read
           new == Len(docs) + 1
           status == IF q.op = "undo" THEN "received" ELSE "reversed"
           doc == [Document(docs[d].type, "reversed", q, Key("document", q))
                      EXCEPT !.method = docs[d].method, !.of = a.head]
           turned == [docs EXCEPT ![d].status = status]
           ms == Reversals(new, a.rows)
           fs == FundsReversals(new, a.owed)
<1>1. /\ q \in Requests /\ q.op \in {"reverse", "undo"} /\ attempt[r].pc = "commit"
      /\ attempt[r] # Unsent /\ ReadOK(a) /\ d \in DOMAIN docs
  BY DoingRequest, ReadAtCommit DEF CommitToggle, At, ByDocument
<1>2. /\ docs' = Append(turned, doc) /\ Ended(r, "done", new)
      /\ Post(r, ms, fs) /\ UNCHANGED <<counts, prices, replies>>
      /\ lastPrice' = IF docs[d].type = "purchase"
                      THEN Refreshed(DOMAIN docs[d].lines, lastPrice) ELSE lastPrice
  BY DEF CommitToggle
<1>3. PICK type, method, of, end : /\ type = docs[d].type /\ method = docs[d].method
                                   /\ of = a.head /\ end = status
  OBVIOUS
<1>4. /\ type \in {"purchase", "issue", "cancellation"} /\ method \in Methods
      /\ end \in {"prepared", "received", "reversed"} /\ of \in Nat /\ of <= Len(docs)
  BY <1>1, <1>3, FieldsOfDocument, DocsNumbers DEF TypeInv, DocsOK, FieldsOK, ReadOK
<1>5. IsDocument(doc) /\ doc.of = of
  <2>1. DocIs(doc, type, "reversed", q, "document", <<>>, method, 0, of, Unsent, 1)
    BY <1>3, ReversalDocument
  <2> HIDE DEF doc
  <2>2. "document" \in Tags /\ 0 \in Nat /\ 1 \in Nat
    BY DEF Tags
  <2> QED BY <1>1, <1>4, <2>1, <2>2, NoLines, NewDocument DEF DocIs
<1> HIDE DEF doc
<1>6. TurnedTo(turned, docs, d, end, docs[d].corrected)
  BY <1>1, <1>3, <1>4, DocsNumbers, BackAndForth DEF TypeInv
<1> HIDE DEF turned
<1>8. DocsGrow /\ new \in DOMAIN docs' /\ new \in Nat
  BY <1>1, <1>2, <1>4, <1>5, <1>6, GrowAfterTurn DEF TypeInv
<1> HIDE DEF new
<1>9. TablesOK'
  <2>0. TablesOK /\ DOMAIN docs \subseteq DOMAIN docs'
    BY <1>8 DEF TypeInv, DocsGrow
  <2>1. prices' \in Seq(PriceRows(DOMAIN docs'))
    BY <1>2, <2>0, PricesUnchanged
  <2>2. lastPrice' \in Prices
    <3>1. PICK before \in Prices : before = lastPrice
      BY TablesAre DEF TypeInv
    <3>2. PICK items : items = DOMAIN docs[d].lines
      OBVIOUS
    <3>3. Refreshed(items, before) \in Prices
      BY <2>1, RefreshedType
    <3> QED BY <1>2, <3>1, <3>2, <3>3
  <2>3. counts' \in Seq(Requests)
    BY <1>2, TablesAre DEF TypeInv
  <2>4. /\ {} \subseteq [key : Keys, request : Requests, doc : DOMAIN docs']
        /\ replies' \subseteq replies \cup {}
    BY <1>2
  <2> QED BY <2>0, <2>1, <2>2, <2>3, <2>4, TablesWritten
<1>11. SomeMoves(ms, ItemsOf(a.rows))
  BY <1>1, <1>8, ReversalsMove, OneList DEF TypeInv, ReadOK
<1>12. SomeFunds(fs, a.owed # {})
  BY <1>1, <1>8, FundsReversalsList, OneFundList DEF TypeInv, ReadOK
<1>13. /\ ItemsOf(a.rows) \subseteq Touched(q, attempt[r].read)
       /\ a.owed # {} => TouchesFunds(q, attempt[r].read)
  BY DEF Touched, TouchesFunds
<1>14. Posts(r, ms, ItemsOf(a.rows), fs, a.owed # {})
  BY <1>2, <1>11, <1>12, <1>13, Zenon DEF Posts
<1> QED BY <1>1, <1>2, <1>8, <1>9, <1>14, Zenon DEF Commits, Records

LEMMA TwoAppended ==
    ASSUME NEW t, DocTable(t), NEW x, IsDocument(x), x.of <= Len(t),
           NEW y, IsDocument(y), y.of = NoDoc, NEW u, u = t \o <<x, y>>
    PROVE  /\ DocTable(u) /\ Len(u) = Len(t) + 2 /\ Len(t) \in Nat
           /\ DOMAIN t \subseteq DOMAIN u
           /\ Len(t) + 1 \in DOMAIN u /\ Len(t) + 2 \in DOMAIN u
           /\ u = Append(Append(t, x), y)
<1>1. PICK S : t \in Seq(S) /\ x \in S /\ y \in S
  <2>1. t \in Seq(Range(t)) /\ Range(t) \subseteq Range(t) \cup {x, y}
    BY DEF DocTable
  <2>2. t \in Seq(Range(t) \cup {x, y})
    BY <2>1, Sums!WiderSeq
  <2> QED BY <2>2
<1>2. u = Append(Append(t, x), y)
  BY <1>1, Sums!JoinPair
<1>3. PICK v : v = Append(t, x)
  OBVIOUS
<1>4. /\ DocTable(v) /\ DOMAIN v = DOMAIN t \cup {Len(t) + 1} /\ Len(v) = Len(t) + 1
      /\ Len(t) \in Nat
  BY <1>3, DocAppended
<1>5. y.of <= Len(v)
  BY <1>4 DEF NoDoc
<1>6. u = Append(v, y)
  BY <1>2, <1>3
<1>7. DocTable(u) /\ DOMAIN u = DOMAIN v \cup {Len(v) + 1} /\ Len(u) = Len(v) + 1
  BY <1>4, <1>5, <1>6, DocAppended
<1> QED BY <1>2, <1>4, <1>7

LEMMA CommitAmendCommits ==
    ASSUME TypeInv, NEW r \in Attempts, CommitAmend(r) PROVE Commits(r)
<1> DEFINE q == attempt[r].request
           d == q.doc
           a == attempt[r].read
           undone == Len(docs) + 1
           new == Len(docs) + 2
           reversal == [Document("issue", "reversed", q, Key("reversal", q))
                           EXCEPT !.of = a.head]
           doc == [Document("issue", "received", q, Key("replacement", q))
                      EXCEPT !.lines = q.lines]
           turned == [docs EXCEPT ![d].status = "reversed", ![d].corrected = TRUE]
           ms == Reversals(undone, a.rows)
                         \o Issues(new, "issue", q.lines, attempt[r].seen.cost)
<1>1. /\ q \in Requests /\ q.op = "amend" /\ attempt[r].pc = "commit" /\ attempt[r] # Unsent
      /\ ReadOK(a) /\ d \in DOMAIN docs /\ SeenOK(attempt[r])
  BY DoingRequest, ReadAtCommit DEF CommitAmend, At, ByDocument
<1>2. /\ docs' = turned \o <<reversal, doc>> /\ Ended(r, "done", new)
      /\ Post(r, ms, <<>>) /\ UNCHANGED <<counts, prices, lastPrice>>
      /\ replies' = replies \cup {[key |-> Key("amend", q), request |-> q, doc |-> new]}
  BY DEF CommitAmend
<1>3. PICK lines, cost, of : lines = q.lines /\ cost = attempt[r].seen.cost /\ of = a.head
  OBVIOUS
<1>4. IsLines(lines, Used) /\ of \in Nat /\ of <= Len(docs)
  BY <1>1, <1>3, DocsNumbers, LinesOf DEF TypeInv, ReadOK
<1>5. \A i \in DOMAIN lines : cost[i] \in Nat
  BY <1>1, <1>3 DEF SeenOK
<1>6. IsDocument(reversal) /\ reversal.of = of
  <2>1. DocIs(reversal, "issue", "reversed", q, "reversal", <<>>, "none", 0, of, Unsent, 1)
    BY <1>3, UndoneDocument
  <2> HIDE DEF reversal
  <2>2. "reversal" \in Tags /\ 0 \in Nat /\ 1 \in Nat /\ "none" \in Methods
    BY DEF Tags, Methods
  <2> QED BY <1>1, <1>4, <2>1, <2>2, NoLines, NewDocument DEF DocIs
<1>7. IsDocument(doc) /\ doc.of = NoDoc
  <2>1. DocIs(doc, "issue", "received", q, "replacement", lines, "none", 0, NoDoc, Unsent, 1)
    BY <1>3, RegistrationDocument
  <2> HIDE DEF doc
  <2>2. "replacement" \in Tags /\ 0 \in Nat /\ 1 \in Nat /\ NoDoc \in Nat /\ "none" \in Methods
    BY DEF Tags, Methods, NoDoc
  <2> QED BY <1>1, <1>4, <2>1, <2>2, NewDocument DEF DocIs
<1> HIDE DEF doc, reversal
<1>8. TurnedTo(turned, docs, d, "reversed", TRUE)
  BY <1>1, DocsNumbers, ForGood DEF TypeInv
<1> HIDE DEF turned
<1>9. DocTable(turned) /\ Len(turned) = Len(docs) /\ DOMAIN turned = DOMAIN docs
  BY <1>8 DEF TurnedTo
<1>10. /\ DocTable(docs') /\ DOMAIN docs \subseteq DOMAIN docs'
       /\ undone \in DOMAIN docs' /\ new \in DOMAIN docs'
  BY <1>2, <1>4, <1>6, <1>7, <1>9, TwoAppended
<1>11. DocsGrow /\ undone \in Nat /\ new \in Nat
  BY <1>10, GrowByTable, DocsNumbers DEF TypeInv
<1> HIDE DEF undone, new
<1>12. TablesOK'
  <2>1. "amend" \in Tags
    BY DEF Tags
  <2>2. {[key |-> Key("amend", q), request |-> q, doc |-> new]}
              \subseteq [key : Keys, request : Requests, doc : DOMAIN docs']
    BY <1>1, <1>10, <2>1, ReplyType
  <2>3. PICK P : /\ P \subseteq [key : Keys, request : Requests, doc : DOMAIN docs']
                 /\ replies' = replies \cup P
    BY <1>2, <2>2, Zenon
  <2>4. replies' \subseteq replies \cup P
    BY <2>3
  <2> QED BY <1>2, <1>10, <2>3, <2>4, TablesUnchanged DEF TypeInv
<1>13. SomeMoves(ms, ItemsOf(a.rows) \cup DOMAIN lines)
  BY <1>1, <1>3, <1>4, <1>5, <1>11, ReversalsMove, OneList, IssuesMove, TwoLists DEF TypeInv,
     ReadOK
<1>14. ItemsOf(a.rows) \cup DOMAIN lines \subseteq Touched(q, attempt[r].read)
  BY <1>1, <1>3 DEF Touched, WithLines
<1>15. Posts(r, ms, ItemsOf(a.rows) \cup DOMAIN lines, <<>>, FALSE)
  BY <1>2, <1>13, <1>14, NoFunds DEF Posts
<1> QED BY <1>1, <1>2, <1>11, <1>12, <1>15, Zenon DEF Commits, Records

--------------------
\* The kinds of steps.

LEMMA ReadBalancesSees ==
    ASSUME TypeInv, NEW r \in Attempts, ReadBalances(r) PROVE Refused(r) \/ Sees(r)
<1> DEFINE q == attempt[r].request
           uses == IF q.op \in {"register", "amend"} THEN DOMAIN q.lines ELSE {}
           seen == [balance |-> [i \in Items |-> BalanceOf(i)], funds |-> FundsBalance,
                    cost |-> [i \in uses |-> LastFive(i)]]
<1>1. CASE /\ \A i \in uses : Priced(i) # {}
           /\ attempt' = [attempt EXCEPT ![r].pc = "commit", ![r].seen = seen]
           /\ UNCHANGED lock /\ Unwritten
  <2>0. attempt[r].pc = "balances"
    BY DEF ReadBalances, At
  <2>1. attempt[r] # Unsent /\ attempt[r].pc \notin Closed
    BY <2>0, UnsentIdle DEF Closed
  <2>2. q \in Requests /\ IsActive(attempt[r])
    BY <2>1 DEF TypeInv, AttemptsOK, AttemptOK
  <2>3. \A i \in uses : LastFive(i) \in Nat
    BY <1>1, LastFiveType DEF TypeInv
  <2>4. /\ seen.balance = [i \in Items |-> BalanceOf(i)] /\ seen.funds = FundsBalance
        /\ \A i \in uses : seen.cost[i] = LastFive(i)
    OBVIOUS
  <2> HIDE DEF seen
  <2>5. q.op \in {"register", "amend"} => \A i \in DOMAIN q.lines : seen.cost[i] \in Nat
    BY <2>3, <2>4
  <2> QED BY <1>1, <2>0, <2>2, <2>4, <2>5 DEF Sees
<1>2. \/ Refused(r)
      \/ /\ \A i \in uses : Priced(i) # {}
         /\ attempt' = [attempt EXCEPT ![r].pc = "commit", ![r].seen = seen]
         /\ UNCHANGED lock /\ Unwritten
  BY DEF ReadBalances
<1> QED BY <1>1, <1>2

LEMMA Idle == ASSUME NEW r, attempt[r].pc # "idle" PROVE attempt[r] # Unsent
  BY UnsentIdle

LEMMA ReadReceiptKinds ==
    ASSUME TypeInv, NEW r \in Attempts, ReadReceipt(r) PROVE StepKind(r)
<1>1. attempt[r].pc = "read" /\ attempt[r] # Unsent
  BY Idle DEF ReadReceipt, At
<1>2. CASE ReadsOnly(r)
  BY <1>1, <1>2 DEF ReadsOnly, StepKind, GivesUp
<1>3. CASE \E p \in [key : Keys, request : Requests, doc : DOMAIN docs] :
                /\ replies' = replies \cup {p} /\ Ended(r, "done", p.doc)
                /\ UNCHANGED <<stock, custody, docs, counts, prices, lastPrice>>
  <2>1. PICK p \in [key : Keys, request : Requests, doc : DOMAIN docs] :
                /\ replies' = replies \cup {p} /\ Ended(r, "done", p.doc)
                /\ UNCHANGED <<stock, custody, docs, counts, prices, lastPrice>>
    BY <1>3
  <2>2. DocsGrow
    BY <2>1, GrowBySame DEF TypeInv
  <2>3. TablesOK'
    <3>1. PICK P : P = {p}
      OBVIOUS
    <3>2. P \subseteq [key : Keys, request : Requests, doc : DOMAIN docs']
          /\ replies' \subseteq replies \cup P /\ DOMAIN docs \subseteq DOMAIN docs'
      BY <2>1, <3>1
    <3> QED BY <2>1, <3>2, TablesUnchanged DEF TypeInv
  <2>4. WritesOnly(r)
    BY <1>1, <2>1, <2>2, <2>3 DEF WritesOnly, Records
  <2> QED BY <2>1, <2>4 DEF StepKind, books
<1> QED BY <1>2, <1>3, ReadReceiptReads

LEMMA StepKinds ==
    ASSUME TypeInv, Next
    PROVE  (\E r \in Attempts : StepKind(r) /\ Acts(r)) \/ Expire \/ UNCHANGED vars
<1>1. ASSUME NEW r \in Attempts, NEW q \in Requests, Submit(r, q) PROVE StepKind(r)
  BY <1>1 DEF StepKind
<1>2. ASSUME NEW r \in Attempts, Acquire(r) PROVE StepKind(r)
  BY <1>2 DEF StepKind
<1>3. ASSUME NEW r \in Attempts, BreakDeadlock(r) PROVE StepKind(r)
  BY <1>3, Idle DEF BreakDeadlock, Deadlocked, Waiting, At, StepKind, GivesUp, EndsQuietly, Closed
<1>4. ASSUME NEW r \in Attempts, Abort(r) PROVE StepKind(r)
  BY <1>4, Idle DEF Abort, StepKind, GivesUp, EndsQuietly, Closed
<1>5. ASSUME NEW r \in Attempts, Collide(r) PROVE StepKind(r)
  BY <1>5, Idle DEF Collide, At, StepKind, GivesUp, EndsQuietly, Closed
<1>6. ASSUME NEW r \in Attempts, Prepare(r) PROVE StepKind(r)
  BY <1>6, PrepareWrites DEF Prepare, Doing, StepKind, GivesUp, Writes
<1>7. ASSUME NEW r \in Attempts, StartRegistration(r) PROVE StepKind(r)
  BY <1>7, StartRegistrationReads DEF StartRegistration, Doing, StepKind, GivesUp, ReadsOnly
<1>8. ASSUME NEW r \in Attempts, StartCount(r) PROVE StepKind(r)
  BY <1>8, StartCountReads DEF StartCount, Doing, StepKind, GivesUp, ReadsOnly
<1>9. ASSUME NEW r \in Attempts, StartAmend(r) PROVE StepKind(r)
  BY <1>9, StartAmendReads DEF StartAmend, Doing, StepKind, GivesUp, ReadsOnly
<1>10. ASSUME NEW r \in Attempts, AnswerReplay(r) PROVE StepKind(r)
  BY <1>10, AnswerReplayReads DEF AnswerReplay, Doing, StepKind, GivesUp
<1>11. ASSUME NEW r \in Attempts, ReadCorrection(r) PROVE StepKind(r)
  BY <1>11, ReadCorrectionReads DEF ReadCorrection, Doing, StepKind, GivesUp, ReadsOnly
<1>12. ASSUME NEW r \in Attempts, ReadToggle(r) PROVE StepKind(r)
  BY <1>12, ReadToggleReads DEF ReadToggle, Doing, StepKind, GivesUp, ReadsOnly
<1>13. ASSUME NEW r \in Attempts, ReadAmend(r) PROVE StepKind(r)
  BY <1>13, ReadAmendReads DEF ReadAmend, Doing, StepKind, GivesUp, ReadsOnly
<1>14. ASSUME NEW r \in Attempts, ReadBalances(r) PROVE StepKind(r)
  BY <1>14, Idle, RefusedEnds, ReadBalancesSees DEF ReadBalances, At, StepKind, GivesUp
<1>15. ASSUME NEW r \in Attempts, CommitRegistration(r) PROVE StepKind(r)
  BY <1>15, CommitRegistrationCommits DEF StepKind, Writes
<1>16. ASSUME NEW r \in Attempts, CommitCount(r) PROVE StepKind(r)
  BY <1>16, CommitCountCommits DEF StepKind, Writes
<1>17. ASSUME NEW r \in Attempts, CommitReceipt(r) PROVE StepKind(r)
  BY <1>17, CommitReceiptCommits DEF StepKind, Writes
<1>18. ASSUME NEW r \in Attempts, CommitCorrection(r) PROVE StepKind(r)
  BY <1>18, CommitCorrectionCommits DEF StepKind, Writes
<1>19. ASSUME NEW r \in Attempts, CommitToggle(r) PROVE StepKind(r)
  BY <1>19, CommitToggleCommits DEF StepKind, Writes
<1>20. ASSUME NEW r \in Attempts, CommitAmend(r) PROVE StepKind(r)
  BY <1>20, CommitAmendCommits DEF StepKind, Writes
<1>21. CASE Expire \/ Finished
  BY <1>21 DEF Finished
<1> QED BY <1>1, <1>2, <1>3, <1>4, <1>5, <1>6, <1>7, <1>8, <1>9, <1>10, <1>11, <1>12, <1>13,
           <1>14, <1>15, <1>16, <1>17, <1>18, <1>19, <1>20, <1>21, ReadReceiptKinds, Zenon DEF Next, Acts

--------------------
\* Every step keeps the types.

LEMMA BalanceType ==
    ASSUME LedgersTypeOK
    PROVE  (\A i : BalanceOf(i) \in Balances) /\ FundsBalance \in Int
<1>1. Len(stock) \in Nat /\ DOMAIN stock = 1 .. Len(stock)
      /\ Len(custody) \in Nat /\ DOMAIN custody = 1 .. Len(custody)
  BY DEF LedgersTypeOK
<1>2. ASSUME NEW i PROVE BalanceOf(i) \in Balances
  <2> DEFINE rows == {n \in DOMAIN stock : stock[n].item = i}
  <2>1. CASE rows = {}
    BY <2>1 DEF Empty, Balances, BalanceOf
  <2>2. CASE rows # {}
    <3>1. IsFiniteSet(1 .. Len(stock)) /\ rows \subseteq 1 .. Len(stock)
      BY <1>1, FS_Interval
    <3>2. IsFiniteSet(rows) /\ rows \in SUBSET Nat /\ rows \subseteq DOMAIN stock
      BY <1>1, <3>1, FS_Subset
    <3>3. BalanceOf(i) = stock[Max(rows)].after
      BY <2>2 DEF BalanceOf
    <3> HIDE DEF rows
    <3>4. Max(rows) \in DOMAIN stock
      BY <2>2, <3>2, LargestNumber
    <3>5. stock[Max(rows)] \in StockRows
      BY <3>4, Sums!ElementOf DEF LedgersTypeOK
    <3> QED BY <3>3, <3>5 DEF StockRows
  <2> QED BY <2>1, <2>2
<1>3. FundsBalance \in Int
  <2>1. CASE custody = <<>>
    BY <2>1 DEF FundsBalance
  <2>2. CASE custody # <<>>
    <3>1. Len(custody) \in DOMAIN custody
      BY <2>2 DEF LedgersTypeOK
    <3>2. custody[Len(custody)] \in CustodyRows
      BY <3>1, Sums!ElementOf DEF LedgersTypeOK
    <3> QED BY <2>2, <3>2 DEF FundsBalance, CustodyRows
  <2> QED BY <2>1, <2>2
<1> QED BY <1>2, <1>3

LEMMA NothingSeenType ==
    /\ NothingSeen.balance \in [Items -> Balances] /\ NothingSeen.funds \in Int
<1>1. Empty \in Balances
  BY DEF Empty, Balances
<1> QED BY <1>1 DEF NothingSeen

LEMMA SameTables ==
    ASSUME TypeInv, Unwritten
    PROVE  Wider /\ LedgersTypeOK' /\ DocsOK' /\ TablesOK'
  BY DEF TypeInv, Unwritten, tables, Wider, LedgersTypeOK, DocsOK, TablesOK

LEMMA SubmitKeepsTypes ==
    ASSUME TypeInv, NEW r \in Attempts, NEW q \in Requests, Submit(r, q) PROVE TypeInv'
<1>1. PICK pc : pc = IF q.op \in {"register", "count", "amend"} THEN "start" ELSE "lock"
  OBVIOUS
<1>2. PICK locks, read, seen : locks = <<Window>> /\ read = NothingRead /\ seen = NothingSeen
  OBVIOUS
<1>3. PICK b : b = [pc |-> pc, request |-> q, todo |-> locks, next |-> "read",
                    read |-> read, seen |-> seen]
  OBVIOUS
<1>4. attempt' = [attempt EXCEPT ![r] = b] /\ UNCHANGED lock /\ Unwritten
  BY <1>1, <1>2, <1>3 DEF Submit
<1>5. Wider /\ LedgersTypeOK' /\ DocsOK' /\ TablesOK'
  BY <1>4, SameTables
<1>6. locks \in Seq(Locks) /\ locks # <<>>
  BY <1>2, OneLock, LockKinds
<1>7. ReadOK(read)'
  BY <1>2, <1>5, NothingReadOK DEF TypeInv, ReadOK, Wider
<1>8. IsActive(b)'
  BY <1>1, <1>2, <1>3, <1>6, <1>7, NothingSeenType DEF Past, SeenOK, IsActive
<1>9. AttemptOK(b)'
  BY <1>3, <1>8 DEF AttemptOK
<1>10. AttemptsOK'
  BY <1>4, <1>5, <1>9, AttemptMoves DEF TypeInv
<1> QED BY <1>4, <1>5, <1>10 DEF TypeInv, LockOK

LEMMA SameAttempt ==
    ASSUME NEW a, a = [i \in AttemptFields |-> a[i]], NEW pc, NEW request, NEW todo, NEW next,
           NEW read, NEW seen, a.pc = pc, a.request = request, a.todo = todo, a.next = next,
           a.read = read, a.seen = seen
    PROVE  a = [pc |-> pc, request |-> request, todo |-> todo, next |-> next, read |-> read,
                seen |-> seen]
<1>1. PICK b : b = [pc |-> pc, request |-> request, todo |-> todo, next |-> next,
                    read |-> read, seen |-> seen]
  OBVIOUS
<1>2. b = [i \in AttemptFields |-> b[i]]
  BY <1>1 DEF AttemptFields
<1>3. \A i \in AttemptFields : a[i] = b[i]
  BY <1>1 DEF AttemptFields
<1>4. a = b
  BY <1>2, <1>3
<1> QED BY <1>1, <1>4

LEMMA ActiveFields ==
    ASSUME NEW a, IsActive(a) PROVE a = [i \in AttemptFields |-> a[i]]
<1>1. a = [pc |-> a.pc, request |-> a.request, todo |-> a.todo, next |-> a.next,
           read |-> a.read, seen |-> a.seen]
  BY DEF IsActive
<1> QED BY <1>1 DEF AttemptFields

\* An attempt that waits for its locks, and what it becomes.
LEMMA Locking ==
    ASSUME TypeInv, NEW r \in Attempts, attempt[r].pc = "lock"
    PROVE  /\ IsActive(attempt[r]) /\ attempt[r].request \in Requests
           /\ attempt[r].todo \in Seq(Locks) /\ attempt[r].todo # <<>>
<1>1. attempt[r] # Unsent /\ attempt[r].pc \notin Closed
  BY Idle DEF Closed
<1>2. attempt[r].request \in Requests /\ IsActive(attempt[r])
  BY <1>1 DEF TypeInv, AttemptsOK, AttemptOK
<1> QED BY <1>2 DEF IsActive

LEMMA AcquireKeepsTypes ==
    ASSUME TypeInv, NEW r \in Attempts, Acquire(r) PROVE TypeInv'
<1>1. PICK a : a = attempt[r]
  OBVIOUS
<1>2. /\ IsActive(a) /\ a.request \in Requests /\ a.todo \in Seq(Locks) /\ a.todo # <<>>
      /\ a.pc = "lock"
  BY <1>1, Locking DEF Acquire, At
<1>3. PICK k, rest : k = Head(a.todo) /\ rest = Tail(a.todo)
  OBVIOUS
<1>4. k \in Locks /\ rest \in Seq(Locks)
  BY <1>2, <1>3, Sums!HeadAndTail
<1>5. PICK pc : pc = IF rest = <<>> THEN a.next ELSE "lock"
  OBVIOUS
<1>6. PICK b : b = [pc |-> pc, request |-> a.request, todo |-> rest, next |-> a.next,
                    read |-> a.read, seen |-> a.seen]
  OBVIOUS
<1>7. /\ lock' = [lock EXCEPT ![k] = r] /\ Unwritten
      /\ attempt' = [attempt EXCEPT ![r].todo = rest, ![r].pc = pc]
  BY <1>1, <1>3, <1>5 DEF Acquire
<1>8. attempt' = [attempt EXCEPT ![r] = b]
  <2>1. a = [i \in AttemptFields |-> a[i]]
    BY <1>2, ActiveFields
  <2>2. PICK x : x = [a EXCEPT !.todo = rest, !.pc = pc]
    OBVIOUS
  <2>3. attempt' = [attempt EXCEPT ![r] = x]
    BY <1>1, <1>7, <2>2 DEF TypeInv, AttemptsOK
  <2>4. /\ x = [i \in AttemptFields |-> x[i]] /\ x.pc = pc /\ x.request = a.request
        /\ x.todo = rest /\ x.next = a.next /\ x.read = a.read /\ x.seen = a.seen
    BY <2>1, <2>2 DEF AttemptFields
  <2>5. x = b
    BY <1>6, <2>4, SameAttempt
  <2> QED BY <2>3, <2>5
<1>9. Wider /\ LedgersTypeOK' /\ DocsOK' /\ TablesOK'
  BY <1>7, SameTables
<1>10. IsActive(b)'
  BY <1>2, <1>4, <1>5, <1>6, <1>9 DEF IsActive, ReadOK, Wider, Past, SeenOK
<1>11. AttemptOK(b)'
  BY <1>2, <1>6, <1>10 DEF AttemptOK
<1>12. AttemptsOK'
  BY <1>8, <1>9, <1>11, AttemptMoves DEF TypeInv
<1>13. LockOK'
  BY <1>4, <1>7 DEF TypeInv, LockOK
<1> QED BY <1>9, <1>12, <1>13 DEF TypeInv

LEMMA GivesUpKeepsTypes ==
    ASSUME TypeInv, NEW r \in Attempts, GivesUp(r) PROVE TypeInv'
<1>1. PICK pc, reply : pc \in Closed /\ Ended(r, pc, reply) /\ Unwritten
  BY DEF GivesUp, EndsQuietly
<1>2. Wider /\ LedgersTypeOK' /\ DocsOK' /\ TablesOK'
  BY <1>1, SameTables
<1>3. AttemptsOK' /\ LockOK'
  BY <1>1, <1>2, EndedKeeps DEF GivesUp
<1> QED BY <1>2, <1>3 DEF TypeInv

LEMMA SeesKeepsTypes ==
    ASSUME TypeInv, NEW r \in Attempts, Sees(r) PROVE TypeInv'
<1>1. PICK a : a = attempt[r] /\ a.pc = "balances" /\ a.request \in Requests /\ IsActive(a)
  BY DEF Sees
<1>2. PICK seen : /\ attempt' = [attempt EXCEPT ![r].pc = "commit", ![r].seen = seen]
                  /\ seen.balance = [i \in Items |-> BalanceOf(i)] /\ seen.funds = FundsBalance
                  /\ a.request.op \in {"register", "amend"}
                       => \A i \in DOMAIN a.request.lines : seen.cost[i] \in Nat
  BY <1>1 DEF Sees
<1>3. seen.balance \in [Items -> Balances] /\ seen.funds \in Int
  BY <1>2, BalanceType DEF TypeInv
<1>4. PICK b : b = [pc |-> "commit", request |-> a.request, todo |-> a.todo, next |-> a.next,
                    read |-> a.read, seen |-> seen]
  OBVIOUS
<1>5. attempt' = [attempt EXCEPT ![r] = b]
  <2>1. a = [i \in AttemptFields |-> a[i]]
    BY <1>1, ActiveFields
  <2>2. PICK x : x = [a EXCEPT !.pc = "commit", !.seen = seen]
    OBVIOUS
  <2>3. attempt' = [attempt EXCEPT ![r] = x]
    BY <1>1, <1>2, <2>2 DEF TypeInv, AttemptsOK
  <2>4. /\ x = [i \in AttemptFields |-> x[i]] /\ x.pc = "commit" /\ x.request = a.request
        /\ x.todo = a.todo /\ x.next = a.next /\ x.read = a.read /\ x.seen = seen
    BY <2>1, <2>2 DEF AttemptFields
  <2>5. x = b
    BY <1>4, <2>4, SameAttempt
  <2> QED BY <2>3, <2>5
<1>6. UNCHANGED lock /\ Unwritten
  BY DEF Sees
<1>7. Wider /\ LedgersTypeOK' /\ DocsOK' /\ TablesOK'
  BY <1>6, SameTables
<1>8. IsActive(b)'
  BY <1>1, <1>2, <1>3, <1>4, <1>7 DEF IsActive, ReadOK, Wider, Past, SeenOK
<1>9. AttemptOK(b)'
  BY <1>1, <1>4, <1>8 DEF AttemptOK
<1>10. AttemptsOK'
  BY <1>5, <1>7, <1>9, AttemptMoves DEF TypeInv
<1> QED BY <1>6, <1>7, <1>10 DEF TypeInv, LockOK

LEMMA TakesLocksKeepsTypes ==
    ASSUME TypeInv, NEW r \in Attempts, NEW locks, NEW next, NEW read,
           TakesLocks(r, locks, next, read)
    PROVE  TypeInv'
<1>1. PICK a : a = attempt[r]
  OBVIOUS
<1>2. /\ Lock(r, locks, next, read) /\ Unwritten /\ LocksFor(a.request, locks, next, read)
      /\ a.pc = IF a.request.op \in {"register", "count"} \/ next = "read"
                THEN "start" ELSE "read"
  BY <1>1 DEF TakesLocks
<1>3. a.request \in Requests
  BY <1>1, <1>2, Idle DEF TypeInv, AttemptsOK, AttemptOK
<1>4. PICK pc : pc = IF locks = <<>> THEN next ELSE "lock"
  OBVIOUS
<1>5. PICK seen : seen = NothingSeen
  OBVIOUS
<1>6. PICK b : b = [pc |-> pc, request |-> a.request, todo |-> locks, next |-> next,
                    read |-> read, seen |-> seen]
  OBVIOUS
<1>7. attempt' = [attempt EXCEPT ![r] = b] /\ UNCHANGED lock
  BY <1>1, <1>2, <1>4, <1>5, <1>6 DEF Lock
<1>8. Wider /\ LedgersTypeOK' /\ DocsOK' /\ TablesOK'
  BY <1>2, SameTables
<1>9. IsActive(b)'
  <2>1. /\ b.pc = pc /\ b.request = a.request /\ b.todo = locks /\ b.next = next
        /\ b.read = read /\ b.seen = seen
    BY <1>6
  <2>2. ReadOK(read)'
    BY <1>2, <1>8 DEF LocksFor, ReadOK, Wider
  <2>3. /\ next \in {"read", "balances"} /\ pc \in {"lock", "read", "balances"}
        /\ pc = "lock" => locks # <<>>
        /\ locks \in Seq(Locks)
    BY <1>2, <1>4 DEF LocksFor
  <2>4. Past(b)' /\ a.request.op \in ByDocument => a.request.doc \in DOMAIN docs'
    BY <1>2, <1>4, <1>8, <2>1, <2>3 DEF Past, LocksFor, Wider
  <2>5. SeenOK(b)'
    BY <1>5, <2>1, <2>3, NothingSeenType DEF SeenOK
  <2> QED BY <1>6, <2>1, <2>2, <2>3, <2>4, <2>5 DEF IsActive
<1>10. AttemptOK(b)'
  BY <1>3, <1>6, <1>9 DEF AttemptOK
<1>11. AttemptsOK'
  BY <1>7, <1>8, <1>10, AttemptMoves DEF TypeInv
<1> QED BY <1>7, <1>8, <1>11 DEF TypeInv, LockOK

LEMMA RecordsKeepsTypes ==
    ASSUME TypeInv, NEW r \in Attempts, Records(r), LedgersTypeOK',
           DOMAIN stock \subseteq DOMAIN stock', DOMAIN custody \subseteq DOMAIN custody'
    PROVE  TypeInv'
<1>1. Wider
  BY DEF Records, DocsGrow, Wider
<1>2. PICK d : Ended(r, "done", d)
  BY DEF Records
<1>3. "done" \in Closed
  BY DEF Closed
<1>4. AttemptsOK' /\ LockOK'
  BY <1>1, <1>2, <1>3, EndedKeeps DEF Records
<1> QED BY <1>4 DEF TypeInv, Records, DocsGrow

\* What a commit does to the ledgers.
LEMMA CommitGrows ==
    ASSUME TypeInv, NEW r \in Attempts, Commits(r)
    PROVE  LedgersTypeOK' /\ Grown(stock, stock', StockRows) /\ Grown(custody, custody', CustodyRows)
<1>1. PICK ms, S, fs, c : Posts(r, ms, S, fs, c)
  BY DEF Commits
<1>2. PICK m \in Nat : MovesOver(ms, m, S)
  BY <1>1 DEF Posts, SomeMoves
<1>3. PICK n \in Nat : FundsOver(fs, n, c)
  BY <1>1 DEF Posts, SomeFunds
<1>4. /\ attempt[r].seen.balance \in [Items -> Balances] /\ attempt[r].seen.funds \in Int
  BY ReadAtCommit DEF Commits, SeenOK
<1>5. LedgersTypeOK /\ MoveList(ms, m) /\ FundList(fs, n) /\ Post(r, ms, fs)
  BY <1>1, <1>2, <1>3 DEF TypeInv, MovesOver, FundsOver, Posts
<1> QED BY <1>4, <1>5, PostGrows

LEMMA GrownDomain ==
    ASSUME NEW R, NEW s \in Seq(R), NEW t, Grown(s, t, R) PROVE DOMAIN s \subseteq DOMAIN t
<1>1. DOMAIN s = 1 .. Len(s)
  OBVIOUS
<1>2. DOMAIN t = 1 .. Len(t) /\ Len(s) <= Len(t) /\ Len(s) \in Nat /\ Len(t) \in Nat
  BY DEF Grown
<1> QED BY <1>1, <1>2

LEMMA CommitsKeepsTypes ==
    ASSUME TypeInv, NEW r \in Attempts, Commits(r) PROVE TypeInv'
<1>1. LedgersTypeOK' /\ DOMAIN stock \subseteq DOMAIN stock' /\ DOMAIN custody \subseteq DOMAIN custody'
  BY CommitGrows, GrownDomain DEF TypeInv, LedgersTypeOK
<1> QED BY <1>1, RecordsKeepsTypes DEF Commits

LEMMA WritesOnlyKeepsTypes ==
    ASSUME TypeInv, NEW r \in Attempts, WritesOnly(r) PROVE TypeInv'
<1>1. LedgersTypeOK' /\ DOMAIN stock \subseteq DOMAIN stock' /\ DOMAIN custody \subseteq DOMAIN custody'
  BY DEF TypeInv, LedgersTypeOK, WritesOnly
<1> QED BY <1>1, RecordsKeepsTypes DEF WritesOnly

LEMMA ExpireKeepsTypes == ASSUME TypeInv, Expire PROVE TypeInv'
<1>1. UNCHANGED <<stock, custody, docs, counts, prices, lastPrice, lock, attempt>>
      /\ replies' \subseteq replies
  BY DEF Expire
<1>2. LedgersTypeOK' /\ DocsOK' /\ LockOK' /\ AttemptsOK'
  BY <1>1 DEF TypeInv, LedgersTypeOK, DocsOK, LockOK, AttemptsOK, AttemptOK, IsActive, ReadOK,
              SeenOK, Past
<1>3. TablesOK'
  BY <1>1 DEF TypeInv, TablesOK
<1> QED BY <1>2, <1>3 DEF TypeInv

LEMMA InitTypes == ASSUME Init PROVE TypeInv
<1>1. /\ docs = OldOrders /\ stock = <<>> /\ custody = <<>> /\ counts = <<>> /\ prices = <<>>
      /\ replies = {} /\ lastPrice = [i \in Items |-> 1]
      /\ lock = [k \in Locks |-> Nobody] /\ attempt = [r \in Attempts |-> Unsent]
  BY DEF Init
<1>2. LedgersTypeOK
  BY <1>1 DEF LedgersTypeOK
<1>3. DocsOK
  <2>1. /\ OldOrders \in Seq(Range(OldOrders))
        /\ \A d \in DOMAIN OldOrders : IsDocument(OldOrders[d]) /\ OldOrders[d].of = NoDoc
    BY OldOrdersPrepared, Zenon
  <2>2. \A d \in DOMAIN OldOrders : d \in Nat /\ d # 0
    BY <2>1
  <2>3. \A d \in DOMAIN OldOrders : OldOrders[d].of < d
    BY <2>1, <2>2 DEF NoDoc
  <2> QED BY <1>1, <2>1, <2>3 DEF DocsOK
<1>4. TablesOK
  BY <1>1 DEF TablesOK
<1>5. LockOK /\ AttemptsOK
  BY <1>1 DEF LockOK, AttemptsOK, AttemptOK
<1> QED BY <1>2, <1>3, <1>4, <1>5 DEF TypeInv

LEMMA TypesKept == ASSUME TypeInv, [Next]_vars PROVE TypeInv'
<1>1. CASE UNCHANGED vars
  BY <1>1 DEF vars, tables, TypeInv, LedgersTypeOK, DocsOK, LockOK, TablesOK, AttemptsOK,
              AttemptOK, IsActive, ReadOK, SeenOK, Past
<1>2. CASE Expire
  BY <1>2, ExpireKeepsTypes
<1>3. ASSUME NEW r \in Attempts, StepKind(r) PROVE TypeInv'
  BY <1>3, SubmitKeepsTypes, AcquireKeepsTypes, GivesUpKeepsTypes, SeesKeepsTypes,
     WritesOnlyKeepsTypes, CommitsKeepsTypes, TakesLocksKeepsTypes DEF StepKind
<1> QED BY <1>1, <1>2, <1>3, StepKinds

\* TypeOK: every row, document, price, answer and lock has its type, and what an
\* attempt has read names rows and documents that exist.
THEOREM OrdersTypeCorrect == Spec => []TypeOK
<1>1. Init => TypeInv
  BY InitTypes
<1>2. TypeInv /\ [Next]_vars => TypeInv'
  BY TypesKept
<1>3. TypeInv => TypeOK
  BY TypeInvIsType
<1> QED BY <1>1, <1>2, <1>3, PTL DEF Spec

--------------------
\* The locks a request holds, and those it will still take.

LEMMA SameStockGrows == ASSUME LedgersTypeOK, UNCHANGED stock PROVE StockGrows
  BY DEF LedgersTypeOK, StockGrows, Grown

\* The items of rows that were read stay what they are.
LEMMA SameItems ==
    ASSUME LedgersTypeOK, StockGrows, NEW rows \in SUBSET DOMAIN stock
    PROVE  ItemsOf(rows)' = ItemsOf(rows)
<1>1. DOMAIN stock = 1 .. Len(stock)
  BY DEF LedgersTypeOK
<1>2. \A n \in rows : stock'[n] = stock[n]
  BY <1>1 DEF StockGrows, Grown
<1> QED BY <1>2 DEF ItemsOf

LEMMA ActiveReads ==
    ASSUME NEW a, AttemptOK(a), a # Unsent, a.pc \notin Closed
    PROVE  /\ IsActive(a) /\ a.request \in Requests /\ a.todo \in Seq(Locks)
           /\ a.read.rows \in SUBSET DOMAIN stock
  BY DEF AttemptOK, IsActive, ReadOK

LEMMA OthersHold ==
    ASSUME TypeInv, LocksInv, NEW s \in Attempts, LeavesOthers(s), StockGrows,
           NEW r \in Attempts, r # s
    PROVE  HoldsOK(r, attempt[r])'
<1>1. PICK a : a = attempt[r] /\ a = attempt'[r] /\ HoldsOK(r, a) /\ AttemptOK(a)
  BY DEF LeavesOthers, LocksInv, TypeInv, AttemptsOK
<1>2. \A k \in Locks : (lock'[k] = r) <=> (lock[k] = r)
  BY DEF LeavesOthers
<1>3. HoldsNone(r) => HoldsNone(r)'
  BY <1>2 DEF HoldsNone
<1>4. InOrder(r, a) => InOrder(r, a)'
  BY <1>2 DEF InOrder
<1>5. ASSUME a # Unsent, a.pc \notin Closed, Guards(r, a) PROVE Guards(r, a)'
  <2>1. a.read.rows \in SUBSET DOMAIN stock /\ a.request \in Requests
    BY <1>1, <1>5, ActiveReads
  <2>2. Touched(a.request, a.read)' = Touched(a.request, a.read)
    BY <2>1, SameItems DEF TypeInv, Touched
  <2>3. \A i \in Touched(a.request, a.read) : i \in Items
    BY <2>1, RequestLines, ItemsFinite DEF TypeInv, Touched
  <2>4. \A k \in Locks : Reserved(r, a, k) => Reserved(r, a, k)'
    BY <1>2 DEF Reserved
  <2>5. \A i \in Touched(a.request, a.read) : StockOf(i) \in Locks
    BY <2>3, LockKinds
  <2>6. Custody \in Locks
    BY LockKinds
  <2>7. \A i \in Touched(a.request, a.read)' : Reserved(r, a, StockOf(i))'
    BY <1>5, <2>2, <2>4, <2>5 DEF Guards
  <2>8. TouchesFunds(a.request, a.read)' => Reserved(r, a, Custody)'
    BY <1>5, <2>4, <2>6 DEF Guards, TouchesFunds
  <2> QED BY <2>7, <2>8 DEF Guards
<1>6. HoldsOK(r, a)'
  BY <1>1, <1>2, <1>3, <1>4, <1>5 DEF HoldsOK, Past
<1> QED BY <1>1, <1>6

\* A step of r moves it to b; the others are left alone.
LEMMA OnlyItsAttempt ==
    ASSUME TypeInv, NEW r \in Attempts, NEW b, attempt' = [attempt EXCEPT ![r] = b]
    PROVE  attempt'[r] = b /\ \A s \in Attempts : s # r => attempt'[s] = attempt[s]
  BY DEF TypeInv, AttemptsOK

LEMMA LocksStep ==
    ASSUME TypeInv, LocksInv, NEW r \in Attempts, LeavesOthers(r), StockGrows,
           HoldsOK(r, attempt[r])'
    PROVE  LocksInv'
<1>1. \A s \in Attempts : HoldsOK(s, attempt[s])'
  BY OthersHold
<1> QED BY <1>1 DEF LocksInv

\* What each kind of step makes of the record of its request.
LEMMA EndedMakes ==
    ASSUME TypeInv, NEW r \in Attempts, NEW pc, NEW reply, Ended(r, pc, reply)
    PROVE  /\ attempt'[r].pc = pc /\ attempt'[r].request = attempt[r].request
           /\ \A s \in Attempts : s # r => attempt'[s] = attempt[s]
<1>1. PICK b : b = [pc |-> pc, request |-> attempt[r].request, reply |-> reply]
  OBVIOUS
<1>2. attempt'[r] = b /\ \A s \in Attempts : s # r => attempt'[s] = attempt[s]
  BY <1>1, OnlyItsAttempt DEF Ended
<1> QED BY <1>1, <1>2

LEMMA EndsKinds ==
    ASSUME NEW r \in Attempts, GivesUp(r) \/ WritesOnly(r) \/ Commits(r)
    PROVE  \E pc, reply : pc \in Closed /\ Ended(r, pc, reply)
  BY DEF GivesUp, EndsQuietly, WritesOnly, Commits, Records, Closed

LEMMA SubmitMakes ==
    ASSUME TypeInv, NEW r \in Attempts, NEW q, Submit(r, q)
    PROVE  \E b : /\ b = attempt'[r] /\ b.pc \in {"start", "lock"} /\ b.next = "read"
                  /\ b.todo = <<Window>>
                  /\ \A s \in Attempts : s # r => attempt'[s] = attempt[s]
<1>1. PICK pc, locks : /\ pc = IF q.op \in {"register", "count", "amend"} THEN "start" ELSE "lock"
                       /\ locks = <<Window>>
  OBVIOUS
<1>2. PICK b : b = [pc |-> pc, request |-> q, todo |-> locks, next |-> "read",
                    read |-> NothingRead, seen |-> NothingSeen]
  OBVIOUS
<1>3. attempt' = [attempt EXCEPT ![r] = b]
  BY <1>1, <1>2 DEF Submit
<1>4. attempt'[r] = b /\ \A s \in Attempts : s # r => attempt'[s] = attempt[s]
  BY <1>3, OnlyItsAttempt
<1> QED BY <1>1, <1>2, <1>4

LEMMA LockMakes ==
    ASSUME TypeInv, NEW r \in Attempts, NEW locks, NEW next, NEW read, Lock(r, locks, next, read)
    PROVE  \E b : /\ b = attempt'[r] /\ b.pc = IF locks = <<>> THEN next ELSE "lock"
                  /\ b.request = attempt[r].request /\ b.todo = locks /\ b.next = next
                  /\ b.read = read /\ \A s \in Attempts : s # r => attempt'[s] = attempt[s]
<1>1. PICK b : b = [pc |-> IF locks = <<>> THEN next ELSE "lock", request |-> attempt[r].request,
                    todo |-> locks, next |-> next, read |-> read, seen |-> NothingSeen]
  OBVIOUS
<1>2. attempt'[r] = b /\ \A s \in Attempts : s # r => attempt'[s] = attempt[s]
  BY <1>1, OnlyItsAttempt DEF Lock
<1> QED BY <1>1, <1>2

LEMMA SeesMakes ==
    ASSUME TypeInv, NEW r \in Attempts, Sees(r), NEW a, a = attempt[r]
    PROVE  /\ attempt'[r].pc = "commit" /\ attempt'[r].request = a.request
           /\ attempt'[r].read = a.read /\ attempt'[r].seen.funds = FundsBalance
           /\ attempt'[r].seen.balance = [i \in Items |-> BalanceOf(i)]
           /\ \A s \in Attempts : s # r => attempt'[s] = attempt[s]
<1>1. PICK seen : /\ attempt' = [attempt EXCEPT ![r].pc = "commit", ![r].seen = seen]
                  /\ seen.balance = [i \in Items |-> BalanceOf(i)] /\ seen.funds = FundsBalance
  BY DEF Sees
<1>2. PICK b : b = [a EXCEPT !.pc = "commit", !.seen = seen]
  OBVIOUS
<1>3. attempt' = [attempt EXCEPT ![r] = b]
  BY <1>1, <1>2 DEF TypeInv, AttemptsOK
<1>4. b.pc = "commit" /\ b.request = a.request /\ b.read = a.read /\ b.seen = seen
  BY <1>2, ActiveFields DEF AttemptFields, Sees
<1> QED BY <1>1, <1>3, <1>4, OnlyItsAttempt

LEMMA EndedLocks ==
    ASSUME TypeInv, NEW r \in Attempts, NEW pc \in Closed, NEW reply, Ended(r, pc, reply)
    PROVE  LeavesOthers(r) /\ HoldsOK(r, attempt[r])'
<1>1. PICK b : b = attempt'[r] /\ b.pc \in Closed /\ \A s \in Attempts : s # r => attempt'[s] = attempt[s]
  BY EndedMakes
<1>2. \A s \in Attempts : s # Nobody
  BY OrdersConstants
<1>3. \A k \in Locks : lock'[k] = IF lock[k] = r THEN Nobody ELSE lock[k]
  BY DEF Ended, Release
<1>4. LeavesOthers(r) /\ HoldsNone(r)'
  BY <1>1, <1>2, <1>3 DEF LeavesOthers, HoldsNone
<1>5. HoldsOK(r, b)'
  BY <1>1, <1>4 DEF HoldsOK, Closed
<1> QED BY <1>1, <1>4, <1>5

LEMMA SubmitLocks ==
    ASSUME TypeInv, LocksInv, NEW r \in Attempts, NEW q \in Requests, Submit(r, q)
    PROVE  LeavesOthers(r) /\ HoldsOK(r, attempt[r])'
<1>1. PICK b : /\ b = attempt'[r] /\ b.pc \in {"start", "lock"} /\ b.next = "read"
               /\ b.todo = <<Window>> /\ \A s \in Attempts : s # r => attempt'[s] = attempt[s]
  BY SubmitMakes
<1>2. LeavesOthers(r)
  BY <1>1 DEF LeavesOthers, Submit
<1>3. HoldsNone(r)'
  BY DEF LocksInv, HoldsOK, HoldsNone, Submit
<1>4. HoldsOK(r, b)'
  BY <1>1, <1>3 DEF HoldsOK, Past, Closed
<1> QED BY <1>1, <1>2, <1>4

LEMMA RestOfLocks ==
    ASSUME NEW s, NEW k, NEW t, Splits(s, k, t)
    PROVE  /\ k \in Locks /\ t \in Seq(Locks)
           /\ \A l : (\E n \in DOMAIN s : s[n] = l) => l = k \/ \E n \in DOMAIN t : t[n] = l
           /\ Ordered(s) => Ordered(t) /\ \A n \in DOMAIN t : Precedes(k, t[n])
           /\ \A n \in DOMAIN t : \E m \in DOMAIN s : s[m] = t[n]
<1>1. /\ k \in Locks /\ t \in Seq(Locks) /\ Len(t) = Len(s) - 1 /\ Len(s) \in Nat \ {0} /\ k = s[1]
      /\ \A i \in 1 .. Len(s) - 1 : t[i] = s[i + 1]
  BY Sums!HeadAndTail DEF Splits
<1>2. DOMAIN s = 1 .. Len(s) /\ DOMAIN t = 1 .. Len(s) - 1
  BY <1>1
<1>3. \A l : (\E n \in DOMAIN s : s[n] = l) => l = k \/ \E n \in DOMAIN t : t[n] = l
  <2> SUFFICES ASSUME NEW n \in DOMAIN s, s[n] # k PROVE \E i \in DOMAIN t : t[i] = s[n]
    OBVIOUS
  <2>1. PICK i \in DOMAIN t : i = n - 1 /\ i + 1 = n
    BY <1>1, <1>2
  <2> QED BY <1>1, <1>2, <2>1
<1>4. ASSUME Ordered(s) PROVE Ordered(t) /\ \A n \in DOMAIN t : Precedes(k, t[n])
  <2>1. \A n \in DOMAIN t : n + 1 \in DOMAIN s /\ 1 \in DOMAIN s /\ 1 < n + 1 /\ t[n] = s[n + 1]
    BY <1>1, <1>2
  <2>2. \A m, n \in DOMAIN t : m < n => m + 1 < n + 1
    BY <1>1, <1>2
  <2>3. Ordered(t)
    BY <1>4, <2>1, <2>2 DEF Ordered
  <2>4. ASSUME NEW n \in DOMAIN t PROVE Precedes(k, t[n])
    BY <1>1, <1>4, <2>1 DEF Ordered
  <2> QED BY <2>3, <2>4
<1>5. \A n \in DOMAIN t : \E m \in DOMAIN s : s[m] = t[n]
  BY <1>1, <1>2
<1> QED BY <1>1, <1>3, <1>4, <1>5

LEMMA AcquireBecomes ==
    ASSUME TypeInv, NEW r \in Attempts, Acquire(r), NEW a, NEW k, NEW rest, NEW pc,
           Acquires(r, a, k, rest, pc)
    PROVE  /\ Becomes(a, attempt'[r], pc, rest) /\ LeavesOthers(r) /\ UNCHANGED stock
           /\ \A l \in Locks : (lock'[l] = r) <=> (l = k \/ lock[l] = r)
<1>1. /\ IsActive(a) /\ a.todo \in Seq(Locks) /\ a.todo # <<>>
  BY Locking DEF Acquire, At, Acquires
<1>2. k \in Locks
  BY <1>1, Sums!HeadAndTail DEF Acquires
<1>3. /\ lock[k] \in {Nobody, r} /\ lock' = [lock EXCEPT ![k] = r] /\ Unwritten
      /\ attempt' = [attempt EXCEPT ![r].todo = rest, ![r].pc = pc]
  BY DEF Acquire, Acquires
<1>4. PICK x : x = [a EXCEPT !.todo = rest, !.pc = pc]
  OBVIOUS
<1>5. attempt' = [attempt EXCEPT ![r] = x]
  BY <1>3, <1>4 DEF TypeInv, AttemptsOK, Acquires
<1>6. attempt'[r] = x /\ \A s \in Attempts : s # r => attempt'[s] = attempt[s]
  BY <1>5, OnlyItsAttempt
<1>7. a = [i \in AttemptFields |-> a[i]]
  BY <1>1, ActiveFields
<1>8. Becomes(a, x, pc, rest)
  BY <1>4, <1>7 DEF Becomes, AttemptFields
<1>9. lock'[k] = r /\ \A l \in Locks : l # k => lock'[l] = lock[l]
  BY <1>2, <1>3 DEF TypeInv, LockOK
<1>10. \A s \in Attempts : s # Nobody
  BY OrdersConstants
<1>11. \A s \in Attempts : s # r => \A l \in Locks : (lock'[l] = s) <=> (lock[l] = s)
  BY <1>3, <1>9, <1>10
<1>12. LeavesOthers(r)
  BY <1>6, <1>11 DEF LeavesOthers
<1> QED BY <1>3, <1>6, <1>8, <1>9, <1>12 DEF Unwritten, tables

LEMMA AcquireMakes ==
    ASSUME TypeInv, NEW r \in Attempts, Acquire(r), NEW a, a = attempt[r]
    PROVE  \E b : /\ b = attempt'[r] /\ a.pc = "lock" /\ a.next \in {"read", "balances"}
                  /\ b.pc \in {"lock", a.next} /\ b.request = a.request /\ b.next = a.next
                  /\ b.read = a.read
<1>1. PICK k, rest, pc : Acquires(r, a, k, rest, pc)
  BY DEF Acquires
<1>2. Becomes(a, attempt'[r], pc, rest)
  BY <1>1, AcquireBecomes
<1>3. a.pc = "lock" /\ a.next \in {"read", "balances"}
  BY Locking DEF Acquire, At, IsActive
<1> QED BY <1>1, <1>2, <1>3 DEF Becomes, Acquires

LEMMA AcquireLocks ==
    ASSUME TypeInv, LocksInv, NEW r \in Attempts, Acquire(r)
    PROVE  LeavesOthers(r) /\ UNCHANGED stock /\ HoldsOK(r, attempt[r])'
<1>1. PICK a : a = attempt[r]
  OBVIOUS
<1>2. PICK k, rest : k = Head(a.todo) /\ rest = Tail(a.todo)
  OBVIOUS
<1>3. PICK pc : pc = IF rest = <<>> THEN a.next ELSE "lock"
  OBVIOUS
<1>4. /\ Becomes(a, attempt'[r], pc, rest) /\ LeavesOthers(r) /\ UNCHANGED stock
      /\ \A l \in Locks : (lock'[l] = r) <=> (l = k \/ lock[l] = r)
  BY <1>1, <1>2, <1>3, AcquireBecomes DEF Acquires
<1>5. PICK b : b = attempt'[r]
  OBVIOUS
<1>6. b.pc = pc /\ b.todo = rest /\ b.request = a.request /\ b.next = a.next /\ b.read = a.read
  BY <1>4, <1>5 DEF Becomes
<1>7. /\ IsActive(a) /\ a.todo \in Seq(Locks) /\ a.todo # <<>> /\ a.pc = "lock" /\ a # Unsent
      /\ a.pc \notin Closed /\ a.next \in {"read", "balances"} /\ HoldsOK(r, a)
      /\ a.read.rows \in SUBSET DOMAIN stock /\ a.request \in Requests
  BY <1>1, Locking, Idle DEF Acquire, At, IsActive, Closed, LocksInv, ReadOK
<1>8. /\ k \in Locks /\ rest \in Seq(Locks)
      /\ \A l : (\E n \in DOMAIN a.todo : a.todo[n] = l) => l = k \/ \E n \in DOMAIN rest : rest[n] = l
      /\ Ordered(a.todo) => Ordered(rest) /\ \A n \in DOMAIN rest : Precedes(k, rest[n])
      /\ \A n \in DOMAIN rest : \E m \in DOMAIN a.todo : a.todo[m] = rest[n]
  <2>1. PICK s : s = a.todo /\ Splits(s, k, rest)
    BY <1>2, <1>7 DEF Splits
  <2> QED BY <2>1, RestOfLocks
<1>9. pc \in {"lock", "read", "balances"} /\ b # Unsent
  BY <1>3, <1>6, <1>7, UnsentIdle
<1>10. CASE a.next = "read"
  <2>1. a.todo = <<Window>> /\ HoldsNone(r)
    BY <1>7, <1>10 DEF HoldsOK
  <2>2. k = Window /\ rest = <<>>
    BY <1>2, <2>1
  <2>3. pc = "read" /\ \A l \in Locks : lock'[l] = r => l = Window
    BY <1>3, <1>4, <1>10, <2>1, <2>2 DEF HoldsNone
  <2>4. HoldsOK(r, b)'
    BY <1>6, <1>9, <2>3 DEF HoldsOK, Past, Closed
  <2> QED BY <1>4, <1>5, <2>4
<1>11. CASE a.next = "balances"
  <2>1. Guards(r, a) /\ (a.request.op # "amend" => InOrder(r, a))
    BY <1>7, <1>11 DEF HoldsOK, Past
  <2>2. pc = "lock" \/ (pc = "balances" /\ rest = <<>>)
    BY <1>3, <1>11
  <2>3. a.request.op # "amend" => InOrder(r, b)'
    <3> SUFFICES ASSUME a.request.op # "amend" PROVE InOrder(r, b)'
      OBVIOUS
    <3>1. Ordered(a.todo) /\ \A l \in Locks : lock[l] = r => \A n \in DOMAIN a.todo : Precedes(l, a.todo[n])
      BY <2>1 DEF InOrder
    <3>2. Ordered(rest) /\ \A n \in DOMAIN rest : Precedes(k, rest[n])
      BY <1>8, <3>1
    <3>3. \A l \in Locks : lock'[l] = r => \A n \in DOMAIN rest : Precedes(l, rest[n])
      BY <1>4, <1>8, <3>1, <3>2
    <3>4. Ordered(b.todo) /\ \A l \in Locks : lock'[l] = r => \A n \in DOMAIN b.todo : Precedes(l, b.todo[n])
      BY <1>6, <3>2, <3>3
    <3> QED BY <3>4 DEF InOrder
  <2>4. ASSUME NEW l \in Locks, Reserved(r, a, l) PROVE Reserved(r, b, l)'
    BY <1>4, <1>6, <1>8, <2>2, <2>4, NoLock DEF Reserved
  <2>5. Touched(a.request, a.read)' = Touched(a.request, a.read)
    BY <1>4, <1>7, SameItems, SameStockGrows DEF Touched, TypeInv
  <2>6. \A i \in Touched(a.request, a.read) : StockOf(i) \in Locks
    BY <1>7, RequestLines, ItemsFinite, LockKinds DEF TypeInv, Touched
  <2>7. \A i \in Touched(a.request, a.read)' : Reserved(r, b, StockOf(i))'
    BY <2>1, <2>4, <2>5, <2>6 DEF Guards
  <2>8. TouchesFunds(a.request, a.read)' => Reserved(r, b, Custody)'
    BY <2>1, <2>4, LockKinds DEF Guards, TouchesFunds
  <2>9. Guards(r, b)'
    BY <1>6, <2>7, <2>8 DEF Guards
  <2>10. HoldsOK(r, b)'
    BY <1>6, <1>9, <1>11, <2>2, <2>3, <2>9 DEF HoldsOK, Closed
  <2> QED BY <1>4, <1>5, <2>10
<1> QED BY <1>7, <1>10, <1>11

LEMMA SeesLocks ==
    ASSUME TypeInv, LocksInv, NEW r \in Attempts, Sees(r)
    PROVE  LeavesOthers(r) /\ UNCHANGED stock /\ HoldsOK(r, attempt[r])'
<1>1. PICK a : a = attempt[r] /\ a.pc = "balances" /\ IsActive(a)
  BY DEF Sees
<1>2. UNCHANGED lock /\ UNCHANGED stock
  BY DEF Sees, Unwritten, tables
<1>3. PICK x : /\ x = attempt'[r] /\ x.pc = "commit" /\ x.request = a.request /\ x.read = a.read
               /\ \A s \in Attempts : s # r => attempt'[s] = attempt[s]
  BY <1>1, SeesMakes
<1>4. LeavesOthers(r)
  BY <1>2, <1>3 DEF LeavesOthers
<1>5. Guards(r, a)
  BY <1>1, UnsentIdle DEF Past, Closed, LocksInv, HoldsOK
<1>6. Guards(r, x)'
  <2>1. a.read.rows \in SUBSET DOMAIN stock
    BY <1>1 DEF IsActive, ReadOK
  <2>2. Touched(a.request, a.read)' = Touched(a.request, a.read)
    BY <1>2, <2>1, SameItems, SameStockGrows DEF Touched, TypeInv
  <2>3. \A l : Reserved(r, a, l) => Reserved(r, x, l)'
    BY <1>1, <1>2 DEF Reserved
  <2>4. \A i \in Touched(a.request, a.read)' : Reserved(r, x, StockOf(i))'
    BY <1>5, <2>2, <2>3 DEF Guards
  <2>5. TouchesFunds(a.request, a.read)' => Reserved(r, x, Custody)'
    BY <1>5, <2>3 DEF Guards, TouchesFunds
  <2> QED BY <1>3, <2>4, <2>5 DEF Guards
<1>7. HoldsOK(r, x)'
  BY <1>3, <1>6, UnsentIdle DEF HoldsOK, Closed
<1> QED BY <1>2, <1>3, <1>4, <1>7

LEMMA TakesLocksLocks ==
    ASSUME TypeInv, LocksInv, NEW r \in Attempts, NEW locks, NEW next, NEW read,
           TakesLocks(r, locks, next, read)
    PROVE  LeavesOthers(r) /\ UNCHANGED stock /\ HoldsOK(r, attempt[r])'
<1>1. PICK a : a = attempt[r]
  OBVIOUS
<1>2. /\ Lock(r, locks, next, read) /\ Unwritten /\ LocksFor(a.request, locks, next, read)
      /\ a.pc = IF a.request.op \in {"register", "count"} \/ next = "read"
                THEN "start" ELSE "read"
  BY <1>1 DEF TakesLocks
<1>3. PICK pc : pc = IF locks = <<>> THEN next ELSE "lock"
  OBVIOUS
<1>5. UNCHANGED lock /\ UNCHANGED stock
  BY <1>2 DEF Lock, Unwritten, tables
<1>8. PICK b : /\ b = attempt'[r] /\ b.pc = pc /\ b.request = a.request /\ b.todo = locks
               /\ b.next = next /\ b.read = read
               /\ \A s \in Attempts : s # r => attempt'[s] = attempt[s]
  BY <1>1, <1>2, <1>3, LockMakes
<1>7. LeavesOthers(r)
  BY <1>5, <1>8 DEF LeavesOthers
<1>9. HoldsOK(r, a)
  BY <1>1 DEF LocksInv
<1>10. \A k \in Locks : lock[k] = r => k = Window
  BY <1>2, <1>9 DEF HoldsOK, HoldsNone
<1>11. CASE next = "read"
  <2>1. locks = <<Window>> /\ a.pc = "start"
    BY <1>2, <1>11 DEF LocksFor
  <2>2. pc = "lock"
    BY <1>3, <2>1
  <2>3. HoldsNone(r)'
    BY <1>5, <1>9, <2>1 DEF HoldsOK, HoldsNone
  <2>4. HoldsOK(r, b)'
    BY <1>8, <1>11, <2>1, <2>2, <2>3 DEF HoldsOK, Past, Closed
  <2> QED BY <1>5, <1>7, <1>8, <2>4
<1>12. CASE next = "balances"
  <2>1. /\ locks \in Seq(Locks) /\ ReadOK(read) /\ NoWindow(locks)
        /\ a.request.op # "amend" => Ordered(locks)
        /\ Covers(locks, Touched(a.request, read), TouchesFunds(a.request, read))
    BY <1>2, <1>12 DEF LocksFor
  <2>2. pc = "lock" \/ (pc = "balances" /\ locks = <<>>)
    BY <1>3, <1>12
  <2>3. \A n \in DOMAIN locks : Precedes(Window, locks[n])
    <3> SUFFICES ASSUME NEW n \in DOMAIN locks PROVE Precedes(Window, locks[n])
      OBVIOUS
    <3>1. locks[n] \in Locks /\ locks[n] # Window
      BY <2>1, Sums!ElementOf DEF NoWindow
    <3>2. Class(locks[n]) \in {1, 2, 3}
      BY <3>1, LockKinds, LockCases
    <3> QED BY <3>2, LockKinds DEF Precedes
  <2>4. a.request.op # "amend" => InOrder(r, b)'
    BY <1>5, <1>8, <1>10, <2>1, <2>3 DEF InOrder
  <2>5. Touched(a.request, read)' = Touched(a.request, read)
    BY <1>5, <2>1, SameItems, SameStockGrows DEF ReadOK, Touched, TypeInv
  <2>6. ASSUME NEW l, \E n \in DOMAIN locks : locks[n] = l PROVE Reserved(r, b, l)'
    BY <1>8, <2>2, <2>6, NoLock DEF Reserved
  <2>7. \A i \in Touched(a.request, read)' : Reserved(r, b, StockOf(i))'
    BY <2>1, <2>5, <2>6 DEF Covers
  <2>8. TouchesFunds(a.request, read)' => Reserved(r, b, Custody)'
    BY <2>1, <2>6 DEF Covers, TouchesFunds
  <2>9. Guards(r, b)'
    BY <1>8, <2>7, <2>8 DEF Guards
  <2>10. HoldsOK(r, b)'
    BY <1>8, <1>12, <2>2, <2>4, <2>9, UnsentIdle DEF Closed, HoldsOK
  <2> QED BY <1>5, <1>7, <1>8, <2>10
<1> QED BY <1>2, <1>11, <1>12 DEF LocksFor

\* What any step of r does to the stock ledger.
LEMMA StepGrows ==
    ASSUME TypeInv, NEW r \in Attempts, StepKind(r) PROVE StockGrows
<1>1. CASE Commits(r)
  BY <1>1, CommitGrows DEF StockGrows
<1>2. CASE UNCHANGED stock
  BY <1>2, SameStockGrows DEF TypeInv
<1>3. Commits(r) \/ UNCHANGED stock
  BY DEF StepKind, Submit, Acquire, GivesUp, EndsQuietly, Sees, WritesOnly, TakesLocks,
         Unwritten, tables
<1> QED BY <1>1, <1>2, <1>3

LEMMA InitLocks == ASSUME Init PROVE LocksInv
<1>1. \A r \in Attempts : attempt[r] = Unsent /\ r # Nobody
  BY OrdersConstants DEF Init
<1>2. \A r \in Attempts : HoldsNone(r)
  BY <1>1 DEF Init, HoldsNone
<1>3. Unsent.pc = "idle"
  BY UnsentIdle
<1> QED BY <1>1, <1>2, <1>3 DEF LocksInv, HoldsOK

LEMMA LocksKept == ASSUME TypeInv, LocksInv, [Next]_vars PROVE LocksInv'
<1>1. CASE UNCHANGED <<stock, lock, attempt>>
  BY <1>1 DEF LocksInv, HoldsOK, HoldsNone, InOrder, Guards, Reserved, Touched, TouchesFunds, ItemsOf
<1>2. ASSUME NEW r \in Attempts, StepKind(r) PROVE LocksInv'
  <2>1. StockGrows
    BY <1>2, StepGrows
  <2>2. LeavesOthers(r) /\ HoldsOK(r, attempt[r])'
    BY <1>2, EndsKinds, EndedLocks, SubmitLocks, AcquireLocks, SeesLocks, TakesLocksLocks DEF StepKind
  <2> QED BY <2>1, <2>2, LocksStep
<1>3. Expire \/ UNCHANGED vars => UNCHANGED <<stock, lock, attempt>>
  BY DEF Expire, vars, tables
<1> QED BY <1>1, <1>2, <1>3, StepKinds

\* The locks of a deadlocked set precede those that its members wait for.
LEMMA HeldPrecedes ==
    ASSUME TypeInv, LocksInv, NEW r \in Attempts, attempt[r].pc = "lock",
           ~Doing(r, "amend"), NEW k \in Locks, lock[k] = r
    PROVE  Precedes(k, Head(attempt[r].todo))
<1>1. PICK a : a = attempt[r]
  OBVIOUS
<1>2. IsActive(a) /\ a.todo \in Seq(Locks) /\ a.todo # <<>> /\ a # Unsent /\ HoldsOK(r, a)
      /\ a.next \in {"read", "balances"}
  BY <1>1, Locking, Idle DEF LocksInv, IsActive
<1>3. a.next = "balances" /\ a.request.op # "amend"
  BY <1>1, <1>2 DEF HoldsOK, HoldsNone, Doing
<1>4. InOrder(r, a)
  BY <1>1, <1>2, <1>3 DEF HoldsOK
<1>5. 1 \in DOMAIN a.todo /\ Head(a.todo) = a.todo[1]
  BY <1>2, Sums!HeadAndTail
<1> QED BY <1>1, <1>4, <1>5 DEF InOrder

LEMMA NoCycle ==
    ASSUME TypeInv, LocksInv PROVE DeadlocksOnlyByAmend
<1> SUFFICES ASSUME NEW S \in SUBSET Attempts, Deadlocked(S), \A r \in S : ~Doing(r, "amend")
             PROVE  FALSE
  BY DEF DeadlocksOnlyByAmend
<1>1. \A r \in S : /\ attempt[r].pc = "lock" /\ WaitsFor(r) \in Locks
                   /\ lock[WaitsFor(r)] \in S \ {r}
  <2> SUFFICES ASSUME NEW r \in S
               PROVE  /\ attempt[r].pc = "lock" /\ WaitsFor(r) \in Locks
                      /\ lock[WaitsFor(r)] \in S \ {r}
    OBVIOUS
  <2>1. attempt[r].pc = "lock" /\ lock[Head(attempt[r].todo)] \in S \ {r}
    BY DEF Deadlocked, Waiting, At
  <2>2. attempt[r].todo \in Seq(Locks) /\ attempt[r].todo # <<>>
    BY <2>1, Locking
  <2>3. Head(attempt[r].todo) \in Locks
    BY <2>2, Sums!HeadAndTail
  <2> QED BY <2>1, <2>3 DEF WaitsFor
<1> DEFINE Below(r) == {s \in S : Precedes(WaitsFor(r), WaitsFor(s))}
<1>2. IsFiniteSet(S) /\ S # {}
  BY OrdersConstants, FS_Subset DEF Deadlocked
<1>3. \A r \in S : Below(r) \in SUBSET S
  OBVIOUS
<1>4. PICK r \in S : \A s \in S : ~(Cardinality(Below(s)) < Cardinality(Below(r)))
  <2> DEFINE sizes == {Cardinality(Below(r)) : r \in S}
  <2>1. sizes \in SUBSET Nat /\ sizes # {}
    <3>1. \A x \in S : Cardinality(Below(x)) \in Nat
      <4> HIDE DEF Below
      <4> QED BY <1>2, <1>3, FS_Subset, FS_CardinalityType
    <3> HIDE DEF Below
    <3> QED BY <1>2, <3>1
  <2>2. PICK n \in sizes : \A m \in sizes : n <= m
    <3> HIDE DEF sizes
    <3> QED BY <2>1, Sums!SmallestNumber
  <2>3. PICK r \in S : n = Cardinality(Below(r))
    BY <2>2
  <2>4. \A s \in S : Cardinality(Below(s)) \in sizes /\ Cardinality(Below(s)) \in Nat
    BY <2>1
  <2> HIDE DEF sizes, Below
  <2>5. \A s \in S : ~(Cardinality(Below(s)) < n)
    BY <2>1, <2>2, <2>4
  <2> QED BY <2>3, <2>5
<1>5. PICK s \in S : s = lock[WaitsFor(r)]
  BY <1>1
<1>6. Precedes(WaitsFor(r), WaitsFor(s))
  BY <1>1, <1>5, HeldPrecedes DEF WaitsFor
<1>7. Below(s) \subseteq Below(r) /\ s \in Below(r) /\ s \notin Below(s)
  BY <1>1, <1>6, PrecedesOrder
<1>8. IsFiniteSet(Below(r)) /\ Below(s) # Below(r)
  BY <1>2, <1>3, <1>7, FS_Subset
<1>9. Cardinality(Below(s)) < Cardinality(Below(r))
  <2> HIDE DEF Below
  <2> QED BY <1>7, <1>8, FS_Subset, FS_CardinalityType
<1> QED BY <1>4, <1>9

LEMMA InitInv == Init => OrdersInv
  BY InitTypes, InitLocks DEF OrdersInv

LEMMA InvKept == OrdersInv /\ [Next]_vars => OrdersInv'
  BY TypesKept, LocksKept DEF OrdersInv

\* DeadlocksOnlyByAmend: whatever the requests, however many are served at once
\* and wherever each of them stands, a cycle of transactions that wait for each
\* other's advisory locks has the correction of a registration in it.
THEOREM DeadlocksNeedAnAmend == Spec => []DeadlocksOnlyByAmend
<1>1. OrdersInv => DeadlocksOnlyByAmend
  BY NoCycle DEF OrdersInv
<1> QED BY <1>1, InitInv, InvKept, PTL DEF Spec

--------------------
\* The chain of balances of a ledger, and what a posting adds to it.

LEMMA BalanceIsIn ==
    ASSUME LedgersTypeOK PROVE \A i : BalanceOf(i) = BalanceIn(stock, i, Len(stock))
<1>1. DOMAIN stock = 1 .. Len(stock)
  BY DEF LedgersTypeOK
<1> QED BY <1>1 DEF BalanceOf, BalanceIn, AfterLast, RowsAt

LEMMA ChainsAre ==
    ASSUME LedgersTypeOK, StockChain(stock), FundsChain(custody) PROVE LedgersChain
<1>1. DOMAIN stock = 1 .. Len(stock) /\ DOMAIN custody = 1 .. Len(custody)
  BY DEF LedgersTypeOK
<1>2. ASSUME NEW n \in DOMAIN stock
      PROVE  /\ stock[n].after.qty = BalanceBefore(n).qty + stock[n].qty
             /\ stock[n].after.value = BalanceBefore(n).value + stock[n].value
             /\ stock[n].after.cost >= 0
  <2>1. BalanceIn(stock, stock[n].item, n - 1) = BalanceBefore(n)
    BY DEF BalanceIn, AfterLast, RowsAt, BalanceBefore, Before
  <2>2. stock[n] \in StockRows
    BY Sums!ElementOf DEF LedgersTypeOK
  <2>3. stock[n].after.cost \in Nat
    BY <2>2 DEF StockRows, Balances
  <2>4. Continued(stock[n], BalanceIn(stock, stock[n].item, n - 1))
    BY <1>1 DEF StockChain
  <2>5. stock[n].after.cost >= 0
    <3>1. PICK c \in Nat : c = stock[n].after.cost
      BY <2>3
    <3> QED BY <3>1
  <2> QED BY <2>1, <2>4, <2>5 DEF Continued
<1> QED BY <1>1, <1>2 DEF LedgersChain, FundsChain

LEMMA SameRows ==
    ASSUME NEW t, NEW u, NEW n \in Nat, \A k \in 1 .. n : u[k] = t[k]
    PROVE  \A i : BalanceIn(u, i, n) = BalanceIn(t, i, n)
<1> SUFFICES ASSUME NEW i PROVE BalanceIn(u, i, n) = BalanceIn(t, i, n)
  OBVIOUS
<1>1. RowsAt(u, i, n) = RowsAt(t, i, n)
  BY DEF RowsAt
<1>2. RowsAt(t, i, n) # {} => Max(RowsAt(t, i, n)) \in 1 .. n
  <2> SUFFICES ASSUME RowsAt(t, i, n) # {} PROVE Max(RowsAt(t, i, n)) \in 1 .. n
    OBVIOUS
  <2>1. RowsAt(t, i, n) \subseteq 1 .. n
    BY DEF RowsAt
  <2>2. IsFiniteSet(RowsAt(t, i, n)) /\ RowsAt(t, i, n) \in SUBSET Nat
    BY <2>1, FS_Interval, FS_Subset
  <2>3. Max(RowsAt(t, i, n)) \in RowsAt(t, i, n)
    BY <2>2, LargestNumber
  <2> QED BY <2>1, <2>3
<1> QED BY <1>1, <1>2 DEF BalanceIn, AfterLast

\* The balances after one more row.
LEMMA RowSteps ==
    ASSUME NEW u, NEW n \in Nat, n # 0
    PROVE  /\ BalanceIn(u, u[n].item, n) = u[n].after
           /\ \A i : i # u[n].item => BalanceIn(u, i, n) = BalanceIn(u, i, n - 1)
<1>1. PICK i : i = u[n].item
  OBVIOUS
<1>2. PICK S : S = RowsAt(u, i, n)
  OBVIOUS
<1>3. n \in S /\ S \subseteq 1 .. n /\ IsFiniteSet(1 .. n)
  BY <1>1, <1>2, FS_Interval DEF RowsAt
<1>4. IsFiniteSet(S) /\ S \in SUBSET Nat /\ S # {}
  <2>1. S \in SUBSET (1 .. n)
    BY <1>3
  <2>2. IsFiniteSet(S)
    BY <1>3, <2>1, FS_Subset
  <2> QED BY <1>3, <2>1, <2>2
<1>5. Max(S) \in S /\ n <= Max(S)
  BY <1>3, <1>4, LargestNumber
<1>6. Max(S) = n
  <2>1. PICK m : m = Max(S)
    OBVIOUS
  <2>2. m \in 1 .. n /\ n <= m
    BY <1>3, <1>5, <2>1
  <2> QED BY <2>1, <2>2
<1>7. BalanceIn(u, i, n) = u[n].after
  BY <1>2, <1>4, <1>6 DEF BalanceIn, AfterLast
<1>8. ASSUME NEW j, j # i PROVE BalanceIn(u, j, n) = BalanceIn(u, j, n - 1)
  BY <1>1, <1>8 DEF RowsAt, BalanceIn
<1> QED BY <1>1, <1>7, <1>8

LEMMA OneRowCarries ==
    ASSUME NEW t, NEW b, NEW S \in SUBSET Items, Carries(t, b, S),
           b \in [Items -> Balances], NEW row, row.item \in S, Continued(row, b[row.item]),
           row.after \in Balances, NEW rows, rows = <<row>>, NEW u, Joins(t, rows, u),
           NEW c, c = [b EXCEPT ![row.item] = row.after]
    PROVE  Carries(u, c, S)
<1>1. PICK n \in Nat : n = Len(t) + 1 /\ n # 0 /\ n - 1 = Len(t)
  BY DEF Joins
<1>2. Len(u) = n /\ u[n] = row /\ \A k \in 1 .. n - 1 : u[k] = t[k]
  BY <1>1 DEF Joins
<1>3. \A k \in 1 .. n - 1 : \A i : BalanceIn(u, i, k - 1) = BalanceIn(t, i, k - 1)
  <2> SUFFICES ASSUME NEW k \in 1 .. n - 1
               PROVE  \A i : BalanceIn(u, i, k - 1) = BalanceIn(t, i, k - 1)
    OBVIOUS
  <2>1. PICK j \in Nat : j = k - 1 /\ \A l \in 1 .. j : l \in 1 .. n - 1
    OBVIOUS
  <2>2. \A l \in 1 .. j : u[l] = t[l]
    BY <1>2, <2>1
  <2> QED BY <2>1, <2>2, SameRows
<1>4. \A i : BalanceIn(u, i, n - 1) = BalanceIn(t, i, n - 1)
  <2>1. PICK j \in Nat : j = n - 1
    BY <1>1 DEF Joins
  <2>2. \A k \in 1 .. j : u[k] = t[k]
    BY <1>2, <2>1
  <2> QED BY <2>1, <2>2, SameRows
<1>5. StockChain(u)
  <2> SUFFICES ASSUME NEW k \in 1 .. n
               PROVE  Continued(u[k], BalanceIn(u, u[k].item, k - 1))
    BY <1>2 DEF StockChain
  <2>1. CASE k = n
    BY <1>1, <1>2, <1>4, <2>1 DEF Carries
  <2>2. CASE k # n
    BY <1>1, <1>2, <1>3, <2>2 DEF Carries, StockChain
  <2> QED BY <2>1, <2>2
<1>6. BalanceIn(u, row.item, n) = row.after
      /\ \A i : i # row.item => BalanceIn(u, i, n) = BalanceIn(u, i, n - 1)
  BY <1>1, <1>2, RowSteps
<1>7. ASSUME NEW i \in S PROVE c[i] = BalanceIn(u, i, Len(u))
  <2>1. CASE i = row.item
    BY <1>2, <1>6, <2>1
  <2>2. CASE i # row.item
    BY <1>1, <1>2, <1>4, <1>6, <2>2 DEF Carries
  <2> QED BY <2>1, <2>2
<1>8. ASSUME NEW i, i \notin S PROVE BalanceIn(u, i, Len(u)) = BalanceOf(i)
  BY <1>1, <1>2, <1>4, <1>6, <1>8 DEF Carries
<1> QED BY <1>5, <1>7, <1>8 DEF Carries, Joins

\* A sequence without its last row.
LEMMA WithoutLast ==
    ASSUME NEW t, NEW base, NEW row, NEW rows, NEW u, Joins(t, rows, u), Len(rows) = 2,
           rows[1] = base, rows[2] = row
    PROVE  \E v : Joins(t, <<base>>, v) /\ Joins(v, <<row>>, u)
<1> DEFINE v == SubSeq(u, 1, Len(t) + 1)
<1>1. PICK n \in Nat : n = Len(t) /\ Len(u) = n + 2 /\ u \in Seq(StockRows)
  BY DEF Joins
<1>2. /\ v \in Seq(StockRows) /\ Len(v) = n + 1
      /\ \A k \in 1 .. n + 1 : v[k] = u[k]
  BY <1>1
<1> HIDE DEF v
<1>3. u[n + 1] = base /\ u[n + 2] = row /\ \A k \in 1 .. n : u[k] = t[k]
  BY <1>1 DEF Joins
<1>4. Len(<<base>>) = 1 /\ <<base>>[1] = base /\ Len(<<row>>) = 1 /\ <<row>>[1] = row
  OBVIOUS
<1>5. Joins(t, <<base>>, v)
  BY <1>1, <1>2, <1>3, <1>4 DEF Joins
<1>6. Joins(v, <<row>>, u)
  BY <1>1, <1>2, <1>3, <1>4 DEF Joins
<1> QED BY <1>5, <1>6

LEMMA JoinsTwice ==
    ASSUME NEW s \in Seq(StockRows), NEW d \in Seq(StockRows), NEW rows \in Seq(StockRows)
    PROVE  Joins(s \o d, rows, s \o (d \o rows))
<1>1. PICK t : t = s \o d /\ t \in Seq(StockRows) /\ Len(t) = Len(s) + Len(d)
  BY Sums!Joined
<1>2. PICK e : e = d \o rows /\ e \in Seq(StockRows) /\ Len(e) = Len(d) + Len(rows)
  BY Sums!Joined
<1>3. PICK u : u = s \o e /\ u \in Seq(StockRows) /\ Len(u) = Len(s) + Len(e)
  BY <1>2, Sums!Joined
<1>4. Len(s) \in Nat /\ Len(d) \in Nat /\ Len(rows) \in Nat
  OBVIOUS
<1>5. PICK n \in Nat, m \in Nat, k \in Nat : n = Len(s) /\ m = Len(d) /\ k = Len(rows)
  BY <1>4
<1>6. /\ \A i \in 1 .. n : t[i] = s[i] /\ u[i] = s[i]
      /\ \A i \in 1 .. m : t[n + i] = d[i] /\ e[i] = d[i]
      /\ \A i \in 1 .. k : e[m + i] = rows[i]
      /\ \A i \in 1 .. m + k : u[n + i] = e[i]
  BY <1>1, <1>2, <1>3, <1>5
<1>7. \A i \in 1 .. n + m : u[i] = t[i]
  <2> SUFFICES ASSUME NEW i \in 1 .. n + m PROVE u[i] = t[i]
    OBVIOUS
  <2>1. CASE i \in 1 .. n
    BY <1>6, <2>1
  <2>2. CASE i \notin 1 .. n
    <3>1. PICK j \in 1 .. m : i = n + j
      BY <2>2
    <3>2. j \in 1 .. m + k
      OBVIOUS
    <3> QED BY <1>6, <3>1, <3>2
  <2> QED BY <2>1, <2>2
<1>8. \A i \in 1 .. k : u[(n + m) + i] = rows[i]
  <2> SUFFICES ASSUME NEW i \in 1 .. k PROVE u[(n + m) + i] = rows[i]
    OBVIOUS
  <2>1. PICK j \in 1 .. m + k : j = m + i
    OBVIOUS
  <2>2. u[n + j] = e[j] /\ e[j] = rows[i]
    BY <1>6, <2>1
  <2>3. n + j = (n + m) + i
    BY <2>1
  <2> QED BY <2>2, <2>3
<1>9. Joins(t, rows, u)
  BY <1>1, <1>2, <1>3, <1>5, <1>7, <1>8 DEF Joins
<1> QED BY <1>1, <1>2, <1>3, <1>9

LEMMA MovementCarries ==
    ASSUME stock \in Seq(StockRows), NEW S \in SUBSET Items, NEW done, Typed(done),
           Taken(done, S), NEW m, m.item \in S, NEW after, NEW rows,
           Adding(rows, done, after, m)
    PROVE  Taken(after, S)
<1>1. PICK b \in [Items -> Balances] : b = done.balance
  BY DEF Typed
<1>2. PICK i \in S : i = m.item
  OBVIOUS
<1>3. PICK t, u : t = stock \o done.rows /\ u = stock \o after.rows
  OBVIOUS
<1>4. /\ RowsFollow(rows, b[i], m) /\ rows \in Seq(StockRows) /\ after.rows = done.rows \o rows
      /\ done.rows \in Seq(StockRows)
      /\ \/ rows = <<>> /\ after.balance = b
         \/ rows # <<>> /\ after.balance = [b EXCEPT ![i] = rows[Len(rows)].after]
  BY <1>1, <1>2 DEF Adding, Typed
<1>5. Joins(t, rows, u)
  BY <1>3, <1>4, JoinsTwice
<1>6. Carries(t, b, S)
  BY <1>1, <1>3 DEF Taken
<1>7. CASE NoRow(rows, b[i], m)
  BY <1>3, <1>4, <1>6, <1>7 DEF NoRow, Taken
<1>8. CASE OneRow(rows, b[i], m)
  <2>1. PICK row : rows = <<row>> /\ Continues(row, b[i], m)
    BY <1>8 DEF OneRow
  <2>2. row.item = i /\ Continued(row, b[i]) /\ row.after \in Balances
    BY <1>2, <2>1 DEF Continues, Continued, StockRows
  <2>3. PICK c : c = [b EXCEPT ![i] = row.after]
    OBVIOUS
  <2>4. Len(rows) = 1 /\ rows[1] = row /\ rows # <<>>
    BY <2>1
  <2>5. after.balance = c
    BY <1>4, <2>3, <2>4
  <2>6. Carries(u, c, S)
    BY <1>5, <1>6, <2>1, <2>2, <2>3, OneRowCarries
  <2> QED BY <1>3, <2>5, <2>6 DEF Taken
<1>9. CASE TwoRows(rows, b[i], m)
  <2>1. PICK row, first : /\ rows[1] = first /\ rows[2] = row /\ Len(rows) = 2
                          /\ Continues(first, b[i], m) /\ Continues(row, first.after, m)
    BY <1>9 DEF TwoRows
  <2>2. first.item = i /\ Continued(first, b[i]) /\ first.after \in Balances
    BY <1>2, <2>1 DEF Continues, Continued, StockRows
  <2>3. row.item = i /\ Continued(row, first.after) /\ row.after \in Balances
    BY <1>2, <2>1 DEF Continues, Continued, StockRows
  <2>4. PICK v : Joins(t, <<first>>, v) /\ Joins(v, <<row>>, u)
    BY <1>5, <2>1, WithoutLast
  <2>5. PICK d : d = [b EXCEPT ![i] = first.after]
    OBVIOUS
  <2>6. d \in [Items -> Balances] /\ d[i] = first.after
    BY <2>2, <2>5
  <2>7. PICK one, two : one = <<first>> /\ two = <<row>>
    OBVIOUS
  <2>8. Carries(v, d, S)
    BY <1>6, <2>2, <2>4, <2>5, <2>7, OneRowCarries
  <2>9. PICK c : c = [d EXCEPT ![i] = row.after]
    OBVIOUS
  <2>10. Carries(u, c, S)
    BY <2>3, <2>4, <2>6, <2>7, <2>8, <2>9, OneRowCarries
  <2>11. c = [b EXCEPT ![i] = row.after]
    BY <2>5, <2>9
  <2>12. rows # <<>>
    <3>1. Len(<<>>) = 0
      OBVIOUS
    <3>2. Len(rows) # Len(<<>>)
      BY <2>1, <3>1
    <3> QED BY <3>2
  <2>13. after.balance = c
    BY <1>4, <2>1, <2>11, <2>12
  <2> QED BY <1>3, <2>10, <2>13 DEF Taken
<1> QED BY <1>4, <1>7, <1>8, <1>9 DEF RowsFollow

LEMMA RunCarries ==
    ASSUME LedgersTypeOK, NEW ms, NEW n, NEW S \in SUBSET Items, MovesOver(ms, n, S),
           NEW seen \in [Items -> Balances], NEW acc, StockRun(acc, ms, seen, n),
           Carries(stock, seen, S)
    PROVE  \A k \in 0 .. n : Taken(acc[k], S)
<1> DEFINE C == {k \in 0 .. n : ~Taken(acc[k], S)}
<1>0. n \in Nat /\ MoveList(ms, n) /\ stock \in Seq(StockRows)
  BY DEF MoveList, MovesOver, LedgersTypeOK
<1>1. SUFFICES ASSUME C # {} PROVE FALSE
  OBVIOUS
<1>2. PICK k \in C : \A j \in C : k <= j
  <2>1. C \in SUBSET Nat
    BY <1>0
  <2> HIDE DEF C
  <2> QED BY <1>1, <2>1, Sums!SmallestNumber
<1>3. k # 0
  <2>1. acc[0] = [rows |-> <<>>, balance |-> seen]
    BY DEF StockRun
  <2>2. stock \o <<>> = stock
    BY <1>0
  <2>3. Taken(acc[0], S)
    BY <2>1, <2>2 DEF Taken
  <2> QED BY <2>3
<1>4. PICK j \in 0 .. n : j = k - 1 /\ k \in 1 .. n /\ j < k
  BY <1>0, <1>3
<1>5. Taken(acc[j], S)
  BY <1>2, <1>4
<1>6. acc[k] = StockStep(acc[j], ms[k]) /\ IsMove(ms[k]) /\ ms[k].item \in S
  BY <1>0, <1>4 DEF StockRun, MoveList, MovesOver
<1>7. Typed(acc[j])
  BY <1>0, <1>4, RunTyped
<1>8. PICK rows : Adding(rows, acc[j], acc[k], ms[k])
  BY <1>0, <1>6, <1>7, StepAdds
<1>9. Taken(acc[k], S)
  BY <1>0, <1>5, <1>6, <1>7, <1>8, MovementCarries
<1> QED BY <1>9

--------------------
\* The custody ledger.

LEMMA FundCarries ==
    ASSUME custody \in Seq(CustodyRows), NEW rows \in Seq(CustodyRows), NEW seen \in Int,
           TakenFunds(rows, seen), NEW f, IsFund(f), NEW after, FundAdded(rows, after, f, seen)
    PROVE  TakenFunds(after, seen)
<1>1. PICK n \in Nat, m \in Nat : n = Len(custody) /\ m = Len(rows)
  OBVIOUS
<1>2. after \in Seq(CustodyRows) /\ Len(after) = m + 1 /\ \A j \in 1 .. m : after[j] = rows[j]
  BY <1>1 DEF FundAdded
<1>3. PICK b : b = IF rows = <<>> THEN seen ELSE rows[Len(rows)].after
  OBVIOUS
<1>4. after[m + 1].after = after[m + 1].amount + b
  BY <1>1, <1>3 DEF FundAdded
<1>5. PICK t : t = custody \o rows /\ t \in Seq(CustodyRows) /\ Len(t) = n + m
  BY <1>1, Sums!Joined
<1>6. PICK u : u = custody \o after /\ u \in Seq(CustodyRows) /\ Len(u) = n + (m + 1)
  <2>1. custody \o after \in Seq(CustodyRows) /\ Len(custody \o after) = Len(custody) + Len(after)
    BY <1>2, Sums!Joined
  <2> QED BY <1>1, <1>2, <2>1
<1>7. \A i \in 1 .. n + m : u[i] = t[i]
  <2>1. \A i \in 1 .. n : t[i] = custody[i] /\ u[i] = custody[i]
    BY <1>1, <1>2, <1>5, <1>6
  <2>2. \A i \in 1 .. m : t[n + i] = rows[i] /\ u[n + i] = after[i]
    BY <1>1, <1>2, <1>5, <1>6
  <2> SUFFICES ASSUME NEW i \in 1 .. n + m PROVE u[i] = t[i]
    OBVIOUS
  <2>3. CASE i \in 1 .. n
    BY <2>1, <2>3
  <2>4. CASE i \notin 1 .. n
    <3>1. PICK j \in 1 .. m : i = n + j
      BY <2>4
    <3> QED BY <1>2, <2>2, <3>1
  <2> QED BY <2>3, <2>4
<1>8. PICK last \in Nat : last = n + (m + 1) /\ last - 1 = n + m /\ last # 0
  OBVIOUS
<1>9. u[last] = after[m + 1]
  BY <1>1, <1>2, <1>6, <1>8
<1>10. FundsChain(t) /\ FundsIn(t) = b
  BY <1>3, <1>5 DEF TakenFunds
<1>11. FundsChain(u)
  <2> SUFFICES ASSUME NEW k \in 1 .. last
               PROVE  u[k].after = u[k].amount + (IF k = 1 THEN 0 ELSE u[k - 1].after)
    BY <1>6, <1>8 DEF FundsChain
  <2>1. CASE k = last
    <3>1. (IF last = 1 THEN 0 ELSE u[last - 1].after) = FundsIn(t)
      <4>1. CASE last = 1
        BY <1>5, <1>8, <4>1 DEF FundsIn
      <4>2. CASE last # 1
        BY <1>5, <1>7, <1>8, <4>2 DEF FundsIn
      <4> QED BY <4>1, <4>2
    <3> QED BY <1>4, <1>9, <1>10, <2>1, <3>1
  <2>2. CASE k # last
    <3>1. k \in 1 .. n + m /\ (k # 1 => k - 1 \in 1 .. n + m)
      BY <1>8, <2>2
    <3>2. t[k].after = t[k].amount + (IF k = 1 THEN 0 ELSE t[k - 1].after)
      BY <1>5, <1>10, <3>1 DEF FundsChain
    <3> QED BY <1>7, <3>1, <3>2
  <2> QED BY <2>1, <2>2
<1>12. FundsIn(u) = after[Len(after)].after /\ after # <<>>
  BY <1>2, <1>6, <1>8, <1>9 DEF FundsIn
<1> QED BY <1>6, <1>11, <1>12 DEF TakenFunds

LEMMA FundsRunCarries ==
    ASSUME custody \in Seq(CustodyRows), FundsChain(custody), NEW fs, NEW n, FundList(fs, n),
           NEW seen \in Int, NEW acc, FundsRun(acc, fs, seen, n), n # 0 => seen = FundsIn(custody)
    PROVE  \A k \in 0 .. n : n # 0 => TakenFunds(acc[k], seen)
<1> DEFINE C == {k \in 0 .. n : ~TakenFunds(acc[k], seen)}
<1>0. n \in Nat
  BY DEF FundList
<1>1. SUFFICES ASSUME n # 0, C # {} PROVE FALSE
  OBVIOUS
<1>2. PICK k \in C : \A j \in C : k <= j
  <2>1. C \in SUBSET Nat
    BY <1>0
  <2> HIDE DEF C
  <2> QED BY <1>1, <2>1, Sums!SmallestNumber
<1>3. k # 0
  <2>1. acc[0] = <<>>
    BY DEF FundsRun
  <2>2. custody \o <<>> = custody
    OBVIOUS
  <2>3. TakenFunds(acc[0], seen)
    BY <1>1, <2>1, <2>2 DEF TakenFunds
  <2> QED BY <2>3
<1>4. PICK j \in 0 .. n : j = k - 1 /\ k \in 1 .. n /\ j < k
  BY <1>0, <1>3
<1>5. TakenFunds(acc[j], seen)
  BY <1>2, <1>4
<1>6. acc[k] = FundsStep(seen, acc[j], fs[k]) /\ IsFund(fs[k])
  BY <1>4 DEF FundsRun, FundList
<1>7. acc[j] \in Seq(CustodyRows)
  BY <1>4, FundRunTyped
<1>8. FundAdded(acc[j], acc[k], fs[k], seen)
  BY <1>6, <1>7, FundStepAdds
<1>9. TakenFunds(acc[k], seen)
  BY <1>5, <1>6, <1>7, <1>8, FundCarries
<1> QED BY <1>9

--------------------
\* Both ledgers are continued by a posting whose balances are current.

LEMMA PostChains ==
    ASSUME LedgersTypeOK, ChainsInv, NEW r, NEW ms, NEW fs, NEW n, NEW k,
           NEW S \in SUBSET Items, NEW c, MovesOver(ms, n, S), FundsOver(fs, k, c), Post(r, ms, fs),
           attempt[r].seen.balance \in [Items -> Balances], attempt[r].seen.funds \in Int,
           \A i \in S : attempt[r].seen.balance[i] = BalanceOf(i),
           c => attempt[r].seen.funds = FundsBalance
    PROVE  /\ ChainsInv' /\ \A i : i \notin S => BalanceOf(i)' = BalanceOf(i)
           /\ ~c => UNCHANGED custody
<1>0. /\ n \in Nat /\ DOMAIN ms = 1 .. n /\ k \in Nat /\ DOMAIN fs = 1 .. k
      /\ MoveList(ms, n) /\ FundList(fs, k) /\ (k # 0 => c)
      /\ stock \in Seq(StockRows) /\ custody \in Seq(CustodyRows)
  BY DEF MoveList, FundList, MovesOver, FundsOver, LedgersTypeOK
<1>1. PICK b \in [Items -> Balances] : b = attempt[r].seen.balance
  OBVIOUS
<1>2. PICK f \in Int : f = attempt[r].seen.funds
  OBVIOUS
<1>3. PICK acc : StockRun(acc, ms, b, n) /\ Posted(ms, b) = acc[n].rows
  BY <1>0, Runs
<1>4. PICK con : FundsRun(con, fs, f, k) /\ FundsPosted(fs, f) = con[k]
  BY <1>0, Runs
<1>5. stock' = stock \o acc[n].rows /\ custody' = custody \o con[k]
  BY <1>1, <1>2, <1>3, <1>4 DEF Post
<1>6. LedgersTypeOK'
  BY <1>0, PostGrows
<1>7. Carries(stock, b, S)
  BY <1>0, <1>1, BalanceIsIn DEF Carries, ChainsInv
<1>8. Carries(stock', acc[n].balance, S)
  <2>1. n \in 0 .. n
    BY <1>0
  <2>2. Taken(acc[n], S)
    BY <1>3, <1>7, <2>1, RunCarries
  <2> QED BY <1>5, <2>2 DEF Taken
<1>9. ASSUME NEW i, i \notin S PROVE BalanceOf(i)' = BalanceOf(i)
  <2>1. BalanceIn(stock', i, Len(stock')) = BalanceOf(i)
    BY <1>8, <1>9 DEF Carries
  <2>2. BalanceOf(i)' = BalanceIn(stock', i, Len(stock'))
    <3>1. DOMAIN stock' = 1 .. Len(stock')
      BY <1>6 DEF LedgersTypeOK
    <3> QED BY <3>1 DEF BalanceOf, BalanceIn, AfterLast, RowsAt
  <2> QED BY <2>1, <2>2
<1>10. k = 0 => UNCHANGED custody
  BY <1>0, <1>4, <1>5 DEF FundsRun
<1>11. FundsChain(custody')
  <2>1. CASE k = 0
    BY <1>10, <2>1 DEF ChainsInv, FundsChain
  <2>2. CASE k # 0
    <3>1. f = FundsIn(custody)
      BY <1>0, <1>2, <2>2 DEF FundsBalance, FundsIn
    <3>2. k \in 0 .. k
      BY <1>0
    <3>3. TakenFunds(con[k], f)
      BY <1>0, <1>4, <2>2, <3>1, <3>2, FundsRunCarries DEF ChainsInv
    <3> QED BY <1>5, <3>3 DEF TakenFunds
  <2> QED BY <2>1, <2>2
<1>12. ChainsInv'
  BY <1>8, <1>11 DEF Carries, ChainsInv, StockChain, FundsChain
<1> QED BY <1>0, <1>9, <1>10, <1>12

LEMMA SeenStays ==
    ASSUME TypeInv, NEW r \in Attempts, attempt'[r] = attempt[r], SeenCurrent(attempt[r]),
           StockGrows,
           attempt[r].pc = "commit" =>
              /\ \A i \in Touched(attempt[r].request, attempt[r].read) : BalanceOf(i)' = BalanceOf(i)
              /\ TouchesFunds(attempt[r].request, attempt[r].read) => UNCHANGED custody
    PROVE  SeenCurrent(attempt[r])'
<1>1. PICK a : a = attempt[r] /\ a = attempt'[r]
  OBVIOUS
<1>2. CASE a.pc # "commit"
  BY <1>1, <1>2 DEF SeenCurrent
<1>3. CASE a.pc = "commit"
  <2>1. a.read.rows \in SUBSET DOMAIN stock
    BY <1>1, <1>3, ReadAtCommit DEF ReadOK
  <2>2. Touched(a.request, a.read)' = Touched(a.request, a.read)
    BY <2>1, SameItems DEF TypeInv, Touched
  <2>3. /\ \A i \in Touched(a.request, a.read) : BalanceOf(i)' = BalanceOf(i)
        /\ TouchesFunds(a.request, a.read) => UNCHANGED custody
        /\ \A i \in Touched(a.request, a.read) : a.seen.balance[i] = BalanceOf(i)
        /\ TouchesFunds(a.request, a.read) => a.seen.funds = FundsBalance
    BY <1>1, <1>3 DEF SeenCurrent
  <2>4. \A i \in Touched(a.request, a.read)' : a.seen.balance[i] = BalanceOf(i)'
    BY <2>2, <2>3
  <2>5. TouchesFunds(a.request, a.read)' => a.seen.funds = FundsBalance'
    BY <2>3 DEF TouchesFunds, FundsBalance
  <2>6. SeenCurrent(a)'
    BY <2>4, <2>5 DEF SeenCurrent
  <2> QED BY <1>1, <2>6
<1> QED BY <1>2, <1>3

LEMMA BalancesStay == ASSUME UNCHANGED stock PROVE \A i : BalanceOf(i)' = BalanceOf(i)
  BY DEF BalanceOf

\* The locks of two requests that are about to write.
LEMMA Apart ==
    ASSUME TypeInv, LocksInv, NEW r \in Attempts, NEW s \in Attempts, r # s,
           attempt[r].pc = "commit", attempt[s].pc = "commit"
    PROVE  /\ \A i \in Touched(attempt[r].request, attempt[r].read) :
                    i \notin Touched(attempt[s].request, attempt[s].read)
           /\ ~(TouchesFunds(attempt[r].request, attempt[r].read)
                  /\ TouchesFunds(attempt[s].request, attempt[s].read))
<1>1. ASSUME NEW x \in Attempts, attempt[x].pc = "commit"
      PROVE  /\ \A i \in Touched(attempt[x].request, attempt[x].read) : lock[StockOf(i)] = x
             /\ TouchesFunds(attempt[x].request, attempt[x].read) => lock[Custody] = x
  BY <1>1, UnsentIdle DEF Past, Closed, LocksInv, HoldsOK, Guards, Reserved
<1> QED BY <1>1

LEMMA CommitsChain ==
    ASSUME TypeInv, LocksInv, ChainsInv, SeenInv, NEW r \in Attempts, Commits(r)
    PROVE  ChainsInv' /\ SeenInv'
<1>1. PICK a : a = attempt[r] /\ a.pc = "commit" /\ SeenCurrent(a)
  BY DEF Commits, SeenInv
<1>2. PICK ms, S, fs, c : Posts(r, ms, S, fs, c)
  BY DEF Commits
<1>3. PICK m \in Nat : MovesOver(ms, m, S)
  BY <1>2 DEF Posts, SomeMoves
<1>4. PICK n \in Nat : FundsOver(fs, n, c)
  BY <1>2 DEF Posts, SomeFunds
<1>5. /\ a.seen.balance \in [Items -> Balances] /\ a.seen.funds \in Int
      /\ a.read.rows \in SUBSET DOMAIN stock /\ a.request \in Requests
  BY <1>1, ReadAtCommit DEF SeenOK, ReadOK
<1>6. S \in SUBSET Items
  BY <1>1, <1>2, <1>5, RequestLines, ItemsFinite DEF TypeInv, Touched, Posts
<1>7. /\ \A i \in S : a.seen.balance[i] = BalanceOf(i)
      /\ c => a.seen.funds = FundsBalance
  BY <1>1, <1>2 DEF Posts, SeenCurrent
<1>8. /\ ChainsInv' /\ \A i : i \notin S => BalanceOf(i)' = BalanceOf(i)
      /\ ~c => UNCHANGED custody
  BY <1>1, <1>2, <1>3, <1>4, <1>5, <1>6, <1>7, PostChains DEF Posts, TypeInv
<1>9. StockGrows
  BY CommitGrows DEF StockGrows
<1>10. PICK pc, d : pc \in Closed /\ Ended(r, pc, d)
  BY EndsKinds
<1>11. LeavesOthers(r) /\ attempt'[r].pc # "commit"
  BY <1>10, EndedLocks, EndedMakes DEF Closed
<1>12. ASSUME NEW s \in Attempts PROVE SeenCurrent(attempt[s])'
  <2>1. CASE s = r
    BY <1>11, <2>1 DEF SeenCurrent
  <2>2. CASE s # r
    <3>1. attempt'[s] = attempt[s] /\ SeenCurrent(attempt[s])
      BY <1>11, <2>2 DEF LeavesOthers, SeenInv
    <3>2. ASSUME attempt[s].pc = "commit"
          PROVE  /\ \A i \in Touched(attempt[s].request, attempt[s].read) : i \notin S
                 /\ TouchesFunds(attempt[s].request, attempt[s].read) => ~c
      BY <1>1, <1>2, <2>2, <3>2, Apart DEF Posts
    <3> QED BY <1>8, <1>9, <3>1, <3>2, SeenStays
  <2> QED BY <2>1, <2>2
<1> QED BY <1>8, <1>12 DEF SeenInv

\* A step that posts nothing, and sees nothing unless the balances of now.
LEMMA QuietChains ==
    ASSUME TypeInv, ChainsInv, SeenInv, NEW r \in Attempts, LeavesOthers(r),
           UNCHANGED <<stock, custody>>,
           attempt'[r].pc = "commit" => /\ \A i \in Items : attempt'[r].seen.balance[i] = BalanceOf(i)
                                        /\ attempt'[r].seen.funds = FundsBalance
                                        /\ attempt'[r].request \in Requests
                                        /\ attempt'[r].read.rows \in SUBSET DOMAIN stock
    PROVE  ChainsInv' /\ SeenInv'
<1>1. ChainsInv'
  BY DEF ChainsInv, StockChain, FundsChain, BalanceIn, AfterLast, RowsAt
<1>2. StockGrows /\ \A i : BalanceOf(i)' = BalanceOf(i)
  BY SameStockGrows, BalancesStay DEF TypeInv
<1>3. ASSUME NEW s \in Attempts, s # r PROVE SeenCurrent(attempt[s])'
  BY <1>2, <1>3, SeenStays DEF LeavesOthers, SeenInv
<1>4. SeenCurrent(attempt[r])'
  <2>1. PICK b : b = attempt'[r]
    OBVIOUS
  <2>2. ASSUME b.pc = "commit" PROVE SeenCurrent(b)'
    BY <1>2, <2>1, <2>2, RequestLines, ItemsFinite, SameItems DEF TypeInv, Touched, FundsBalance,
       SeenCurrent
  <2>3. SeenCurrent(b)'
    BY <2>2 DEF SeenCurrent
  <2> QED BY <2>1, <2>3
<1>5. SeenInv'
  BY <1>3, <1>4 DEF SeenInv
<1> QED BY <1>1, <1>5

LEMMA ChainsKept ==
    ASSUME TypeInv, LocksInv, ChainsInv, SeenInv, [Next]_vars
    PROVE  ChainsInv' /\ SeenInv'
<1>1. CASE UNCHANGED <<stock, custody, attempt>>
  <2>1. ChainsInv'
    BY <1>1 DEF ChainsInv, StockChain, FundsChain, BalanceIn, AfterLast, RowsAt
  <2>2. SeenInv'
    <3> SUFFICES ASSUME NEW r \in Attempts PROVE SeenCurrent(attempt[r])'
      BY DEF SeenInv
    <3>1. PICK a : a = attempt[r] /\ a = attempt'[r] /\ SeenCurrent(a)
      BY <1>1 DEF SeenInv
    <3>2. \A i : BalanceOf(i)' = BalanceOf(i)
      BY <1>1 DEF BalanceOf
    <3>3. FundsBalance' = FundsBalance /\ ItemsOf(a.read.rows)' = ItemsOf(a.read.rows)
      BY <1>1 DEF FundsBalance, ItemsOf
    <3>4. SeenCurrent(a)'
      BY <3>1, <3>2, <3>3 DEF SeenCurrent, Touched, TouchesFunds
    <3> QED BY <3>1, <3>4
  <2> QED BY <2>1, <2>2
<1>2. ASSUME NEW r \in Attempts, StepKind(r) PROVE ChainsInv' /\ SeenInv'
  <2>1. CASE Commits(r)
    BY <2>1, CommitsChain
  <2>2. CASE WritesOnly(r) \/ GivesUp(r)
    <3>1. LeavesOthers(r) /\ attempt'[r].pc # "commit"
      BY <2>2, EndsKinds, EndedLocks, EndedMakes DEF Closed
    <3>2. UNCHANGED <<stock, custody>>
      BY <2>2 DEF GivesUp, EndsQuietly, WritesOnly, Unwritten, tables
    <3> QED BY <3>1, <3>2, QuietChains
  <2>3. CASE Sees(r)
    <3>1. LeavesOthers(r) /\ UNCHANGED <<stock, custody>>
      BY <2>3, SeesLocks DEF Sees, Unwritten, tables
    <3>2. PICK a : a = attempt[r] /\ a.request \in Requests /\ a.read.rows \in SUBSET DOMAIN stock
      BY <2>3 DEF Sees, IsActive, ReadOK
    <3>3. PICK x : /\ x = attempt'[r] /\ x.request = a.request /\ x.read = a.read
                   /\ x.seen.balance = [i \in Items |-> BalanceOf(i)] /\ x.seen.funds = FundsBalance
      BY <2>3, <3>2, SeesMakes
    <3> QED BY <3>1, <3>2, <3>3, QuietChains
  <2>4. CASE Acquire(r)
    <3>1. LeavesOthers(r) /\ UNCHANGED <<stock, custody>>
      BY <2>4, AcquireLocks DEF Acquire, Unwritten, tables
    <3>2. attempt'[r].pc # "commit"
      BY <2>4, AcquireMakes
    <3> QED BY <3>1, <3>2, QuietChains
  <2>5. ASSUME NEW q \in Requests, Submit(r, q) PROVE ChainsInv' /\ SeenInv'
    BY <2>5, SubmitLocks, SubmitMakes, QuietChains DEF Submit, Unwritten, tables
  <2>6. ASSUME NEW locks, NEW next, NEW read, TakesLocks(r, locks, next, read)
        PROVE  ChainsInv' /\ SeenInv'
    <3>1. PICK b : b = attempt'[r] /\ b.pc = IF locks = <<>> THEN next ELSE "lock"
      BY <2>6, LockMakes DEF TakesLocks
    <3>2. b.pc # "commit"
      BY <2>6, <3>1 DEF TakesLocks, LocksFor
    <3>3. LeavesOthers(r) /\ UNCHANGED <<stock, custody>>
      BY <2>6, TakesLocksLocks DEF TakesLocks, Unwritten, tables
    <3> QED BY <3>1, <3>2, <3>3, QuietChains
  <2> QED BY <1>2, <2>1, <2>2, <2>3, <2>4, <2>5, <2>6 DEF StepKind
<1>3. Expire \/ UNCHANGED vars => UNCHANGED <<stock, custody, attempt>>
  BY DEF Expire, vars, tables
<1> QED BY <1>1, <1>2, <1>3, StepKinds

LEMMA InitChains == ASSUME Init PROVE ChainsInv /\ SeenInv
<1>1. Len(<<>>) = 0 /\ stock = <<>> /\ custody = <<>>
  BY DEF Init
<1>2. ChainsInv
  BY <1>1 DEF ChainsInv, StockChain, FundsChain
<1>3. SeenInv
  BY UnsentIdle DEF Init, SeenInv, SeenCurrent
<1> QED BY <1>2, <1>3

\* LedgersChain: however many transactions post at once, every row of the two
\* ledgers continues the balance of the row before it of its item, or of the
\* custody: the balances a transaction read under its locks are current when it
\* writes, and no average cost is negative.
THEOREM LedgersAlwaysChain == Spec => []LedgersChain
<1> DEFINE Inv == TypeInv /\ LocksInv /\ ChainsInv /\ SeenInv
<1>1. Init => Inv
  BY InitTypes, InitLocks, InitChains
<1>2. Inv /\ [Next]_vars => Inv'
  <2> SUFFICES ASSUME Inv, [Next]_vars PROVE Inv'
    OBVIOUS
  <2>1. TypeInv' /\ LocksInv' /\ ChainsInv' /\ SeenInv'
    BY TypesKept, LocksKept, ChainsKept
  <2> QED BY <2>1
<1>3. Inv => LedgersChain
  BY ChainsAre DEF TypeInv, ChainsInv
<1> QED BY <1>1, <1>2, <1>3, PTL DEF Spec

--------------------
\* The window lock, which the requests about a document hold from their
\* reads to their writes.

LEMMA AcquireWindow ==
    ASSUME TypeInv, LocksInv, WindowInv, NEW r \in Attempts, Acquire(r)
    PROVE  HasWindow(r, attempt[r])'
<1>1. PICK a, k, rest, pc : Acquires(r, a, k, rest, pc)
  BY DEF Acquires
<1>2. \A l \in Locks : (lock'[l] = r) <=> (l = k \/ lock[l] = r)
  BY <1>1, AcquireBecomes
<1>3. PICK b : /\ b = attempt'[r] /\ a.pc = "lock" /\ a.next \in {"read", "balances"}
               /\ b.pc \in {"lock", a.next} /\ b.request = a.request /\ b.next = a.next
  BY <1>1, AcquireMakes DEF Acquires
<1>4. HoldsOK(r, a) /\ HasWindow(r, a)
  BY <1>1 DEF LocksInv, WindowInv, Acquires
<1>5. CASE a.next = "read"
  BY <1>1, <1>2, <1>3, <1>4, <1>5, LockKinds DEF HoldsOK, HasWindow, Acquires
<1>6. CASE a.next = "balances"
  BY <1>2, <1>3, <1>4, <1>6, LockKinds DEF Past, HasWindow
<1> QED BY <1>3, <1>5, <1>6

LEMMA SeesWindow ==
    ASSUME TypeInv, WindowInv, NEW r \in Attempts, Sees(r)
    PROVE  HasWindow(r, attempt[r])'
<1>1. PICK a : a = attempt[r] /\ a.pc = "balances" /\ UNCHANGED lock
  BY DEF Sees
<1>2. PICK x : x = attempt'[r] /\ x.pc = "commit" /\ x.request = a.request
  BY <1>1, SeesMakes
<1> QED BY <1>1, <1>2 DEF HasWindow, Past, WindowInv

LEMMA TakesLocksWindow ==
    ASSUME TypeInv, WindowInv, NEW r \in Attempts, NEW locks, NEW next, NEW read,
           TakesLocks(r, locks, next, read)
    PROVE  HasWindow(r, attempt[r])'
<1>1. PICK a, b : /\ a = attempt[r] /\ b = attempt'[r] /\ b.next = next /\ b.request = a.request
                  /\ b.pc = IF locks = <<>> THEN next ELSE "lock"
  BY LockMakes DEF TakesLocks
<1>2. /\ LocksFor(a.request, locks, next, read) /\ HasWindow(r, a) /\ UNCHANGED lock
      /\ a.pc = IF a.request.op \in {"register", "count"} \/ next = "read"
                THEN "start" ELSE "read"
  BY <1>1 DEF TakesLocks, Lock, WindowInv
<1>3. CASE next = "read"
  <2>1. locks = <<Window>>
    BY <1>2, <1>3 DEF LocksFor
  <2>2. b.pc = "lock"
    BY <1>1, <2>1
  <2> QED BY <1>1, <1>3, <2>2 DEF HasWindow, Past
<1>4. CASE next = "balances"
  BY <1>1, <1>2, <1>4 DEF ByDocument, HasWindow
<1> QED BY <1>2, <1>3, <1>4 DEF LocksFor

LEMMA OthersKeepWindow ==
    ASSUME WindowInv, NEW r \in Attempts, LeavesOthers(r), HasWindow(r, attempt[r])'
    PROVE  WindowInv'
<1>1. \A s \in Attempts : s # r => HasWindow(s, attempt[s])'
  BY LockKinds DEF WindowInv, LeavesOthers, HasWindow
<1> QED BY <1>1 DEF WindowInv

LEMMA InitWindow == ASSUME Init PROVE WindowInv
  BY UnsentIdle DEF Init, WindowInv, HasWindow, Past

LEMMA StepKeepsWindow ==
    ASSUME TypeInv, LocksInv, WindowInv, NEW r \in Attempts, StepKind(r)
    PROVE  LeavesOthers(r) /\ WindowInv'
<1>1. ASSUME GivesUp(r) \/ WritesOnly(r) \/ Commits(r)
      PROVE  LeavesOthers(r) /\ HasWindow(r, attempt[r])'
  BY <1>1, EndsKinds, EndedLocks, EndedMakes DEF HasWindow, Past, Closed
<1>2. ASSUME NEW q \in Requests, Submit(r, q) PROVE HasWindow(r, attempt[r])'
  BY <1>2, SubmitMakes DEF HasWindow, Past
<1>3. LeavesOthers(r) /\ HasWindow(r, attempt[r])'
  BY <1>1, <1>2, SubmitLocks, AcquireLocks, AcquireWindow, SeesLocks, SeesWindow,
     TakesLocksLocks, TakesLocksWindow DEF StepKind
<1> QED BY <1>3, OthersKeepWindow

--------------------
\* What the actions that write do to the documents.

LEMMA AppendedOne ==
    ASSUME DocsOK, NEW t, DocTable(t), DOMAIN t = DOMAIN docs, Len(t) = Len(docs),
           NEW D, \A e \in DOMAIN docs : e \notin D => t[e] = docs[e],
           NEW q, NEW tag, NEW type, NEW status, NEW lines, NEW method, NEW fund, NEW of,
           NEW receipt, NEW revision, NEW doc,
           DocIs(doc, type, status, q, tag, lines, method, fund, of, receipt, revision),
           docs' = Append(t, doc)
    PROVE  LET new == Len(docs) + 1
           IN  /\ KeepsBut(D) /\ NewIds({new})
               /\ \A e \in DOMAIN docs : docs'[e] = t[e]
               /\ Appended(new, tag, q, type, status, of, lines, method, fund)
<1>1. PICK n \in Nat : n = Len(docs) /\ DOMAIN docs = 1 .. n
  BY DocsNumbers
<1>2. PICK S : t \in Seq(S) /\ doc \in S
  <2>1. t \in Seq(Range(t)) /\ Range(t) \subseteq Range(t) \cup {doc}
    BY DEF DocTable
  <2>2. t \in Seq(Range(t) \cup {doc})
    BY <2>1, Sums!WiderSeq
  <2> QED BY <2>2
<1>3. PICK new : new = n + 1
  OBVIOUS
<1>4. /\ DOMAIN docs' = 1 .. n + 1 /\ docs'[new] = doc
      /\ \A e \in 1 .. n : docs'[e] = t[e]
  BY <1>1, <1>2, <1>3
<1>5. DOMAIN docs' = DOMAIN docs \cup {new} /\ new \notin DOMAIN docs
  BY <1>1, <1>3, <1>4
<1>6. Appended(new, tag, q, type, status, of, lines, method, fund)
  BY <1>4 DEF Appended, DocIs
<1>7. KeepsBut(D) /\ NewIds({new}) /\ \A e \in DOMAIN docs : docs'[e] = t[e]
  BY <1>1, <1>4, <1>5 DEF KeepsBut, NewIds
<1> QED BY <1>1, <1>3, <1>6, <1>7

LEMMA TurnedIs ==
    ASSUME NEW t, NEW d \in DOMAIN docs, NEW status, NEW corrected,
           TurnedTo(t, docs, d, status, corrected), docs'[d] = t[d]
    PROVE  Turned(d, status, corrected)
<1>1. \A i \in {"type", "of", "lines", "method", "fund", "key", "request", "receipt"} :
          t[d][i] = docs[d][i]
  BY DEF TurnedTo, DocFields
<1>2. t[d].type = docs[d].type /\ t[d].of = docs[d].of /\ t[d].lines = docs[d].lines
      /\ t[d].method = docs[d].method /\ t[d].fund = docs[d].fund
      /\ t[d].key = docs[d].key /\ t[d].request = docs[d].request
      /\ t[d].receipt = docs[d].receipt
  BY <1>1
<1> QED BY <1>2 DEF TurnedTo, Turned, Refiled

LEMMA InsertedUnused ==
    ASSUME NEW doc, Insertable(doc), NEW tag, NEW q, NEW type, NEW status, NEW lines, NEW method,
           NEW fund, NEW of, NEW receipt, NEW revision,
           DocIs(doc, type, status, q, tag, lines, method, fund, of, receipt, revision)
    PROVE  Unused(tag, q)
  BY DEF Insertable, DocIs, Unused

LEMMA PrepareDocs ==
    ASSUME TypeInv, NEW r \in Attempts, Prepare(r)
    PROVE  /\ UNCHANGED <<stock, custody, prices, lastPrice>>
           /\ UNCHANGED docs \/ OrderDocs(attempt[r].request)
<1> DEFINE q == attempt[r].request
           doc == [Document("purchase", "prepared", q, Key("document", q))
                     EXCEPT !.lines = q.lines, !.method = q.method, !.fund = q.fund]
<1>1. \/ \E e : Answered(r, e) \/ Refused(r)
      \/ /\ docs' = Append(docs, doc) /\ WithKey(Key("document", q)) = {}
         /\ UNCHANGED <<stock, custody, prices, lastPrice>>
  BY Zenon DEF Prepare
<1>2. ASSUME docs' = Append(docs, doc), WithKey(Key("document", q)) = {} PROVE OrderDocs(q)
  <2>1. PICK lines, method, fund : lines = q.lines /\ method = q.method /\ fund = q.fund
    OBVIOUS
  <2>2. DocIs(doc, "purchase", "prepared", q, "document", lines, method, fund, NoDoc, Unsent, 1)
    BY <2>1, OrderDocument
  <2>3. DocTable(docs) /\ DocsOK
    BY DocsNumbers DEF TypeInv
  <2> HIDE DEF doc
  <2>4. /\ KeepsBut({}) /\ NewIds({Len(docs) + 1})
        /\ Appended(Len(docs) + 1, "document", q, "purchase", "prepared", NoDoc, lines, method, fund)
    BY <1>2, <2>2, <2>3, AppendedOne
  <2> QED BY <1>2, <2>1, <2>4 DEF OrderDocs, Unused, WithKey
<1>3. (\E e : Answered(r, e) \/ Refused(r)) => UNCHANGED <<stock, custody, prices, lastPrice, docs>>
  BY DEF Answered, Refused, Unwritten, tables
<1> QED BY <1>1, <1>2, <1>3

LEMMA CommitRegistrationDocs ==
    ASSUME TypeInv, NEW r \in Attempts, CommitRegistration(r)
    PROVE  RegistrationDocs(attempt[r].request) /\ UNCHANGED <<prices, lastPrice>>
<1> DEFINE q == attempt[r].request
           doc == [Document(q.kind, "received", q, Key("document", q)) EXCEPT !.lines = q.lines]
<1>1. docs' = Append(docs, doc) /\ Insertable(doc) /\ UNCHANGED <<prices, lastPrice>>
  BY DEF CommitRegistration
<1>2. PICK lines, kind : lines = q.lines /\ kind = q.kind
  OBVIOUS
<1>3. DocIs(doc, kind, "received", q, "document", lines, "none", 0, NoDoc, Unsent, 1)
  BY <1>2, RegistrationDocument
<1>4. DocTable(docs) /\ DocsOK
  BY DocsNumbers DEF TypeInv
<1> HIDE DEF doc
<1>5. /\ KeepsBut({}) /\ NewIds({Len(docs) + 1})
      /\ Appended(Len(docs) + 1, "document", q, kind, "received", NoDoc, lines, "none", 0)
  BY <1>1, <1>3, <1>4, AppendedOne
<1>6. Len(docs') = Len(docs) + 1
  BY <1>1, <1>4 DEF DocsOK
<1> QED BY <1>1, <1>2, <1>3, <1>5, <1>6, InsertedUnused DEF RegistrationDocs

LEMMA CommitReceiptDocs ==
    ASSUME TypeInv, NEW r \in Attempts, CommitReceipt(r)
    PROVE  /\ ReceiptDocs(attempt[r].request, attempt[r].read)
           /\ prices' = prices \o NewPrices(attempt[r].request.doc, attempt[r].request.lines, attempt[r].request.date)
           /\ lastPrice' = Offered(attempt[r].request.lines)
<1> DEFINE q == attempt[r].request
           d == q.doc
           a == attempt[r].read
           fund == IF a.method = "custody" THEN a.fund ELSE 0
           new == ReceivedAs(docs[d], q, a.method, fund)
<1>1. /\ docs' = [docs EXCEPT ![d] = new]
      /\ prices' = prices \o NewPrices(d, q.lines, q.date)
      /\ lastPrice' = Offered(q.lines)
  BY DEF CommitReceipt, ReceivedAs, Offered
<1>2. q \in Requests /\ q.op = "receive" /\ ReadOK(a) /\ d \in DOMAIN docs
  BY DoingRequest, ReadAtCommit DEF CommitReceipt, At, ByDocument
<1>3. PICK method \in Methods, money \in Nat : method = a.method /\ money = fund
  BY <1>2 DEF ReadOK
<1>0. PICK old : old = docs[d]
  OBVIOUS
<1>4. IsDocument(old) /\ IsLines(q.lines, Bought) /\ new = ReceivedAs(old, q, method, money)
  BY <1>0, <1>2, <1>3, LinesOf DEF TypeInv, DocsOK
<1> HIDE DEF new
<1>5. /\ Restated(new, old) /\ new.status = "received" /\ new.lines = q.lines
      /\ new.method = method /\ new.fund = money /\ new.corrected = old.corrected
      /\ new.receipt = q
  BY <1>2, <1>4, ReceivedDocument
<1>6. /\ DOMAIN docs' = DOMAIN docs /\ docs'[d] = new
      /\ \A e \in DOMAIN docs : e # d => docs'[e] = docs[e]
  BY <1>1, <1>2
<1>7. Received(d, q, a.method, fund)
  BY <1>0, <1>3, <1>5, <1>6 DEF Received, Restated, Refiled
<1>8. KeepsBut({d}) /\ NewIds({})
  BY <1>6 DEF KeepsBut, NewIds
<1> QED BY <1>1, <1>7, <1>8 DEF ReceiptDocs, FundOf

LEMMA CommitCorrectionDocs ==
    ASSUME TypeInv, NEW r \in Attempts, CommitCorrection(r)
    PROVE  /\ CorrectionDocs(attempt[r].request, attempt[r].read)
           /\ prices' = prices \o NewPrices(Len(docs) + 1, attempt[r].request.lines, attempt[r].request.date)
           /\ lastPrice' = Refreshed(DOMAIN docs[attempt[r].request.doc].lines,
                                     Offered(attempt[r].request.lines))
<1> DEFINE q == attempt[r].request
           d == q.doc
           a == attempt[r].read
           fund == IF a.method = "custody" THEN a.fund ELSE 0
           doc == [Document("purchase", "received", q, Key("document", q))
                      EXCEPT !.lines = q.lines, !.method = a.method, !.fund = fund,
                             !.receipt = q, !.revision = 2]
           turned == [docs EXCEPT ![q.doc].status = "reversed", ![q.doc].corrected = TRUE]
<1>1. /\ docs' = Append(turned, doc) /\ Insertable(doc)
      /\ prices' = prices \o NewPrices(Len(docs) + 1, q.lines, q.date)
      /\ lastPrice' = Refreshed(DOMAIN docs[d].lines, Offered(q.lines))
  BY DEF CommitCorrection, Offered
<1>2. d \in DOMAIN docs
  BY DoingRequest, ReadAtCommit DEF CommitCorrection, At, ByDocument
<1>3. PICK lines, method, money : lines = q.lines /\ method = a.method /\ money = fund
  OBVIOUS
<1>4. DocIs(doc, "purchase", "received", q, "document", lines, method, money, NoDoc, q, 2)
  BY <1>3, ReplacementDocument
<1> HIDE DEF doc
<1>5. TurnedTo(turned, docs, d, "reversed", TRUE)
  BY <1>2, DocsNumbers, ForGood DEF TypeInv
<1> HIDE DEF turned
<1>6. /\ DocsOK /\ DocTable(turned) /\ DOMAIN turned = DOMAIN docs /\ Len(turned) = Len(docs)
      /\ \A e \in DOMAIN docs : e \notin {d} => turned[e] = docs[e]
  BY <1>5 DEF TypeInv, TurnedTo
<1>7. /\ KeepsBut({d}) /\ NewIds({Len(docs) + 1})
      /\ \A e \in DOMAIN docs : docs'[e] = turned[e]
      /\ Appended(Len(docs) + 1, "document", q, "purchase", "received", NoDoc, lines, method, money)
  BY <1>1, <1>4, <1>6, AppendedOne
<1>8. Turned(d, "reversed", TRUE)
  BY <1>2, <1>5, <1>7, TurnedIs
<1> QED BY <1>1, <1>3, <1>4, <1>7, <1>8, InsertedUnused DEF CorrectionDocs, FundOf

LEMMA CommitToggleDocs ==
    ASSUME TypeInv, NEW r \in Attempts, CommitToggle(r)
    PROVE  /\ ToggleDocs(attempt[r].request, attempt[r].read)
           /\ UNCHANGED prices
           /\ lastPrice' = IF docs[attempt[r].request.doc].type = "purchase"
                           THEN Refreshed(DOMAIN docs[attempt[r].request.doc].lines, lastPrice)
                           ELSE lastPrice
<1> DEFINE q == attempt[r].request
           d == q.doc
           a == attempt[r].read
           doc == [Document(docs[d].type, "reversed", q, Key("document", q))
                      EXCEPT !.method = docs[d].method, !.of = a.head]
           turned == [docs EXCEPT ![d].status = ToggledTo(q)]
<1>1. /\ docs' = Append(turned, doc) /\ Insertable(doc) /\ UNCHANGED prices
      /\ lastPrice' = IF docs[d].type = "purchase"
                      THEN Refreshed(DOMAIN docs[d].lines, lastPrice) ELSE lastPrice
  BY DEF CommitToggle, ToggledTo
<1>2. d \in DOMAIN docs
  BY DoingRequest, ReadAtCommit DEF CommitToggle, At, ByDocument
<1>3. PICK type, method, of, end : /\ type = docs[d].type /\ method = docs[d].method
                                   /\ of = a.head /\ end = ToggledTo(q)
  OBVIOUS
<1>4. DocIs(doc, type, "reversed", q, "document", <<>>, method, 0, of, Unsent, 1)
  BY <1>3, ReversalDocument
<1> HIDE DEF doc
<1>5. TurnedTo(turned, docs, d, end, docs[d].corrected)
  BY <1>2, <1>3, DocsNumbers, BackAndForth DEF ToggledTo, TypeInv
<1> HIDE DEF turned
<1>6. /\ DocsOK /\ DocTable(turned) /\ DOMAIN turned = DOMAIN docs /\ Len(turned) = Len(docs)
      /\ \A e \in DOMAIN docs : e \notin {d} => turned[e] = docs[e]
  BY <1>5 DEF TypeInv, TurnedTo
<1>7. /\ KeepsBut({d}) /\ NewIds({Len(docs) + 1})
      /\ \A e \in DOMAIN docs : docs'[e] = turned[e]
      /\ Appended(Len(docs) + 1, "document", q, type, "reversed", of, <<>>, method, 0)
  BY <1>1, <1>4, <1>6, AppendedOne
<1>8. Turned(d, end, docs[d].corrected)
  BY <1>2, <1>5, <1>7, TurnedIs
<1> QED BY <1>1, <1>3, <1>4, <1>7, <1>8, InsertedUnused DEF ToggleDocs

LEMMA CommitAmendDocs ==
    ASSUME TypeInv, NEW r \in Attempts, CommitAmend(r)
    PROVE  AmendDocs(attempt[r].request, attempt[r].read) /\ UNCHANGED <<prices, lastPrice>>
<1> DEFINE q == attempt[r].request
           d == q.doc
           a == attempt[r].read
           reversal == [Document("issue", "reversed", q, Key("reversal", q))
                           EXCEPT !.of = a.head]
           doc == [Document("issue", "received", q, Key("replacement", q))
                      EXCEPT !.lines = q.lines]
           turned == [docs EXCEPT ![d].status = "reversed", ![d].corrected = TRUE]
<1>1. /\ docs' = turned \o <<reversal, doc>> /\ UNCHANGED <<prices, lastPrice>>
      /\ Insertable(reversal) /\ Insertable(doc)
  BY DEF CommitAmend
<1>2. d \in DOMAIN docs
  BY DoingRequest, ReadAtCommit DEF CommitAmend, At, ByDocument
<1>3. PICK lines, of : lines = q.lines /\ of = a.head
  OBVIOUS
<1>4. DocIs(reversal, "issue", "reversed", q, "reversal", <<>>, "none", 0, of, Unsent, 1)
  BY <1>3, UndoneDocument
<1>5. DocIs(doc, "issue", "received", q, "replacement", lines, "none", 0, NoDoc, Unsent, 1)
  BY <1>3, RegistrationDocument
<1> HIDE DEF doc, reversal
<1>6. TurnedTo(turned, docs, d, "reversed", TRUE)
  BY <1>2, DocsNumbers, ForGood DEF TypeInv
<1> HIDE DEF turned
<1>7. PICK n \in Nat : n = Len(docs) /\ DOMAIN docs = 1 .. n /\ DOMAIN turned = 1 .. n /\ Len(turned) = n
  BY <1>6, DocsNumbers DEF TypeInv, TurnedTo
<1>8. PICK S : turned \in Seq(S) /\ doc \in S /\ reversal \in S
  <2>1. turned \in Seq(Range(turned)) /\ Range(turned) \subseteq Range(turned) \cup {doc, reversal}
    BY <1>6 DEF DocTable, TurnedTo
  <2>2. turned \in Seq(Range(turned) \cup {doc, reversal})
    BY <2>1, Sums!WiderSeq
  <2> QED BY <2>2
<1>9. docs' = Append(Append(turned, reversal), doc)
  BY <1>1, <1>8, Sums!JoinPair
<1>10. /\ DOMAIN docs' = 1 .. n + 2
       /\ \A e \in 1 .. n : docs'[e] = turned[e]
       /\ docs'[n + 1] = reversal /\ docs'[n + 2] = doc
  <2>0. PICK t : t = Append(turned, reversal)
    OBVIOUS
  <2>1. /\ t = Append(turned, reversal) /\ t \in Seq(S) /\ Len(t) = n + 1
        /\ t[n + 1] = reversal /\ \A e \in 1 .. n : t[e] = turned[e]
    BY <1>7, <1>8, <2>0
  <2>2. docs' = Append(t, doc)
    BY <1>9, <2>1
  <2>3. /\ DOMAIN docs' = 1 .. n + 2 /\ docs'[n + 2] = doc
        /\ \A e \in 1 .. n + 1 : docs'[e] = t[e]
    BY <1>7, <1>8, <2>1, <2>2
  <2> QED BY <1>7, <2>1, <2>3
<1>11. NewIds({n + 1, n + 2})
  BY <1>7, <1>10 DEF NewIds
<1>12. KeepsBut({d}) /\ Turned(d, "reversed", TRUE)
  BY <1>2, <1>6, <1>7, <1>10, TurnedIs DEF KeepsBut, TurnedTo
<1>13. /\ Appended(n + 1, "reversal", q, "issue", "reversed", of, <<>>, "none", 0)
       /\ Appended(n + 2, "replacement", q, "issue", "received", NoDoc, lines, "none", 0)
  BY <1>4, <1>5, <1>10 DEF Appended, DocIs
<1> QED BY <1>1, <1>3, <1>4, <1>5, <1>7, <1>11, <1>12, <1>13, InsertedUnused DEF AmendDocs

--------------------
\* What a request about a document found stays true until it writes.

LEMMA StandingStays ==
    ASSUME NEW q, Standing(q), KeepsBut({}), DOMAIN docs \subseteq DOMAIN docs'
    PROVE  Standing(q)'
  BY DEF Standing, KeepsBut

LEMMA SameDocs == ASSUME UNCHANGED docs PROVE KeepsBut({}) /\ DOMAIN docs \subseteq DOMAIN docs'
  BY DEF KeepsBut

LEMMA StepOnlyAdds ==
    ASSUME TypeInv, NEW r \in Attempts, StepKind(r)
    PROVE  \/ KeepsBut({}) /\ DOMAIN docs \subseteq DOMAIN docs'
           \/ /\ attempt[r].pc = "commit" /\ attempt[r].request.op \in ByDocument
              /\ \E pc, reply : pc \in Closed /\ Ended(r, pc, reply)
<1>1. CASE UNCHANGED docs
  BY <1>1, SameDocs
<1>2. CASE Prepare(r)
  BY <1>2, SameDocs, PrepareDocs DEF OrderDocs, NewIds
<1>3. CASE CommitRegistration(r)
  BY <1>3, CommitRegistrationDocs DEF RegistrationDocs, NewIds
<1>4. CASE CommitCount(r)
  BY <1>4, SameDocs DEF CommitCount
<1>5. CASE CommitReceipt(r) \/ CommitCorrection(r) \/ CommitToggle(r) \/ CommitAmend(r)
  <2>1. attempt[r].pc = "commit" /\ attempt[r].request.op \in ByDocument
    BY <1>5 DEF CommitReceipt, CommitCorrection, CommitToggle, CommitAmend, Doing, At, ByDocument
  <2>2. \E reply : Ended(r, "done", reply)
    BY <1>5 DEF CommitReceipt, CommitCorrection, CommitToggle, CommitAmend
  <2> QED BY <2>1, <2>2 DEF Closed
<1>6. UNCHANGED docs \/ Writes(r)
  BY DEF StepKind, Submit, Acquire, GivesUp, EndsQuietly, Sees, TakesLocks, Unwritten, tables, books
<1> QED BY <1>1, <1>2, <1>3, <1>4, <1>5, <1>6 DEF Writes

\* What an attempt that is past its reads found out, it found out in this step,
\* which writes nothing, or had found out before.
LEMMA OwnPast ==
    ASSUME TypeInv, NEW r \in Attempts, StepKind(r), Past(attempt'[r])
    PROVE  /\ Unwritten
           /\ \/ /\ Past(attempt[r]) /\ attempt'[r].request = attempt[r].request
                 /\ attempt'[r].read = attempt[r].read
              \/ attempt'[r].request.op \in ByDocument
                    => Certified(attempt'[r].request, attempt'[r].read)
<1>1. ~(GivesUp(r) \/ WritesOnly(r) \/ Commits(r))
  BY EndsKinds, EndedMakes DEF Past, Closed
<1>2. ~\E q \in Requests : Submit(r, q)
  BY SubmitMakes DEF Past
<1>3. PICK a : a = attempt[r]
  OBVIOUS
<1>4. CASE Acquire(r)
  <2>1. PICK b : /\ b = attempt'[r] /\ a.pc = "lock" /\ a.next \in {"read", "balances"}
                 /\ b.pc \in {"lock", a.next} /\ b.request = a.request /\ b.next = a.next
                 /\ b.read = a.read
    BY <1>3, <1>4, AcquireMakes
  <2> QED BY <1>3, <1>4, <2>1 DEF Acquire, Past
<1>5. CASE Sees(r)
  <2>1. attempt'[r].request = a.request /\ attempt'[r].read = a.read
    BY <1>3, <1>5, SeesMakes
  <2> QED BY <1>3, <1>5, <2>1 DEF Sees, Past
<1>6. ASSUME NEW locks, NEW next, NEW read, TakesLocks(r, locks, next, read)
      PROVE  Unwritten /\ (attempt'[r].request.op \in ByDocument
                              => Certified(attempt'[r].request, attempt'[r].read))
  <2>1. PICK b : /\ b = attempt'[r] /\ b.pc = IF locks = <<>> THEN next ELSE "lock"
                 /\ b.request = a.request /\ b.next = next /\ b.read = read
    BY <1>3, <1>6, LockMakes DEF TakesLocks
  <2>2. LocksFor(a.request, locks, next, read) /\ Unwritten
    BY <1>3, <1>6 DEF TakesLocks
  <2> QED BY <2>1, <2>2 DEF Past, LocksFor
<1> QED BY <1>1, <1>2, <1>4, <1>5, <1>6 DEF StepKind

LEMMA OwnInformed ==
    ASSUME TypeInv, InformedInv, NEW r \in Attempts, StepKind(r)
    PROVE  Informed(attempt[r])'
<1>1. PICK b : b = attempt'[r]
  OBVIOUS
<1>2. SUFFICES ASSUME Past(b), b.request.op \in ByDocument PROVE Standing(b.request)'
  BY <1>1 DEF Informed, Past
<1>3. Standing(b.request)
  BY <1>1, <1>2, OwnPast DEF InformedInv, Informed, Certified
<1>4. UNCHANGED docs
  BY <1>1, <1>2, OwnPast DEF Unwritten, tables
<1> QED BY <1>3, <1>4 DEF Standing

LEMMA InformedKept ==
    ASSUME TypeInv, LocksInv, WindowInv, InformedInv, NEW r \in Attempts, StepKind(r)
    PROVE  InformedInv'
<1>1. Informed(attempt[r])'
  BY OwnInformed
<1>2. ASSUME NEW s \in Attempts, s # r PROVE Informed(attempt[s])'
  <2>1. PICK a : a = attempt[s] /\ a = attempt'[s]
    BY <1>2, StepKeepsWindow DEF LeavesOthers
  <2>2. Informed(a)
    BY <2>1 DEF InformedInv
  <2>3. CASE KeepsBut({}) /\ DOMAIN docs \subseteq DOMAIN docs'
    BY <2>1, <2>2, <2>3, StandingStays DEF Informed, Past
  <2>4. CASE attempt[r].pc = "commit" /\ attempt[r].request.op \in ByDocument
    BY <1>2, <2>1, <2>4 DEF WindowInv, HasWindow, Past, Informed
  <2> QED BY <2>3, <2>4, StepOnlyAdds
<1> QED BY <1>1, <1>2 DEF InformedInv

LEMMA InitInformed == ASSUME Init PROVE InformedInv
  BY UnsentIdle DEF Init, InformedInv, Informed, Past

--------------------
\* The last price of an item follows the purchases.

LEMMA NewPricesExtend ==
    ASSUME TablesOK, NEW x, NEW lines, IsLines(lines, Bought),
           NEW day, prices' = prices \o NewPrices(x, lines, day)
    PROVE  Extends(x, lines)
<1> DEFINE up == Upwards(DOMAIN lines)
           s == NewPrices(x, lines, day)
<1>0. DOMAIN lines \in SUBSET Nat /\ IsFiniteSet(DOMAIN lines)
  BY StockConstants DEF IsLines
<1>1. Lists(up, DOMAIN lines)
  BY <1>0, UpwardsLists
<1>2. s = [n \in DOMAIN up |-> [item |-> up[n], doc |-> x, price |-> lines[up[n]].price, date |-> day]]
  BY DEF NewPrices, Each
<1>3. prices' = prices \o s
  OBVIOUS
<1> HIDE DEF up, s
<1>4. PICK c \in Nat : DOMAIN up = 1 .. c
  BY <1>1 DEF Lists
<1>5. \A k \in 1 .. c : PriceOf(s[k], x, lines) /\ s[k].item = up[k]
  <2> SUFFICES ASSUME NEW k \in 1 .. c PROVE PriceOf(s[k], x, lines) /\ s[k].item = up[k]
    OBVIOUS
  <2>1. PICK i \in DOMAIN lines : i = up[k]
    BY <1>1, <1>4 DEF Lists
  <2>2. s[k] = [item |-> i, doc |-> x, price |-> lines[i].price, date |-> day]
    BY <1>2, <1>4, <2>1
  <2> QED BY <2>1, <2>2 DEF PriceOf
<1>6. s = [n \in 1 .. c |-> s[n]]
  BY <1>2, <1>4
<1>7. PICK m \in Nat : m = Len(prices) /\ DOMAIN prices = 1 .. m
  BY DEF TablesOK
<1>8. /\ DOMAIN prices' = 1 .. m + c /\ \A n \in 1 .. m : prices'[n] = prices[n]
      /\ \A k \in 1 .. c : prices'[m + k] = s[k]
  <2>1. PICK S : prices \in Seq(S) /\ s \in Seq(S)
    <3>1. PICK R : prices \in Seq(R)
      BY DEF TablesOK
    <3>2. prices \in Seq(R \cup Range(s))
      BY <3>1, Sums!WiderSeq
    <3>3. s \in [1 .. c -> R \cup Range(s)]
      BY <1>6 DEF Range
    <3>4. s \in Seq(R \cup Range(s))
      BY <3>3
    <3> QED BY <3>2, <3>4
  <2>2. Len(s) = c
    BY <1>6
  <2> QED BY <1>3, <1>6, <1>7, <2>1, <2>2
<1>9. \A n \in 1 .. m + c : n \notin 1 .. m => \E k \in 1 .. c : n = m + k
  <2> SUFFICES ASSUME NEW n \in 1 .. m + c, n \notin 1 .. m PROVE \E k \in 1 .. c : n = m + k
    OBVIOUS
  <2>1. n - m \in 1 .. c /\ n = m + (n - m)
    OBVIOUS
  <2> QED BY <2>1
<1>10. \A n \in DOMAIN prices' : n \notin DOMAIN prices =>
          /\ \A k \in DOMAIN prices : k < n
          /\ PriceOf(prices'[n], x, lines)
  <2> SUFFICES ASSUME NEW n \in DOMAIN prices', n \notin DOMAIN prices
               PROVE  /\ \A k \in DOMAIN prices : k < n
                      /\ PriceOf(prices'[n], x, lines)
    OBVIOUS
  <2>1. PICK k \in 1 .. c : n = m + k
    BY <1>7, <1>8, <1>9
  <2> QED BY <1>5, <1>7, <1>8, <2>1
<1>11. \A i \in DOMAIN lines : \E n \in DOMAIN prices' :
          n \notin DOMAIN prices /\ prices'[n].item = i
  <2> SUFFICES ASSUME NEW i \in DOMAIN lines
               PROVE  \E n \in DOMAIN prices' : n \notin DOMAIN prices /\ prices'[n].item = i
    OBVIOUS
  <2>1. PICK k \in 1 .. c : up[k] = i
    BY <1>1, <1>4 DEF Lists
  <2>2. m + k \in DOMAIN prices' /\ m + k \notin DOMAIN prices
    BY <1>7, <1>8
  <2>3. prices'[m + k].item = i
    BY <1>5, <1>8, <2>1
  <2> QED BY <2>2, <2>3
<1>12. DOMAIN prices \subseteq DOMAIN prices' /\ \A n \in DOMAIN prices : prices'[n] = prices[n]
  BY <1>7, <1>8
<1> QED BY <1>10, <1>11, <1>12 DEF Extends

LEMMA SamePricesExtend == ASSUME NEW x, UNCHANGED prices PROVE Extends(x, <<>>)
<1>1. DOMAIN <<>> = {}
  OBVIOUS
<1> QED BY <1>1 DEF Extends

LEMMA PricesFollow ==
    ASSUME TypeInv, TypeInv', PricesInv, NEW x, NEW lines, NEW D, Repriced(x, lines, D)
    PROVE  PricesInv'
<1>1. Extends(x, lines)
  BY DEF Repriced
<1>2. HistoryInv'
  <2> SUFFICES ASSUME NEW n \in DOMAIN prices' PROVE Supported(n)'
    BY DEF HistoryInv
  <2>1. CASE n \in DOMAIN prices
    BY <1>1, <2>1 DEF PricesInv, HistoryInv, Repriced, Extends, Supported, Restates
  <2>2. CASE n \notin DOMAIN prices
    BY <1>1, <2>2 DEF Extends, PriceOf, Repriced, Supported
  <2> QED BY <2>1, <2>2
<1>3. ASSUME NEW CONSTANT i \in Items, \E n \in DOMAIN prices' : prices'[n].item = i
      PROVE  PriceFollows(i)'
  <2>1. CASE i \in D
    BY <2>1 DEF Repriced, PriceFollows
  <2>2. CASE i \notin D /\ i \in DOMAIN lines
    <3>1. PICK n \in DOMAIN prices' : n \notin DOMAIN prices /\ prices'[n].item = i
      BY <1>1, <2>2 DEF Extends
    <3>2. n \in Priced(i)'
      BY <1>1, <2>2, <3>1 DEF Extends, PriceOf, Priced, Repriced
    <3>3. IsFiniteSet(Priced(i)') /\ Priced(i)' \in SUBSET Nat
      <4>1. Priced(i)' \in SUBSET DOMAIN prices'
        BY DEF Priced
      <4> QED BY <4>1, NumbersOf DEF TypeInv, TablesOK
    <3>4. PICK m : m = Max(Priced(i)') /\ m \in Priced(i)' /\ n <= m
      <4>1. PICK S : S = Priced(i)'
        OBVIOUS
      <4>2. Max(S) \in S /\ \A k \in S : k <= Max(S)
        BY <3>2, <3>3, <4>1, LargestNumber
      <4> QED BY <3>2, <4>1, <4>2
    <3>5. m \in DOMAIN prices' /\ prices'[m].item = i
      BY <3>4 DEF Priced
    <3>6. m \notin DOMAIN prices
      BY <1>1, <3>1, <3>2, <3>3, <3>4 DEF Extends
    <3>7. prices'[m].price = lines[i].price
      BY <1>1, <3>5, <3>6 DEF Extends, PriceOf
    <3>8. LastWritten(i)' = prices'[m].price /\ (Priced(i) # {})'
      BY <3>2, <3>4 DEF LastWritten
    <3> QED BY <2>2, <3>7, <3>8 DEF Repriced, PriceFollows
  <2>3. CASE i \notin D /\ i \notin DOMAIN lines
    <3>1. \A n \in DOMAIN prices' : prices'[n].item = i => n \in DOMAIN prices
      BY <1>1, <2>3 DEF Extends, PriceOf
    <3>2. \A n \in DOMAIN prices : n \in DOMAIN prices' /\ prices'[n] = prices[n]
      BY <1>1 DEF Extends
    <3>3. \A n \in DOMAIN prices :
             prices[n].item = i => docs'[prices[n].doc].status = docs[prices[n].doc].status
      BY <2>3 DEF Repriced, Restates
    <3>4. Priced(i)' = Priced(i)
      BY <3>1, <3>2, <3>3 DEF Priced
    <3>5. \E n \in DOMAIN prices : prices[n].item = i
      BY <1>3, <3>1, <3>2
    <3>6. PriceFollows(i)
      BY <3>5 DEF PricesInv, LastPriceFollows, Offer, LastWritten, PriceFollows
    <3>7. PICK S : S = Priced(i) /\ S = Priced(i)'
      BY <3>4
    <3>8. CASE S = {}
      BY <2>3, <3>6, <3>7, <3>8 DEF Repriced, PriceFollows, Offer
    <3>9. CASE S # {}
      <4>1. PICK m : m = Max(S)
        OBVIOUS
      <4>2. m \in S
        <5>1. S \in SUBSET DOMAIN prices
          BY <3>7 DEF Priced
        <5>2. IsFiniteSet(S) /\ S \in SUBSET Nat
          BY <5>1, NumbersOf DEF TypeInv, TablesOK
        <5> QED BY <3>9, <4>1, <5>2, LargestNumber
      <4>3. S \in SUBSET DOMAIN prices
        BY <3>7 DEF Priced
      <4>4. PICK k : k = Latest(S, prices) /\ k \in S
        BY <3>9, <4>3, LatestIs DEF TypeInv, TablesOK, PriceRows
      <4>5. Latest(S, prices') = k
        BY <3>2, <4>3, <4>4, LatestStays
      <4>6. prices'[m] = prices[m] /\ prices'[k] = prices[k]
        BY <3>2, <4>2, <4>3, <4>4
      <4>7. Offer(i) = prices[k].price /\ Offer(i)' = prices'[k].price
        BY <3>7, <3>9, <4>4, <4>5 DEF Offer
      <4>8. LastWritten(i) = prices[m].price /\ LastWritten(i)' = prices'[m].price
        BY <3>7, <4>1 DEF LastWritten
      <4> QED BY <2>3, <3>6, <3>7, <4>6, <4>7, <4>8 DEF Repriced, PriceFollows
    <3> QED BY <3>8, <3>9
  <2> QED BY <2>1, <2>2, <2>3
<1>4. LastPriceFollows'
  BY <1>3 DEF LastPriceFollows, Offer, LastWritten, PriceFollows
<1> QED BY <1>2, <1>4 DEF PricesInv

LEMMA RefreshedIs ==
    ASSUME NEW CONSTANT items, NEW CONSTANT old, lastPrice' = Refreshed(items, old)
    PROVE  \A i \in Items : lastPrice'[i] = IF i \in items THEN Offer(i)' ELSE old[i]
<1> SUFFICES ASSUME NEW CONSTANT i \in Items
             PROVE  lastPrice'[i] = IF i \in items THEN Offer(i)' ELSE old[i]
  OBVIOUS
<1> DEFINE left == {n \in DOMAIN prices' : /\ prices'[n].item = i
                                           /\ docs'[prices'[n].doc].status = "received"}
<1>1. lastPrice'[i] = IF i \notin items THEN old[i]
                      ELSE IF left = {} THEN NoPrice ELSE prices'[Latest(left, prices')].price
  BY DEF Refreshed
<1>2. left = Priced(i)'
  BY DEF Priced
<1>3. Offer(i)' = IF left = {} THEN NoPrice ELSE prices'[Latest(left, prices')].price
  BY <1>2 DEF Offer
<1> QED BY <1>1, <1>3

\* The documents of the price history.
LEMMA PriceDocs ==
    ASSUME TypeInv, NEW n \in DOMAIN prices
    PROVE  prices[n].doc \in DOMAIN docs /\ prices[n].item \in Items
<1>1. prices[n] \in [item : Items, doc : DOMAIN docs, price : Nat, date : Days]
  BY Sums!ElementOf DEF TypeInv, TablesOK
<1> QED BY <1>1

LEMMA PricesStay ==
    ASSUME TypeInv, TypeInv', PricesInv, UNCHANGED <<prices, lastPrice>>, NEW D, Leaves(D),
           \A d \in D : d \in DOMAIN docs => docs[d].type # "purchase"
    PROVE  PricesInv'
<1>1. Extends(NoDoc, <<>>)
  BY SamePricesExtend
<1>2. DOMAIN <<>> = {}
  OBVIOUS
<1>3. ASSUME NEW n \in DOMAIN prices PROVE Restates(n, {})
  <2>1. PICK d \in DOMAIN docs : d = prices[n].doc
    BY PriceDocs
  <2>2. docs[d].type = "purchase" /\ docs[d].status # "prepared"
    BY <2>1 DEF PricesInv, HistoryInv, Supported
  <2>3. d \in DOMAIN docs' /\ docs'[d] = docs[d]
    BY <2>2 DEF Leaves
  <2> QED BY <2>1, <2>2, <2>3 DEF Restates
<1>4. Repriced(NoDoc, <<>>, {})
  BY <1>1, <1>2, <1>3 DEF Repriced
<1> QED BY <1>4, PricesFollow

LEMMA KeepsLeaves ==
    ASSUME NEW D, NEW X, KeepsBut(D), NewIds(X) PROVE Leaves(D)
  BY DEF KeepsBut, NewIds, Leaves

\* A purchase that takes a new price history and does not belong to the old one.
LEMMA ReceiptPrices ==
    ASSUME TypeInv, TypeInv', InformedInv, PricesInv, NEW r \in Attempts, CommitReceipt(r)
    PROVE  PricesInv'
<1> DEFINE q == attempt[r].request
           a == attempt[r].read
<1>1. /\ q \in Requests /\ q.op = "receive" /\ IsLines(q.lines, Bought) /\ q.doc \in DOMAIN docs
      /\ docs[q.doc].type = "purchase" /\ docs[q.doc].status = "prepared"
  BY DoingRequest, LinesOf DEF CommitReceipt, At, InformedInv, Informed, Past, ByDocument,
     Standing
<1>2. /\ ReceiptDocs(q, a) /\ prices' = prices \o NewPrices(q.doc, q.lines, q.date)
      /\ lastPrice' = Offered(q.lines)
  BY CommitReceiptDocs
<1>3. PICK d, lines : d = q.doc /\ lines = q.lines
  OBVIOUS
<1>4. Extends(d, lines)
  BY <1>1, <1>2, <1>3, NewPricesExtend DEF TypeInv
<1>5. /\ docs'[d].type = "purchase" /\ docs'[d].status = "received" /\ docs'[d].lines = lines
  BY <1>1, <1>2, <1>3 DEF ReceiptDocs, Received
<1>6. ASSUME NEW n \in DOMAIN prices PROVE Restates(n, {})
  <2>1. PICK e \in DOMAIN docs : e = prices[n].doc
    BY PriceDocs
  <2>2. docs[e].type = "purchase" /\ docs[e].status # "prepared"
    BY <2>1 DEF PricesInv, HistoryInv, Supported
  <2>3. e # d
    BY <1>1, <1>3, <2>2
  <2>4. e \in DOMAIN docs' /\ docs'[e] = docs[e]
    BY <1>2, <1>3, <2>3 DEF ReceiptDocs, KeepsBut, NewIds
  <2> QED BY <2>1, <2>2, <2>4 DEF Restates
<1>7. \A i \in Items : lastPrice'[i] = IF i \in DOMAIN lines THEN lines[i].price ELSE lastPrice[i]
  BY <1>2, <1>3 DEF Offered
<1>8. Repriced(d, lines, {})
  BY <1>4, <1>5, <1>6, <1>7 DEF Repriced
<1> QED BY <1>8, PricesFollow

LEMMA CorrectionPrices ==
    ASSUME TypeInv, TypeInv', PricesInv, NEW r \in Attempts, CommitCorrection(r)
    PROVE  PricesInv'
<1> DEFINE q == attempt[r].request
           a == attempt[r].read
<1>1. q \in Requests /\ q.op = "correct" /\ IsLines(q.lines, Bought) /\ q.doc \in DOMAIN docs
  BY DoingRequest, LinesOf, ReadAtCommit DEF CommitCorrection, At, ByDocument
<1>2. /\ CorrectionDocs(q, a) /\ prices' = prices \o NewPrices(Len(docs) + 1, q.lines, q.date)
      /\ lastPrice' = Refreshed(DOMAIN docs[q.doc].lines, Offered(q.lines))
  BY CommitCorrectionDocs
<1>3. PICK d, lines : d = q.doc /\ lines = q.lines
  OBVIOUS
<1>4. PICK x, D, old : x = Len(docs) + 1 /\ D = DOMAIN docs[d].lines /\ old = Offered(lines)
  OBVIOUS
<1>5. Extends(x, lines)
  BY <1>1, <1>2, <1>3, <1>4, NewPricesExtend DEF TypeInv
<1>6. /\ docs'[x].type = "purchase" /\ docs'[x].status = "received" /\ docs'[x].lines = lines
  BY <1>2, <1>3, <1>4 DEF CorrectionDocs, Appended
<1>7. ASSUME NEW n \in DOMAIN prices PROVE Restates(n, D)
  <2>1. PICK e \in DOMAIN docs : e = prices[n].doc
    BY PriceDocs
  <2>2. docs[e].type = "purchase" /\ docs[e].status # "prepared" /\ prices[n].item \in DOMAIN docs[e].lines
    BY <2>1 DEF PricesInv, HistoryInv, Supported
  <2>3. e \in DOMAIN docs'
    BY <1>2 DEF CorrectionDocs, NewIds
  <2>4. CASE e # d
    BY <1>2, <1>3, <2>1, <2>2, <2>3, <2>4 DEF CorrectionDocs, KeepsBut, Restates
  <2>5. CASE e = d
    BY <1>2, <1>3, <1>4, <2>1, <2>2, <2>3, <2>5 DEF CorrectionDocs, Restates, Turned
  <2> QED BY <2>4, <2>5
<1>8. \A i \in Items : lastPrice'[i] = IF i \in D THEN Offer(i)' ELSE old[i]
  BY <1>2, <1>3, <1>4, RefreshedIs
<1>9. \A i \in Items : old[i] = IF i \in DOMAIN lines THEN lines[i].price ELSE lastPrice[i]
  BY <1>4 DEF Offered
<1>10. Repriced(x, lines, D)
  BY <1>5, <1>6, <1>7, <1>8, <1>9 DEF Repriced
<1> QED BY <1>10, PricesFollow

LEMMA TogglePrices ==
    ASSUME TypeInv, TypeInv', PricesInv, NEW r \in Attempts, CommitToggle(r)
    PROVE  PricesInv'
<1> DEFINE q == attempt[r].request
           a == attempt[r].read
<1>1. q.doc \in DOMAIN docs
  BY DoingRequest, ReadAtCommit DEF CommitToggle, At, ByDocument
<1>2. /\ ToggleDocs(q, a) /\ UNCHANGED prices
      /\ lastPrice' = IF docs[q.doc].type = "purchase"
                      THEN Refreshed(DOMAIN docs[q.doc].lines, lastPrice) ELSE lastPrice
  BY CommitToggleDocs
<1>3. CASE docs[q.doc].type # "purchase"
  BY <1>2, <1>3, KeepsLeaves, PricesStay DEF ToggleDocs
<1>4. CASE docs[q.doc].type = "purchase"
  <2>1. PICK d, D, old : d = q.doc /\ D = DOMAIN docs[d].lines /\ old = lastPrice
    OBVIOUS
  <2>2. Extends(NoDoc, <<>>)
    BY <1>2, SamePricesExtend
  <2>3. DOMAIN <<>> = {}
    OBVIOUS
  <2>4. ASSUME NEW n \in DOMAIN prices PROVE Restates(n, D)
    <3>1. PICK e \in DOMAIN docs : e = prices[n].doc
      BY PriceDocs
    <3>2. /\ docs[e].type = "purchase" /\ docs[e].status # "prepared"
          /\ prices[n].item \in DOMAIN docs[e].lines
      BY <3>1 DEF PricesInv, HistoryInv, Supported
    <3>3. e \in DOMAIN docs'
      BY <1>2 DEF ToggleDocs, NewIds
    <3>4. CASE e # d
      BY <1>2, <2>1, <3>1, <3>2, <3>3, <3>4 DEF ToggleDocs, KeepsBut, Restates
    <3>5. CASE e = d
      BY <1>2, <2>1, <3>1, <3>2, <3>3, <3>5 DEF ToggleDocs, ToggledTo, Restates, Turned
    <3> QED BY <3>4, <3>5
  <2>5. \A i \in Items : lastPrice'[i] = IF i \in D THEN Offer(i)' ELSE old[i]
    BY <1>2, <1>4, <2>1, RefreshedIs
  <2>6. Repriced(NoDoc, <<>>, D)
    BY <2>1, <2>2, <2>3, <2>4, <2>5 DEF Repriced
  <2> QED BY <2>6, PricesFollow
<1> QED BY <1>3, <1>4

LEMMA StepPrices ==
    ASSUME TypeInv, TypeInv', InformedInv, PricesInv, NEW r \in Attempts, StepKind(r)
    PROVE  PricesInv'
<1>1. CASE UNCHANGED books
  <2>1. Leaves({})
    BY <1>1 DEF books, Leaves
  <2> QED BY <1>1, <2>1, PricesStay DEF books
<1>2. CASE Prepare(r)
  BY <1>2, PrepareDocs, KeepsLeaves, PricesStay DEF Leaves, OrderDocs
<1>3. CASE CommitRegistration(r)
  BY <1>3, CommitRegistrationDocs, KeepsLeaves, PricesStay DEF RegistrationDocs
<1>4. CASE CommitCount(r)
  <2>1. UNCHANGED <<prices, lastPrice, docs>>
    BY <1>4 DEF CommitCount
  <2>2. Leaves({})
    BY <2>1 DEF Leaves
  <2> QED BY <2>1, <2>2, PricesStay
<1>5. CASE CommitAmend(r)
  <2>1. PICK q : q = attempt[r].request /\ q.op = "amend"
    BY <1>5, DoingRequest DEF CommitAmend
  <2>2. Standing(q)
    BY <1>5, <2>1 DEF CommitAmend, At, InformedInv, Informed, Past, ByDocument
  <2>3. docs[q.doc].type # "purchase"
    BY <2>1, <2>2 DEF Standing
  <2>4. Leaves({q.doc}) /\ UNCHANGED <<prices, lastPrice>>
    BY <1>5, <2>1, CommitAmendDocs, KeepsLeaves DEF AmendDocs
  <2> QED BY <2>3, <2>4, PricesStay
<1>6. UNCHANGED books \/ Writes(r)
  BY DEF StepKind, Submit, Acquire, GivesUp, EndsQuietly, Sees, TakesLocks, Unwritten, tables, books
<1> QED BY <1>1, <1>2, <1>3, <1>4, <1>5, <1>6, ReceiptPrices, CorrectionPrices, TogglePrices
        DEF Writes

LEMMA InformedAlone ==
    ASSUME UNCHANGED <<docs, attempt, lock>>, WindowInv, InformedInv PROVE WindowInv' /\ InformedInv'
  BY DEF WindowInv, HasWindow, InformedInv, Informed, Standing, Past

LEMMA InitDocuments == Init => DocumentsInv
  BY InitTypes, InitLocks, InitWindow, InitInformed DEF DocumentsInv

LEMMA DocumentsKept == DocumentsInv /\ [Next]_vars => DocumentsInv'
<1> SUFFICES ASSUME DocumentsInv, [Next]_vars PROVE DocumentsInv'
  OBVIOUS
<1>1. TypeInv' /\ LocksInv'
  BY TypesKept, LocksKept DEF DocumentsInv
<1>2. CASE UNCHANGED vars \/ Expire
  BY <1>1, <1>2, InformedAlone DEF vars, tables, Expire, DocumentsInv
<1>3. ASSUME NEW r \in Attempts, StepKind(r) PROVE WindowInv' /\ InformedInv'
  BY <1>3, StepKeepsWindow, InformedKept DEF DocumentsInv
<1> QED BY <1>1, <1>2, <1>3, StepKinds DEF DocumentsInv

\* LastPriceFollows: the price offered for the next order of an item is that of
\* the latest purchase by date that is still received, or of the last one
\* written (a receipt does not look at the dates), and none when all were reversed,
\* however receipts, corrections, reversals and their undoing interleave.
THEOREM LastPriceAlwaysFollows == Spec => []LastPriceFollows
<1> DEFINE Inv == DocumentsInv /\ PricesInv
<1>1. Init => Inv
  <2> SUFFICES ASSUME Init PROVE Inv
    OBVIOUS
  <2>1. prices = <<>>
    BY DEF Init
  <2>2. PricesInv
    BY <2>1 DEF PricesInv, HistoryInv, LastPriceFollows
  <2> QED BY <2>2, InitDocuments
<1>2. Inv /\ [Next]_vars => Inv'
  <2> SUFFICES ASSUME Inv, [Next]_vars PROVE Inv'
    OBVIOUS
  <2>1. DocumentsInv'
    BY DocumentsKept
  <2>2. CASE UNCHANGED <<docs, prices, lastPrice>>
    <3>1. Leaves({}) /\ UNCHANGED <<prices, lastPrice>>
      BY <2>2 DEF Leaves
    <3> QED BY <2>1, <3>1, PricesStay DEF DocumentsInv
  <2>3. ASSUME NEW r \in Attempts, StepKind(r) PROVE PricesInv'
    BY <2>1, <2>3, StepPrices DEF DocumentsInv
  <2>4. UNCHANGED vars \/ Expire => UNCHANGED <<docs, prices, lastPrice>>
    BY DEF vars, tables, Expire
  <2> QED BY <2>1, <2>2, <2>3, <2>4, StepKinds DEF DocumentsInv
<1>3. Inv => LastPriceFollows
  BY DEF PricesInv
<1> QED BY <1>1, <1>2, <1>3, PTL DEF Spec

--------------------
\* How the chains of reversals grow.

LEMMA HeadIsLastThen == (OfEarlier => \A d \in DOMAIN docs : HeadOf(d))'
<1>1. OfEarlier => \A d \in DOMAIN docs : HeadOf(d)
  BY HeadIsLast
<1> QED BY <1>1, PTL

\* A successor is the one document that reverses it.
LEMMA SuccessorIs ==
    ASSUME Unforked, NEW e \in DOMAIN docs, e # NoDoc, NEW f \in DOMAIN docs, docs[f].of = e
    PROVE  Undone(e) /\ Successor(e) = f
<1>1. Successor(e) \in DOMAIN docs /\ docs[Successor(e)].of = e
  BY DEF Successor
<1>2. PICK g \in DOMAIN docs : g = Successor(e) /\ docs[g].of = e
  BY <1>1
<1> QED BY <1>2 DEF Unforked, Undone

LEMMA SuccessorIsThen ==
    (Unforked => \A e, f \in DOMAIN docs :
        e # NoDoc /\ docs[f].of = e => Undone(e) /\ Successor(e) = f)'
<1>1. Unforked => \A e, f \in DOMAIN docs :
          e # NoDoc /\ docs[f].of = e => Undone(e) /\ Successor(e) = f
  BY SuccessorIs
<1> QED BY <1>1, PTL

LEMMA StaysUnforked ==
    ASSUME OfEarlier, OfEarlier', Unforked, NEW h \in Nat, NEW x, OfsMove(h, x)
    PROVE  Unforked'
<1> SUFFICES ASSUME NEW d \in DOMAIN docs', NEW e \in DOMAIN docs',
                    docs'[d].of # NoDoc, docs'[d].of = docs'[e].of
             PROVE  d = e
  BY DEF Unforked
<1>1. CASE d \in DOMAIN docs /\ e \in DOMAIN docs
  BY <1>1 DEF Unforked, OfsMove
<1>2. CASE d \notin DOMAIN docs /\ e \notin DOMAIN docs
  BY <1>2 DEF OfsMove
<1>3. CASE d \notin DOMAIN docs /\ e \in DOMAIN docs
  BY <1>3 DEF OfsMove, Undone
<1>4. CASE d \in DOMAIN docs /\ e \notin DOMAIN docs
  BY <1>4 DEF OfsMove, Undone
<1> QED BY <1>1, <1>2, <1>3, <1>4

LEMMA HeadsMove ==
    ASSUME OfEarlier, OfEarlier', Unforked, NEW h \in Nat, NEW x, OfsMove(h, x)
    PROVE  HeadsFollow(h, x)
<1>0. /\ \A d \in DOMAIN docs : HeadOf(d)
      /\ \A d \in DOMAIN docs' : HeadOf(d)'
  BY HeadIsLast, HeadIsLastThen
<1>u. Unforked'
  BY StaysUnforked
<1>n. /\ DOMAIN docs = 1 .. Len(docs) /\ DOMAIN docs' = 1 .. Len(docs') /\ Len(docs) \in Nat
      /\ Len(docs') \in Nat /\ DOMAIN docs \subseteq DOMAIN docs'
  BY DEF OfEarlier, OfsMove
<1>1. ASSUME NEW e \in DOMAIN docs', e \notin DOMAIN docs PROVE EffectHead(e)' = e
  <2>1. ASSUME NEW f \in DOMAIN docs' PROVE docs'[f].of # e
    <3>1. CASE f \in DOMAIN docs
      BY <1>1, <3>1, <1>n DEF OfEarlier, OfsMove
    <3>2. CASE f \notin DOMAIN docs
      BY <1>1, <3>2, <1>n DEF OfsMove, NoDoc
    <3> QED BY <3>1, <3>2
  <2>2. ~Undone(e)'
    BY <2>1 DEF Undone
  <2> QED BY <1>0, <2>2 DEF HeadOf
<1> DEFINE to(e) == IF EffectHead(e) = h THEN x ELSE EffectHead(e)
           C == {e \in DOMAIN docs : EffectHead(e)' # to(e)}
<1>2. SUFFICES ASSUME C # {} PROVE FALSE
  BY <1>1 DEF HeadsFollow
<1>3. PICK e \in C : \A f \in C : f <= e
  <2>1. C \subseteq DOMAIN docs
    OBVIOUS
  <2> HIDE DEF C
  <2>2. C \in SUBSET Nat
    BY <1>n, <2>1
  <2>3. IsFiniteSet(DOMAIN docs)
    BY <1>n, FS_Interval
  <2>4. IsFiniteSet(C)
    BY <2>1, <2>3, FS_Subset
  <2> QED BY <1>2, <2>2, <2>4, LargestNumber
<1>4. e \in DOMAIN docs /\ e \in DOMAIN docs' /\ EffectHead(e)' # to(e)
  BY <1>n
<1> HIDE DEF C
<1>5. CASE Undone(e)
  <2>1. PICK f \in DOMAIN docs : f = Successor(e) /\ docs[f].of = e /\ e < f
    BY <1>0, <1>4, <1>5 DEF HeadOf
  <2>2. EffectHead(e) = EffectHead(f)
    BY <1>0, <1>4, <1>5, <2>1 DEF HeadOf
  <2>3. f \in DOMAIN docs' /\ docs'[f].of = e /\ e # NoDoc
    BY <1>4, <1>n, <2>1 DEF OfsMove, NoDoc
  <2>4. Undone(e)' /\ Successor(e)' = f
    BY <1>u, <1>4, <2>3, SuccessorIsThen
  <2>5. EffectHead(e)' = EffectHead(f)'
    BY <1>0, <1>4, <2>4 DEF HeadOf
  <2>6. f \notin C
    BY <1>3, <1>4, <1>n, <2>1
  <2>7. EffectHead(f)' = to(f)
    BY <2>1, <2>6 DEF C
  <2> QED BY <1>4, <2>2, <2>5, <2>7
<1>6. CASE ~Undone(e)
  <2>1. EffectHead(e) = e
    BY <1>0, <1>4, <1>6 DEF HeadOf
  <2>2. CASE e = h
    BY <1>4, <1>n, <2>2, <1>u, <1>0, <1>1, <2>1, SuccessorIsThen DEF OfsMove, NoDoc, HeadOf
  <2>3. CASE e # h
    <3>1. ASSUME NEW f \in DOMAIN docs' PROVE docs'[f].of # e
      <4>1. CASE f \in DOMAIN docs
        BY <1>6, <4>1 DEF Undone, OfsMove
      <4>2. CASE f \notin DOMAIN docs
        BY <1>4, <4>2, <1>n, <2>3 DEF OfsMove, NoDoc
      <4> QED BY <4>1, <4>2
    <3>2. ~Undone(e)'
      BY <3>1 DEF Undone
    <3>3. EffectHead(e)' = e
      BY <1>0, <1>4, <3>2 DEF HeadOf
    <3> QED BY <1>4, <2>1, <2>3, <3>3
  <2> QED BY <2>2, <2>3
<1> QED BY <1>5, <1>6

--------------------
\* What rows are worth together: sums over sets of rows.

LEMMA SumIs ==
    ASSUME NEW w, NEW S, Weighs(w, S)
    PROVE  /\ Sums!IsFiniteSet(S) /\ Worth(w, S) = Sums!SumFunctionOnSet(w, S)
           /\ \A n \in S : w[n] \in Int
  BY SameFinite, SameSum DEF Worth, Weighs

LEMMA WorthType == ASSUME NEW w, NEW S, Weighs(w, S) PROVE Worth(w, S) \in Int
  BY SumIs, Sums!SumType

LEMMA WorthSame ==
    ASSUME NEW w, NEW v, NEW S, Weighs(w, S), \A n \in S : v[n] = w[n]
    PROVE  Weighs(v, S) /\ Worth(v, S) = Worth(w, S)
<1>1. Weighs(v, S)
  BY DEF Weighs
<1>2. Sums!SumFunctionOnSet(v, S) = Sums!SumFunctionOnSet(w, S)
  BY SumIs, Sums!SumSame
<1> QED BY <1>1, <1>2, SumIs

LEMMA WorthOfParts ==
    ASSUME NEW w, NEW S, NEW T, Weighs(w, S), Weighs(w, T), S \cap T = {}
    PROVE  Weighs(w, S \cup T) /\ Worth(w, S \cup T) = Worth(w, S) + Worth(w, T)
<1>1. Weighs(w, S \cup T)
  BY FS_Union DEF Weighs
<1>2. Sums!SumFunctionOnSet(w, S \cup T) = Sums!SumFunctionOnSet(w, S) + Sums!SumFunctionOnSet(w, T)
  BY SumIs, Sums!SumOfUnion DEF Weighs
<1> QED BY <1>1, <1>2, SumIs

LEMMA WorthOpposite ==
    ASSUME NEW w, NEW v, NEW S, Weighs(w, S), Opposite(w, v, S)
    PROVE  Weighs(v, S) /\ Worth(v, S) + Worth(w, S) = 0
<1>1. Weighs(v, S)
  BY DEF Weighs, Opposite
<1> DEFINE Right(V) == Worth(v, V) + Worth(w, V) = 0
           C == {V \in SUBSET S : ~Right(V)}
<1>2. SUFFICES ASSUME C # {} PROVE FALSE
  BY <1>1
<1>3. PICK V \in C : \A U \in C : U \subseteq V => U = V
  <2>1. C \in SUBSET SUBSET S
    OBVIOUS
  <2> HIDE DEF C
  <2> QED BY <1>2, <2>1, SmallestSet DEF Family, Weighs
<1>4. V \in SUBSET S /\ ~Right(V)
  OBVIOUS
<1>c. \A W \in SUBSET S : W \subseteq V /\ W # V => Right(W)
  BY <1>3
<1> HIDE DEF C
<1>5. Weighs(w, V) /\ Weighs(v, V)
  BY <1>1, <1>4, FS_Subset DEF Weighs
<1>6. V # {}
  <2>1. SUFFICES ASSUME V = {} PROVE Right(V)
    BY <1>4
  <2>2. Worth(w, V) = 0 /\ Worth(v, V) = 0
    BY <1>5, <2>1, SumIs, Sums!SumEmpty
  <2> QED BY <2>2
<1>7. PICK y \in V : TRUE
  BY <1>6
<1>8. PICK W : W = V \ {y}
  OBVIOUS
<1>9. W \in SUBSET S /\ W # V /\ y \in S
  BY <1>4, <1>7, <1>8
<1>10. Right(W)
  BY <1>c, <1>8, <1>9
<1>11. Weighs(w, W) /\ Weighs(v, W)
  BY <1>5, <1>8, FS_Subset DEF Weighs
<1>12. Worth(w, V) = w[y] + Worth(w, W) /\ Worth(v, V) = v[y] + Worth(v, W)
  BY <1>5, <1>7, <1>8, <1>11, SumIs, Sums!SumRemove
<1>13. v[y] + w[y] = 0 /\ w[y] \in Int /\ v[y] \in Int /\ Worth(w, W) \in Int /\ Worth(v, W) \in Int
  BY <1>5, <1>7, <1>9, <1>11, WorthType DEF Opposite, Weighs
<1> QED BY <1>4, <1>10, <1>12, <1>13

LEMMA WorthZero ==
    ASSUME NEW w, NEW S, IsFiniteSet(S), \A n \in S : w[n] = 0
    PROVE  Weighs(w, S) /\ Worth(w, S) = 0
<1>1. Weighs(w, S) /\ Opposite(w, w, S)
  BY DEF Weighs, Opposite
<1>2. Worth(w, S) + Worth(w, S) = 0 /\ Worth(w, S) \in Int
  BY <1>1, WorthOpposite, WorthType
<1> QED BY <1>1, <1>2

LEMMA WorthNothing == ASSUME NEW w PROVE Weighs(w, {}) /\ Worth(w, {}) = 0
  BY WorthZero, FS_EmptySet

\* A set with one row that counts.
LEMMA WorthOfOne ==
    ASSUME NEW w, NEW S, IsFiniteSet(S), NEW y \in S, w[y] \in Int,
           \A n \in S : n # y => w[n] = 0
    PROVE  Weighs(w, S) /\ Worth(w, S) = w[y]
<1>1. PICK T : T = S \ {y}
  OBVIOUS
<1>2. IsFiniteSet(T)
  BY <1>1, FS_RemoveElement
<1>3. Weighs(w, S) /\ Worth(w, T) = 0
  BY <1>1, <1>2, WorthZero DEF Weighs
<1>4. Worth(w, S) = w[y] + Worth(w, T)
  BY <1>1, <1>2, <1>3, SumIs, SameSum, Sums!SumRemove DEF Worth
<1> QED BY <1>3, <1>4

LEMMA WorthMoved ==
    ASSUME NEW w, NEW v, NEW S, Weighs(w, S), NEW place, Opposed(w, v, S, place)
    PROVE  Weighs(v, Places(place, S)) /\ Worth(v, Places(place, S)) + Worth(w, S) = 0
<1>1. PICK u : u = [n \in S |-> v[place[n]]]
  OBVIOUS
<1>2. Weighs(u, S) /\ Worth(u, S) + Worth(w, S) = 0
  BY <1>1, WorthOpposite DEF Opposed, Opposite
<1>3. /\ Sums!IsFiniteSet({place[x] : x \in S})
      /\ Sums!SumFunctionOnSet(v, {place[x] : x \in S}) = Sums!SumFunctionOnSet(u, S)
  <2>1. \A x \in S : u[x] \in Int /\ v[place[x]] = u[x]
    BY <1>1 DEF Opposed
  <2>2. \A x, y \in S : place[x] = place[y] => x = y
    BY DEF Opposed
  <2>3. Sums!IsFiniteSet(S)
    BY <1>2, SumIs
  <2>4. Sums!IsFiniteSet({place[x] : x \in S})
    BY <2>1, <2>2, <2>3, Sums!SumRenamed
  <2>5. Sums!SumFunctionOnSet(v, {place[x] : x \in S}) = Sums!SumFunctionOnSet(u, S)
    BY <2>1, <2>2, <2>3, Sums!SumRenamed
  <2> QED BY <2>4, <2>5
<1> QED BY <1>2, <1>3, SumIs, SameFinite, SameSum DEF Worth, Weighs, Places, Opposed

--------------------
\* Whose rows a posting adds, and what they are worth.

LEMMA OwnersUnfold == ASSUME NEW rows, Numbered(rows) PROVE OwnersFollow(rows)
<1> DEFINE D == DOMAIN rows
           F(h) == h = [n \in D |-> IF rows[n].reverses = 0 THEN rows[n].doc
                                    ELSE h[rows[n].reverses]]
           owner == CHOOSE h : F(h)
<1>1. Owners(rows) = owner
  BY DEF Owners
<1> DEFINE stop == {n \in D : rows[n].reverses = 0}
           next == [n \in D |-> rows[n].reverses]
           rank == [n \in D |-> n]
           end == [n \in D |-> rows[n].doc]
<1>2. Falls(D, stop, next, rank)
  <2> SUFFICES ASSUME NEW n \in D
               PROVE  /\ rank[n] \in Nat
                      /\ n \notin stop => next[n] \in D /\ rank[next[n]] < rank[n]
    BY DEF Falls
  <2>1. PICK m : m = rows[n].reverses
    OBVIOUS
  <2>2. n \in Nat /\ m \in Nat /\ m < n /\ n <= Len(rows) /\ Len(rows) \in Nat
    BY <2>1 DEF Numbered
  <2>3. m # 0 => m \in D
    BY <2>2 DEF Numbered
  <2> QED BY <2>1, <2>2, <2>3
<1>3. PICK top \in Nat : \A n \in D : rank[n] < top
  <2>1. Len(rows) + 1 \in Nat /\ \A n \in D : rank[n] < Len(rows) + 1
    BY DEF Numbered
  <2> HIDE DEF rank
  <2> QED BY <2>1
<1>5. PICK h : Recursion(h, "chain", 0, D, stop, end, next, end)
  <2> HIDE DEF D, stop, next, rank, end
  <2> QED BY <1>2, <1>3, RecursionExists
<1>6. h = [n \in D |-> IF n \in stop THEN end[n] ELSE StepOf("chain", 0, h[next[n]], end[n])]
  <2> HIDE DEF D, stop, next, rank, end
  <2> QED BY <1>5 DEF Recursion
<1>7. F(h)
  <2> DEFINE k == [n \in D |-> IF rows[n].reverses = 0 THEN rows[n].doc
                               ELSE h[rows[n].reverses]]
  <2>1. \A n \in D : h[n] = k[n]
    <3> SUFFICES ASSUME NEW n \in D PROVE h[n] = k[n]
      OBVIOUS
    <3>1. h[n] = IF n \in stop THEN end[n] ELSE StepOf("chain", 0, h[next[n]], end[n])
      <4> HIDE DEF D, stop, next, end
      <4> QED BY <1>5, RecursionValue
    <3> QED BY <3>1 DEF StepOf
  <2>2. h = [n \in D |-> h[n]] /\ k = [n \in D |-> k[n]]
    <3>1. k = [n \in D |-> k[n]]
      OBVIOUS
    <3> HIDE DEF D, stop, next, end, k
    <3> QED BY <1>6, <3>1
  <2>3. h = k
    <3> HIDE DEF D, k
    <3> QED BY <2>1, <2>2
  <2> QED BY <2>3
<1>8. F(owner)
  <2> HIDE DEF F
  <2> QED BY <1>7
<1>9. \A n \in D : owner[n] = IF rows[n].reverses = 0 THEN rows[n].doc
                              ELSE owner[rows[n].reverses]
  <2> SUFFICES ASSUME NEW n \in D
               PROVE  owner[n] = IF rows[n].reverses = 0 THEN rows[n].doc
                                 ELSE owner[rows[n].reverses]
    OBVIOUS
  <2> HIDE DEF owner
  <2> QED BY <1>8, Zenon
<1> HIDE DEF owner
<1> QED BY <1>1, <1>9 DEF OwnersFollow

LEMMA OwnersStay ==
    ASSUME NEW rows, NEW new, Numbered(rows), Numbered(new), Prolongs(rows, new)
    PROVE  \A n \in DOMAIN rows : Owners(new)[n] = Owners(rows)[n]
<1> DEFINE C == {n \in DOMAIN rows : Owners(new)[n] # Owners(rows)[n]}
<1>1. SUFFICES ASSUME C # {} PROVE FALSE
  OBVIOUS
<1>2. PICK n \in C : \A m \in C : n <= m
  <2>1. C \in SUBSET Nat
    BY DEF Numbered
  <2> HIDE DEF C
  <2> QED BY <1>1, <2>1, Sums!SmallestNumber
<1>3. n \in DOMAIN rows /\ n \in DOMAIN new /\ new[n] = rows[n] /\ n \in Nat
  BY DEF Prolongs, Numbered
<1>4. PICK m : m = rows[n].reverses
  OBVIOUS
<1>5. /\ Owners(new)[n] = IF m = 0 THEN rows[n].doc ELSE Owners(new)[m]
      /\ Owners(rows)[n] = IF m = 0 THEN rows[n].doc ELSE Owners(rows)[m]
  BY <1>3, <1>4, OwnersUnfold DEF OwnersFollow
<1>6. m # 0
  BY <1>5
<1>7. m \in Nat /\ m < n /\ n <= Len(rows) /\ Len(rows) \in Nat
  BY <1>3, <1>4 DEF Numbered
<1>8. m \in DOMAIN rows /\ ~(n <= m)
  BY <1>3, <1>6, <1>7 DEF Numbered
<1>9. m \notin C
  BY <1>2, <1>8
<1> QED BY <1>5, <1>6, <1>8, <1>9

LEMMA PostingOwners ==
    ASSUME NEW rows, NEW new, NEW w, NEW v, NEW R, NEW x, NEW y, NEW total,
           Numbered(rows), Numbered(new), Posting(rows, new, w, v, R, x, y, total),
           NEW d, AllOwned(R, rows, d)
    PROVE  PostedOwners(rows, new, d, y)
<1>1. \A n \in DOMAIN rows : Owners(new)[n] = Owners(rows)[n]
  BY OwnersStay DEF Posting
<1>2. ASSUME NEW n \in Reversing(rows, new) PROVE Owners(new)[n] = d
  <2>1. PICK m \in R : m = new[n].reverses /\ m # 0 /\ n \in DOMAIN new /\ m \in DOMAIN rows
    BY DEF Posting, Reversing
  <2>2. Owners(new)[n] = Owners(new)[m]
    BY <2>1, OwnersUnfold DEF OwnersFollow
  <2> QED BY <1>1, <2>1, <2>2 DEF AllOwned
<1>3. ASSUME NEW n \in Fresh(rows, new) PROVE Owners(new)[n] = y
  BY OwnersUnfold DEF Posting, Fresh, OwnersFollow
<1> QED BY <1>1, <1>2, <1>3 DEF PostedOwners

LEMMA RowsWeigh ==
    ASSUME NEW rows, NEW new, NEW w, NEW v, NEW R, NEW x, NEW y, NEW total,
           Numbered(rows), Numbered(new), Posting(rows, new, w, v, R, x, y, total)
    PROVE  /\ \A S \in SUBSET DOMAIN new : Weighs(v, S)
           /\ \A S \in SUBSET DOMAIN rows : /\ Weighs(w, S) /\ Weighs(v, S)
                                            /\ Worth(v, S) = Worth(w, S)
<1>1. IsFiniteSet(DOMAIN new) /\ IsFiniteSet(DOMAIN rows)
  BY FS_Interval DEF Numbered
<1>2. ASSUME NEW S \in SUBSET DOMAIN new PROVE Weighs(v, S)
  BY <1>1, FS_Subset DEF Weighs, Posting
<1>3. ASSUME NEW S \in SUBSET DOMAIN rows
      PROVE  Weighs(w, S) /\ Weighs(v, S) /\ Worth(v, S) = Worth(w, S)
  BY <1>1, FS_Subset, WorthSame DEF Weighs, Posting
<1> QED BY <1>2, <1>3

LEMMA PostingEffects ==
    ASSUME NEW rows, NEW new, NEW w, NEW v, NEW R, NEW x, NEW y, NEW total,
           Numbered(rows), Numbered(new), Posting(rows, new, w, v, R, x, y, total),
           NEW d, AllOwned(R, rows, d)
    PROVE  \A e : Adjusts(rows, new, w, v, e, e = d, e = y)
<1> SUFFICES ASSUME NEW e PROVE Adjusts(rows, new, w, v, e, e = d, e = y)
  OBVIOUS
<1>1. PICK A, B, C : /\ A = OwnedBy(rows, e)
                     /\ B = IF e = d THEN Reversing(rows, new) ELSE {}
                     /\ C = IF e = y THEN Fresh(rows, new) ELSE {}
  OBVIOUS
<1>2. A \in SUBSET DOMAIN rows /\ A \in SUBSET DOMAIN new
  BY <1>1 DEF OwnedBy, Posting, Prolongs
<1>3. B \in SUBSET DOMAIN new /\ C \in SUBSET DOMAIN new
  BY <1>1 DEF Reversing, Fresh
<1>4. (A \cup B) \in SUBSET DOMAIN new /\ A \cap B = {} /\ (A \cup B) \cap C = {}
  BY <1>1, <1>2, <1>3 DEF Reversing, Fresh, OwnedBy
<1>5. OwnedBy(new, e) = (A \cup B) \cup C
  <2>1. PostedOwners(rows, new, d, y)
    BY PostingOwners
  <2>2. ASSUME NEW n PROVE n \in OwnedBy(new, e) <=> n \in (A \cup B) \cup C
    <3>1. CASE n \in DOMAIN rows
      BY <1>1, <1>2, <2>1, <3>1 DEF OwnedBy, PostedOwners, Reversing, Fresh, Posting, Prolongs
    <3>2. CASE n \in Reversing(rows, new)
      BY <1>1, <2>1, <3>2 DEF OwnedBy, PostedOwners, Reversing, Fresh
    <3>3. CASE n \in Fresh(rows, new)
      BY <1>1, <2>1, <3>3 DEF OwnedBy, PostedOwners, Reversing, Fresh
    <3>4. CASE n \notin DOMAIN new
      BY <1>2, <1>3, <3>4 DEF OwnedBy
    <3> QED BY <3>1, <3>2, <3>3, <3>4 DEF Reversing, Fresh
  <2> QED BY <2>2
<1>6. Weighs(v, A) /\ Weighs(v, B) /\ Weighs(v, C) /\ Weighs(v, A \cup B) /\ Worth(v, A) = Worth(w, A)
  BY <1>2, <1>3, <1>4, RowsWeigh
<1>7. Worth(v, OwnedBy(new, e)) = (Worth(v, A) + Worth(v, B)) + Worth(v, C)
  BY <1>4, <1>5, <1>6, WorthOfParts
<1>8. /\ Worth(v, B) = IF e = d THEN Worth(v, Reversing(rows, new)) ELSE 0
      /\ Worth(v, C) = IF e = y THEN Worth(v, Fresh(rows, new)) ELSE 0
  BY <1>1, WorthNothing
<1> QED BY <1>1, <1>6, <1>7, <1>8 DEF Adjusts, Effect

--------------------
\* A ledger beside a table of documents D whose chains end at the heads H.

LEMMA HeadRowsOfOthers ==
    ASSUME NEW D, NEW E, NEW rows, NEW new, NEW w, NEW v, NEW R, NEW x, NEW y, NEW total,
           Posting(rows, new, w, v, R, x, y, total),
           NEW e, E[e].of = D[e].of, e # y, e # x
    PROVE  HeadRows(E, new, e) = HeadRows(D, rows, e)
<1> SUFFICES ASSUME NEW n PROVE n \in HeadRows(E, new, e) <=> n \in HeadRows(D, rows, e)
  OBVIOUS
<1>1. CASE n \in DOMAIN rows
  BY <1>1 DEF HeadRows, Posting, Prolongs
<1>2. CASE n \in DOMAIN new /\ n \notin DOMAIN rows
  BY <1>2 DEF HeadRows, Posting, Reversing, Fresh
<1>3. CASE n \notin DOMAIN new
  BY <1>3 DEF HeadRows, Posting, Prolongs
<1> QED BY <1>1, <1>2, <1>3

LEMMA HeadRowsOfNewHead ==
    ASSUME NEW E, NEW rows, NEW new, NEW w, NEW v, NEW R, NEW x, NEW y, NEW total,
           Posting(rows, new, w, v, R, x, y, total), E[x].of # NoDoc, x # y,
           \A n \in DOMAIN rows : rows[n].doc # x
    PROVE  HeadRows(E, new, x) = Reversing(rows, new)
<1> SUFFICES ASSUME NEW n PROVE n \in HeadRows(E, new, x) <=> n \in Reversing(rows, new)
  OBVIOUS
<1>1. CASE n \in DOMAIN rows
  BY <1>1 DEF HeadRows, Posting, Prolongs, Reversing
<1>2. CASE n \in DOMAIN new /\ n \notin DOMAIN rows
  BY <1>2 DEF HeadRows, Posting, Reversing, Fresh
<1>3. CASE n \notin DOMAIN new
  BY <1>3 DEF HeadRows, Reversing
<1> QED BY <1>1, <1>2, <1>3

LEMMA HeadRowsOfRoot ==
    ASSUME NEW D, NEW E, NEW rows, NEW new, NEW w, NEW v, NEW R, NEW x, NEW y, NEW total,
           Posting(rows, new, w, v, R, x, y, total), E[y].of = NoDoc,
           NEW old, old = {n \in DOMAIN rows : rows[n].doc = y /\ rows[n].reverses = 0}
    PROVE  HeadRows(E, new, y) = old \cup Fresh(rows, new)
<1> SUFFICES ASSUME NEW n
             PROVE  n \in HeadRows(E, new, y) <=> n \in old \cup Fresh(rows, new)
  OBVIOUS
<1>1. CASE n \in DOMAIN rows
  BY <1>1 DEF HeadRows, Posting, Prolongs, Fresh
<1>2. CASE n \in DOMAIN new /\ n \notin DOMAIN rows
  BY <1>2 DEF HeadRows, Posting, Reversing, Fresh
<1>3. CASE n \notin DOMAIN new
  BY <1>3 DEF HeadRows, Fresh, Posting, Prolongs
<1> QED BY <1>1, <1>2, <1>3

LEMMA SteppedEffects ==
    ASSUME NEW D, NEW E, NEW H, NEW K, NEW d, NEW h, NEW rows, NEW new, NEW w, NEW v,
           NEW R, NEW x, NEW y, NEW total, Stepped(D, E, H, K, d, h, rows, new, w, v, R, x, y, total)
    PROVE  /\ \A e : Adjusts(rows, new, w, v, e, e = d, e = y)
           /\ \A e : Effect(rows, w, e) \in Int /\ OwnedBy(rows, e) \in SUBSET DOMAIN rows
           /\ Worth(v, Fresh(rows, new)) = total /\ total \in Int
           /\ Worth(v, Reversing(rows, new)) \in Int
           /\ \A S \in SUBSET DOMAIN new : Weighs(v, S)
           /\ \A S \in SUBSET DOMAIN rows : /\ Weighs(w, S) /\ Weighs(v, S) /\ Worth(w, S) \in Int
                                            /\ Worth(v, S) = Worth(w, S)
           /\ PostedOwners(rows, new, d, y)
<1>1. /\ Numbered(rows) /\ Numbered(new) /\ Posting(rows, new, w, v, R, x, y, total)
      /\ AllOwned(R, rows, d)
  BY DEF Stepped, RowsGood
<1>2. /\ \A S \in SUBSET DOMAIN new : Weighs(v, S)
      /\ \A S \in SUBSET DOMAIN rows : Weighs(w, S) /\ Weighs(v, S) /\ Worth(v, S) = Worth(w, S)
  BY <1>1, RowsWeigh
<1>3. /\ Fresh(rows, new) \in SUBSET DOMAIN new /\ Reversing(rows, new) \in SUBSET DOMAIN new
      /\ \A e : OwnedBy(rows, e) \in SUBSET DOMAIN rows
  BY DEF Fresh, Reversing, OwnedBy
<1>4. \A S \in SUBSET DOMAIN rows : Worth(w, S) \in Int
  BY <1>2, WorthType
<1>5. \A e : Effect(rows, w, e) \in Int
  BY <1>3, <1>4 DEF Effect
<1>6. Worth(v, Fresh(rows, new)) \in Int /\ Worth(v, Reversing(rows, new)) \in Int
  BY <1>2, <1>3, WorthType
<1>7. Worth(v, Fresh(rows, new)) = total
  BY <1>1 DEF Posting
<1> QED BY <1>1, <1>2, <1>3, <1>4, <1>5, <1>6, <1>7, PostingEffects, PostingOwners

LEMMA Bystanders ==
    ASSUME NEW D, NEW E, NEW H, NEW K, NEW d, NEW h, NEW x, NEW y,
           HeadsGood(D, H), Change(D, E, H, K, d, h, x, y),
           NEW e, IsRoot(D, e), e # d \/ (d # y /\ h = NoDoc)
    PROVE  /\ K[e] = H[e] /\ H[e] # x /\ H[e] # y /\ H[e] \in DOMAIN D
           /\ E[H[e]].of = D[H[e]].of /\ e # y
<1>1. H[e] \in DOMAIN D /\ E[H[e]].of = D[H[e]].of /\ NoDoc \notin DOMAIN D
  BY DEF HeadsGood, Change, NoDoc
<1>2. H[e] # h
  BY <1>1 DEF Change, HeadsGood
<1>3. K[e] = H[e]
  BY <1>2 DEF Change, IsRoot
<1>4. e # y
  BY <1>1 DEF Change, IsRoot
<1>5. H[e] # y
  <2>1. ASSUME H[e] = y PROVE FALSE
    BY <1>1, <1>4, <2>1 DEF Change, HeadsGood
  <2> QED BY <2>1
<1>6. H[e] # x
  BY <1>1, <1>5 DEF Change
<1> QED BY <1>1, <1>3, <1>4, <1>5, <1>6

LEMMA SteppedFigures ==
    ASSUME NEW D, NEW E, NEW H, NEW K, NEW d, NEW h, NEW rows, NEW new, NEW w, NEW v,
           NEW R, NEW x, NEW y, NEW total, Stepped(D, E, H, K, d, h, rows, new, w, v, R, x, y, total)
    PROVE  Figures(D, E, H, K, rows, new, w, v, d, h, y, total)
<1>p. Posting(rows, new, w, v, R, x, y, total) /\ HeadsGood(D, H)
      /\ Change(D, E, H, K, d, h, x, y) /\ RowsGood(D, H, rows)
  BY DEF Stepped
<1>a. /\ \A e : Adjusts(rows, new, w, v, e, e = d, e = y)
      /\ \A e : Effect(rows, w, e) \in Int /\ OwnedBy(rows, e) \in SUBSET DOMAIN rows
      /\ Worth(v, Fresh(rows, new)) = total /\ total \in Int
      /\ Worth(v, Reversing(rows, new)) \in Int
  BY SteppedEffects
<1>w. /\ \A S \in SUBSET DOMAIN new : Weighs(v, S)
      /\ \A S \in SUBSET DOMAIN rows : /\ Weighs(w, S) /\ Weighs(v, S) /\ Worth(w, S) \in Int
                                       /\ Worth(v, S) = Worth(w, S)
  BY SteppedEffects
<1>0. NoDoc \notin DOMAIN D /\ \A a : HeadRows(D, rows, a) \in SUBSET DOMAIN rows
  BY <1>p DEF HeadsGood, NoDoc, HeadRows
<1>1. ASSUME NEW e, IsRoot(D, e), e # d \/ (d # y /\ h = NoDoc)
      PROVE  Carried(E, K, new, v, e) = Carried(D, H, rows, w, e) /\ e # y
  BY <1>p, <1>1, <1>0, <1>w, Bystanders, HeadRowsOfOthers DEF Carried
<1>2. ASSUME NEW e, IsRoot(D, e), e # d PROVE Same(D, E, H, K, rows, new, w, v, e)
  BY <1>a, <1>1, <1>2 DEF Adjusts, Same
<1>3. ASSUME IsRoot(D, d), d # y PROVE TurnedBy(D, E, H, K, rows, new, w, v, d, h # NoDoc)
  <2>1. Effect(new, v, d) = Effect(rows, w, d) + Worth(v, Reversing(rows, new))
    BY <1>a, <1>3 DEF Adjusts
  <2>2. CASE h = NoDoc
    BY <1>1, <1>3, <2>1, <2>2 DEF TurnedBy
  <2>3. CASE h # NoDoc
    <3>1. K[d] = x /\ E[x].of # NoDoc /\ x # y /\ x \notin DOMAIN D /\ x \in DOMAIN E
      BY <1>3, <1>p, <2>3 DEF Change, IsRoot
    <3>2. \A n \in DOMAIN rows : rows[n].doc # x
      BY <1>p, <3>1 DEF Change, NoDoc, RowsGood, HeadsGood
    <3>3. HeadRows(E, new, x) = Reversing(rows, new)
      BY <1>p, <3>1, <3>2, HeadRowsOfNewHead
    <3> QED BY <2>1, <2>3, <3>1, <3>3 DEF TurnedBy, Carried
  <2> QED BY <2>2, <2>3
<1>4. PICK old : old = {n \in DOMAIN rows : rows[n].doc = y /\ rows[n].reverses = 0}
  OBVIOUS
<1>5. ASSUME y # NoDoc
      PROVE  HeadRows(E, new, y) = old \cup Fresh(rows, new)
             /\ Worth(v, HeadRows(E, new, y)) = Worth(w, old) + total
  <2>1. E[y].of = NoDoc
    BY <1>p, <1>5 DEF Change, IsRoot
  <2>2. HeadRows(E, new, y) = old \cup Fresh(rows, new)
    BY <1>p, <1>4, <2>1, HeadRowsOfRoot
  <2>3. old \in SUBSET DOMAIN rows /\ Fresh(rows, new) \in SUBSET DOMAIN new
        /\ old \cap Fresh(rows, new) = {}
    BY <1>4 DEF Fresh
  <2>4. Worth(v, old \cup Fresh(rows, new)) = Worth(v, old) + Worth(v, Fresh(rows, new))
    BY <1>w, <2>3, WorthOfParts
  <2> QED BY <1>a, <1>w, <2>2, <2>3, <2>4
<1>6. ASSUME y # NoDoc, y \notin DOMAIN D PROVE AddedWith(E, K, new, v, y, total)
  <2>1. y # d /\ K[y] = y /\ y \in DOMAIN E
    BY <1>p, <1>6 DEF Change, IsRoot
  <2>2. \A n \in DOMAIN rows : rows[n].doc # y /\ Owners(rows)[n] # y
    BY <1>p, <1>6 DEF RowsGood, HeadsGood, NoDoc
  <2>3. old = {} /\ OwnedBy(rows, y) = {}
    BY <1>4, <2>2 DEF OwnedBy
  <2>4. Worth(w, old) = 0 /\ Effect(rows, w, y) = 0
    BY <2>3, WorthNothing DEF Effect
  <2>5. Effect(new, v, y) = total
    BY <1>a, <2>1, <2>4 DEF Adjusts
  <2>6. Carried(E, K, new, v, y) = total
    BY <1>5, <1>6, <1>a, <2>1, <2>4 DEF Carried
  <2> QED BY <2>5, <2>6 DEF AddedWith
<1>7. ASSUME IsRoot(D, y), y = d, Worth(v, Reversing(rows, new)) = 0
      PROVE  RaisedBy(D, E, H, K, rows, new, w, v, y, total)
  <2>0. y # NoDoc /\ y \in DOMAIN D
    BY <1>0, <1>7 DEF IsRoot
  <2>1. H[y] = y /\ h = NoDoc /\ K[y] = y /\ D[y].of = NoDoc
    BY <1>p, <1>7, <2>0 DEF Change, IsRoot
  <2>2. HeadRows(D, rows, y) = old
    BY <1>4, <2>1 DEF HeadRows
  <2>3. Effect(new, v, y) = Effect(rows, w, y) + total
    BY <1>a, <1>7 DEF Adjusts
  <2>4. Carried(E, K, new, v, y) = Carried(D, H, rows, w, y) + total
    BY <1>5, <2>0, <2>1, <2>2 DEF Carried
  <2> QED BY <2>3, <2>4 DEF RaisedBy
<1> QED BY <1>2, <1>3, <1>6, <1>7 DEF Figures

\* The roots after a step: y is the only one that may be new.
LEMMA RootsAfter ==
    ASSUME NEW D, NEW E, NEW H, NEW K, NEW d, NEW h, NEW x, NEW y,
           HeadsGood(D, H), Change(D, E, H, K, d, h, x, y), NEW e, IsRoot(E, e)
    PROVE  /\ e \in DOMAIN D => IsRoot(D, e) /\ (e # d => E[e] = D[e])
           /\ e \notin DOMAIN D => e = y /\ y # NoDoc /\ K[e] = e
           /\ NoDoc \notin DOMAIN D /\ NoDoc \notin DOMAIN E
  BY DEF HeadsGood, Change, IsRoot, NoDoc

LEMMA SettledKept ==
    ASSUME NEW D, NEW E, NEW H, NEW K, NEW d, NEW h, NEW rows, NEW new, NEW w, NEW v,
           NEW R, NEW x, NEW y, NEW total, Stepped(D, E, H, K, d, h, rows, new, w, v, R, x, y, total),
           Settled(D, H, rows, w), Turns(D, E, H, d, h, rows, w, R, y), Starts(E, y, total)
    PROVE  Settled(E, K, new, v)
<1> SUFFICES ASSUME NEW e, IsRoot(E, e)
             PROVE  /\ E[e].status = "received" => Effect(new, v, e) = Carried(E, K, new, v, e)
                    /\ E[e].status # "received" => Effect(new, v, e) = 0
                    /\ E[e].status = "prepared" => Carried(E, K, new, v, e) = 0
  BY DEF Settled
<1>1. /\ Figures(D, E, H, K, rows, new, w, v, d, h, y, total)
      /\ HeadsGood(D, H) /\ Change(D, E, H, K, d, h, x, y)
      /\ Posting(rows, new, w, v, R, x, y, total)
  BY SteppedFigures DEF Stepped
<1>2. /\ e \in DOMAIN D => IsRoot(D, e) /\ (e # d => E[e] = D[e])
      /\ e \notin DOMAIN D => e = y /\ y # NoDoc
      /\ NoDoc \notin DOMAIN D
  BY <1>1, RootsAfter
<1>3. CASE e \notin DOMAIN D
  BY <1>1, <1>2, <1>3 DEF Figures, AddedWith, Starts
<1>4. CASE e \in DOMAIN D /\ e # d
  BY <1>1, <1>2, <1>4 DEF Figures, Same, Settled
<1>5. CASE e \in DOMAIN D /\ e = d
  <2>1. d # NoDoc /\ IsRoot(D, d)
    BY <1>2, <1>5
  <2>2. PICK r : r = Worth(v, Reversing(rows, new)) /\ r \in Int /\ r + Worth(w, R) = 0
    BY <1>1, SteppedEffects DEF Posting
  <2>3. Effect(rows, w, d) \in Int /\ total \in Int
    BY SteppedEffects
  <2>4. R = HeadRows(D, rows, H[d]) => Worth(w, R) = Carried(D, H, rows, w, d)
    BY DEF Carried
  <2>5. R = {} => r = 0
    BY <2>2, WorthNothing
  <2>6. CASE d # y
    <3>1. TurnedBy(D, E, H, K, rows, new, w, v, d, h # NoDoc)
      BY <1>1, <2>1, <2>6 DEF Figures
    <3>2. /\ Effect(new, v, d) = Effect(rows, w, d) + r
          /\ Carried(E, K, new, v, d) = IF h # NoDoc THEN r ELSE Carried(D, H, rows, w, d)
      BY <2>2, <3>1 DEF TurnedBy
    <3>3. CASE D[d].status = "received"
      <4>1. Effect(rows, w, d) = Carried(D, H, rows, w, d) /\ E[d].status = "reversed"
        BY <2>1, <2>6, <3>3 DEF Settled, Turns
      <4>2. Effect(rows, w, d) + r = 0
        BY <2>1, <2>2, <2>3, <2>4, <2>5, <2>6, <3>3, <4>1 DEF Turns
      <4> QED BY <1>5, <3>2, <4>1, <4>2
    <3>4. CASE D[d].status # "received"
      BY <1>5, <2>1, <2>2, <2>6, <3>2, <3>4 DEF Settled, Turns
    <3> QED BY <3>3, <3>4
  <2>7. CASE d = y
    BY <1>1, <1>5, <2>1, <2>2, <2>5, <2>7 DEF Turns, Figures, Settled, RaisedBy
  <2> QED BY <2>6, <2>7
<1> QED BY <1>3, <1>4, <1>5

LEMMA ExactKept ==
    ASSUME NEW D, NEW E, NEW H, NEW K, NEW d, NEW h, NEW rows, NEW new, NEW w, NEW v,
           NEW R, NEW x, NEW y, NEW total, Stepped(D, E, H, K, d, h, rows, new, w, v, R, x, y, total),
           Settled(D, H, rows, w), Turns(D, E, H, d, h, rows, w, R, y), Starts(E, y, total),
           NEW t, NEW u, Exact(D, H, rows, w, t), Says(D, E, y, t, u, total)
    PROVE  Exact(E, K, new, v, u)
<1> SUFFICES ASSUME NEW e, IsRoot(E, e)
             PROVE  /\ E[e].status = "received" => Carried(E, K, new, v, e) = u[e]
                    /\ E[e].status = "reversed" /\ ~E[e].corrected
                          => Carried(E, K, new, v, e) + u[e] = 0
  BY DEF Exact
<1>1. /\ Figures(D, E, H, K, rows, new, w, v, d, h, y, total)
      /\ HeadsGood(D, H) /\ Change(D, E, H, K, d, h, x, y)
      /\ Posting(rows, new, w, v, R, x, y, total)
  BY SteppedFigures DEF Stepped
<1>2. /\ e \in DOMAIN D => IsRoot(D, e) /\ (e # d => E[e] = D[e])
      /\ e \notin DOMAIN D => e = y /\ y # NoDoc
      /\ NoDoc \notin DOMAIN D
  BY <1>1, RootsAfter
<1>3. CASE e \notin DOMAIN D
  BY <1>1, <1>2, <1>3 DEF Figures, AddedWith, Starts, Says
<1>4. CASE e \in DOMAIN D /\ e # d
  BY <1>1, <1>2, <1>4 DEF Figures, Change, IsRoot, Same, Exact, Says
<1>5. CASE e \in DOMAIN D /\ e = d
  <2>1. d # NoDoc /\ IsRoot(D, d) /\ d \in DOMAIN D
    BY <1>2, <1>5
  <2>2. PICK r : r = Worth(v, Reversing(rows, new)) /\ r \in Int /\ r + Worth(w, R) = 0
    BY <1>1, SteppedEffects DEF Posting
  <2>3. total \in Int
    BY SteppedEffects
  <2>4. R = HeadRows(D, rows, H[d]) => Worth(w, R) = Carried(D, H, rows, w, d)
    BY DEF Carried
  <2>5. R = {} => r = 0
    BY <2>2, WorthNothing
  <2>6. CASE d # y
    <3>1. TurnedBy(D, E, H, K, rows, new, w, v, d, h # NoDoc)
      BY <1>1, <2>1, <2>6 DEF Figures
    <3>2. h # NoDoc => Carried(E, K, new, v, d) = r
      BY <2>2, <3>1 DEF TurnedBy
    <3>3. u[d] = t[d] /\ t[d] \in Int
      BY <2>1, <2>6 DEF Says
    <3>4. HeadRows(D, rows, H[d]) \in SUBSET DOMAIN rows
      BY DEF HeadRows
    <3>5. Carried(D, H, rows, w, d) \in Int
      BY <3>4, SteppedEffects DEF Carried
    <3>6. CASE D[d].status = "received"
      BY <1>5, <2>1, <2>2, <2>4, <2>6, <3>2, <3>3, <3>6 DEF Exact, Turns
    <3>7. CASE D[d].status # "received"
      <4>1. /\ D[d].status = "reversed" /\ ~D[d].corrected /\ E[d].status = "received"
            /\ R = HeadRows(D, rows, H[d]) /\ h # NoDoc
        BY <2>1, <2>6, <3>7 DEF Turns
      <4>2. Carried(D, H, rows, w, d) + t[d] = 0
        BY <2>1, <4>1 DEF Exact
      <4>3. t[d] = r
        BY <2>2, <2>4, <3>3, <3>5, <4>1, <4>2
      <4> QED BY <1>5, <3>2, <3>3, <4>1, <4>3
    <3> QED BY <3>6, <3>7
  <2>7. CASE d = y
    <3>1. D[d].status = "prepared" /\ E[d].status = "received" /\ R = {}
      BY <2>1, <2>7 DEF Turns
    <3>2. RaisedBy(D, E, H, K, rows, new, w, v, y, total)
      BY <1>1, <2>1, <2>2, <2>5, <2>7, <3>1 DEF Figures
    <3>3. Carried(D, H, rows, w, d) = 0
      BY <2>1, <3>1 DEF Settled
    <3>4. Carried(E, K, new, v, d) = total
      BY <2>3, <2>7, <3>2, <3>3 DEF RaisedBy
    <3> QED BY <1>5, <2>1, <2>7, <3>1, <3>4 DEF Says
  <2> QED BY <2>6, <2>7
<1> QED BY <1>3, <1>4, <1>5

LEMMA HeadsKept ==
    ASSUME NEW D, NEW E, NEW H, NEW K, NEW d, NEW h, NEW x, NEW y,
           HeadsGood(D, H), Change(D, E, H, K, d, h, x, y), Sound(D, E, d, y)
    PROVE  HeadsGood(E, K)
<1>1. ASSUME NEW e, IsRoot(E, e), e \in DOMAIN D
      PROVE  /\ IsRoot(D, e) /\ H[e] \in DOMAIN D /\ (e # d => E[e] = D[e])
             /\ \/ K[e] = H[e] /\ H[e] # h
                \/ K[e] = x /\ h # NoDoc /\ e = d /\ x \notin DOMAIN D
  <2>1. IsRoot(D, e) /\ (e # d => E[e] = D[e]) /\ NoDoc \notin DOMAIN D
    BY <1>1, RootsAfter
  <2>2. H[e] \in DOMAIN D /\ K[e] = IF H[e] = h THEN x ELSE H[e]
    BY <2>1 DEF HeadsGood, Change, IsRoot
  <2>3. H[e] = h => h # NoDoc /\ e = d /\ x \notin DOMAIN D
    BY <2>1, <2>2 DEF HeadsGood, Change
  <2> QED BY <2>1, <2>2, <2>3
<1>2. ASSUME NEW e, IsRoot(E, e), e \notin DOMAIN D
      PROVE  e = y /\ y # NoDoc /\ K[e] = e /\ y # d
  <2>1. e = y /\ y # NoDoc /\ K[e] = e
    BY <1>2, RootsAfter
  <2>2. y # d
    BY <1>2, <2>1 DEF Change, IsRoot
  <2> QED BY <2>1, <2>2
<1>3. ASSUME NEW e, IsRoot(E, e), e \in DOMAIN D
      PROVE  /\ K[e] \in DOMAIN E
             /\ K[e] = e \/ E[K[e]].of # NoDoc
             /\ E[e].status = "prepared" => K[e] = e
             /\ E[e].type # "purchase" => E[e].method = "none"
  <2>1. /\ IsRoot(D, e) /\ H[e] \in DOMAIN D /\ (e # d => E[e] = D[e])
        /\ \/ K[e] = H[e] /\ H[e] # h
           \/ K[e] = x /\ h # NoDoc /\ e = d /\ x \notin DOMAIN D
    BY <1>1, <1>3
  <2>2. /\ K[e] \in DOMAIN E
        /\ K[e] = e \/ E[K[e]].of # NoDoc
    BY <2>1 DEF HeadsGood, Change
  <2>3. d # NoDoc \/ e # d
    BY <1>3, RootsAfter
  <2>4. E[e].status = "prepared" => K[e] = e
    BY <2>1, <2>3 DEF HeadsGood, Sound
  <2>5. E[e].type # "purchase" => E[e].method = "none"
    BY <2>1, <2>3 DEF HeadsGood, Sound
  <2> QED BY <2>2, <2>4, <2>5
<1>4. ASSUME NEW e, IsRoot(E, e), e \notin DOMAIN D
      PROVE  /\ K[e] \in DOMAIN E /\ K[e] = e
             /\ E[e].type # "purchase" => E[e].method = "none"
  BY <1>2, <1>4 DEF Sound, IsRoot
<1>5. ASSUME NEW e, NEW f, IsRoot(E, e), IsRoot(E, f), K[f] = K[e] PROVE f = e
  <2>1. CASE e \in DOMAIN D /\ f \in DOMAIN D
    BY <1>1, <1>5, <2>1 DEF HeadsGood
  <2>2. CASE e \notin DOMAIN D /\ f \notin DOMAIN D
    BY <1>2, <1>5, <2>2
  <2>3. ASSUME NEW a, NEW b, IsRoot(E, a), IsRoot(E, b), K[a] = K[b], a \in DOMAIN D, b \notin DOMAIN D
        PROVE  FALSE
    BY <1>1, <1>2, <2>3 DEF Change
  <2> QED BY <1>5, <2>1, <2>2, <2>3
<1> QED BY <1>3, <1>4, <1>5 DEF HeadsGood, Change

LEMMA RowsKept ==
    ASSUME NEW D, NEW E, NEW H, NEW K, NEW d, NEW h, NEW rows, NEW new, NEW w, NEW v,
           NEW R, NEW x, NEW y, NEW total, Stepped(D, E, H, K, d, h, rows, new, w, v, R, x, y, total)
    PROVE  RowsGood(E, K, new)
<1>1. /\ HeadsGood(D, H) /\ RowsGood(D, H, rows) /\ Change(D, E, H, K, d, h, x, y)
      /\ Numbered(new) /\ Posting(rows, new, w, v, R, x, y, total)
      /\ PostedOwners(rows, new, d, y) /\ OwnersFollow(new)
  BY SteppedEffects, OwnersUnfold DEF Stepped
<1>2. /\ Len(D) \in Nat /\ Len(E) \in Nat /\ 0 .. Len(D) \subseteq 0 .. Len(E)
      /\ d \in 0 .. Len(E) /\ x \in 0 .. Len(E) /\ y \in 0 .. Len(E)
  BY <1>1 DEF HeadsGood, Change, IsRoot, NoDoc
<1>3. ASSUME NEW n \in DOMAIN new
      PROVE  new[n].doc \in 0 .. Len(E) /\ Owners(new)[n] \in 0 .. Len(E)
  <2>1. CASE n \in DOMAIN rows
    BY <1>1, <1>2, <2>1 DEF RowsGood, PostedOwners, Posting, Prolongs
  <2>2. CASE n \in Reversing(rows, new)
    BY <1>1, <1>2, <2>2 DEF PostedOwners, Posting
  <2>3. CASE n \in Fresh(rows, new)
    BY <1>1, <1>2, <2>3 DEF PostedOwners, Posting
  <2> QED BY <2>1, <2>2, <2>3 DEF Reversing, Fresh
<1>4. ASSUME NEW e, IsRoot(E, e) PROVE AllOwned(HeadRows(E, new, K[e]), new, e)
  <2>1. CASE K[e] = e
    BY <1>1, <1>4, <2>1 DEF AllOwned, HeadRows, OwnersFollow, IsRoot
  <2>2. CASE K[e] # e
    <3>1. IsRoot(D, e) /\ e \in DOMAIN D /\ NoDoc \notin DOMAIN D
      BY <1>1, <1>4, <2>2, RootsAfter
    <3>2. CASE e # d \/ (d # y /\ h = NoDoc)
      <4>1. /\ K[e] = H[e] /\ H[e] # x /\ H[e] # y /\ E[H[e]].of = D[H[e]].of
        BY <1>1, <3>1, <3>2, Bystanders
      <4>2. HeadRows(E, new, K[e]) = HeadRows(D, rows, H[e])
        BY <1>1, <4>1, HeadRowsOfOthers
      <4>3. AllOwned(HeadRows(D, rows, H[e]), rows, e)
        BY <1>1, <3>1 DEF RowsGood
      <4> QED BY <1>1, <4>2, <4>3 DEF AllOwned, PostedOwners, HeadRows
    <3>3. CASE e = d /\ d = y
      BY <1>1, <2>2, <3>1, <3>3 DEF Change, IsRoot
    <3>4. CASE e = d /\ d # y /\ h # NoDoc
      BY <1>1, <3>1, <3>4, HeadRowsOfNewHead DEF Change, RowsGood, HeadsGood, NoDoc, AllOwned,
         PostedOwners
    <3> QED BY <3>2, <3>3, <3>4
  <2> QED BY <2>1, <2>2
<1> QED BY <1>1, <1>3, <1>4 DEF RowsGood

--------------------
\* A posting row by row: which entry of a list each new row is for.

LEMMA PostingAdded ==
    ASSUME NEW rows, NEW new, NEW ms, NEW n, NEW src, NEW main, NEW R, NEW x, NEW y, NEW w, NEW v,
           Numbered(rows), R \in SUBSET DOMAIN rows, Added(rows, new, ms, n, src, main),
           Backs(ms, n, R, x, y), Once(ms, n), Weighed(rows, new, w, v)
    PROVE  Posting(rows, new, w, v, R, x, y, Worth(v, Fresh(rows, new)))
<1> DEFINE entry(m) == CHOOSE k \in 1 .. n : ms[k].reverses = m
           place == [m \in R |-> main[entry(m)]]
<1>0. IsFiniteSet(R) /\ 0 \notin R
  <2>1. IsFiniteSet(1 .. Len(rows))
    BY FS_Interval DEF Numbered
  <2> QED BY <2>1, FS_Subset DEF Numbered
<1>1. ASSUME NEW m \in R
      PROVE  /\ place[m] \in Reversing(rows, new) /\ new[place[m]].reverses = m
  <2>1. \E k \in 1 .. n : ms[k].reverses = m
    BY DEF Backs
  <2>2. PICK k \in 1 .. n : k = entry(m) /\ ms[k].reverses = m
    BY <2>1
  <2>3. place[m] = main[k] /\ m # 0
    BY <1>0, <2>2
  <2> HIDE DEF place, entry
  <2> QED BY <2>2, <2>3 DEF Added, Reversing
<1>2. ASSUME NEW p \in Reversing(rows, new)
      PROVE  new[p].reverses \in R /\ new[p].doc = x /\ p = place[new[p].reverses]
  <2>1. PICK k \in 1 .. n : /\ k = src[p] /\ p = main[k] /\ new[p].doc = ms[k].doc
                            /\ new[p].reverses = ms[k].reverses /\ ms[k].reverses # 0
    BY DEF Added, Reversing
  <2>2. PICK m \in R : m = ms[k].reverses
    BY <2>1 DEF Backs
  <2>3. PICK j \in 1 .. n : j = entry(m) /\ ms[j].reverses = m
    BY <2>2
  <2>4. j = k
    BY <2>1, <2>2, <2>3 DEF Once
  <2>5. place[m] = main[j]
    BY <2>3
  <2> HIDE DEF place, entry
  <2> QED BY <2>1, <2>2, <2>4, <2>5 DEF Backs
<1> HIDE DEF place
<1>3. Places(place, R) = Reversing(rows, new)
  BY <1>1, <1>2 DEF Places
<1>4. Opposed(w, v, R, place)
  <2>1. ASSUME NEW m \in R PROVE v[place[m]] \in Int /\ v[place[m]] + w[m] = 0
    BY <1>1 DEF Weighed, Reversing
  <2>2. ASSUME NEW m \in R, NEW k \in R, place[m] = place[k] PROVE m = k
    BY <1>1, <2>2
  <2> QED BY <2>1, <2>2 DEF Opposed
<1>5. Weighs(w, R)
  BY <1>0 DEF Weighs, Weighed
<1>6. Worth(v, Reversing(rows, new)) + Worth(w, R) = 0
  BY <1>3, <1>4, <1>5, WorthMoved
<1>7. ASSUME NEW p \in Fresh(rows, new) PROVE new[p].doc = y
  BY DEF Fresh, Added, Backs
<1> QED BY <1>2, <1>6, <1>7 DEF Posting, Weighed, Added

LEMMA NumberedAdded ==
    ASSUME NEW rows, NEW new, NEW ms, NEW n, NEW src, NEW main, NEW R, NEW x, NEW y,
           Numbered(rows), R \in SUBSET DOMAIN rows, Added(rows, new, ms, n, src, main),
           Backs(ms, n, R, x, y), DOMAIN new = 1 .. Len(new), Len(new) \in Nat
    PROVE  Numbered(new)
<1> SUFFICES ASSUME NEW p \in DOMAIN new
             PROVE  new[p].reverses \in Nat /\ new[p].reverses < p
  BY DEF Numbered
<1>1. CASE p \in DOMAIN rows
  BY <1>1 DEF Numbered, Added, Prolongs
<1>2. CASE p \notin DOMAIN rows
  <2>1. PICK m : m = new[p].reverses /\ (m = 0 \/ m \in DOMAIN rows)
    BY <1>2 DEF Added, Backs
  <2>2. p > Len(rows) /\ Len(rows) \in Nat
    BY <1>2 DEF Numbered
  <2> QED BY <2>1, <2>2 DEF Numbered
<1> QED BY <1>1, <1>2

LEMMA FollowLast ==
    ASSUME NEW more, NEW b, NEW m, RowsFollow(more, b, m) PROVE LastAdds(more, m)
<1>1. CASE NoRow(more, b, m)
  BY <1>1 DEF NoRow, LastAdds
<1>2. CASE OneRow(more, b, m)
  <2>1. PICK row : more = <<row>> /\ Continues(row, b, m) /\ Adds(row, m)
    BY <1>2 DEF OneRow
  <2>2. Len(more) = 1 /\ more[1] = row
    BY <2>1
  <2> QED BY <2>1, <2>2 DEF LastAdds, FromMove, Continues
<1>3. CASE TwoRows(more, b, m)
  <2>1. PICK row, first : /\ more[1] = first /\ more[2] = row /\ Len(more) = 2
                          /\ Continues(first, b, m) /\ first.qty = 0 /\ m.kind = "receipt"
                          /\ Continues(row, first.after, m) /\ Adds(row, m)
    BY <1>3 DEF TwoRows
  <2>2. \A j \in 1 .. 2 : j = 1 \/ j = 2
    OBVIOUS
  <2> QED BY <2>1, <2>2 DEF LastAdds, FromMove, Aside, Continues
<1> QED BY <1>1, <1>2, <1>3 DEF RowsFollow

LEMMA TracedStep ==
    ASSUME NEW rows, NEW t, NEW u, NEW more, Joins(t, more, u), NEW ms, NEW k \in Nat,
           NEW j \in Nat, j = k + 1, NEW src, NEW main, Traced(rows, t, ms, k, src, main),
           LastAdds(more, ms[j])
    PROVE  \E f, g : Traced(rows, u, ms, j, f, g)
<1> DEFINE f == [p \in DOMAIN u |-> IF p \in DOMAIN t THEN src[p] ELSE j]
           g == [i \in 1 .. j |-> IF i = j THEN Len(u) ELSE main[i]]
<1>1. PICK a \in Nat, b \in Nat :
          /\ a = Len(t) /\ b = Len(more) /\ Len(u) = a + b
          /\ DOMAIN t = 1 .. a /\ DOMAIN u = 1 .. a + b
          /\ \A p \in 1 .. a : u[p] = t[p]
          /\ \A i \in 1 .. b : u[a + i] = more[i]
  <2>1. /\ Len(t) \in Nat /\ Len(more) \in Nat /\ Len(u) = Len(t) + Len(more)
        /\ DOMAIN t = 1 .. Len(t) /\ DOMAIN u = 1 .. Len(u)
    BY DEF Joins
  <2> QED BY <2>1 DEF Joins
<1>2. Prolongs(rows, t) /\ Prolongs(rows, u)
  BY <1>1 DEF Traced, Prolongs
<1>3. ASSUME NEW p \in DOMAIN u, p \notin DOMAIN rows
      PROVE  /\ f[p] \in 1 .. j /\ FromMove(u[p], ms[f[p]])
             /\ p = g[f[p]] \/ Aside(u[p], ms[f[p]])
  <2>1. CASE p \in DOMAIN t
    <3>1. /\ src[p] \in 1 .. k /\ FromMove(t[p], ms[src[p]])
          /\ p = main[src[p]] \/ Aside(t[p], ms[src[p]])
      BY <1>3, <2>1 DEF Traced
    <3>2. f[p] = src[p] /\ g[src[p]] = main[src[p]] /\ src[p] \in 1 .. j /\ u[p] = t[p]
      BY <1>1, <2>1, <3>1
    <3> HIDE DEF f, g
    <3> QED BY <3>1, <3>2
  <2>2. CASE p \notin DOMAIN t
    <3>1. f[p] = j /\ g[j] = a + b
      BY <1>1, <2>2
    <3>2. PICK i \in 1 .. b : p = a + i
      <4>1. p - a \in 1 .. b /\ p = a + (p - a)
        BY <1>1, <2>2
      <4> QED BY <4>1
    <3>3. u[p] = more[i] /\ (i = b => p = a + b)
      BY <1>1, <3>2
    <3>4. FromMove(more[i], ms[j]) /\ (i = b \/ Aside(more[i], ms[j]))
      BY <1>1 DEF LastAdds
    <3> HIDE DEF f, g
    <3> QED BY <3>1, <3>3, <3>4
  <2> QED BY <2>1, <2>2
<1>4. ASSUME NEW i \in 1 .. j, ms[i].kind # "stocktake"
      PROVE  /\ g[i] \in DOMAIN u /\ g[i] \notin DOMAIN rows /\ f[g[i]] = i
             /\ Adds(u[g[i]], ms[i])
  <2>1. CASE i = j
    <3>1. b # 0 /\ Adds(more[b], ms[j])
      BY <1>1, <1>4, <2>1 DEF LastAdds
    <3>2. g[i] = a + b /\ a + b \in DOMAIN u /\ a + b \notin DOMAIN t /\ u[a + b] = more[b]
      BY <1>1, <2>1, <3>1
    <3>3. a + b \notin DOMAIN rows /\ f[a + b] = j
      BY <1>2, <3>2 DEF Prolongs
    <3> HIDE DEF f, g
    <3> QED BY <2>1, <3>1, <3>2, <3>3
  <2>2. CASE i # j
    <3>1. i \in 1 .. k
      BY <2>2
    <3>2. /\ main[i] \in DOMAIN t /\ main[i] \notin DOMAIN rows /\ src[main[i]] = i
          /\ Adds(t[main[i]], ms[i])
      BY <1>4, <3>1 DEF Traced
    <3>3. g[i] = main[i] /\ main[i] \in DOMAIN u /\ f[main[i]] = i /\ u[main[i]] = t[main[i]]
      BY <1>1, <2>2, <3>2
    <3> HIDE DEF f, g
    <3> QED BY <3>2, <3>3
  <2> QED BY <2>1, <2>2
<1> HIDE DEF f, g
<1>5. Traced(rows, u, ms, j, f, g)
  BY <1>2, <1>3, <1>4 DEF Traced
<1> QED BY <1>5

LEMMA PostTraced ==
    ASSUME LedgersTypeOK, NEW ms, NEW n, MoveList(ms, n), NEW seen \in [Items -> Balances]
    PROVE  \E src, main : Traced(stock, stock \o Posted(ms, seen), ms, n, src, main)
<1>0. n \in Nat /\ DOMAIN ms = 1 .. n /\ stock \in Seq(StockRows)
  BY DEF MoveList, LedgersTypeOK
<1>1. PICK acc : StockRun(acc, ms, seen, n) /\ Posted(ms, seen) = acc[n].rows
  BY <1>0, Runs
<1> DEFINE Right(k) == \E src, main : Traced(stock, stock \o acc[k].rows, ms, k, src, main)
           C == {k \in 0 .. n : ~Right(k)}
<1>2. SUFFICES ASSUME C # {} PROVE FALSE
  BY <1>0, <1>1
<1>3. PICK k \in C : \A j \in C : k <= j
  <2>1. C \in SUBSET Nat
    BY <1>0
  <2> HIDE DEF C
  <2> QED BY <1>2, <2>1, Sums!SmallestNumber
<1>4. k # 0
  <2>1. acc[0] = [rows |-> <<>>, balance |-> seen] /\ stock \o <<>> = stock
    BY <1>0, <1>1 DEF StockRun
  <2>2. Traced(stock, stock, ms, 0, <<>>, <<>>)
    BY DEF Traced, Prolongs
  <2>3. stock \o acc[0].rows = stock
    BY <2>1
  <2>4. Right(0)
    BY <2>2, <2>3
  <2> HIDE DEF Right
  <2> QED BY <2>4
<1>5. PICK j \in 0 .. n : j = k - 1 /\ k \in 1 .. n /\ j < k /\ k = j + 1
  BY <1>0, <1>4
<1>6. Right(j)
  BY <1>3, <1>5
<1>7. acc[k] = StockStep(acc[j], ms[k]) /\ IsMove(ms[k]) /\ Typed(acc[j])
  BY <1>0, <1>1, <1>5, RunTyped DEF StockRun, MoveList
<1>8. PICK more : Adding(more, acc[j], acc[k], ms[k])
  BY <1>0, <1>7, StepAdds
<1>9. PICK t, u : t = stock \o acc[j].rows /\ u = stock \o acc[k].rows
  OBVIOUS
<1>10. Joins(t, more, u) /\ LastAdds(more, ms[k])
  BY <1>0, <1>7, <1>8, <1>9, JoinsTwice, FollowLast DEF Adding, Typed
<1>11. PICK src, main : Traced(stock, t, ms, j, src, main)
  BY <1>6, <1>9
<1>12. \E f, g : Traced(stock, u, ms, k, f, g)
  BY <1>0, <1>5, <1>10, <1>11, TracedStep
<1> QED BY <1>9, <1>12

LEMMA StockWeighed ==
    ASSUME stock \in Seq(StockRows), NEW new \in Seq(StockRows), NEW ms, NEW n, MoveList(ms, n),
           InPlace(ms, n), NEW src, NEW main, Traced(stock, new, ms, n, src, main), NEW i
    PROVE  /\ Weighed(stock, new, QtyIn(stock, i), QtyIn(new, i))
           /\ Weighed(stock, new, ValueIn(stock, i), ValueIn(new, i))
<1>1. ASSUME NEW t \in Seq(StockRows), NEW p \in DOMAIN t
      PROVE  t[p].qty \in Int /\ t[p].value \in Int
  <2>1. t[p] \in StockRows
    BY Sums!ElementOf
  <2> QED BY <2>1 DEF StockRows
<1>2. ASSUME NEW p \in Reversing(stock, new)
      PROVE  \E m \in DOMAIN stock :
                /\ m = new[p].reverses /\ new[p].item = stock[m].item
                /\ new[p].qty = -stock[m].qty /\ new[p].value = -stock[m].value
  <2>1. PICK k \in 1 .. n : /\ FromMove(new[p], ms[k]) /\ k = src[p]
                            /\ p = main[k] \/ Aside(new[p], ms[k])
    BY DEF Traced, Reversing
  <2>2. ms[k].reverses = new[p].reverses /\ ms[k].reverses # 0 /\ ms[k].item = new[p].item
    BY <2>1 DEF FromMove, Reversing
  <2>3. ms[k].kind = "reversal" /\ ms[k].reverses \in DOMAIN stock
    BY <2>2 DEF MoveList, IsMove
  <2>4. p = main[k] /\ Adds(new[main[k]], ms[k])
    BY <2>1, <2>3 DEF Aside, Traced
  <2>5. new[p].qty = -stock[ms[k].reverses].qty /\ new[p].value = -stock[ms[k].reverses].value
    BY <2>3, <2>4 DEF Adds
  <2> QED BY <2>2, <2>3, <2>5 DEF InPlace
<1>3. ASSUME NEW p \in Reversing(stock, new)
      PROVE  /\ QtyIn(new, i)[p] + QtyIn(stock, i)[new[p].reverses] = 0
             /\ ValueIn(new, i)[p] + ValueIn(stock, i)[new[p].reverses] = 0
  <2>1. PICK m \in DOMAIN stock :
                /\ m = new[p].reverses /\ new[p].item = stock[m].item
                /\ new[p].qty = -stock[m].qty /\ new[p].value = -stock[m].value
    BY <1>2
  <2>2. p \in DOMAIN new /\ stock[m].qty \in Int /\ stock[m].value \in Int
    BY <1>1 DEF Reversing
  <2>3. PICK q \in Int, z \in Int : q = stock[m].qty /\ z = stock[m].value
    BY <2>2
  <2>4. /\ QtyIn(new, i)[p] = (IF stock[m].item = i THEN -q ELSE 0)
        /\ QtyIn(stock, i)[m] = (IF stock[m].item = i THEN q ELSE 0)
        /\ ValueIn(new, i)[p] = (IF stock[m].item = i THEN -z ELSE 0)
        /\ ValueIn(stock, i)[m] = (IF stock[m].item = i THEN z ELSE 0)
    BY <2>1, <2>2, <2>3 DEF QtyIn, ValueIn
  <2> QED BY <2>1, <2>4
<1>4. ASSUME NEW p \in DOMAIN stock
      PROVE  /\ QtyIn(new, i)[p] = QtyIn(stock, i)[p] /\ QtyIn(stock, i)[p] \in Int
             /\ ValueIn(new, i)[p] = ValueIn(stock, i)[p] /\ ValueIn(stock, i)[p] \in Int
  BY <1>1 DEF Traced, Prolongs, QtyIn, ValueIn
<1>5. ASSUME NEW p \in DOMAIN new PROVE QtyIn(new, i)[p] \in Int /\ ValueIn(new, i)[p] \in Int
  BY <1>1 DEF QtyIn, ValueIn
<1> QED BY <1>3, <1>4, <1>5 DEF Weighed

LEMMA FreshShips ==
    ASSUME NEW rows, NEW new \in Seq(StockRows), NEW ms, NEW n, MoveList(ms, n),
           NEW src, NEW main, Traced(rows, new, ms, n, src, main),
           NEW lines, NEW kind, Bears(ms, n, lines, kind)
    PROVE  Ships(rows, new, lines, kind)
<1> SUFFICES ASSUME NEW i \in Items
             PROVE  Worth(QtyIn(new, i), Fresh(rows, new)) = Shipped(lines, kind, i)
  BY DEF Ships
<1>1. PICK v, F : v = QtyIn(new, i) /\ F = Fresh(rows, new)
  OBVIOUS
<1>2. IsFiniteSet(F) /\ F \in SUBSET DOMAIN new
  BY <1>1, FS_Interval, FS_Subset DEF Fresh
<1>3. ASSUME NEW p \in F
      PROVE  \E k \in 1 .. n :
                /\ k = src[p] /\ ms[k].reverses = 0 /\ new[p].item = ms[k].item
                /\ p = main[k] \/ v[p] = 0
  <2>1. PICK k \in 1 .. n : /\ k = src[p] /\ FromMove(new[p], ms[k])
                            /\ p = main[k] \/ Aside(new[p], ms[k])
    BY <1>1 DEF Traced, Fresh
  <2>2. ms[k].reverses = 0 /\ ms[k].item = new[p].item
    BY <1>1, <2>1 DEF FromMove, Fresh
  <2>3. ms[k].kind = kind /\ kind # "stocktake"
    BY <2>2 DEF Bears
  <2>4. p \in DOMAIN new
    BY <1>2
  <2> QED BY <1>1, <2>1, <2>2, <2>3, <2>4 DEF Aside, QtyIn
<1>4. ASSUME NEW p \in F, new[p].item # i PROVE v[p] = 0
  BY <1>1, <1>2, <1>4 DEF QtyIn
<1>5. CASE i \notin DOMAIN lines
  <2>1. ASSUME NEW p \in F PROVE v[p] = 0
    BY <1>3, <1>4, <1>5 DEF Bears
  <2> QED BY <1>1, <1>2, <1>5, <2>1, WorthZero DEF Shipped
<1>6. CASE i \in DOMAIN lines
  <2>1. PICK k \in 1 .. n : ms[k].reverses = 0 /\ ms[k].item = i
    BY <1>6 DEF Bears
  <2>2. ms[k].kind = kind /\ ms[k].qty = lines[i].qty /\ ms[k].qty \in Nat /\ kind # "stocktake"
    BY <2>1 DEF Bears
  <2>3. PICK p : /\ p = main[k] /\ p \in DOMAIN new /\ p \notin DOMAIN rows /\ src[p] = k
                 /\ Adds(new[p], ms[k]) /\ FromMove(new[p], ms[k])
    BY <2>2 DEF Traced
  <2>4. p \in F /\ new[p].item = i
    BY <1>1, <2>1, <2>3 DEF Fresh, FromMove
  <2>5. new[p].qty = Shipped(lines, kind, i)
    BY <1>6, <2>2, <2>3 DEF Adds, Shipped, Bears
  <2>6. v[p] = Shipped(lines, kind, i)
    BY <1>1, <2>3, <2>4, <2>5 DEF QtyIn
  <2>7. Shipped(lines, kind, i) \in Int
    BY <1>6, <2>2 DEF Shipped
  <2>8. ASSUME NEW q \in F, q # p PROVE v[q] = 0
    <3>1. CASE new[q].item # i
      BY <1>4, <3>1
    <3>2. CASE new[q].item = i
      <4>1. PICK j \in 1 .. n : /\ ms[j].reverses = 0 /\ new[q].item = ms[j].item
                                /\ q = main[j] \/ v[q] = 0
        BY <1>3
      <4>2. j = k
        BY <2>1, <3>2, <4>1 DEF Bears
      <4> QED BY <2>3, <2>8, <4>1, <4>2
    <3> QED BY <3>1, <3>2
  <2>9. Worth(v, F) = v[p]
    BY <1>2, <2>4, <2>6, <2>7, <2>8, WorthOfOne
  <2> QED BY <1>1, <2>6, <2>9
<1> QED BY <1>5, <1>6

LEMMA StockPosting ==
    ASSUME LedgersTypeOK, LedgersTypeOK', NEW r, NEW ms, NEW fs, NEW n, MoveList(ms, n),
           Post(r, ms, fs), attempt[r].seen.balance \in [Items -> Balances], InPlace(ms, n),
           Numbered(stock), NEW R \in SUBSET DOMAIN stock, NEW x, NEW y, Backs(ms, n, R, x, y)
    PROVE  /\ Numbered(stock') /\ StockCounted(stock, stock', R, x, y)
           /\ \A lines, kind : Bears(ms, n, lines, kind) => Ships(stock, stock', lines, kind)
<1>1. PICK new \in Seq(StockRows) : new = stock'
  BY DEF LedgersTypeOK
<1>2. PICK src, main : Traced(stock, new, ms, n, src, main)
  BY <1>1, PostTraced DEF Post
<1>3. stock \in Seq(StockRows)
  BY DEF LedgersTypeOK
<1>4. Added(stock, new, ms, n, src, main)
  <2>1. ASSUME NEW p \in DOMAIN new, p \notin DOMAIN stock
        PROVE  /\ src[p] \in 1 .. n
               /\ new[p].doc = ms[src[p]].doc /\ new[p].reverses = ms[src[p]].reverses
               /\ new[p].reverses # 0 => p = main[src[p]]
    <3>1. PICK k \in 1 .. n : /\ k = src[p] /\ FromMove(new[p], ms[k])
                              /\ p = main[k] \/ Aside(new[p], ms[k])
      BY <1>2, <2>1 DEF Traced
    <3>2. ms[k].kind # "reversal" => ms[k].reverses = 0
      BY DEF MoveList, IsMove
    <3> QED BY <3>1, <3>2 DEF FromMove, Aside
  <2>2. ASSUME NEW k \in 1 .. n, ms[k].reverses # 0
        PROVE  main[k] \in DOMAIN new /\ main[k] \notin DOMAIN stock /\ src[main[k]] = k
    BY <1>2, <2>2 DEF MoveList, IsMove, Traced
  <2> QED BY <1>2, <2>1, <2>2 DEF Added, Traced
<1>5. Once(ms, n)
  BY DEF MoveList, Once, Post, ReversedOnce
<1>6. Numbered(new)
  BY <1>4, NumberedAdded
<1>7. StockCounted(stock, new, R, x, y)
  <2> SUFFICES ASSUME NEW i
               PROVE  /\ Counted(stock, new, QtyIn(stock, i), QtyIn(new, i), R, x, y)
                      /\ Counted(stock, new, ValueIn(stock, i), ValueIn(new, i), R, x, y)
    BY DEF StockCounted
  <2>1. /\ Weighed(stock, new, QtyIn(stock, i), QtyIn(new, i))
        /\ Weighed(stock, new, ValueIn(stock, i), ValueIn(new, i))
    BY <1>2, <1>3, StockWeighed
  <2> QED BY <1>4, <1>5, <2>1, PostingAdded DEF Counted
<1>8. ASSUME NEW lines, NEW kind, Bears(ms, n, lines, kind) PROVE Ships(stock, new, lines, kind)
  BY <1>2, <1>8, FreshShips
<1> QED BY <1>1, <1>6, <1>7, <1>8

LEMMA FundsPostedRows ==
    ASSUME NEW fs, NEW n, FundList(fs, n), NEW seen \in Int
    PROVE  FundsPosted(fs, seen) \in Seq(CustodyRows) /\ FundRows(FundsPosted(fs, seen), fs, n)
<1>0. n \in Nat /\ DOMAIN fs = 1 .. n
  BY DEF FundList
<1>1. PICK acc : FundsRun(acc, fs, seen, n) /\ FundsPosted(fs, seen) = acc[n]
  BY <1>0, Runs
<1> DEFINE C == {k \in 0 .. n : ~FundRows(acc[k], fs, k)}
<1>t. \A k \in 0 .. n : acc[k] \in Seq(CustodyRows)
  BY <1>1, FundRunTyped
<1>2. SUFFICES ASSUME C # {} PROVE FALSE
  BY <1>0, <1>1, <1>t
<1>3. PICK k \in C : \A j \in C : k <= j
  <2>1. C \in SUBSET Nat
    BY <1>0
  <2> HIDE DEF C
  <2> QED BY <1>2, <2>1, Sums!SmallestNumber
<1>4. k # 0
  BY <1>1 DEF FundsRun, FundRows
<1>5. PICK j \in 0 .. n : j = k - 1 /\ k \in 1 .. n /\ j < k /\ k = j + 1
  BY <1>0, <1>4
<1>6. FundRows(acc[j], fs, j)
  BY <1>3, <1>5
<1>7. FundAdded(acc[j], acc[k], fs[k], seen)
  BY <1>1, <1>5, <1>t, FundStepAdds DEF FundsRun, FundList
<1>8. Len(acc[k]) = k /\ FundRow(acc[k][k], fs[k]) /\ \A i \in 1 .. j : acc[k][i] = acc[j][i]
  <2>1. Len(acc[j]) = j
    BY <1>6 DEF FundRows
  <2>2. Len(acc[k]) = k
    BY <1>5, <1>7, <2>1 DEF FundAdded
  <2> QED BY <1>7, <2>1, <2>2 DEF FundAdded, FundRow
<1>9. \A i \in 1 .. k : i = k \/ i \in 1 .. j
  BY <1>0, <1>5
<1>10. FundRows(acc[k], fs, k)
  BY <1>6, <1>8, <1>9 DEF FundRows
<1> QED BY <1>10

LEMMA FreshBills ==
    ASSUME NEW t, Len(t) \in Nat, NEW new, NEW fs, NEW n, FundList(fs, n),
           FreshIs(t, new, fs, n), AmountsAre(t, new, fs, n), NEW total, Bills(fs, n, total)
    PROVE  Worth(AmountIn(new), Fresh(t, new)) = total
<1>1. PICK L \in Nat : L = Len(t)
  OBVIOUS
<1>v. PICK v, F : v = AmountIn(new) /\ F = Fresh(t, new)
  OBVIOUS
<1>2. n \in Nat /\ \A k \in 1 .. n : v[L + k] = fs[k].amount /\ fs[k].amount \in Int
  BY <1>1, <1>v DEF FundList, IsFund, AmountsAre
<1>3. \A p : p \in F <=> \E k \in 1 .. n : p = L + k /\ fs[k].reverses = 0
  BY <1>1, <1>v DEF FreshIs
<1>4. ASSUME NEW k \in 1 .. n PROVE Weighs(v, {L + k}) /\ Worth(v, {L + k}) = fs[k].amount
  <2>1. PICK p : p = L + k /\ v[p] = fs[k].amount /\ v[p] \in Int
    BY <1>2
  <2>2. IsFiniteSet({p}) /\ \A q \in {p} : q # p => v[q] = 0
    BY FS_Singleton
  <2>3. Weighs(v, {p}) /\ Worth(v, {p}) = v[p]
    BY <2>1, <2>2, WorthOfOne
  <2> QED BY <2>1, <2>3
<1>5. CASE ReverseBut(fs, n, {}) /\ total = 0
  BY <1>3, <1>5, <1>v, WorthNothing DEF ReverseBut
<1>6. CASE n # 0 /\ ReverseBut(fs, n, {n}) /\ total = fs[n].amount
  <2>1. n \in 1 .. n
    BY <1>2, <1>6
  <2>2. F = {L + n}
    BY <1>3, <1>6, <2>1 DEF ReverseBut
  <2> QED BY <1>v, <1>4, <1>6, <2>1, <2>2
<1>7. CASE /\ n # 0 /\ n - 1 # 0 /\ ReverseBut(fs, n, {n - 1, n})
           /\ total = fs[n - 1].amount + fs[n].amount
  <2>1. PICK m : m = n - 1 /\ m \in 1 .. n /\ n \in 1 .. n /\ m # n
    BY <1>2, <1>7
  <2>2. F = {L + m} \cup {L + n}
    BY <1>3, <1>7, <2>1 DEF ReverseBut
  <2>3. {L + m} \cap {L + n} = {}
    BY <2>1
  <2>4. /\ Weighs(v, {L + m}) /\ Worth(v, {L + m}) = fs[m].amount
        /\ Weighs(v, {L + n}) /\ Worth(v, {L + n}) = fs[n].amount
    BY <1>4, <2>1
  <2>5. Worth(v, F) = fs[m].amount + fs[n].amount
    <3>1. PICK A, B : A = {L + m} /\ B = {L + n}
      OBVIOUS
    <3>2. /\ A \cap B = {} /\ F = A \cup B /\ Weighs(v, A) /\ Weighs(v, B)
          /\ Worth(v, A) = fs[m].amount /\ Worth(v, B) = fs[n].amount
      BY <2>2, <2>3, <2>4, <3>1
    <3>3. Worth(v, F) = Worth(v, A) + Worth(v, B)
      BY <3>2, WorthOfParts
    <3> QED BY <3>2, <3>3
  <2> QED BY <1>v, <1>7, <2>1, <2>5
<1> QED BY <1>5, <1>6, <1>7 DEF Bills

LEMMA FundsPosting ==
    ASSUME LedgersTypeOK, LedgersTypeOK', NEW r, NEW ms, NEW fs, NEW n, FundList(fs, n),
           Post(r, ms, fs), attempt[r].seen.funds \in Int, TakesBack(fs, n),
           Numbered(custody), NEW Q \in SUBSET DOMAIN custody, NEW x, NEW y, Backs(fs, n, Q, x, y)
    PROVE  /\ Numbered(custody')
           /\ Counted(custody, custody', AmountIn(custody), AmountIn(custody'), Q, x, y)
           /\ \A total : Bills(fs, n, total)
                 => Worth(AmountIn(custody'), Fresh(custody, custody')) = total
<1>1. PICK t \in Seq(CustodyRows), new \in Seq(CustodyRows) : t = custody /\ new = custody'
  BY DEF LedgersTypeOK
<1>2. PICK rows \in Seq(CustodyRows) : new = t \o rows /\ FundRows(rows, fs, n)
  BY <1>1, FundsPostedRows DEF Post
<1>3. PICK L \in Nat : L = Len(t)
  BY <1>1
<1>4. n \in Nat /\ DOMAIN fs = 1 .. n
  BY DEF FundList
<1>5. /\ DOMAIN t = 1 .. L /\ DOMAIN new = 1 .. L + n /\ Len(new) = L + n
      /\ \A p \in 1 .. L : new[p] = t[p]
      /\ \A k \in 1 .. n : new[L + k] = rows[k]
  <2>1. Len(rows) = n /\ DOMAIN t = 1 .. L /\ DOMAIN rows = 1 .. n
    BY <1>2, <1>3 DEF FundRows
  <2>2. Len(new) = L + n /\ DOMAIN new = 1 .. L + n
    BY <1>2, <1>3, <2>1
  <2>3. \A p \in 1 .. L : new[p] = t[p]
    BY <1>2, <1>3, <2>1
  <2>4. \A k \in 1 .. n : new[L + k] = rows[k]
    BY <1>2, <1>3, <1>4, <2>1
  <2> QED BY <2>1, <2>2, <2>3, <2>4
<1> DEFINE src == [p \in 1 .. L + n |-> p - L]
           main == [k \in 1 .. n |-> L + k]
<1>6. ASSUME NEW p \in DOMAIN new, p \notin DOMAIN t
      PROVE  src[p] \in 1 .. n /\ p = L + src[p] /\ FundRow(new[p], fs[src[p]])
  <2>1. src[p] \in 1 .. n /\ p = L + src[p]
    BY <1>4, <1>5, <1>6
  <2> HIDE DEF src
  <2>2. new[p] = rows[src[p]]
    BY <1>5, <2>1
  <2> QED BY <1>2, <2>1, <2>2 DEF FundRows
<1>7. ASSUME NEW k \in 1 .. n
      PROVE  main[k] = L + k /\ main[k] \in DOMAIN new /\ main[k] \notin DOMAIN t /\ src[main[k]] = k
  BY <1>4, <1>5
<1> HIDE DEF src, main
<1>8. Added(t, new, fs, n, src, main)
  BY <1>4, <1>5, <1>6, <1>7 DEF Prolongs, Added, FundRow
<1>9. Once(fs, n)
  BY <1>4 DEF Once, Post, ReversedOnce
<1>10. Numbered(new)
  BY <1>1, <1>4, <1>5, <1>8, NumberedAdded
<1>11. ASSUME NEW s \in Seq(CustodyRows), NEW p \in DOMAIN s
       PROVE  AmountIn(s)[p] = s[p].amount /\ s[p].amount \in Int
  <2>1. s[p] \in CustodyRows
    BY Sums!ElementOf
  <2> QED BY <2>1 DEF CustodyRows, AmountIn
<1>12. Weighed(t, new, AmountIn(t), AmountIn(new))
  <2>1. ASSUME NEW p \in DOMAIN t
        PROVE  AmountIn(new)[p] = AmountIn(t)[p] /\ AmountIn(t)[p] \in Int
    BY <1>8, <1>11 DEF Added, Prolongs
  <2>2. ASSUME NEW p \in Reversing(t, new)
        PROVE  AmountIn(new)[p] + AmountIn(t)[new[p].reverses] = 0
    <3>1. PICK k \in 1 .. n : k = src[p] /\ FundRow(new[p], fs[k]) /\ p \in DOMAIN new
      BY <1>6 DEF Reversing
    <3>2. PICK m : m = fs[k].reverses /\ m = new[p].reverses /\ m # 0
      BY <3>1 DEF FundRow, Reversing
    <3>3. m \in DOMAIN t /\ fs[k].amount + t[m].amount = 0
      BY <1>1, <3>2 DEF Backs, TakesBack
    <3> QED BY <1>11, <3>1, <3>2, <3>3 DEF FundRow
  <2> QED BY <1>11, <2>1, <2>2 DEF Weighed
<1>13. Counted(t, new, AmountIn(t), AmountIn(new), Q, x, y)
  BY <1>1, <1>8, <1>9, <1>12, PostingAdded DEF Counted
<1>14. FreshIs(t, new, fs, n) /\ AmountsAre(t, new, fs, n)
  <2>1. ASSUME NEW k \in 1 .. n
        PROVE  /\ L + k \in DOMAIN new /\ L + k \notin DOMAIN t /\ FundRow(new[L + k], fs[k])
    BY <1>2, <1>5, <1>7 DEF FundRows
  <2>2. AmountsAre(t, new, fs, n)
    BY <1>3, <1>11, <2>1 DEF AmountsAre, FundRow
  <2>3. ASSUME NEW p \in Fresh(t, new) PROVE \E k \in 1 .. n : p = L + k /\ fs[k].reverses = 0
    BY <1>6 DEF Fresh, FundRow
  <2>4. ASSUME NEW k \in 1 .. n, fs[k].reverses = 0 PROVE L + k \in Fresh(t, new)
    BY <2>1, <2>4 DEF Fresh, FundRow
  <2> QED BY <1>3, <2>2, <2>3, <2>4 DEF FreshIs
<1>15. ASSUME NEW total, Bills(fs, n, total) PROVE Worth(AmountIn(new), Fresh(t, new)) = total
  BY <1>3, <1>14, <1>15, FreshBills
<1> QED BY <1>1, <1>10, <1>13, <1>15

--------------------
\* The lists the operations post: those that take rows back, and the rest.

LEMMA JoinFollows ==
    ASSUME NEW s, NEW m, s \in Seq(Range(s)), DOMAIN s = 1 .. m, m \in Nat,
           NEW t, NEW n, t \in Seq(Range(t)), DOMAIN t = 1 .. n, n \in Nat
    PROVE  Follows(s \o t, s, m, t, n)
<1> DEFINE R == Range(s) \cup Range(t)
           u == s \o t
<1>1. s \in Seq(R) /\ t \in Seq(R)
  BY OverItsRange
<1> HIDE DEF R
<1>2. /\ u \in Seq(R) /\ Len(u) = Len(s) + Len(t) /\ Len(s) \in Nat /\ Len(t) \in Nat
      /\ \A i \in DOMAIN s : u[i] = s[i]
      /\ \A i \in DOMAIN u : i \notin DOMAIN s => i - Len(s) \in DOMAIN t /\ u[i] = t[i - Len(s)]
  BY <1>1, Sums!Joined
<1>3. Len(s) = m /\ Len(t) = n
  BY <1>1
<1> HIDE DEF u
<1>4. DOMAIN u = 1 .. m + n
  BY <1>2, <1>3
<1>5. ASSUME NEW k \in 1 .. n
      PROVE  u[m + k] = t[k] /\ m + k \in 1 .. m + n /\ m + k \notin 1 .. m
  <2>1. m + k \in 1 .. m + n /\ m + k \notin 1 .. m /\ (m + k) - m = k
    OBVIOUS
  <2> QED BY <1>2, <1>3, <1>4, <2>1
<1>6. ASSUME NEW k \in 1 .. m + n, k \notin 1 .. m PROVE \E j \in 1 .. n : k = m + j
  BY <1>6, Sums!BehindFirst
<1>7. \A k \in 1 .. m : u[k] = s[k] /\ k \in 1 .. m + n
  BY <1>2
<1>8. Follows(u, s, m, t, n)
  BY <1>5, <1>6, <1>7 DEF Follows
<1> QED BY <1>8 DEF u

LEMMA BacksParts ==
    ASSUME NEW ms, NEW n, NEW R, NEW x, NEW y
    PROVE  /\ TakesAllBack(ms, n, R, x) => Backs(ms, n, R, x, y)
           /\ Onward(ms, n, y) => Backs(ms, n, {}, x, y)
  BY DEF TakesAllBack, Onward, Backs

LEMMA FollowsBacks ==
    ASSUME NEW u, NEW s, NEW m, NEW t, NEW n, Follows(u, s, m, t, n),
           NEW R, NEW x, NEW y, TakesAllBack(s, m, R, x), Onward(t, n, y)
    PROVE  Backs(u, m + n, R, x, y)
<1>1. ASSUME NEW k \in 1 .. m + n
      PROVE  IF u[k].reverses = 0 THEN u[k].doc = y ELSE u[k].doc = x /\ u[k].reverses \in R
  <2>1. CASE k \in 1 .. m
    BY <2>1 DEF Follows, TakesAllBack
  <2>2. CASE k \notin 1 .. m
    <3>1. PICK j \in 1 .. n : k = m + j
      BY <2>2 DEF Follows
    <3> QED BY <3>1 DEF Follows, Onward
  <2> QED BY <2>1, <2>2
<1>2. ASSUME NEW e \in R PROVE \E k \in 1 .. m + n : u[k].reverses = e
  <2>1. PICK k \in 1 .. m : s[k].reverses = e
    BY DEF TakesAllBack
  <2> QED BY <2>1 DEF Follows
<1> QED BY <1>1, <1>2 DEF Backs

LEMMA FollowsInPlace ==
    ASSUME NEW u, NEW s, NEW m, NEW t, NEW n, Follows(u, s, m, t, n), NEW y, Onward(t, n, y)
    PROVE  /\ InPlace(s, m) => InPlace(u, m + n)
           /\ TakesBack(s, m) => TakesBack(u, m + n)
<1>1. \A k \in 1 .. m + n : u[k].reverses # 0 => k \in 1 .. m /\ u[k] = s[k]
  <2> SUFFICES ASSUME NEW k \in 1 .. m + n, u[k].reverses # 0, k \notin 1 .. m PROVE FALSE
    BY DEF Follows
  <2>1. PICK j \in 1 .. n : k = m + j
    BY DEF Follows
  <2> QED BY <2>1 DEF Follows, Onward
<1> QED BY <1>1 DEF InPlace, TakesBack

LEMMA FollowsBears ==
    ASSUME NEW u, NEW s, NEW m, NEW t, NEW n, Follows(u, s, m, t, n), NEW R, NEW x,
           TakesAllBack(s, m, R, x), NEW lines, NEW kind, Bears(t, n, lines, kind)
    PROVE  Bears(u, m + n, lines, kind)
<1>1. \A k \in 1 .. m + n : u[k].reverses = 0 => \E j \in 1 .. n : k = m + j /\ u[k] = t[j]
  BY DEF Follows, TakesAllBack
<1>2. \A j \in 1 .. n : m + j \in 1 .. m + n /\ u[m + j] = t[j]
  BY DEF Follows
<1>3. \A k \in 1 .. m + n : u[k].reverses = 0 =>
          /\ u[k].kind = kind /\ u[k].item \in DOMAIN lines
          /\ u[k].qty = lines[u[k].item].qty /\ u[k].qty \in Nat
  BY <1>1 DEF Bears
<1>4. ASSUME NEW i \in DOMAIN lines
      PROVE  \E k \in 1 .. m + n : u[k].reverses = 0 /\ u[k].item = i
  <2>1. PICK j \in 1 .. n : t[j].reverses = 0 /\ t[j].item = i
    BY DEF Bears
  <2> QED BY <1>2, <2>1
<1>5. ASSUME NEW j \in 1 .. m + n, NEW k \in 1 .. m + n,
             u[j].reverses = 0, u[k].reverses = 0, u[j].item = u[k].item
      PROVE  j = k
  <2>1. PICK a \in 1 .. n : j = m + a /\ u[j] = t[a]
    BY <1>1, <1>5
  <2>2. PICK b \in 1 .. n : k = m + b /\ u[k] = t[b]
    BY <1>1, <1>5
  <2>3. a = b
    BY <1>5, <2>1, <2>2 DEF Bears
  <2> QED BY <2>1, <2>2, <2>3
<1>6. kind \in {"receipt", "issue", "cancellation"}
  BY DEF Bears
<1> QED BY <1>3, <1>4, <1>5, <1>6 DEF Bears

LEMMA ReversalsBack ==
    ASSUME LedgersTypeOK, NEW d, NEW rows \in SUBSET DOMAIN stock
    PROVE  /\ TakesAllBack(Reversals(d, rows), Cardinality(rows), rows, d)
           /\ InPlace(Reversals(d, rows), Cardinality(rows))
<1> DEFINE down == Downwards(rows)
           ms == Reversals(d, rows)
           c == Cardinality(rows)
<1>0. rows \in SUBSET Nat /\ IsFiniteSet(rows) /\ 0 \notin rows
  BY NumbersOf DEF LedgersTypeOK
<1>1. Lists(down, rows)
  BY <1>0, DownwardsLists
<1>2. ms = [n \in DOMAIN down |-> Movement(d, "reversal", stock[down[n]].item, 0, 0, 0, down[n])]
  BY DEF Reversals, Each
<1>3. DOMAIN down = 1 .. c
  BY <1>1 DEF Lists
<1> HIDE DEF down, ms
<1>4. \A k \in 1 .. c : /\ ms[k].doc = d /\ ms[k].reverses = down[k] /\ down[k] \in rows
                        /\ ms[k].item = stock[down[k]].item
  BY <1>1, <1>2, <1>3 DEF Movement, Lists
<1>5. \A n \in rows : \E k \in 1 .. c : down[k] = n
  BY <1>1, <1>3 DEF Lists
<1>6. TakesAllBack(ms, c, rows, d) /\ InPlace(ms, c)
  BY <1>0, <1>4, <1>5 DEF TakesAllBack, InPlace
<1> QED BY <1>6 DEF ms

LEMMA LinedBears ==
    ASSUME NEW ms, NEW c, NEW lines, NEW d, NEW kind, Lined(ms, c, lines, d, kind),
           \A i \in DOMAIN lines : lines[i].qty \in Nat
    PROVE  /\ Onward(ms, c, d)
           /\ kind \in {"receipt", "issue", "cancellation"} => Bears(ms, c, lines, kind)
<1>1. PICK up : /\ Lists(up, DOMAIN lines) /\ DOMAIN up = 1 .. c
                /\ \A k \in 1 .. c : /\ ms[k].doc = d /\ ms[k].reverses = 0 /\ ms[k].kind = kind
                                     /\ ms[k].item = up[k] /\ ms[k].qty = lines[up[k]].qty
  BY DEF Lined
<1>2. /\ \A k \in 1 .. c : up[k] \in DOMAIN lines
      /\ \A i \in DOMAIN lines : \E k \in 1 .. c : up[k] = i
      /\ \A j, k \in 1 .. c : up[j] = up[k] => j = k
  BY <1>1 DEF Lists
<1> QED BY <1>1, <1>2 DEF Onward, Bears

LEMMA ReceiptsBear ==
    ASSUME NEW d, NEW lines, IsLines(lines, Bought), NEW c, c = Cardinality(DOMAIN lines)
    PROVE  Onward(Receipts(d, lines), c, d) /\ Bears(Receipts(d, lines), c, lines, "receipt")
<1> DEFINE up == Upwards(DOMAIN lines)
           ms == Receipts(d, lines)
<1>1. Lists(up, DOMAIN lines) /\ DOMAIN up = 1 .. c
  BY StockConstants, UpwardsLists DEF IsLines, Lists
<1>2. ms = [n \in DOMAIN up |-> Movement(d, "receipt", up[n], lines[up[n]].qty,
                                         lines[up[n]].qty * lines[up[n]].price, 0, 0)]
  BY DEF Receipts, Each
<1> HIDE DEF up, ms
<1>3. Lined(ms, c, lines, d, "receipt")
  BY <1>1, <1>2 DEF Lined, Movement
<1>4. \A i \in DOMAIN lines : lines[i].qty \in Nat
  BY DEF IsLines, Bought
<1> QED BY <1>3, <1>4, LinedBears DEF ms

LEMMA IssuesBear ==
    ASSUME NEW d, NEW kind \in {"issue", "cancellation"}, NEW lines, IsLines(lines, Used),
           NEW cost, NEW c, c = Cardinality(DOMAIN lines)
    PROVE  /\ Onward(Issues(d, kind, lines, cost), c, d)
           /\ Bears(Issues(d, kind, lines, cost), c, lines, kind)
<1> DEFINE up == Upwards(DOMAIN lines)
           ms == Issues(d, kind, lines, cost)
<1>1. Lists(up, DOMAIN lines) /\ DOMAIN up = 1 .. c
  BY StockConstants, UpwardsLists DEF IsLines, Lists
<1>2. ms = [n \in DOMAIN up |-> Movement(d, kind, up[n], lines[up[n]].qty, 0, cost[up[n]], 0)]
  BY DEF Issues, Each
<1> HIDE DEF up, ms
<1>3. Lined(ms, c, lines, d, kind)
  BY <1>1, <1>2 DEF Lined, Movement
<1>4. \A i \in DOMAIN lines : lines[i].qty \in Nat
  BY DEF IsLines, Used
<1> QED BY <1>3, <1>4, LinedBears DEF ms

LEMMA StocktakesOnward ==
    ASSUME NEW lines, IsLines(lines, [qty : Nat]), NEW c, c = Cardinality(DOMAIN lines)
    PROVE  Onward(Stocktakes(lines), c, NoDoc)
<1> DEFINE up == Upwards(DOMAIN lines)
           ms == Stocktakes(lines)
<1>1. Lists(up, DOMAIN lines) /\ DOMAIN up = 1 .. c
  BY StockConstants, UpwardsLists DEF IsLines, Lists
<1>2. ms = [n \in DOMAIN up |-> Movement(NoDoc, "stocktake", up[n], lines[up[n]].qty, 0, 0, 0)]
  BY DEF Stocktakes, Each
<1> HIDE DEF up, ms
<1>3. Lined(ms, c, lines, NoDoc, "stocktake")
  BY <1>1, <1>2 DEF Lined, Movement
<1>4. \A i \in DOMAIN lines : lines[i].qty \in Nat
  BY DEF IsLines
<1> QED BY <1>3, <1>4, LinedBears DEF ms

LEMMA FundsReversalsBack ==
    ASSUME LedgersTypeOK, NEW d, NEW rows \in SUBSET DOMAIN custody
    PROVE  /\ TakesAllBack(FundsReversals(d, rows), Cardinality(rows), rows, d)
           /\ TakesBack(FundsReversals(d, rows), Cardinality(rows))
<1> DEFINE up == Upwards(rows)
           fs == FundsReversals(d, rows)
           c == Cardinality(rows)
<1>0. rows \in SUBSET Nat /\ IsFiniteSet(rows) /\ 0 \notin rows
  BY NumbersOf DEF LedgersTypeOK
<1>1. Lists(up, rows)
  BY <1>0, UpwardsLists
<1>2. fs = [n \in DOMAIN up |-> Funds(d, -custody[up[n]].amount, up[n])]
  BY DEF FundsReversals, Each
<1>3. DOMAIN up = 1 .. c
  BY <1>1 DEF Lists
<1>6. \A n \in rows : custody[n].amount \in Int /\ -custody[n].amount + custody[n].amount = 0
  <2> SUFFICES ASSUME NEW n \in rows
               PROVE  custody[n].amount \in Int /\ -custody[n].amount + custody[n].amount = 0
    OBVIOUS
  <2>1. custody[n] \in CustodyRows
    BY Sums!ElementOf DEF LedgersTypeOK
  <2> QED BY <2>1 DEF CustodyRows
<1> HIDE DEF up, fs
<1>4. \A k \in 1 .. c : /\ fs[k].doc = d /\ fs[k].reverses = up[k] /\ up[k] \in rows
                        /\ fs[k].amount = -custody[up[k]].amount
  BY <1>1, <1>2, <1>3 DEF Funds, Lists
<1>5. \A n \in rows : \E k \in 1 .. c : up[k] = n
  BY <1>1, <1>3 DEF Lists
<1>7. TakesAllBack(fs, c, rows, d)
  BY <1>0, <1>4, <1>5 DEF TakesAllBack
<1>8. TakesBack(fs, c)
  BY <1>4, <1>6 DEF TakesBack
<1> QED BY <1>7, <1>8 DEF fs

LEMMA NoneBilled == ASSUME NEW d, NEW c PROVE Billed(<<>>, 0, d, 0, c)
<1>1. Onward(<<>>, 0, d) /\ Bills(<<>>, 0, 0)
  BY DEF Onward, Bills, ReverseBut
<1> QED BY <1>1, NoFund DEF Billed

LEMMA OneBilled ==
    ASSUME NEW d \in Nat, NEW amount \in Int PROVE Billed(<<Funds(d, amount, 0)>>, 1, d, amount, TRUE)
<1>1. PICK f : f = Funds(d, amount, 0) /\ f.doc = d /\ f.amount = amount /\ f.reverses = 0
  <2>1. /\ Funds(d, amount, 0).doc = d /\ Funds(d, amount, 0).amount = amount
        /\ Funds(d, amount, 0).reverses = 0
    BY DEF Funds
  <2> QED BY <2>1, Zenon
<1>2. PICK fs : fs = <<f>> /\ fs[1] = f /\ FundsOver(fs, 1, TRUE)
  BY <1>1, FundIs, OneFund
<1>3. \A k \in 1 .. 1 : k = 1
  OBVIOUS
<1>4. Onward(fs, 1, d)
  BY <1>1, <1>2, <1>3 DEF Onward
<1>5. Bills(fs, 1, amount)
  BY <1>1, <1>2, <1>3 DEF ReverseBut, Bills
<1> QED BY <1>1, <1>2, <1>4, <1>5 DEF Billed

LEMMA TwoBilled ==
    ASSUME NEW d \in Nat, NEW p \in Int, NEW q \in Int
    PROVE  Billed(<<Funds(d, p, 0)>> \o <<Funds(d, q, 0)>>, 2, d, p + q, TRUE)
<1>1. PICK s, t : /\ s = <<Funds(d, p, 0)>> /\ t = <<Funds(d, q, 0)>>
                  /\ FundsOver(s, 1, TRUE) /\ FundsOver(t, 1, TRUE)
                  /\ s[1].amount = p /\ t[1].amount = q /\ Onward(s, 1, d) /\ Onward(t, 1, d)
  BY OneBilled DEF Billed, Funds
<1>2. PICK u : u = s \o t /\ FundsOver(u, 2, TRUE)
  <2>1. FundsOver(s \o t, 1 + 1, TRUE \/ TRUE)
    BY <1>1, JoinFunds
  <2>2. 1 + 1 = 2
    OBVIOUS
  <2>3. FundsOver(s \o t, 2, TRUE \/ TRUE)
    BY <2>1, <2>2
  <2> QED BY <2>3 DEF FundsOver
<1>3. Follows(u, s, 1, t, 1)
  BY <1>1, <1>2, JoinFollows DEF FundsOver, FundList
<1>4. u[1] = s[1] /\ u[2] = t[1]
  BY <1>3 DEF Follows
<1>5. /\ u[1].reverses = 0 /\ u[2].reverses = 0 /\ u[1].doc = d /\ u[2].doc = d
      /\ u[1].amount = p /\ u[2].amount = q
  BY <1>1, <1>4 DEF Onward
<1>6. \A k \in 1 .. 2 : k = 1 \/ k = 2
  OBVIOUS
<1>7. Onward(u, 2, d)
  BY <1>5, <1>6 DEF Onward
<1>8. Bills(u, 2, p + q)
  BY <1>5, <1>6 DEF ReverseBut, Bills
<1> QED BY <1>1, <1>2, <1>7, <1>8 DEF Billed

LEMMA PurchaseBilled ==
    ASSUME NEW d \in Nat, NEW method, NEW fund \in Nat, NEW lines, IsLines(lines, Bought)
    PROVE  \E n : Billed(FundsPurchase(d, method, fund, lines), n, d, Bill(method, fund, lines),
                         method = "custody")
<1>1. CASE method # "custody"
  BY <1>1, NoneBilled DEF FundsPurchase, Bill
<1>2. CASE method = "custody"
  <2>1. PICK owed \in Nat : owed = Amount(lines)
    BY AmountType
  <2>2. PICK q \in Int : q = -owed
    OBVIOUS
  <2>3. PICK g : g = <<Funds(d, q, 0)>> /\ Billed(g, 1, d, q, TRUE)
    BY OneBilled
  <2>4. FundsPurchase(d, method, fund, lines)
           = (IF fund > 0 THEN <<Funds(d, fund, 0)>> ELSE <<>>) \o g
    BY <1>2, <2>1, <2>2, <2>3 DEF FundsPurchase
  <2>5. Bill(method, fund, lines) = fund + q /\ fund \in Int
    BY <1>2, <2>1, <2>2 DEF Bill
  <2>6. CASE fund > 0
    BY <1>2, <2>3, <2>4, <2>5, <2>6, TwoBilled
  <2>7. CASE ~(fund > 0)
    <3>1. fund + q = q
      BY <2>7
    <3>2. <<>> \o g = g
      BY <2>3 DEF Billed, FundsOver
    <3>3. FundsPurchase(d, method, fund, lines) = g
      BY <2>4, <2>7, <3>2
    <3> QED BY <1>2, <2>3, <2>5, <3>1, <3>3
  <2> QED BY <2>6, <2>7
<1> QED BY <1>1, <1>2

\* After what is taken back, the bill is the same.
LEMMA FollowsBills ==
    ASSUME NEW s, NEW m, FundList(s, m), NEW t, NEW n, FundList(t, n), NEW u,
           Follows(u, s, m, t, n), NEW Q, NEW x, TakesAllBack(s, m, Q, x),
           NEW y, Onward(t, n, y), NEW total, Bills(t, n, total)
    PROVE  Bills(u, m + n, total)
<1>0. m \in Nat /\ n \in Nat
  BY DEF FundList
<1>1. ASSUME NEW k \in 1 .. m + n PROVE (u[k].reverses = 0) <=> (m < k)
  <2>1. CASE k \in 1 .. m
    BY <1>0, <2>1 DEF Follows, TakesAllBack
  <2>2. CASE k \notin 1 .. m
    <3>1. PICK j \in 1 .. n : k = m + j /\ u[k] = t[j]
      BY <2>2 DEF Follows
    <3> QED BY <1>0, <2>2, <3>1 DEF Onward
  <2> QED BY <2>1, <2>2
<1>2. \A k \in 1 .. n : t[k].reverses = 0 /\ u[m + k] = t[k]
  BY DEF Onward, Follows
<1>3. CASE ReverseBut(t, n, {}) /\ total = 0
  BY <1>0, <1>1, <1>2, <1>3 DEF ReverseBut, Bills
<1>4. CASE n # 0 /\ ReverseBut(t, n, {n}) /\ total = t[n].amount
  BY <1>0, <1>1, <1>2, <1>4 DEF ReverseBut, Bills
<1>5. CASE /\ n # 0 /\ n - 1 # 0 /\ ReverseBut(t, n, {n - 1, n})
           /\ total = t[n - 1].amount + t[n].amount
  BY <1>0, <1>1, <1>2, <1>5 DEF ReverseBut, Bills
<1> QED BY <1>3, <1>4, <1>5 DEF Bills

--------------------
\* Both ledgers and the documents together.

LEMMA MovesInType ==
    ASSUME NEW D, LinesGood(D), NEW e \in DOMAIN D, NEW i PROVE MovesIn(D, i)[e] \in Int
<1>1. i \in DOMAIN D[e].lines => D[e].lines[i].qty \in Int /\ -D[e].lines[i].qty \in Int
  BY DEF LinesGood, IsLines, Bought, Used
<1> QED BY <1>1 DEF MovesIn

LEMMA BillType ==
    ASSUME NEW method, NEW fund \in Nat, NEW lines, IsLines(lines, Bought)
    PROVE  Bill(method, fund, lines) \in Int
<1>1. PICK a \in Nat : a = Amount(lines)
  BY AmountType
<1> QED BY <1>1 DEF Bill

LEMMA SpendsInType ==
    ASSUME NEW D, NEW H, HeadsGood(D, H), LinesGood(D), NEW e \in DOMAIN D
    PROVE  SpendsIn(D)[e] \in Int
<1>1. CASE D[e].of # NoDoc
  BY <1>1 DEF SpendsIn
<1>2. CASE D[e].of = NoDoc /\ D[e].type = "purchase"
  BY <1>2, BillType DEF LinesGood, SpendsIn
<1>3. CASE D[e].of = NoDoc /\ D[e].type # "purchase"
  BY <1>3 DEF HeadsGood, IsRoot, SpendsIn, Bill
<1> QED BY <1>1, <1>2, <1>3

LEMMA TakesTurns ==
    ASSUME NEW D, NEW E, NEW H, NEW d, NEW h, NEW y, NEW rows, NEW R,
           d = NoDoc \/ IsRoot(D, d), RowsGood(D, H, rows),
           Course(D, E, d, h, y), Takes(D, H, d, rows, R, y)
    PROVE  AllOwned(R, rows, d) /\ \A w : Turns(D, E, H, d, h, rows, w, R, y)
<1>1. AllOwned(R, rows, d)
  BY DEF Takes, RowsGood, AllOwned
<1>2. ASSUME NEW w PROVE Turns(D, E, H, d, h, rows, w, R, y)
  BY DEF Takes, Course, Turns
<1> QED BY <1>1, <1>2

LEMMA SparedTurns ==
    ASSUME NEW D, NEW E, NEW H, NEW d, NEW h, NEW y, NEW c, NEW Q, IsRoot(D, d),
           Exact(D, H, c, AmountIn(c), SpendsIn(D)), Spared(D, E, d, Q, y)
    PROVE  AllOwned(Q, c, d) /\ Turns(D, E, H, d, h, c, AmountIn(c), Q, y)
<1>1. Carried(D, H, c, AmountIn(c), d) = SpendsIn(D)[d]
  BY DEF Exact, Spared
<1>2. SpendsIn(D)[d] = 0
  BY DEF SpendsIn, Bill, Spared, IsRoot
<1>3. AllOwned(Q, c, d)
  BY DEF AllOwned, Spared
<1> QED BY <1>1, <1>2, <1>3 DEF Turns, Spared

LEMMA SaysSteady ==
    ASSUME NEW D, NEW H, HeadsGood(D, H), LinesGood(D), NEW E, NEW y, Steady(D, E, y),
           DOMAIN D \subseteq DOMAIN E, NEW s, NEW t, NEW c, NEW u, Begins(E, y, s, t, c, u)
    PROVE  /\ \A i \in Items : Says(D, E, y, MovesIn(D, i), MovesIn(E, i),
                                    Worth(QtyIn(t, i), Fresh(s, t)))
           /\ Says(D, E, y, SpendsIn(D), SpendsIn(E), Worth(AmountIn(u), Fresh(c, u)))
<1>1. ASSUME NEW e \in DOMAIN D, e # y
      PROVE  /\ \A i : MovesIn(E, i)[e] = MovesIn(D, i)[e] /\ MovesIn(D, i)[e] \in Int
             /\ SpendsIn(E)[e] = SpendsIn(D)[e] /\ SpendsIn(D)[e] \in Int
  BY <1>1, MovesInType, SpendsInType DEF Steady, MovesIn, SpendsIn
<1> QED BY <1>1 DEF Says, Begins

LEMMA BeginsStarts ==
    ASSUME NEW E, NEW y, NEW s, NEW t, NEW c, NEW u, Begins(E, y, s, t, c, u)
    PROVE  /\ \A w : Starts(E, y, Worth(w, Fresh(s, t)))
           /\ \A w : Starts(E, y, Worth(w, Fresh(c, u)))
<1>1. \A w : Worth(w, {}) = 0
  BY WorthNothing
<1> QED BY <1>1 DEF Begins, Starts

\* One figure of one ledger is kept.
LEMMA FigureKept ==
    ASSUME NEW D, NEW E, NEW H, NEW K, NEW d, NEW h, NEW x, NEW y, NEW rows, NEW new,
           NEW w, NEW v, NEW R, HeadsGood(D, H), RowsGood(D, H, rows),
           Change(D, E, H, K, d, h, x, y), Numbered(new), AllOwned(R, rows, d),
           Counted(rows, new, w, v, R, x, y), Turns(D, E, H, d, h, rows, w, R, y),
           Starts(E, y, Worth(v, Fresh(rows, new))), Settled(D, H, rows, w)
    PROVE  /\ RowsGood(E, K, new) /\ Settled(E, K, new, v)
           /\ \A p, q : Exact(D, H, rows, w, p) /\ Says(D, E, y, p, q, Worth(v, Fresh(rows, new)))
                            => Exact(E, K, new, v, q)
<1>1. PICK total : total = Worth(v, Fresh(rows, new))
  OBVIOUS
<1>2. Stepped(D, E, H, K, d, h, rows, new, w, v, R, x, y, total)
  BY <1>1 DEF Stepped, Counted
<1>3. RowsGood(E, K, new)
  BY <1>2, RowsKept
<1>4. Settled(E, K, new, v)
  BY <1>1, <1>2, SettledKept
<1>5. ASSUME NEW p, NEW q, Exact(D, H, rows, w, p), Says(D, E, y, p, q, total)
      PROVE  Exact(E, K, new, v, q)
  BY <1>1, <1>2, <1>5, ExactKept
<1> QED BY <1>1, <1>3, <1>4, <1>5

LEMMA BooksKept ==
    ASSUME NEW D, NEW E, NEW H, NEW K, NEW d, NEW h, NEW x, NEW y, NEW s, NEW t, NEW R,
           NEW c, NEW u, NEW Q, BooksGood(D, H, s, c),
           BooksStep(D, E, H, K, d, h, x, y, s, t, R, c, u, Q)
    PROVE  BooksGood(E, K, t, u)
<1>1. /\ HeadsGood(D, H) /\ LinesGood(D) /\ RowsGood(D, H, s) /\ RowsGood(D, H, c)
      /\ Change(D, E, H, K, d, h, x, y) /\ Sound(D, E, d, y) /\ Steady(D, E, y)
      /\ Course(D, E, d, h, y) /\ Begins(E, y, s, t, c, u) /\ Numbered(t) /\ Numbered(u)
      /\ Takes(D, H, d, s, R, y) /\ Counted(c, u, AmountIn(c), AmountIn(u), Q, x, y)
      /\ Settled(D, H, c, AmountIn(c)) /\ Exact(D, H, c, AmountIn(c), SpendsIn(D))
  BY DEF BooksGood, BooksStep
<1>2. (d = NoDoc \/ IsRoot(D, d)) /\ DOMAIN D \subseteq DOMAIN E
  BY <1>1 DEF Change
<1>3. AllOwned(R, s, d) /\ \A w : Turns(D, E, H, d, h, s, w, R, y)
  BY <1>1, <1>2, TakesTurns
<1>4. AllOwned(Q, c, d) /\ Turns(D, E, H, d, h, c, AmountIn(c), Q, y)
  <2>1. CASE Takes(D, H, d, c, Q, y)
    BY <1>1, <1>2, <2>1, TakesTurns
  <2>2. CASE Spared(D, E, d, Q, y)
    BY <1>1, <1>2, <2>2, SparedTurns DEF Spared
  <2> QED BY <2>1, <2>2 DEF BooksStep
<1>5. /\ \A w : Starts(E, y, Worth(w, Fresh(s, t)))
      /\ \A w : Starts(E, y, Worth(w, Fresh(c, u)))
  BY <1>1, BeginsStarts
<1>6. /\ \A i \in Items : Says(D, E, y, MovesIn(D, i), MovesIn(E, i),
                               Worth(QtyIn(t, i), Fresh(s, t)))
      /\ Says(D, E, y, SpendsIn(D), SpendsIn(E), Worth(AmountIn(u), Fresh(c, u)))
  BY <1>1, <1>2, SaysSteady
<1>7. /\ RowsGood(E, K, u) /\ Settled(E, K, u, AmountIn(u))
      /\ Exact(E, K, u, AmountIn(u), SpendsIn(E))
  BY <1>1, <1>4, <1>5, <1>6, FigureKept
<1>8. ASSUME NEW i \in Items
      PROVE  /\ RowsGood(E, K, t) /\ Settled(E, K, t, QtyIn(t, i)) /\ Settled(E, K, t, ValueIn(t, i))
             /\ Exact(E, K, t, QtyIn(t, i), MovesIn(E, i))
  BY <1>1, <1>3, <1>5, <1>6, FigureKept DEF BooksStep, StockCounted, BooksGood
<1>9. HeadsGood(E, K) /\ LinesGood(E)
  BY <1>1, HeadsKept DEF BooksStep
<1>10. RowsGood(E, K, t)
  BY <1>1, <1>3, RowsKept DEF BooksStep, StockCounted, Stepped, Counted
<1> QED BY <1>7, <1>8, <1>9, <1>10 DEF BooksGood

--------------------
\* The lists as they are posted.

LEMMA OnwardEntries ==
    ASSUME NEW t, NEW n, NEW y, Onward(t, n, y), NEW x
    PROVE  /\ MoveList(t, n) => Entries(t, n, {}, x, y)
           /\ FundList(t, n) => FundEntries(t, n, {}, x, y)
<1>1. InPlace(t, n) /\ TakesBack(t, n)
  BY DEF Onward, InPlace, TakesBack
<1> QED BY <1>1, BacksParts DEF Entries, FundEntries

LEMMA TakenEntries ==
    ASSUME NEW s, NEW m, NEW R, NEW x, TakesAllBack(s, m, R, x), NEW y
    PROVE  /\ MoveList(s, m) /\ InPlace(s, m) => Entries(s, m, R, x, y)
           /\ FundList(s, m) /\ TakesBack(s, m) => FundEntries(s, m, R, x, y)
  BY BacksParts DEF Entries, FundEntries

LEMMA JoinedEntries ==
    ASSUME NEW s, NEW m, NEW S, MovesOver(s, m, S), NEW t, NEW n, NEW T, MovesOver(t, n, T),
           NEW R, NEW x, TakesAllBack(s, m, R, x), InPlace(s, m), NEW y, Onward(t, n, y)
    PROVE  /\ Entries(s \o t, m + n, R, x, y)
           /\ \A lines, kind : Bears(t, n, lines, kind) => Bears(s \o t, m + n, lines, kind)
<1>1. Follows(s \o t, s, m, t, n)
  BY JoinFollows DEF MovesOver, MoveList
<1>2. MoveList(s \o t, m + n)
  BY JoinMoves DEF MovesOver
<1>3. InPlace(s \o t, m + n) /\ Backs(s \o t, m + n, R, x, y)
  BY <1>1, FollowsInPlace, FollowsBacks
<1>4. \A lines, kind : Bears(t, n, lines, kind) => Bears(s \o t, m + n, lines, kind)
  BY <1>1, FollowsBears
<1> QED BY <1>2, <1>3, <1>4 DEF Entries

LEMMA JoinedFunds ==
    ASSUME NEW s, NEW m, NEW b, FundsOver(s, m, b), NEW t, NEW n, NEW c, FundsOver(t, n, c),
           NEW Q, NEW x, TakesAllBack(s, m, Q, x), TakesBack(s, m), NEW y, Onward(t, n, y),
           NEW total, Bills(t, n, total)
    PROVE  FundEntries(s \o t, m + n, Q, x, y) /\ Bills(s \o t, m + n, total)
<1>1. Follows(s \o t, s, m, t, n)
  BY JoinFollows DEF FundsOver, FundList
<1>2. FundList(s \o t, m + n)
  BY JoinFunds DEF FundsOver
<1>3. TakesBack(s \o t, m + n) /\ Backs(s \o t, m + n, Q, x, y)
  BY <1>1, FollowsInPlace, FollowsBacks
<1>4. Bills(s \o t, m + n, total)
  BY <1>1, FollowsBills DEF FundsOver
<1> QED BY <1>2, <1>3, <1>4 DEF FundEntries

LEMMA PostingBooks ==
    ASSUME TypeInv, TypeInv', Numbered(stock), Numbered(custody),
           NEW r \in Attempts, At(r, "commit"), NEW ms, NEW fs, Post(r, ms, fs),
           NEW R \in SUBSET DOMAIN stock, NEW Q \in SUBSET DOMAIN custody, NEW x, NEW y,
           NEW n, Entries(ms, n, R, x, y), NEW k, FundEntries(fs, k, Q, x, y)
    PROVE  /\ Posts2(R, Q, x, y)
           /\ \A lines, kind, total : Bears(ms, n, lines, kind) /\ Bills(fs, k, total)
                 => Shipment(lines, kind, total)
<1>1. LedgersTypeOK /\ LedgersTypeOK'
  BY DEF TypeInv
<1>2. attempt[r].seen.balance \in [Items -> Balances] /\ attempt[r].seen.funds \in Int
  BY Idle DEF At, Closed, TypeInv, AttemptsOK, AttemptOK, IsActive, SeenOK
<1>3. /\ Numbered(stock') /\ StockCounted(stock, stock', R, x, y)
      /\ \A lines, kind : Bears(ms, n, lines, kind) => Ships(stock, stock', lines, kind)
  BY <1>1, <1>2, StockPosting DEF Entries
<1>4. /\ Numbered(custody')
      /\ Counted(custody, custody', AmountIn(custody), AmountIn(custody'), Q, x, y)
      /\ \A total : Bills(fs, k, total)
            => Worth(AmountIn(custody'), Fresh(custody, custody')) = total
  BY <1>1, <1>2, FundsPosting DEF FundEntries
<1> QED BY <1>3, <1>4 DEF Posts2, Shipment

\* Nothing is posted.
LEMMA NothingCounted ==
    ASSUME TypeInv, Numbered(stock), Numbered(custody), UNCHANGED <<stock, custody>>, NEW x, NEW y
    PROVE  Posts2({}, {}, x, y) /\ Fresh(stock, stock') = {} /\ Fresh(custody, custody') = {}
<1>1. ASSUME NEW rows, NEW w, \A n \in DOMAIN rows : w[n] \in Int
      PROVE  Counted(rows, rows, w, w, {}, x, y) /\ Fresh(rows, rows) = {}
  <2>1. Fresh(rows, rows) = {} /\ Reversing(rows, rows) = {}
    BY DEF Fresh, Reversing
  <2>2. Worth(w, {}) + Worth(w, {}) = 0
    BY WorthNothing
  <2> QED BY <1>1, <2>1, <2>2 DEF Counted, Posting, Prolongs
<1>2. \A n \in DOMAIN custody : AmountIn(custody)[n] \in Int
  <2>1. \A n \in DOMAIN custody : custody[n] \in CustodyRows
    BY Sums!ElementOf DEF TypeInv, LedgersTypeOK
  <2> QED BY <2>1 DEF AmountIn, CustodyRows
<1>3. \A i : \A n \in DOMAIN stock : QtyIn(stock, i)[n] \in Int /\ ValueIn(stock, i)[n] \in Int
  <2>1. \A n \in DOMAIN stock : stock[n].qty \in Int /\ stock[n].value \in Int
    <3>1. \A n \in DOMAIN stock : stock[n] \in StockRows
      BY Sums!ElementOf DEF TypeInv, LedgersTypeOK
    <3> QED BY <3>1 DEF StockRows
  <2> QED BY <2>1 DEF QtyIn, ValueIn
<1>4. StockCounted(stock, stock, {}, x, y)
  BY <1>1, <1>3 DEF StockCounted
<1>5. Counted(custody, custody, AmountIn(custody), AmountIn(custody), {}, x, y)
  BY <1>1, <1>2
<1>6. Fresh(stock, stock) = {} /\ Fresh(custody, custody) = {}
  BY DEF Fresh
<1>7. stock' = stock /\ custody' = custody
  OBVIOUS
<1> QED BY <1>4, <1>5, <1>6, <1>7 DEF Posts2

--------------------
\* The invariant behind the effects, and a step that changes it.

LEMMA OfsEarlier == ASSUME TypeInv PROVE OfEarlier /\ NoDoc \notin DOMAIN docs
<1>1. DocTable(docs) /\ Len(docs) \in Nat /\ DOMAIN docs = 1 .. Len(docs)
  BY DocsNumbers DEF TypeInv
<1>2. \A d \in DOMAIN docs : docs[d].of \in Nat /\ docs[d].of < d
  BY <1>1, FieldsOfDocument DEF DocTable, FieldsOK
<1> QED BY <1>1, <1>2 DEF OfEarlier, NoDoc

LEMMA OfsEarlierThen == (TypeInv => OfEarlier /\ NoDoc \notin DOMAIN docs)'
<1>1. TypeInv => OfEarlier /\ NoDoc \notin DOMAIN docs
  BY OfsEarlier
<1> QED BY <1>1, PTL

LEMMA AltersChange ==
    ASSUME TypeInv, TypeInv', Unforked, NEW d, NEW h, NEW x, NEW y, Alters(d, h, x, y)
    PROVE  Unforked' /\ Change(docs, docs', Heads, Heads', d, h, x, y)
<1>1. OfEarlier /\ OfEarlier' /\ NoDoc \notin DOMAIN docs
  BY OfsEarlier, OfsEarlierThen
<1>2. Unforked' /\ HeadsFollow(h, x)
  BY <1>1, StaysUnforked, HeadsMove DEF Alters
<1>3. /\ DOMAIN docs' = 1 .. Len(docs') /\ Len(docs') \in Nat /\ DOMAIN docs \subseteq DOMAIN docs'
      /\ \A e \in DOMAIN docs : docs'[e].of = docs[e].of /\ (e # d => docs'[e] = docs[e])
  BY <1>1 DEF Alters, OfsMove, KeepsBut, OfEarlier
<1>4. /\ \A e \in DOMAIN docs : Heads[e] = EffectHead(e)
      /\ \A e \in DOMAIN docs' : Heads'[e] = EffectHead(e)'
  BY DEF Heads
<1>5. \A e \in DOMAIN docs : Heads'[e] = IF Heads[e] = h THEN x ELSE Heads[e]
  BY <1>2, <1>3, <1>4 DEF HeadsFollow
<1>6. \A e \in DOMAIN docs' : e \notin DOMAIN docs => Heads'[e] = e /\ e \in {x, y}
  BY <1>2, <1>4 DEF HeadsFollow, Alters
<1>7. IF h = NoDoc THEN x \in {NoDoc, y}
      ELSE /\ d # NoDoc /\ h = Heads[d]
           /\ x \in DOMAIN docs' /\ x \notin DOMAIN docs /\ x # y /\ docs'[x].of # NoDoc
  BY <1>4 DEF Alters, OfsMove, IsRoot
<1>8. y # NoDoc => IsRoot(docs', y) /\ (y \in DOMAIN docs => y = d /\ h = NoDoc /\ Heads[y] = y)
  BY <1>4 DEF Alters, IsRoot
<1>9. d = NoDoc \/ IsRoot(docs, d)
  BY DEF Alters
<1> HIDE DEF Heads
<1> QED BY <1>2, <1>3, <1>5, <1>6, <1>7, <1>8, <1>9 DEF Change

LEMMA AltersBooks ==
    ASSUME TypeInv, TypeInv', EffectInv, NEW d, NEW h, NEW x, NEW y, NEW status,
           Change(docs, docs', Heads, Heads', d, h, x, y), Outcome(d, y, status)
    PROVE  Sound(docs, docs', d, y) /\ Steady(docs, docs', y) /\ LinesGood(docs')
<1>1. /\ \A e \in DOMAIN docs : docs'[e].of = docs[e].of /\ (e # d => docs'[e] = docs[e])
      /\ \A e \in DOMAIN docs' : e \notin DOMAIN docs => e \in {x, y}
      /\ d = NoDoc \/ IsRoot(docs, d)
      /\ y # NoDoc => y \in DOMAIN docs' /\ docs'[y].of = NoDoc
      /\ h # NoDoc => docs'[x].of # NoDoc
      /\ h = NoDoc => x \in {NoDoc, y}
  BY DEF Change, IsRoot
<1>2. Sound(docs, docs', d, y)
  BY DEF Sound, Outcome, Turned
<1>3. Steady(docs, docs', y)
  BY <1>1, OfsEarlier DEF Steady, Outcome, Turned
<1>4. \A e \in DOMAIN docs' : IsDocument(docs'[e])
  BY DEF TypeInv, DocsOK
<1>5. ASSUME NEW e \in DOMAIN docs', docs'[e].of = NoDoc, docs'[e].type = "purchase"
      PROVE  IsLines(docs'[e].lines, Bought)
  <2>1. NoDoc \notin DOMAIN docs'
    BY OfsEarlierThen
  <2>2. CASE e = y
    BY <1>5, <2>1, <2>2 DEF Outcome
  <2>3. CASE e \in DOMAIN docs /\ e # y
    BY <1>1, <1>3, <1>5, <2>3 DEF Steady, EffectInv, BooksGood, LinesGood
  <2>4. CASE e \notin DOMAIN docs /\ e # y
    BY <1>1, <1>5, <2>1, <2>4
  <2> QED BY <2>2, <2>3, <2>4
<1>6. \A e \in DOMAIN docs' : /\ IsLines(docs'[e].lines, Bought) \/ IsLines(docs'[e].lines, Used)
                              /\ docs'[e].fund \in Nat
  BY <1>4, FieldsOfDocument DEF FieldsOK
<1> QED BY <1>2, <1>3, <1>5, <1>6 DEF LinesGood

LEMMA EffectStep ==
    ASSUME TypeInv, TypeInv', EffectInv, NEW d, NEW h, NEW x, NEW y, NEW status, NEW R, NEW Q,
           Alters(d, h, x, y), Outcome(d, y, status), Course(docs, docs', d, h, y),
           Posts2(R, Q, x, y), Rows2(d, y, R, Q), Whole(y)
    PROVE  EffectInv'
<1>1. Unforked' /\ Change(docs, docs', Heads, Heads', d, h, x, y)
  BY AltersChange DEF EffectInv
<1>2. Sound(docs, docs', d, y) /\ Steady(docs, docs', y) /\ LinesGood(docs')
  BY <1>1, AltersBooks
<1>3. BooksStep(docs, docs', Heads, Heads', d, h, x, y, stock, stock', R, custody, custody', Q)
  BY <1>1, <1>2 DEF BooksStep, Posts2, Rows2, Whole
<1>4. BooksGood(docs', Heads', stock', custody')
  BY <1>3, BooksKept DEF EffectInv
<1> QED BY <1>1, <1>4 DEF EffectInv

--------------------
\* The effects after the writes of each operation.

LEMMA BooksNumbered == ASSUME EffectInv PROVE Numbered(stock) /\ Numbered(custody)
  BY DEF EffectInv, BooksGood, RowsGood

\* The rows a request has read of the head of d are those the invariant speaks of.
LEMMA OwnedHead ==
    ASSUME NEW d \in DOMAIN docs
    PROVE  /\ Owned(stock, EffectHead(d)) = HeadRows(docs, stock, Heads[d])
           /\ Owned(custody, EffectHead(d)) = HeadRows(docs, custody, Heads[d])
<1>1. Heads[d] = EffectHead(d)
  BY DEF Heads
<1> HIDE DEF Heads
<1> QED BY <1>1 DEF Owned, HeadRows

LEMMA WholeOf ==
    ASSUME NEW y \in DOMAIN docs', docs'[y].status = "received", docs'[y].of = NoDoc,
           NEW lines, NEW kind, NEW total, Shipment(lines, kind, total),
           docs'[y].lines = lines, KindOf(docs'[y].type, kind),
           Bill(docs'[y].method, docs'[y].fund, lines) = total
    PROVE  Whole(y)
<1>1. ASSUME NEW i \in Items PROVE MovesIn(docs', i)[y] = Worth(QtyIn(stock', i), Fresh(stock, stock'))
  BY DEF Shipment, Ships, MovesIn, Shipped, KindOf
<1>2. SpendsIn(docs')[y] = Worth(AmountIn(custody'), Fresh(custody, custody'))
  BY DEF SpendsIn, Shipment
<1> QED BY <1>1, <1>2 DEF Whole, Begins

\* A new document without a predecessor.
LEMMA AltersByOne ==
    ASSUME TypeInv, NEW y, KeepsBut({}), NewIds({y}), docs'[y].of = NoDoc
    PROVE  Alters(NoDoc, NoDoc, y, y)
<1>1. OfsMove(NoDoc, y)
  BY DEF OfsMove, NewIds, KeepsBut, NoDoc
<1>2. NoDoc \in Nat
  BY DEF NoDoc
<1> QED BY <1>1, <1>2 DEF Alters, NewIds, KeepsBut

LEMMA GainsEffect == ASSUME TypeInv, TypeInv', EffectInv, NEW y, Gains(y) PROVE EffectInv'
<1>1. Course(docs, docs', NoDoc, NoDoc, y) /\ Rows2(NoDoc, y, {}, {})
  BY DEF Course, Rows2, Takes
<1> QED BY <1>1, EffectStep DEF Gains

LEMMA RegistrationPosts ==
    ASSUME NEW d \in Nat, NEW kind \in {"issue", "cancellation"}, NEW lines,
           IsLines(lines, Used), NEW cost, \A i \in DOMAIN lines : cost[i] \in Nat, NEW x
    PROVE  \E n : /\ Entries(Issues(d, kind, lines, cost), n, {}, x, d)
                  /\ Bears(Issues(d, kind, lines, cost), n, lines, kind)
<1>1. PICK n : n = Cardinality(DOMAIN lines)
  OBVIOUS
<1>2. MoveList(Issues(d, kind, lines, cost), n)
  BY <1>1, IssuesMove DEF MovesOver
<1>3. /\ Onward(Issues(d, kind, lines, cost), n, d)
      /\ Bears(Issues(d, kind, lines, cost), n, lines, kind)
  BY <1>1, IssuesBear
<1> QED BY <1>2, <1>3, OnwardEntries

LEMMA NoFundEntries ==
    ASSUME NEW x, NEW y PROVE FundEntries(<<>>, 0, {}, x, y) /\ Bills(<<>>, 0, 0)
<1>1. Billed(<<>>, 0, y, 0, TRUE)
  BY NoneBilled
<1> QED BY <1>1, OnwardEntries DEF Billed, FundsOver

LEMMA RegistrationGains ==
    ASSUME TypeInv, TypeInv', EffectInv, NEW r \in Attempts, CommitRegistration(r)
    PROVE  \E y : Gains(y)
<1> DEFINE q == attempt[r].request
           y == Len(docs) + 1
           ms == Issues(y, q.kind, q.lines, attempt[r].seen.cost)
<1>1. /\ RegistrationDocs(q) /\ Numbered(stock) /\ Numbered(custody)
  BY CommitRegistrationDocs, BooksNumbered
<1>2. q \in Requests /\ q.op = "register" /\ At(r, "commit") /\ SeenOK(attempt[r])
  BY DoingRequest, ReadAtCommit DEF CommitRegistration, At
<1>3. /\ IsLines(q.lines, Used) /\ q.kind \in {"issue", "cancellation"}
      /\ \A i \in DOMAIN q.lines : attempt[r].seen.cost[i] \in Nat
  BY <1>2, LinesOf DEF SeenOK, At
<1>4. Post(r, ms, <<>>)
  BY <1>1 DEF CommitRegistration, RegistrationDocs
<1>5. y \in Nat /\ y # NoDoc /\ y \notin DOMAIN docs
  BY OfsEarlier DEF OfEarlier, NoDoc
<1>6. PICK n : Entries(ms, n, {}, y, y) /\ Bears(ms, n, q.lines, q.kind)
  BY <1>3, <1>5, RegistrationPosts
<1>7. {} \in SUBSET DOMAIN stock /\ {} \in SUBSET DOMAIN custody
  OBVIOUS
<1> HIDE DEF ms
<1>8. Posts2({}, {}, y, y) /\ Shipment(q.lines, q.kind, 0)
  BY <1>1, <1>2, <1>4, <1>6, <1>7, NoFundEntries, PostingBooks
<1>9. /\ KeepsBut({}) /\ NewIds({y}) /\ Appended(y, "document", q, q.kind, "received", NoDoc, q.lines, "none", 0)
  BY <1>1 DEF RegistrationDocs
<1> HIDE DEF y
<1>10. Alters(NoDoc, NoDoc, y, y)
  BY <1>9, AltersByOne DEF Appended
<1>11. Outcome(NoDoc, y, "received")
  BY <1>3, <1>9 DEF Outcome, Appended
<1>12. Whole(y)
  BY <1>3, <1>8, <1>9, WholeOf DEF NewIds, Bill, Appended, KindOf
<1> QED BY <1>8, <1>10, <1>11, <1>12 DEF Gains

LEMMA OrderGains ==
    ASSUME TypeInv, TypeInv', EffectInv, UNCHANGED <<stock, custody>>, NEW q \in Requests,
           q.op = "order", OrderDocs(q)
    PROVE  \E y : Gains(y)
<1> DEFINE y == Len(docs) + 1
<1>1. Numbered(stock) /\ Numbered(custody) /\ IsLines(q.lines, Bought)
  BY BooksNumbered, LinesOf
<1>2. /\ KeepsBut({}) /\ NewIds({y})
      /\ Appended(y, "document", q, "purchase", "prepared", NoDoc, q.lines, q.method, q.fund)
  BY DEF OrderDocs
<1> HIDE DEF y
<1>3. Posts2({}, {}, y, y) /\ Fresh(stock, stock') = {} /\ Fresh(custody, custody') = {}
  BY <1>1, NothingCounted
<1>4. Alters(NoDoc, NoDoc, y, y)
  BY <1>2, AltersByOne DEF Appended
<1>5. Outcome(NoDoc, y, "received")
  BY <1>1, <1>2 DEF Outcome, Appended
<1>6. Whole(y)
  BY <1>2, <1>3 DEF Whole, Begins, Appended
<1> QED BY <1>3, <1>4, <1>5, <1>6 DEF Gains

\* Nothing happens to the documents.
LEMMA AltersNone == ASSUME TypeInv, UNCHANGED docs PROVE Alters(NoDoc, NoDoc, NoDoc, NoDoc)
  BY DEF Alters, OfsMove, KeepsBut, NoDoc

LEMMA DocsApart ==
    ASSUME TypeInv, UNCHANGED docs, Posts2({}, {}, NoDoc, NoDoc)
    PROVE  Gains(NoDoc)
  BY AltersNone DEF Gains, Outcome, Whole, Begins

LEMMA QuietGains ==
    ASSUME TypeInv, EffectInv, UNCHANGED <<docs, stock, custody>> PROVE Gains(NoDoc)
  BY BooksNumbered, NothingCounted, DocsApart

LEMMA CountGains ==
    ASSUME TypeInv, TypeInv', EffectInv, NEW r \in Attempts, CommitCount(r) PROVE Gains(NoDoc)
<1> DEFINE q == attempt[r].request
           ms == Stocktakes(q.lines)
<1>1. q \in Requests /\ q.op = "count" /\ At(r, "commit")
  BY DoingRequest DEF CommitCount
<1>2. IsLines(q.lines, [qty : Nat]) /\ Numbered(stock) /\ Numbered(custody)
  BY <1>1, LinesOf, BooksNumbered
<1>3. Post(r, ms, <<>>) /\ UNCHANGED docs
  BY DEF CommitCount
<1>4. PICK n : Entries(ms, n, {}, NoDoc, NoDoc)
  BY <1>2, StocktakesMove, StocktakesOnward, OnwardEntries DEF MovesOver
<1>5. {} \in SUBSET DOMAIN stock /\ {} \in SUBSET DOMAIN custody
  OBVIOUS
<1> HIDE DEF ms
<1>6. Posts2({}, {}, NoDoc, NoDoc)
  BY <1>1, <1>2, <1>3, <1>4, <1>5, NoFundEntries, PostingBooks
<1> QED BY <1>3, <1>6, DocsApart

LEMMA ReceiptPosts ==
    ASSUME NEW d \in Nat, NEW lines, IsLines(lines, Bought), NEW x
    PROVE  \E n : /\ Entries(Receipts(d, lines), n, {}, x, d)
                  /\ Bears(Receipts(d, lines), n, lines, "receipt")
<1>1. PICK n : n = Cardinality(DOMAIN lines)
  OBVIOUS
<1>2. MoveList(Receipts(d, lines), n)
  BY <1>1, ReceiptsMove DEF MovesOver
<1>3. Onward(Receipts(d, lines), n, d) /\ Bears(Receipts(d, lines), n, lines, "receipt")
  BY <1>1, ReceiptsBear
<1> QED BY <1>2, <1>3, OnwardEntries

LEMMA PurchasePosts ==
    ASSUME NEW d \in Nat, NEW method, NEW fund \in Nat, NEW lines, IsLines(lines, Bought), NEW x
    PROVE  \E k : /\ FundEntries(FundsPurchase(d, method, fund, lines), k, {}, x, d)
                  /\ Bills(FundsPurchase(d, method, fund, lines), k, Bill(method, fund, lines))
  BY PurchaseBilled, OnwardEntries DEF Billed, FundsOver

LEMMA FundOfType == ASSUME NEW a, ReadOK(a) PROVE FundOf(a) \in Nat
  BY DEF ReadOK, FundOf

\* A root that is in no chain is its own head.
LEMMA OwnHead ==
    ASSUME EffectInv, NEW d, IsRoot(docs, d), docs[d].status = "prepared"
    PROVE  EffectHead(d) = d
<1>1. Heads[d] = EffectHead(d) /\ Heads[d] = d
  BY DEF EffectInv, BooksGood, HeadsGood, Heads, IsRoot
<1> QED BY <1>1

LEMMA ReceiptEffect ==
    ASSUME TypeInv, TypeInv', EffectInv, NEW r \in Attempts, CommitReceipt(r),
           Certified(attempt[r].request, attempt[r].read)
    PROVE  EffectInv'
<1> DEFINE q == attempt[r].request
           a == attempt[r].read
           d == q.doc
           ms == Receipts(d, q.lines)
           fs == FundsPurchase(d, a.method, FundOf(a), q.lines)
<1>1. /\ ReceiptDocs(q, a) /\ Numbered(stock) /\ Numbered(custody)
  BY CommitReceiptDocs, BooksNumbered
<1>2. q \in Requests /\ q.op = "receive" /\ At(r, "commit") /\ ReadOK(a)
  BY DoingRequest, ReadAtCommit DEF CommitReceipt, At
<1>3. IsLines(q.lines, Bought) /\ FundOf(a) \in Nat
  BY <1>2, LinesOf, FundOfType
<1>4. Post(r, ms, fs)
  BY DEF CommitReceipt, FundOf
<1>5. /\ d \in DOMAIN docs /\ IsRoot(docs, d) /\ docs[d].type = "purchase"
      /\ docs[d].status = "prepared" /\ EffectHead(d) = d
  BY <1>2, OwnHead DEF Certified, Standing, IsRoot
<1>6. d \in Nat /\ d # NoDoc
  BY <1>5, OfsEarlier DEF OfEarlier
<1>7. PICK n : Entries(ms, n, {}, NoDoc, d) /\ Bears(ms, n, q.lines, "receipt")
  BY <1>3, <1>6, ReceiptPosts
<1>8. PICK k : FundEntries(fs, k, {}, NoDoc, d) /\ Bills(fs, k, Bill(a.method, FundOf(a), q.lines))
  BY <1>3, <1>6, PurchasePosts
<1>9. {} \in SUBSET DOMAIN stock /\ {} \in SUBSET DOMAIN custody
  OBVIOUS
<1> HIDE DEF ms, fs
<1>10. /\ Posts2({}, {}, NoDoc, d)
       /\ Shipment(q.lines, "receipt", Bill(a.method, FundOf(a), q.lines))
  BY <1>1, <1>2, <1>4, <1>7, <1>8, <1>9, PostingBooks
<1>11. KeepsBut({d}) /\ NewIds({}) /\ Received(d, q, a.method, FundOf(a))
  BY <1>1 DEF ReceiptDocs
<1> HIDE DEF d
<1>12. Alters(d, NoDoc, NoDoc, d)
  BY <1>5, <1>11 DEF NewIds, KeepsBut, Received, OfsMove, NoDoc, Alters, IsRoot
<1>13. Outcome(d, d, "received")
  BY <1>3, <1>5, <1>11 DEF Outcome, Received
<1>14. Course(docs, docs', d, NoDoc, d) /\ Rows2(d, d, {}, {})
  BY <1>5, <1>11 DEF Course, Rows2, Takes, Received
<1>15. Whole(d)
  BY <1>5, <1>10, <1>11, WholeOf DEF NewIds, Received, IsRoot, KindOf
<1> QED BY <1>10, <1>12, <1>13, <1>14, <1>15, EffectStep

\* What is taken back, and then received or issued.
LEMMA TakenBack ==
    ASSUME LedgersTypeOK, NEW x \in Nat, NEW R \in SUBSET DOMAIN stock
    PROVE  \E m : /\ MovesOver(Reversals(x, R), m, ItemsOf(R))
                  /\ TakesAllBack(Reversals(x, R), m, R, x) /\ InPlace(Reversals(x, R), m)
  BY ReversalsMove, ReversalsBack

LEMMA FundsTakenBack ==
    ASSUME LedgersTypeOK, NEW x \in Nat, NEW Q \in SUBSET DOMAIN custody
    PROVE  \E m : /\ FundsOver(FundsReversals(x, Q), m, Q # {})
                  /\ TakesAllBack(FundsReversals(x, Q), m, Q, x) /\ TakesBack(FundsReversals(x, Q), m)
  BY FundsReversalsList, FundsReversalsBack

LEMMA CorrectionPosts ==
    ASSUME LedgersTypeOK, NEW x \in Nat, NEW R \in SUBSET DOMAIN stock,
           NEW lines, IsLines(lines, Bought)
    PROVE  \E n : /\ Entries(Reversals(x, R) \o Receipts(x, lines), n, R, x, x)
                  /\ Bears(Reversals(x, R) \o Receipts(x, lines), n, lines, "receipt")
<1>1. PICK s, m : s = Reversals(x, R) /\ MovesOver(s, m, ItemsOf(R)) /\ TakesAllBack(s, m, R, x)
                  /\ InPlace(s, m)
  BY TakenBack
<1>2. PICK t, n : t = Receipts(x, lines) /\ MovesOver(t, n, DOMAIN lines) /\ Onward(t, n, x)
                  /\ Bears(t, n, lines, "receipt")
  BY ReceiptsMove, ReceiptsBear
<1>3. Entries(s \o t, m + n, R, x, x) /\ Bears(s \o t, m + n, lines, "receipt")
  BY <1>1, <1>2, JoinedEntries
<1> QED BY <1>1, <1>2, <1>3

LEMMA CorrectionFunds ==
    ASSUME LedgersTypeOK, NEW x \in Nat, NEW Q \in SUBSET DOMAIN custody,
           NEW method, NEW fund \in Nat, NEW lines, IsLines(lines, Bought),
           NEW fs, fs = FundsReversals(x, Q) \o FundsPurchase(x, method, fund, lines)
    PROVE  \E k : FundEntries(fs, k, Q, x, x) /\ Bills(fs, k, Bill(method, fund, lines))
<1>1. PICK s, m : s = FundsReversals(x, Q) /\ FundsOver(s, m, Q # {}) /\ TakesAllBack(s, m, Q, x)
                  /\ TakesBack(s, m)
  BY FundsTakenBack
<1>2. PICK t, n : t = FundsPurchase(x, method, fund, lines)
                  /\ Billed(t, n, x, Bill(method, fund, lines), method = "custody")
  BY PurchaseBilled
<1>3. FundEntries(s \o t, m + n, Q, x, x) /\ Bills(s \o t, m + n, Bill(method, fund, lines))
  BY <1>1, <1>2, JoinedFunds DEF Billed
<1> QED BY <1>1, <1>2, <1>3

LEMMA AmendPosts ==
    ASSUME LedgersTypeOK, NEW x \in Nat, NEW R \in SUBSET DOMAIN stock,
           NEW y \in Nat, NEW lines, IsLines(lines, Used), NEW cost,
           \A i \in DOMAIN lines : cost[i] \in Nat
    PROVE  \E n : /\ Entries(Reversals(x, R) \o Issues(y, "issue", lines, cost), n, R, x, y)
                  /\ Bears(Reversals(x, R) \o Issues(y, "issue", lines, cost), n, lines, "issue")
<1>1. PICK s, m : s = Reversals(x, R) /\ MovesOver(s, m, ItemsOf(R)) /\ TakesAllBack(s, m, R, x)
                  /\ InPlace(s, m)
  BY TakenBack
<1>2. PICK t, n : t = Issues(y, "issue", lines, cost) /\ MovesOver(t, n, DOMAIN lines)
                  /\ Onward(t, n, y) /\ Bears(t, n, lines, "issue")
  BY IssuesMove, IssuesBear
<1>3. Entries(s \o t, m + n, R, x, y) /\ Bears(s \o t, m + n, lines, "issue")
  BY <1>1, <1>2, JoinedEntries
<1> QED BY <1>1, <1>2, <1>3

LEMMA CertifiedKnows ==
    ASSUME TypeInv, NEW q, q.op \in {"correct", "reverse", "undo", "amend"}, NEW a, ReadOK(a),
           Certified(q, a)
    PROVE  Knows(q, a, q.doc)
<1>1. PICK d : d = q.doc /\ d \in DOMAIN docs /\ docs[d].of = NoDoc
  BY DEF Certified, Standing
<1>2. OfEarlier /\ NoDoc \notin DOMAIN docs /\ DOMAIN docs = 1 .. Len(docs)
  BY OfsEarlier DEF OfEarlier
<1>3. EffectHead(d) \in DOMAIN docs /\ ~Undone(EffectHead(d))
  BY <1>1, <1>2, HeadIsLast DEF HeadOf
<1>4. /\ Owned(stock, EffectHead(d)) = HeadRows(docs, stock, Heads[d])
      /\ Owned(custody, EffectHead(d)) = HeadRows(docs, custody, Heads[d])
  BY <1>1, OwnedHead
<1>5. HeadRead(q, a, EffectHead(d))
  BY <1>1 DEF Certified
<1>6. /\ a.rows = Owned(stock, EffectHead(d))
      /\ q.op # "amend" => a.owed = Owned(custody, EffectHead(d))
      /\ q.op # "correct" => a.head = EffectHead(d)
  BY <1>5 DEF HeadRead
<1>7. a.rows \in SUBSET DOMAIN stock /\ a.owed \in SUBSET DOMAIN custody
  BY DEF ReadOK
<1>8. EffectHead(d) # NoDoc /\ EffectHead(d) \in Nat /\ d # NoDoc
  BY <1>1, <1>2, <1>3
<1>9. IsRoot(docs, d)
  BY <1>1 DEF IsRoot
<1> QED BY <1>1, <1>3, <1>4, <1>6, <1>7, <1>8, <1>9 DEF Knows

LEMMA CommitKnows ==
    ASSUME TypeInv, NEW r \in Attempts, At(r, "commit"),
           attempt[r].request.op \in {"correct", "reverse", "undo", "amend"},
           Certified(attempt[r].request, attempt[r].read)
    PROVE  Knows(attempt[r].request, attempt[r].read, attempt[r].request.doc)
  BY ReadAtCommit, CertifiedKnows DEF At

LEMMA NextId ==
    ASSUME TypeInv
    PROVE  /\ Len(docs) + 1 \in Nat /\ Len(docs) + 1 # NoDoc /\ Len(docs) + 1 \notin DOMAIN docs
           /\ Len(docs) + 2 \in Nat /\ Len(docs) + 2 # NoDoc /\ Len(docs) + 2 \notin DOMAIN docs
           /\ Len(docs) + 1 # Len(docs) + 2
<1>1. Len(docs) \in Nat /\ DOMAIN docs = 1 .. Len(docs)
  BY OfsEarlier DEF OfEarlier
<1> QED BY <1>1 DEF NoDoc

LEMMA CorrectionEffect ==
    ASSUME TypeInv, TypeInv', EffectInv, NEW r \in Attempts, CommitCorrection(r),
           Certified(attempt[r].request, attempt[r].read)
    PROVE  EffectInv'
<1> DEFINE q == attempt[r].request
           a == attempt[r].read
           d == q.doc
           y == Len(docs) + 1
           ms == Reversals(y, a.rows) \o Receipts(y, q.lines)
           fs == FundsReversals(y, a.owed) \o FundsPurchase(y, a.method, FundOf(a), q.lines)
<1>1. CorrectionDocs(q, a) /\ Numbered(stock) /\ Numbered(custody)
  BY CommitCorrectionDocs, BooksNumbered
<1>2. q \in Requests /\ q.op = "correct" /\ At(r, "commit") /\ ReadOK(a) /\ LedgersTypeOK
  BY DoingRequest, ReadAtCommit DEF CommitCorrection, At, TypeInv
<1>3. IsLines(q.lines, Bought) /\ FundOf(a) \in Nat
  BY <1>2, LinesOf, FundOfType
<1>4. Post(r, ms, fs)
  BY DEF CommitCorrection, FundOf
<1>5. docs[d].type = "purchase" /\ docs[d].status = "received" /\ Knows(q, a, d)
  BY <1>2, CommitKnows DEF Certified, Standing
<1>6. y \in Nat /\ y # NoDoc /\ y \notin DOMAIN docs
  BY NextId
<1>7. PICK n : Entries(ms, n, a.rows, y, y) /\ Bears(ms, n, q.lines, "receipt")
  BY <1>2, <1>3, <1>5, <1>6, CorrectionPosts DEF Knows
<1>8. PICK k : FundEntries(fs, k, a.owed, y, y) /\ Bills(fs, k, Bill(a.method, FundOf(a), q.lines))
  BY <1>2, <1>3, <1>5, <1>6, CorrectionFunds DEF Knows
<1>9. a.rows \in SUBSET DOMAIN stock /\ a.owed \in SUBSET DOMAIN custody
  BY <1>5 DEF Knows
<1> HIDE DEF ms, fs
<1>10. /\ Posts2(a.rows, a.owed, y, y)
       /\ Shipment(q.lines, "receipt", Bill(a.method, FundOf(a), q.lines))
  BY <1>1, <1>2, <1>4, <1>7, <1>8, <1>9, PostingBooks
<1>11. /\ KeepsBut({d}) /\ NewIds({y}) /\ Turned(d, "reversed", TRUE)
       /\ Appended(y, "document", q, "purchase", "received", NoDoc, q.lines, a.method, FundOf(a))
  BY <1>1 DEF CorrectionDocs
<1>0. d # y /\ d # NoDoc /\ d \in DOMAIN docs /\ IsRoot(docs, d)
  BY <1>5, <1>6 DEF Knows
<1> HIDE DEF d, y
<1>12. Alters(d, NoDoc, y, y)
  BY <1>0, <1>6, <1>11 DEF KeepsBut, Turned, OfsMove, NoDoc, NewIds, Appended, Alters
<1>13. Outcome(d, y, "reversed")
  BY <1>0, <1>3, <1>11 DEF Outcome, Appended
<1>14. Course(docs, docs', d, NoDoc, y)
  BY <1>0, <1>5, <1>11 DEF Course, Turned
<1>15. Rows2(d, y, a.rows, a.owed)
  BY <1>0, <1>2, <1>5 DEF Rows2, Takes, Knows
<1>16. Whole(y)
  BY <1>10, <1>11, WholeOf DEF NewIds, Appended, KindOf
<1> QED BY <1>10, <1>12, <1>13, <1>14, <1>15, <1>16, EffectStep

LEMMA ToggleEffect ==
    ASSUME TypeInv, TypeInv', EffectInv, NEW r \in Attempts, CommitToggle(r),
           Certified(attempt[r].request, attempt[r].read)
    PROVE  EffectInv'
<1> DEFINE q == attempt[r].request
           a == attempt[r].read
           d == q.doc
           x == Len(docs) + 1
           ms == Reversals(x, a.rows)
           fs == FundsReversals(x, a.owed)
<1>1. ToggleDocs(q, a) /\ Numbered(stock) /\ Numbered(custody)
  BY CommitToggleDocs, BooksNumbered
<1>2. q \in Requests /\ q.op \in {"reverse", "undo"} /\ At(r, "commit") /\ LedgersTypeOK
  BY DoingRequest DEF CommitToggle, TypeInv
<1>4. Post(r, ms, fs)
  BY DEF CommitToggle
<1>5. Knows(q, a, d) /\ Standing(q)
  BY <1>2, CommitKnows DEF Certified
<1>6. x \in Nat /\ x # NoDoc /\ x \notin DOMAIN docs
  BY NextId
<1>9. a.rows \in SUBSET DOMAIN stock /\ a.owed \in SUBSET DOMAIN custody
  BY <1>5 DEF Knows
<1>7. PICK n : Entries(ms, n, a.rows, x, NoDoc)
  BY <1>2, <1>6, <1>9, TakenBack, TakenEntries DEF MovesOver
<1>8. PICK k : FundEntries(fs, k, a.owed, x, NoDoc)
  BY <1>2, <1>6, <1>9, FundsTakenBack, TakenEntries DEF FundsOver
<1> HIDE DEF ms, fs
<1>10. Posts2(a.rows, a.owed, x, NoDoc)
  BY <1>1, <1>2, <1>4, <1>7, <1>8, <1>9, PostingBooks
<1>11. /\ KeepsBut({d}) /\ NewIds({x}) /\ Turned(d, ToggledTo(q), docs[d].corrected)
       /\ Appended(x, "document", q, docs[d].type, "reversed", a.head, <<>>, docs[d].method, 0)
  BY <1>1 DEF ToggleDocs
<1>0. /\ d # x /\ d # NoDoc /\ d \in DOMAIN docs /\ IsRoot(docs, d)
      /\ a.head = EffectHead(d) /\ a.head \in DOMAIN docs /\ a.head # NoDoc /\ a.head \in Nat
      /\ ~Undone(a.head)
  BY <1>2, <1>5, <1>6 DEF Knows
<1>12. \/ docs[d].status = "received" /\ ToggledTo(q) = "reversed"
       \/ docs[d].status = "reversed" /\ ~docs[d].corrected /\ ToggledTo(q) = "received"
  BY <1>2, <1>5 DEF Standing, ToggledTo
<1> HIDE DEF d, x
<1>13. Alters(d, a.head, x, NoDoc)
  BY <1>0, <1>6, <1>11 DEF KeepsBut, Turned, OfsMove, NewIds, Appended, Alters
<1>14. Outcome(d, NoDoc, ToggledTo(q))
  BY <1>0, <1>11, <1>12 DEF Outcome
<1>15. Course(docs, docs', d, a.head, NoDoc)
  BY <1>0, <1>11, <1>12 DEF Course, Turned
<1>16. Rows2(d, NoDoc, a.rows, a.owed) /\ Whole(NoDoc)
  BY <1>0, <1>2, <1>5 DEF Rows2, Takes, Knows, Whole, Begins
<1> QED BY <1>10, <1>13, <1>14, <1>15, <1>16, EffectStep

LEMMA AmendEffect ==
    ASSUME TypeInv, TypeInv', EffectInv, NEW r \in Attempts, CommitAmend(r),
           Certified(attempt[r].request, attempt[r].read)
    PROVE  EffectInv'
<1> DEFINE q == attempt[r].request
           a == attempt[r].read
           d == q.doc
           x == Len(docs) + 1
           y == Len(docs) + 2
           ms == Reversals(x, a.rows) \o Issues(y, "issue", q.lines, attempt[r].seen.cost)
<1>1. AmendDocs(q, a) /\ Numbered(stock) /\ Numbered(custody)
  BY CommitAmendDocs, BooksNumbered
<1>2. q \in Requests /\ q.op = "amend" /\ At(r, "commit") /\ LedgersTypeOK /\ SeenOK(attempt[r])
  BY DoingRequest, ReadAtCommit DEF CommitAmend, At, TypeInv
<1>3. IsLines(q.lines, Used) /\ \A i \in DOMAIN q.lines : attempt[r].seen.cost[i] \in Nat
  BY <1>2, LinesOf DEF SeenOK, At
<1>4. Post(r, ms, <<>>)
  BY DEF CommitAmend
<1>5. Knows(q, a, d) /\ docs[d].type = "issue" /\ docs[d].status = "received"
  BY <1>2, CommitKnows DEF Certified, Standing
<1>6. /\ x \in Nat /\ x # NoDoc /\ x \notin DOMAIN docs /\ y \in Nat /\ y # NoDoc
      /\ y \notin DOMAIN docs /\ x # y
  BY NextId
<1>9. a.rows \in SUBSET DOMAIN stock /\ {} \in SUBSET DOMAIN custody
  BY <1>5 DEF Knows
<1>7. PICK n : Entries(ms, n, a.rows, x, y) /\ Bears(ms, n, q.lines, "issue")
  BY <1>2, <1>3, <1>6, <1>9, AmendPosts
<1> HIDE DEF ms
<1>10. Posts2(a.rows, {}, x, y) /\ Shipment(q.lines, "issue", 0)
  BY <1>1, <1>2, <1>4, <1>7, <1>9, NoFundEntries, PostingBooks
<1>11. /\ KeepsBut({d}) /\ NewIds({x, y}) /\ Turned(d, "reversed", TRUE)
       /\ Appended(x, "reversal", q, "issue", "reversed", a.head, <<>>, "none", 0)
       /\ Appended(y, "replacement", q, "issue", "received", NoDoc, q.lines, "none", 0)
  BY <1>1 DEF AmendDocs
<1>0. /\ d # y /\ d # NoDoc /\ d \in DOMAIN docs /\ IsRoot(docs, d)
      /\ a.head = EffectHead(d) /\ a.head \in DOMAIN docs /\ a.head # NoDoc /\ a.head \in Nat
      /\ ~Undone(a.head)
  BY <1>2, <1>5, <1>6 DEF Knows
<1>8. docs[d].method = "none"
  BY <1>0, <1>5 DEF EffectInv, BooksGood, HeadsGood
<1> HIDE DEF d, x, y
<1>13. Alters(d, a.head, x, y)
  BY <1>0, <1>6, <1>11 DEF KeepsBut, Turned, OfsMove, NewIds, Appended, Alters
<1>14. Outcome(d, y, "reversed")
  BY <1>0, <1>11 DEF Outcome, Appended
<1>15. Course(docs, docs', d, a.head, y)
  BY <1>0, <1>5, <1>11 DEF Course, Turned
<1>16. Rows2(d, y, a.rows, {})
  BY <1>0, <1>5, <1>8, <1>11 DEF Takes, Knows, Spared, Turned, Rows2
<1>17. Whole(y)
  BY <1>10, <1>11, WholeOf DEF NewIds, Bill, Appended, KindOf
<1> QED BY <1>10, <1>13, <1>14, <1>15, <1>16, <1>17, EffectStep

--------------------
\* What a request has read of the effect of its document stays true until it
\* writes.

LEMMA GainsHeads ==
    ASSUME TypeInv, TypeInv', EffectInv, NEW y, Gains(y), NEW d \in DOMAIN docs
    PROVE  HeadStays(d)
<1>1. NoDoc \notin DOMAIN docs /\ EffectHead(d) \in DOMAIN docs
  BY OfsEarlier, HeadIsLast DEF HeadOf
<1>2. Change(docs, docs', Heads, Heads', NoDoc, NoDoc, y, y)
  BY AltersChange DEF EffectInv, Gains
<1>3. d \in DOMAIN docs' /\ Heads[d] = EffectHead(d) /\ Heads'[d] = EffectHead(d)'
  BY <1>2 DEF Change, Heads
<1> HIDE DEF Heads
<1>4. PICK h : h = EffectHead(d)
  OBVIOUS
<1>5. EffectHead(d)' = h /\ docs'[h].of = docs[h].of /\ h # y
  BY <1>1, <1>2, <1>3, <1>4 DEF Change
<1>6. PICK i \in {1} : TRUE
  OBVIOUS
<1>7. /\ Counted(stock, stock', QtyIn(stock, i), QtyIn(stock', i), {}, y, y)
      /\ Counted(custody, custody', AmountIn(custody), AmountIn(custody'), {}, y, y)
  BY DEF Gains, Posts2, StockCounted
<1>8. /\ HeadRows(docs', stock', h) = HeadRows(docs, stock, h)
      /\ HeadRows(docs', custody', h) = HeadRows(docs, custody, h)
  BY <1>5, <1>7, HeadRowsOfOthers DEF Counted
<1>9. /\ Owned(stock, h) = HeadRows(docs, stock, h) /\ Owned(custody, h) = HeadRows(docs, custody, h)
      /\ Owned(stock, h)' = HeadRows(docs', stock', h)
      /\ Owned(custody, h)' = HeadRows(docs', custody', h)
  BY DEF Owned, HeadRows
<1>10. /\ Owned(stock, EffectHead(d))' = Owned(stock, h)'
       /\ Owned(custody, EffectHead(d))' = Owned(custody, h)'
  BY <1>5 DEF Owned
<1> QED BY <1>4, <1>5, <1>8, <1>9, <1>10 DEF HeadStays

LEMMA SureStays ==
    ASSUME TypeInv, TypeInv', EffectInv, NEW y, Gains(y), NEW a, Sure(a),
           a.request.op \in ByDocument /\ Past(a) => Standing(a.request)
    PROVE  Sure(a)'
<1> SUFFICES ASSUME Past(a), a.request.op \in ByDocument
             PROVE  HeadRead(a.request, a.read, EffectHead(a.request.doc))'
  BY DEF Sure, Past
<1>1. PICK d \in DOMAIN docs : d = a.request.doc
  BY DEF Standing
<1>2. HeadStays(d)
  BY <1>1, GainsHeads
<1>3. HeadRead(a.request, a.read, EffectHead(d))
  BY <1>1 DEF Sure
<1>4. HeadRead(a.request, a.read, EffectHead(d))'
  BY <1>2, <1>3 DEF HeadRead, HeadStays
<1> QED BY <1>1, <1>4

LEMMA RewritesAt ==
    ASSUME NEW r, Rewrites(r)
    PROVE  attempt[r].pc = "commit" /\ attempt[r].request.op \in ByDocument /\ Past(attempt[r])
  BY DEF Rewrites, CommitReceipt, CommitCorrection, CommitToggle, CommitAmend, Doing, At,
         ByDocument, Past

LEMMA GainsOrRewrites ==
    ASSUME TypeInv, TypeInv', EffectInv, NEW r \in Attempts, StepKind(r)
    PROVE  (\E y : Gains(y)) \/ Rewrites(r)
<1>1. CASE UNCHANGED <<docs, stock, custody>>
  BY <1>1, QuietGains
<1>2. CASE Prepare(r)
  <2>1. PICK q \in Requests : q = attempt[r].request /\ q.op = "order"
    BY <1>2, DoingRequest DEF Prepare
  <2>2. UNCHANGED <<stock, custody>> /\ (UNCHANGED docs \/ OrderDocs(q))
    BY <1>2, <2>1, PrepareDocs
  <2> QED BY <1>1, <2>1, <2>2, OrderGains
<1>3. UNCHANGED <<docs, stock, custody>> \/ Writes(r)
  BY DEF StepKind, Submit, Acquire, GivesUp, EndsQuietly, Sees, TakesLocks, Unwritten, tables, books
<1> QED BY <1>1, <1>2, <1>3, RegistrationGains, CountGains DEF Writes, Rewrites

LEMMA OwnSure ==
    ASSUME TypeInv, TypeInv', EffectInv, InformedInv, SureInv, NEW r \in Attempts, StepKind(r)
    PROVE  Sure(attempt[r])'
<1>1. PICK b : b = attempt'[r]
  OBVIOUS
<1>2. CASE Past(b)
  BY <1>1, <1>2, OwnPast, QuietGains, SureStays DEF Unwritten, tables, InformedInv, Informed,
     SureInv, Sure, Certified
<1>3. CASE ~Past(b)
  BY <1>1, <1>3 DEF Sure, Past
<1> QED BY <1>2, <1>3

LEMMA SureKept ==
    ASSUME TypeInv, TypeInv', LocksInv, WindowInv, InformedInv, EffectInv, SureInv,
           NEW r \in Attempts, StepKind(r)
    PROVE  SureInv'
<1>1. Sure(attempt[r])'
  BY OwnSure
<1>2. ASSUME NEW s \in Attempts, s # r PROVE Sure(attempt[s])'
  <2>1. PICK a : a = attempt[s] /\ a = attempt'[s]
    BY <1>2, StepKeepsWindow DEF LeavesOthers
  <2>2. Sure(a) /\ Informed(a)
    BY <2>1 DEF SureInv, InformedInv
  <2>3. CASE Past(a) /\ a.request.op \in ByDocument
    <3>1. lock[Window] = s
      BY <2>1, <2>3 DEF WindowInv, HasWindow
    <3>2. ~Rewrites(r)
      BY <1>2, <3>1, RewritesAt DEF WindowInv, HasWindow
    <3>3. (\E y : Gains(y)) \/ Rewrites(r)
      BY GainsOrRewrites
    <3>5. PICK y : Gains(y)
      BY <3>2, <3>3
    <3>4. Sure(a)'
      BY <2>2, <3>5, SureStays DEF Informed
    <3> QED BY <2>1, <3>4
  <2>4. CASE ~(Past(a) /\ a.request.op \in ByDocument)
    BY <2>1, <2>4 DEF Sure, Past
  <2> QED BY <2>3, <2>4
<1> QED BY <1>1, <1>2 DEF SureInv

LEMMA StepEffect ==
    ASSUME TypeInv, TypeInv', EffectInv, InformedInv, SureInv, NEW r \in Attempts, StepKind(r)
    PROVE  EffectInv'
<1>1. CASE Rewrites(r)
  BY <1>1, RewritesAt, ReceiptEffect, CorrectionEffect, ToggleEffect, AmendEffect DEF InformedInv,
     Informed, SureInv, Sure, Certified, Rewrites
<1>2. (\E y : Gains(y)) \/ Rewrites(r)
  BY GainsOrRewrites
<1> QED BY <1>1, <1>2, GainsEffect

LEMMA EffectsKept == EffectsInv /\ [Next]_vars => EffectsInv'
<1> SUFFICES ASSUME EffectsInv, [Next]_vars PROVE EffectsInv'
  OBVIOUS
<1>1. DocumentsInv' /\ TypeInv /\ TypeInv'
  BY DocumentsKept DEF EffectsInv, DocumentsInv
<1>2. CASE UNCHANGED vars \/ Expire
  <2>1. UNCHANGED <<docs, stock, custody, attempt>>
    BY <1>2 DEF vars, tables, Expire
  <2>2. Gains(NoDoc) /\ EffectInv'
    BY <1>1, <2>1, QuietGains, GainsEffect DEF EffectsInv
  <2>3. ASSUME NEW s \in Attempts PROVE Sure(attempt[s])'
    <3>1. PICK a : a = attempt[s] /\ a = attempt'[s]
      BY <2>1
    <3>2. Sure(a) /\ Informed(a)
      BY <3>1 DEF EffectsInv, SureInv, DocumentsInv, InformedInv
    <3>3. Sure(a)'
      BY <1>1, <2>2, <3>2, SureStays DEF Informed, EffectsInv
    <3> QED BY <3>1, <3>3
  <2> QED BY <1>1, <2>2, <2>3 DEF EffectsInv, SureInv
<1>3. ASSUME NEW r \in Attempts, StepKind(r) PROVE EffectInv' /\ SureInv'
  BY <1>1, <1>3, StepEffect, SureKept DEF EffectsInv, DocumentsInv
<1> QED BY <1>1, <1>2, <1>3, StepKinds DEF EffectsInv

--------------------
\* The effects of the documents follow their status.

\* Before anything is posted, the documents are orders that wait.
LEMMA NothingPosted ==
    ASSUME NEW D, NEW H, \A e : IsRoot(D, e) => D[e].status = "prepared",
           NEW rows, DOMAIN rows = {}, NEW w, NEW t
    PROVE  Settled(D, H, rows, w) /\ Exact(D, H, rows, w, t)
<1>1. Worth(w, {}) = 0
  BY WorthNothing
<1>2. \A e : OwnedBy(rows, e) = {} /\ HeadRows(D, rows, H[e]) = {}
  BY DEF OwnedBy, HeadRows
<1>3. \A e : Effect(rows, w, e) = 0 /\ Carried(D, H, rows, w, e) = 0
  BY <1>1, <1>2 DEF Effect, Carried
<1> QED BY <1>3 DEF Settled, Exact

LEMMA NothingWrong ==
    ASSUME NEW D, NEW H, NEW rows, rows = <<>>
    PROVE  RowsGood(D, H, rows) /\ DOMAIN rows = {}
<1>1. DOMAIN rows = {} /\ DOMAIN rows = 1 .. Len(rows) /\ Len(rows) \in Nat
  OBVIOUS
<1> QED BY <1>1 DEF RowsGood, Numbered, AllOwned, HeadRows

LEMMA InitEffects == Init => EffectsInv
<1> SUFFICES ASSUME Init PROVE EffectsInv
  OBVIOUS
<1>1. DocumentsInv /\ TypeInv
  BY InitDocuments DEF DocumentsInv
<1>2. /\ docs = OldOrders
      /\ \A d \in DOMAIN docs : /\ IsDocument(docs[d]) /\ IsLines(docs[d].lines, Bought)
                                /\ docs[d].type = "purchase" /\ docs[d].status = "prepared"
                                /\ docs[d].of = NoDoc
  BY OldOrdersPrepared DEF Init
<1>3. OfEarlier /\ NoDoc \notin DOMAIN docs /\ DOMAIN docs = 1 .. Len(docs) /\ Len(docs) \in Nat
  BY <1>1, OfsEarlier DEF OfEarlier
<1>4. \A d \in DOMAIN docs : EffectHead(d) = d
  BY <1>2, <1>3, HeadIsLast DEF HeadOf, Undone
<1>5. Unforked
  BY <1>2 DEF Unforked
<1>6. \A d \in DOMAIN docs : Heads[d] = d
  BY <1>4 DEF Heads
<1> HIDE DEF Heads
<1>7. HeadsGood(docs, Heads)
  BY <1>2, <1>3, <1>6 DEF HeadsGood, IsRoot
<1>8. LinesGood(docs)
  BY <1>2, FieldsOfDocument DEF LinesGood, FieldsOK
<1>9. stock = <<>> /\ custody = <<>>
  BY DEF Init
<1>10. /\ RowsGood(docs, Heads, stock) /\ DOMAIN stock = {}
       /\ RowsGood(docs, Heads, custody) /\ DOMAIN custody = {}
  BY <1>9, NothingWrong
<1>11. \A e : IsRoot(docs, e) => docs[e].status = "prepared"
  BY <1>2 DEF IsRoot
<1>12. BooksGood(docs, Heads, stock, custody)
  BY <1>7, <1>8, <1>10, <1>11, NothingPosted DEF BooksGood
<1>13. SureInv
  BY UnsentIdle DEF Init, SureInv, Sure, Past
<1> QED BY <1>1, <1>5, <1>12, <1>13 DEF EffectsInv, EffectInv

\* The sum over some of the rows, when the others weigh nothing.
LEMMA SumWithin ==
    ASSUME NEW w, NEW S, Weighs(w, S), NEW f, DOMAIN f \in SUBSET S,
           \A n \in DOMAIN f : f[n] = w[n], \A n \in S : n \notin DOMAIN f => w[n] = 0
    PROVE  SumOf(f) = Worth(w, S)
<1> DEFINE T == DOMAIN f
           U == S \ T
<1>1. IsFiniteSet(T) /\ IsFiniteSet(U)
  BY FS_Subset DEF Weighs
<1>2. Weighs(w, T) /\ Weighs(w, U) /\ Worth(w, U) = 0
  BY <1>1, WorthZero DEF Weighs
<1>3. S = T \cup U /\ T \cap U = {}
  OBVIOUS
<1>4. Worth(f, T) = Worth(w, T)
  BY <1>2, WorthSame
<1>5. SumOf(f) = Worth(f, T)
  BY DEF SumOf, Worth
<1>6. Worth(w, T) \in Int
  BY <1>2, WorthType
<1> HIDE DEF T, U
<1>7. Worth(w, T \cup U) = Worth(w, T) + Worth(w, U)
  BY <1>2, <1>3, WorthOfParts
<1> QED BY <1>2, <1>3, <1>4, <1>5, <1>6, <1>7

LEMMA ItemSums ==
    ASSUME LedgersTypeOK, Numbered(stock), NEW S \in SUBSET DOMAIN stock, NEW i
    PROVE  /\ SumOf([n \in {m \in S : stock[m].item = i} |-> stock[n].qty]) = Worth(QtyIn(stock, i), S)
           /\ SumOf([n \in {m \in S : stock[m].item = i} |-> stock[n].value]) = Worth(ValueIn(stock, i), S)
<1> DEFINE T == {m \in S : stock[m].item = i}
           f == [n \in T |-> stock[n].qty]
           g == [n \in T |-> stock[n].value]
           w == QtyIn(stock, i)
           v == ValueIn(stock, i)
<1>1. IsFiniteSet(S)
  <2>1. DOMAIN stock = 1 .. Len(stock) /\ Len(stock) \in Nat
    BY DEF Numbered
  <2>2. IsFiniteSet(DOMAIN stock)
    BY <2>1, FS_Interval
  <2> QED BY <2>2, FS_Subset
<1>2. ASSUME NEW n \in S PROVE stock[n].qty \in Int /\ stock[n].value \in Int
  <2>1. stock[n] \in StockRows
    BY Sums!ElementOf DEF LedgersTypeOK
  <2> QED BY <2>1 DEF StockRows
<1>3. \A n \in S : /\ w[n] = IF n \in T THEN stock[n].qty ELSE 0
                   /\ v[n] = IF n \in T THEN stock[n].value ELSE 0
  BY DEF QtyIn, ValueIn
<1>4. /\ DOMAIN f = T /\ DOMAIN g = T /\ T \in SUBSET S
      /\ \A n \in T : f[n] = stock[n].qty /\ g[n] = stock[n].value
  OBVIOUS
<1> HIDE DEF T, f, g, w, v
<1>5. Weighs(w, S) /\ Weighs(v, S)
  BY <1>1, <1>2, <1>3 DEF Weighs
<1>6. SumOf(f) = Worth(w, S) /\ SumOf(g) = Worth(v, S)
  BY <1>3, <1>4, <1>5, SumWithin
<1> QED BY <1>6 DEF T, f, g, w, v

LEMMA FundSum ==
    ASSUME LedgersTypeOK, Numbered(custody), NEW S \in SUBSET DOMAIN custody
    PROVE  SumOf([n \in S |-> custody[n].amount]) = Worth(AmountIn(custody), S)
<1> DEFINE f == [n \in S |-> custody[n].amount]
           w == AmountIn(custody)
<1>1. IsFiniteSet(S)
  <2>1. DOMAIN custody = 1 .. Len(custody) /\ Len(custody) \in Nat
    BY DEF Numbered
  <2>2. IsFiniteSet(DOMAIN custody)
    BY <2>1, FS_Interval
  <2> QED BY <2>2, FS_Subset
<1>2. ASSUME NEW n \in S PROVE custody[n].amount \in Int
  <2>1. custody[n] \in CustodyRows
    BY Sums!ElementOf DEF LedgersTypeOK
  <2> QED BY <2>1 DEF CustodyRows
<1>3. DOMAIN f = S /\ \A n \in S : w[n] = custody[n].amount /\ f[n] = custody[n].amount
  BY DEF AmountIn
<1> HIDE DEF f, w
<1>4. Weighs(w, S)
  BY <1>1, <1>2, <1>3 DEF Weighs
<1>5. SumOf(f) = Worth(w, S)
  BY <1>3, <1>4, SumWithin
<1> QED BY <1>5 DEF f, w

LEMMA EffectMatches == ASSUME TypeInv, EffectInv PROVE EffectMatchesStatus
<1>1. LedgersTypeOK /\ Numbered(stock) /\ Numbered(custody)
  BY BooksNumbered DEF TypeInv
<1>2. ASSUME NEW d \in DOMAIN docs, docs[d].of = NoDoc, NEW i \in Items
      PROVE  LET rows == {n \in OwnedBy(stock, d) : stock[n].item = i}
             IN  /\ SumOf([n \in rows |-> stock[n].qty])
                      = IF docs[d].status = "received" THEN Moves(d, i) ELSE 0
                 /\ docs[d].status = "received" \/ SumOf([n \in rows |-> stock[n].value]) = 0
  <2>1. IsRoot(docs, d) /\ OwnedBy(stock, d) \in SUBSET DOMAIN stock
    BY <1>2 DEF IsRoot, OwnedBy
  <2>2. /\ Settled(docs, Heads, stock, QtyIn(stock, i)) /\ Settled(docs, Heads, stock, ValueIn(stock, i))
        /\ Exact(docs, Heads, stock, QtyIn(stock, i), MovesIn(docs, i))
    BY DEF EffectInv, BooksGood
  <2>3. MovesIn(docs, i)[d] = Moves(d, i)
    BY DEF MovesIn, Moves
  <2>4. /\ Effect(stock, QtyIn(stock, i), d) = IF docs[d].status = "received" THEN Moves(d, i) ELSE 0
        /\ docs[d].status = "received" \/ Effect(stock, ValueIn(stock, i), d) = 0
    BY <2>1, <2>2, <2>3 DEF Settled, Exact
  <2> QED BY <1>1, <2>1, <2>4, ItemSums DEF Effect
<1>3. ASSUME NEW d \in DOMAIN docs, docs[d].of = NoDoc
      PROVE  SumOf([n \in OwnedBy(custody, d) |-> custody[n].amount])
                = IF docs[d].status = "received" THEN Spends(d) ELSE 0
  <2>1. IsRoot(docs, d) /\ OwnedBy(custody, d) \in SUBSET DOMAIN custody
    BY <1>3 DEF IsRoot, OwnedBy
  <2>2. /\ Settled(docs, Heads, custody, AmountIn(custody))
        /\ Exact(docs, Heads, custody, AmountIn(custody), SpendsIn(docs))
    BY DEF EffectInv, BooksGood
  <2>3. SpendsIn(docs)[d] = Spends(d)
    BY <1>3 DEF SpendsIn, Spends, Bill
  <2>4. Effect(custody, AmountIn(custody), d) = IF docs[d].status = "received" THEN Spends(d) ELSE 0
    BY <2>1, <2>2, <2>3 DEF Settled, Exact
  <2> QED BY <1>1, <2>1, <2>4, FundSum DEF Effect
<1> QED BY <1>2, <1>3 DEF EffectMatchesStatus, OwnedBy

\* EffectMatchesStatus: however often a document is received again, corrected,
\* reversed and restored, by whom and in which order, the rows of stock and of
\* the custody that it and its reversals posted sum to its lines and its bill
\* while it is received, and to nothing otherwise.
THEOREM EffectAlwaysMatchesStatus == Spec => []EffectMatchesStatus
<1>1. Init => EffectsInv
  BY InitEffects
<1>2. EffectsInv /\ [Next]_vars => EffectsInv'
  BY EffectsKept
<1>3. EffectsInv => EffectMatchesStatus
  BY EffectMatches DEF EffectsInv, DocumentsInv
<1> QED BY <1>1, <1>2, <1>3, PTL DEF Spec

--------------------
\* What a request that was carried out is recognised by when it comes again.

LEMMA StaysCarriedOut ==
    ASSUME NEW q, CarriedOut(q), \A d \in DOMAIN docs : Remains(d) PROVE CarriedOut(q)'
<1>1. Filed(q) => Filed(q)'
  BY DEF Filed, Remains, Refiled
<1>2. Accepted(q) => Accepted(q)'
  BY DEF Accepted, IsPurchase, Remains
<1> QED BY <1>1, <1>2 DEF CarriedOut

\* The new documents X are under keys of q that no document had.
LEMMA KeysStayApart ==
    ASSUME KeysInv, NEW D, KeepsBut(D), \A d \in D : d \in DOMAIN docs => Remains(d),
           NEW X, NewIds(X), NEW q, NEW tag,
           \A x \in X : docs'[x].key = Key(tag[x], q) /\ Unused(tag[x], q),
           \A x, y \in X : tag[x] = tag[y] => x = y
    PROVE  (\A d \in DOMAIN docs : Remains(d)) /\ KeysInv'
<1>1. \A d \in DOMAIN docs : Remains(d)
  BY DEF KeepsBut, NewIds, Remains, Refiled
<1>2. \A d \in DOMAIN docs : docs'[d].key = docs[d].key
  BY <1>1 DEF Remains, Refiled
<1>3. \A s, t : Key(s, q) = Key(t, q) => s = t
  BY DEF Key
<1>4. \A d, e \in DOMAIN docs' : docs'[d].key = docs'[e].key => d = e
  BY <1>2, <1>3 DEF KeysInv, NewIds, Unused
<1> QED BY <1>1, <1>4 DEF KeysInv

LEMMA OneStaysApart ==
    ASSUME KeysInv, NEW D, KeepsBut(D), \A d \in D : d \in DOMAIN docs => Remains(d),
           NEW x, NewIds({x}), NEW q, NEW tag, docs'[x].key = Key(tag, q), Unused(tag, q)
    PROVE  (\A d \in DOMAIN docs : Remains(d)) /\ KeysInv'
<1>1. PICK tags : tags = [y \in {x} |-> tag]
  OBVIOUS
<1>2. tags[x] = tag
  BY <1>1
<1> QED BY <1>2, KeysStayApart

LEMMA TurnedRemains ==
    ASSUME NEW d, d \in DOMAIN docs', NEW status, status # "prepared", NEW corrected,
           Turned(d, status, corrected)
    PROVE  Remains(d)
  BY DEF Turned, Remains

LEMMA DocumentsRemain ==
    ASSUME DocumentsInv, KeysInv, NEW r \in Attempts, StepKind(r)
    PROVE  (\A d \in DOMAIN docs : Remains(d)) /\ KeysInv'
<1>0. PICK q, a : q = attempt[r].request /\ a = attempt[r].read
  OBVIOUS
<1>1. TypeInv
  BY DEF DocumentsInv
<1>2. CASE UNCHANGED docs
  BY <1>2 DEF Remains, Refiled, KeysInv
<1>3. CASE OrderDocs(q) \/ RegistrationDocs(q)
  <2>1. PICK none : none = {}
    OBVIOUS
  <2>2. KeepsBut(none)
    BY <1>3, <2>1 DEF OrderDocs, RegistrationDocs
  <2> QED BY <1>3, <2>1, <2>2, OneStaysApart DEF OrderDocs, RegistrationDocs, Appended
<1>4. ASSUME At(r, "commit"), q.op \in ByDocument PROVE q.doc \in DOMAIN docs /\ Standing(q)
  BY <1>0, <1>1, <1>4, ReadAtCommit DEF DocumentsInv, InformedInv, Informed, Past, At
<1>5. CASE CommitReceipt(r)
  <2>1. ReceiptDocs(q, a) /\ Standing(q) /\ q.op = "receive" /\ q.doc \in DOMAIN docs
    BY <1>0, <1>1, <1>4, <1>5, CommitReceiptDocs DEF CommitReceipt, Doing, ByDocument
  <2>2. Remains(q.doc)
    BY <2>1 DEF ReceiptDocs, Standing, NewIds, Received, Remains
  <2>3. PICK none : none = {}
    OBVIOUS
  <2>4. NewIds(none)
    BY <2>1, <2>3 DEF ReceiptDocs
  <2> QED BY <2>1, <2>2, <2>3, <2>4, KeysStayApart DEF ReceiptDocs
<1>6. CASE CommitCorrection(r)
  <2>1. CorrectionDocs(q, a) /\ q.doc \in DOMAIN docs
    BY <1>0, <1>1, <1>4, <1>6, CommitCorrectionDocs DEF CommitCorrection, Doing, ByDocument
  <2>2. Remains(q.doc)
    BY <2>1, TurnedRemains DEF CorrectionDocs, NewIds
  <2> QED BY <2>1, <2>2, OneStaysApart DEF CorrectionDocs, Appended
<1>7. CASE CommitToggle(r)
  <2>1. ToggleDocs(q, a) /\ q.doc \in DOMAIN docs
    BY <1>0, <1>1, <1>4, <1>7, CommitToggleDocs DEF CommitToggle, Doing, ByDocument
  <2>2. Remains(q.doc)
    BY <2>1, TurnedRemains DEF ToggleDocs, NewIds, ToggledTo
  <2> QED BY <2>1, <2>2, OneStaysApart DEF ToggleDocs, Appended
<1>8. CASE CommitAmend(r)
  <2>1. AmendDocs(q, a) /\ q.doc \in DOMAIN docs
    BY <1>0, <1>1, <1>4, <1>8, CommitAmendDocs DEF CommitAmend, Doing, ByDocument
  <2>2. Remains(q.doc)
    BY <2>1, TurnedRemains DEF AmendDocs, NewIds
  <2>3. PICK m, n : m = Len(docs) + 1 /\ n = Len(docs) + 2 /\ m # n
    BY <1>1, DocsNumbers DEF TypeInv
  <2>4. PICK tag : tag = [x \in {m, n} |-> IF x = m THEN "reversal" ELSE "replacement"]
    OBVIOUS
  <2>5. tag[m] = "reversal" /\ tag[n] = "replacement"
    BY <2>3, <2>4
  <2>6. PICK D, X : D = {q.doc} /\ X = {m, n}
    OBVIOUS
  <2>7. /\ KeepsBut(D) /\ NewIds(X) /\ \A d \in D : d \in DOMAIN docs => Remains(d)
        /\ \A x \in X : docs'[x].key = Key(tag[x], q) /\ Unused(tag[x], q)
        /\ \A x, y \in X : tag[x] = tag[y] => x = y
    BY <2>1, <2>2, <2>3, <2>5, <2>6 DEF AmendDocs, Appended
  <2> QED BY <2>7, KeysStayApart
<1>9. UNCHANGED docs \/ Writes(r)
  BY DEF StepKind, Submit, Acquire, GivesUp, EndsQuietly, Sees, TakesLocks, Unwritten, tables, books
<1> QED BY <1>0, <1>1, <1>2, <1>3, <1>5, <1>6, <1>7, <1>8, <1>9, PrepareDocs, CommitRegistrationDocs
        DEF Writes, CommitCount

LEMMA EndsAs ==
    ASSUME TypeInv, NEW r \in Attempts, NEW pc, Ends(r, pc)
    PROVE  attempt'[r].pc = pc /\ attempt'[r].request = attempt[r].request
  BY EndedMakes DEF Ends

LEMMA LockGoesOn ==
    ASSUME TypeInv, NEW r \in Attempts, NEW locks, NEW next \in {"read", "balances"}, NEW read,
           Lock(r, locks, next, read), NEW q
    PROVE  Treats(r, q)
<1>1. attempt'[r].pc = IF locks = <<>> THEN next ELSE "lock"
  BY LockMakes
<1> QED BY <1>1 DEF Treats

\* The requests with a key are one, and those of its answers.
LEMMA OwnReplies ==
    ASSUME RetryInv, KeysOfOneRequest, NEW q \in Requests, q.op \in {"receive", "correct"},
           NEW p \in KeptReply(q)
    PROVE  p.request = q /\ CarriedOut(q)
<1>1. p \in replies /\ p.key = Key("receive", q)
  BY DEF KeptReply, ReplyTo
<1>2. p.request \in Requests
  BY <1>1 DEF RetryInv, DocumentsInv, TypeInv, TablesOK
<1>3. p.key.tag = "receive"
  BY <1>1 DEF Key
<1>4. p.request.op \in {"receive", "correct"} /\ Key("receive", p.request) = Key("receive", q)
      /\ CarriedOut(p.request)
  BY <1>1, <1>3 DEF RetryInv, RepliesInv
<1>5. p.request.key = q.key
  BY <1>4 DEF Key
<1> QED BY <1>2, <1>4, <1>5 DEF KeysOfOneRequest

LEMMA FiledTreats ==
    ASSUME RetryInv, NEW q, q.op \in {"order", "correct", "reverse", "undo"},
           NEW e \in WithKey(Key("document", q))
    PROVE  docs[e].request = q <=> CarriedOut(q)
<1>1. CarriedOut(q) <=> Filed(q)
  BY DEF CarriedOut
<1> QED BY <1>1 DEF RetryInv, KeysInv, Filed, WithKey

LEMMA ReadsTreat ==
    ASSUME RetryInv, KeysOfOneRequest, NEW r \in Attempts, NEW q, q = attempt[r].request,
           CarriedOut(q) => CarriedOut(q)',
           Prepare(r) \/ AnswerReplay(r) \/ ReadReceipt(r) \/ ReadCorrection(r) \/ ReadToggle(r)
    PROVE  Treats(r, q)
<1>1. TypeInv
  BY DEF RetryInv, DocumentsInv
<1>2. CASE Prepare(r)
  <2>1. q.op = "order" /\ q \in Requests
    BY <1>1, <1>2, DoingRequest DEF Prepare
  <2>2. PICK same : same = WithKey(Key("document", q))
    OBVIOUS
  <2>3. \/ (\E d \in same : docs[d].request = q) /\ \E e : Answered(r, e)
        \/ ((\E d \in same : docs[d].request # q) \/ same = {}) /\ Refused(r)
        \/ (\E doc : docs' = Append(docs, doc)) /\ \E d : Ended(r, "done", d)
    BY <1>2, <2>2 DEF Prepare
  <2>4. same = {} => ~CarriedOut(q)
    BY <2>1, <2>2 DEF CarriedOut, Filed, WithKey
  <2>5. (\E doc : docs' = Append(docs, doc)) => CarriedOut(q)'
    <3>1. \A doc : docs' = Append(docs, doc) => docs' # docs
      BY <1>1 DEF TypeInv, DocsOK
    <3> QED BY <1>1, <1>2, <2>1, <3>1, PrepareDocs DEF OrderDocs, Appended, NewIds, CarriedOut, Filed
  <2> QED BY <2>1, <2>2, <2>3, <2>4, <2>5, FiledTreats DEF Treats, Ends, Answered, Refused
<1>3. CASE AnswerReplay(r)
  <2>1. q.op \in {"receive", "correct"} /\ q \in Requests
    BY <1>1, <1>3, DoingRequest DEF AnswerReplay
  <2>2. PICK p \in KeptReply(q) : IF p.request = q THEN Answered(r, p.doc) ELSE Refused(r)
    BY <1>3 DEF AnswerReplay
  <2> QED BY <2>1, <2>2, OwnReplies DEF Treats, Ends, Answered
<1>4. CASE ReadReceipt(r)
  <2> DEFINE d == q.doc
             again == IsPurchase(d) /\ docs[d].status = "received" /\ ReceivedUnder(d, q.key)
  <2>1. q.op = "receive" /\ q \in Requests
    BY <1>1, <1>4, DoingRequest DEF ReadReceipt
  <2>2. /\ KeptReply(q) = {}
        /\ \/ again /\ docs[d].receipt = q /\ Ends(r, "done")
           \/ (again => docs[d].receipt # q) /\ Ends(r, "refused")
           \/ \E locks, read : Lock(r, locks, "balances", read)
    BY <1>4 DEF ReadReceipt, Ends, Refused
  <2>3. again /\ docs[d].receipt = q => CarriedOut(q)
    BY <2>1 DEF CarriedOut, Accepted
  <2>4. CarriedOut(q) /\ docs[d].status = "received" => again /\ docs[d].receipt = q
    BY <2>1, OrdersConstants DEF CarriedOut, Accepted, ReceivedUnder
  <2>5. KeptReply(q) = ReplyTo(Key("receive", q))
    BY DEF KeptReply
  <2> HIDE DEF again
  <2> QED BY <1>1, <2>1, <2>2, <2>3, <2>4, <2>5, LockGoesOn DEF Treats, Excused
<1>5. CASE ReadCorrection(r) \/ ReadToggle(r)
  <2>1. q.op \in {"correct", "reverse", "undo"} /\ q \in Requests
    BY <1>1, <1>5, DoingRequest DEF ReadCorrection, ReadToggle
  <2>2. PICK same : same = WithKey(Key("document", q))
    OBVIOUS
  <2>3. \/ \E e \in same : IF docs[e].request = q THEN Answered(r, e) ELSE Refused(r)
        \/ same = {} /\ Refused(r)
        \/ \E locks, read : Lock(r, locks, "balances", read)
    BY <1>5, <2>2 DEF ReadCorrection, ReadToggle
  <2>4. same = {} => ~CarriedOut(q)
    BY <2>1, <2>2 DEF CarriedOut, Filed, WithKey
  <2>5. CASE \E locks, read : Lock(r, locks, "balances", read)
    BY <1>1, <2>5, LockGoesOn
  <2> QED BY <2>1, <2>2, <2>3, <2>4, <2>5, FiledTreats DEF Treats, Ends, Answered, Refused
<1> QED BY <1>2, <1>3, <1>4, <1>5

LEMMA ActsTreat ==
    ASSUME RetryInv, KeysOfOneRequest, NEW r \in Attempts, NEW q, q = attempt[r].request,
           CarriedOut(q) => CarriedOut(q)', Acts(r)
    PROVE  Treats(r, q) \/ \E p \in Requests : Submit(r, p)
<1>1. TypeInv
  BY DEF RetryInv, DocumentsInv
<1>2. CASE Acquire(r)
  BY <1>1, <1>2, AcquireMakes DEF Treats
<1>3. CASE BreakDeadlock(r) \/ Abort(r) \/ Collide(r)
  BY <1>3 DEF BreakDeadlock, Abort, Collide, Treats, Ends
<1>4. CASE StartRegistration(r) \/ StartCount(r) \/ StartAmend(r)
  <2>1. q.op \in {"register", "count", "amend"} /\ attempt[r].pc = "start"
    BY <1>1, <1>4, DoingRequest DEF StartRegistration, StartCount, StartAmend, At
  <2>2. \/ Ends(r, "done") \/ Ends(r, "refused")
        \/ \E locks, next, read : Lock(r, locks, next, read) /\ next \in {"read", "balances"}
    BY <1>4 DEF StartRegistration, StartCount, StartAmend, Ends, Answered, Refused
  <2>3. CarriedOut(q)'
    BY <2>1 DEF CarriedOut
  <2> QED BY <1>1, <2>1, <2>2, <2>3, LockGoesOn DEF Treats
<1>5. CASE ReadAmend(r)
  <2>1. q.op = "amend"
    BY <1>1, <1>5, DoingRequest DEF ReadAmend
  <2>2. Ends(r, "refused") \/ \E locks, read : Lock(r, locks, "balances", read)
    BY <1>5 DEF ReadAmend, Ends, Refused
  <2> QED BY <1>1, <2>1, <2>2, LockGoesOn DEF Treats
<1>6. CASE ReadBalances(r)
  <2>1. Sees(r) \/ Ends(r, "refused")
    BY <1>1, <1>6, ReadBalancesSees DEF Ends, Refused
  <2>2. attempt[r].pc = "balances" /\ (Sees(r) => attempt'[r].pc = "commit")
    BY <1>1, <1>6, SeesMakes DEF ReadBalances, At
  <2> QED BY <2>1, <2>2 DEF Treats
<1>7. CASE CommitRegistration(r) \/ CommitCount(r) \/ CommitAmend(r)
  <2>1. q.op \in {"register", "count", "amend"}
    BY <1>1, <1>7, DoingRequest DEF CommitRegistration, CommitCount, CommitAmend
  <2>2. Ends(r, "done")
    BY <1>7 DEF CommitRegistration, CommitCount, CommitAmend, Ends
  <2> QED BY <2>1, <2>2 DEF Treats, CarriedOut
<1>8. CASE CommitReceipt(r)
  <2>1. ReceiptDocs(q, attempt[r].read) /\ q.op = "receive"
    BY <1>1, <1>8, CommitReceiptDocs, DoingRequest DEF CommitReceipt
  <2>2. Standing(q)
    BY <1>8, <2>1 DEF RetryInv, DocumentsInv, InformedInv, Informed, Past, CommitReceipt, At, ByDocument
  <2>3. CarriedOut(q)'
    BY <2>1, <2>2 DEF ReceiptDocs, Received, NewIds, Standing, CarriedOut, Accepted, IsPurchase
  <2> QED BY <1>8, <2>3 DEF CommitReceipt, Treats, Ends
<1>9. CASE CommitCorrection(r) \/ CommitToggle(r)
  <2>1. q.op \in {"correct", "reverse", "undo"} /\ Ends(r, "done")
    BY <1>1, <1>9, DoingRequest DEF CommitCorrection, CommitToggle, Ends
  <2>2. CorrectionDocs(q, attempt[r].read) \/ ToggleDocs(q, attempt[r].read)
    BY <1>1, <1>9, CommitCorrectionDocs, CommitToggleDocs
  <2>3. CarriedOut(q)'
    BY <2>1, <2>2 DEF CorrectionDocs, ToggleDocs, Appended, NewIds, CarriedOut, Filed
  <2> QED BY <2>1, <2>3 DEF Treats
<1> QED BY <1>2, <1>3, <1>4, <1>5, <1>6, <1>7, <1>8, <1>9, ReadsTreat DEF Acts

\* The answers a step keeps are those of what it carried out.
LEMMA RepliesTreated ==
    ASSUME RetryInv, NEW r \in Attempts, NEW q, q = attempt[r].request, Acts(r),
           Ends(r, "done") => CarriedOut(q)',
           NEW p \in replies', p \notin replies
    PROVE  /\ p.request = q /\ CarriedOut(q)'
           /\ p.key.tag = "receive" => q.op \in {"receive", "correct"} /\ p.key = Key("receive", q)
<1>1. \/ ReadReceipt(r) \/ CommitReceipt(r) \/ CommitCorrection(r) \/ CommitAmend(r)
  BY DEF Acts, Submit, Acquire, BreakDeadlock, Abort, Collide, Prepare, StartRegistration,
         StartCount, StartAmend, AnswerReplay, ReadCorrection, ReadToggle, ReadAmend, ReadBalances,
         CommitRegistration, CommitCount, CommitToggle, Answered, Refused, Unwritten, tables
<1>2. /\ Ends(r, "done")
      /\ \/ q.op \in {"receive", "correct"} /\ p.request = q /\ p.key = Key("receive", q)
         \/ p.request = q /\ p.key = Key("amend", q)
  <2>1. Doing(r, q.op)
    BY <1>1 DEF ReadReceipt, CommitReceipt, CommitCorrection, CommitAmend, Doing
  <2>2. CASE ReadReceipt(r)
    BY <2>2 DEF ReadReceipt, Refused, Unwritten, tables, Ends, Doing
  <2>3. CASE CommitReceipt(r)
    BY <2>3 DEF CommitReceipt, Ends, Doing
  <2>4. CASE CommitCorrection(r)
    BY <2>4 DEF CommitCorrection, Ends, Doing
  <2>5. CASE CommitAmend(r)
    BY <2>5 DEF CommitAmend, Ends
  <2> QED BY <1>1, <2>2, <2>3, <2>4, <2>5
<1> QED BY <1>2 DEF Key

LEMMA InitRetry == Init => RetryInv
<1> SUFFICES ASSUME Init PROVE RetryInv
  OBVIOUS
<1>1. docs = OldOrders /\ replies = {} /\ \A r \in Attempts : attempt[r].pc = "idle"
  BY UnsentIdle DEF Init
<1>2. KeysInv
  BY <1>1, OldOrdersPrepared, Zenon DEF KeysInv
<1> QED BY <1>1, <1>2, InitDocuments DEF RetryInv, RepliesInv, DoneInv

\* What a step does to the requests, its own and the others.
LEMMA StepTreats ==
    ASSUME RetryInv, KeysOfOneRequest, NEW r \in Attempts, StepKind(r), Acts(r),
           NEW q, q = attempt[r].request
    PROVE  /\ LeavesOthers(r) /\ KeysInv' /\ \A p : CarriedOut(p) => CarriedOut(p)'
           /\ Treats(r, q) \/ attempt'[r].pc \in {"start", "lock"}
<1>1. LeavesOthers(r)
  BY StepKeepsWindow DEF RetryInv, DocumentsInv
<1>2. KeysInv' /\ \A p : CarriedOut(p) => CarriedOut(p)'
  BY DocumentsRemain, StaysCarriedOut DEF RetryInv
<1>3. ASSUME NEW p \in Requests, Submit(r, p) PROVE attempt'[r].pc \in {"start", "lock"}
  BY <1>3, SubmitMakes DEF RetryInv, DocumentsInv
<1> QED BY <1>1, <1>2, <1>3, ActsTreat

LEMMA RetryKept == ASSUME KeysOfOneRequest PROVE RetryInv /\ [Next]_vars => RetryInv'
<1> SUFFICES ASSUME RetryInv, [Next]_vars PROVE RetryInv'
  OBVIOUS
<1>1. DocumentsInv'
  BY DocumentsKept DEF RetryInv
<1>2. CASE UNCHANGED vars \/ Expire
  <2>1. UNCHANGED <<docs, attempt>> /\ replies' \subseteq replies
    BY <1>2 DEF vars, tables, Expire
  <2> QED BY <1>1, <2>1 DEF RetryInv, KeysInv, RepliesInv, DoneInv, CarriedOut, Filed, Accepted, IsPurchase
<1>3. ASSUME NEW r \in Attempts, StepKind(r), Acts(r) PROVE KeysInv' /\ RepliesInv' /\ DoneInv'
  <2>0. PICK q : q = attempt[r].request
    OBVIOUS
  <2>1. /\ LeavesOthers(r) /\ KeysInv' /\ \A p : CarriedOut(p) => CarriedOut(p)'
        /\ Treats(r, q) \/ attempt'[r].pc \in {"start", "lock"}
    BY <1>3, <2>0, StepTreats
  <2>2. \A pc : Ends(r, pc) => attempt'[r].pc = pc /\ attempt'[r].request = q
    BY <2>0, EndsAs DEF RetryInv, DocumentsInv
  <2>3. attempt'[r].pc = "done" => attempt'[r].request = q /\ CarriedOut(q)'
    BY <2>1, <2>2 DEF Treats
  <2>4. DoneInv'
    BY <2>1, <2>3 DEF RetryInv, DoneInv, LeavesOthers
  <2>5. Ends(r, "done") => CarriedOut(q)'
    BY <2>2, <2>3
  <2>6. ASSUME NEW p \in replies'
        PROVE  /\ CarriedOut(p.request)'
               /\ p.key.tag = "receive" => p.request.op \in {"receive", "correct"}
                                           /\ p.key = Key("receive", p.request)
    <3>1. CASE p \in replies
      BY <2>1, <3>1 DEF RetryInv, RepliesInv
    <3>2. CASE p \notin replies
      BY <1>3, <2>0, <2>5, <3>2, RepliesTreated
    <3> QED BY <3>1, <3>2
  <2> QED BY <2>1, <2>4, <2>6 DEF RepliesInv
<1>4. Next => (\E r \in Attempts : StepKind(r) /\ Acts(r)) \/ Expire \/ UNCHANGED vars
  BY StepKinds DEF RetryInv, DocumentsInv
<1> QED BY <1>1, <1>2, <1>3, <1>4 DEF RetryInv

LEMMA RetriesTreated ==
    ASSUME KeysOfOneRequest, RetryInv, [Next]_vars, NEW r \in Attempts, NEW s \in Attempts,
           attempt[s].pc = "done", attempt[s].request.op \notin {"register", "count", "amend"},
           attempt[r].pc = "read", attempt[r].request = attempt[s].request,
           attempt'[r].pc = "refused"
    PROVE  Excused(attempt[s].request)
<1>0. PICK q : q = attempt[s].request
  OBVIOUS
<1>1. attempt'[r] # attempt[r] /\ CarriedOut(q)
  BY <1>0 DEF RetryInv, DoneInv
<1>2. PICK t \in Attempts : StepKind(t) /\ Acts(t)
  BY <1>1, StepKinds DEF RetryInv, DocumentsInv, Expire, vars
<1>3. t = r
  BY <1>1, <1>2, StepTreats DEF LeavesOthers
<1>4. Treats(r, q)
  BY <1>0, <1>2, <1>3, StepTreats
<1>5. \A pc : Ends(r, pc) => attempt'[r].pc = pc
  BY EndsAs DEF RetryInv, DocumentsInv
<1> QED BY <1>0, <1>1, <1>4, <1>5 DEF Treats

\* RetryNotRefused: a purchase request that was carried out is not refused when
\* it is sent again, whatever became of the document since and however requests
\* interleave; a receipt whose answer is no longer kept may be refused, but only
\* while its document is not received. It needs that a client draws a key of its own
\* for each receipt and correction (KeysOfOneRequest).
THEOREM RetriesNotRefused == ASSUME KeysOfOneRequest PROVE Spec => RetryNotRefused
<1>1. Init => RetryInv
  BY InitRetry
<1>2. RetryInv /\ [Next]_vars => RetryInv'
  BY RetryKept
<1> DEFINE Step == \A r, s \in Attempts :
          LET q == attempt[s].request
          IN  /\ attempt[s].pc = "done" /\ q.op \notin {"register", "count", "amend"}
              /\ attempt[r].pc = "read" /\ attempt[r].request = q
              /\ attempt'[r].pc = "refused"
              => /\ q.op = "receive"
                 /\ ReplyTo(Key("receive", q)) = {}
                 /\ docs[q.doc].status # "received"
<1>3. RetryInv /\ [Next]_vars => [Step]_vars
  BY RetriesTreated DEF Excused
<1> QED BY <1>1, <1>2, <1>3, PTL DEF Spec, RetryNotRefused

=============================================================================
