--------------------------- MODULE PurchaseDebtsProofs ---------------------------
(***************************************************************************)
(* Debts are promoted once and their invoices keep their numbers, keys and *)
(* entries, for any number of requests, debts, invoices and lines.         *)
(***************************************************************************)
EXTENDS PurchaseDebts, LedgerProofs, SequenceTheorems

-----------------------------------------------------------------------------
(* Counting up, prefixes, and the rows of a batch one after the other.     *)

\* Counting up to n from a set that holds 0 stays in the set.
LEMMA CountingUp ==
    ASSUME NEW n \in Nat, NEW P, 0 \in P, \A m \in 0..n : m < n /\ m \in P => m + 1 \in P
    PROVE  n \in P
<1> DEFINE S == 0..n
           C == {T \in SUBSET S : \E m \in 0..n : m \notin P /\ T = 0..m}
<1>1. SUFFICES ASSUME n \notin P PROVE FALSE
  OBVIOUS
<1>2. 0..n \in C
  BY <1>1
<1>3. PICK T \in C : \A U \in C : U \subseteq T => U = T
  <2>1. C \in SUBSET SUBSET S /\ C # {}
    BY <1>2
  <2>2. IsFiniteSet(S)
    BY FS_Interval
  <2> HIDE DEF C, S
  <2> QED BY <2>1, <2>2, SmallestSet
<1>4. PICK m \in 0..n : m \notin P /\ T = 0..m
  BY <1>3
<1>5. m # 0 /\ m - 1 \in 0..n /\ m - 1 < n
  BY <1>4
<1>6. m - 1 \notin P
  BY <1>4, <1>5
<1>7. 0..(m - 1) \in C
  BY <1>5, <1>6
<1>8. 0..(m - 1) \subseteq T /\ 0..(m - 1) # T
  <2>1. m \in T /\ m \notin 0..(m - 1)
    BY <1>4, <1>5
  <2> QED BY <1>4, <1>5, <2>1
<1> QED BY <1>3, <1>7, <1>8

\* The sequences joined one after the other.
Joins(f, seqs, m) ==
    \A i \in 1..m : f[i] = IF i = 1 THEN seqs[i] ELSE f[i - 1] \o seqs[i]

\* There are such, ...
LEMMA JoinsExist ==
    ASSUME NEW seqs, NEW n \in Nat
    PROVE  \E f : f = [i \in 1..n |-> f[i]] /\ Joins(f, seqs, n)
<1> DEFINE P == {m \in 0..n : \E f : f = [i \in 1..m |-> f[i]] /\ Joins(f, seqs, m)}
<1>1. 0 \in P
  <2> DEFINE none == [i \in 1..0 |-> 0]
  <2>1. none = [i \in 1..0 |-> none[i]]
    OBVIOUS
  <2>2. Joins(none, seqs, 0)
    BY DEF Joins
  <2>3. \E f : f = [i \in 1..0 |-> f[i]] /\ Joins(f, seqs, 0)
    <3> HIDE DEF none
    <3> QED BY <2>1, <2>2
  <2>4. 0 \in 0..n
    OBVIOUS
  <2> QED BY <2>3, <2>4, Zenon
<1>2. ASSUME NEW m \in 0..n, m < n, m \in P PROVE m + 1 \in P
  <2>1. PICK f : f = [i \in 1..m |-> f[i]] /\ Joins(f, seqs, m)
    BY <1>2
  <2> DEFINE g == [i \in 1..(m + 1) |->
                     IF i <= m THEN f[i]
                     ELSE IF i = 1 THEN seqs[i] ELSE f[i - 1] \o seqs[i]]
  <2>2. \A i \in 1..m : g[i] = f[i]
    OBVIOUS
  <2>3. g = [i \in 1..(m + 1) |-> g[i]]
    OBVIOUS
  <2>4. ASSUME NEW i \in 1..(m + 1)
        PROVE  g[i] = IF i = 1 THEN seqs[i] ELSE g[i - 1] \o seqs[i]
    <3>1. CASE i <= m
      <4>1. g[i] = f[i] /\ (i # 1 => g[i - 1] = f[i - 1])
        BY <3>1, <2>2
      <4>2. f[i] = IF i = 1 THEN seqs[i] ELSE f[i - 1] \o seqs[i]
        <5>1. i \in 1..m
          BY <3>1
        <5> QED BY <5>1, <2>1 DEF Joins
      <4> HIDE DEF g
      <4> QED BY <4>1, <4>2
    <3>2. CASE i = m + 1
      <4>1. g[i] = IF i = 1 THEN seqs[i] ELSE f[i - 1] \o seqs[i]
        BY <3>2
      <4>2. i # 1 => g[i - 1] = f[i - 1]
        BY <3>2, <2>2
      <4> HIDE DEF g
      <4> QED BY <4>1, <4>2
    <3> QED BY <3>1, <3>2
  <2>5. Joins(g, seqs, m + 1)
    <3> HIDE DEF g
    <3> QED BY <2>4 DEF Joins
  <2>6. \E h : h = [i \in 1..(m + 1) |-> h[i]] /\ Joins(h, seqs, m + 1)
    <3> HIDE DEF g
    <3> QED BY <2>3, <2>5
  <2> QED BY <2>6, <1>2
<1>3. n \in P
  <2> HIDE DEF P
  <2> QED BY <1>1, <1>2, CountingUp
<1> QED BY <1>3

\* ... and the last of them is what FlattenSeq makes of the sequences.
LEMMA FlattenedByJoins ==
    ASSUME NEW S, NEW seqs \in Seq(S), seqs # <<>>
    PROVE  \E f : Joins(f, seqs, Len(seqs)) /\ FlattenSeq(seqs) = f[Len(seqs)]
<1> DEFINE n == Len(seqs)
           step(f) == [i \in 1..n |-> IF i = 1 THEN seqs[i] ELSE f[i - 1] \o seqs[i]]
<1>1. n \in Nat /\ n # 0
  OBVIOUS
<1>2. PICK f : f = [i \in 1..n |-> f[i]] /\ Joins(f, seqs, n)
  BY <1>1, JoinsExist
<1>3. f = step(f)
  BY <1>2 DEF Joins
<1> DEFINE g == CHOOSE h : h = step(h)
<1>4. g = step(g)
  BY <1>3
<1>5. FlattenSeq(seqs) = g[n]
  BY <1>1 DEF FlattenSeq
<1>6. Joins(g, seqs, n)
  <2> HIDE DEF g
  <2> QED BY <1>1, <1>4 DEF Joins
<1> QED BY <1>5, <1>6

\* A table with the first n of the new rows.
WithFirst(s, t, n) == s \o SubSeq(t, 1, n)

\* The rows of a sequence appended to a table one after the other.
OneByOne(S, s, t) ==
    /\ WithFirst(s, t, 0) = s /\ WithFirst(s, t, Len(t)) = s \o t
    /\ \A n \in 0..Len(t) :
          WithFirst(s, t, n) \in Seq(S) /\ Len(WithFirst(s, t, n)) = Len(s) + n
    /\ \A n \in 1..Len(t) : WithFirst(s, t, n) = Append(WithFirst(s, t, n - 1), t[n])

\* Joining two sequences is appending the elements of the second.
LEMMA AppendedOneByOne ==
    ASSUME NEW S, NEW s \in Seq(S), NEW t \in Seq(S)
    PROVE  OneByOne(S, s, t)
<1>1. Len(t) \in Nat /\ Len(s) \in Nat
  OBVIOUS
<1>2. SubSeq(t, 1, 0) = <<>> /\ SubSeq(t, 1, Len(t)) = t
  BY SubSeqEmpty, SubSeqFull
<1>3. ASSUME NEW n \in 0..Len(t)
      PROVE  /\ SubSeq(t, 1, n) \in Seq(S) /\ Len(SubSeq(t, 1, n)) = n
             /\ \A i \in 1..n : SubSeq(t, 1, n)[i] = t[i]
  <2>1. \A i \in 1..n : t[i] \in S
    OBVIOUS
  <2> QED BY <2>1
<1>4. \A n \in 0..Len(t) : WithFirst(s, t, n) \in Seq(S) /\ Len(WithFirst(s, t, n)) = Len(s) + n
  BY <1>1, <1>3 DEF WithFirst
<1>5. ASSUME NEW n \in 1..Len(t)
      PROVE  WithFirst(s, t, n) = Append(WithFirst(s, t, n - 1), t[n])
  <2> DEFINE a == SubSeq(t, 1, n)
             b == SubSeq(t, 1, n - 1)
  <2>1. /\ a \in Seq(S) /\ Len(a) = n /\ \A i \in 1..n : a[i] = t[i]
        /\ b \in Seq(S) /\ Len(b) = n - 1 /\ \A i \in 1..(n - 1) : b[i] = t[i]
    <3>1. n \in 0..Len(t) /\ n - 1 \in 0..Len(t)
      BY <1>1
    <3> QED BY <3>1, <1>3
  <2> HIDE DEF a, b
  <2>2. t[n] \in S
    OBVIOUS
  <2> DEFINE x == s \o a
             y == Append(s \o b, t[n])
  <2>3. /\ x \in Seq(S) /\ Len(x) = Len(s) + n
        /\ \A i \in 1..(Len(s) + n) : x[i] = IF i <= Len(s) THEN s[i] ELSE a[i - Len(s)]
    BY <1>1, <2>1, ConcatProperties
  <2>4. /\ s \o b \in Seq(S) /\ Len(s \o b) = Len(s) + (n - 1)
        /\ \A i \in 1..(Len(s) + (n - 1)) :
              (s \o b)[i] = IF i <= Len(s) THEN s[i] ELSE b[i - Len(s)]
    <3>1. b \in Seq(S) /\ Len(b) = n - 1
      BY <2>1
    <3>2. /\ s \o b \in Seq(S) /\ Len(s \o b) = Len(s) + Len(b)
          /\ \A i \in 1..(Len(s) + Len(b)) :
                (s \o b)[i] = IF i <= Len(s) THEN s[i] ELSE b[i - Len(s)]
      BY <3>1, ConcatProperties
    <3> QED BY <3>1, <3>2
  <2> DEFINE c == s \o b
  <2>6. /\ y \in Seq(S) /\ Len(y) = Len(s) + n /\ y[Len(s) + n] = t[n]
        /\ \A i \in 1..(Len(s) + (n - 1)) : y[i] = c[i]
    <3> HIDE DEF c
    <3>1. c \in Seq(S) /\ Len(c) = Len(s) + (n - 1)
      BY <2>4 DEF c
    <3>2. Append(c, t[n]) \in Seq(S) /\ Len(Append(c, t[n])) = Len(c) + 1
          /\ Append(c, t[n])[Len(c) + 1] = t[n]
          /\ \A i \in 1..Len(c) : Append(c, t[n])[i] = c[i]
      BY <3>1, <2>2
    <3> QED BY <1>1, <3>1, <3>2 DEF c
  <2>7. \A i \in 1..(Len(s) + n) : x[i] = y[i]
    <3> SUFFICES ASSUME NEW i \in 1..(Len(s) + n) PROVE x[i] = y[i]
      OBVIOUS
    <3> HIDE DEF x, y
    <3>1. CASE i = Len(s) + n
      BY <1>1, <2>1, <2>3, <2>6, <3>1
    <3>2. CASE i # Len(s) + n
      <4>1. i \in 1..(Len(s) + (n - 1))
        BY <1>1, <3>2
      <4>2. y[i] = IF i <= Len(s) THEN s[i] ELSE b[i - Len(s)]
        BY <2>4, <2>6, <4>1
      <4>3. i > Len(s) => i - Len(s) \in 1..(n - 1) /\ i - Len(s) \in 1..n
        BY <1>1, <4>1
      <4>4. x[i] = IF i <= Len(s) THEN s[i] ELSE a[i - Len(s)]
        BY <2>3
      <4>5. CASE i <= Len(s)
        BY <4>2, <4>4, <4>5
      <4>6. CASE i > Len(s)
        <5>1. b[i - Len(s)] = t[i - Len(s)] /\ a[i - Len(s)] = t[i - Len(s)]
          BY <2>1, <4>3, <4>6
        <5>2. ~(i <= Len(s))
          BY <1>1, <4>6
        <5> QED BY <4>2, <4>4, <5>1, <5>2
      <4> QED BY <1>1, <4>5, <4>6
    <3> QED BY <3>1, <3>2
  <2>5. x = y
    <3> HIDE DEF x, y
    <3>1. \A i \in 1..Len(x) : x[i] = y[i]
      BY <2>3, <2>7
    <3> QED BY <2>3, <2>6, <3>1, SeqEqual
  <2> QED BY <2>5 DEF WithFirst, a, b
<1>6. WithFirst(s, t, 0) = s /\ WithFirst(s, t, Len(t)) = s \o t
  BY <1>2 DEF WithFirst
<1> QED BY <1>4, <1>5, <1>6 DEF OneByOne

-----------------------------------------------------------------------------
(* The entries of an invoice.                                              *)

\* The account a kind is posted to is one, and no vault.
LEMMA KindsHaveAccounts ==
    ASSUME NEW kind \in Kinds
    PROVE  KindAccount[kind] \in Accounts /\ KindAccount[kind] \notin Vaults
BY OutflowConstants

\* There is one entry for each split.
LEMMA EntriesTyped ==
    ASSUME NEW id \in Nat, NEW row \in InvoiceRows, NEW account \in Accounts
    PROVE  LET new == EntriesFor(id, row, account)
           IN /\ new \in Seq(Postings) /\ Len(new) = Len(row.splits)
              /\ Len(new) \in Nat /\ DOMAIN new = 1..Len(new) /\ DOMAIN row.splits = 1..Len(new)
              /\ \A n \in DOMAIN new :
                    /\ new[n].ref = Ref("invoice", id) /\ new[n].status = "active"
                    /\ new[n].debit = account /\ new[n].credit = row.splits[n].vault
                    /\ new[n].amount = row.splits[n].amount /\ new[n].amount \in Int
                    /\ new[n].day = row.day
<1> DEFINE new == EntriesFor(id, row, account)
<1>1. row.splits \in Splits /\ row.day \in Nat
  BY DaysAssumption DEF InvoiceRows
<1>2. Len(row.splits) \in Nat /\ DOMAIN row.splits = 1..Len(row.splits)
  BY <1>1 DEF Splits
<1>3. ASSUME NEW n \in DOMAIN row.splits
      PROVE  row.splits[n].vault \in Accounts /\ row.splits[n].amount \in Int
  <2>1. row.splits[n] \in [vault : Vaults, amount : Int]
    BY <1>1, ElementOf DEF Splits
  <2> QED BY <2>1, VaultsAssumption
<1>4. Ref("invoice", id) \in References
  BY DEF Ref, References
<1>5. \A n \in DOMAIN row.splits : new[n] \in Postings
  BY <1>1, <1>3, <1>4 DEF EntriesFor, EntryOf, Postings
<1>6. new = [n \in 1..Len(row.splits) |-> new[n]]
  BY <1>2 DEF EntriesFor
<1>7. new \in Seq(Postings) /\ Len(new) = Len(row.splits) /\ DOMAIN new = 1..Len(row.splits)
  <2> HIDE DEF new
  <2> QED BY <1>2, <1>5, <1>6
<1>8. \A n \in DOMAIN row.splits :
          /\ new[n].ref = Ref("invoice", id) /\ new[n].status = "active"
          /\ new[n].debit = account /\ new[n].credit = row.splits[n].vault
          /\ new[n].amount = row.splits[n].amount /\ new[n].day = row.day
  BY DEF EntriesFor, EntryOf
<1> HIDE DEF new
<1>9. \A n \in DOMAIN new :
          /\ new[n].ref = Ref("invoice", id) /\ new[n].status = "active"
          /\ new[n].debit = account /\ new[n].credit = row.splits[n].vault
          /\ new[n].amount = row.splits[n].amount /\ new[n].amount \in Int
          /\ new[n].day = row.day
  BY <1>2, <1>3, <1>7, <1>8
<1>10. Len(new) \in Nat /\ DOMAIN new = 1..Len(new) /\ DOMAIN row.splits = 1..Len(new)
  BY <1>2, <1>7
<1> QED BY <1>7, <1>9, <1>10 DEF new

\* The entries of several new invoices are appended one invoice after the other.
PostedFrom(from, rows) ==
    [n \in DOMAIN rows |-> EntriesFor(from + n, rows[n], KindAccount[rows[n].kind])]

\* The entries of several rows are appended one row after the other.
LEMMA PostedOneByOne ==
    ASSUME NEW led \in Seq(Postings), NEW from \in Nat, NEW rows \in Seq(InvoiceRows)
    PROVE  /\ FlattenSeq(PostedFrom(from, rows)) \in Seq(Postings)
           /\ \E book :
                /\ book[0] = led /\ book[Len(rows)] = led \o FlattenSeq(PostedFrom(from, rows))
                /\ \A n \in 0..Len(rows) : book[n] \in Seq(Postings)
                /\ \A n \in 1..Len(rows) :
                      book[n] = book[n - 1]
                          \o EntriesFor(from + n, rows[n], KindAccount[rows[n].kind])
<1> DEFINE seqs == PostedFrom(from, rows)
           last == Len(rows)
<1>1. last \in Nat /\ DOMAIN rows = 1..last
  OBVIOUS
<1>2. \A n \in 1..last :
          seqs[n] = EntriesFor(from + n, rows[n], KindAccount[rows[n].kind])
  BY <1>1 DEF PostedFrom
<1>3. \A n \in 1..last : seqs[n] \in Seq(Postings)
  <2> SUFFICES ASSUME NEW n \in 1..last
               PROVE  EntriesFor(from + n, rows[n], KindAccount[rows[n].kind]) \in Seq(Postings)
    BY <1>2
  <2>1. rows[n] \in InvoiceRows /\ from + n \in Nat
    BY <1>1
  <2>2. KindAccount[rows[n].kind] \in Accounts
    BY <2>1, KindsHaveAccounts DEF InvoiceRows
  <2> QED BY <2>1, <2>2, EntriesTyped
<1>4. seqs \in Seq(Seq(Postings)) /\ Len(seqs) = last
  <2>1. seqs = [n \in 1..last |-> seqs[n]]
    BY <1>1 DEF PostedFrom
  <2> HIDE DEF seqs
  <2> QED BY <1>1, <1>3, <2>1
<1> HIDE DEF seqs
<1>5. CASE last = 0
  <2>1. FlattenSeq(seqs) = <<>> /\ FlattenSeq(seqs) \in Seq(Postings)
    BY <1>4, <1>5 DEF FlattenSeq
  <2> DEFINE book == [n \in 0..0 |-> led]
  <2>2. book[0] = led /\ led \o <<>> = led
    OBVIOUS
  <2> HIDE DEF book
  <2> QED BY <1>5, <2>1, <2>2 DEF seqs
<1>6. CASE last # 0
  <2>1. PICK f : Joins(f, seqs, last) /\ FlattenSeq(seqs) = f[last]
    BY <1>1, <1>4, <1>6, FlattenedByJoins
  <2>2. f[1] = seqs[1] /\ \A n \in 1..last : n # 1 => f[n] = f[n - 1] \o seqs[n]
    <3>1. 1 \in 1..last
      BY <1>1, <1>6
    <3>2. \A n \in 1..last : f[n] = IF n = 1 THEN seqs[n] ELSE f[n - 1] \o seqs[n]
      BY <2>1 DEF Joins
    <3> QED BY <3>1, <3>2
  <2> DEFINE P == {n \in 0..last : n # 0 => f[n] \in Seq(Postings)}
  <2>3. \A n \in 1..last : f[n] \in Seq(Postings)
    <3> SUFFICES ASSUME NEW m \in 1..last PROVE m \in P
      OBVIOUS
    <3>1. 0 \in P
      BY <1>1
    <3>2. ASSUME NEW n \in 0..m, n < m, n \in P PROVE n + 1 \in P
      <4>1. n + 1 \in 1..last
        BY <1>1, <3>2
      <4>2. CASE n = 0
        BY <4>1, <4>2, <1>3, <2>2
      <4>3. CASE n # 0
        <5>1. f[n] \in Seq(Postings) /\ seqs[n + 1] \in Seq(Postings)
          BY <3>2, <4>1, <4>3, <1>3
        <5>2. f[n + 1] = f[n] \o seqs[n + 1]
          <6>1. f[n + 1] = f[(n + 1) - 1] \o seqs[n + 1] /\ (n + 1) - 1 = n
            <7>1. n + 1 # 1 /\ (n + 1) - 1 = n
              BY <4>3
            <7> QED BY <2>2, <4>1, <7>1
          <6> QED BY <6>1
        <5>3. f[n + 1] \in Seq(Postings)
          BY <5>1, <5>2
        <5> QED BY <4>1, <5>3
      <4> QED BY <4>2, <4>3
    <3>3. m \in Nat
      BY <1>1
    <3> HIDE DEF P
    <3> QED BY <3>1, <3>2, <3>3, CountingUp
  <2> DEFINE book == [n \in 0..last |-> IF n = 0 THEN led ELSE led \o f[n]]
  <2>4. /\ book[0] = led /\ book[last] = led \o FlattenSeq(seqs)
        /\ FlattenSeq(seqs) \in Seq(Postings)
    BY <1>1, <1>6, <2>1, <2>3
  <2>5. \A n \in 0..last : book[n] \in Seq(Postings)
    BY <1>1, <2>3
  <2>6. ASSUME NEW n \in 1..last
        PROVE  book[n] = book[n - 1] \o seqs[n]
    <3>1. CASE n = 1
      BY <1>1, <2>2, <3>1
    <3>2. CASE n # 1
      <4>1. n - 1 \in 1..last /\ f[n - 1] \in Seq(Postings) /\ seqs[n] \in Seq(Postings)
        BY <1>1, <1>3, <2>3, <3>2
      <4>2. led \o (f[n - 1] \o seqs[n]) = (led \o f[n - 1]) \o seqs[n]
        <5> DEFINE a == f[n - 1]
                   b == seqs[n]
        <5>1. a \in Seq(Postings) /\ b \in Seq(Postings)
          BY <4>1
        <5> HIDE DEF a, b
        <5>2. led \o (a \o b) = (led \o a) \o b
          BY <5>1, ConcatAssociative
        <5> QED BY <5>2 DEF a, b
      <4>3. book[n] = led \o f[n] /\ book[n - 1] = led \o f[n - 1]
        BY <1>1, <4>1
      <4> HIDE DEF book
      <4> QED BY <2>2, <3>2, <4>2, <4>3
    <3> QED BY <3>1, <3>2
  <2> HIDE DEF book
  <2> QED BY <1>2, <2>4, <2>5, <2>6 DEF seqs
<1> QED BY <1>5, <1>6

-----------------------------------------------------------------------------
(* What the active entries of a book say of an invoice.                    *)

Own(led, id) ==
    {e \in DOMAIN led : led[e].ref = Ref("invoice", id) /\ led[e].status = "active"}
AmountsIn(led) == [e \in DOMAIN led |-> led[e].amount]

Posts(led, id, row) ==
    IF row.status = "active"
    THEN /\ SumFunctionOnSet(AmountsIn(led), Own(led, id)) = row.total
         /\ SumOf(row.splits) = row.total
         /\ \A n \in DOMAIN row.splits : \E e \in Own(led, id) :
               led[e].credit = row.splits[n].vault /\ led[e].amount = row.splits[n].amount
         /\ \A e \in Own(led, id) : led[e].day = row.day /\ led[e].debit = KindAccount[row.kind]
    ELSE Own(led, id) = {}

\* That is PostedAs, for the ledger and the table.
LEMMA PostedAsPosts ==
    ASSUME NEW id
    PROVE  PostedAs(id) <=> Posts(ledger, id, invoices[id])
<1>1. EntriesOf(Ref("invoice", id)) \cap ActiveEntries = Own(ledger, id)
  BY DEF EntriesOf, ActiveEntries, Own
<1>2. Amounts = AmountsIn(ledger)
  BY DEF Amounts, AmountsIn
<1> QED BY <1>1, <1>2 DEF PostedAs, Posts, Total

\* The entries of an invoice are finitely many.
LEMMA OwnFinite ==
    ASSUME NEW led \in Seq(Postings), NEW id
    PROVE  /\ IsFiniteSet(Own(led, id)) /\ Own(led, id) \subseteq DOMAIN led
           /\ \A e \in DOMAIN led : led[e] \in Postings /\ AmountsIn(led)[e] = led[e].amount
                                      /\ led[e].amount \in Int
<1>1. IsFiniteSet(DOMAIN led)
  <2>1. DOMAIN led = 1..Len(led) /\ Len(led) \in Nat
    OBVIOUS
  <2> QED BY <2>1, FS_Interval
<1>2. Own(led, id) \subseteq DOMAIN led
  BY DEF Own
<1>3. IsFiniteSet(Own(led, id))
  BY <1>1, <1>2, FS_Subset
<1>4. \A e \in DOMAIN led : led[e] \in Postings
  BY ElementOf
<1> QED BY <1>2, <1>3, <1>4 DEF AmountsIn, Postings

\* Entries that keep their amounts and accounts and all take the day of the
\* row speak for a row with the same total, splits and kind.
LEMMA PostsMoved ==
    ASSUME NEW led \in Seq(Postings), NEW new \in Seq(Postings), NEW id,
           NEW row, NEW moved, Posts(led, id, row), Own(new, id) = Own(led, id),
           \A e \in Own(led, id) :
              /\ new[e].amount = led[e].amount /\ new[e].credit = led[e].credit
              /\ new[e].debit = led[e].debit /\ new[e].day = moved.day,
           moved.status = row.status, moved.total = row.total, moved.splits = row.splits,
           moved.kind = row.kind
    PROVE  Posts(new, id, moved)
<1>1. CASE row.status = "active"
  <2>1. SumFunctionOnSet(AmountsIn(new), Own(new, id))
          = SumFunctionOnSet(AmountsIn(led), Own(led, id))
    <3>1. \A e \in Own(led, id) : AmountsIn(led)[e] = AmountsIn(new)[e]
      BY OwnFinite
    <3>2. IsFiniteSet(Own(led, id))
      BY OwnFinite
    <3>3. SumFunctionOnSet(AmountsIn(led), Own(led, id))
            = SumFunctionOnSet(AmountsIn(new), Own(led, id))
      BY <3>1, <3>2, SumSame
    <3> QED BY <3>3
  <2>2. \A n \in DOMAIN row.splits : \E e \in Own(led, id) :
           led[e].credit = row.splits[n].vault /\ led[e].amount = row.splits[n].amount
    BY <1>1 DEF Posts
  <2>3. \A n \in DOMAIN moved.splits : \E e \in Own(new, id) :
           new[e].credit = moved.splits[n].vault /\ new[e].amount = moved.splits[n].amount
    BY <2>2
  <2>4. /\ SumFunctionOnSet(AmountsIn(led), Own(led, id)) = row.total
        /\ SumOf(row.splits) = row.total
        /\ \A e \in Own(led, id) : led[e].debit = KindAccount[row.kind]
    BY <1>1 DEF Posts
  <2> QED BY <1>1, <2>1, <2>3, <2>4 DEF Posts
<1>2. CASE row.status # "active"
  BY <1>2 DEF Posts
<1> QED BY <1>1, <1>2

\* The entries of an invoice appended to a book: the others keep theirs.
Extended(new, led, id, row, more) ==
    /\ new \in Seq(Postings)
    /\ \A j : j # id => Own(new, j) = Own(led, j)
    /\ \A e : e \in Own(new, id)
         <=> e \in Own(led, id) \/ \E n \in DOMAIN row.splits : e = Len(led) + n
    /\ \A e \in DOMAIN led : e \in DOMAIN new /\ new[e] = led[e]
    /\ \A n \in DOMAIN row.splits :
          new[Len(led) + n] = more[n] /\ n \in Nat /\ Len(led) \in Nat

\* What appending the entries of one invoice does.
LEMMA EntriesAppended ==
    ASSUME NEW led \in Seq(Postings), NEW id \in Nat, NEW row \in InvoiceRows,
           NEW account \in Accounts, NEW more, more = EntriesFor(id, row, account),
           NEW new, new = led \o more
    PROVE  Extended(new, led, id, row, more)
<1>1. /\ more \in Seq(Postings) /\ Len(more) \in Nat /\ DOMAIN more = 1..Len(more)
      /\ DOMAIN row.splits = 1..Len(more)
      /\ \A n \in DOMAIN more : more[n].ref = Ref("invoice", id) /\ more[n].status = "active"
  BY EntriesTyped
<1>2. /\ new \in Seq(Postings) /\ Len(new) = Len(led) + Len(more) /\ Len(led) \in Nat
      /\ DOMAIN led = 1..Len(led) /\ DOMAIN new = 1..(Len(led) + Len(more))
      /\ \A e \in 1..(Len(led) + Len(more)) :
            new[e] = IF e <= Len(led) THEN led[e] ELSE more[e - Len(led)]
  BY <1>1, ConcatProperties
<1>3. \A e \in DOMAIN led : e \in DOMAIN new /\ new[e] = led[e]
  BY <1>1, <1>2
<1>4. \A n \in DOMAIN more : /\ Len(led) + n \in DOMAIN new /\ n \in Nat
                             /\ new[Len(led) + n] = more[n] /\ Len(led) + n \notin DOMAIN led
  BY <1>1, <1>2
<1>5. \A e \in DOMAIN new \ DOMAIN led : \E n \in DOMAIN more : e = Len(led) + n
  <2> SUFFICES ASSUME NEW e \in DOMAIN new \ DOMAIN led
               PROVE  \E n \in DOMAIN more : e = Len(led) + n
    OBVIOUS
  <2>1. e - Len(led) \in DOMAIN more /\ e = Len(led) + (e - Len(led))
    BY <1>1, <1>2
  <2> QED BY <2>1
<1>6. \A j : Ref("invoice", j) = Ref("invoice", id) => j = id
  BY DEF Ref
<1>7. ASSUME NEW j, j # id PROVE Own(new, j) = Own(led, j)
  <2>1. \A n \in DOMAIN more : new[Len(led) + n].ref # Ref("invoice", j)
    BY <1>1, <1>4, <1>6, <1>7
  <2> QED BY <1>3, <1>5, <2>1 DEF Own
<1>8. \A e : e \in Own(new, id)
          <=> e \in Own(led, id) \/ \E n \in DOMAIN row.splits : e = Len(led) + n
  BY <1>1, <1>3, <1>4, <1>5 DEF Own
<1> QED BY <1>1, <1>2, <1>3, <1>4, <1>7, <1>8 DEF Extended

\* The entries of one invoice leave the others posted as they are.
LEMMA PostsKept ==
    ASSUME NEW led \in Seq(Postings), NEW id \in Nat, NEW row \in InvoiceRows,
           NEW account \in Accounts, NEW new, new = led \o EntriesFor(id, row, account),
           NEW j, j # id, NEW other, Posts(led, j, other)
    PROVE  Posts(new, j, other)
<1>1. /\ new \in Seq(Postings) /\ Own(new, j) = Own(led, j)
      /\ \A e \in DOMAIN led : new[e] = led[e]
  <2>1. PICK more : more = EntriesFor(id, row, account)
    OBVIOUS
  <2>2. Extended(new, led, id, row, more)
    BY <2>1, EntriesAppended
  <2> QED BY <2>2 DEF Extended
<1>2. Own(led, j) \subseteq DOMAIN led
  BY DEF Own
<1>3. CASE other.status = "active"
  <2>1. \A e \in Own(led, j) : led[e].day = other.day
    BY <1>3 DEF Posts
  <2>2. \A e \in Own(led, j) : /\ new[e].amount = led[e].amount /\ new[e].credit = led[e].credit
                               /\ new[e].debit = led[e].debit /\ new[e].day = other.day
    BY <1>1, <1>2, <2>1
  <2> QED BY <1>1, <2>2, PostsMoved
<1>4. CASE other.status # "active"
  BY <1>1, <1>4 DEF Posts
<1> QED BY <1>3, <1>4

\* An invoice without active entries is posted by the entries of its splits.
LEMMA PostsNew ==
    ASSUME NEW led \in Seq(Postings), NEW id \in Nat, NEW row \in InvoiceRows,
           row.status = "active", SumOf(row.splits) = row.total, Own(led, id) = {},
           NEW account \in Accounts, account = KindAccount[row.kind],
           NEW new, new = led \o EntriesFor(id, row, account)
    PROVE  Posts(new, id, row)
<1>1. PICK more : more = EntriesFor(id, row, account)
  OBVIOUS
<1>2. /\ DOMAIN row.splits = 1..Len(more) /\ DOMAIN more = 1..Len(more) /\ Len(more) \in Nat
      /\ \A n \in DOMAIN more :
            /\ more[n].debit = account /\ more[n].credit = row.splits[n].vault
            /\ more[n].amount = row.splits[n].amount /\ more[n].amount \in Int
            /\ more[n].day = row.day
  BY <1>1, EntriesTyped
<1>3. /\ new \in Seq(Postings)
      /\ Own(new, id) = {Len(led) + n : n \in DOMAIN row.splits}
      /\ \A n \in DOMAIN row.splits :
            new[Len(led) + n] = more[n] /\ n \in Nat /\ Len(led) \in Nat
  <2>1. /\ new \in Seq(Postings)
        /\ \A e : e \in Own(new, id)
             <=> e \in Own(led, id) \/ \E n \in DOMAIN row.splits : e = Len(led) + n
        /\ \A n \in DOMAIN row.splits :
              new[Len(led) + n] = more[n] /\ n \in Nat /\ Len(led) \in Nat
    <3>1. Extended(new, led, id, row, more)
      BY <1>1, EntriesAppended
    <3> QED BY <3>1 DEF Extended
  <2> QED BY <2>1
<1> DEFINE S == DOMAIN row.splits
           h == [n \in S |-> Len(led) + n]
           f == [n \in S |-> row.splits[n].amount]
<1>4. Own(new, id) = {h[n] : n \in S}
  BY <1>3
<1>5. SumFunctionOnSet(AmountsIn(new), {h[n] : n \in S}) = SumFunctionOnSet(f, S)
  <2>1. IsFiniteSet(S)
    BY <1>2, FS_Interval
  <2>2. \A n \in S : h[n] \in DOMAIN new
    BY <1>4, <1>3, OwnFinite
  <2>3. \A n \in S : f[n] \in Int /\ AmountsIn(new)[h[n]] = f[n]
    <3> SUFFICES ASSUME NEW n \in S PROVE f[n] \in Int /\ AmountsIn(new)[h[n]] = f[n]
      OBVIOUS
    <3>1. f[n] = more[n].amount /\ f[n] \in Int
      BY <1>2
    <3>2. h[n] = Len(led) + n /\ new[h[n]] = more[n]
      BY <1>3
    <3>3. AmountsIn(new)[h[n]] = new[h[n]].amount
      BY <2>2 DEF AmountsIn
    <3> QED BY <3>1, <3>2, <3>3
  <2>4. \A m, n \in S : h[m] = h[n] => m = n
    BY <1>3
  <2> DEFINE g == AmountsIn(new)
  <2> HIDE DEF h, f, S, g
  <2>5. \A x \in S : f[x] \in Int /\ g[h[x]] = f[x]
    BY <2>3 DEF g
  <2>6. SumFunctionOnSet(g, {h[n] : n \in S}) = SumFunctionOnSet(f, S)
    BY <2>1, <2>4, <2>5, SumRenamed
  <2> QED BY <2>6 DEF g
<1>6. SumFunctionOnSet(f, S) = row.total
  BY DEF SumOf, SumFunction
<1>7. \A n \in S : \E e \in Own(new, id) :
         new[e].credit = row.splits[n].vault /\ new[e].amount = row.splits[n].amount
  <2> SUFFICES ASSUME NEW n \in S
               PROVE  \E e \in Own(new, id) :
                         new[e].credit = row.splits[n].vault /\ new[e].amount = row.splits[n].amount
    OBVIOUS
  <2>1. Len(led) + n \in Own(new, id) /\ new[Len(led) + n] = more[n]
    BY <1>3
  <2> QED BY <1>2, <2>1
<1>8. \A e \in Own(new, id) : new[e].day = row.day /\ new[e].debit = account
  <2> SUFFICES ASSUME NEW e \in Own(new, id)
               PROVE  new[e].day = row.day /\ new[e].debit = account
    OBVIOUS
  <2>1. PICK n \in S : e = Len(led) + n
    BY <1>3
  <2>2. new[e] = more[n] /\ n \in DOMAIN more
    BY <1>2, <1>3, <2>1
  <2> QED BY <1>2, <2>2
<1>9. SumFunctionOnSet(AmountsIn(new), Own(new, id)) = row.total
  BY <1>4, <1>5, <1>6
<1> QED BY <1>7, <1>8, <1>9 DEF Posts

-----------------------------------------------------------------------------
(* Several invoices inserted.                                              *)

\* The first n of the new invoices are posted, and nothing of the others.
Carried(new, led, invs, rows, n) ==
    /\ new \in Seq(Postings)
    /\ \A id \in Nat : id > Len(invs) + n => Own(new, id) = {}
    /\ \A id \in DOMAIN invs : Posts(led, id, invs[id]) => Posts(new, id, invs[id])
    /\ \A m \in 1..n : Posts(new, Len(invs) + m, rows[m])

\* One more row of the batch is posted, the rest stays as it is.
LEMMA OneCarried ==
    ASSUME NEW led \in Seq(Postings), NEW invs \in Seq(InvoiceRows),
           NEW rows \in Seq(InvoiceRows), NEW n \in 0..Len(rows), n < Len(rows),
           NEW book, Carried(book, led, invs, rows, n),
           rows[n + 1].status = "active", SumOf(rows[n + 1].splits) = rows[n + 1].total,
           NEW new,
           new = book \o EntriesFor(Len(invs) + (n + 1), rows[n + 1],
                                    KindAccount[rows[n + 1].kind])
    PROVE  Carried(new, led, invs, rows, n + 1)
<1>1. PICK row \in InvoiceRows : row = rows[n + 1]
  BY ElementOf
<1>2. PICK id \in Nat : id = Len(invs) + (n + 1)
  OBVIOUS
<1>3. PICK account \in Accounts : account = KindAccount[row.kind]
  BY <1>1, KindsHaveAccounts DEF InvoiceRows
<1>4. PICK more : more = EntriesFor(id, row, account)
  OBVIOUS
<1>5. new = book \o more /\ book \in Seq(Postings)
  BY <1>1, <1>2, <1>3, <1>4 DEF Carried
<1>6. Extended(new, book, id, row, more)
  BY <1>4, <1>5, EntriesAppended
<1>7. Len(invs) \in Nat /\ n \in Nat /\ DOMAIN invs = 1..Len(invs)
  OBVIOUS
<1>8. Own(book, id) = {}
  <2>1. id > Len(invs) + n
    BY <1>2, <1>7
  <2> QED BY <2>1 DEF Carried
<1>9. Posts(new, id, row)
  BY <1>1, <1>3, <1>4, <1>5, <1>8, PostsNew
<1>10. \A j, other : j # id /\ Posts(book, j, other) => Posts(new, j, other)
  BY <1>4, <1>5, PostsKept
<1>11. ASSUME NEW j \in Nat, j > Len(invs) + (n + 1) PROVE Own(new, j) = {}
  <2>1. j # id /\ j > Len(invs) + n
    BY <1>2, <1>7, <1>11
  <2> QED BY <1>6, <2>1 DEF Carried, Extended
<1>12. ASSUME NEW j \in DOMAIN invs, Posts(led, j, invs[j]) PROVE Posts(new, j, invs[j])
  <2>1. j # id
    BY <1>2, <1>7
  <2> QED BY <1>10, <1>12, <2>1 DEF Carried
<1>13. ASSUME NEW m \in 1..(n + 1) PROVE Posts(new, Len(invs) + m, rows[m])
  <2>1. CASE m = n + 1
    BY <1>1, <1>2, <1>9, <2>1
  <2>2. CASE m # n + 1
    <3>1. m \in 1..n /\ Len(invs) + m # id
      BY <1>2, <1>7, <2>2
    <3> QED BY <1>10, <3>1 DEF Carried
  <2> QED BY <2>1, <2>2
<1>14. new \in Seq(Postings)
  BY <1>6 DEF Extended
<1> QED BY <1>11, <1>12, <1>13, <1>14 DEF Carried

\* What Insert writes posts the new invoices, and leaves what was posted.
LEMMA BatchCarried ==
    ASSUME NEW led \in Seq(Postings), NEW invs \in Seq(InvoiceRows),
           NEW rows \in Seq(InvoiceRows),
           \A id \in Nat : id > Len(invs) => Own(led, id) = {},
           \A n \in DOMAIN rows :
              rows[n].status = "active" /\ SumOf(rows[n].splits) = rows[n].total,
           NEW new, new = led \o FlattenSeq(PostedFrom(Len(invs), rows))
    PROVE  Carried(new, led, invs, rows, Len(rows))
<1>1. Len(invs) \in Nat /\ Len(rows) \in Nat /\ DOMAIN rows = 1..Len(rows)
  OBVIOUS
<1>2. PICK book :
        /\ book[0] = led /\ book[Len(rows)] = led \o FlattenSeq(PostedFrom(Len(invs), rows))
        /\ \A n \in 0..Len(rows) : book[n] \in Seq(Postings)
        /\ \A n \in 1..Len(rows) :
              book[n] = book[n - 1]
                  \o EntriesFor(Len(invs) + n, rows[n], KindAccount[rows[n].kind])
  BY <1>1, PostedOneByOne
<1> DEFINE P == {n \in 0..Len(rows) : Carried(book[n], led, invs, rows, n)}
<1>3. 0 \in P
  <2>1. 0 \in 0..Len(rows)
    BY <1>1
  <2>2. \A id \in Nat : id > Len(invs) + 0 => Own(led, id) = {}
    BY <1>1
  <2>3. Carried(led, led, invs, rows, 0)
    BY <2>2 DEF Carried
  <2> QED BY <1>2, <2>1, <2>3
<1>4. ASSUME NEW n \in 0..Len(rows), n < Len(rows), n \in P PROVE n + 1 \in P
  <2>1. n + 1 \in 1..Len(rows) /\ n + 1 \in 0..Len(rows) /\ (n + 1) - 1 = n
    BY <1>1, <1>4
  <2>2. book[n + 1] = book[n]
            \o EntriesFor(Len(invs) + (n + 1), rows[n + 1], KindAccount[rows[n + 1].kind])
    <3>1. book[n + 1] = book[(n + 1) - 1]
            \o EntriesFor(Len(invs) + (n + 1), rows[n + 1], KindAccount[rows[n + 1].kind])
      BY <1>2, <2>1
    <3> QED BY <2>1, <3>1
  <2>3. rows[n + 1].status = "active" /\ SumOf(rows[n + 1].splits) = rows[n + 1].total
    BY <1>1, <2>1
  <2>4. Carried(book[n], led, invs, rows, n)
    BY <1>4
  <2>5. Carried(book[n + 1], led, invs, rows, n + 1)
    <3> HIDE DEF P
    <3> QED BY <1>4, <2>2, <2>3, <2>4, OneCarried
  <2> QED BY <2>1, <2>5
<1>5. Len(rows) \in P
  <2> HIDE DEF P
  <2> QED BY <1>1, <1>3, <1>4, CountingUp
<1> QED BY <1>2, <1>5

-----------------------------------------------------------------------------
(* The serial numbers.                                                     *)

\* The rows among the first n that are of a series.
SeriesIn(rows, n, prefix, day) ==
    {m \in 1..n : rows[m].serial.prefix = prefix /\ rows[m].serial.day = day}
\* How many rows of its series come before a row.
Count(rows, n) ==
    Cardinality(SeriesIn(rows, n - 1, rows[n].serial.prefix, rows[n].serial.day))
SeriesOf(rows, row) == InSeries(rows, row.serial.prefix, row.serial.day)

\* A series is finite.
LEMMA SeriesFinite ==
    ASSUME NEW rows \in Seq(InvoiceRows), NEW prefix, NEW day
    PROVE  /\ IsFiniteSet(InSeries(rows, prefix, day))
           /\ Cardinality(InSeries(rows, prefix, day)) \in Nat
           /\ InSeries(rows, prefix, day) \subseteq DOMAIN rows
<1>1. IsFiniteSet(DOMAIN rows)
  <2>1. DOMAIN rows = 1..Len(rows) /\ Len(rows) \in Nat
    OBVIOUS
  <2> QED BY <2>1, FS_Interval
<1>2. InSeries(rows, prefix, day) \subseteq DOMAIN rows
  BY DEF InSeries
<1>3. IsFiniteSet(InSeries(rows, prefix, day))
  BY <1>1, <1>2, FS_Subset
<1> QED BY <1>2, <1>3, FS_CardinalityType

\* The part of a series among the first rows can be counted.
LEMMA SeriesInFinite ==
    ASSUME NEW rows, NEW n \in Nat, NEW prefix, NEW day
    PROVE  /\ IsFiniteSet(SeriesIn(rows, n, prefix, day))
           /\ Cardinality(SeriesIn(rows, n, prefix, day)) \in Nat
<1>1. IsFiniteSet(1..n) /\ SeriesIn(rows, n, prefix, day) \subseteq 1..n
  BY FS_Interval DEF SeriesIn
<1>2. IsFiniteSet(SeriesIn(rows, n, prefix, day))
  BY <1>1, FS_Subset
<1> QED BY <1>2, FS_CardinalityType

\* A row appended belongs to its own series only.
LEMMA SeriesAppended ==
    ASSUME NEW rows \in Seq(InvoiceRows), NEW row \in InvoiceRows, NEW prefix, NEW day
    PROVE  LET in == row.serial.prefix = prefix /\ row.serial.day = day
               more == InSeries(Append(rows, row), prefix, day)
           IN /\ more = InSeries(rows, prefix, day) \cup (IF in THEN {Len(rows) + 1} ELSE {})
              /\ Cardinality(more)
                   = Cardinality(InSeries(rows, prefix, day)) + (IF in THEN 1 ELSE 0)
<1> DEFINE in == row.serial.prefix = prefix /\ row.serial.day = day
           more == InSeries(Append(rows, row), prefix, day)
           old == InSeries(rows, prefix, day)
<1>1. /\ Len(rows) \in Nat /\ DOMAIN rows = 1..Len(rows)
      /\ DOMAIN Append(rows, row) = DOMAIN rows \cup {Len(rows) + 1}
      /\ Len(rows) + 1 \notin DOMAIN rows
      /\ Append(rows, row)[Len(rows) + 1] = row
      /\ \A i \in DOMAIN rows : Append(rows, row)[i] = rows[i]
  BY Appended
<1>2. more = old \cup (IF in THEN {Len(rows) + 1} ELSE {})
  BY <1>1 DEF InSeries
<1>3. IsFiniteSet(old) /\ Cardinality(old) \in Nat /\ Len(rows) + 1 \notin old
  BY <1>1, SeriesFinite
<1>4. Cardinality(more) = Cardinality(old) + (IF in THEN 1 ELSE 0)
  <2> HIDE DEF more, old
  <2>1. CASE in
    <3>1. more = old \cup {Len(rows) + 1}
      BY <1>2, <2>1
    <3> QED BY <1>3, <2>1, <3>1, FS_AddElement
  <2>2. CASE ~in
    <3>1. more = old
      BY <1>2, <2>2
    <3> QED BY <1>3, <2>2, <3>1
  <2> QED BY <2>1, <2>2
<1> QED BY <1>2, <1>4

\* One more row counts one more in its own series.
LEMMA SeriesInGrows ==
    ASSUME NEW rows, NEW n \in Nat, NEW prefix, NEW day
    PROVE  Cardinality(SeriesIn(rows, n + 1, prefix, day))
             = Cardinality(SeriesIn(rows, n, prefix, day))
                 + (IF rows[n + 1].serial.prefix = prefix /\ rows[n + 1].serial.day = day
                    THEN 1 ELSE 0)
<1> DEFINE old == SeriesIn(rows, n, prefix, day)
           more == SeriesIn(rows, n + 1, prefix, day)
           in == rows[n + 1].serial.prefix = prefix /\ rows[n + 1].serial.day = day
<1>1. 1..(n + 1) = (1..n) \cup {n + 1} /\ n + 1 \notin 1..n
  OBVIOUS
<1>2. more = old \cup (IF in THEN {n + 1} ELSE {}) /\ n + 1 \notin old
  BY <1>1, Zenon DEF SeriesIn
<1>3. IsFiniteSet(old) /\ Cardinality(old) \in Nat
  BY SeriesInFinite
<1>4. Cardinality(more) = Cardinality(old) + (IF in THEN 1 ELSE 0)
  <2> HIDE DEF more, old
  <2>1. CASE in
    <3>1. more = old \cup {n + 1}
      BY <1>2, <2>1
    <3> QED BY <1>2, <1>3, <2>1, <3>1, FS_AddElement
  <2>2. CASE ~in
    <3>1. more = old
      BY <1>2, <2>2
    <3> QED BY <1>3, <2>2, <3>1
  <2> QED BY <2>1, <2>2
<1> QED BY <1>4

\* The rows of a series, in a table with the first n of the new rows.
LEMMA SeriesCount ==
    ASSUME NEW invs \in Seq(InvoiceRows), NEW rows \in Seq(InvoiceRows),
           NEW n \in 0..Len(rows), NEW prefix, NEW day
    PROVE  Cardinality(InSeries(WithFirst(invs, rows, n), prefix, day))
             = Cardinality(InSeries(invs, prefix, day)) + Cardinality(SeriesIn(rows, n, prefix, day))
<1> DEFINE Fits(m) ==
             Cardinality(InSeries(WithFirst(invs, rows, m), prefix, day))
               = Cardinality(InSeries(invs, prefix, day)) + Cardinality(SeriesIn(rows, m, prefix, day))
           P == {m \in 0..n : Fits(m)}
<1>1. Len(rows) \in Nat /\ n \in Nat /\ Cardinality(InSeries(invs, prefix, day)) \in Nat
  BY SeriesFinite
<1>2. /\ WithFirst(invs, rows, 0) = invs
      /\ \A m \in 0..Len(rows) : WithFirst(invs, rows, m) \in Seq(InvoiceRows)
      /\ \A m \in 1..Len(rows) :
            WithFirst(invs, rows, m) = Append(WithFirst(invs, rows, m - 1), rows[m])
  <2>1. OneByOne(InvoiceRows, invs, rows)
    BY AppendedOneByOne
  <2> QED BY <2>1 DEF OneByOne
<1>3. 0 \in P
  <2>1. SeriesIn(rows, 0, prefix, day) = {}
    BY DEF SeriesIn
  <2>2. Cardinality(SeriesIn(rows, 0, prefix, day)) = 0
    BY <2>1, FS_EmptySet
  <2>3. Fits(0)
    BY <1>1, <1>2, <2>2
  <2>4. 0 \in 0..n
    BY <1>1
  <2> QED BY <2>3, <2>4
<1>4. ASSUME NEW m \in 0..n, m < n, m \in P PROVE m + 1 \in P
  <2>1. m \in Nat /\ m \in 0..Len(rows) /\ m + 1 \in 1..Len(rows) /\ (m + 1) - 1 = m
        /\ m + 1 \in 0..n
    BY <1>1, <1>4
  <2>2. WithFirst(invs, rows, m + 1) = Append(WithFirst(invs, rows, m), rows[m + 1])
    <3>1. WithFirst(invs, rows, m + 1) = Append(WithFirst(invs, rows, (m + 1) - 1), rows[m + 1])
      BY <1>2, <2>1
    <3> QED BY <2>1, <3>1
  <2> DEFINE old == WithFirst(invs, rows, m)
             add == IF rows[m + 1].serial.prefix = prefix /\ rows[m + 1].serial.day = day
                    THEN 1 ELSE 0
  <2>3. rows[m + 1] \in InvoiceRows /\ old \in Seq(InvoiceRows)
    BY <1>2, <2>1
  <2> HIDE DEF old
  <2>4. Cardinality(InSeries(Append(old, rows[m + 1]), prefix, day))
          = Cardinality(InSeries(old, prefix, day)) + add
    BY <2>3, SeriesAppended
  <2>5. Cardinality(SeriesIn(rows, m + 1, prefix, day))
          = Cardinality(SeriesIn(rows, m, prefix, day)) + add
    BY <2>1, SeriesInGrows
  <2>6. Fits(m)
    BY <1>4
  <2>7. Cardinality(SeriesIn(rows, m, prefix, day)) \in Nat /\ add \in {0, 1}
    BY <2>1, SeriesInFinite
  <2>8. Fits(m + 1)
    <3>1. Cardinality(InSeries(WithFirst(invs, rows, m + 1), prefix, day))
            = Cardinality(InSeries(WithFirst(invs, rows, m), prefix, day)) + add
      BY <2>2, <2>4 DEF old
    <3>2. Cardinality(InSeries(WithFirst(invs, rows, m), prefix, day))
            = Cardinality(InSeries(invs, prefix, day)) + Cardinality(SeriesIn(rows, m, prefix, day))
      BY <2>6
    <3> HIDE DEF add
    <3> QED BY <1>1, <2>5, <2>7, <3>1, <3>2
  <2> QED BY <2>1, <2>8
<1>5. n \in P
  <2> HIDE DEF P
  <2> QED BY <1>1, <1>3, <1>4, CountingUp
<1> QED BY <1>5

\* A row that takes the next number of its series leaves no gap.
LEMMA NextLeavesNoGap ==
    ASSUME NEW rows \in Seq(InvoiceRows), Gapless(rows), NEW row \in InvoiceRows,
           row.serial.seq = Cardinality(SeriesOf(rows, row)) + 1
    PROVE  Gapless(Append(rows, row))
<1> DEFINE more == Append(rows, row)
<1>1. /\ Len(rows) \in Nat /\ Len(rows) + 1 \notin DOMAIN rows
      /\ more[Len(rows) + 1] = row /\ \A i \in DOMAIN rows : more[i] = rows[i]
  BY Appended
<1> SUFFICES ASSUME NEW prefix \in SerialPrefixes, NEW day \in Days
             PROVE  {more[i].serial.seq : i \in InSeries(more, prefix, day)}
                      = 1..Cardinality(InSeries(more, prefix, day))
  BY DEF Gapless
<1> DEFINE old == InSeries(rows, prefix, day)
           new == InSeries(more, prefix, day)
           in == row.serial.prefix = prefix /\ row.serial.day = day
<1> SUFFICES {more[i].serial.seq : i \in new} = 1..Cardinality(new)
  OBVIOUS
<1>2. {rows[i].serial.seq : i \in old} = 1..Cardinality(old)
  BY DEF Gapless
<1>3. /\ new = old \cup (IF in THEN {Len(rows) + 1} ELSE {})
      /\ Cardinality(new) = Cardinality(old) + (IF in THEN 1 ELSE 0)
  BY SeriesAppended
<1>4. Cardinality(old) \in Nat /\ old \subseteq DOMAIN rows
  BY SeriesFinite
<1>5. in => row.serial.seq = Cardinality(old) + 1
  BY DEF SeriesOf
<1> HIDE DEF old, new, more
<1>6. CASE in
  <2>1. new = old \cup {Len(rows) + 1} /\ Cardinality(new) = Cardinality(old) + 1
    BY <1>3, <1>6
  <2>2. {more[i].serial.seq : i \in new} = {rows[i].serial.seq : i \in old} \cup {row.serial.seq}
    BY <1>1, <1>4, <2>1
  <2>3. 1..(Cardinality(old) + 1) = 1..Cardinality(old) \cup {Cardinality(old) + 1}
    BY <1>4
  <2> QED BY <1>2, <1>5, <1>6, <2>1, <2>2, <2>3
<1>7. CASE ~in
  <2>1. new = old /\ Cardinality(new) = Cardinality(old)
    BY <1>3, <1>4, <1>7
  <2>2. {more[i].serial.seq : i \in new} = {rows[i].serial.seq : i \in old}
    BY <1>1, <1>4, <2>1
  <2> QED BY <1>2, <2>1, <2>2
<1> QED BY <1>6, <1>7

\* What is known of the numbers a batch has drawn: they were the next ones
\* when they were drawn, and rows of a series have only been added since.
Drawn(invs, rows) ==
    \A n \in DOMAIN rows :
       /\ rows[n].serial.seq <= Cardinality(SeriesOf(invs, rows[n])) + Count(rows, n) + 1
       /\ \A m \in SeriesIn(rows, n - 1, rows[n].serial.prefix, rows[n].serial.day) :
             rows[n].serial.seq - rows[m].serial.seq >= Count(rows, n) - Count(rows, m)

\* Numbers that were drawn stay drawn while the series grow.
LEMMA DrawnLater ==
    ASSUME NEW invs \in Seq(InvoiceRows), NEW later \in Seq(InvoiceRows),
           NEW rows \in Seq(InvoiceRows), Drawn(invs, rows),
           \A prefix \in SerialPrefixes, day \in Days :
              Cardinality(InSeries(invs, prefix, day)) <= Cardinality(InSeries(later, prefix, day))
    PROVE  Drawn(later, rows)
<1> SUFFICES ASSUME NEW n \in DOMAIN rows
             PROVE  rows[n].serial.seq
                      <= Cardinality(SeriesOf(later, rows[n])) + Count(rows, n) + 1
  BY DEF Drawn
<1>1. rows[n] \in InvoiceRows /\ n \in Nat /\ n # 0
  <2>1. DOMAIN rows = 1..Len(rows)
    OBVIOUS
  <2> QED BY <2>1, ElementOf
<1>2. /\ rows[n].serial.prefix \in SerialPrefixes /\ rows[n].serial.day \in Days
      /\ rows[n].serial.seq \in Nat
  BY <1>1 DEF InvoiceRows, Serials
<1>3. /\ Cardinality(SeriesOf(invs, rows[n])) \in Nat
      /\ Cardinality(SeriesOf(later, rows[n])) \in Nat
      /\ Cardinality(SeriesOf(invs, rows[n])) <= Cardinality(SeriesOf(later, rows[n]))
  BY <1>2, SeriesFinite DEF SeriesOf
<1>4. Count(rows, n) \in Nat
  <2>1. n - 1 \in Nat
    BY <1>1
  <2> QED BY <2>1, SeriesInFinite DEF Count
<1>5. rows[n].serial.seq <= Cardinality(SeriesOf(invs, rows[n])) + Count(rows, n) + 1
  BY DEF Drawn
<1> QED BY <1>2, <1>3, <1>4, <1>5

\* The next row of a batch draws its number from the table and the rows so far.
LEMMA DrawsNext ==
    ASSUME NEW invs \in Seq(InvoiceRows), NEW rows \in Seq(InvoiceRows), Drawn(invs, rows),
           NEW row \in InvoiceRows,
           row.serial.seq = Cardinality(SeriesOf(invs \o rows, row)) + 1
    PROVE  Drawn(invs, Append(rows, row))
<1> DEFINE more == Append(rows, row)
           last == Len(rows) + 1
<1>1. /\ Len(rows) \in Nat /\ DOMAIN rows = 1..Len(rows) /\ DOMAIN more = 1..last
      /\ more[last] = row /\ \A i \in DOMAIN rows : more[i] = rows[i]
      /\ more \in Seq(InvoiceRows)
  BY Appended
<1> HIDE DEF more
<1>2. ASSUME NEW m \in 0..Len(rows), NEW prefix, NEW day
      PROVE  SeriesIn(more, m, prefix, day) = SeriesIn(rows, m, prefix, day)
  <2>1. \A i \in 1..m : more[i] = rows[i]
    BY <1>1
  <2> QED BY <2>1 DEF SeriesIn
<1>3. ASSUME NEW n \in DOMAIN rows PROVE Count(more, n) = Count(rows, n)
  <2>1. n - 1 \in 0..Len(rows)
    BY <1>1
  <2> QED BY <1>1, <1>2, <2>1 DEF Count
<1>4. ASSUME NEW n \in DOMAIN rows PROVE Count(rows, n) \in Nat
  <2>1. n - 1 \in Nat
    BY <1>1
  <2> QED BY <2>1, SeriesInFinite DEF Count
<1>5. Count(more, last) = Cardinality(SeriesIn(rows, Len(rows), row.serial.prefix, row.serial.day))
  <2>1. last - 1 = Len(rows) /\ Len(rows) \in 0..Len(rows)
    BY <1>1
  <2> QED BY <1>1, <1>2, <2>1 DEF Count
<1>6. row.serial.seq = Cardinality(SeriesOf(invs, row)) + Count(more, last) + 1
  <2>1. WithFirst(invs, rows, Len(rows)) = invs \o rows /\ Len(rows) \in 0..Len(rows)
    <3>1. OneByOne(InvoiceRows, invs, rows)
      BY AppendedOneByOne
    <3> QED BY <1>1, <3>1 DEF OneByOne
  <2>2. Cardinality(SeriesOf(invs \o rows, row))
          = Cardinality(SeriesOf(invs, row))
              + Cardinality(SeriesIn(rows, Len(rows), row.serial.prefix, row.serial.day))
    <3>1. Cardinality(InSeries(WithFirst(invs, rows, Len(rows)), row.serial.prefix, row.serial.day))
            = Cardinality(InSeries(invs, row.serial.prefix, row.serial.day))
                + Cardinality(SeriesIn(rows, Len(rows), row.serial.prefix, row.serial.day))
      <4>1. PICK n \in 0..Len(rows) : n = Len(rows)
        BY <2>1
      <4>2. PICK prefix, day : prefix = row.serial.prefix /\ day = row.serial.day
        OBVIOUS
      <4>3. Cardinality(InSeries(WithFirst(invs, rows, n), prefix, day))
              = Cardinality(InSeries(invs, prefix, day)) + Cardinality(SeriesIn(rows, n, prefix, day))
        BY SeriesCount
      <4> QED BY <4>1, <4>2, <4>3
    <3> QED BY <2>1, <3>1 DEF SeriesOf
  <2> QED BY <1>5, <2>2
<1>7. Count(more, last) \in Nat /\ Cardinality(SeriesOf(invs, row)) \in Nat
  BY <1>1, <1>5, SeriesInFinite, SeriesFinite DEF SeriesOf
<1>8. ASSUME NEW n \in DOMAIN more
      PROVE  /\ more[n].serial.seq <= Cardinality(SeriesOf(invs, more[n])) + Count(more, n) + 1
             /\ \A m \in SeriesIn(more, n - 1, more[n].serial.prefix, more[n].serial.day) :
                   more[n].serial.seq - more[m].serial.seq >= Count(more, n) - Count(more, m)
  <2>1. CASE n \in DOMAIN rows
    <3>1. /\ rows[n].serial.seq <= Cardinality(SeriesOf(invs, rows[n])) + Count(rows, n) + 1
          /\ \A m \in SeriesIn(rows, n - 1, rows[n].serial.prefix, rows[n].serial.day) :
                rows[n].serial.seq - rows[m].serial.seq >= Count(rows, n) - Count(rows, m)
      BY <2>1 DEF Drawn
    <3>2. n - 1 \in 0..Len(rows) /\ more[n] = rows[n] /\ Count(more, n) = Count(rows, n)
      BY <1>1, <1>3, <2>1
    <3>3. SeriesIn(more, n - 1, more[n].serial.prefix, more[n].serial.day)
            = SeriesIn(rows, n - 1, rows[n].serial.prefix, rows[n].serial.day)
      BY <1>2, <3>2
    <3>4. \A m \in SeriesIn(rows, n - 1, rows[n].serial.prefix, rows[n].serial.day) :
             m \in DOMAIN rows
      BY <1>1, <2>1 DEF SeriesIn
    <3> QED BY <1>1, <1>3, <3>1, <3>2, <3>3, <3>4
  <2>2. CASE n = last
    <3>1. more[n].serial.seq = Cardinality(SeriesOf(invs, more[n])) + Count(more, n) + 1
      BY <1>1, <1>6, <2>2
    <3>2. ASSUME NEW m \in SeriesIn(more, n - 1, more[n].serial.prefix, more[n].serial.day)
          PROVE  more[n].serial.seq - more[m].serial.seq >= Count(more, n) - Count(more, m)
      <4>1. /\ m \in DOMAIN rows /\ more[m] = rows[m] /\ Count(more, m) = Count(rows, m)
            /\ SeriesOf(invs, rows[m]) = SeriesOf(invs, row)
        <5>1. m \in 1..(n - 1) /\ more[m].serial.prefix = row.serial.prefix
              /\ more[m].serial.day = row.serial.day
          BY <1>1, <2>2, <3>2 DEF SeriesIn
        <5>2. m \in DOMAIN rows
          BY <1>1, <2>2, <5>1
        <5> QED BY <1>1, <1>3, <5>1, <5>2 DEF SeriesOf
      <4>2. rows[m].serial.seq <= Cardinality(SeriesOf(invs, row)) + Count(rows, m) + 1
        BY <4>1 DEF Drawn
      <4>3. Count(rows, m) \in Nat /\ rows[m].serial.seq \in Nat /\ row.serial.seq \in Nat
        <5>1. rows[m] \in InvoiceRows
          BY <4>1, ElementOf
        <5> QED BY <1>4, <4>1, <5>1 DEF InvoiceRows, Serials
      <4>4. more[n] = row /\ Count(more, n) = Count(more, last)
        BY <1>1, <2>2
      <4> QED BY <1>6, <1>7, <4>1, <4>2, <4>3, <4>4
    <3>3. Cardinality(SeriesOf(invs, more[n])) + Count(more, n) + 1 \in Int
      <4>1. more[n] = row /\ Count(more, n) = Count(more, last)
        BY <1>1, <2>2
      <4> QED BY <1>7, <4>1
    <3> QED BY <3>1, <3>2, <3>3
  <2> QED BY <1>1, <2>1, <2>2
<1> QED BY <1>8 DEF Drawn, more

\* If none of the numbers drawn is taken, they are the next ones.
LEMMA DrawnAreNext ==
    ASSUME NEW invs \in Seq(InvoiceRows), NEW rows \in Seq(InvoiceRows), Gapless(invs),
           Drawn(invs, rows),
           \A n \in DOMAIN rows, i \in DOMAIN invs : invs[i].serial # rows[n].serial,
           NEW n \in DOMAIN rows
    PROVE  rows[n].serial.seq = Cardinality(SeriesOf(invs, rows[n])) + Count(rows, n) + 1
<1>1. /\ Len(rows) \in Nat /\ DOMAIN rows = 1..Len(rows)
      /\ \A m \in DOMAIN rows :
            /\ rows[m] \in InvoiceRows
            /\ rows[m].serial \in Serials /\ rows[m].serial.seq \in Nat \ {0}
            /\ rows[m].serial.prefix \in SerialPrefixes /\ rows[m].serial.day \in Days
  <2>1. \A m \in DOMAIN rows : rows[m] \in InvoiceRows
    BY ElementOf
  <2> QED BY <2>1 DEF InvoiceRows, Serials
<1>2. \A m \in DOMAIN rows : Cardinality(SeriesOf(invs, rows[m])) \in Nat
  BY SeriesFinite DEF SeriesOf
<1>3. ASSUME NEW m \in DOMAIN rows PROVE Count(rows, m) \in Nat
  <2>1. m - 1 \in Nat
    BY <1>1
  <2> QED BY <2>1, SeriesInFinite DEF Count
\* A number up to the count of the series is taken.
<1>4. ASSUME NEW m \in DOMAIN rows
      PROVE  rows[m].serial.seq > Cardinality(SeriesOf(invs, rows[m]))
  <2> DEFINE prefix == rows[m].serial.prefix
             day == rows[m].serial.day
             series == InSeries(invs, prefix, day)
  <2>1. SUFFICES ASSUME rows[m].serial.seq \in 1..Cardinality(series) PROVE FALSE
    BY <1>1, <1>2 DEF SeriesOf
  <2>2. {invs[i].serial.seq : i \in series} = 1..Cardinality(series)
    BY <1>1 DEF Gapless
  <2>3. PICK i \in series : invs[i].serial.seq = rows[m].serial.seq
    BY <2>1, <2>2
  <2>4. i \in DOMAIN invs /\ invs[i].serial.prefix = prefix /\ invs[i].serial.day = day
    BY <2>3 DEF InSeries
  <2>5. invs[i].serial \in Serials
    <3>1. invs[i] \in InvoiceRows
      BY <2>4, ElementOf
    <3> QED BY <3>1 DEF InvoiceRows
  <2>6. invs[i].serial = rows[m].serial
    BY <1>1, <2>3, <2>4, <2>5 DEF Serials
  <2> QED BY <2>4, <2>6
<1> DEFINE AtLeast(m) == rows[m].serial.seq
                           >= Cardinality(SeriesOf(invs, rows[m])) + Count(rows, m) + 1
           P == {k \in 0..Len(rows) : \A m \in 1..k : AtLeast(m)}
<1>5. 0 \in P
  BY <1>1
<1>6. ASSUME NEW k \in 0..Len(rows), k < Len(rows), k \in P PROVE k + 1 \in P
  <2> DEFINE m == k + 1
             before == SeriesIn(rows, m - 1, rows[m].serial.prefix, rows[m].serial.day)
  <2>1. m \in DOMAIN rows /\ m - 1 = k /\ m \in 0..Len(rows)
    BY <1>1, <1>6
  <2>2. CASE before = {}
    <3>1. Count(rows, m) = 0
      BY <2>2, FS_EmptySet DEF Count
    <3>2. AtLeast(m)
      BY <1>1, <1>2, <1>4, <2>1, <3>1
    <3> QED BY <1>1, <1>6, <2>1, <3>2
  <2>3. CASE before # {}
    <3>1. PICK j \in before : TRUE
      BY <2>3
    <3>2. j \in 1..k /\ j \in DOMAIN rows /\ SeriesOf(invs, rows[j]) = SeriesOf(invs, rows[m])
      BY <1>1, <2>1, <3>1 DEF SeriesIn, SeriesOf
    <3>3. rows[m].serial.seq - rows[j].serial.seq >= Count(rows, m) - Count(rows, j)
      BY <2>1, <3>1 DEF Drawn
    <3>4. rows[j].serial.seq >= Cardinality(SeriesOf(invs, rows[m])) + Count(rows, j) + 1
      BY <1>6, <3>2
    <3>5. /\ Count(rows, m) \in Nat /\ Count(rows, j) \in Nat
          /\ rows[m].serial.seq \in Nat /\ rows[j].serial.seq \in Nat
          /\ Cardinality(SeriesOf(invs, rows[m])) \in Nat
      BY <1>1, <1>2, <1>3, <2>1, <3>2
    <3>6. AtLeast(m)
      <4>1. PICK s \in Nat, t \in Nat, a \in Nat, b \in Nat, c \in Nat :
               /\ s = rows[m].serial.seq
               /\ t = rows[j].serial.seq
               /\ a = Count(rows, m)
               /\ b = Count(rows, j)
               /\ c = Cardinality(SeriesOf(invs, rows[m]))
        <5> HIDE DEF m, P, before
        <5> QED BY <3>5, Zenon
      <4>2. /\ s - t >= a - b
            /\ t >= c + b + 1
        <5> HIDE DEF m, P, before
        <5> QED BY <3>3, <3>4, <4>1, Zenon
      <4>3. s >= c + a + 1
        BY <4>2
      <4> HIDE DEF m, P, before
      <4> QED BY <4>1, <4>3, Zenon
    <3> QED BY <1>1, <1>6, <2>1, <3>6
  <2> QED BY <2>2, <2>3
<1>7. AtLeast(n)
  <2>1. Len(rows) \in P
    <3> HIDE DEF P
    <3> QED BY <1>1, <1>5, <1>6, CountingUp
  <2> QED BY <1>1, <2>1
<1>8. rows[n].serial.seq <= Cardinality(SeriesOf(invs, rows[n])) + Count(rows, n) + 1
  BY DEF Drawn
<1> QED BY <1>1, <1>2, <1>3, <1>7, <1>8

\* A batch whose numbers are free leaves no gap.
LEMMA BatchGapless ==
    ASSUME NEW invs \in Seq(InvoiceRows), NEW rows \in Seq(InvoiceRows), Gapless(invs),
           Drawn(invs, rows),
           \A n \in DOMAIN rows, i \in DOMAIN invs : invs[i].serial # rows[n].serial
    PROVE  Gapless(invs \o rows)
<1>1. Len(rows) \in Nat /\ DOMAIN rows = 1..Len(rows)
  OBVIOUS
<1>2. OneByOne(InvoiceRows, invs, rows)
  BY AppendedOneByOne
<1> DEFINE P == {n \in 0..Len(rows) : Gapless(WithFirst(invs, rows, n))}
<1>3. 0 \in P
  BY <1>1, <1>2 DEF OneByOne
<1>4. ASSUME NEW n \in 0..Len(rows), n < Len(rows), n \in P PROVE n + 1 \in P
  <2> DEFINE m == n + 1
             old == WithFirst(invs, rows, n)
  <2>1. m \in DOMAIN rows /\ m - 1 = n /\ m \in 0..Len(rows) /\ m \in 1..Len(rows)
    BY <1>1, <1>4
  <2>2. old \in Seq(InvoiceRows) /\ Gapless(old)
    BY <1>2, <1>4 DEF OneByOne
  <2>3. WithFirst(invs, rows, m) = Append(WithFirst(invs, rows, m - 1), rows[m])
    <3> HIDE DEF m
    <3> QED BY <1>2, <2>1 DEF OneByOne
  <2>4. PICK row \in InvoiceRows : row = rows[m]
    BY <2>1, ElementOf
  <2>5. row.serial.seq = Cardinality(SeriesOf(invs, row)) + Count(rows, m) + 1
    BY <2>1, <2>4, DrawnAreNext
  <2>6. Cardinality(SeriesOf(old, row)) = Cardinality(SeriesOf(invs, row)) + Count(rows, m)
    <3>1. PICK prefix, day : prefix = row.serial.prefix /\ day = row.serial.day
      OBVIOUS
    <3>2. Cardinality(InSeries(old, prefix, day))
            = Cardinality(InSeries(invs, prefix, day)) + Cardinality(SeriesIn(rows, n, prefix, day))
      BY SeriesCount
    <3>3. Count(rows, m) = Cardinality(SeriesIn(rows, n, prefix, day))
      <4>1. Count(rows, m)
              = Cardinality(SeriesIn(rows, m - 1, rows[m].serial.prefix, rows[m].serial.day))
        BY DEF Count
      <4> QED BY <2>1, <2>4, <3>1, <4>1
    <3> QED BY <3>1, <3>2, <3>3 DEF SeriesOf
  <2>7. row.serial.seq = Cardinality(SeriesOf(old, row)) + 1
    BY <2>5, <2>6
  <2>8. Gapless(Append(old, row))
    <3> HIDE DEF old
    <3> QED BY <2>2, <2>7, NextLeavesNoGap
  <2> QED BY <2>1, <2>3, <2>4, <2>8
<1>5. Len(rows) \in P
  <2> HIDE DEF P
  <2> QED BY <1>1, <1>3, <1>4, CountingUp
<1> QED BY <1>2, <1>5 DEF OneByOne

-----------------------------------------------------------------------------
(* The splits.                                                             *)

AmountsOf(splits) == [n \in DOMAIN splits |-> splits[n].amount]

\* The sum of splits is the sum over the function of their amounts.
LEMMA SumOfAmounts ==
    ASSUME NEW splits \in Splits
    PROVE  /\ SumOf(splits) = SumFunctionOnSet(AmountsOf(splits), 1..Len(splits))
           /\ SumOf(splits) \in Int /\ Len(splits) \in Nat
           /\ DOMAIN splits = 1..Len(splits) /\ IsFiniteSet(1..Len(splits))
           /\ \A n \in 1..Len(splits) :
                 /\ AmountsOf(splits)[n] = splits[n].amount
                 /\ splits[n].amount \in Int /\ splits[n].vault \in Vaults
<1>1. /\ Len(splits) \in Nat /\ DOMAIN splits = 1..Len(splits)
      /\ \A n \in DOMAIN splits : splits[n] \in [vault : Vaults, amount : Int]
  <2>1. splits \in Seq([vault : Vaults, amount : Int])
    BY DEF Splits
  <2>2. \A n \in DOMAIN splits : splits[n] \in [vault : Vaults, amount : Int]
    BY <2>1, ElementOf
  <2>3. Len(splits) \in Nat /\ DOMAIN splits = 1..Len(splits)
    BY <2>1
  <2> QED BY <2>2, <2>3
<1>2. IsFiniteSet(1..Len(splits))
  BY <1>1, FS_Interval
<1>3. \A n \in 1..Len(splits) :
         /\ AmountsOf(splits)[n] = splits[n].amount
         /\ splits[n].amount \in Int /\ splits[n].vault \in Vaults
  BY <1>1 DEF AmountsOf
<1>4. SumOf(splits) = SumFunctionOnSet(AmountsOf(splits), 1..Len(splits))
  BY <1>1 DEF SumOf, SumFunction, AmountsOf
<1>5. \A n \in 1..Len(splits) : AmountsOf(splits)[n] \in Int
  BY <1>3
<1>6. SumFunctionOnSet(AmountsOf(splits), 1..Len(splits)) \in Int
  BY <1>2, <1>5, SumType
<1> QED BY <1>1, <1>2, <1>3, <1>4, <1>6

\* Amounts above zero have a sum above zero.
LEMMA SumAboveZero ==
    ASSUME NEW splits \in Splits, splits # <<>>,
           \A n \in DOMAIN splits : splits[n].amount > 0
    PROVE  SumOf(splits) > 0
<1> DEFINE f == AmountsOf(splits)
           S == 1..Len(splits)
<1>1. /\ SumOf(splits) = SumFunctionOnSet(f, S) /\ IsFiniteSet(S)
      /\ Len(splits) \in Nat /\ \A n \in S : f[n] \in Int /\ f[n] > 0
  BY SumOfAmounts
<1>2. 1 \in S
  BY <1>1 DEF Splits
<1> HIDE DEF f, S
<1>3. \A n \in S \ {1} : f[n] \in Nat
  BY <1>1
<1>4. IsFiniteSet(S \ {1})
  BY <1>1, FS_RemoveElement
<1>5. SumFunctionOnSet(f, S \ {1}) \in Nat
  BY <1>3, <1>4, SumType
<1>6. SumFunctionOnSet(f, S) = f[1] + SumFunctionOnSet(f, S \ {1})
  BY <1>1, <1>2, SumRemove
<1> QED BY <1>1, <1>2, <1>5, <1>6

\* The whole amount to one vault.
LEMMA SumOfOne ==
    ASSUME NEW box \in Vaults, NEW amount \in Nat
    PROVE  LET splits == <<[vault |-> box, amount |-> amount]>>
           IN splits \in Splits /\ splits # <<>> /\ SumOf(splits) = amount
<1> DEFINE splits == <<[vault |-> box, amount |-> amount]>>
           f == AmountsOf(splits)
<1>1. splits \in Splits /\ splits # <<>> /\ Len(splits) = 1 /\ splits[1].amount = amount
  BY DEF Splits
<1>2. SumOf(splits) = SumFunctionOnSet(f, 1..1) /\ f[1] = amount
  <2> HIDE DEF splits
  <2> QED BY <1>1, SumOfAmounts
<1>3. 1..1 = {1}
  OBVIOUS
<1>4. SumFunctionOnSet(f, {1}) = f[1]
  <2> HIDE DEF f
  <2> QED BY <1>2, SumSingle
<1> QED BY <1>1, <1>2, <1>3, <1>4

\* Scaled splits add up to the new total, whatever their rounding.
LEMMA ScaledAddsUp ==
    ASSUME NEW splits \in Splits, splits # <<>>, SumOf(splits) > 0, NEW total \in Nat
    PROVE  /\ Scaled(splits, total) \in Splits /\ Scaled(splits, total) # <<>>
           /\ SumOf(Scaled(splits, total)) = total
<1> DEFINE share(n) == (2 * splits[n].amount * total + SumOf(splits)) \div (2 * SumOf(splits))
           part == [n \in 1..(Len(splits) - 1) |-> share(n)]
           others == SumFunction(part)
           scaled == Scaled(splits, total)
           last == Len(splits)
<1>1. /\ last \in Nat \ {0} /\ DOMAIN splits = 1..last
      /\ SumOf(splits) \in Int
      /\ \A n \in 1..last : splits[n].amount \in Int /\ splits[n].vault \in Vaults
  <2>1. last # 0
    BY DEF Splits
  <2> QED BY <2>1, SumOfAmounts
<1>2. \A n \in 1..last : share(n) \in Int
  <2> SUFFICES ASSUME NEW n \in 1..last PROVE share(n) \in Int
    OBVIOUS
  <2> DEFINE a == 2 * splits[n].amount * total + SumOf(splits)
             b == 2 * SumOf(splits)
  <2>1. a \in Int
    BY <1>1
  <2>2. b \in Int /\ b > 0
    BY <1>1
  <2> HIDE DEF a, b
  <2>3. a \div b \in Int
    BY <2>1, <2>2
  <2> QED BY <2>3 DEF a, b
<1> HIDE DEF share
<1>3. /\ IsFiniteSet(1..(last - 1)) /\ last \notin 1..(last - 1)
      /\ 1..last = (1..(last - 1)) \cup {last}
      /\ \A n \in 1..(last - 1) : n \in 1..last /\ n # last
  <2>1. last - 1 \in Int
    BY <1>1
  <2>2. IsFiniteSet(1..(last - 1))
    BY <2>1, FS_Interval
  <2> HIDE DEF last
  <2> QED BY <1>1, <2>2
<1>4. others = SumFunctionOnSet(part, 1..(last - 1))
      /\ \A n \in 1..(last - 1) : part[n] = share(n)
  BY DEF SumFunction
<1>5. others \in Int
  <2>1. \A n \in 1..(last - 1) : part[n] \in Int
    BY <1>2, <1>3, <1>4
  <2> HIDE DEF part
  <2>2. SumFunctionOnSet(part, 1..(last - 1)) \in Int
    BY <1>3, <2>1, SumType
  <2> QED BY <1>4, <2>2
<1>6. scaled = [n \in 1..last |->
                  [vault |-> splits[n].vault,
                   amount |-> IF n = last THEN total - others ELSE share(n)]]
  BY <1>1 DEF Scaled, share
<1> HIDE DEF scaled, others, part
<1>7. /\ scaled \in Splits /\ scaled # <<>> /\ Len(scaled) = last
      /\ \A n \in 1..last : scaled[n].amount = IF n = last THEN total - others ELSE share(n)
  <2>1. \A n \in 1..last : scaled[n] \in [vault : Vaults, amount : Int]
    <3> SUFFICES ASSUME NEW n \in 1..last
                 PROVE  scaled[n] \in [vault : Vaults, amount : Int]
      OBVIOUS
    <3>1. total - others \in Int /\ share(n) \in Int /\ splits[n].vault \in Vaults
      BY <1>1, <1>2, <1>5
    <3>2. scaled[n] = [vault |-> splits[n].vault,
                       amount |-> IF n = last THEN total - others ELSE share(n)]
      BY <1>6
    <3> QED BY <3>1, <3>2
  <2>2. scaled = [n \in 1..last |-> scaled[n]]
    BY <1>6
  <2>3. scaled \in Seq([vault : Vaults, amount : Int]) /\ Len(scaled) = last
    BY <1>1, <2>1, <2>2
  <2>4. \A n \in 1..last : scaled[n].amount = IF n = last THEN total - others ELSE share(n)
    BY <1>6
  <2> QED BY <1>1, <2>3, <2>4 DEF Splits
<1> DEFINE f == AmountsOf(scaled)
<1>8. /\ SumOf(scaled) = SumFunctionOnSet(f, 1..last)
      /\ \A n \in 1..last : f[n] = scaled[n].amount /\ f[n] \in Int
  BY <1>7, SumOfAmounts
<1> HIDE DEF f
<1>9. SumFunctionOnSet(f, 1..last) = SumFunctionOnSet(f, 1..(last - 1)) + f[last]
  <2>1. \A n \in (1..(last - 1)) \cup {last} : f[n] \in Int
    BY <1>3, <1>8
  <2>2. SumFunctionOnSet(f, (1..(last - 1)) \cup {last})
          = SumFunctionOnSet(f, 1..(last - 1)) + f[last]
    BY <1>3, <2>1, SumAdd
  <2> QED BY <1>3, <2>2
<1>10. SumFunctionOnSet(f, 1..(last - 1)) = others
  <2>1. \A n \in 1..(last - 1) : f[n] = part[n]
    BY <1>3, <1>4, <1>7, <1>8
  <2>2. SumFunctionOnSet(f, 1..(last - 1)) = SumFunctionOnSet(part, 1..(last - 1))
    BY <1>3, <2>1, SumSame
  <2> QED BY <1>4, <2>2
<1>11. f[last] = total - others
  <2>1. last \in 1..last
    BY <1>1
  <2> QED BY <1>7, <1>8, <2>1
<1>12. SumOf(scaled) = total
  BY <1>5, <1>8, <1>9, <1>10, <1>11
<1> QED BY <1>7, <1>12 DEF scaled

-----------------------------------------------------------------------------
(* The invariant.                                                          *)

\* Splits that can be scaled: there are some, for an amount above zero.
Scalable(row) == row.splits # <<>> /\ SumOf(row.splits) > 0

\* A request is where its kind leads it, and holds the lines it has reserved.
Course(a) ==
    LET q == a.request IN
    /\ a.pc \in {"replay", "cached", "reserve", "items", "commit", "store", "again"}
          => q.op = "batch"
    /\ a.pc \in {"read", "write"} => q.op # "batch"
    /\ a.pc \in {"cached", "store"} => DebtsOf(q) = {}
    /\ a.pc = "replay" => DebtsOf(q) # {}
    /\ a.held # {} => a.pc \in {"reserve", "items", "commit"} /\ a.held \subseteq Naming(q)
    /\ a.pc = "reserve" =>
          a.held # Naming(q) /\ \A n \in a.held, m \in Naming(q) : m < n => m \in a.held
    /\ a.pc \in {"items", "commit"} => a.held = Naming(q)
    /\ a.pc \in {"replay", "cached", "reserve"} => a.rows = <<>>
    /\ a.pc = "items" => Len(a.rows) < Len(q.items)
    /\ a.pc = "commit" => Len(a.rows) = Len(q.items)
    /\ a.pc = "write" /\ q.op = "edit" => Len(a.rows) = 1

\* The row it is about to change is there.
Placed(a, invs, owed) ==
    a.pc = "write" =>
       /\ a.request.op \in {"edit", "cancel"} => a.request.invoice \in DOMAIN invs
       /\ a.request.op = "amend" => a.request.debt \in DOMAIN owed

\* The debts it has reserved are pending, and it has reserved each once.
Reserved(a, owed) ==
    /\ \A n \in a.held : /\ a.request.items[n].debt \in DOMAIN owed
                         /\ owed[a.request.items[n].debt].status = "pending"
    /\ \A m, n \in a.held : a.request.items[m].debt = a.request.items[n].debt => m = n

\* The rows it has prepared can be posted.
Prepared(a) ==
    a.pc \in {"items", "commit"} =>
       \A n \in DOMAIN a.rows :
          /\ a.rows[n].status = "active" /\ a.rows[n].dedupKey = a.rows[n].number
          /\ a.rows[n].splits # <<>> /\ SumOf(a.rows[n].splits) = a.rows[n].total

Sound(a, invs, owed) ==
    a # Unsent =>
       a \in Served /\ Course(a) /\ Placed(a, invs, owed) /\ Reserved(a, owed) /\ Prepared(a)

LocksApart == \A r, s \in Attempts : Held(r) \cap Held(s) # {} => r = s

Courses ==
    /\ TypeOK
    /\ \A i \in DOMAIN invoices : Scalable(invoices[i])
    /\ \A r \in Attempts : Sound(attempt[r], invoices, debts)
    /\ LocksApart

\* The unique index on the key of the active rows.
KeyedOnce(rows) ==
    \A i, j \in DOMAIN rows :
       /\ rows[i].status = "active" /\ rows[j].status = "active"
       /\ rows[i].dedupKey = rows[j].dedupKey /\ rows[i].dedupKey # NoNumber
       => i = j

\* The numbers and keys of the table, and those a batch has drawn.
Numbering ==
    /\ Gapless(invoices) /\ KeyedOnce(invoices)
    /\ \A r \in Attempts :
          attempt[r] # Unsent /\ attempt[r].pc \in {"items", "commit"} =>
             Drawn(invoices, attempt[r].rows) /\ KeyedOnce(attempt[r].rows)

\* A debt is promoted when it has an invoice, which stands and is of the batch.
Promotion ==
    \A d \in DOMAIN debts :
       LET p == debts[d].promotion IN
       /\ p.invoice # 0 <=> debts[d].status = "promoted"
       /\ p.invoice # 0 =>
             /\ p.invoice \in ToSet(p.batch) /\ ToSet(p.batch) \subseteq DOMAIN invoices
             /\ invoices[p.invoice].status = "active"
             /\ \A e \in DOMAIN debts : debts[e].promotion.invoice = p.invoice => e = d

\* The debts of a batch that was answered carry the answer, unless one of its
\* invoices has been cancelled since.
AnswerStands(q, reply) ==
    \A d \in DebtsOf(q) :
       /\ d \in DOMAIN debts /\ debts[d].status = "promoted"
       /\ debts[d].promotion.key = q.key /\ debts[d].promotion.batch = reply
Answered ==
    \A r \in Attempts :
       attempt[r] # Unsent /\ Doing(r, "batch", "done") /\ DebtsOf(attempt[r].request) # {} =>
          LET reply == attempt[r].reply IN
          /\ ToSet(reply) \subseteq DOMAIN invoices
          /\ \/ AnswerStands(attempt[r].request, reply)
             \/ \E i \in ToSet(reply) : invoices[i].status = "cancelled" \/ i \in revived

\* No entry is of an invoice beyond the table.
Within(led, n) == \A id \in Nat : id > n => Own(led, id) = {}

\* An edit about to write has read the row as it is.
Fresh(a, invs) ==
    a # Unsent /\ a.pc = "write" /\ a.request.op = "edit" =>
       a.rows[1] = invs[a.request.invoice]

\* The key of an active row is its number.
Keyed(invs) ==
    \A i \in DOMAIN invs : invs[i].status = "active" => invs[i].dedupKey = invs[i].number

\* The entries are of invoices in the table; while edits do not overlap, each
\* edit has read the row as it is, keys are the numbers, and the books agree.
Books ==
    /\ Within(ledger, Len(invoices))
    /\ apart =>
          /\ EditsApart /\ Keyed(invoices)
          /\ \A r \in Attempts : Fresh(attempt[r], invoices)
          /\ \A id \in DOMAIN invoices \ revived : Posts(ledger, id, invoices[id])

-----------------------------------------------------------------------------
(* Requests and what they do.                                              *)

\* The fields of a request go with its kind.
LEMMA RequestKinds ==
    ASSUME NEW q \in Requests
    PROVE  /\ q.op = "batch" => q \in Batches
           /\ q.op = "edit" => q.invoice \in Nat /\ EditFits(q.set)
           /\ q.op = "cancel" => q.invoice \in Nat
           /\ q.op = "debts" => q.items \in Seq(DebtItems)
           /\ q.op = "amend" => q.debt \in Nat /\ q.number \in STRING /\ q.total \in Nat \ {0}
           /\ q.op \in {"withdraw", "restore"} => q.debt \in Nat
<1>1. \/ q \in Batches \/ q \in [op : {"cancel"}, invoice : Nat]
      \/ q \in [op : {"debts"}, items : Seq(DebtItems)]
      \/ q \in [op : {"amend"}, debt : Nat, number : STRING, total : Nat \ {0}]
      \/ q \in [op : {"withdraw", "restore"}, debt : Nat]
      \/ q.op = "edit" /\ q.invoice \in Nat /\ EditFits(q.set)
  BY DebtConstants DEF DebtRequests
<1>2. q \in Batches => q.op = "batch"
  BY DEF Batches
<1> HIDE DEF Batches, EditFits
<1> QED BY <1>1, <1>2

\* The lines of a batch that name a debt are some of its items.
LEMMA BatchLines ==
    ASSUME NEW q \in Requests, q.op = "batch"
    PROVE  /\ q.key \in Keys /\ q.day \in Days /\ q.items \in Seq(Items)
           /\ Len(q.items) \in Nat \ {0} /\ DOMAIN q.items = 1..Len(q.items)
           /\ \A n \in DOMAIN q.items : q.items[n] \in Items
           /\ Naming(q) \subseteq DOMAIN q.items /\ Naming(q) \subseteq Nat
           /\ \A n \in Naming(q) : q.items[n].debt \in DebtsOf(q)
           /\ \A d \in DebtsOf(q) : \E n \in Naming(q) : q.items[n].debt = d
<1>1. q \in Batches
  BY RequestKinds
<1>2. /\ q.key \in Keys /\ q.day \in Days /\ q.items \in Seq(Items) /\ q.items # <<>>
  BY <1>1 DEF Batches
<1>3. \A n \in DOMAIN q.items : q.items[n] \in Items
  BY <1>2, ElementOf
<1>4. Len(q.items) \in Nat \ {0} /\ DOMAIN q.items = 1..Len(q.items)
  <2>1. PICK items \in Seq(Items) : items = q.items /\ items # <<>>
    BY <1>2
  <2>2. Len(items) \in Nat \ {0} /\ DOMAIN items = 1..Len(items)
    BY <2>1
  <2> QED BY <2>1, <2>2
<1>5. Naming(q) \subseteq DOMAIN q.items
  BY DEF Naming
<1> QED BY <1>2, <1>3, <1>4, <1>5 DEF DebtsOf

\* The least of some numbers is one of them.
LEMMA MinIn ==
    ASSUME NEW S \in SUBSET Nat, S # {}
    PROVE  Min(S) \in S /\ \A n \in S : Min(S) <= n
<1> DEFINE least == \E m \in S : \A n \in S : m <= n
<1>1. PICK top \in S : TRUE
  OBVIOUS
<1>2. ASSUME ~least PROVE FALSE
  <2> DEFINE P == {n \in 0..top : \A k \in S : k > n}
  <2>1. 0 \in P
    BY <1>2
  <2>2. \A m \in 0..top : m < top /\ m \in P => m + 1 \in P
    <3> SUFFICES ASSUME NEW m \in 0..top, m < top, m \in P PROVE m + 1 \in P
      OBVIOUS
    <3>1. \A k \in S : k >= m + 1
      OBVIOUS
    <3>2. m + 1 \notin S
      BY <1>2, <3>1
    <3> QED BY <3>1, <3>2
  <2>3. top \in P
    <3> HIDE DEF P
    <3> QED BY <2>1, <2>2, CountingUp
  <2> QED BY <2>3
<1>3. least
  BY <1>2
<1>4. PICK m \in S : \A n \in S : m <= n
  BY <1>3
<1> QED BY <1>4 DEF Min

\* What a request that has begun is known to be.
LEMMA Served1 ==
    ASSUME Courses, NEW r \in Attempts, attempt[r].pc # "idle"
    PROVE  /\ attempt[r] \in Served /\ attempt[r].request \in Requests
           /\ attempt[r] # Unsent /\ Course(attempt[r])
           /\ Placed(attempt[r], invoices, debts) /\ Reserved(attempt[r], debts)
           /\ Prepared(attempt[r])
           /\ Held(r) = {attempt[r].request.items[n].debt : n \in attempt[r].held}
<1>1. attempt[r] # Unsent
  BY DEF Unsent
<1>2. Sound(attempt[r], invoices, debts)
  BY DEF Courses
<1> QED BY <1>1, <1>2 DEF Sound, Served, Held, At

\* The debts a request holds, by its own state.
HeldBy(a) == IF a.pc = "idle" THEN {} ELSE {a.request.items[n].debt : n \in a.held}

\* A step of one request, with tables that grow and leave what the others have
\* reserved pending, keeps all of that.
LEMMA CoursesKept ==
    ASSUME Courses, NEW r \in Attempts, attempt' = [attempt EXCEPT ![r] = attempt'[r]],
           OutflowTypeOK', debts' \in Seq(DebtRows),
           stored' \subseteq [hash : [request : Requests, batch : Attempts], ids : Answers],
           \A i \in DOMAIN invoices' : Scalable(invoices'[i]),
           DOMAIN invoices \subseteq DOMAIN invoices', DOMAIN debts \subseteq DOMAIN debts',
           \A s \in Attempts \ {r} : \A d \in Held(s) : debts'[d].status = debts[d].status,
           attempt'[r] \in Served, Sound(attempt'[r], invoices', debts'),
           \A s \in Attempts \ {r} : Held(r)' \cap Held(s) = {}
    PROVE  Courses'
<1>1. /\ attempt' \in [Attempts -> Served \cup {Unsent}]
      /\ \A s \in Attempts \ {r} : attempt'[s] = attempt[s]
  BY DEF Courses, TypeOK
<1>2. TypeOK'
  BY <1>1 DEF TypeOK
<1>3. ASSUME NEW s \in Attempts \ {r} PROVE Held(s)' = Held(s)
  <2>1. attempt'[s] = attempt[s]
    BY <1>1
  <2>2. Held(s) = HeldBy(attempt[s]) /\ Held(s)' = HeldBy(attempt'[s])
    BY DEF Held, At, HeldBy
  <2> QED BY <2>1, <2>2
<1>4. ASSUME NEW s \in Attempts \ {r} PROVE Sound(attempt[s], invoices', debts')
  <2>1. CASE attempt[s] = Unsent
    BY <2>1 DEF Sound
  <2>2. CASE attempt[s] # Unsent
    <3>1. attempt[s] \in Served
      BY <2>2 DEF Courses, Sound
    <3>2. attempt[s].pc # "idle"
      BY <3>1 DEF Served
    <3>3. /\ Course(attempt[s]) /\ Placed(attempt[s], invoices, debts)
          /\ Reserved(attempt[s], debts) /\ Prepared(attempt[s])
          /\ Held(s) = {attempt[s].request.items[n].debt : n \in attempt[s].held}
      BY <3>2, Served1
    <3>4. Placed(attempt[s], invoices', debts')
      BY <3>3 DEF Placed
    <3>5. Reserved(attempt[s], debts')
      BY <3>3 DEF Reserved
    <3> QED BY <3>1, <3>3, <3>4, <3>5 DEF Sound
  <2> QED BY <2>1, <2>2
<1>5. \A s \in Attempts : Sound(attempt'[s], invoices', debts')
  BY <1>1, <1>4
<1>6. LocksApart'
  <2> SUFFICES ASSUME NEW s \in Attempts, NEW t \in Attempts, Held(s)' \cap Held(t)' # {}, s # t
               PROVE  FALSE
    BY DEF LocksApart
  <2>1. CASE s = r
    BY <1>3, <2>1
  <2>2. CASE t = r
    BY <1>3, <2>2
  <2>3. CASE s # r /\ t # r
    <3>1. Held(s) \cap Held(t) # {}
      BY <1>3, <2>3
    <3> QED BY <3>1 DEF Courses, LocksApart
  <2> QED BY <2>1, <2>2, <2>3
<1> QED BY <1>2, <1>5, <1>6 DEF Courses

\* A step that only moves the request.
LEMMA CoursesMoved ==
    ASSUME Courses, NEW r \in Attempts, attempt' = [attempt EXCEPT ![r] = attempt'[r]],
           UNCHANGED tables, attempt'[r] \in Served,
           Course(attempt'[r]), Placed(attempt'[r], invoices, debts),
           Reserved(attempt'[r], debts), Prepared(attempt'[r]),
           \A s \in Attempts \ {r} : Held(r)' \cap Held(s) = {}
    PROVE  Courses'
<1>1. invoices' = invoices /\ debts' = debts /\ stored' = stored /\ ledger' = ledger
  BY DEF tables
<1>2. OutflowTypeOK' /\ debts' \in Seq(DebtRows)
      /\ stored' \subseteq [hash : [request : Requests, batch : Attempts], ids : Answers]
      /\ \A i \in DOMAIN invoices' : Scalable(invoices'[i])
  BY <1>1 DEF Courses, TypeOK, OutflowTypeOK
<1>3. Sound(attempt'[r], invoices', debts')
  BY <1>1 DEF Sound
<1> QED BY <1>1, <1>2, <1>3, CoursesKept

\* A request that ends has nothing reserved.
LEMMA CoursesEnded ==
    ASSUME Courses, NEW r \in Attempts, attempt[r].pc # "idle",
           NEW pc \in {"done", "failed"}, NEW reply \in Answers,
           attempt' = [attempt EXCEPT ![r] = [attempt[r] EXCEPT !.pc = pc, !.held = {},
                                                               !.reply = reply]]
    PROVE  /\ attempt' = [attempt EXCEPT ![r] = attempt'[r]]
           /\ attempt'[r] \in Served /\ Held(r)' = {}
           /\ \A invs, owed : Sound(attempt'[r], invs, owed)
           /\ Course(attempt'[r]) /\ Prepared(attempt'[r])
           /\ \A invs, owed : Placed(attempt'[r], invs, owed) /\ Reserved(attempt'[r], owed)
<1>1. attempt[r] \in Served /\ attempt \in [Attempts -> Served \cup {Unsent}]
  BY Served1 DEF Courses, TypeOK
<1> DEFINE a == [attempt[r] EXCEPT !.pc = pc, !.held = {}, !.reply = reply]
<1>2. a \in Served /\ a.pc = pc /\ a.held = {}
  BY <1>1 DEF Served
<1>3. attempt'[r] = a /\ attempt' = [attempt EXCEPT ![r] = a]
  BY <1>1
<1> HIDE DEF a
<1>4. Held(r)' = {}
  BY <1>2, <1>3 DEF Held, At
<1>5. Course(a) /\ Prepared(a)
  BY <1>2 DEF Course, Prepared
<1>6. \A invs, owed : Placed(a, invs, owed) /\ Reserved(a, owed)
  BY <1>2 DEF Placed, Reserved
<1>7. \A invs, owed : Sound(a, invs, owed)
  BY <1>2, <1>5, <1>6 DEF Sound
<1>8. /\ attempt' = [attempt EXCEPT ![r] = attempt'[r]] /\ attempt'[r] \in Served
      /\ Course(attempt'[r]) /\ Prepared(attempt'[r])
  BY <1>2, <1>3, <1>5
<1>9. \A invs, owed : Sound(attempt'[r], invs, owed)
  BY <1>3, <1>7
<1>10. \A invs, owed : Placed(attempt'[r], invs, owed) /\ Reserved(attempt'[r], owed)
  BY <1>3, <1>6
<1> QED BY <1>4, <1>8, <1>9, <1>10

\* A request that fails or is answered ends; one that goes on keeps the rest.
LEMMA FailEnds ==
    ASSUME Courses, NEW r \in Attempts, attempt[r].pc # "idle", Fail(r)
    PROVE  /\ attempt' = [attempt EXCEPT ![r] = attempt'[r]]
           /\ attempt'[r] \in Served /\ Held(r)' = {}
           /\ \A invs, owed : Sound(attempt'[r], invs, owed)
           /\ Course(attempt'[r]) /\ Prepared(attempt'[r])
           /\ \A invs, owed : Placed(attempt'[r], invs, owed) /\ Reserved(attempt'[r], owed)
<1>1. attempt[r] \in Served /\ attempt \in [Attempts -> Served \cup {Unsent}]
  BY Served1 DEF Courses, TypeOK
<1>2. attempt[r].reply \in Answers
  BY <1>1 DEF Served
<1>3. attempt' = [attempt EXCEPT ![r] = [attempt[r] EXCEPT !.pc = "failed", !.held = {},
                                                           !.reply = attempt[r].reply]]
  <2>1. attempt' = [attempt EXCEPT ![r] = [attempt[r] EXCEPT !.pc = "failed", !.held = {}]]
    BY <1>1 DEF Fail
  <2>2. [attempt[r] EXCEPT !.pc = "failed", !.held = {}]
          = [attempt[r] EXCEPT !.pc = "failed", !.held = {}, !.reply = attempt[r].reply]
    BY <1>1 DEF Served
  <2> QED BY <2>1, <2>2
<1> QED BY <1>2, <1>3, CoursesEnded

\* A request that is answered holds nothing.
LEMMA DoneEnds ==
    ASSUME Courses, NEW r \in Attempts, attempt[r].pc # "idle",
           NEW ids \in Answers, Done(r, ids)
    PROVE  /\ attempt' = [attempt EXCEPT ![r] = attempt'[r]]
           /\ attempt'[r] \in Served /\ Held(r)' = {}
           /\ \A invs, owed : Sound(attempt'[r], invs, owed)
           /\ Course(attempt'[r]) /\ Prepared(attempt'[r])
           /\ \A invs, owed : Placed(attempt'[r], invs, owed) /\ Reserved(attempt'[r], owed)
<1>1. attempt[r] \in Served /\ attempt \in [Attempts -> Served \cup {Unsent}]
  BY Served1 DEF Courses, TypeOK
<1>2. attempt' = [attempt EXCEPT ![r] = [attempt[r] EXCEPT !.pc = "done", !.held = {},
                                                           !.reply = ids]]
  BY <1>1 DEF Done
<1> QED BY <1>2, CoursesEnded

\* A request that goes on keeps what it has.
LEMMA GoesOn ==
    ASSUME Courses, NEW r \in Attempts, attempt[r].pc # "idle",
           NEW pc \in {"replay", "cached", "reserve", "items", "commit", "store", "again",
                       "read", "write"}, Goto(r, pc)
    PROVE  /\ attempt' = [attempt EXCEPT ![r] = attempt'[r]]
           /\ attempt'[r] \in Served /\ attempt'[r].pc = pc
           /\ attempt'[r].request = attempt[r].request /\ attempt'[r].held = attempt[r].held
           /\ attempt'[r].rows = attempt[r].rows /\ attempt'[r].reply = attempt[r].reply
           /\ Held(r)' = Held(r)
<1>1. attempt[r] \in Served /\ attempt \in [Attempts -> Served \cup {Unsent}]
  BY Served1 DEF Courses, TypeOK
<1>2. attempt' = [attempt EXCEPT ![r] = [attempt[r] EXCEPT !.pc = pc]]
  BY <1>1 DEF Goto
<1> DEFINE a == [attempt[r] EXCEPT !.pc = pc]
<1>3. /\ a \in Served /\ a.pc = pc /\ a.request = attempt[r].request
      /\ a.held = attempt[r].held /\ a.rows = attempt[r].rows /\ a.reply = attempt[r].reply
  BY <1>1 DEF Served
<1>4. attempt'[r] = a
  BY <1>1, <1>2
<1> HIDE DEF a
<1>5. HeldBy(a) = HeldBy(attempt[r])
  BY <1>3 DEF HeldBy
<1>6. Held(r) = HeldBy(attempt[r]) /\ Held(r)' = HeldBy(attempt'[r])
  BY DEF Held, At, HeldBy
<1>7. attempt' = [attempt EXCEPT ![r] = attempt'[r]]
  BY <1>2, <1>4 DEF a
<1>8. Held(r)' = Held(r)
  BY <1>4, <1>5, <1>6
<1> QED BY <1>3, <1>4, <1>7, <1>8

\* What is reserved is reserved by one request.
LEMMA HeldApart ==
    ASSUME Courses, NEW r \in Attempts, NEW s \in Attempts \ {r}
    PROVE  Held(r) \cap Held(s) = {}
BY DEF Courses, LocksApart

\* The steps that end a request and write nothing.
LEMMA FailKeepsCourses ==
    ASSUME Courses, NEW r \in Attempts, attempt[r].pc # "idle", Fail(r), UNCHANGED tables
    PROVE  Courses'
<1>1. /\ attempt' = [attempt EXCEPT ![r] = attempt'[r]]
      /\ attempt'[r] \in Served /\ Held(r)' = {}
      /\ Course(attempt'[r]) /\ Prepared(attempt'[r])
      /\ Placed(attempt'[r], invoices, debts) /\ Reserved(attempt'[r], debts)
  BY FailEnds
<1> QED BY <1>1, CoursesMoved

\* ... or is answered.
LEMMA DoneKeepsCourses ==
    ASSUME Courses, NEW r \in Attempts, attempt[r].pc # "idle",
           NEW ids \in Answers, Done(r, ids), UNCHANGED tables
    PROVE  Courses'
<1>1. /\ attempt' = [attempt EXCEPT ![r] = attempt'[r]]
      /\ attempt'[r] \in Served /\ Held(r)' = {}
      /\ Course(attempt'[r]) /\ Prepared(attempt'[r])
      /\ Placed(attempt'[r], invoices, debts) /\ Reserved(attempt'[r], debts)
  BY DoneEnds
<1> QED BY <1>1, CoursesMoved

-----------------------------------------------------------------------------
(* The steps of a request that write no table.                             *)

\* A new request starts where its kind begins.
LEMMA SubmitKeepsCourses ==
    ASSUME Courses, NEW r \in Attempts, NEW q \in Requests, Submit(r, q)
    PROVE  Courses'
<1> DEFINE a == [pc |-> FirstStep(q), request |-> q, held |-> {}, rows |-> <<>>, reply |-> <<>>]
<1>1. attempt \in [Attempts -> Served \cup {Unsent}]
  BY DEF Courses, TypeOK
<1>2. attempt' = [attempt EXCEPT ![r] = a] /\ UNCHANGED tables
  BY DEF Submit, Unwritten
<1>3. attempt'[r] = a
  BY <1>1, <1>2
<1>4. /\ FirstStep(q) \in {"read", "items", "reserve", "cached", "replay"}
      /\ FirstStep(q) = "read" <=> q.op # "batch"
      /\ FirstStep(q) \in {"items", "cached"} => DebtsOf(q) = {}
      /\ FirstStep(q) \in {"reserve", "replay"} => DebtsOf(q) # {}
  BY DEF FirstStep
<1>5. a \in Served
  BY <1>4 DEF Served, Answers
<1>6. Course(a)
  <2>1. q.op = "batch" => Len(q.items) > 0 /\ Len(<<>>) = 0
    BY BatchLines
  <2>2. DebtsOf(q) = {} <=> Naming(q) = {}
    BY DEF DebtsOf
  <2> QED BY <1>4, <2>1, <2>2 DEF Course
<1>7. Placed(a, invoices, debts) /\ Reserved(a, debts) /\ Prepared(a)
  BY <1>4 DEF Placed, Reserved, Prepared
<1>8. Held(r)' = {}
  <2>1. Held(r)' = HeldBy(attempt'[r])
    BY DEF Held, At, HeldBy
  <2>2. HeldBy(a) = {}
    BY DEF HeldBy
  <2> QED BY <1>3, <2>1, <2>2
<1> HIDE DEF a
<1>9. attempt' = [attempt EXCEPT ![r] = attempt'[r]]
  BY <1>2, <1>3
<1> QED BY <1>2, <1>3, <1>5, <1>6, <1>7, <1>8, <1>9, CoursesMoved

\* A lost request lets go of its debts.
LEMMA AbortKeepsCourses ==
    ASSUME Courses, NEW r \in Attempts, Abort(r)
    PROVE  Courses'
BY FailKeepsCourses DEF Abort, Unwritten

\* A batch is answered from its promotion, or goes on to reserve.
LEMMA FindPromotionKeepsCourses ==
    ASSUME Courses, NEW r \in Attempts, FindPromotion(r)
    PROVE  Courses'
<1> DEFINE q == attempt[r].request
<1>1. attempt[r].pc \in {"replay", "again"} /\ UNCHANGED tables
  BY DEF FindPromotion, Unwritten
<1>2. /\ Course(attempt[r]) /\ Placed(attempt[r], invoices, debts)
      /\ Reserved(attempt[r], debts) /\ Prepared(attempt[r])
      /\ Held(r) = {attempt[r].request.items[n].debt : n \in attempt[r].held}
  BY <1>1, Served1
<1>3. \A batch \in Promotions(q) : batch \in Answers
  <2>1. debts \in Seq(DebtRows)
    BY DEF Courses, TypeOK
  <2>2. \A d \in DOMAIN debts : debts[d] \in DebtRows
    BY <2>1, ElementOf
  <2>3. \A d \in DOMAIN debts : debts[d].promotion.batch \in Answers
    BY <2>2 DEF DebtRows
  <2>4. <<>> \in Answers
    BY DEF Answers
  <2> QED BY <2>3, <2>4 DEF Promotions
<1>4. \/ \E batch \in Promotions(q) : Done(r, batch)
      \/ At(r, "replay") /\ Goto(r, "reserve")
      \/ Fail(r)
  BY DEF FindPromotion
<1>5. CASE \E batch \in Promotions(q) : Done(r, batch)
  BY <1>1, <1>3, <1>5, DoneKeepsCourses
<1>6. CASE At(r, "replay") /\ Goto(r, "reserve")
  <2>1. /\ attempt' = [attempt EXCEPT ![r] = attempt'[r]]
        /\ attempt'[r] \in Served /\ attempt'[r].pc = "reserve"
        /\ attempt'[r].request = attempt[r].request /\ attempt'[r].held = attempt[r].held
        /\ attempt'[r].rows = attempt[r].rows /\ Held(r)' = Held(r)
    BY <1>1, <1>6, GoesOn
  <2>2. /\ attempt[r].held = {} /\ attempt[r].rows = <<>> /\ q.op = "batch"
        /\ DebtsOf(q) # {}
    BY <1>2, <1>6 DEF Course, At
  <2>3. Naming(q) # {}
    BY <2>2 DEF DebtsOf
  <2>4. Course(attempt'[r])
    BY <2>1, <2>2, <2>3 DEF Course
  <2>5. Placed(attempt'[r], invoices, debts) /\ Reserved(attempt'[r], debts)
        /\ Prepared(attempt'[r])
    BY <2>1, <2>2 DEF Placed, Reserved, Prepared
  <2> QED BY <1>1, <2>1, <2>4, <2>5, HeldApart, CoursesMoved
<1>7. CASE Fail(r)
  BY <1>1, <1>7, FailKeepsCourses
<1> QED BY <1>4, <1>5, <1>6, <1>7

\* A batch is answered from the stored result, or goes on to its items.
LEMMA FindCachedKeepsCourses ==
    ASSUME Courses, NEW r \in Attempts, FindCached(r)
    PROVE  Courses'
<1> DEFINE q == attempt[r].request
<1>1. attempt[r].pc = "cached" /\ UNCHANGED tables
  BY DEF FindCached, Unwritten, At
<1>2. Course(attempt[r]) /\ q \in Requests
  BY <1>1, Served1
<1>3. \A s \in stored : s.ids \in Answers
  BY DEF Courses, TypeOK
<1>4. (\E s \in stored : Done(r, s.ids)) \/ Goto(r, "items")
  BY DEF FindCached
<1>5. CASE \E s \in stored : Done(r, s.ids)
  BY <1>1, <1>3, <1>5, DoneKeepsCourses
<1>6. CASE Goto(r, "items")
  <2>1. /\ attempt' = [attempt EXCEPT ![r] = attempt'[r]]
        /\ attempt'[r] \in Served /\ attempt'[r].pc = "items"
        /\ attempt'[r].request = attempt[r].request /\ attempt'[r].held = attempt[r].held
        /\ attempt'[r].rows = attempt[r].rows /\ Held(r)' = Held(r)
    BY <1>1, <1>6, GoesOn
  <2>2. /\ attempt[r].held = {} /\ attempt[r].rows = <<>> /\ q.op = "batch"
        /\ DebtsOf(q) = {}
    BY <1>1, <1>2 DEF Course
  <2>3. Naming(q) = {} /\ Len(<<>>) = 0
    BY <2>2 DEF DebtsOf
  <2>4. Len(q.items) > 0
    BY <1>2, <2>2, BatchLines
  <2>5. Course(attempt'[r])
    BY <2>1, <2>2, <2>3, <2>4 DEF Course
  <2>6. Placed(attempt'[r], invoices, debts) /\ Reserved(attempt'[r], debts)
        /\ Prepared(attempt'[r])
    BY <2>1, <2>2 DEF Placed, Reserved, Prepared
  <2> QED BY <1>1, <2>1, <2>5, <2>6, HeldApart, CoursesMoved
<1> QED BY <1>4, <1>5, <1>6

\* The line a request reserves next names a debt it has not reserved.
LEMMA NextLineIs ==
    ASSUME Courses, NEW r \in Attempts, attempt[r].pc = "reserve"
    PROVE  /\ NextLine(r) \in Naming(attempt[r].request) /\ NextLine(r) \notin attempt[r].held
           /\ NextLine(r) \in Nat /\ attempt[r].held \subseteq Naming(attempt[r].request)
           /\ Unreserved(r) = attempt[r].request.items[NextLine(r)].debt
           /\ \A n \in Naming(attempt[r].request) :
                 n \in Nat /\ (n < NextLine(r) => n \in attempt[r].held)
<1> DEFINE q == attempt[r].request
           left == Naming(q) \ attempt[r].held
<1>1. Course(attempt[r]) /\ q \in Requests
  BY Served1
<1>2. q.op = "batch" /\ attempt[r].held \subseteq Naming(q) /\ attempt[r].held # Naming(q)
  BY <1>1 DEF Course
<1>3. Naming(q) \subseteq Nat
  BY <1>1, <1>2, BatchLines
<1>4. left \in SUBSET Nat /\ left # {}
  BY <1>2, <1>3
<1>5. Min(left) \in left /\ \A n \in left : Min(left) <= n
  BY <1>4, MinIn
<1>6. NextLine(r) = Min(left)
  BY DEF NextLine
<1>7. ASSUME NEW n \in Naming(q), n < NextLine(r)
      PROVE  n \in attempt[r].held
  BY <1>3, <1>5, <1>6, <1>7
<1> QED BY <1>2, <1>3, <1>4, <1>5, <1>6, <1>7 DEF Unreserved

\* A debt reserved is pending and nobody else's.
LEMMA ReserveKeepsCourses ==
    ASSUME Courses, NEW r \in Attempts, Reserve(r)
    PROVE  Courses'
<1> DEFINE q == attempt[r].request
           d == Unreserved(r)
           h == attempt[r].held \cup {NextLine(r)}
           pc == IF h = Naming(q) THEN "items" ELSE "reserve"
           a == [attempt[r] EXCEPT !.held = h, !.pc = pc]
<1>1. /\ attempt[r].pc = "reserve" /\ UNCHANGED tables
      /\ d \in DOMAIN debts /\ debts[d].status = "pending" /\ ~Locked(d)
  BY DEF Reserve, Unwritten, At
<1>2. /\ attempt[r] \in Served /\ Course(attempt[r]) /\ Reserved(attempt[r], debts)
      /\ q \in Requests
      /\ Held(r) = {q.items[n].debt : n \in attempt[r].held}
  BY <1>1, Served1
<1>3. /\ NextLine(r) \in Naming(q) /\ NextLine(r) \in Nat
      /\ attempt[r].held \subseteq Naming(q) /\ d = q.items[NextLine(r)].debt
      /\ \A n \in Naming(q) : n \in Nat /\ (n < NextLine(r) => n \in attempt[r].held)
  BY <1>1, NextLineIs
<1>4. /\ attempt' = [attempt EXCEPT ![r] = a] /\ attempt'[r] = a
  <2>1. attempt \in [Attempts -> Served \cup {Unsent}]
    BY DEF Courses, TypeOK
  <2>2. attempt' = [attempt EXCEPT ![r].held = @ \cup {NextLine(r)}, ![r].pc = pc]
    BY DEF Reserve
  <2>3. attempt' = [attempt EXCEPT ![r] = a]
    BY <2>1, <2>2
  <2> QED BY <2>1, <2>3
<1>5. /\ a \in Served /\ a.request = q /\ a.held = h /\ a.rows = attempt[r].rows /\ a.pc = pc
  BY <1>2, <1>3 DEF Served
<1>6. q.op = "batch" /\ attempt[r].rows = <<>>
  BY <1>1, <1>2 DEF Course
<1> HIDE DEF a
<1>7. Course(a)
  <2>1. Len(<<>>) = 0 /\ Len(q.items) > 0
    BY <1>2, <1>6, BatchLines
  <2>2. h \subseteq Naming(q) /\ pc \in {"items", "reserve"}
        /\ (pc = "items" <=> h = Naming(q))
    BY <1>3
  <2>3. \A n \in h, m \in Naming(q) : m < n => m \in h
    BY <1>1, <1>2, <1>3 DEF Course
  <2> HIDE DEF h, pc, q
  <2> QED BY <1>5, <1>6, <2>1, <2>2, <2>3 DEF Course
<1>8. d \notin Held(r)
  BY <1>1 DEF Locked
<1>9. Reserved(a, debts)
  <2>1. \A n \in h : q.items[n].debt \in DOMAIN debts /\ debts[q.items[n].debt].status = "pending"
    BY <1>1, <1>2, <1>3 DEF Reserved
  <2>2. \A m, n \in h : q.items[m].debt = q.items[n].debt => m = n
    BY <1>2, <1>3, <1>8 DEF Reserved
  <2> QED BY <1>5, <2>1, <2>2 DEF Reserved
<1>10. Placed(a, invoices, debts) /\ Prepared(a)
  <2>1. a.pc # "write" /\ a.rows = <<>>
    BY <1>5, <1>6
  <2> QED BY <2>1 DEF Placed, Prepared
<1>11. Held(r)' = Held(r) \cup {d}
  <2>1. Held(r)' = HeldBy(a)
    <3>1. Held(r)' = HeldBy(attempt'[r])
      BY DEF Held, At, HeldBy
    <3> QED BY <1>4, <3>1
  <2>2. a.pc # "idle"
    BY <1>5
  <2>3. HeldBy(a) = {q.items[n].debt : n \in h}
    BY <1>5, <2>2 DEF HeldBy
  <2> QED BY <1>2, <1>3, <2>1, <2>3
<1>12. \A s \in Attempts \ {r} : Held(r)' \cap Held(s) = {}
  BY <1>1, <1>11, HeldApart DEF Locked
<1>13. attempt' = [attempt EXCEPT ![r] = attempt'[r]]
  BY <1>4
<1> QED BY <1>1, <1>4, <1>5, <1>7, <1>9, <1>10, <1>12, <1>13, CoursesMoved

\* A batch whose debt is taken lets go of the others.
LEMMA ConflictKeepsCourses ==
    ASSUME Courses, NEW r \in Attempts, Conflict(r)
    PROVE  Courses'
<1>1. /\ attempt[r].pc = "reserve" /\ UNCHANGED tables
      /\ \/ attempt' = [attempt EXCEPT ![r].pc = "again", ![r].held = {}]
         \/ Fail(r)
  BY DEF Conflict, Unwritten, At
<1>2. CASE Fail(r)
  BY <1>1, <1>2, FailKeepsCourses
<1>3. CASE attempt' = [attempt EXCEPT ![r].pc = "again", ![r].held = {}]
  <2> DEFINE a == [attempt[r] EXCEPT !.pc = "again", !.held = {}]
  <2>1. attempt[r] \in Served /\ Course(attempt[r])
    BY <1>1, Served1
  <2>2. attempt' = [attempt EXCEPT ![r] = a] /\ attempt'[r] = a
    <3>1. attempt \in [Attempts -> Served \cup {Unsent}]
      BY DEF Courses, TypeOK
    <3>2. attempt' = [attempt EXCEPT ![r] = a]
      BY <1>3, <3>1
    <3> QED BY <3>1, <3>2
  <2>3. a \in Served /\ a.pc = "again" /\ a.held = {} /\ a.request = attempt[r].request
    BY <2>1 DEF Served
  <2> HIDE DEF a
  <2>4. Course(a)
    BY <1>1, <2>1, <2>3 DEF Course
  <2>5. Placed(a, invoices, debts) /\ Reserved(a, debts) /\ Prepared(a)
    BY <2>3 DEF Placed, Reserved, Prepared
  <2>6. Held(r)' = {}
    <3>1. Held(r)' = HeldBy(attempt'[r])
      BY DEF Held, At, HeldBy
    <3>2. HeldBy(a) = {}
      BY <2>3 DEF HeldBy
    <3> QED BY <2>2, <3>1, <3>2
  <2>7. attempt' = [attempt EXCEPT ![r] = attempt'[r]]
    BY <2>2
  <2> QED BY <1>1, <2>2, <2>3, <2>4, <2>5, <2>6, <2>7, CoursesMoved
<1> QED BY <1>1, <1>2, <1>3

\* So does the one the database ends.
LEMMA BreakDeadlockKeepsCourses ==
    ASSUME Courses, NEW r \in Attempts, BreakDeadlock(r)
    PROVE  Courses'
<1>1. At(r, "reserve")
  BY DEF BreakDeadlock, Deadlocked, Circle, WaitsFor
<1>2. attempt[r].pc # "idle"
  BY <1>1 DEF At
<1>3. Fail(r) /\ UNCHANGED tables
  BY DEF BreakDeadlock, Unwritten
<1> QED BY <1>2, <1>3, FailKeepsCourses

\* So does one that a unique index refuses.
LEMMA RefuseBatchKeepsCourses ==
    ASSUME Courses, NEW r \in Attempts, RefuseBatch(r)
    PROVE  Courses'
<1>1. attempt[r].pc # "idle" /\ Fail(r) /\ UNCHANGED tables
  BY DEF RefuseBatch, Unwritten, At
<1> QED BY <1>1, FailKeepsCourses

\* A stored result changes no request but its own.
LEMMA StoreResultKeepsCourses ==
    ASSUME Courses, NEW r \in Attempts, StoreResult(r)
    PROVE  Courses'
<1> DEFINE one == [hash |-> Hash(r), ids |-> attempt[r].reply]
<1>1. /\ attempt[r].pc = "store" /\ Done(r, attempt[r].reply)
      /\ debts' = debts /\ invoices' = invoices /\ ledger' = ledger
      /\ stored' = stored \cup {one}
  BY DEF StoreResult, At
<1>2. attempt[r] \in Served /\ attempt[r].request \in Requests
  BY <1>1, Served1
<1>3. attempt[r].reply \in Answers
  BY <1>2 DEF Served
<1>4. one \in [hash : [request : Requests, batch : Attempts], ids : Answers]
  BY <1>2, <1>3 DEF Hash
<1> HIDE DEF one
<1>5. /\ OutflowTypeOK' /\ debts' \in Seq(DebtRows)
      /\ stored' \subseteq [hash : [request : Requests, batch : Attempts], ids : Answers]
      /\ \A i \in DOMAIN invoices' : Scalable(invoices'[i])
  BY <1>1, <1>4 DEF Courses, TypeOK, OutflowTypeOK
<1>6. /\ attempt' = [attempt EXCEPT ![r] = attempt'[r]]
      /\ attempt'[r] \in Served /\ Held(r)' = {}
      /\ Sound(attempt'[r], invoices', debts')
  BY <1>1, <1>3, DoneEnds
<1> QED BY <1>1, <1>5, <1>6, CoursesKept

\* A request other than a batch goes from its read to its write.
LEMMA ReadKeepsCourses ==
    ASSUME Courses, NEW r \in Attempts, attempt[r].pc = "read", Goto(r, "write"),
           UNCHANGED tables, attempt[r].request.op # "edit",
           attempt[r].request.op = "cancel" => attempt[r].request.invoice \in DOMAIN invoices,
           attempt[r].request.op = "amend" => attempt[r].request.debt \in DOMAIN debts
    PROVE  Courses'
<1>1. /\ attempt' = [attempt EXCEPT ![r] = attempt'[r]]
      /\ attempt'[r] \in Served /\ attempt'[r].pc = "write"
      /\ attempt'[r].request = attempt[r].request /\ attempt'[r].held = attempt[r].held
      /\ attempt'[r].rows = attempt[r].rows /\ Held(r)' = Held(r)
  BY GoesOn
<1>2. Course(attempt[r])
  BY Served1
<1>3. attempt[r].held = {} /\ attempt[r].request.op # "batch"
  BY <1>2 DEF Course
<1>4. Course(attempt'[r])
  BY <1>1, <1>3 DEF Course
<1>5. /\ Placed(attempt'[r], invoices, debts) /\ Reserved(attempt'[r], debts)
      /\ Prepared(attempt'[r])
  BY <1>1, <1>3 DEF Placed, Reserved, Prepared
<1> QED BY <1>1, <1>4, <1>5, HeldApart, CoursesMoved

\* The invoice to cancel is in the table.
LEMMA ReadActiveKeepsCourses ==
    ASSUME Courses, NEW r \in Attempts, ReadActive(r)
    PROVE  Courses'
<1>1. attempt[r].pc = "read" /\ attempt[r].request.op = "cancel" /\ UNCHANGED tables
  BY DEF ReadActive, Doing, At, Unwritten
<1>2. \/ Goto(r, "write") /\ attempt[r].request.invoice \in DOMAIN invoices
      \/ Fail(r)
  BY DEF ReadActive
<1> QED BY <1>1, <1>2, ReadKeepsCourses, FailKeepsCourses

\* The numbers of new debts are free.
LEMMA CheckDebtsKeepsCourses ==
    ASSUME Courses, NEW r \in Attempts, CheckDebts(r)
    PROVE  Courses'
<1>1. attempt[r].pc = "read" /\ attempt[r].request.op = "debts" /\ UNCHANGED tables
  BY DEF CheckDebts, Doing, At, Unwritten
<1>2. Goto(r, "write") \/ Fail(r)
  BY DEF CheckDebts
<1> QED BY <1>1, <1>2, ReadKeepsCourses, FailKeepsCourses

\* The debt to amend is in the table.
LEMMA CheckAmendKeepsCourses ==
    ASSUME Courses, NEW r \in Attempts, CheckAmend(r)
    PROVE  Courses'
<1>1. attempt[r].pc = "read" /\ attempt[r].request.op = "amend" /\ UNCHANGED tables
  BY DEF CheckAmend, Doing, At, Unwritten
<1>2. \/ Goto(r, "write") /\ attempt[r].request.debt \in DOMAIN debts
      \/ Fail(r)
  BY DEF CheckAmend
<1> QED BY <1>1, <1>2, ReadKeepsCourses, FailKeepsCourses

\* The invoice to edit is in the table, and its row is kept.
LEMMA ReadOldKeepsCourses ==
    ASSUME Courses, NEW r \in Attempts, ReadOld(r)
    PROVE  Courses'
<1> DEFINE q == attempt[r].request
           read == <<invoices[q.invoice]>>
           a == [attempt[r] EXCEPT !.pc = "write", !.rows = read]
<1>1. attempt[r].pc = "read" /\ q.op = "edit" /\ UNCHANGED tables
  BY DEF ReadOld, Doing, At, Unwritten
<1>2. \/ /\ q.invoice \in DOMAIN invoices
         /\ attempt' = [attempt EXCEPT ![r].pc = "write", ![r].rows = read]
      \/ Fail(r)
  BY DEF ReadOld
<1>3. CASE Fail(r)
  BY <1>1, <1>3, FailKeepsCourses
<1>4. CASE /\ q.invoice \in DOMAIN invoices
           /\ attempt' = [attempt EXCEPT ![r].pc = "write", ![r].rows = read]
  <2>1. attempt[r] \in Served /\ Course(attempt[r])
    BY <1>1, Served1
  <2>2. attempt[r].held = {}
    BY <1>1, <2>1 DEF Course
  <2>3. read \in Seq(InvoiceRows) /\ Len(read) = 1
    <3>1. invoices \in Seq(InvoiceRows)
      BY DEF Courses, TypeOK, OutflowTypeOK
    <3>2. invoices[q.invoice] \in InvoiceRows
      BY <1>4, <3>1, ElementOf
    <3> QED BY <3>2
  <2>4. attempt' = [attempt EXCEPT ![r] = a] /\ attempt'[r] = a
    <3>1. attempt \in [Attempts -> Served \cup {Unsent}]
      BY DEF Courses, TypeOK
    <3>2. attempt' = [attempt EXCEPT ![r] = a]
      BY <1>4, <3>1
    <3> QED BY <3>1, <3>2
  <2> HIDE DEF read
  <2>5. /\ a \in Served /\ a.pc = "write" /\ a.held = {} /\ a.request = q /\ a.rows = read
    BY <2>1, <2>2, <2>3 DEF Served
  <2> HIDE DEF a
  <2>6. Course(a)
    BY <1>1, <2>3, <2>5 DEF Course
  <2>7. Placed(a, invoices, debts) /\ Reserved(a, debts) /\ Prepared(a)
    BY <1>1, <1>4, <2>5 DEF Placed, Reserved, Prepared
  <2>8. Held(r)' = {}
    <3>1. Held(r)' = HeldBy(attempt'[r])
      BY DEF Held, At, HeldBy
    <3>2. HeldBy(a) = {}
      BY <2>5 DEF HeldBy
    <3> QED BY <2>4, <3>1, <3>2
  <2>9. attempt' = [attempt EXCEPT ![r] = attempt'[r]]
    BY <2>4
  <2> QED BY <1>1, <2>4, <2>5, <2>6, <2>7, <2>8, <2>9, CoursesMoved
<1> QED BY <1>2, <1>3, <1>4

-----------------------------------------------------------------------------
(* An item of a batch becomes a row.                                       *)

\* The line a batch prepares next, and the row it makes of it.
NextItem(r) == Hydrated(attempt[r].request.items[Len(attempt[r].rows) + 1])
NextRow(r) ==
    LET q == attempt[r].request
        dto == NextItem(r)
    IN [serial |-> Serial(invoices \o attempt[r].rows, dto.kind, q.day), kind |-> dto.kind,
        number |-> dto.number, dedupKey |-> DedupKey(dto.number, "active"),
        total |-> dto.total, day |-> q.day, splits |-> SplitsOf(dto), status |-> "active"]
Acceptable(r) ==
    /\ OpenOn(attempt[r].request.day)
    /\ CarriersOf(invoices \o attempt[r].rows, NextItem(r).number) = {}
    /\ Payable(NextRow(r).splits, NextRow(r).total)

\* An item with what its debt brings is an item.
LEMMA ItemHydrated ==
    ASSUME Courses, NEW r \in Attempts, attempt[r].pc = "items"
    PROVE  NextItem(r) \in Items
<1> DEFINE q == attempt[r].request
           n == Len(attempt[r].rows) + 1
           item == q.items[n]
<1>1. /\ attempt[r] \in Served /\ Course(attempt[r]) /\ Reserved(attempt[r], debts)
      /\ q \in Requests
  BY Served1
<1>2. q.op = "batch" /\ attempt[r].held = Naming(q) /\ Len(attempt[r].rows) < Len(q.items)
  BY <1>1 DEF Course
<1>3. n \in DOMAIN q.items /\ item \in Items
  <2>1. Len(attempt[r].rows) \in Nat
    BY <1>1 DEF Served
  <2>2. \A m \in DOMAIN q.items : q.items[m] \in Items
    BY <1>1, <1>2, BatchLines
  <2>3. Len(q.items) \in Nat /\ DOMAIN q.items = 1..Len(q.items)
    BY <1>1, <1>2, BatchLines
  <2>4. n \in DOMAIN q.items
    BY <1>2, <2>1, <2>3
  <2> QED BY <2>2, <2>4
<1> HIDE DEF n
<1>4. CASE item.debt = NoDebt
  BY <1>3, <1>4 DEF NextItem, Hydrated, n
<1>5. CASE item.debt # NoDebt
  <2>1. item.debt \in DOMAIN debts
    <3>1. n \in Naming(q)
      BY <1>3, <1>5 DEF Naming
    <3> QED BY <1>1, <1>2, <3>1 DEF Reserved
  <2>2. debts[item.debt] \in DebtRows
    BY <2>1, ElementOf DEF Courses, TypeOK
  <2>3. debts[item.debt].number \in STRING /\ debts[item.debt].total \in Nat
    BY <2>2 DEF DebtRows
  <2>4. NextItem(r) = [item EXCEPT !.number = debts[item.debt].number,
                                   !.total = debts[item.debt].total, !.kind = "purchase"]
    BY <1>5 DEF NextItem, Hydrated, n
  <2> HIDE DEF item
  <2> QED BY <1>3, <2>3, <2>4, DebtConstants DEF Items, SupplierNumbers
<1> QED BY <1>4, <1>5

\* The row of an item that is accepted can be posted.
LEMMA RowPrepared ==
    ASSUME Courses, NEW r \in Attempts, attempt[r].pc = "items", Acceptable(r)
    PROVE  /\ NextRow(r) \in InvoiceRows
           /\ NextRow(r).status = "active" /\ NextRow(r).dedupKey = NextRow(r).number
           /\ NextRow(r).splits # <<>> /\ SumOf(NextRow(r).splits) = NextRow(r).total
           /\ NextRow(r).number = NextItem(r).number
           /\ NextRow(r).serial.prefix = PrefixOf(NextItem(r).kind)
           /\ NextRow(r).serial.day = attempt[r].request.day
           /\ NextRow(r).serial.seq
                = Cardinality(SeriesOf(invoices \o attempt[r].rows, NextRow(r))) + 1
<1> DEFINE q == attempt[r].request
           rows == attempt[r].rows
<1>1. PICK dto \in Items : dto = NextItem(r)
  BY ItemHydrated
<1>2. PICK row : row = NextRow(r)
  OBVIOUS
<1>3. /\ attempt[r] \in Served /\ q \in Requests /\ Course(attempt[r])
  BY Served1
<1>4. q.day \in Days
  <2>1. q.op = "batch"
    BY <1>3 DEF Course
  <2> QED BY <1>3, <2>1, BatchLines
<1>5. invoices \o rows \in Seq(InvoiceRows)
  <2>1. rows \in Seq(InvoiceRows) /\ invoices \in Seq(InvoiceRows)
    BY <1>3 DEF Served, Courses, TypeOK, OutflowTypeOK
  <2> QED BY <2>1, Joined
<1>6. /\ dto.kind \in Kinds /\ dto.number \in SupplierNumbers /\ dto.total \in Nat
      /\ dto.vault \in Vaults /\ dto.splits \in Splits
  BY <1>1 DEF Items
<1>7. row = [serial |-> Serial(invoices \o rows, dto.kind, q.day), kind |-> dto.kind,
             number |-> dto.number, dedupKey |-> DedupKey(dto.number, "active"),
             total |-> dto.total, day |-> q.day, splits |-> SplitsOf(dto), status |-> "active"]
  BY <1>1, <1>2 DEF NextRow
<1>8. /\ row.serial = Serial(invoices \o rows, dto.kind, q.day) /\ row.kind = dto.kind
      /\ row.number = dto.number /\ row.dedupKey = dto.number /\ row.total = dto.total
      /\ row.day = q.day /\ row.splits = SplitsOf(dto) /\ row.status = "active"
  BY <1>7 DEF DedupKey
<1>9. Serial(invoices \o rows, dto.kind, q.day) \in Serials
  <2>1. Cardinality(InSeries(invoices \o rows, PrefixOf(dto.kind), q.day)) \in Nat
    BY <1>5, SeriesFinite
  <2>2. PrefixOf(dto.kind) \in SerialPrefixes
    BY <1>6 DEF SerialPrefixes
  <2> QED BY <1>4, <2>1, <2>2 DEF Serial, Serials
<1>10. SplitsOf(dto) \in Splits /\ SplitsOf(dto) # <<>>
  <2>1. CASE dto.splits # <<>>
    BY <1>6, <2>1 DEF SplitsOf
  <2>2. CASE dto.splits = <<>>
    <3>1. SplitsOf(dto) = <<[vault |-> dto.vault, amount |-> dto.total]>>
      BY <2>2 DEF SplitsOf
    <3> QED BY <1>6, <3>1, SumOfOne
  <2> QED BY <2>1, <2>2
<1>11. SumOf(SplitsOf(dto)) = dto.total /\ dto.total \in Nat \ {0}
  <2>1. Payable(SplitsOf(dto), dto.total)
    BY <1>2, <1>8 DEF Acceptable
  <2>2. /\ SumOf(SplitsOf(dto)) = dto.total
        /\ \A n \in DOMAIN SplitsOf(dto) : SplitsOf(dto)[n].amount > 0
    BY <2>1 DEF Payable
  <2>3. SumOf(SplitsOf(dto)) > 0
    BY <1>10, <2>2, SumAboveZero
  <2> QED BY <1>6, <2>2, <2>3
<1>12. row \in InvoiceRows
  <2>1. DedupKey(dto.number, "active") \in SupplierNumbers
    BY <1>6 DEF DedupKey
  <2> QED BY <1>4, <1>6, <1>7, <1>9, <1>10, <1>11, <2>1 DEF InvoiceRows
<1>13. /\ row.serial.prefix = PrefixOf(dto.kind) /\ row.serial.day = q.day
       /\ row.serial.seq
            = Cardinality(InSeries(invoices \o rows, PrefixOf(dto.kind), q.day)) + 1
  BY <1>8 DEF Serial
<1>14. row.serial.seq = Cardinality(SeriesOf(invoices \o rows, row)) + 1
  BY <1>13 DEF SeriesOf
<1> QED BY <1>1, <1>2, <1>8, <1>10, <1>11, <1>12, <1>13, <1>14

\* The step that prepares an item, in these terms.
LEMMA Prepares ==
    ASSUME Courses, NEW r \in Attempts, PrepareItem(r)
    PROVE  /\ attempt[r].pc = "items" /\ UNCHANGED <<tables, settings>>
           /\ \/ Acceptable(r) /\ attempt' = [attempt EXCEPT
                    ![r].rows = Append(attempt[r].rows, NextRow(r)),
                    ![r].pc = IF Len(attempt[r].rows) + 1 = Len(attempt[r].request.items)
                              THEN "commit" ELSE "items"]
              \/ Fail(r)
BY DEF PrepareItem, Acceptable, NextRow, NextItem, At, Unwritten

\* A prepared row is the next of the batch.
LEMMA PrepareItemKeepsCourses ==
    ASSUME Courses, NEW r \in Attempts, PrepareItem(r)
    PROVE  Courses'
<1> DEFINE q == attempt[r].request
           rows == attempt[r].rows
           pc == IF Len(rows) + 1 = Len(q.items) THEN "commit" ELSE "items"
           a == [attempt[r] EXCEPT !.rows = Append(rows, NextRow(r)), !.pc = pc]
<1>1. attempt[r].pc = "items" /\ UNCHANGED tables
  BY Prepares
<1>2. \/ /\ Acceptable(r)
         /\ attempt' = [attempt EXCEPT ![r].rows = Append(rows, NextRow(r)), ![r].pc = pc]
      \/ Fail(r)
  BY Prepares
<1>3. CASE Fail(r)
  BY <1>1, <1>3, FailKeepsCourses
<1>4. CASE /\ Acceptable(r)
           /\ attempt' = [attempt EXCEPT ![r].rows = Append(rows, NextRow(r)), ![r].pc = pc]
  <2>1. /\ attempt[r] \in Served /\ q \in Requests /\ Course(attempt[r])
        /\ Reserved(attempt[r], debts) /\ Prepared(attempt[r])
    BY <1>1, Served1
  <2>2. q.op = "batch" /\ attempt[r].held = Naming(q) /\ Len(rows) < Len(q.items)
    BY <1>1, <2>1 DEF Course
  <2>3. PICK row \in InvoiceRows :
           /\ row = NextRow(r) /\ row.status = "active" /\ row.dedupKey = row.number
           /\ row.splits # <<>> /\ SumOf(row.splits) = row.total
    BY <1>1, <1>4, RowPrepared
  <2>4. PICK more \in Seq(InvoiceRows) :
           /\ more = Append(rows, row) /\ Len(more) = Len(rows) + 1 /\ Len(rows) \in Nat
           /\ DOMAIN more = DOMAIN rows \cup {Len(rows) + 1}
           /\ more[Len(rows) + 1] = row /\ \A n \in DOMAIN rows : more[n] = rows[n]
    <3>1. PICK old \in Seq(InvoiceRows) : old = rows
      BY <2>1 DEF Served
    <3>2. /\ Append(old, row) \in Seq(InvoiceRows)
          /\ Len(Append(old, row)) = Len(old) + 1 /\ Len(old) \in Nat
          /\ DOMAIN Append(old, row) = DOMAIN old \cup {Len(old) + 1}
          /\ Append(old, row)[Len(old) + 1] = row
          /\ \A n \in DOMAIN old : Append(old, row)[n] = old[n]
      BY Appended
    <3> QED BY <3>1, <3>2
  <2>5. attempt' = [attempt EXCEPT ![r] = a] /\ attempt'[r] = a
    <3>1. attempt \in [Attempts -> Served \cup {Unsent}]
      BY DEF Courses, TypeOK
    <3>2. attempt' = [attempt EXCEPT ![r] = a]
      BY <1>4, <3>1
    <3> QED BY <3>1, <3>2
  <2>6. a = [attempt[r] EXCEPT !.rows = more, !.pc = pc]
    BY <2>3, <2>4
  <2> HIDE DEF a
  <2>7. /\ a \in Served /\ a.pc = pc /\ a.held = attempt[r].held /\ a.request = q
        /\ a.rows = more
    BY <2>1, <2>4, <2>6 DEF Served
  <2>8. Course(a)
    <3>1. Len(q.items) \in Nat
      BY <2>1, <2>2, BatchLines
    <3>2. pc = "commit" => Len(more) = Len(q.items)
      BY <2>4
    <3>3. pc = "items" => Len(more) < Len(q.items)
      BY <2>2, <2>4, <3>1
    <3>4. pc \in {"commit", "items"}
      OBVIOUS
    <3> HIDE DEF pc, q, rows
    <3> QED BY <2>2, <2>7, <3>2, <3>3, <3>4 DEF Course
  <2>9. Placed(a, invoices, debts)
    BY <2>7 DEF Placed
  <2>10. Reserved(a, debts)
    BY <2>1, <2>7 DEF Reserved
  <2>11. Prepared(a)
    <3>1. \A n \in DOMAIN rows :
             /\ rows[n].status = "active" /\ rows[n].dedupKey = rows[n].number
             /\ rows[n].splits # <<>> /\ SumOf(rows[n].splits) = rows[n].total
      BY <1>1, <2>1 DEF Prepared
    <3> HIDE DEF pc, q, rows
    <3>2. \A n \in DOMAIN more :
             /\ more[n].status = "active" /\ more[n].dedupKey = more[n].number
             /\ more[n].splits # <<>> /\ SumOf(more[n].splits) = more[n].total
      BY <2>3, <2>4, <3>1
    <3> QED BY <2>7, <3>2 DEF Prepared
  <2>12. Held(r)' = Held(r)
    <3>1. Held(r) = HeldBy(attempt[r]) /\ Held(r)' = HeldBy(attempt'[r])
      BY DEF Held, At, HeldBy
    <3>2. a.pc # "idle"
      BY <2>7
    <3>3. HeldBy(a) = HeldBy(attempt[r])
      BY <1>1, <2>7, <3>2 DEF HeldBy
    <3> QED BY <2>5, <3>1, <3>3
  <2>13. attempt' = [attempt EXCEPT ![r] = attempt'[r]]
    BY <2>5
  <2> QED BY <1>1, <2>5, <2>7, <2>8, <2>9, <2>10, <2>11, <2>12, <2>13, HeldApart, CoursesMoved
<1> QED BY <1>2, <1>3, <1>4

-----------------------------------------------------------------------------
(* The tables after a write.                                               *)

\* The rows of the tables, one by one.
LEMMA RowTypes ==
    ASSUME Courses
    PROVE  /\ debts \in Seq(DebtRows) /\ DOMAIN debts \subseteq Nat \ {0}
           /\ \A d \in DOMAIN debts : debts[d] \in DebtRows
           /\ invoices \in Seq(InvoiceRows) /\ Len(invoices) \in Nat
           /\ DOMAIN invoices = 1..Len(invoices)
           /\ \A i \in DOMAIN invoices : invoices[i] \in InvoiceRows /\ Scalable(invoices[i])
           /\ ledger \in Seq(Postings) /\ \A e \in DOMAIN ledger : ledger[e] \in Postings
           /\ stored \subseteq [hash : [request : Requests, batch : Attempts], ids : Answers]
<1>1. /\ debts \in Seq(DebtRows) /\ invoices \in Seq(InvoiceRows) /\ ledger \in Seq(Postings)
      /\ stored \subseteq [hash : [request : Requests, batch : Attempts], ids : Answers]
      /\ \A i \in DOMAIN invoices : Scalable(invoices[i])
  BY DEF Courses, TypeOK, OutflowTypeOK
<1>2. /\ \A d \in DOMAIN debts : debts[d] \in DebtRows
      /\ \A i \in DOMAIN invoices : invoices[i] \in InvoiceRows
      /\ \A e \in DOMAIN ledger : ledger[e] \in Postings
  BY <1>1, ElementOf
<1>3. /\ DOMAIN debts \subseteq Nat \ {0}
      /\ Len(invoices) \in Nat /\ DOMAIN invoices = 1..Len(invoices)
  BY <1>1
<1> QED BY <1>1, <1>2, <1>3

\* Reserved debts are pending.
LEMMA HeldPending ==
    ASSUME Courses, NEW s \in Attempts, NEW d \in Held(s)
    PROVE  d \in DOMAIN debts /\ debts[d].status = "pending"
<1>1. attempt[s].pc # "idle"
  BY DEF Held, At
<1>2. /\ Reserved(attempt[s], debts)
      /\ Held(s) = {attempt[s].request.items[n].debt : n \in attempt[s].held}
  BY <1>1, Served1
<1> QED BY <1>2 DEF Reserved

\* A debt keeps its type when its status and promotion change.
LEMMA RewrittenDebt ==
    ASSUME NEW debt \in DebtRows, NEW status \in {"pending", "promoted", "cancelled"},
           NEW promotion \in [invoice : Nat, key : Keys, batch : Answers]
    PROVE  [debt EXCEPT !.status = status, !.promotion = promotion] \in DebtRows
BY DEF DebtRows

\* A new debt is pending and unpromoted.
LEMMA NewDebtTyped ==
    ASSUME NEW item \in DebtItems
    PROVE  /\ NewDebt(item) \in DebtRows /\ NewDebt(item).status = "pending"
           /\ NewDebt(item).promotion = Unpromoted
           /\ Unpromoted \in [invoice : Nat, key : Keys, batch : Answers]
<1>1. Unpromoted \in [invoice : Nat, key : Keys, batch : Answers]
  <2>1. <<>> \in Answers
    BY DEF Answers
  <2>2. NoKey \in Keys
    BY DEF Keys
  <2>3. Unpromoted = [invoice |-> 0, key |-> NoKey, batch |-> <<>>]
    BY DEF Unpromoted
  <2> QED BY <2>1, <2>2, <2>3
<1>2. item.number \in STRING /\ item.total \in Nat \ {0}
  BY DEF DebtItems
<1> QED BY <1>1, <1>2 DEF NewDebt, DebtRows

\* Only the debts: a step of a request that ends.
LEMMA DebtsKeepCourses ==
    ASSUME Courses, NEW r \in Attempts, attempt[r].pc # "idle",
           Done(r, <<>>) \/ Fail(r),
           UNCHANGED <<invoices, ledger, stored>>,
           debts' \in Seq(DebtRows), DOMAIN debts \subseteq DOMAIN debts',
           \A s \in Attempts \ {r} : \A d \in Held(s) : debts'[d].status = debts[d].status
    PROVE  Courses'
<1>1. <<>> \in Answers
  BY DEF Answers
<1>2. /\ attempt' = [attempt EXCEPT ![r] = attempt'[r]]
      /\ attempt'[r] \in Served /\ Held(r)' = {}
      /\ Sound(attempt'[r], invoices', debts')
  BY <1>1, DoneEnds, FailEnds
<1>3. invoices' = invoices /\ ledger' = ledger /\ stored' = stored
  OBVIOUS
<1>4. /\ OutflowTypeOK'
      /\ stored' \subseteq [hash : [request : Requests, batch : Attempts], ids : Answers]
      /\ \A i \in DOMAIN invoices' : Scalable(invoices'[i])
  BY <1>3, RowTypes DEF OutflowTypeOK
<1> QED BY <1>2, <1>3, <1>4, CoursesKept

\* New debts leave the reserved ones alone.
LEMMA InsertDebtsKeepsCourses ==
    ASSUME Courses, NEW r \in Attempts, InsertDebts(r)
    PROVE  Courses'
<1> DEFINE items == attempt[r].request.items
           new == [n \in DOMAIN items |-> NewDebt(items[n])]
<1>1. /\ attempt[r].pc = "write" /\ attempt[r].request.op = "debts"
      /\ UNCHANGED <<invoices, ledger, stored>>
      /\ \/ debts' = debts \o new /\ Done(r, <<>>)
         \/ debts' = debts /\ Fail(r)
  BY DEF InsertDebts, Doing, At
<1>2. CASE debts' = debts /\ Fail(r)
  BY <1>1, <1>2, RowTypes, DebtsKeepCourses
<1>3. CASE debts' = debts \o new /\ Done(r, <<>>)
  <2>1. items \in Seq(DebtItems)
    BY <1>1, Served1, RequestKinds
  <2>2. new \in Seq(DebtRows)
    <3>1. \A n \in DOMAIN items : items[n] \in DebtItems
      BY <2>1, ElementOf
    <3>2. \A n \in DOMAIN items : new[n] \in DebtRows
      BY <3>1, NewDebtTyped
    <3>3. PICK n \in Nat : DOMAIN items = 1..n
      BY <2>1
    <3>4. new \in [1..n -> DebtRows]
      BY <3>2, <3>3
    <3> HIDE DEF new
    <3> QED BY <3>4
  <2> HIDE DEF new
  <2>3. /\ debts' \in Seq(DebtRows) /\ DOMAIN debts \subseteq DOMAIN debts'
        /\ \A d \in DOMAIN debts : debts'[d] = debts[d]
    BY <1>3, <2>2, RowTypes
  <2>4. ASSUME NEW s \in Attempts \ {r}, NEW d \in Held(s) PROVE debts'[d].status = debts[d].status
    <3>1. d \in DOMAIN debts
      BY <2>4, HeldPending
    <3> QED BY <2>3, <3>1
  <2> QED BY <1>1, <1>3, <2>3, <2>4, DebtsKeepCourses
<1> QED BY <1>1, <1>2, <1>3

\* An amended debt is reserved by nobody.
LEMMA WriteAmendKeepsCourses ==
    ASSUME Courses, NEW r \in Attempts, WriteAmend(r)
    PROVE  Courses'
<1> DEFINE q == attempt[r].request
<1>1. /\ attempt[r].pc = "write" /\ q.op = "amend" /\ UNCHANGED <<invoices, ledger, stored>>
      /\ \/ /\ debts' = [debts EXCEPT ![q.debt].number = q.number, ![q.debt].total = q.total]
            /\ Done(r, <<>>)
         \/ debts' = debts /\ Fail(r)
  BY DEF WriteAmend, Doing, At
<1>2. CASE debts' = debts /\ Fail(r)
  BY <1>1, <1>2, RowTypes, DebtsKeepCourses
<1>3. CASE /\ debts' = [debts EXCEPT ![q.debt].number = q.number, ![q.debt].total = q.total]
           /\ Done(r, <<>>)
  <2> DEFINE debt == [debts[q.debt] EXCEPT !.number = q.number, !.total = q.total]
  <2>1. q.number \in STRING /\ q.total \in Nat \ {0}
    BY <1>1, Served1, RequestKinds
  <2>2. debts' = [debts EXCEPT ![q.debt] = debt]
    BY <1>3
  <2>3. q.debt \in DOMAIN debts
    BY <1>1, Served1 DEF Placed
  <2>4. debts[q.debt] \in DebtRows
    BY <2>3, RowTypes
  <2>5. debt \in DebtRows /\ debt.status = debts[q.debt].status
    BY <2>1, <2>4 DEF DebtRows
  <2> HIDE DEF debt
  <2>6. /\ debts' \in Seq(DebtRows) /\ DOMAIN debts' = DOMAIN debts
        /\ \A d \in DOMAIN debts : debts'[d].status = debts[d].status
    <3>1. debts \in Seq(DebtRows)
      BY RowTypes
    <3> QED BY <2>2, <2>3, <2>5, <3>1, Rewritten
  <2> QED BY <1>1, <1>3, <2>6, HeldPending, DebtsKeepCourses
<1> QED BY <1>1, <1>2, <1>3

\* A debt withdrawn or restored is reserved by nobody.
LEMMA TurnKeepsCourses ==
    ASSUME Courses, NEW r \in Attempts, NEW op, NEW from,
           NEW to \in {"pending", "cancelled"}, Turn(r, op, from, to)
    PROVE  Courses'
<1> DEFINE d == attempt[r].request.debt
<1>1. /\ attempt[r].pc = "read" /\ UNCHANGED <<invoices, ledger, stored>> /\ ~Locked(d)
      /\ \/ /\ d \in DOMAIN debts
            /\ debts' = [debts EXCEPT ![d].status = to] /\ Done(r, <<>>)
         \/ debts' = debts /\ Fail(r)
  BY DEF Turn, Doing, At
<1>2. CASE debts' = debts /\ Fail(r)
  BY <1>1, <1>2, RowTypes, DebtsKeepCourses
<1>3. CASE /\ d \in DOMAIN debts
           /\ debts' = [debts EXCEPT ![d].status = to] /\ Done(r, <<>>)
  <2> DEFINE debt == [debts[d] EXCEPT !.status = to]
  <2>1. debts[d] \in DebtRows
    BY <1>3, RowTypes
  <2>2. debt \in DebtRows
    BY <2>1 DEF DebtRows
  <2>3. debts' = [debts EXCEPT ![d] = debt]
    BY <1>3
  <2> HIDE DEF debt
  <2>4. /\ debts' \in Seq(DebtRows) /\ DOMAIN debts' = DOMAIN debts
        /\ \A e \in DOMAIN debts : e # d => debts'[e] = debts[e]
    <3>1. debts \in Seq(DebtRows)
      BY RowTypes
    <3> QED BY <1>3, <2>2, <2>3, <3>1, Rewritten
  <2>5. ASSUME NEW s \in Attempts \ {r}, NEW e \in Held(s) PROVE debts'[e].status = debts[e].status
    <3>1. e \in DOMAIN debts /\ e # d
      BY <1>1, <2>5, HeldPending DEF Locked
    <3> QED BY <2>4, <3>1
  <2> QED BY <1>1, <1>3, <2>4, <2>5, DebtsKeepCourses
<1> QED BY <1>1, <1>2, <1>3

-----------------------------------------------------------------------------
(* An edited row.                                                          *)

\* The fields after an update: those of the request or those of the row.
EditedAs(new, old, cur, set) ==
    /\ new.total = Merged(cur, set, "total") /\ new.number = Merged(cur, set, "number")
    /\ new.day = Merged(cur, set, "day") /\ new.kind = Merged(cur, set, "kind")
    /\ new.status = Merged(cur, set, "status") /\ new.serial = cur.serial
    /\ new.splits = cur.splits
    /\ new.dedupKey = DedupKey(Merged(old, set, "number"), Merged(old, set, "status"))

\* The row an update leaves is a row.
LEMMA UpdatedTyped ==
    ASSUME NEW old \in InvoiceRows, NEW cur \in InvoiceRows, NEW set, EditFits(set)
    PROVE  /\ Updated(old, cur, set) \in InvoiceRows
           /\ EditedAs(Updated(old, cur, set), old, cur, set)
<1>1. /\ Merged(cur, set, "total") \in Nat \ {0}
      /\ Merged(cur, set, "number") \in SupplierNumbers
      /\ Merged(cur, set, "day") \in Days /\ Merged(cur, set, "kind") \in Kinds
      /\ Merged(cur, set, "status") \in {"active", "cancelled"}
      /\ Merged(old, set, "number") \in SupplierNumbers
  BY DEF Merged, EditFits, InvoiceRows
<1>2. DedupKey(Merged(old, set, "number"), Merged(old, set, "status")) \in SupplierNumbers
  BY <1>1 DEF DedupKey, SupplierNumbers
<1> DEFINE total == Merged(cur, set, "total")
           number == Merged(cur, set, "number")
           day == Merged(cur, set, "day")
           kind == Merged(cur, set, "kind")
           status == Merged(cur, set, "status")
           key == DedupKey(Merged(old, set, "number"), Merged(old, set, "status"))
<1>3. Updated(old, cur, set) = [cur EXCEPT !.total = total, !.number = number, !.day = day,
                                           !.kind = kind, !.status = status, !.dedupKey = key]
  BY DEF Updated
<1>4. /\ total \in Nat \ {0} /\ number \in SupplierNumbers /\ day \in Days /\ kind \in Kinds
      /\ status \in {"active", "cancelled"} /\ key \in SupplierNumbers
  BY <1>1, <1>2
<1> HIDE DEF total, number, day, kind, status, key
<1> DEFINE new == [cur EXCEPT !.total = total, !.number = number, !.day = day,
                              !.kind = kind, !.status = status, !.dedupKey = key]
<1>5. /\ new \in InvoiceRows /\ new.total = total /\ new.number = number /\ new.day = day
      /\ new.kind = kind /\ new.status = status /\ new.dedupKey = key
      /\ new.serial = cur.serial /\ new.splits = cur.splits
  BY <1>4 DEF InvoiceRows
<1>6. Updated(old, cur, set) = new
  BY <1>3
<1> HIDE DEF new
<1> QED BY <1>5, <1>6 DEF EditedAs, total, number, day, kind, status, key

\* The splits an update leaves: for the total when the entries are rebuilt,
\* else those of before.
LEMMA SplitsEdited ==
    ASSUME NEW id, NEW old, NEW new \in InvoiceRows, Scalable(new), NEW set, EditFits(set),
           Editable(id, old, new, set)
    PROVE  /\ NewSplits(old, new, set) \in Splits /\ NewSplits(old, new, set) # <<>>
           /\ SumOf(NewSplits(old, new, set)) > 0
           /\ Rebuilds(old, new, set) =>
                 new.status = "active" /\ SumOf(NewSplits(old, new, set)) = new.total
           /\ ~Rebuilds(old, new, set) => NewSplits(old, new, set) = new.splits
<1>1. /\ new.splits \in Splits /\ new.splits # <<>> /\ SumOf(new.splits) > 0
      /\ new.total \in Nat /\ new.total > 0
  BY DEF Scalable, InvoiceRows
<1>2. Rebuilds(old, new, set) => new.status = "active"
  BY DEF Editable
<1>3. CASE PaidAnew(set)
  <2> DEFINE paid == NewSplits(old, new, set)
  <2>1. paid \in Splits /\ paid # <<>>
    <3>1. CASE "splits" \in DOMAIN set /\ set["splits"] # <<>>
      BY <1>3, <3>1 DEF NewSplits, EditFits
    <3>2. CASE ~("splits" \in DOMAIN set /\ set["splits"] # <<>>)
      <4>1. "vault" \in DOMAIN set
        BY <1>3, <3>2 DEF PaidAnew
      <4>2. set["vault"] \in Vaults
        BY <4>1 DEF EditFits
      <4>3. paid = <<[vault |-> set["vault"], amount |-> new.total]>>
        BY <1>3, <3>2 DEF NewSplits
      <4> QED BY <1>1, <4>2, <4>3, SumOfOne
    <3> QED BY <3>1, <3>2
  <2>2. Payable(paid, new.total)
    BY <1>3 DEF Editable
  <2>3. SumOf(paid) = new.total
    BY <2>2 DEF Payable
  <2>4. Rebuilds(old, new, set)
    BY <1>3 DEF Rebuilds
  <2> HIDE DEF paid
  <2>5. /\ paid \in Splits /\ paid # <<>> /\ SumOf(paid) > 0 /\ SumOf(paid) = new.total
    BY <1>1, <2>1, <2>3
  <2> QED BY <1>2, <2>4, <2>5 DEF paid
<1>4. CASE ~PaidAnew(set) /\ Rebuilds(old, new, set)
  <2>1. NewSplits(old, new, set) = Scaled(new.splits, new.total)
    BY <1>4 DEF NewSplits
  <2>2. /\ Scaled(new.splits, new.total) \in Splits /\ Scaled(new.splits, new.total) # <<>>
        /\ SumOf(Scaled(new.splits, new.total)) = new.total
    BY <1>1, ScaledAddsUp
  <2> QED BY <1>1, <1>2, <1>4, <2>1, <2>2
<1>5. CASE ~PaidAnew(set) /\ ~Rebuilds(old, new, set)
  BY <1>1, <1>5 DEF NewSplits
<1> QED BY <1>3, <1>4, <1>5

\* The row an edit writes.
EditedRow(old, new, set) == [new EXCEPT !.splits = NewSplits(old, new, set)]

\* The row with its splits can be scaled again.
LEMMA RowEdited ==
    ASSUME NEW id, NEW old, NEW new \in InvoiceRows, Scalable(new), NEW set, EditFits(set),
           Editable(id, old, new, set)
    PROVE  LET row == EditedRow(old, new, set)
           IN /\ row \in InvoiceRows /\ Scalable(row)
              /\ row.total = new.total /\ row.number = new.number /\ row.day = new.day
              /\ row.kind = new.kind /\ row.status = new.status
              /\ row.dedupKey = new.dedupKey /\ row.serial = new.serial
              /\ row.splits = NewSplits(old, new, set)
<1> DEFINE row == EditedRow(old, new, set)
<1>1. PICK splits \in Splits :
         splits = NewSplits(old, new, set) /\ splits # <<>> /\ SumOf(splits) > 0
  BY SplitsEdited
<1>2. row = [new EXCEPT !.splits = splits]
  BY <1>1 DEF EditedRow
<1>3. /\ row \in InvoiceRows /\ row.splits = splits
      /\ row.total = new.total /\ row.number = new.number /\ row.day = new.day
      /\ row.kind = new.kind /\ row.status = new.status
      /\ row.dedupKey = new.dedupKey /\ row.serial = new.serial
  BY <1>2 DEF InvoiceRows
<1> HIDE DEF row
<1>4. Scalable(row)
  BY <1>1, <1>3 DEF Scalable
<1>5. row.splits = NewSplits(old, new, set)
  BY <1>1, <1>3
<1> QED BY <1>3, <1>4, <1>5 DEF row

-----------------------------------------------------------------------------
(* The ledger after a write.                                               *)

\* Cancelling entries changes their status only.
LEMMA CancelTyped ==
    ASSUME Courses, NEW ref, CancelEntries(ref)
    PROVE  /\ ledger' \in Seq(Postings) /\ DOMAIN ledger' = DOMAIN ledger
           /\ \A e \in DOMAIN ledger :
                 ledger'[e] = IF ledger[e].ref = ref /\ ledger[e].status = "active"
                              THEN [ledger[e] EXCEPT !.status = "cancelled"] ELSE ledger[e]
<1>1. \A e \in DOMAIN ledger : ledger[e] \in Postings /\ ledger \in Seq(Postings)
  BY RowTypes
<1>2. /\ ledger' = [e \in DOMAIN ledger |-> ledger'[e]]
      /\ \A e \in DOMAIN ledger :
            ledger'[e] = IF ledger[e].ref = ref /\ ledger[e].status = "active"
                         THEN [ledger[e] EXCEPT !.status = "cancelled"] ELSE ledger[e]
  BY DEF CancelEntries
<1>3. \A e \in DOMAIN ledger : ledger'[e] \in Postings
  BY <1>1, <1>2 DEF Postings
<1>4. ledger \in Seq(Postings)
  BY RowTypes
<1>5. PICK new : new = ledger'
  OBVIOUS
<1>6. new \in Seq(Postings) /\ DOMAIN new = DOMAIN ledger
  BY <1>2, <1>3, <1>4, <1>5, Mapped
<1> QED BY <1>2, <1>5, <1>6

\* A new date changes the day of the active entries only.
LEMMA RedatedTyped ==
    ASSUME Courses, NEW id, NEW day \in Days, NEW new, new = Redated(id, day)
    PROVE  /\ new \in Seq(Postings) /\ DOMAIN new = DOMAIN ledger
           /\ \A e \in DOMAIN ledger :
                 new[e] = IF ledger[e].ref = Ref("invoice", id) /\ ledger[e].status = "active"
                          THEN [ledger[e] EXCEPT !.day = day] ELSE ledger[e]
<1>1. \A e \in DOMAIN ledger : ledger[e] \in Postings
  BY RowTypes
<1>2. /\ new = [e \in DOMAIN ledger |-> new[e]]
      /\ \A e \in DOMAIN ledger :
            new[e] = IF ledger[e].ref = Ref("invoice", id) /\ ledger[e].status = "active"
                     THEN [ledger[e] EXCEPT !.day = day] ELSE ledger[e]
  BY DEF Redated
<1>3. day \in Nat
  BY DaysAssumption
<1>4. \A e \in DOMAIN ledger : new[e] \in Postings
  BY <1>1, <1>2, <1>3 DEF Postings
<1>5. ledger \in Seq(Postings)
  BY RowTypes
<1>6. new \in Seq(Postings) /\ DOMAIN new = DOMAIN ledger
  BY <1>2, <1>4, <1>5, Mapped
<1> QED BY <1>2, <1>6

\* The active entries of an invoice marked deleted.
Without(id) ==
    [e \in DOMAIN ledger |->
        IF ledger[e].ref = Ref("invoice", id) /\ ledger[e].status = "active"
        THEN [ledger[e] EXCEPT !.status = "deleted"] ELSE ledger[e]]

\* Deleting entries changes their status only.
LEMMA WithoutTyped ==
    ASSUME Courses, NEW id, NEW rest, rest = Without(id)
    PROVE  /\ rest \in Seq(Postings) /\ DOMAIN rest = DOMAIN ledger
           /\ \A e \in DOMAIN ledger :
                 rest[e] = IF ledger[e].ref = Ref("invoice", id) /\ ledger[e].status = "active"
                           THEN [ledger[e] EXCEPT !.status = "deleted"] ELSE ledger[e]
<1>1. \A e \in DOMAIN ledger : ledger[e] \in Postings
  BY RowTypes
<1>2. /\ rest = [e \in DOMAIN ledger |-> rest[e]]
      /\ \A e \in DOMAIN ledger :
            rest[e] = IF ledger[e].ref = Ref("invoice", id) /\ ledger[e].status = "active"
                      THEN [ledger[e] EXCEPT !.status = "deleted"] ELSE ledger[e]
  BY DEF Without
<1>3. \A e \in DOMAIN ledger : rest[e] \in Postings
  BY <1>1, <1>2 DEF Postings
<1>4. ledger \in Seq(Postings)
  BY RowTypes
<1>5. rest \in Seq(Postings) /\ DOMAIN rest = DOMAIN ledger
  BY <1>2, <1>3, <1>4, Mapped
<1> QED BY <1>2, <1>5

\* A rebuild deletes the entries and appends new ones.
LEMMA ReplacedIs ==
    ASSUME NEW id, NEW row, NEW account
    PROVE  Replaced(id, row, account) = Without(id) \o EntriesFor(id, row, account)
BY DEF Replaced, Without

\* The account an invoice's entries debit is one of the chart.
LEMMA DebitTyped ==
    ASSUME Courses, NEW id, NEW kind \in Kinds
    PROVE  /\ DebitOf(id, kind) \in Accounts
           /\ \/ DebitOf(id, kind) = KindAccount[kind]
              \/ \E e \in Own(ledger, id) : DebitOf(id, kind) = ledger[e].debit
<1> DEFINE active == EntriesOf(Ref("invoice", id)) \cap ActiveEntries
<1>1. active = Own(ledger, id) /\ active \subseteq DOMAIN ledger
  BY DEF EntriesOf, ActiveEntries, Own
<1>2. CASE active = {}
  <2>1. DebitOf(id, kind) = KindAccount[kind]
    BY <1>2 DEF DebitOf
  <2> QED BY <2>1, KindsHaveAccounts
<1>3. CASE active # {}
  <2>1. ledger \in Seq(Postings)
    BY RowTypes
  <2>2. active \in SUBSET Nat
    BY <1>1, <2>1
  <2>3. Min(active) \in active
    <3> HIDE DEF active
    <3> QED BY <1>3, <2>2, MinIn
  <2>4. DebitOf(id, kind) = ledger[Min(active)].debit
    BY <1>3 DEF DebitOf
  <2> HIDE DEF active
  <2>5. ledger[Min(active)] \in Postings
    BY <1>1, <2>3, RowTypes
  <2> QED BY <1>1, <2>3, <2>4, <2>5 DEF Postings
<1> QED BY <1>2, <1>3

-----------------------------------------------------------------------------
(* A batch promotes its debts.                                             *)

Line(q, d) == CHOOSE n \in Naming(q) : q.items[n].debt = d

\* The identifiers a batch is answered.
Inserted(r) == [n \in DOMAIN attempt[r].rows |-> Len(invoices) + n]

\* What promoting the debts of a batch makes of the table.
PromotedAs(new, r) ==
    LET q == attempt[r].request
        ids == Inserted(r)
    IN /\ ids \in Answers /\ DOMAIN ids = 1..Len(attempt[r].rows)
       /\ \A n \in DOMAIN ids : ids[n] = Len(invoices) + n
       /\ DebtsOf(q) = Held(r) /\ DebtsOf(q) \subseteq DOMAIN debts
       /\ new \in Seq(DebtRows) /\ DOMAIN new = DOMAIN debts
       /\ \A d \in DOMAIN debts \ DebtsOf(q) : new[d] = debts[d]
       /\ \A d \in DebtsOf(q) :
             /\ Line(q, d) \in DOMAIN ids /\ q.items[Line(q, d)].debt = d
             /\ new[d].status = "promoted"
             /\ new[d].promotion = [invoice |-> ids[Line(q, d)], key |-> q.key, batch |-> ids]

\* The debts of a committed batch carry its invoices.
LEMMA BatchPromotes ==
    ASSUME Courses, NEW r \in Attempts, attempt[r].pc = "commit",
           NEW new, new = Promoted(attempt[r].request, Inserted(r))
    PROVE  PromotedAs(new, r)
<1> DEFINE q == attempt[r].request
           rows == attempt[r].rows
           ids == Inserted(r)
<1>1. /\ attempt[r] \in Served /\ q \in Requests /\ Course(attempt[r])
      /\ Reserved(attempt[r], debts) /\ Held(r) = {q.items[n].debt : n \in attempt[r].held}
  BY Served1
<1>2. q.op = "batch" /\ attempt[r].held = Naming(q) /\ Len(rows) = Len(q.items)
  BY <1>1 DEF Course
<1>3. /\ q.key \in Keys /\ Naming(q) \subseteq 1..Len(q.items) /\ Len(q.items) \in Nat \ {0}
      /\ \A d \in DebtsOf(q) : \E n \in Naming(q) : q.items[n].debt = d
  BY <1>1, <1>2, BatchLines
<1>4. rows \in Seq(InvoiceRows) /\ DOMAIN rows = 1..Len(rows) /\ Len(rows) \in Nat
  BY <1>1 DEF Served
<1>5. Len(invoices) \in Nat
  BY RowTypes
<1>6. /\ ids \in Answers /\ DOMAIN ids = 1..Len(rows)
      /\ \A n \in DOMAIN ids : ids[n] = Len(invoices) + n /\ ids[n] \in Nat \ {0}
  <2>1. ids = [n \in 1..Len(rows) |-> Len(invoices) + n]
    BY <1>4 DEF Inserted
  <2>2. ids \in [1..Len(rows) -> Nat \ {0}]
    BY <1>4, <1>5, <2>1
  <2>3. ids \in Seq(Nat \ {0})
    <3> HIDE DEF ids, rows
    <3> QED BY <1>4, <2>2
  <2>4. \A n \in 1..Len(rows) : ids[n] = Len(invoices) + n
    BY <2>1
  <2>5. \A n \in 1..Len(rows) : ids[n] \in Nat \ {0}
    BY <2>2
  <2> QED BY <2>1, <2>3, <2>4, <2>5 DEF Answers
<1>7. DebtsOf(q) = Held(r)
  BY <1>1, <1>2 DEF DebtsOf
<1>8. DebtsOf(q) \subseteq DOMAIN debts
  BY <1>7, HeldPending
<1>9. ASSUME NEW d \in DebtsOf(q)
      PROVE  Line(q, d) \in DOMAIN ids /\ q.items[Line(q, d)].debt = d
  <2>1. \E n \in Naming(q) : q.items[n].debt = d
    BY <1>3
  <2>2. Line(q, d) \in Naming(q) /\ q.items[Line(q, d)].debt = d
    BY <2>1 DEF Line
  <2> QED BY <1>2, <1>3, <1>6, <2>2
<1> HIDE DEF ids
<1> DEFINE promotion(d) == [invoice |-> ids[Line(q, d)], key |-> q.key, batch |-> ids]
<1>10. /\ new = [d \in DOMAIN debts |-> new[d]]
       /\ \A d \in DOMAIN debts :
             new[d] = IF d \in DebtsOf(q)
                      THEN [debts[d] EXCEPT !.status = "promoted", !.promotion = promotion(d)]
                      ELSE debts[d]
  BY DEF Promoted, Line, ids
<1>11. ASSUME NEW d \in DebtsOf(q)
       PROVE  promotion(d) \in [invoice : Nat, key : Keys, batch : Answers]
  <2>1. ids[Line(q, d)] \in Nat
    BY <1>6, <1>9
  <2> QED BY <1>3, <1>6, <2>1
<1> HIDE DEF promotion
<1>12. ASSUME NEW d \in DebtsOf(q)
       PROVE  new[d] \in DebtRows /\ new[d].status = "promoted" /\ new[d].promotion = promotion(d)
  <2>1. new[d] = [debts[d] EXCEPT !.status = "promoted", !.promotion = promotion(d)]
    BY <1>8, <1>10
  <2>2. debts[d] \in DebtRows
    BY <1>8, RowTypes
  <2>3. promotion(d) \in [invoice : Nat, key : Keys, batch : Answers]
    BY <1>11
  <2> QED BY <2>1, <2>2, <2>3 DEF DebtRows
<1>13. \A d \in DOMAIN debts \ DebtsOf(q) : new[d] = debts[d] /\ new[d] \in DebtRows
  BY <1>10, RowTypes
<1>14. new \in Seq(DebtRows) /\ DOMAIN new = DOMAIN debts
  <2>1. debts \in Seq(DebtRows)
    BY RowTypes
  <2>2. \A d \in DOMAIN debts : new[d] \in DebtRows
    BY <1>12, <1>13
  <2>3. new = [d \in DOMAIN debts |-> new[d]]
    BY <1>10
  <2> HIDE DEF q
  <2> QED BY <2>1, <2>2, <2>3, Mapped
<1>15. \A d \in DebtsOf(q) :
          /\ Line(q, d) \in DOMAIN ids /\ q.items[Line(q, d)].debt = d
          /\ new[d].status = "promoted"
          /\ new[d].promotion = [invoice |-> ids[Line(q, d)], key |-> q.key, batch |-> ids]
  BY <1>9, <1>12 DEF promotion
<1> QED BY <1>6, <1>7, <1>8, <1>13, <1>14, <1>15 DEF PromotedAs, ids

\* The step that ends a batch, in these terms.
LEMMA Commits ==
    ASSUME Courses, NEW r \in Attempts, CommitBatch(r)
    PROVE  /\ attempt[r].pc = "commit" /\ ~Collides(attempt[r].rows)
           /\ invoices' = invoices \o attempt[r].rows
           /\ ledger' = ledger \o FlattenSeq(PostedFrom(Len(invoices), attempt[r].rows))
           /\ PromotedAs(debts', r) /\ stored' = stored
           /\ Inserted(r) \in Answers
           /\ \/ /\ attempt[r].request.key # NoKey /\ DebtsOf(attempt[r].request) = {}
                 /\ attempt' = [attempt EXCEPT ![r].pc = "store", ![r].reply = Inserted(r)]
              \/ Done(r, Inserted(r))
<1>1. /\ attempt[r].pc = "commit" /\ ~Collides(attempt[r].rows)
      /\ debts' = Promoted(attempt[r].request, Inserted(r)) /\ stored' = stored
      /\ \/ /\ attempt[r].request.key # NoKey /\ DebtsOf(attempt[r].request) = {}
            /\ attempt' = [attempt EXCEPT ![r].pc = "store", ![r].reply = Inserted(r)]
         \/ Done(r, Inserted(r))
  BY DEF CommitBatch, Inserted, At
<1>2. /\ invoices' = invoices \o attempt[r].rows
      /\ ledger' = ledger \o FlattenSeq(PostedFrom(Len(invoices), attempt[r].rows))
  BY DEF CommitBatch, Insert, PostedFrom
<1>3. PromotedAs(debts', r)
  BY <1>1, BatchPromotes
<1>4. Inserted(r) \in Answers
  BY <1>3 DEF PromotedAs
<1> QED BY <1>1, <1>2, <1>3, <1>4

\* A committed batch leaves the debts of the others pending.
LEMMA CommitBatchKeepsCourses ==
    ASSUME Courses, NEW r \in Attempts, CommitBatch(r)
    PROVE  Courses'
<1> DEFINE q == attempt[r].request
           rows == attempt[r].rows
           ids == Inserted(r)
<1>1. /\ attempt[r].pc = "commit" /\ invoices' = invoices \o rows
      /\ ledger' = ledger \o FlattenSeq(PostedFrom(Len(invoices), rows))
      /\ stored' = stored /\ ids \in Answers
      /\ \/ /\ DebtsOf(q) = {}
            /\ attempt' = [attempt EXCEPT ![r].pc = "store", ![r].reply = ids]
         \/ Done(r, ids)
  BY Commits
<1>2. PromotedAs(debts', r)
  BY Commits
<1>3. /\ attempt[r] \in Served /\ Course(attempt[r]) /\ Prepared(attempt[r])
  BY <1>1, Served1
<1>4. rows \in Seq(InvoiceRows) /\ attempt[r].held = Naming(q) /\ q.op = "batch"
  BY <1>1, <1>3 DEF Served, Course
<1>5. /\ invoices' \in Seq(InvoiceRows) /\ DOMAIN invoices \subseteq DOMAIN invoices'
      /\ \A i \in DOMAIN invoices' : Scalable(invoices'[i])
  <2>1. /\ invoices' \in Seq(InvoiceRows) /\ Len(invoices') = Len(invoices) + Len(rows)
        /\ Len(invoices) \in Nat /\ Len(rows) \in Nat
        /\ \A i \in DOMAIN invoices : invoices'[i] = invoices[i]
        /\ \A i \in DOMAIN invoices' : i \notin DOMAIN invoices
              => i - Len(invoices) \in DOMAIN rows /\ invoices'[i] = rows[i - Len(invoices)]
    BY <1>1, <1>4, RowTypes, Joined
  <2>2. \A n \in DOMAIN rows : Scalable(rows[n])
    <3> SUFFICES ASSUME NEW n \in DOMAIN rows PROVE Scalable(rows[n])
      OBVIOUS
    <3>1. rows[n].splits # <<>> /\ SumOf(rows[n].splits) = rows[n].total
      BY <1>1, <1>3 DEF Prepared
    <3>2. rows[n] \in InvoiceRows
      BY <1>4, ElementOf
    <3>3. rows[n].total > 0
      BY <3>2 DEF InvoiceRows
    <3> QED BY <3>1, <3>3 DEF Scalable
  <2>3. \A i \in DOMAIN invoices : Scalable(invoices[i])
    BY RowTypes
  <2>4. DOMAIN invoices \subseteq DOMAIN invoices'
    <3>1. DOMAIN invoices = 1..Len(invoices)
      BY RowTypes
    <3> QED BY <2>1, <3>1
  <2>5. \A i \in DOMAIN invoices' : Scalable(invoices'[i])
    <3> HIDE DEF rows
    <3> QED BY <2>1, <2>2, <2>3
  <2> QED BY <2>1, <2>4, <2>5
<1>6. OutflowTypeOK'
  <2>1. Len(invoices) \in Nat /\ ledger \in Seq(Postings)
    BY RowTypes
  <2>2. ledger \o FlattenSeq(PostedFrom(Len(invoices), rows)) \in Seq(Postings)
    <3>1. PICK led \in Seq(Postings), from \in Nat, batch \in Seq(InvoiceRows) :
             led = ledger /\ from = Len(invoices) /\ batch = rows
      BY <1>4, <2>1
    <3>2. FlattenSeq(PostedFrom(from, batch)) \in Seq(Postings)
      BY PostedOneByOne
    <3> QED BY <3>1, <3>2
  <2> QED BY <1>1, <1>5, <2>2 DEF OutflowTypeOK
<1>7. /\ debts' \in Seq(DebtRows) /\ DOMAIN debts' = DOMAIN debts /\ DebtsOf(q) = Held(r)
      /\ \A d \in DOMAIN debts \ DebtsOf(q) : debts'[d] = debts[d]
  BY <1>2 DEF PromotedAs
<1>8. ASSUME NEW s \in Attempts \ {r}, NEW d \in Held(s) PROVE debts'[d].status = debts[d].status
  <2>1. d \in DOMAIN debts \ DebtsOf(q)
    BY <1>7, <1>8, HeldPending, HeldApart
  <2> QED BY <1>7, <2>1
<1>9. stored' \subseteq [hash : [request : Requests, batch : Attempts], ids : Answers]
  BY <1>1, RowTypes
<1>10. /\ attempt' = [attempt EXCEPT ![r] = attempt'[r]]
       /\ attempt'[r] \in Served /\ Held(r)' = {}
       /\ Sound(attempt'[r], invoices', debts')
  <2>1. CASE Done(r, ids)
    BY <1>1, <2>1, DoneEnds
  <2>2. CASE /\ DebtsOf(q) = {}
             /\ attempt' = [attempt EXCEPT ![r].pc = "store", ![r].reply = ids]
    <3> DEFINE a == [attempt[r] EXCEPT !.pc = "store", !.reply = ids]
    <3>1. attempt' = [attempt EXCEPT ![r] = a] /\ attempt'[r] = a
      <4>1. attempt \in [Attempts -> Served \cup {Unsent}]
        BY DEF Courses, TypeOK
      <4>2. attempt' = [attempt EXCEPT ![r] = a]
        BY <2>2, <4>1
      <4> QED BY <4>1, <4>2
    <3>2. attempt[r].held = {}
      BY <1>4, <2>2 DEF DebtsOf
    <3>3. a \in Served /\ a.pc = "store" /\ a.held = {} /\ a.request = q
      BY <1>1, <1>3, <3>2 DEF Served
    <3> HIDE DEF a
    <3>4. Course(a)
      BY <1>4, <2>2, <3>3 DEF Course
    <3>5. Placed(a, invoices', debts') /\ Reserved(a, debts') /\ Prepared(a)
      BY <3>3 DEF Placed, Reserved, Prepared
    <3>6. Held(r)' = {}
      <4>1. Held(r)' = HeldBy(attempt'[r])
        BY DEF Held, At, HeldBy
      <4>2. HeldBy(a) = {}
        BY <3>3 DEF HeldBy
      <4> QED BY <3>1, <4>1, <4>2
    <3>7. attempt' = [attempt EXCEPT ![r] = attempt'[r]]
      BY <3>1
    <3>8. Sound(a, invoices', debts')
      BY <3>3, <3>4, <3>5 DEF Sound
    <3> QED BY <3>1, <3>3, <3>6, <3>7, <3>8
  <2> QED BY <1>1, <2>1, <2>2
<1> QED BY <1>5, <1>6, <1>7, <1>8, <1>9, <1>10, CoursesKept

-----------------------------------------------------------------------------
(* An edit writes its row.                                                 *)

Target(r) == attempt[r].request.invoice
Sent(r)   == attempt[r].request.set
OldRow(r) == attempt[r].rows[1]
NewRow(r) == Updated(OldRow(r), invoices[Target(r)], Sent(r))
DebitAfter(r) ==
    IF KindChanged(OldRow(r), Sent(r)) THEN KindAccount[NewRow(r).kind]
    ELSE DebitOf(Target(r), NewRow(r).kind)

\* The request, the row it has read and the row it is about to write.
EditReady(r) ==
    /\ attempt[r].pc = "write" /\ attempt[r].request.op = "edit"
    /\ Target(r) \in DOMAIN invoices /\ EditFits(Sent(r))
    /\ OldRow(r) \in InvoiceRows /\ invoices[Target(r)] \in InvoiceRows
    /\ NewRow(r) \in InvoiceRows /\ Scalable(NewRow(r))
    /\ EditedAs(NewRow(r), OldRow(r), invoices[Target(r)], Sent(r))
    /\ DebitAfter(r) \in Accounts

\* The edit goes through.
EditDone(r) ==
    LET row == EditedRow(OldRow(r), NewRow(r), Sent(r))
    IN /\ Editable(Target(r), OldRow(r), NewRow(r), Sent(r))
       /\ row \in InvoiceRows /\ Scalable(row)
       /\ row.total = NewRow(r).total /\ row.number = NewRow(r).number
       /\ row.day = NewRow(r).day /\ row.kind = NewRow(r).kind
       /\ row.status = NewRow(r).status /\ row.dedupKey = NewRow(r).dedupKey
       /\ row.serial = NewRow(r).serial
       /\ row.splits = NewSplits(OldRow(r), NewRow(r), Sent(r))
       /\ invoices' = [invoices EXCEPT ![Target(r)] = row]
       /\ ledger' = IF Rebuilds(OldRow(r), NewRow(r), Sent(r))
                    THEN Replaced(Target(r), row, DebitAfter(r))
                    ELSE IF "day" \in DOMAIN Sent(r) THEN Redated(Target(r), row.day)
                    ELSE ledger
       /\ Done(r, <<Target(r)>>)

\* The step that ends an edit, in these terms.
LEMMA Edits ==
    ASSUME Courses, NEW r \in Attempts, WriteEdit(r)
    PROVE  /\ EditReady(r) /\ debts' = debts /\ stored' = stored
           /\ EditDone(r) \/ (Fail(r) /\ invoices' = invoices /\ ledger' = ledger)
<1> DEFINE q == attempt[r].request
<1>1. attempt[r].pc = "write" /\ q.op = "edit" /\ debts' = debts /\ stored' = stored
  BY DEF WriteEdit, Doing, At
<1>2. /\ attempt[r] \in Served /\ q \in Requests /\ Course(attempt[r])
      /\ Placed(attempt[r], invoices, debts)
  BY <1>1, Served1
<1>3. Target(r) \in DOMAIN invoices /\ EditFits(Sent(r))
  BY <1>1, <1>2, RequestKinds DEF Placed, Target, Sent
<1>4. OldRow(r) \in InvoiceRows
  <2>1. Len(attempt[r].rows) = 1 /\ attempt[r].rows \in Seq(InvoiceRows)
    BY <1>1, <1>2 DEF Course, Served
  <2> QED BY <2>1 DEF OldRow
<1>5. invoices[Target(r)] \in InvoiceRows /\ Scalable(invoices[Target(r)])
  BY <1>3, RowTypes
<1>6. NewRow(r) \in InvoiceRows /\ EditedAs(NewRow(r), OldRow(r), invoices[Target(r)], Sent(r))
  BY <1>3, <1>4, <1>5, UpdatedTyped DEF NewRow
<1>7. Scalable(NewRow(r))
  BY <1>5, <1>6 DEF Scalable, EditedAs
<1>8. DebitAfter(r) \in Accounts
  <2>1. NewRow(r).kind \in Kinds
    BY <1>6 DEF InvoiceRows
  <2> QED BY <2>1, KindsHaveAccounts, DebitTyped DEF DebitAfter
<1>9. EditReady(r)
  BY <1>1, <1>3, <1>4, <1>5, <1>6, <1>7, <1>8 DEF EditReady
<1>10. \/ /\ Editable(Target(r), OldRow(r), NewRow(r), Sent(r))
          /\ invoices' = [invoices EXCEPT
                             ![Target(r)] = EditedRow(OldRow(r), NewRow(r), Sent(r))]
          /\ ledger' = IF Rebuilds(OldRow(r), NewRow(r), Sent(r))
                       THEN Replaced(Target(r), EditedRow(OldRow(r), NewRow(r), Sent(r)),
                                     DebitAfter(r))
                       ELSE IF "day" \in DOMAIN Sent(r)
                       THEN Redated(Target(r), EditedRow(OldRow(r), NewRow(r), Sent(r)).day)
                       ELSE ledger
          /\ Done(r, <<Target(r)>>)
       \/ Fail(r) /\ invoices' = invoices /\ ledger' = ledger
  BY DEF WriteEdit, EditedRow, OldRow, NewRow, Sent, Target, DebitAfter
<1>11. CASE Fail(r) /\ invoices' = invoices /\ ledger' = ledger
  BY <1>1, <1>9, <1>11
<1>12. ASSUME Editable(Target(r), OldRow(r), NewRow(r), Sent(r))
       PROVE  LET row == EditedRow(OldRow(r), NewRow(r), Sent(r))
              IN /\ row \in InvoiceRows /\ Scalable(row)
                 /\ row.total = NewRow(r).total /\ row.number = NewRow(r).number
                 /\ row.day = NewRow(r).day /\ row.kind = NewRow(r).kind
                 /\ row.status = NewRow(r).status /\ row.dedupKey = NewRow(r).dedupKey
                 /\ row.serial = NewRow(r).serial
                 /\ row.splits = NewSplits(OldRow(r), NewRow(r), Sent(r))
  <2>1. PICK old, set, id : old = OldRow(r) /\ set = Sent(r) /\ id = Target(r)
    OBVIOUS
  <2>2. PICK new \in InvoiceRows : new = NewRow(r)
    BY <1>6
  <2>3. Scalable(new) /\ EditFits(set) /\ Editable(id, old, new, set)
    BY <1>3, <1>7, <1>12, <2>1, <2>2
  <2>4. LET row == EditedRow(old, new, set)
        IN /\ row \in InvoiceRows /\ Scalable(row)
           /\ row.total = new.total /\ row.number = new.number /\ row.day = new.day
           /\ row.kind = new.kind /\ row.status = new.status
           /\ row.dedupKey = new.dedupKey /\ row.serial = new.serial
           /\ row.splits = NewSplits(old, new, set)
    BY <2>3, RowEdited
  <2> QED BY <2>1, <2>2, <2>4
<1>13. EditDone(r) \/ (Fail(r) /\ invoices' = invoices /\ ledger' = ledger)
  BY <1>10, <1>12 DEF EditDone
<1> QED BY <1>1, <1>9, <1>13

\* An edit leaves a row that can be scaled.
LEMMA WriteEditKeepsCourses ==
    ASSUME Courses, NEW r \in Attempts, WriteEdit(r)
    PROVE  Courses'
<1>1. /\ EditReady(r) /\ debts' = debts /\ stored' = stored
      /\ EditDone(r) \/ (Fail(r) /\ invoices' = invoices /\ ledger' = ledger)
  BY Edits
<1>2. attempt[r].pc = "write" /\ Target(r) \in DOMAIN invoices
  BY <1>1 DEF EditReady
<1>3. CASE Fail(r) /\ invoices' = invoices /\ ledger' = ledger
  BY <1>1, <1>2, <1>3, FailKeepsCourses DEF tables
<1>4. CASE EditDone(r)
  <2>1. PICK row \in InvoiceRows :
           /\ row = EditedRow(OldRow(r), NewRow(r), Sent(r)) /\ Scalable(row)
           /\ invoices' = [invoices EXCEPT ![Target(r)] = row]
           /\ ledger' = IF Rebuilds(OldRow(r), NewRow(r), Sent(r))
                        THEN Replaced(Target(r), row, DebitAfter(r))
                        ELSE IF "day" \in DOMAIN Sent(r) THEN Redated(Target(r), row.day)
                        ELSE ledger
    BY <1>4 DEF EditDone
  <2>2. Done(r, <<Target(r)>>)
    BY <1>4 DEF EditDone
  <2>3. invoices \in Seq(InvoiceRows) /\ Target(r) \in Nat \ {0}
    BY <1>2, RowTypes
  <2>4. /\ invoices' \in Seq(InvoiceRows) /\ DOMAIN invoices' = DOMAIN invoices
        /\ \A i \in DOMAIN invoices' : Scalable(invoices'[i])
    BY <1>2, <2>1, <2>3, RowTypes, Rewritten
  <2>5. ledger' \in Seq(Postings)
    <3>1. CASE Rebuilds(OldRow(r), NewRow(r), Sent(r))
      <4>1. PICK account \in Accounts : account = DebitAfter(r)
        BY <1>1 DEF EditReady
      <4>2. PICK id \in Nat : id = Target(r)
        BY <2>3
      <4>3. ledger' = Without(id) \o EntriesFor(id, row, account)
        BY <2>1, <3>1, <4>1, <4>2, ReplacedIs
      <4>4. Without(id) \in Seq(Postings)
        BY WithoutTyped
      <4>5. EntriesFor(id, row, account) \in Seq(Postings)
        BY EntriesTyped
      <4> QED BY <4>3, <4>4, <4>5
    <3>2. CASE ~Rebuilds(OldRow(r), NewRow(r), Sent(r)) /\ "day" \in DOMAIN Sent(r)
      <4>1. ledger' = Redated(Target(r), row.day)
        BY <2>1, <3>2
      <4>2. row.day \in Days
        BY DEF InvoiceRows
      <4>3. Redated(Target(r), row.day) \in Seq(Postings)
        BY <4>2, RedatedTyped
      <4> QED BY <4>1, <4>3
    <3>3. CASE ~Rebuilds(OldRow(r), NewRow(r), Sent(r)) /\ "day" \notin DOMAIN Sent(r)
      BY <2>1, <3>3, RowTypes
    <3> QED BY <3>1, <3>2, <3>3
  <2>6. OutflowTypeOK'
    BY <2>4, <2>5 DEF OutflowTypeOK
  <2>7. <<Target(r)>> \in Answers
    BY <2>3 DEF Answers
  <2>8. /\ attempt' = [attempt EXCEPT ![r] = attempt'[r]]
        /\ attempt'[r] \in Served /\ Held(r)' = {}
        /\ Sound(attempt'[r], invoices', debts')
    BY <1>2, <2>2, <2>7, DoneEnds
  <2>9. /\ debts' \in Seq(DebtRows)
        /\ stored' \subseteq [hash : [request : Requests, batch : Attempts], ids : Answers]
    BY <1>1, RowTypes
  <2> QED BY <1>1, <2>4, <2>6, <2>8, <2>9, CoursesKept
<1> QED BY <1>1, <1>3, <1>4

-----------------------------------------------------------------------------
(* A cancellation gives the debt back.                                     *)

\* What it makes of the tables.
CancelDone(r) ==
    /\ attempt[r].pc = "write" /\ attempt[r].request.op = "cancel"
    /\ Target(r) \in DOMAIN invoices
    /\ invoices' = [invoices EXCEPT ![Target(r)] = [@ EXCEPT !.status = "cancelled"]]
    /\ invoices' \in Seq(InvoiceRows) /\ DOMAIN invoices' = DOMAIN invoices
    /\ \A i \in DOMAIN invoices :
          /\ i # Target(r) => invoices'[i] = invoices[i]
          /\ invoices'[i].serial = invoices[i].serial
          /\ invoices'[i].splits = invoices[i].splits
    /\ invoices'[Target(r)].status = "cancelled"
    /\ debts' \in Seq(DebtRows) /\ DOMAIN debts' = DOMAIN debts
    /\ \A d \in DOMAIN debts :
          LET gone == /\ debts[d].status = "promoted"
                      /\ debts[d].promotion.invoice = Target(r)
          IN /\ gone => debts'[d].status = "pending" /\ debts'[d].promotion = Unpromoted
             /\ ~gone => debts'[d] = debts[d]
    /\ CancelEntries(Ref("invoice", Target(r)))
    /\ stored' = stored /\ Done(r, <<Target(r)>>)

\* The step that ends a cancellation, in these terms.
LEMMA Cancels ==
    ASSUME Courses, NEW r \in Attempts, WriteCancel(r)
    PROVE  CancelDone(r)
<1> DEFINE id == Target(r)
           cancelled == [invoices[id] EXCEPT !.status = "cancelled"]
<1>1. /\ attempt[r].pc = "write" /\ attempt[r].request.op = "cancel"
      /\ invoices' = [invoices EXCEPT ![id] = cancelled] /\ debts' = Reopened(id)
      /\ CancelEntries(Ref("invoice", id)) /\ stored' = stored /\ Done(r, <<id>>)
  BY DEF WriteCancel, Doing, At, Target
<1>2. id \in DOMAIN invoices
  BY <1>1, Served1 DEF Placed, Target
<1>3. invoices[id] \in InvoiceRows /\ invoices \in Seq(InvoiceRows)
  BY <1>2, RowTypes
<1>4. /\ cancelled \in InvoiceRows /\ cancelled.status = "cancelled"
      /\ cancelled.serial = invoices[id].serial /\ cancelled.splits = invoices[id].splits
  BY <1>3 DEF InvoiceRows
<1> HIDE DEF cancelled
<1>5. /\ invoices' \in Seq(InvoiceRows) /\ DOMAIN invoices' = DOMAIN invoices
      /\ \A i \in DOMAIN invoices : invoices'[i] = IF i = id THEN cancelled ELSE invoices[i]
  BY <1>1, <1>3, <1>4, Rewritten
<1> DEFINE gone(d) == debts[d].status = "promoted" /\ debts[d].promotion.invoice = id
<1>6. /\ debts' = [d \in DOMAIN debts |-> debts'[d]]
      /\ \A d \in DOMAIN debts :
            debts'[d] = IF gone(d)
                        THEN [debts[d] EXCEPT !.status = "pending", !.promotion = Unpromoted]
                        ELSE debts[d]
  BY <1>1 DEF Reopened
<1>7. Unpromoted \in [invoice : Nat, key : Keys, batch : Answers]
  <2>1. <<>> \in Answers
    BY DEF Answers
  <2> QED BY <2>1 DEF Unpromoted, Keys
<1>8. ASSUME NEW d \in DOMAIN debts, gone(d)
      PROVE  /\ debts'[d] \in DebtRows /\ debts'[d].status = "pending"
             /\ debts'[d].promotion = Unpromoted
  <2>1. debts[d] \in DebtRows
    BY RowTypes
  <2>2. debts'[d] = [debts[d] EXCEPT !.status = "pending", !.promotion = Unpromoted]
    BY <1>6, <1>8
  <2> QED BY <1>7, <2>1, <2>2 DEF DebtRows
<1>9. \A d \in DOMAIN debts : ~gone(d) => debts'[d] = debts[d] /\ debts'[d] \in DebtRows
  BY <1>6, RowTypes
<1>10. debts' \in Seq(DebtRows) /\ DOMAIN debts' = DOMAIN debts
  <2>1. \A d \in DOMAIN debts : debts'[d] \in DebtRows
    BY <1>8, <1>9
  <2>2. PICK new : new = debts'
    OBVIOUS
  <2>3. debts \in Seq(DebtRows)
    BY RowTypes
  <2>4. new \in Seq(DebtRows) /\ DOMAIN new = DOMAIN debts
    BY <1>6, <2>1, <2>2, <2>3, Mapped
  <2> QED BY <2>2, <2>4
<1>11. invoices' = [invoices EXCEPT ![id] = [@ EXCEPT !.status = "cancelled"]]
  BY <1>1 DEF cancelled
<1>12. /\ \A i \in DOMAIN invoices :
             /\ i # id => invoices'[i] = invoices[i]
             /\ invoices'[i].serial = invoices[i].serial
             /\ invoices'[i].splits = invoices[i].splits
       /\ invoices'[id].status = "cancelled"
  BY <1>2, <1>4, <1>5
<1> QED BY <1>1, <1>2, <1>5, <1>8, <1>9, <1>10, <1>11, <1>12 DEF CancelDone

\* A cancellation gives back a debt that nobody has reserved.
LEMMA WriteCancelKeepsCourses ==
    ASSUME Courses, NEW r \in Attempts, WriteCancel(r)
    PROVE  Courses'
<1>1. /\ attempt[r].pc = "write" /\ Target(r) \in DOMAIN invoices
      /\ invoices' \in Seq(InvoiceRows) /\ DOMAIN invoices' = DOMAIN invoices
      /\ \A i \in DOMAIN invoices : invoices'[i].splits = invoices[i].splits
      /\ debts' \in Seq(DebtRows) /\ DOMAIN debts' = DOMAIN debts
      /\ \A d \in DOMAIN debts : debts[d].status # "promoted" => debts'[d] = debts[d]
      /\ CancelEntries(Ref("invoice", Target(r)))
      /\ stored' = stored /\ Done(r, <<Target(r)>>)
  BY Cancels DEF CancelDone
<1>2. OutflowTypeOK'
  <2>1. PICK ref : ref = Ref("invoice", Target(r))
    OBVIOUS
  <2>2. ledger' \in Seq(Postings)
    BY <1>1, <2>1, CancelTyped
  <2> QED BY <1>1, <2>2 DEF OutflowTypeOK
<1>3. \A i \in DOMAIN invoices' : Scalable(invoices'[i])
  BY <1>1, RowTypes DEF Scalable
<1>4. <<Target(r)>> \in Answers
  <2>1. Target(r) \in Nat \ {0}
    BY <1>1, RowTypes
  <2> QED BY <2>1 DEF Answers
<1>5. /\ attempt' = [attempt EXCEPT ![r] = attempt'[r]]
      /\ attempt'[r] \in Served /\ Held(r)' = {}
      /\ Sound(attempt'[r], invoices', debts')
  BY <1>1, <1>4, DoneEnds
<1>6. ASSUME NEW s \in Attempts \ {r}, NEW d \in Held(s) PROVE debts'[d].status = debts[d].status
  <2>1. d \in DOMAIN debts /\ debts[d].status = "pending"
    BY <1>6, HeldPending
  <2> QED BY <1>1, <2>1
<1>7. stored' \subseteq [hash : [request : Requests, batch : Attempts], ids : Answers]
  BY <1>1, RowTypes
<1> QED BY <1>1, <1>2, <1>3, <1>5, <1>6, <1>7, CoursesKept

-----------------------------------------------------------------------------
(* The first part of the invariant.                                        *)

\* The rows the behaviour starts with.
LEMMA OldRowsStand ==
    ASSUME NEW i \in DOMAIN OldRows
    PROVE  /\ OldRows[i] \in InvoiceRows /\ Scalable(OldRows[i])
           /\ OldRows[i].status = "active" /\ OldRows[i].dedupKey = OldRows[i].number
           /\ SumOf(OldRows[i].splits) = OldRows[i].total
<1>1. PICK row \in InvoiceRows : row = OldRows[i]
  BY DebtConstants, ElementOf
<1>2. row.status = "active" /\ row.dedupKey = row.number /\ SumOf(row.splits) = row.total
  BY <1>1, DebtConstants
<1>3. row.total > 0 /\ row.splits \in Splits
  BY DEF InvoiceRows
<1>4. row.splits # <<>>
  <2> SUFFICES ASSUME row.splits = <<>> PROVE FALSE
    OBVIOUS
  <2>1. PICK splits \in Splits : splits = row.splits
    BY <1>3
  <2>2. SumOf(splits) = SumFunctionOnSet(AmountsOf(splits), 1..Len(splits))
    BY SumOfAmounts
  <2>3. 1..Len(splits) = {}
    BY <2>1
  <2>4. SumOf(splits) = 0
    BY <2>2, <2>3, SumEmpty
  <2> QED BY <1>2, <1>3, <2>1, <2>4
<1> QED BY <1>1, <1>2, <1>3, <1>4 DEF Scalable

\* The ledger they are posted to.
LEMMA OldLedger ==
    ASSUME Init
    PROVE  /\ invoices = OldRows /\ OldRows \in Seq(InvoiceRows)
           /\ ledger = FlattenSeq(PostedFrom(0, OldRows)) /\ ledger \in Seq(Postings)
           /\ ledger = <<>> \o FlattenSeq(PostedFrom(0, OldRows))
<1>1. invoices = OldRows /\ OldRows \in Seq(InvoiceRows)
  BY DebtConstants DEF Init
<1>2. PostedFrom(0, OldRows)
        = [i \in DOMAIN OldRows |-> EntriesFor(i, OldRows[i], KindAccount[OldRows[i].kind])]
  <2>1. \A i \in DOMAIN OldRows : 0 + i = i
    BY <1>1
  <2> QED BY <2>1 DEF PostedFrom
<1>3. ledger = FlattenSeq(PostedFrom(0, OldRows))
  BY <1>2 DEF Init
<1>4. FlattenSeq(PostedFrom(0, OldRows)) \in Seq(Postings)
  <2>1. <<>> \in Seq(Postings) /\ 0 \in Nat
    OBVIOUS
  <2> QED BY <1>1, <2>1, PostedOneByOne
<1>5. ledger = <<>> \o ledger
  BY <1>3, <1>4
<1> QED BY <1>1, <1>3, <1>4, <1>5

\* At first nothing is reserved.
LEMMA InitCourses == ASSUME Init PROVE Courses
<1>1. OutflowTypeOK
  BY OldLedger DEF OutflowTypeOK
<1>2. debts \in Seq(DebtRows)
  <2>1. OldDebts \in Seq(DebtItems) /\ debts = [d \in DOMAIN OldDebts |-> NewDebt(OldDebts[d])]
    BY DebtConstants DEF Init
  <2>2. \A d \in DOMAIN OldDebts : OldDebts[d] \in DebtItems
    BY <2>1, ElementOf
  <2>3. \A d \in DOMAIN OldDebts : NewDebt(OldDebts[d]) \in DebtRows
    BY <2>2, NewDebtTyped
  <2>4. PICK n \in Nat : DOMAIN OldDebts = 1..n
    BY <2>1
  <2>5. debts \in [1..n -> DebtRows]
    BY <2>1, <2>3, <2>4
  <2> QED BY <2>5
<1>3. stored = {} /\ attempt = [r \in Attempts |-> Unsent]
  BY DEF Init
<1>4. TypeOK
  BY <1>1, <1>2, <1>3 DEF TypeOK
<1>5. \A i \in DOMAIN invoices : Scalable(invoices[i])
  BY OldLedger, OldRowsStand
<1>6. \A r \in Attempts : Sound(attempt[r], invoices, debts)
  BY <1>3 DEF Sound
<1>7. \A r \in Attempts : Held(r) = {}
  BY <1>3 DEF Held, At, Unsent
<1>8. LocksApart
  BY <1>7 DEF LocksApart
<1> QED BY <1>4, <1>5, <1>6, <1>8 DEF Courses

\* Every step of a request keeps the courses.
LEMMA ServeKeepsCourses ==
    ASSUME Courses, NEW r \in Attempts, Serve(r)
    PROVE  Courses'
<1>1. CASE FindPromotion(r)
  BY <1>1, FindPromotionKeepsCourses
<1>2. CASE FindCached(r)
  BY <1>2, FindCachedKeepsCourses
<1>3. CASE Reserve(r)
  BY <1>3, ReserveKeepsCourses
<1>4. CASE Conflict(r)
  BY <1>4, ConflictKeepsCourses
<1>5. CASE BreakDeadlock(r)
  BY <1>5, BreakDeadlockKeepsCourses
<1>6. CASE PrepareItem(r)
  BY <1>6, PrepareItemKeepsCourses
<1>7. CASE CommitBatch(r)
  BY <1>7, CommitBatchKeepsCourses
<1>8. CASE RefuseBatch(r)
  BY <1>8, RefuseBatchKeepsCourses
<1>9. CASE StoreResult(r)
  BY <1>9, StoreResultKeepsCourses
<1>10. CASE ReadOld(r)
  BY <1>10, ReadOldKeepsCourses
<1>11. CASE WriteEdit(r)
  BY <1>11, WriteEditKeepsCourses
<1>12. CASE ReadActive(r)
  BY <1>12, ReadActiveKeepsCourses
<1>13. CASE WriteCancel(r)
  BY <1>13, WriteCancelKeepsCourses
<1>14. CASE CheckDebts(r)
  BY <1>14, CheckDebtsKeepsCourses
<1>15. CASE InsertDebts(r)
  BY <1>15, InsertDebtsKeepsCourses
<1>16. CASE CheckAmend(r)
  BY <1>16, CheckAmendKeepsCourses
<1>17. CASE WriteAmend(r)
  BY <1>17, WriteAmendKeepsCourses
<1>18. CASE Withdraw(r)
  BY <1>18, TurnKeepsCourses DEF Withdraw
<1>19. CASE Restore(r)
  BY <1>19, TurnKeepsCourses DEF Restore
<1> QED
  BY <1>1, <1>2, <1>3, <1>4, <1>5, <1>6, <1>7, <1>8, <1>9, <1>10, <1>11, <1>12, <1>13,
     <1>14, <1>15, <1>16, <1>17, <1>18, <1>19 DEF Serve

\* So does a step that changes nothing.
LEMMA CoursesStutter ==
    ASSUME Courses, UNCHANGED vars
    PROVE  Courses'
<1>1. /\ attempt' = attempt /\ invoices' = invoices /\ debts' = debts /\ ledger' = ledger
      /\ stored' = stored
  BY DEF vars, tables
<1>2. TypeOK'
  BY <1>1 DEF Courses, TypeOK, OutflowTypeOK
<1>3. \A r \in Attempts : Held(r)' = Held(r)
  <2> SUFFICES ASSUME NEW r \in Attempts PROVE Held(r)' = Held(r)
    OBVIOUS
  <2>1. Held(r) = HeldBy(attempt[r]) /\ Held(r)' = HeldBy(attempt'[r])
    BY DEF Held, At, HeldBy
  <2> QED BY <1>1, <2>1
<1>4. LocksApart'
  BY <1>3 DEF Courses, LocksApart
<1>5. /\ \A i \in DOMAIN invoices' : Scalable(invoices'[i])
      /\ \A r \in Attempts : Sound(attempt'[r], invoices', debts')
  BY <1>1 DEF Courses
<1> QED BY <1>2, <1>4, <1>5 DEF Courses

\* One step of the system is one step of a request.
LEMMA NextSteps ==
    ASSUME Next
    PROVE  /\ \E r \in Attempts : Serve(r) \/ Abort(r) \/ \E q \in Requests : Submit(r, q)
           /\ apart' = (apart /\ EditsApart')
           /\ revived' = revived \cup {id \in DOMAIN invoices :
                           invoices[id].status = "cancelled" /\ invoices'[id].status = "active"}
BY DEF Next

\* Requests go where their kind leads, at all times.
LEMMA CoursesInvariant == Spec => []Courses
<1>1. Init => Courses
  BY InitCourses
<1>2. Courses /\ [Next]_vars => Courses'
  <2> SUFFICES ASSUME Courses, [Next]_vars PROVE Courses'
    OBVIOUS
  <2>1. CASE Next
    <3>1. PICK r \in Attempts : Serve(r) \/ Abort(r) \/ \E q \in Requests : Submit(r, q)
      BY <2>1, NextSteps
    <3> QED BY <3>1, ServeKeepsCourses, AbortKeepsCourses, SubmitKeepsCourses
  <2>2. CASE UNCHANGED vars
    BY <2>2, CoursesStutter
  <2> QED BY <2>1, <2>2
<1> QED BY <1>1, <1>2, PTL DEF Spec

\* Every table keeps its shape, and so does what each request knows
\* (invoice.service.ts, purchase-debts.service.ts).
THEOREM TypeCorrect == Spec => []TypeOK
<1>1. Courses => TypeOK
  BY DEF Courses
<1> QED BY <1>1, CoursesInvariant, PTL

\* A request that waits for a debt another one holds, in that one's terms: it
\* holds the debt by a line before the one it waits at itself.
LEMMA HeldBefore ==
    ASSUME Courses, NEW s \in Attempts, NEW t \in Attempts,
           attempt[s].pc = "reserve", attempt[t].pc = "reserve", Unreserved(s) \in Held(t)
    PROVE  \E n \in Naming(attempt[t].request) :
              /\ n < NextLine(t) /\ Unreserved(s) = attempt[t].request.items[n].debt
              /\ Unreserved(s) \in DOMAIN debts
<1> DEFINE q == attempt[t].request
<1>1. /\ Course(attempt[t]) /\ Reserved(attempt[t], debts)
      /\ Held(t) = {q.items[n].debt : n \in attempt[t].held}
  BY Served1
<1>2. /\ NextLine(t) \in Naming(q) /\ NextLine(t) \notin attempt[t].held
      /\ NextLine(t) \in Nat /\ attempt[t].held \subseteq Naming(q)
      /\ \A n \in Naming(q) : n \in Nat
  BY NextLineIs
<1>3. PICK n \in attempt[t].held : Unreserved(s) = q.items[n].debt
  BY <1>1
<1>4. q.items[n].debt \in DOMAIN debts
  BY <1>1 DEF Reserved
<1>5. ~(NextLine(t) < n)
  BY <1>1, <1>2 DEF Course
<1>6. n < NextLine(t)
  BY <1>2, <1>5
<1> QED BY <1>2, <1>3, <1>4, <1>6

\* Batches that list the debts in a common order do not wait for each other in
\* a circle: the one that waits for the debt that ranks highest would wait for
\* a batch that waits for one that ranks higher still.
LEMMA NoCircleInOrder ==
    ASSUME Courses, NEW S \in SUBSET Attempts, Circle(S),
           NEW rank \in [DOMAIN debts -> DOMAIN debts],
           \A s \in S : Follows(attempt[s].request, rank)
    PROVE  FALSE
<1>1. \A s \in S : attempt[s].pc = "reserve"
  BY DEF Circle, WaitsFor, At
<1>2. PICK size \in Nat : DOMAIN debts = 1..size
  BY DEF Courses, TypeOK
<1> DEFINE below(s) == size - rank[Unreserved(s)]
<1>3. \A s \in S : \E t \in S : /\ Unreserved(s) \in DOMAIN debts
                               /\ \E n \in Naming(attempt[t].request) :
                                     /\ n < NextLine(t)
                                     /\ Unreserved(s) = attempt[t].request.items[n].debt
  <2> TAKE s \in S
  <2>1. PICK t \in S : Unreserved(s) \in Held(t)
    BY DEF Circle, WaitsFor
  <2> QED BY <1>1, <2>1, HeldBefore
<1>4. \A s \in S : below(s) \in Nat
  <2> TAKE s \in S
  <2>1. Unreserved(s) \in DOMAIN debts
    BY <1>3
  <2>2. rank[Unreserved(s)] \in 1..size
    BY <1>2, <2>1
  <2> QED BY <2>2
<1>5. \A s \in S : \E t \in S : below(t) < below(s)
  <2> TAKE s \in S
  <2>1. PICK t \in S : /\ Unreserved(s) \in DOMAIN debts
                       /\ \E n \in Naming(attempt[t].request) :
                             /\ n < NextLine(t)
                             /\ Unreserved(s) = attempt[t].request.items[n].debt
    BY <1>3
  <2>2. Unreserved(t) \in DOMAIN debts
    BY <1>3
  <2>3. /\ NextLine(t) \in Naming(attempt[t].request)
        /\ Unreserved(t) = attempt[t].request.items[NextLine(t)].debt
    BY <1>1, NextLineIs
  <2>4. rank[Unreserved(s)] < rank[Unreserved(t)]
    BY <2>1, <2>2, <2>3 DEF Follows
  <2>5. rank[Unreserved(s)] \in 1..size /\ rank[Unreserved(t)] \in 1..size
    BY <1>2, <2>1, <2>2
  <2>6. below(t) < below(s)
    BY <2>4, <2>5
  <2> QED BY <2>6
<1> HIDE DEF below
<1> DEFINE values == {below(s) : s \in S}
<1>6. values \in SUBSET Nat /\ values # {}
  BY <1>4 DEF Circle
<1>7. PICK n \in values : \A m \in values : n <= m
  <2> HIDE DEF values
  <2> QED BY <1>6, SmallestNumber
<1>8. PICK s \in S : n = below(s)
  BY <1>7
<1>9. PICK t \in S : below(t) < below(s)
  BY <1>5
<1> QED BY <1>4, <1>7, <1>8, <1>9

\* Batches wait for each other in a circle only when they list common debts in
\* orders that no ranking of the debts reconciles: locking the debts one by one
\* in the order of the lines adds no deadlock of its own
\* (reserveAndHydratePurchaseDebtItems).
THEOREM OrderedBatchesNeverDeadlock == Spec => []DeadlocksNeedDisorder
<1>1. Courses => DeadlocksNeedDisorder
  BY NoCircleInOrder DEF DeadlocksNeedDisorder
<1> QED BY <1>1, CoursesInvariant, PTL

-----------------------------------------------------------------------------
(* What the steps of a request come to.                                    *)

Others(r) == \A s \in Attempts \ {r} : attempt'[s] = attempt[s]

\* A step that writes no row: a request that begins to prepare its items has
\* none, an edit has read its row as it is, and a batch that is answered names
\* no debt or is answered what its debts were promoted in.
Quiet(r) ==
    LET a == attempt'[r]
    IN /\ invoices' = invoices /\ ledger' = ledger /\ debts' = debts /\ a \in Served
       /\ a.pc \in {"items", "commit"} => a.rows = <<>>
       /\ a.pc = "done" /\ a.request.op = "batch" =>
             \/ DebtsOf(a.request) = {}
             \/ /\ Promotions(a.request) = {a.reply} /\ a.reply # <<>>
                /\ a.request = attempt[r].request
       /\ a.pc = "write" /\ a.request.op = "edit" => a.rows = <<invoices[a.request.invoice]>>

\* An item becomes a row.
ItemDone(r) ==
    /\ invoices' = invoices /\ ledger' = ledger /\ debts' = debts
    /\ attempt[r].pc = "items" /\ Acceptable(r)
    /\ attempt'[r] = [attempt[r] EXCEPT
          !.rows = Append(attempt[r].rows, NextRow(r)),
          !.pc = IF Len(attempt[r].rows) + 1 = Len(attempt[r].request.items)
                 THEN "commit" ELSE "items"]

\* Only debts that are not promoted are written.
DebtsDone(r) ==
    /\ invoices' = invoices /\ ledger' = ledger
    /\ attempt'[r] \in Served /\ attempt'[r].pc = "done" /\ attempt'[r].request.op # "batch"
    /\ DOMAIN debts \subseteq DOMAIN debts'
    /\ \A d \in DOMAIN debts :
          /\ debts'[d].promotion = debts[d].promotion
          /\ debts'[d].status = "promoted" <=> debts[d].status = "promoted"
          /\ debts[d].status = "promoted" => debts'[d] = debts[d]
    /\ \A d \in DOMAIN debts' \ DOMAIN debts :
          debts'[d].status = "pending" /\ debts'[d].promotion = Unpromoted

Shape(r) ==
    /\ Others(r)
    /\ \/ Quiet(r) \/ ItemDone(r) \/ DebtsDone(r) \/ CommitBatch(r)
       \/ EditReady(r) /\ EditDone(r) /\ debts' = debts /\ attempt'[r].pc = "done"
             /\ attempt'[r].request = attempt[r].request
       \/ CancelDone(r) /\ attempt'[r].pc = "done" /\ attempt'[r].request = attempt[r].request

\* A request that ends without writing.
LEMMA FailIsQuiet ==
    ASSUME Courses, NEW r \in Attempts, attempt[r].pc # "idle", Fail(r),
           invoices' = invoices, ledger' = ledger, debts' = debts
    PROVE  Shape(r)
<1>1. attempt \in [Attempts -> Served \cup {Unsent}] /\ attempt[r] \in Served
  BY Served1 DEF Courses, TypeOK
<1>2. Others(r)
  BY <1>1 DEF Fail, Others
<1>3. attempt'[r] \in Served
  BY FailEnds
<1>4. attempt'[r].pc = "failed"
  <2>1. attempt'[r] = [attempt[r] EXCEPT !.pc = "failed", !.held = {}]
    BY <1>1 DEF Fail
  <2> QED BY <1>1, <2>1 DEF Served
<1>5. Quiet(r)
  BY <1>3, <1>4 DEF Quiet
<1> QED BY <1>2, <1>5 DEF Shape

\* The answer of a request that is done.
LEMMA DoneAnswers ==
    ASSUME Courses, NEW r \in Attempts, attempt[r].pc # "idle", NEW ids \in Answers,
           Done(r, ids)
    PROVE  /\ Others(r) /\ attempt'[r] \in Served
           /\ attempt'[r].pc = "done" /\ attempt'[r].reply = ids
           /\ attempt'[r].request = attempt[r].request
<1>1. attempt \in [Attempts -> Served \cup {Unsent}] /\ attempt[r] \in Served
  BY Served1 DEF Courses, TypeOK
<1>2. Others(r)
  BY <1>1 DEF Done, Others
<1>3. attempt'[r] \in Served
  BY DoneEnds
<1>4. /\ attempt'[r].pc = "done" /\ attempt'[r].reply = ids
      /\ attempt'[r].request = attempt[r].request
  <2>1. attempt'[r] = [attempt[r] EXCEPT !.pc = "done", !.held = {}, !.reply = ids]
    BY <1>1 DEF Done
  <2> QED BY <1>1, <2>1 DEF Served
<1> QED BY <1>2, <1>3, <1>4

\* A request that goes on with the same rows.
LEMMA GoingOnIsQuiet ==
    ASSUME Courses, NEW r \in Attempts, attempt[r].pc # "idle",
           NEW pc \in {"reserve", "items", "write"}, Goto(r, pc),
           invoices' = invoices, ledger' = ledger, debts' = debts,
           pc = "items" => attempt[r].rows = <<>>,
           pc = "write" => attempt[r].request.op # "edit"
    PROVE  Shape(r)
<1>1. attempt \in [Attempts -> Served \cup {Unsent}]
  BY DEF Courses, TypeOK
<1>2. Others(r)
  BY <1>1 DEF Goto, Others
<1>3. /\ attempt'[r] \in Served /\ attempt'[r].pc = pc
      /\ attempt'[r].request = attempt[r].request /\ attempt'[r].rows = attempt[r].rows
  BY GoesOn
<1>4. Quiet(r)
  BY <1>3 DEF Quiet
<1> QED BY <1>2, <1>4 DEF Shape

\* A new request writes nothing.
LEMMA SubmitShape ==
    ASSUME Courses, NEW r \in Attempts, NEW q \in Requests, Submit(r, q)
    PROVE  Shape(r)
<1> DEFINE a == [pc |-> FirstStep(q), request |-> q, held |-> {}, rows |-> <<>>, reply |-> <<>>]
<1>1. attempt \in [Attempts -> Served \cup {Unsent}]
  BY DEF Courses, TypeOK
<1>2. /\ attempt' = [attempt EXCEPT ![r] = a]
      /\ invoices' = invoices /\ ledger' = ledger /\ debts' = debts
  BY DEF Submit, Unwritten, tables
<1>3. FirstStep(q) \in {"read", "items", "reserve", "cached", "replay"}
  BY DEF FirstStep
<1>4. a \in Served /\ a.pc = FirstStep(q) /\ a.rows = <<>>
  BY <1>3 DEF Served, Answers
<1> HIDE DEF a
<1>5. attempt'[r] = a /\ Others(r)
  BY <1>1, <1>2 DEF Others
<1>6. Quiet(r)
  BY <1>2, <1>3, <1>4, <1>5 DEF Quiet
<1> QED BY <1>5, <1>6 DEF Shape

\* A batch answered from its promotion writes nothing.
LEMMA FindPromotionShape ==
    ASSUME Courses, NEW r \in Attempts, FindPromotion(r)
    PROVE  Shape(r)
<1> DEFINE q == attempt[r].request
<1>1. /\ attempt[r].pc \in {"replay", "again"}
      /\ invoices' = invoices /\ ledger' = ledger /\ debts' = debts
  BY DEF FindPromotion, Unwritten, tables
<1>2. \/ \E batch \in Promotions(q) \ {<<>>} : Promotions(q) = {batch} /\ Done(r, batch)
      \/ At(r, "replay") /\ Goto(r, "reserve")
      \/ Fail(r)
  BY DEF FindPromotion
<1>3. CASE \E batch \in Promotions(q) \ {<<>>} : Promotions(q) = {batch} /\ Done(r, batch)
  <2>1. PICK batch \in Promotions(q) \ {<<>>} : Promotions(q) = {batch} /\ Done(r, batch)
    BY <1>3
  <2>2. batch \in Answers
    <3>1. \A d \in DOMAIN debts : debts[d].promotion.batch \in Answers
      <4>1. \A d \in DOMAIN debts : debts[d] \in DebtRows
        BY RowTypes
      <4> QED BY <4>1 DEF DebtRows
    <3> QED BY <2>1, <3>1 DEF Promotions
  <2>3. /\ Others(r) /\ attempt'[r] \in Served /\ attempt'[r].pc = "done"
        /\ attempt'[r].reply = batch /\ attempt'[r].request = q
    BY <1>1, <2>1, <2>2, DoneAnswers
  <2>4. Promotions(attempt'[r].request) = {attempt'[r].reply} /\ attempt'[r].reply # <<>>
    BY <2>1, <2>3
  <2>5. Quiet(r)
    BY <1>1, <2>3, <2>4 DEF Quiet
  <2> QED BY <2>3, <2>5 DEF Shape
<1>4. CASE At(r, "replay") /\ Goto(r, "reserve")
  BY <1>1, <1>4, GoingOnIsQuiet
<1>5. CASE Fail(r)
  BY <1>1, <1>5, FailIsQuiet
<1> QED BY <1>2, <1>3, <1>4, <1>5

\* A batch answered from the stored result names no debt.
LEMMA FindCachedShape ==
    ASSUME Courses, NEW r \in Attempts, FindCached(r)
    PROVE  Shape(r)
<1>1. /\ attempt[r].pc = "cached"
      /\ invoices' = invoices /\ ledger' = ledger /\ debts' = debts
  BY DEF FindCached, Unwritten, tables, At
<1>2. DebtsOf(attempt[r].request) = {} /\ attempt[r].rows = <<>>
  BY <1>1, Served1 DEF Course
<1>3. (\E s \in stored : Done(r, s.ids)) \/ Goto(r, "items")
  BY DEF FindCached
<1>4. CASE \E s \in stored : Done(r, s.ids)
  <2>1. PICK s \in stored : Done(r, s.ids)
    BY <1>4
  <2>2. s.ids \in Answers
    BY RowTypes
  <2>3. /\ Others(r) /\ attempt'[r] \in Served /\ attempt'[r].pc = "done"
        /\ attempt'[r].request = attempt[r].request
    BY <1>1, <2>1, <2>2, DoneAnswers
  <2>4. Quiet(r)
    BY <1>1, <1>2, <2>3 DEF Quiet
  <2> QED BY <2>3, <2>4 DEF Shape
<1>5. CASE Goto(r, "items")
  BY <1>1, <1>2, <1>5, GoingOnIsQuiet
<1> QED BY <1>3, <1>4, <1>5

\* A reservation begins the items with no row.
LEMMA ReserveShape ==
    ASSUME Courses, NEW r \in Attempts, Reserve(r)
    PROVE  Shape(r)
<1> DEFINE h == attempt[r].held \cup {NextLine(r)}
           pc == IF h = Naming(attempt[r].request) THEN "items" ELSE "reserve"
           a == [attempt[r] EXCEPT !.held = h, !.pc = pc]
<1>1. /\ attempt[r].pc = "reserve" /\ invoices' = invoices /\ ledger' = ledger /\ debts' = debts
      /\ attempt' = [attempt EXCEPT ![r].held = @ \cup {NextLine(r)}, ![r].pc = pc]
  BY DEF Reserve, Unwritten, tables, At
<1>2. attempt[r] \in Served /\ Course(attempt[r]) /\ h \subseteq Nat
  BY <1>1, Served1, NextLineIs DEF Served
<1>3. attempt \in [Attempts -> Served \cup {Unsent}]
  BY DEF Courses, TypeOK
<1>4. attempt'[r] = a /\ Others(r)
  BY <1>1, <1>3 DEF Others
<1>5. attempt[r].rows = <<>> /\ pc \in {"items", "reserve"}
  BY <1>1, <1>2 DEF Course
<1>6. a \in Served /\ a.pc = pc /\ a.rows = <<>>
  BY <1>2, <1>5 DEF Served
<1> HIDE DEF a, pc
<1>7. Quiet(r)
  BY <1>1, <1>4, <1>5, <1>6 DEF Quiet
<1> QED BY <1>4, <1>7 DEF Shape

\* A conflict writes nothing.
LEMMA ConflictShape ==
    ASSUME Courses, NEW r \in Attempts, Conflict(r)
    PROVE  Shape(r)
<1>1. /\ attempt[r].pc = "reserve" /\ invoices' = invoices /\ ledger' = ledger /\ debts' = debts
      /\ \/ attempt' = [attempt EXCEPT ![r].pc = "again", ![r].held = {}]
         \/ Fail(r)
  BY DEF Conflict, Unwritten, tables, At
<1>2. CASE Fail(r)
  BY <1>1, <1>2, FailIsQuiet
<1>3. CASE attempt' = [attempt EXCEPT ![r].pc = "again", ![r].held = {}]
  <2> DEFINE a == [attempt[r] EXCEPT !.pc = "again", !.held = {}]
  <2>1. attempt[r] \in Served /\ attempt \in [Attempts -> Served \cup {Unsent}]
    BY <1>1, Served1 DEF Courses, TypeOK
  <2>2. attempt'[r] = a /\ Others(r)
    BY <1>3, <2>1 DEF Others
  <2>3. a \in Served /\ a.pc = "again"
    BY <2>1 DEF Served
  <2> HIDE DEF a
  <2>4. Quiet(r)
    BY <1>1, <2>2, <2>3 DEF Quiet
  <2> QED BY <2>2, <2>4 DEF Shape
<1> QED BY <1>1, <1>2, <1>3

\* An item becomes a row, or the request fails.
LEMMA PrepareItemShape ==
    ASSUME Courses, NEW r \in Attempts, PrepareItem(r)
    PROVE  Shape(r)
<1> DEFINE pc == IF Len(attempt[r].rows) + 1 = Len(attempt[r].request.items)
                 THEN "commit" ELSE "items"
           rows == Append(attempt[r].rows, NextRow(r))
<1>1. /\ attempt[r].pc = "items" /\ invoices' = invoices /\ ledger' = ledger /\ debts' = debts
      /\ \/ Acceptable(r) /\ attempt' = [attempt EXCEPT ![r].rows = rows, ![r].pc = pc]
         \/ Fail(r)
  BY Prepares DEF tables
<1>2. CASE Fail(r)
  BY <1>1, <1>2, FailIsQuiet
<1>3. CASE Acceptable(r) /\ attempt' = [attempt EXCEPT ![r].rows = rows, ![r].pc = pc]
  <2>1. attempt \in [Attempts -> Served \cup {Unsent}]
    BY DEF Courses, TypeOK
  <2>2. attempt'[r] = [attempt[r] EXCEPT !.rows = rows, !.pc = pc] /\ Others(r)
    BY <1>3, <2>1 DEF Others
  <2>3. ItemDone(r)
    BY <1>1, <1>3, <2>2 DEF ItemDone
  <2> QED BY <2>2, <2>3 DEF Shape
<1> QED BY <1>1, <1>2, <1>3

\* A commit is a commit.
LEMMA CommitBatchShape ==
    ASSUME Courses, NEW r \in Attempts, CommitBatch(r)
    PROVE  Shape(r)
<1>1. attempt \in [Attempts -> Served \cup {Unsent}]
  BY DEF Courses, TypeOK
<1>2. \/ attempt' = [attempt EXCEPT ![r].pc = "store", ![r].reply = Inserted(r)]
      \/ Done(r, Inserted(r))
  BY Commits
<1>3. Others(r)
  BY <1>1, <1>2 DEF Done, Others
<1> QED BY <1>3 DEF Shape

\* Storing a result writes no row.
LEMMA StoreResultShape ==
    ASSUME Courses, NEW r \in Attempts, StoreResult(r)
    PROVE  Shape(r)
<1>1. /\ attempt[r].pc = "store" /\ Done(r, attempt[r].reply)
      /\ debts' = debts /\ invoices' = invoices /\ ledger' = ledger
  BY DEF StoreResult, At
<1>2. attempt[r] \in Served /\ DebtsOf(attempt[r].request) = {}
  BY <1>1, Served1 DEF Course
<1>3. attempt[r].reply \in Answers
  BY <1>2 DEF Served
<1>4. /\ Others(r) /\ attempt'[r] \in Served /\ attempt'[r].pc = "done"
      /\ attempt'[r].request = attempt[r].request
  BY <1>1, <1>3, DoneAnswers
<1>5. Quiet(r)
  BY <1>1, <1>2, <1>4 DEF Quiet
<1> QED BY <1>4, <1>5 DEF Shape

\* An edit reads its row as it is.
LEMMA ReadOldShape ==
    ASSUME Courses, NEW r \in Attempts, ReadOld(r)
    PROVE  Shape(r)
<1> DEFINE q == attempt[r].request
           read == <<invoices[q.invoice]>>
           a == [attempt[r] EXCEPT !.pc = "write", !.rows = read]
<1>1. /\ attempt[r].pc = "read" /\ q.op = "edit"
      /\ invoices' = invoices /\ ledger' = ledger /\ debts' = debts
      /\ \/ /\ q.invoice \in DOMAIN invoices
            /\ attempt' = [attempt EXCEPT ![r].pc = "write", ![r].rows = read]
         \/ Fail(r)
  BY DEF ReadOld, Doing, At, Unwritten, tables
<1>2. CASE Fail(r)
  BY <1>1, <1>2, FailIsQuiet
<1>3. CASE /\ q.invoice \in DOMAIN invoices
           /\ attempt' = [attempt EXCEPT ![r].pc = "write", ![r].rows = read]
  <2>1. attempt[r] \in Served /\ attempt \in [Attempts -> Served \cup {Unsent}]
    BY <1>1, Served1 DEF Courses, TypeOK
  <2>2. attempt'[r] = a /\ Others(r)
    BY <1>3, <2>1 DEF Others
  <2>3. read \in Seq(InvoiceRows)
    <3>1. invoices[q.invoice] \in InvoiceRows
      BY <1>3, RowTypes
    <3> QED BY <3>1
  <2> HIDE DEF read
  <2>4. a \in Served /\ a.pc = "write" /\ a.rows = read /\ a.request = q
    BY <2>1, <2>3 DEF Served
  <2> HIDE DEF a
  <2>5. Quiet(r)
    BY <1>1, <2>2, <2>4 DEF Quiet, read
  <2> QED BY <2>2, <2>5 DEF Shape
<1> QED BY <1>1, <1>2, <1>3

\* The checks write nothing.
LEMMA CheckShape ==
    ASSUME Courses, NEW r \in Attempts, ReadActive(r) \/ CheckDebts(r) \/ CheckAmend(r)
    PROVE  Shape(r)
<1>1. /\ attempt[r].pc = "read" /\ attempt[r].request.op \in {"cancel", "debts", "amend"}
      /\ invoices' = invoices /\ ledger' = ledger /\ debts' = debts
      /\ Goto(r, "write") \/ Fail(r)
  BY DEF ReadActive, CheckDebts, CheckAmend, Doing, At, Unwritten, tables
<1> QED BY <1>1, GoingOnIsQuiet, FailIsQuiet

\* A request that is refused writes nothing.
LEMMA EndShape ==
    ASSUME Courses, NEW r \in Attempts, BreakDeadlock(r) \/ RefuseBatch(r) \/ Abort(r)
    PROVE  Shape(r)
<1>1. BreakDeadlock(r) => At(r, "reserve")
  BY DEF BreakDeadlock, Deadlocked, Circle, WaitsFor
<1>2. /\ attempt[r].pc # "idle" /\ Fail(r)
      /\ invoices' = invoices /\ ledger' = ledger /\ debts' = debts
  BY <1>1 DEF BreakDeadlock, RefuseBatch, Abort, At, Unwritten, tables
<1> QED BY <1>2, FailIsQuiet

\* A request on debts that is done.
LEMMA DebtsDoneShape ==
    ASSUME Courses, NEW r \in Attempts, attempt[r].pc # "idle", Done(r, <<>>),
           attempt[r].request.op # "batch", invoices' = invoices, ledger' = ledger,
           DOMAIN debts \subseteq DOMAIN debts',
           \A d \in DOMAIN debts :
              /\ debts'[d].promotion = debts[d].promotion
              /\ debts'[d].status = "promoted" <=> debts[d].status = "promoted"
              /\ debts[d].status = "promoted" => debts'[d] = debts[d],
           \A d \in DOMAIN debts' \ DOMAIN debts :
              debts'[d].status = "pending" /\ debts'[d].promotion = Unpromoted
    PROVE  Shape(r)
<1>1. <<>> \in Answers
  BY DEF Answers
<1>2. /\ Others(r) /\ attempt'[r] \in Served /\ attempt'[r].pc = "done"
      /\ attempt'[r].request = attempt[r].request
  BY <1>1, DoneAnswers
<1>3. DebtsDone(r)
  BY <1>2 DEF DebtsDone
<1> QED BY <1>2, <1>3 DEF Shape

\* New debts are not promoted.
LEMMA InsertDebtsShape ==
    ASSUME Courses, NEW r \in Attempts, InsertDebts(r)
    PROVE  Shape(r)
<1> DEFINE items == attempt[r].request.items
           new == [n \in DOMAIN items |-> NewDebt(items[n])]
<1>1. /\ attempt[r].pc = "write" /\ attempt[r].request.op = "debts"
      /\ invoices' = invoices /\ ledger' = ledger
      /\ \/ debts' = debts \o new /\ Done(r, <<>>)
         \/ debts' = debts /\ Fail(r)
  BY DEF InsertDebts, Doing, At
<1>2. CASE debts' = debts /\ Fail(r)
  BY <1>1, <1>2, FailIsQuiet
<1>3. CASE debts' = debts \o new /\ Done(r, <<>>)
  <2>1. items \in Seq(DebtItems)
    BY <1>1, Served1, RequestKinds
  <2>2. \A n \in DOMAIN items : items[n] \in DebtItems
    BY <2>1, ElementOf
  <2>3. \A n \in DOMAIN items : /\ new[n] \in DebtRows /\ new[n].status = "pending"
                                /\ new[n].promotion = Unpromoted
    BY <2>2, NewDebtTyped
  <2>4. new \in Seq(DebtRows) /\ DOMAIN new = DOMAIN items
    <3>1. PICK n \in Nat : DOMAIN items = 1..n
      BY <2>1
    <3>2. new \in [1..n -> DebtRows] /\ DOMAIN new = DOMAIN items
      BY <2>3, <3>1
    <3> HIDE DEF new
    <3> QED BY <3>2
  <2> HIDE DEF new
  <2>5. /\ DOMAIN debts = 1..Len(debts) /\ DOMAIN debts' = 1..(Len(debts) + Len(new))
        /\ Len(debts) \in Nat /\ Len(new) \in Nat
        /\ \A d \in DOMAIN debts : debts'[d] = debts[d]
        /\ \A d \in DOMAIN debts' : d \notin DOMAIN debts
              => d - Len(debts) \in DOMAIN new /\ debts'[d] = new[d - Len(debts)]
    BY <1>3, <2>4, RowTypes
  <2>6. DOMAIN debts \subseteq DOMAIN debts'
    BY <2>5
  <2>7. \A d \in DOMAIN debts' \ DOMAIN debts :
           debts'[d].status = "pending" /\ debts'[d].promotion = Unpromoted
    BY <2>3, <2>4, <2>5
  <2> QED BY <1>1, <1>3, <2>5, <2>6, <2>7, DebtsDoneShape
<1> QED BY <1>1, <1>2, <1>3

\* An amended debt is not promoted.
LEMMA WriteAmendShape ==
    ASSUME Courses, NEW r \in Attempts, WriteAmend(r)
    PROVE  Shape(r)
<1> DEFINE q == attempt[r].request
<1>1. /\ attempt[r].pc = "write" /\ q.op = "amend"
      /\ invoices' = invoices /\ ledger' = ledger
      /\ \/ /\ debts[q.debt].status = "pending"
            /\ debts' = [debts EXCEPT ![q.debt].number = q.number, ![q.debt].total = q.total]
            /\ Done(r, <<>>)
         \/ debts' = debts /\ Fail(r)
  BY DEF WriteAmend, Doing, At
<1>2. CASE debts' = debts /\ Fail(r)
  BY <1>1, <1>2, FailIsQuiet
<1>3. CASE /\ debts[q.debt].status = "pending"
           /\ debts' = [debts EXCEPT ![q.debt].number = q.number, ![q.debt].total = q.total]
           /\ Done(r, <<>>)
  <2> DEFINE debt == [debts[q.debt] EXCEPT !.number = q.number, !.total = q.total]
  <2>1. debts' = [debts EXCEPT ![q.debt] = debt]
    BY <1>3
  <2>2. q.debt \in DOMAIN debts
    BY <1>1, Served1 DEF Placed
  <2>3. debts[q.debt] \in DebtRows
    BY <2>2, RowTypes
  <2>4. debt.status = debts[q.debt].status /\ debt.promotion = debts[q.debt].promotion
    BY <2>3 DEF DebtRows
  <2> HIDE DEF debt
  <2>5. DOMAIN debts' = DOMAIN debts
        /\ \A d \in DOMAIN debts : debts'[d] = IF d = q.debt THEN debt ELSE debts[d]
    BY <2>1, <2>2
  <2>6. \A d \in DOMAIN debts :
           /\ debts'[d].promotion = debts[d].promotion
           /\ debts'[d].status = "promoted" <=> debts[d].status = "promoted"
           /\ debts[d].status = "promoted" => debts'[d] = debts[d]
    BY <1>3, <2>4, <2>5
  <2> QED BY <1>1, <1>3, <2>5, <2>6, DebtsDoneShape
<1> QED BY <1>1, <1>2, <1>3

\* A debt withdrawn or restored is not promoted.
LEMMA TurnShape ==
    ASSUME Courses, NEW r \in Attempts, NEW op \in {"withdraw", "restore"},
           NEW from \in {"pending", "cancelled"}, NEW to \in {"pending", "cancelled"},
           Turn(r, op, from, to)
    PROVE  Shape(r)
<1> DEFINE d == attempt[r].request.debt
<1>1. /\ attempt[r].pc = "read" /\ attempt[r].request.op = op
      /\ invoices' = invoices /\ ledger' = ledger
      /\ \/ /\ d \in DOMAIN debts /\ debts[d].status = from
            /\ debts' = [debts EXCEPT ![d].status = to] /\ Done(r, <<>>)
         \/ debts' = debts /\ Fail(r)
  BY DEF Turn, Doing, At
<1>2. CASE debts' = debts /\ Fail(r)
  BY <1>1, <1>2, FailIsQuiet
<1>3. CASE /\ d \in DOMAIN debts /\ debts[d].status = from
           /\ debts' = [debts EXCEPT ![d].status = to] /\ Done(r, <<>>)
  <2> DEFINE debt == [debts[d] EXCEPT !.status = to]
  <2>1. debts[d] \in DebtRows
    BY <1>3, RowTypes
  <2>2. debt.status = to /\ debt.promotion = debts[d].promotion
    BY <2>1 DEF DebtRows
  <2>3. debts' = [debts EXCEPT ![d] = debt]
    BY <1>3
  <2> HIDE DEF debt
  <2>4. DOMAIN debts' = DOMAIN debts
        /\ \A e \in DOMAIN debts : debts'[e] = IF e = d THEN debt ELSE debts[e]
    BY <1>3, <2>3
  <2>5. \A e \in DOMAIN debts :
           /\ debts'[e].promotion = debts[e].promotion
           /\ debts'[e].status = "promoted" <=> debts[e].status = "promoted"
           /\ debts[e].status = "promoted" => debts'[e] = debts[e]
    BY <1>3, <2>2, <2>4
  <2> QED BY <1>1, <1>3, <2>4, <2>5, DebtsDoneShape
<1> QED BY <1>1, <1>2, <1>3

\* An edit is done, or fails.
LEMMA WriteEditShape ==
    ASSUME Courses, NEW r \in Attempts, WriteEdit(r)
    PROVE  Shape(r)
<1>1. /\ EditReady(r) /\ debts' = debts
      /\ EditDone(r) \/ (Fail(r) /\ invoices' = invoices /\ ledger' = ledger)
  BY Edits
<1>2. attempt[r].pc = "write" /\ Target(r) \in DOMAIN invoices
  BY <1>1 DEF EditReady
<1>3. CASE Fail(r) /\ invoices' = invoices /\ ledger' = ledger
  BY <1>1, <1>2, <1>3, FailIsQuiet
<1>4. CASE EditDone(r)
  <2>1. Done(r, <<Target(r)>>)
    BY <1>4 DEF EditDone
  <2>2. <<Target(r)>> \in Answers
    <3>1. Target(r) \in Nat \ {0}
      BY <1>2, RowTypes
    <3> QED BY <3>1 DEF Answers
  <2>3. /\ Others(r) /\ attempt'[r].pc = "done" /\ attempt'[r].request = attempt[r].request
    BY <1>2, <2>1, <2>2, DoneAnswers
  <2> QED BY <1>1, <1>4, <2>3 DEF Shape
<1> QED BY <1>1, <1>3, <1>4

\* A cancellation is done.
LEMMA WriteCancelShape ==
    ASSUME Courses, NEW r \in Attempts, WriteCancel(r)
    PROVE  Shape(r)
<1>1. CancelDone(r)
  BY Cancels
<1>2. attempt[r].pc = "write" /\ Target(r) \in DOMAIN invoices /\ Done(r, <<Target(r)>>)
  BY <1>1 DEF CancelDone
<1>3. <<Target(r)>> \in Answers
  <2>1. Target(r) \in Nat \ {0}
    BY <1>2, RowTypes
  <2> QED BY <2>1 DEF Answers
<1>4. Others(r) /\ attempt'[r].pc = "done" /\ attempt'[r].request = attempt[r].request
  BY <1>2, <1>3, DoneAnswers
<1> QED BY <1>1, <1>4 DEF Shape

\* Every step of the system is one of these.
LEMMA ServeShape ==
    ASSUME Courses, NEW r \in Attempts, Serve(r)
    PROVE  Shape(r)
<1>1. CASE FindPromotion(r)
  BY <1>1, FindPromotionShape
<1>2. CASE FindCached(r)
  BY <1>2, FindCachedShape
<1>3. CASE Reserve(r)
  BY <1>3, ReserveShape
<1>4. CASE Conflict(r)
  BY <1>4, ConflictShape
<1>5. CASE BreakDeadlock(r)
  BY <1>5, EndShape
<1>6. CASE RefuseBatch(r)
  BY <1>6, EndShape
<1>7. CASE PrepareItem(r)
  BY <1>7, PrepareItemShape
<1>8. CASE CommitBatch(r)
  BY <1>8, CommitBatchShape
<1>9. CASE StoreResult(r)
  BY <1>9, StoreResultShape
<1>10. CASE ReadOld(r)
  BY <1>10, ReadOldShape
<1>11. CASE WriteEdit(r)
  BY <1>11, WriteEditShape
<1>12. CASE ReadActive(r)
  BY <1>12, CheckShape
<1>13. CASE WriteCancel(r)
  BY <1>13, WriteCancelShape
<1>14. CASE CheckDebts(r)
  BY <1>14, CheckShape
<1>15. CASE InsertDebts(r)
  BY <1>15, InsertDebtsShape
<1>16. CASE CheckAmend(r)
  BY <1>16, CheckShape
<1>17. CASE WriteAmend(r)
  BY <1>17, WriteAmendShape
<1>18. CASE Withdraw(r)
  BY <1>18, TurnShape DEF Withdraw
<1>19. CASE Restore(r)
  BY <1>19, TurnShape DEF Restore
<1> QED BY <1>1, <1>2, <1>3, <1>4, <1>5, <1>6, <1>7, <1>8, <1>9, <1>10, <1>11, <1>12,
           <1>13, <1>14, <1>15, <1>16, <1>17, <1>18, <1>19 DEF Serve

\* Every step of the system has one of the shapes.
LEMMA StepShape ==
    ASSUME Courses, Next
    PROVE  \E r \in Attempts : Shape(r)
<1>1. PICK r \in Attempts : Serve(r) \/ Abort(r) \/ \E q \in Requests : Submit(r, q)
  BY NextSteps
<1>2. CASE Serve(r)
  BY <1>2, ServeShape
<1>3. CASE Abort(r)
  BY <1>3, EndShape
<1>4. CASE \E q \in Requests : Submit(r, q)
  BY <1>4, SubmitShape
<1> QED BY <1>1, <1>2, <1>3, <1>4

-----------------------------------------------------------------------------
(* The numbers.                                                            *)

\* A key free in a joined table is free in its parts.
LEMMA CarriersJoined ==
    ASSUME NEW invs \in Seq(InvoiceRows), NEW rows \in Seq(InvoiceRows), NEW key,
           CarriersOf(invs \o rows, key) = {}
    PROVE  CarriersOf(invs, key) = {} /\ CarriersOf(rows, key) = {}
<1>1. /\ Len(invs) \in Nat /\ Len(rows) \in Nat
      /\ DOMAIN invs = 1..Len(invs) /\ DOMAIN rows = 1..Len(rows)
      /\ DOMAIN (invs \o rows) = 1..(Len(invs) + Len(rows))
      /\ \A i \in DOMAIN invs : i \in DOMAIN (invs \o rows) /\ (invs \o rows)[i] = invs[i]
      /\ \A n \in DOMAIN rows : /\ Len(invs) + n \in DOMAIN (invs \o rows)
                                /\ (invs \o rows)[Len(invs) + n] = rows[n]
  OBVIOUS
<1> DEFINE all == invs \o rows
<1>2. /\ \A i \in DOMAIN invs : i \in DOMAIN all /\ all[i] = invs[i]
      /\ \A n \in DOMAIN rows : Len(invs) + n \in DOMAIN all /\ all[Len(invs) + n] = rows[n]
      /\ CarriersOf(all, key) = {}
  BY <1>1
<1> HIDE DEF all
<1> QED BY <1>2 DEF CarriersOf

\* No two rows share a key when the rows added carry keys of their own.
LEMMA KeyedJoined ==
    ASSUME NEW invs \in Seq(InvoiceRows), NEW rows \in Seq(InvoiceRows),
           KeyedOnce(invs), KeyedOnce(rows),
           \A n \in DOMAIN rows : CarriersOf(invs, rows[n].dedupKey) = {}
    PROVE  KeyedOnce(invs \o rows)
<1> DEFINE all == invs \o rows
<1>1. /\ Len(invs) \in Nat /\ Len(rows) \in Nat
      /\ DOMAIN invs = 1..Len(invs) /\ DOMAIN rows = 1..Len(rows)
      /\ DOMAIN all = 1..(Len(invs) + Len(rows))
      /\ \A i \in DOMAIN all :
            \/ i \in DOMAIN invs /\ all[i] = invs[i]
            \/ /\ i \notin DOMAIN invs /\ i - Len(invs) \in DOMAIN rows
               /\ all[i] = rows[i - Len(invs)]
  OBVIOUS
<1> HIDE DEF all
<1>2. SUFFICES ASSUME NEW i \in DOMAIN all, NEW j \in DOMAIN all,
                      all[i].status = "active", all[j].status = "active",
                      all[i].dedupKey = all[j].dedupKey, all[i].dedupKey # NoNumber
               PROVE  i = j
  BY DEF KeyedOnce, all
<1>3. \A k \in DOMAIN all : k \notin DOMAIN invs =>
          \A m \in DOMAIN invs :
             ~(/\ invs[m].status = "active" /\ invs[m].dedupKey = all[k].dedupKey
               /\ all[k].dedupKey # NoNumber)
  BY <1>1 DEF CarriersOf
<1>4. CASE i \in DOMAIN invs /\ j \in DOMAIN invs
  BY <1>1, <1>2, <1>4 DEF KeyedOnce
<1>5. CASE i \notin DOMAIN invs /\ j \notin DOMAIN invs
  <2>1. i - Len(invs) = j - Len(invs)
    BY <1>1, <1>2, <1>5 DEF KeyedOnce
  <2> QED BY <1>1, <2>1
<1>6. CASE i \in DOMAIN invs /\ j \notin DOMAIN invs
  BY <1>1, <1>2, <1>3, <1>6
<1>7. CASE i \notin DOMAIN invs /\ j \in DOMAIN invs
  BY <1>1, <1>2, <1>3, <1>7
<1> QED BY <1>4, <1>5, <1>6, <1>7

\* One row with a key of its own can be added.
LEMMA KeyedAppended ==
    ASSUME NEW rows \in Seq(InvoiceRows), NEW row \in InvoiceRows, KeyedOnce(rows),
           CarriersOf(rows, row.dedupKey) = {}
    PROVE  KeyedOnce(Append(rows, row))
<1> DEFINE one == <<row>>
<1>1. one \in Seq(InvoiceRows) /\ Append(rows, row) = rows \o one
  OBVIOUS
<1>2. DOMAIN one = {1} /\ one[1] = row
  OBVIOUS
<1> HIDE DEF one
<1>3. KeyedOnce(one)
  BY <1>2 DEF KeyedOnce
<1>4. \A n \in DOMAIN one : CarriersOf(rows, one[n].dedupKey) = {}
  BY <1>2
<1> QED BY <1>1, <1>3, <1>4, KeyedJoined

\* Rows that keep their numbers leave the series as they are.
LEMMA SerialsKept ==
    ASSUME NEW invs \in Seq(InvoiceRows), NEW later \in Seq(InvoiceRows),
           DOMAIN later = DOMAIN invs,
           \A i \in DOMAIN invs : later[i].serial = invs[i].serial
    PROVE  /\ \A prefix, day : InSeries(later, prefix, day) = InSeries(invs, prefix, day)
           /\ Gapless(invs) => Gapless(later)
<1>1. \A prefix, day : InSeries(later, prefix, day) = InSeries(invs, prefix, day)
  BY DEF InSeries
<1>2. ASSUME Gapless(invs), NEW prefix \in SerialPrefixes, NEW day \in Days
      PROVE  {later[i].serial.seq : i \in InSeries(later, prefix, day)}
                = 1..Cardinality(InSeries(later, prefix, day))
  <2>1. InSeries(invs, prefix, day) \subseteq DOMAIN invs
    BY DEF InSeries
  <2>2. {later[i].serial.seq : i \in InSeries(invs, prefix, day)}
          = {invs[i].serial.seq : i \in InSeries(invs, prefix, day)}
    BY <2>1
  <2> QED BY <1>1, <1>2, <2>2 DEF Gapless
<1> QED BY <1>1, <1>2 DEF Gapless

\* More rows, longer series.
LEMMA SeriesLonger ==
    ASSUME NEW invs \in Seq(InvoiceRows), NEW rows \in Seq(InvoiceRows), NEW prefix, NEW day
    PROVE  Cardinality(InSeries(invs, prefix, day)) <= Cardinality(InSeries(invs \o rows, prefix, day))
<1>1. Len(rows) \in Nat /\ Len(rows) \in 0..Len(rows)
  OBVIOUS
<1>2. WithFirst(invs, rows, Len(rows)) = invs \o rows
  BY AppendedOneByOne DEF OneByOne
<1>3. Cardinality(InSeries(WithFirst(invs, rows, Len(rows)), prefix, day))
        = Cardinality(InSeries(invs, prefix, day))
            + Cardinality(SeriesIn(rows, Len(rows), prefix, day))
  BY <1>1, SeriesCount
<1>4. /\ Cardinality(SeriesIn(rows, Len(rows), prefix, day)) \in Nat
      /\ Cardinality(InSeries(invs, prefix, day)) \in Nat
  BY <1>1, SeriesInFinite, SeriesFinite
<1> QED BY <1>2, <1>3, <1>4

\* What the batches have drawn stays drawn while the series grow.
LEMMA NumberingLater ==
    ASSUME Courses, Courses', Numbering, NEW r \in Attempts, Others(r),
           Gapless(invoices'), KeyedOnce(invoices'),
           \A prefix \in SerialPrefixes, day \in Days :
              Cardinality(InSeries(invoices, prefix, day))
                <= Cardinality(InSeries(invoices', prefix, day)),
           attempt'[r] # Unsent /\ attempt'[r].pc \in {"items", "commit"} =>
              Drawn(invoices', attempt'[r].rows) /\ KeyedOnce(attempt'[r].rows)
    PROVE  Numbering'
<1>1. ASSUME NEW s \in Attempts \ {r}, attempt'[s] # Unsent,
             attempt'[s].pc \in {"items", "commit"}
      PROVE  Drawn(invoices', attempt'[s].rows) /\ KeyedOnce(attempt'[s].rows)
  <2>1. attempt'[s] = attempt[s]
    BY DEF Others
  <2>2. Drawn(invoices, attempt[s].rows) /\ KeyedOnce(attempt[s].rows)
    BY <1>1, <2>1 DEF Numbering
  <2>3. attempt[s].rows \in Seq(InvoiceRows)
    BY <1>1, <2>1, Served1 DEF Served
  <2>4. invoices \in Seq(InvoiceRows) /\ invoices' \in Seq(InvoiceRows)
    BY DEF Courses, TypeOK, OutflowTypeOK
  <2>5. Drawn(invoices', attempt[s].rows)
    BY <2>2, <2>3, <2>4, DrawnLater
  <2> QED BY <2>1, <2>2, <2>5
<1>2. Gapless(invoices)' /\ KeyedOnce(invoices)'
  BY DEF Gapless, KeyedOnce, InSeries
<1>3. \A s \in Attempts :
          attempt'[s] # Unsent /\ attempt'[s].pc \in {"items", "commit"} =>
             Drawn(invoices', attempt'[s].rows) /\ KeyedOnce(attempt'[s].rows)
  BY <1>1
<1> QED BY <1>3 DEF Numbering

\* Nothing is drawn in a step that writes no row.
LEMMA QuietKeepsNumbering ==
    ASSUME Courses, Courses', Numbering, NEW r \in Attempts, Others(r), Quiet(r)
    PROVE  Numbering'
<1>1. invoices' = invoices /\ invoices \in Seq(InvoiceRows)
  BY DEF Quiet, Courses, TypeOK, OutflowTypeOK
<1>2. Gapless(invoices) /\ KeyedOnce(invoices)
  BY DEF Numbering
<1>3. \A prefix, day : Cardinality(InSeries(invoices, prefix, day)) \in Nat
  BY <1>1, SeriesFinite
<1>4. \A prefix \in SerialPrefixes, day \in Days :
          Cardinality(InSeries(invoices, prefix, day)) <= Cardinality(InSeries(invoices', prefix, day))
  BY <1>1, <1>3
<1>5. ASSUME attempt'[r].pc \in {"items", "commit"}
      PROVE  Drawn(invoices', attempt'[r].rows) /\ KeyedOnce(attempt'[r].rows)
  <2>1. attempt'[r].rows = <<>>
    BY <1>5 DEF Quiet
  <2>2. DOMAIN attempt'[r].rows = {}
    BY <2>1
  <2> QED BY <2>2 DEF Drawn, KeyedOnce
<1> QED BY <1>1, <1>2, <1>4, <1>5, NumberingLater

\* The row of an item draws the next number.
LEMMA ItemKeepsNumbering ==
    ASSUME Courses, Courses', Numbering, NEW r \in Attempts, Others(r), ItemDone(r)
    PROVE  Numbering'
<1> DEFINE rows == attempt[r].rows
           row == NextRow(r)
<1>1. /\ invoices' = invoices /\ invoices \in Seq(InvoiceRows)
      /\ attempt[r].pc = "items" /\ attempt[r].pc # "idle" /\ Acceptable(r)
  BY DEF ItemDone, Courses, TypeOK, OutflowTypeOK
<1>2. Gapless(invoices) /\ KeyedOnce(invoices)
  BY DEF Numbering
<1>3. \A prefix, day : Cardinality(InSeries(invoices, prefix, day)) \in Nat
  BY <1>1, SeriesFinite
<1>4. \A prefix \in SerialPrefixes, day \in Days :
          Cardinality(InSeries(invoices, prefix, day)) <= Cardinality(InSeries(invoices', prefix, day))
  BY <1>1, <1>3
<1>5. attempt[r] \in Served /\ attempt[r] # Unsent
  BY <1>1, Served1
<1>6. rows \in Seq(InvoiceRows)
  BY <1>5 DEF Served
<1>7. Drawn(invoices, rows) /\ KeyedOnce(rows)
  BY <1>1, <1>5 DEF Numbering
<1>8. /\ row \in InvoiceRows /\ row.dedupKey = row.number /\ row.number = NextItem(r).number
      /\ row.serial.seq = Cardinality(SeriesOf(invoices \o rows, row)) + 1
  BY <1>1, RowPrepared
<1>9. CarriersOf(invoices \o rows, row.dedupKey) = {}
  BY <1>1, <1>8 DEF Acceptable
<1>10. attempt'[r].rows = Append(rows, row)
  BY <1>5 DEF ItemDone, Served
<1> HIDE DEF row, rows
<1>11. CarriersOf(rows, row.dedupKey) = {}
  BY <1>1, <1>6, <1>9, CarriersJoined
<1>12. Drawn(invoices', attempt'[r].rows) /\ KeyedOnce(attempt'[r].rows)
  <2>1. Drawn(invoices, Append(rows, row))
    BY <1>1, <1>6, <1>7, <1>8, DrawsNext
  <2>2. KeyedOnce(Append(rows, row))
    BY <1>6, <1>7, <1>8, <1>11, KeyedAppended
  <2> QED BY <1>1, <1>10, <2>1, <2>2
<1> QED BY <1>1, <1>2, <1>4, <1>12, NumberingLater

\* A batch that commits goes on to store its result, or is done.
LEMMA BatchEnds ==
    ASSUME Courses, NEW r \in Attempts, CommitBatch(r)
    PROVE  attempt'[r].pc \in {"store", "done"}
<1>1. /\ attempt[r].pc # "idle" /\ Inserted(r) \in Answers
      /\ \/ attempt' = [attempt EXCEPT ![r].pc = "store", ![r].reply = Inserted(r)]
         \/ Done(r, Inserted(r))
  BY Commits
<1>2. attempt[r] \in Served /\ attempt \in [Attempts -> Served \cup {Unsent}]
  BY <1>1, Served1 DEF Courses, TypeOK
<1>3. CASE attempt' = [attempt EXCEPT ![r].pc = "store", ![r].reply = Inserted(r)]
  <2>1. attempt'[r] = [attempt[r] EXCEPT !.pc = "store", !.reply = Inserted(r)]
    BY <1>2, <1>3
  <2>2. attempt'[r].pc = "store"
    BY <1>2, <2>1 DEF Served
  <2> QED BY <2>2
<1>4. CASE Done(r, Inserted(r))
  BY <1>1, <1>4, DoneAnswers
<1> QED BY <1>1, <1>3, <1>4

\* The unique indexes let a batch in only with the next numbers.
LEMMA BatchKeepsNumbering ==
    ASSUME Courses, Courses', Numbering, NEW r \in Attempts, Others(r), CommitBatch(r)
    PROVE  Numbering'
<1> DEFINE rows == attempt[r].rows
<1>1. /\ attempt[r].pc = "commit" /\ attempt[r].pc # "idle" /\ ~Collides(rows)
      /\ invoices' = invoices \o rows
  BY Commits
<1>2. attempt[r] \in Served /\ attempt[r] # Unsent /\ invoices \in Seq(InvoiceRows)
  BY <1>1, Served1, RowTypes
<1>3. rows \in Seq(InvoiceRows)
  BY <1>2 DEF Served
<1>4. Drawn(invoices, rows) /\ KeyedOnce(rows) /\ Gapless(invoices) /\ KeyedOnce(invoices)
  BY <1>1, <1>2 DEF Numbering
<1>5. attempt'[r].pc \notin {"items", "commit"}
  BY BatchEnds
<1> HIDE DEF rows
<1>6. /\ \A n \in DOMAIN rows, i \in DOMAIN invoices : invoices[i].serial # rows[n].serial
      /\ \A n \in DOMAIN rows : CarriersOf(invoices, rows[n].dedupKey) = {}
  BY <1>1 DEF Collides
<1>7. Gapless(invoices \o rows)
  BY <1>2, <1>3, <1>4, <1>6, BatchGapless
<1>8. KeyedOnce(invoices \o rows)
  BY <1>2, <1>3, <1>4, <1>6, KeyedJoined
<1>9. \A prefix \in SerialPrefixes, day \in Days :
          Cardinality(InSeries(invoices, prefix, day)) <= Cardinality(InSeries(invoices', prefix, day))
  BY <1>1, <1>2, <1>3, SeriesLonger
<1> QED BY <1>1, <1>5, <1>7, <1>8, <1>9, NumberingLater

\* A row rewritten in place keeps its number; its key is nobody else's.
LEMMA RewriteKeepsNumbering ==
    ASSUME Courses, Courses', Numbering, NEW r \in Attempts, Others(r),
           DOMAIN invoices' = DOMAIN invoices,
           \A i \in DOMAIN invoices : invoices'[i].serial = invoices[i].serial,
           KeyedOnce(invoices'), attempt'[r].pc \notin {"items", "commit"}
    PROVE  Numbering'
<1>1. invoices \in Seq(InvoiceRows) /\ invoices' \in Seq(InvoiceRows)
  BY DEF Courses, TypeOK, OutflowTypeOK
<1>2. /\ \A prefix, day : InSeries(invoices', prefix, day) = InSeries(invoices, prefix, day)
      /\ Gapless(invoices')
  BY <1>1, SerialsKept DEF Numbering
<1>3. \A prefix, day : Cardinality(InSeries(invoices, prefix, day)) \in Nat
  BY <1>1, SeriesFinite
<1>4. \A prefix \in SerialPrefixes, day \in Days :
          Cardinality(InSeries(invoices, prefix, day)) <= Cardinality(InSeries(invoices', prefix, day))
  BY <1>2, <1>3
<1> QED BY <1>2, <1>4, NumberingLater

\* An edit keeps the number, and its key is free.
LEMMA EditKeepsNumbering ==
    ASSUME Courses, Courses', Numbering, NEW r \in Attempts, Others(r), EditReady(r), EditDone(r),
           attempt'[r].pc = "done"
    PROVE  Numbering'
<1> DEFINE t == Target(r)
           row == EditedRow(OldRow(r), NewRow(r), Sent(r))
<1>1. /\ t \in DOMAIN invoices /\ invoices' = [invoices EXCEPT ![t] = row]
      /\ row.serial = invoices[t].serial /\ row.status = NewRow(r).status
      /\ row.dedupKey = NewRow(r).dedupKey
      /\ NewRow(r).status = "active" => CarriersOf(invoices, NewRow(r).dedupKey) \subseteq {t}
  BY DEF EditReady, EditDone, EditedAs, Editable
<1> HIDE DEF t, row
<1>2. invoices \in Seq(InvoiceRows)
  BY DEF Courses, TypeOK, OutflowTypeOK
<1>3. /\ DOMAIN invoices' = DOMAIN invoices /\ invoices'[t] = row
      /\ \A i \in DOMAIN invoices : i # t => invoices'[i] = invoices[i]
  BY <1>1, <1>2
<1>4. \A i \in DOMAIN invoices : invoices'[i].serial = invoices[i].serial
  BY <1>1, <1>3
<1>5. row.status = "active" =>
         \A i \in DOMAIN invoices : i # t =>
            ~(/\ invoices[i].status = "active" /\ invoices[i].dedupKey = row.dedupKey
              /\ row.dedupKey # NoNumber)
  BY <1>1 DEF CarriersOf
<1>6. KeyedOnce(invoices')
  BY <1>3, <1>5 DEF Numbering, KeyedOnce
<1> QED BY <1>3, <1>4, <1>6, RewriteKeepsNumbering

\* A cancellation keeps the number and gives up the key.
LEMMA CancelKeepsNumbering ==
    ASSUME Courses, Courses', Numbering, NEW r \in Attempts, Others(r), CancelDone(r),
           attempt'[r].pc = "done"
    PROVE  Numbering'
<1>1. /\ DOMAIN invoices' = DOMAIN invoices
      /\ \A i \in DOMAIN invoices : invoices'[i].serial = invoices[i].serial
      /\ \A i \in DOMAIN invoices : i # Target(r) => invoices'[i] = invoices[i]
      /\ invoices'[Target(r)].status = "cancelled"
  BY DEF CancelDone
<1>2. KeyedOnce(invoices')
  BY <1>1 DEF Numbering, KeyedOnce
<1> QED BY <1>1, <1>2, RewriteKeepsNumbering

\* Every step keeps the numbers.
LEMMA StepKeepsNumbering ==
    ASSUME Courses, Courses', Numbering, Next
    PROVE  Numbering'
<1>1. PICK r \in Attempts : Shape(r)
  BY StepShape
<1>2. Others(r)
  BY <1>1 DEF Shape
<1>3. CASE Quiet(r)
  BY <1>2, <1>3, QuietKeepsNumbering
<1>4. CASE ItemDone(r)
  BY <1>2, <1>4, ItemKeepsNumbering
<1>5. CASE DebtsDone(r)
  <2>1. invoices' = invoices /\ attempt'[r].pc = "done"
    BY <1>5 DEF DebtsDone
  <2>2. KeyedOnce(invoices')
    BY <2>1 DEF Numbering
  <2> QED BY <1>2, <2>1, <2>2, RewriteKeepsNumbering
<1>6. CASE CommitBatch(r)
  BY <1>2, <1>6, BatchKeepsNumbering
<1>7. CASE EditReady(r) /\ EditDone(r) /\ attempt'[r].pc = "done"
  BY <1>2, <1>7, EditKeepsNumbering
<1>8. CASE CancelDone(r) /\ attempt'[r].pc = "done"
  BY <1>2, <1>8, CancelKeepsNumbering
<1> QED BY <1>1, <1>3, <1>4, <1>5, <1>6, <1>7, <1>8 DEF Shape

\* The invoices posted before are numbered.
LEMMA InitNumbering == ASSUME Init PROVE Numbering
<1>1. invoices = OldRows /\ Gapless(OldRows) /\ NumberedOnce(OldRows)
  BY DebtConstants DEF Init
<1>2. \A i \in DOMAIN OldRows : OldRows[i].dedupKey = OldRows[i].number
  BY OldRowsStand
<1>3. KeyedOnce(OldRows)
  BY <1>1, <1>2 DEF KeyedOnce, NumberedOnce
<1>4. \A r \in Attempts : attempt[r] = Unsent
  BY DEF Init
<1> QED BY <1>1, <1>3, <1>4 DEF Numbering

\* A step that changes nothing keeps the numbers.
LEMMA NumberingStutter ==
    ASSUME Numbering, UNCHANGED vars
    PROVE  Numbering'
<1>1. invoices' = invoices /\ attempt' = attempt
  BY DEF vars, tables
<1> QED BY <1>1 DEF Numbering

\* The table is numbered, and batches have drawn what they could, at all times.
LEMMA NumberingInvariant == Spec => []Numbering
<1>1. Init => Numbering
  BY InitNumbering
<1>2. Courses /\ Courses' /\ Numbering /\ [Next]_vars => Numbering'
  BY StepKeepsNumbering, NumberingStutter
<1> QED BY <1>1, <1>2, CoursesInvariant, PTL DEF Spec

\* The serial numbers of a prefix and day are 1, 2, 3 ... in the table, for
\* whichever kinds and batches they were drawn at a time: each batch counts before it commits, and the
\* unique index on the number refuses the ones that counted too few
\* (generateInvoiceSerial).
THEOREM NumbersWithoutGap == Spec => []SerialsGapless
<1>1. Numbering => SerialsGapless
  BY DEF Numbering, SerialsGapless
<1> QED BY <1>1, NumberingInvariant, PTL

-----------------------------------------------------------------------------
(* The promotions.                                                         *)

\* The promotion of one debt is in order.
InOrder(owed, d, invs) ==
    LET p == owed[d].promotion IN
    /\ p.invoice # 0 <=> owed[d].status = "promoted"
    /\ p.invoice # 0 =>
          /\ p.invoice \in ToSet(p.batch) /\ ToSet(p.batch) \subseteq DOMAIN invs
          /\ invs[p.invoice].status = "active"

\* The promotions are in order one by one, now and after a step.
LEMMA PromotionInOrder ==
    /\ Promotion <=>
          /\ \A d \in DOMAIN debts : InOrder(debts, d, invoices)
          /\ \A d, e \in DOMAIN debts :
                /\ debts[d].promotion.invoice # 0
                /\ debts[e].promotion.invoice = debts[d].promotion.invoice
                => e = d
    /\ Promotion' <=>
          /\ \A d \in DOMAIN debts' : InOrder(debts', d, invoices')
          /\ \A d, e \in DOMAIN debts' :
                /\ debts'[d].promotion.invoice # 0
                /\ debts'[e].promotion.invoice = debts'[d].promotion.invoice
                => e = d
BY DEF Promotion, InOrder

\* A promotion is in order while its invoices stand.
LEMMA StaysInOrder ==
    ASSUME NEW owed, NEW d, NEW later, NEW e, later[e] = owed[d], NEW invs, NEW after,
           InOrder(owed, d, invs), DOMAIN invs \subseteq DOMAIN after,
           owed[d].promotion.invoice # 0 /\ invs[owed[d].promotion.invoice].status = "active"
             => after[owed[d].promotion.invoice].status = "active"
    PROVE  InOrder(later, e, after)
BY DEF InOrder

\* They stay so while the debts do and active invoices stay active.
LEMMA PromotionStays ==
    ASSUME Promotion, debts' = debts, DOMAIN invoices \subseteq DOMAIN invoices',
           \A i \in DOMAIN invoices :
              invoices[i].status = "active" => invoices'[i].status = "active"
    PROVE  Promotion'
<1>1. \A d \in DOMAIN debts : InOrder(debts', d, invoices')
  <2> SUFFICES ASSUME NEW d \in DOMAIN debts PROVE InOrder(debts', d, invoices')
    OBVIOUS
  <2>1. InOrder(debts, d, invoices)
    BY PromotionInOrder
  <2>2. debts[d].promotion.invoice # 0 => debts[d].promotion.invoice \in DOMAIN invoices
    BY <2>1 DEF InOrder
  <2> QED BY <2>1, <2>2, StaysInOrder
<1> QED BY <1>1, PromotionInOrder

\* Writing debts that are not promoted keeps them.
LEMMA DebtsDoneKeepsPromotion ==
    ASSUME Promotion, NEW r, DebtsDone(r)
    PROVE  Promotion'
<1>1. /\ invoices' = invoices /\ DOMAIN debts \subseteq DOMAIN debts'
      /\ \A d \in DOMAIN debts :
            /\ debts'[d].promotion = debts[d].promotion
            /\ debts'[d].status = "promoted" <=> debts[d].status = "promoted"
      /\ \A d \in DOMAIN debts' \ DOMAIN debts :
            debts'[d].status = "pending" /\ debts'[d].promotion.invoice = 0
  BY DEF DebtsDone, Unpromoted
<1>2. \A d \in DOMAIN debts' : InOrder(debts', d, invoices')
  <2> SUFFICES ASSUME NEW d \in DOMAIN debts' PROVE InOrder(debts', d, invoices')
    OBVIOUS
  <2>1. CASE d \in DOMAIN debts
    <3>1. InOrder(debts, d, invoices)
      BY <2>1, PromotionInOrder
    <3> QED BY <1>1, <2>1, <3>1 DEF InOrder
  <2>2. CASE d \notin DOMAIN debts
    BY <1>1, <2>2 DEF InOrder
  <2> QED BY <2>1, <2>2
<1>3. \A d, e \in DOMAIN debts' :
          /\ debts'[d].promotion.invoice # 0
          /\ debts'[e].promotion.invoice = debts'[d].promotion.invoice
          => e = d
  BY <1>1, PromotionInOrder
<1> QED BY <1>2, <1>3, PromotionInOrder

\* A batch promotes its debts to invoices nobody else has.
LEMMA BatchKeepsPromotion ==
    ASSUME Courses, Promotion, NEW r \in Attempts, CommitBatch(r)
    PROVE  Promotion'
<1> DEFINE q == attempt[r].request
           rows == attempt[r].rows
           ids == Inserted(r)
           L == Len(invoices)
<1>1. /\ attempt[r].pc = "commit" /\ attempt[r].pc # "idle"
      /\ invoices' = invoices \o rows /\ PromotedAs(debts', r)
  BY Commits
<1>2. /\ attempt[r] \in Served /\ Prepared(attempt[r]) /\ invoices \in Seq(InvoiceRows)
      /\ L \in Nat /\ DOMAIN invoices = 1..L
  BY <1>1, Served1, RowTypes
<1>3. rows \in Seq(InvoiceRows)
  BY <1>2 DEF Served
<1>4. \A n \in DOMAIN rows : rows[n].status = "active"
  BY <1>1, <1>2 DEF Prepared
<1>5. /\ Len(rows) \in Nat /\ DOMAIN ids = 1..Len(rows) /\ ids \in Answers
      /\ \A n \in DOMAIN ids : ids[n] = L + n
      /\ DebtsOf(q) \subseteq DOMAIN debts /\ DOMAIN debts' = DOMAIN debts
      /\ \A d \in DOMAIN debts \ DebtsOf(q) : debts'[d] = debts[d]
      /\ \A d \in DebtsOf(q) :
            /\ Line(q, d) \in DOMAIN ids /\ q.items[Line(q, d)].debt = d
            /\ debts'[d].status = "promoted"
            /\ debts'[d].promotion = [invoice |-> ids[Line(q, d)], key |-> q.key, batch |-> ids]
  BY <1>1, <1>3 DEF PromotedAs
<1>6. /\ DOMAIN invoices' = 1..(L + Len(rows))
      /\ \A i \in DOMAIN invoices : i \in DOMAIN invoices' /\ invoices'[i] = invoices[i]
      /\ \A n \in DOMAIN ids : L + n \in DOMAIN invoices' /\ invoices'[L + n] = rows[n]
                                 /\ n \in DOMAIN rows
  BY <1>1, <1>2, <1>3, <1>5
<1> HIDE DEF ids, rows, L
<1>7. \A d \in DebtsOf(q) :
          /\ debts'[d].promotion.invoice = L + Line(q, d) /\ Line(q, d) \in 1..Len(rows)
          /\ debts'[d].promotion.batch = ids
  <2> SUFFICES ASSUME NEW d \in DebtsOf(q)
               PROVE  /\ debts'[d].promotion.invoice = L + Line(q, d)
                      /\ Line(q, d) \in 1..Len(rows) /\ debts'[d].promotion.batch = ids
    OBVIOUS
  <2>1. debts'[d].promotion = [invoice |-> ids[Line(q, d)], key |-> q.key, batch |-> ids]
    BY <1>5
  <2>2. Line(q, d) \in DOMAIN ids /\ ids[Line(q, d)] = L + Line(q, d)
    BY <1>5
  <2>3. Line(q, d) \in 1..Len(rows)
    BY <1>5, <2>2
  <2> QED BY <2>1, <2>2, <2>3
<1>8. ToSet(ids) = {L + n : n \in DOMAIN ids}
  BY <1>5 DEF ToSet
<1>9. \A d \in DOMAIN debts' : InOrder(debts', d, invoices')
  <2> SUFFICES ASSUME NEW d \in DOMAIN debts' PROVE InOrder(debts', d, invoices')
    OBVIOUS
  <2>1. CASE d \in DebtsOf(q)
    <3> DEFINE p == debts'[d].promotion
    <3>1. p.invoice = L + Line(q, d) /\ Line(q, d) \in DOMAIN ids /\ p.batch = ids
      BY <1>5, <1>7, <2>1
    <3>2. p.invoice # 0
      BY <1>2, <1>7, <2>1
    <3>3. p.invoice \in ToSet(p.batch) /\ ToSet(p.batch) \subseteq DOMAIN invoices'
      BY <1>6, <1>8, <3>1
    <3>4. invoices'[p.invoice].status = "active"
      BY <1>4, <1>6, <3>1
    <3>5. debts'[d].status = "promoted"
      BY <1>5, <2>1
    <3> QED BY <3>2, <3>3, <3>4, <3>5 DEF InOrder
  <2>2. CASE d \notin DebtsOf(q)
    <3>1. d \in DOMAIN debts /\ debts'[d] = debts[d] /\ InOrder(debts, d, invoices)
      BY <1>5, <2>2, PromotionInOrder
    <3>2. debts[d].promotion.invoice # 0 => debts[d].promotion.invoice \in DOMAIN invoices
      BY <3>1 DEF InOrder
    <3>3. DOMAIN invoices \subseteq DOMAIN invoices'
      BY <1>6
    <3> QED BY <1>6, <3>1, <3>2, <3>3, StaysInOrder
  <2> QED BY <2>1, <2>2
<1>10. \A d \in DOMAIN debts' \ DebtsOf(q) :
          debts'[d].promotion.invoice # 0 => debts'[d].promotion.invoice \in 1..L
  <2> SUFFICES ASSUME NEW d \in DOMAIN debts' \ DebtsOf(q)
               PROVE  debts'[d].promotion.invoice # 0 => debts'[d].promotion.invoice \in 1..L
    OBVIOUS
  <2>1. d \in DOMAIN debts /\ debts'[d] = debts[d] /\ InOrder(debts, d, invoices)
    BY <1>5, PromotionInOrder
  <2> QED BY <1>2, <2>1 DEF InOrder
<1>11. \A d \in DebtsOf(q) : debts'[d].promotion.invoice \notin 1..L
                               /\ debts'[d].promotion.invoice # 0
  BY <1>2, <1>7
<1>12. ASSUME NEW d \in DOMAIN debts', NEW e \in DOMAIN debts',
              debts'[d].promotion.invoice # 0,
              debts'[e].promotion.invoice = debts'[d].promotion.invoice
       PROVE  e = d
  <2>1. CASE d \in DebtsOf(q) /\ e \in DebtsOf(q)
    <3>1. L + Line(q, d) = L + Line(q, e)
      BY <1>7, <1>12, <2>1
    <3>2. Line(q, d) = Line(q, e)
      BY <1>2, <1>7, <2>1, <3>1
    <3> QED BY <1>5, <2>1, <3>2
  <2>2. CASE d \notin DebtsOf(q) /\ e \notin DebtsOf(q)
    <3>1. /\ d \in DOMAIN debts /\ e \in DOMAIN debts
          /\ debts'[d] = debts[d] /\ debts'[e] = debts[e]
      BY <1>5, <2>2
    <3> QED BY <1>12, <3>1, PromotionInOrder
  <2>3. CASE d \in DebtsOf(q) <=> e \notin DebtsOf(q)
    BY <1>10, <1>11, <1>12, <2>3
  <2> QED BY <2>1, <2>2, <2>3
<1> QED BY <1>9, <1>12, PromotionInOrder

\* An edit never cancels an invoice.
LEMMA EditKeepsPromotion ==
    ASSUME Courses, Promotion, NEW r \in Attempts, EditReady(r), EditDone(r), debts' = debts
    PROVE  Promotion'
<1> DEFINE t == Target(r)
           row == EditedRow(OldRow(r), NewRow(r), Sent(r))
<1>1. /\ t \in DOMAIN invoices /\ invoices' = [invoices EXCEPT ![t] = row]
      /\ row.status = Merged(invoices[t], Sent(r), "status") /\ EditFits(Sent(r))
  BY DEF EditReady, EditDone, EditedAs
<1>2. invoices[t].status = "active" => row.status = "active"
  BY <1>1 DEF Merged, EditFits
<1> HIDE DEF t, row
<1>3. invoices \in Seq(InvoiceRows)
  BY RowTypes
<1>4. /\ DOMAIN invoices' = DOMAIN invoices /\ invoices'[t] = row
      /\ \A i \in DOMAIN invoices : i # t => invoices'[i] = invoices[i]
  BY <1>1, <1>3
<1>5. \A i \in DOMAIN invoices :
          invoices[i].status = "active" => invoices'[i].status = "active"
  BY <1>2, <1>4
<1> QED BY <1>4, <1>5, PromotionStays

\* A cancellation gives the debt of its invoice back.
LEMMA CancelKeepsPromotion ==
    ASSUME Courses, Promotion, NEW r \in Attempts, CancelDone(r)
    PROVE  Promotion'
<1> DEFINE t == Target(r)
           gone(d) == debts[d].status = "promoted" /\ debts[d].promotion.invoice = t
<1>1. /\ DOMAIN invoices' = DOMAIN invoices /\ DOMAIN debts' = DOMAIN debts
      /\ \A i \in DOMAIN invoices : i # t => invoices'[i] = invoices[i]
      /\ \A d \in DOMAIN debts :
            /\ gone(d) => debts'[d].status = "pending" /\ debts'[d].promotion = Unpromoted
            /\ ~gone(d) => debts'[d] = debts[d]
  BY DEF CancelDone
<1>2. \A d \in DOMAIN debts' : InOrder(debts', d, invoices')
  <2> SUFFICES ASSUME NEW d \in DOMAIN debts' PROVE InOrder(debts', d, invoices')
    OBVIOUS
  <2>1. InOrder(debts, d, invoices)
    BY <1>1, PromotionInOrder
  <2>2. CASE gone(d)
    BY <1>1, <2>2 DEF InOrder, Unpromoted
  <2>3. CASE ~gone(d)
    <3>1. debts'[d] = debts[d]
      BY <1>1, <2>3
    <3>2. debts[d].promotion.invoice # 0 =>
             debts[d].promotion.invoice # t /\ debts[d].promotion.invoice \in DOMAIN invoices
      BY <2>1, <2>3 DEF InOrder
    <3> QED BY <1>1, <2>1, <3>1, <3>2, StaysInOrder
  <2> QED BY <2>2, <2>3
<1>3. \A d \in DOMAIN debts :
          debts'[d].promotion.invoice # 0 => debts'[d] = debts[d]
  BY <1>1 DEF Unpromoted
<1>4. ASSUME NEW d \in DOMAIN debts', NEW e \in DOMAIN debts',
             debts'[d].promotion.invoice # 0,
             debts'[e].promotion.invoice = debts'[d].promotion.invoice
      PROVE  e = d
  <2>1. /\ d \in DOMAIN debts /\ e \in DOMAIN debts
        /\ debts'[d] = debts[d] /\ debts'[e] = debts[e]
    BY <1>1, <1>3, <1>4
  <2> QED BY <1>4, <2>1, PromotionInOrder
<1> QED BY <1>2, <1>4, PromotionInOrder

\* Every step keeps the promotions.
LEMMA StepKeepsPromotion ==
    ASSUME Courses, Promotion, Next
    PROVE  Promotion'
<1>1. PICK r \in Attempts : Shape(r)
  BY StepShape
<1>2. CASE Quiet(r)
  <2>1. debts' = debts /\ invoices' = invoices
    BY <1>2 DEF Quiet
  <2> QED BY <2>1, PromotionStays
<1>3. CASE ItemDone(r)
  <2>1. debts' = debts /\ invoices' = invoices
    BY <1>3 DEF ItemDone
  <2> QED BY <2>1, PromotionStays
<1>4. CASE DebtsDone(r)
  BY <1>4, DebtsDoneKeepsPromotion
<1>5. CASE CommitBatch(r)
  BY <1>5, BatchKeepsPromotion
<1>6. CASE EditReady(r) /\ EditDone(r) /\ debts' = debts
  BY <1>6, EditKeepsPromotion
<1>7. CASE CancelDone(r)
  BY <1>7, CancelKeepsPromotion
<1> QED BY <1>1, <1>2, <1>3, <1>4, <1>5, <1>6, <1>7 DEF Shape

\* At first no debt is promoted.
LEMMA InitPromotion == ASSUME Init PROVE Promotion
<1>1. debts = [d \in DOMAIN OldDebts |-> NewDebt(OldDebts[d])]
  BY DEF Init
<1>2. \A d \in DOMAIN debts : debts[d].status = "pending" /\ debts[d].promotion.invoice = 0
  BY <1>1 DEF NewDebt, Unpromoted
<1> QED BY <1>2 DEF Promotion

\* A step that changes nothing keeps the promotions.
LEMMA PromotionStutter == ASSUME Promotion, UNCHANGED vars PROVE Promotion'
<1>1. invoices' = invoices /\ debts' = debts
  BY DEF vars, tables
<1> QED BY <1>1, PromotionStays

\* Promoted debts have invoices that stand, at all times.
LEMMA PromotionInvariant == Spec => []Promotion
<1>1. Init => Promotion
  BY InitPromotion
<1>2. Courses /\ Promotion /\ [Next]_vars => Promotion'
  BY StepKeepsPromotion, PromotionStutter
<1> QED BY <1>1, <1>2, CoursesInvariant, PTL DEF Spec

\* A debt is promoted exactly while it has an invoice, the invoice stands, and
\* no other debt has it: two requests that promote, cancel, amend or withdraw
\* at a time cannot make it otherwise (completePurchaseDebtPromotion,
\* cancelOperation).
THEOREM PromotedHaveInvoices == Spec => []PromotedHasInvoice
<1>1. Promotion => PromotedHasInvoice
  BY DEF Promotion, PromotedHasInvoice
<1> QED BY <1>1, PromotionInvariant, PTL

\* What one debt may become: the property of the action, for one debt.
DebtMoves(d) ==
    debts[d].status = "promoted" =>
       \/ debts'[d] = debts[d]
       \/ /\ debts'[d].status = "pending"
          /\ invoices'[debts[d].promotion.invoice].status = "cancelled"

\* Every step moves every debt that way.
LEMMA StepMovesDebts ==
    ASSUME Courses, Next, NEW d \in DOMAIN debts
    PROVE  DebtMoves(d)
<1>1. PICK r \in Attempts : Shape(r)
  BY StepShape
<1>2. CASE debts' = debts
  BY <1>2 DEF DebtMoves
<1>3. CASE DebtsDone(r)
  BY <1>3 DEF DebtsDone, DebtMoves
<1>4. CASE CommitBatch(r)
  <2>1. PromotedAs(debts', r) /\ attempt[r].pc # "idle"
    BY <1>4, Commits
  <2>2. /\ DebtsOf(attempt[r].request) = Held(r)
        /\ \A e \in DOMAIN debts \ DebtsOf(attempt[r].request) : debts'[e] = debts[e]
    BY <2>1 DEF PromotedAs
  <2>3. d \in Held(r) => debts[d].status = "pending"
    BY HeldPending
  <2> QED BY <2>2, <2>3 DEF DebtMoves
<1>5. CASE CancelDone(r)
  <2>1. /\ invoices'[Target(r)].status = "cancelled"
        /\ debts[d].status = "promoted" /\ debts[d].promotion.invoice = Target(r)
              => debts'[d].status = "pending"
        /\ ~(debts[d].status = "promoted" /\ debts[d].promotion.invoice = Target(r))
              => debts'[d] = debts[d]
    BY <1>5 DEF CancelDone
  <2> QED BY <2>1 DEF DebtMoves
<1>6. Quiet(r) \/ ItemDone(r) => debts' = debts
  BY DEF Quiet, ItemDone
<1> QED BY <1>1, <1>2, <1>3, <1>4, <1>5, <1>6 DEF Shape

\* While a debt is promoted nothing of it changes, and it leaves that status by
\* the cancellation of its invoice only (the conditional updates of
\* purchase-debts.service.ts).
THEOREM PromotionStandsAlone == Spec => PromotionIsFinal
<1>1. Courses /\ [Next]_vars => [\A d \in DOMAIN debts : DebtMoves(d)]_vars
  BY StepMovesDebts
<1>2. Spec => [][\A d \in DOMAIN debts : DebtMoves(d)]_vars
  BY <1>1, CoursesInvariant, PTL DEF Spec
<1> QED BY <1>2 DEF PromotionIsFinal, DebtMoves

-----------------------------------------------------------------------------
(* The answers.                                                            *)

HasAnswer(q, reply, owed, invs, back) ==
    /\ ToSet(reply) \subseteq DOMAIN invs
    /\ \/ \A d \in DebtsOf(q) :
             /\ d \in DOMAIN owed /\ owed[d].status = "promoted"
             /\ owed[d].promotion.key = q.key /\ owed[d].promotion.batch = reply
       \/ \E i \in ToSet(reply) : invs[i].status = "cancelled" \/ i \in back

\* A batch of debts that has been answered.
Answers1(a) == a # Unsent /\ a.pc = "done" /\ a.request.op = "batch" /\ DebtsOf(a.request) # {}

\* The answers are in order one by one, now and after a step.
LEMMA AnsweredAll ==
    /\ Answered <=> \A r \in Attempts : Answers1(attempt[r]) =>
          HasAnswer(attempt[r].request, attempt[r].reply, debts, invoices, revived)
    /\ Answered' <=> \A r \in Attempts : Answers1(attempt'[r]) =>
          HasAnswer(attempt'[r].request, attempt'[r].reply, debts', invoices', revived')
BY DEF Answered, AnswerStands, HasAnswer, Answers1, Doing, At

\* No row of the two tables is ever removed.
LEMMA TablesGrow ==
    ASSUME Courses, Next
    PROVE  DOMAIN invoices \subseteq DOMAIN invoices' /\ DOMAIN debts \subseteq DOMAIN debts'
<1>1. PICK r \in Attempts : Shape(r)
  BY StepShape
<1>2. invoices \in Seq(InvoiceRows)
  BY RowTypes
<1>3. CASE Quiet(r)
  BY <1>3 DEF Quiet
<1>4. CASE ItemDone(r)
  BY <1>4 DEF ItemDone
<1>5. CASE DebtsDone(r)
  BY <1>5 DEF DebtsDone
<1>6. CASE CommitBatch(r)
  <2>1. /\ attempt[r].pc # "idle" /\ invoices' = invoices \o attempt[r].rows
        /\ PromotedAs(debts', r)
    BY <1>6, Commits
  <2>2. attempt[r].rows \in Seq(InvoiceRows)
    BY <2>1, Served1 DEF Served
  <2>3. DOMAIN invoices \subseteq DOMAIN invoices'
    BY <1>2, <2>1, <2>2
  <2>4. DOMAIN debts' = DOMAIN debts
    BY <2>1 DEF PromotedAs
  <2> QED BY <2>3, <2>4
<1>7. CASE EditDone(r) /\ debts' = debts
  <2>1. DOMAIN invoices' = DOMAIN invoices
    BY <1>7 DEF EditDone
  <2> QED BY <1>7, <2>1
<1>8. CASE CancelDone(r)
  BY <1>8 DEF CancelDone
<1> QED BY <1>1, <1>3, <1>4, <1>5, <1>6, <1>7, <1>8 DEF Shape

\* An answer holds on: a debt of it that is not promoted any more has lost an
\* invoice of the batch, and an invoice that stands again has been revived.
LEMMA AnswerKept ==
    ASSUME Courses, Courses', Promotion, Next, NEW q, NEW reply,
           HasAnswer(q, reply, debts, invoices, revived)
    PROVE  HasAnswer(q, reply, debts', invoices', revived')
<1>1. DOMAIN invoices \subseteq DOMAIN invoices' /\ DOMAIN debts \subseteq DOMAIN debts'
  BY TablesGrow
<1>2. ToSet(reply) \subseteq DOMAIN invoices /\ ToSet(reply) \subseteq DOMAIN invoices'
  BY <1>1 DEF HasAnswer
<1>3. CASE \E i \in ToSet(reply) : invoices[i].status = "cancelled" \/ i \in revived
  <2>1. PICK i \in ToSet(reply) : invoices[i].status = "cancelled" \/ i \in revived
    BY <1>3
  <2>2. i \in revived => i \in revived'
    BY NextSteps
  <2>3. invoices'[i].status \in {"active", "cancelled"}
    <3>1. invoices' \in Seq(InvoiceRows) /\ i \in DOMAIN invoices'
      BY <1>2 DEF Courses, TypeOK, OutflowTypeOK
    <3>2. invoices'[i] \in InvoiceRows
      BY <3>1
    <3> QED BY <3>2 DEF InvoiceRows
  <2>4. invoices[i].status = "cancelled" /\ invoices'[i].status = "active" => i \in revived'
    BY <1>2, NextSteps
  <2>5. invoices'[i].status = "cancelled" \/ i \in revived'
    BY <2>1, <2>2, <2>3, <2>4
  <2> QED BY <1>2, <2>5 DEF HasAnswer
<1>4. CASE \A d \in DebtsOf(q) :
             /\ d \in DOMAIN debts /\ debts[d].status = "promoted"
             /\ debts[d].promotion.key = q.key /\ debts[d].promotion.batch = reply
  <2>1. CASE \A d \in DebtsOf(q) : debts'[d] = debts[d]
    BY <1>1, <1>2, <1>4, <2>1 DEF HasAnswer
  <2>2. CASE \E d \in DebtsOf(q) : debts'[d] # debts[d]
    <3>1. PICK d \in DebtsOf(q) : debts'[d] # debts[d]
      BY <2>2
    <3>2. /\ d \in DOMAIN debts /\ debts[d].status = "promoted"
          /\ debts[d].promotion.batch = reply
      BY <1>4, <3>1
    <3>3. invoices'[debts[d].promotion.invoice].status = "cancelled"
      BY <3>1, <3>2, StepMovesDebts DEF DebtMoves
    <3>4. debts[d].promotion.invoice \in ToSet(reply)
      BY <3>2, PromotionInOrder DEF InOrder
    <3> QED BY <1>2, <3>3, <3>4 DEF HasAnswer
  <2> QED BY <2>1, <2>2
<1> QED BY <1>3, <1>4 DEF HasAnswer

\* The answer a request gets in this step.
Replies(r) ==
    Answers1(attempt'[r]) =>
       HasAnswer(attempt'[r].request, attempt'[r].reply, debts', invoices', revived')

\* A replayed answer is what the debts carry.
LEMMA QuietReplies ==
    ASSUME Courses, Promotion, NEW r \in Attempts, Quiet(r)
    PROVE  Replies(r)
<1> DEFINE q == attempt'[r].request
           reply == attempt'[r].reply
<1>1. SUFFICES ASSUME Answers1(attempt'[r])
               PROVE  HasAnswer(q, reply, debts', invoices', revived')
  BY DEF Replies
<1>2. /\ DebtsOf(q) # {} /\ Promotions(q) = {reply} /\ reply # <<>>
      /\ debts' = debts /\ invoices' = invoices
  BY <1>1 DEF Answers1, Quiet
<1> HIDE DEF q, reply
<1>3. \A d \in DebtsOf(q) :
          (IF /\ d \in DOMAIN debts /\ debts[d].status = "promoted"
              /\ debts[d].promotion.key = q.key
           THEN debts[d].promotion.batch ELSE <<>>) \in Promotions(q)
  BY DEF Promotions
<1>4. \A d \in DebtsOf(q) :
          /\ d \in DOMAIN debts /\ debts[d].status = "promoted"
          /\ debts[d].promotion.key = q.key /\ debts[d].promotion.batch = reply
  BY <1>2, <1>3
<1>5. PICK d \in DebtsOf(q) : TRUE
  BY <1>2
<1>6. ToSet(debts[d].promotion.batch) \subseteq DOMAIN invoices
  BY <1>4, PromotionInOrder DEF InOrder
<1> QED BY <1>2, <1>4, <1>6 DEF HasAnswer

\* A batch is answered what it writes into its debts.
LEMMA BatchReplies ==
    ASSUME Courses, NEW r \in Attempts, CommitBatch(r)
    PROVE  Replies(r)
<1> DEFINE q == attempt[r].request
           rows == attempt[r].rows
           ids == Inserted(r)
<1>1. /\ attempt[r].pc # "idle" /\ PromotedAs(debts', r) /\ ids \in Answers
      /\ invoices' = invoices \o rows
      /\ \/ attempt' = [attempt EXCEPT ![r].pc = "store", ![r].reply = ids]
         \/ Done(r, ids)
  BY Commits
<1>2. /\ attempt[r] \in Served /\ invoices \in Seq(InvoiceRows)
      /\ attempt \in [Attempts -> Served \cup {Unsent}]
  BY <1>1, Served1 DEF Courses, TypeOK, OutflowTypeOK
<1>3. CASE Done(r, ids)
  <2>1. attempt'[r].request = q /\ attempt'[r].reply = ids
    BY <1>1, <1>3, DoneAnswers
  <2>2. /\ DebtsOf(q) \subseteq DOMAIN debts' /\ DOMAIN ids = 1..Len(rows)
        /\ \A n \in DOMAIN ids : ids[n] = Len(invoices) + n
        /\ \A d \in DebtsOf(q) :
              /\ debts'[d].status = "promoted"
              /\ debts'[d].promotion = [invoice |-> ids[Line(q, d)], key |-> q.key, batch |-> ids]
    BY <1>1 DEF PromotedAs
  <2>3. rows \in Seq(InvoiceRows)
    BY <1>2 DEF Served
  <2>4. \A n \in 1..Len(rows) : Len(invoices) + n \in DOMAIN invoices'
    BY <1>1, <1>2, <2>3
  <2> HIDE DEF ids, rows, q
  <2>5. ToSet(ids) \subseteq DOMAIN invoices'
    BY <2>2, <2>4 DEF ToSet
  <2>6. \A d \in DebtsOf(q) :
            /\ d \in DOMAIN debts' /\ debts'[d].status = "promoted"
            /\ debts'[d].promotion.key = q.key /\ debts'[d].promotion.batch = ids
    <3> SUFFICES ASSUME NEW d \in DebtsOf(q)
                 PROVE  /\ d \in DOMAIN debts' /\ debts'[d].status = "promoted"
                        /\ debts'[d].promotion.key = q.key /\ debts'[d].promotion.batch = ids
      OBVIOUS
    <3>1. debts'[d].promotion = [invoice |-> ids[Line(q, d)], key |-> q.key, batch |-> ids]
      BY <2>2
    <3> QED BY <2>2, <3>1
  <2>7. HasAnswer(q, ids, debts', invoices', revived')
    BY <2>5, <2>6 DEF HasAnswer
  <2> QED BY <2>1, <2>7 DEF Replies
<1>4. CASE ~Done(r, ids)
  <2>1. attempt'[r] = [attempt[r] EXCEPT !.pc = "store", !.reply = ids]
    BY <1>1, <1>2, <1>4
  <2>2. attempt'[r].pc = "store"
    BY <1>2, <2>1 DEF Served
  <2> QED BY <2>2 DEF Replies, Answers1
<1> QED BY <1>3, <1>4

\* Every answer to a batch is of one of these kinds.
LEMMA StepReplies ==
    ASSUME Courses, Promotion, NEW r \in Attempts, Shape(r)
    PROVE  Replies(r)
<1>1. CASE Quiet(r)
  BY <1>1, QuietReplies
<1>2. CASE ItemDone(r)
  <2>1. attempt[r].pc = "items"
    BY <1>2 DEF ItemDone
  <2>2. attempt[r] \in Served
    BY <2>1, Served1
  <2>3. attempt'[r].pc \in {"items", "commit"}
    BY <1>2, <2>2 DEF ItemDone, Served
  <2> QED BY <2>3 DEF Replies, Answers1
<1>3. CASE DebtsDone(r)
  BY <1>3 DEF DebtsDone, Replies, Answers1
<1>4. CASE CommitBatch(r)
  BY <1>4, BatchReplies
<1>5. CASE EditReady(r) /\ attempt'[r].request = attempt[r].request
  BY <1>5 DEF EditReady, Replies, Answers1
<1>6. CASE CancelDone(r) /\ attempt'[r].request = attempt[r].request
  BY <1>6 DEF CancelDone, Replies, Answers1
<1> QED BY <1>1, <1>2, <1>3, <1>4, <1>5, <1>6 DEF Shape

\* Every step keeps the answers.
LEMMA StepKeepsAnswers ==
    ASSUME Courses, Courses', Promotion, Answered, Next
    PROVE  Answered'
<1>1. PICK r \in Attempts : Shape(r)
  BY StepShape
<1>2. Replies(r)
  BY <1>1, StepReplies
<1>3. ASSUME NEW s \in Attempts \ {r}, Answers1(attempt'[s])
      PROVE  HasAnswer(attempt'[s].request, attempt'[s].reply, debts', invoices', revived')
  <2>1. attempt'[s] = attempt[s]
    BY <1>1 DEF Shape, Others
  <2>2. HasAnswer(attempt[s].request, attempt[s].reply, debts, invoices, revived)
    BY <1>3, <2>1, AnsweredAll
  <2> QED BY <2>1, <2>2, AnswerKept
<1> QED BY <1>2, <1>3, AnsweredAll DEF Replies

\* A step that changes nothing keeps the answers.
LEMMA AnswersStutter == ASSUME Answered, UNCHANGED vars PROVE Answered'
<1>1. invoices' = invoices /\ debts' = debts /\ attempt' = attempt /\ revived' = revived
  BY DEF vars, tables
<1> QED BY <1>1, AnsweredAll

\* The debts carry the answers of their batches, at all times.
LEMMA AnsweredInvariant == Spec => []Answered
<1>1. Init => Answered
  BY DEF Init, Answered
<1>2. Courses /\ Courses' /\ Promotion /\ Answered /\ [Next]_vars => Answered'
  BY StepKeepsAnswers, AnswersStutter
<1> QED BY <1>1, <1>2, CoursesInvariant, PromotionInvariant, PTL DEF Spec

\* A batch of debts that was answered is found again under its key as long as
\* its invoices stand, so that a retry is given them and pays no debt again
\* (loadPurchaseDebtPromotionReplay).
THEOREM PromotionsFoundAgain == Spec => []PromotionFoundAgain
<1>1. ASSUME Answered, NEW r \in Attempts, Doing(r, "batch", "done"),
             DebtsOf(attempt[r].request) # {},
             \A i \in ToSet(attempt[r].reply) :
                invoices[i].status = "active" /\ i \notin revived
      PROVE  Promotions(attempt[r].request) = {attempt[r].reply}
  <2> DEFINE q == attempt[r].request
             reply == attempt[r].reply
  <2>1. Answers1(attempt[r])
    BY <1>1 DEF Answers1, Doing, At, Unsent
  <2>2. HasAnswer(q, reply, debts, invoices, revived)
    BY <1>1, <2>1, AnsweredAll
  <2> HIDE DEF q, reply
  <2>3. \A d \in DebtsOf(q) :
            /\ d \in DOMAIN debts /\ debts[d].status = "promoted"
            /\ debts[d].promotion.key = q.key /\ debts[d].promotion.batch = reply
    BY <1>1, <2>2 DEF HasAnswer, reply
  <2>4. Promotions(q) = {reply}
    BY <1>1, <2>3 DEF Promotions, q
  <2> QED BY <2>4 DEF q, reply
<1>2. Answered => PromotionFoundAgain
  BY <1>1 DEF PromotionFoundAgain
<1> QED BY <1>2, AnsweredInvariant, PTL

-----------------------------------------------------------------------------
(* The books.                                                              *)

\* The entries of an invoice are the same ones.
SameOwn(new, led, j) == Own(new, j) = Own(led, j) /\ \A e \in Own(led, j) : new[e] = led[e]

\* An invoice whose entries are the same stays posted.
LEMMA PostsSame ==
    ASSUME NEW led \in Seq(Postings), NEW new \in Seq(Postings), NEW j, NEW row,
           Posts(led, j, row), SameOwn(new, led, j)
    PROVE  Posts(new, j, row)
<1>1. /\ Own(new, j) = Own(led, j)
      /\ \A e \in Own(led, j) :
            /\ new[e].amount = led[e].amount /\ new[e].credit = led[e].credit
            /\ new[e].debit = led[e].debit /\ new[e].day = led[e].day
  BY DEF SameOwn
<1>2. \A e \in Own(led, j) : led[e].day = row.day
  BY DEF Posts
<1>3. \A e \in Own(led, j) :
          /\ new[e].amount = led[e].amount /\ new[e].credit = led[e].credit
          /\ new[e].debit = led[e].debit /\ new[e].day = row.day
  BY <1>1, <1>2
<1> QED BY <1>1, <1>3, PostsMoved

\* Rewriting the entries of one invoice leaves those of the others.
LEMMA OthersSame ==
    ASSUME NEW led \in Seq(Postings), NEW new, DOMAIN new = DOMAIN led, NEW t,
           \A e \in DOMAIN led : e \notin Own(led, t) => new[e] = led[e],
           \A e \in Own(led, t) : new[e].ref = led[e].ref
    PROVE  \A j : j # t => SameOwn(new, led, j)
<1> SUFFICES ASSUME NEW j, j # t PROVE SameOwn(new, led, j)
  OBVIOUS
<1>1. Ref("invoice", j) # Ref("invoice", t)
  BY DEF Ref
<1>2. \A e \in Own(led, j) : e \in DOMAIN led /\ e \notin Own(led, t)
  BY <1>1 DEF Own
<1>3. \A e \in Own(new, j) : e \in DOMAIN led /\ e \notin Own(led, t)
  BY <1>1 DEF Own
<1>4. Own(new, j) = Own(led, j)
  BY <1>2, <1>3 DEF Own
<1> QED BY <1>2, <1>4 DEF SameOwn

\* Rewriting the entries of an invoice in the table adds none beyond it.
LEMMA SameWithin ==
    ASSUME NEW led, NEW new, NEW n \in Nat, NEW t \in Nat, t <= n, Within(led, n),
           \A j : j # t => SameOwn(new, led, j)
    PROVE  Within(new, n)
<1> SUFFICES ASSUME NEW id \in Nat, id > n PROVE Own(new, id) = {}
  BY DEF Within
<1>1. id # t
  OBVIOUS
<1> QED BY <1>1 DEF Within, SameOwn

\* What a cancellation does to the ledger.
LEMMA LedgerAfterCancel ==
    ASSUME Courses, NEW id, CancelEntries(Ref("invoice", id))
    PROVE  /\ ledger' \in Seq(Postings) /\ Own(ledger', id) = {}
           /\ \A j : j # id => SameOwn(ledger', ledger, j)
<1>1. /\ ledger \in Seq(Postings) /\ ledger' \in Seq(Postings) /\ DOMAIN ledger' = DOMAIN ledger
      /\ \A e \in DOMAIN ledger :
            ledger'[e] = IF ledger[e].ref = Ref("invoice", id) /\ ledger[e].status = "active"
                         THEN [ledger[e] EXCEPT !.status = "cancelled"] ELSE ledger[e]
  BY CancelTyped, RowTypes
<1>2. \A e \in DOMAIN ledger : e \notin Own(ledger, id) => ledger'[e] = ledger[e]
  BY <1>1 DEF Own
<1>3. \A e \in Own(ledger, id) : ledger'[e].ref = ledger[e].ref /\ ledger'[e].status = "cancelled"
  <2> SUFFICES ASSUME NEW e \in Own(ledger, id)
               PROVE  ledger'[e].ref = ledger[e].ref /\ ledger'[e].status = "cancelled"
    OBVIOUS
  <2>1. e \in DOMAIN ledger /\ ledger'[e] = [ledger[e] EXCEPT !.status = "cancelled"]
    BY <1>1 DEF Own
  <2>2. ledger[e] \in Postings
    BY <1>1, <2>1
  <2> QED BY <2>1, <2>2 DEF Postings
<1>4. Own(ledger', id) = {}
  BY <1>1, <1>2, <1>3 DEF Own
<1>5. \A j : j # id => SameOwn(ledger', ledger, j)
  BY <1>1, <1>2, <1>3, OthersSame
<1> QED BY <1>1, <1>4, <1>5

\* What taking away the entries of an invoice does.
LEMMA LedgerWithout ==
    ASSUME Courses, NEW id, NEW rest, rest = Without(id)
    PROVE  /\ rest \in Seq(Postings) /\ Own(rest, id) = {}
           /\ \A j : j # id => SameOwn(rest, ledger, j)
<1>1. /\ ledger \in Seq(Postings) /\ rest \in Seq(Postings) /\ DOMAIN rest = DOMAIN ledger
      /\ \A e \in DOMAIN ledger :
            rest[e] = IF ledger[e].ref = Ref("invoice", id) /\ ledger[e].status = "active"
                      THEN [ledger[e] EXCEPT !.status = "deleted"] ELSE ledger[e]
  BY WithoutTyped, RowTypes
<1>2. \A e \in DOMAIN ledger : e \notin Own(ledger, id) => rest[e] = ledger[e]
  BY <1>1 DEF Own
<1>3. \A e \in Own(ledger, id) : rest[e].ref = ledger[e].ref /\ rest[e].status = "deleted"
  <2> SUFFICES ASSUME NEW e \in Own(ledger, id)
               PROVE  rest[e].ref = ledger[e].ref /\ rest[e].status = "deleted"
    OBVIOUS
  <2>1. e \in DOMAIN ledger /\ rest[e] = [ledger[e] EXCEPT !.status = "deleted"]
    BY <1>1 DEF Own
  <2>2. ledger[e] \in Postings
    BY <1>1, <2>1
  <2> QED BY <2>1, <2>2 DEF Postings
<1>4. Own(rest, id) = {}
  BY <1>1, <1>2, <1>3 DEF Own
<1>5. \A j : j # id => SameOwn(rest, ledger, j)
  <2>1. \A e \in Own(ledger, id) : rest[e].ref = ledger[e].ref
    BY <1>3
  <2>2. ledger \in Seq(Postings) /\ DOMAIN rest = DOMAIN ledger
    BY <1>1
  <2> QED BY <1>2, <2>1, <2>2, OthersSame
<1> QED BY <1>1, <1>4, <1>5

\* What a new date does.
LEMMA LedgerRedated ==
    ASSUME Courses, NEW id, NEW day \in Days, NEW new, new = Redated(id, day)
    PROVE  /\ new \in Seq(Postings) /\ Own(new, id) = Own(ledger, id)
           /\ \A e \in Own(ledger, id) :
                 /\ new[e].amount = ledger[e].amount /\ new[e].credit = ledger[e].credit
                 /\ new[e].debit = ledger[e].debit /\ new[e].day = day
           /\ \A j : j # id => SameOwn(new, ledger, j)
<1>1. /\ ledger \in Seq(Postings) /\ new \in Seq(Postings) /\ DOMAIN new = DOMAIN ledger
      /\ \A e \in DOMAIN ledger :
            new[e] = IF ledger[e].ref = Ref("invoice", id) /\ ledger[e].status = "active"
                     THEN [ledger[e] EXCEPT !.day = day] ELSE ledger[e]
  BY RedatedTyped, RowTypes
<1>2. \A e \in DOMAIN ledger : e \notin Own(ledger, id) => new[e] = ledger[e]
  BY <1>1 DEF Own
<1>3. \A e \in Own(ledger, id) :
          /\ new[e].ref = ledger[e].ref /\ new[e].status = ledger[e].status
          /\ new[e].amount = ledger[e].amount /\ new[e].credit = ledger[e].credit
          /\ new[e].debit = ledger[e].debit /\ new[e].day = day
  <2> SUFFICES ASSUME NEW e \in Own(ledger, id)
               PROVE  /\ new[e].ref = ledger[e].ref /\ new[e].status = ledger[e].status
                      /\ new[e].amount = ledger[e].amount /\ new[e].credit = ledger[e].credit
                      /\ new[e].debit = ledger[e].debit /\ new[e].day = day
    OBVIOUS
  <2>1. e \in DOMAIN ledger /\ new[e] = [ledger[e] EXCEPT !.day = day]
    BY <1>1 DEF Own
  <2>2. ledger[e] \in Postings
    BY <1>1, <2>1
  <2> QED BY <2>1, <2>2 DEF Postings
<1>4. Own(new, id) = Own(ledger, id)
  BY <1>1, <1>2, <1>3 DEF Own
<1>5. \A j : j # id => SameOwn(new, ledger, j)
  BY <1>1, <1>2, <1>3, OthersSame
<1> QED BY <1>1, <1>3, <1>4, <1>5

\* The part of the books that holds while edits do not overlap, after a step.
BooksHold ==
    /\ Keyed(invoices')
    /\ \A s \in Attempts : Fresh(attempt'[s], invoices')
    /\ \A id \in DOMAIN invoices' \ revived' : Posts(ledger', id, invoices'[id])

\* The others have still read their rows as they are, unless a row that one of
\* them is about to change has been changed.
LEMMA OthersFresh ==
    ASSUME Books, apart, NEW r \in Attempts, Others(r), Fresh(attempt'[r], invoices'),
           \A s \in Attempts \ {r} :
              attempt[s] # Unsent /\ attempt[s].pc = "write" /\ attempt[s].request.op = "edit" =>
                 invoices'[attempt[s].request.invoice] = invoices[attempt[s].request.invoice]
    PROVE  \A s \in Attempts : Fresh(attempt'[s], invoices')
<1> SUFFICES ASSUME NEW s \in Attempts \ {r} PROVE Fresh(attempt'[s], invoices')
  OBVIOUS
<1>1. attempt'[s] = attempt[s] /\ Fresh(attempt[s], invoices)
  BY DEF Others, Books
<1> QED BY <1>1 DEF Fresh

\* A step that leaves the table and the ledger alone.
LEMMA SameTablesBooks ==
    ASSUME Courses, Books, Next, NEW r \in Attempts, Others(r), Fresh(attempt'[r], invoices'),
           invoices' = invoices, ledger' = ledger
    PROVE  Within(ledger', Len(invoices')) /\ (apart => BooksHold)
<1>1. Within(ledger', Len(invoices'))
  BY DEF Books
<1>2. ASSUME apart PROVE BooksHold
  <2>1. \A s \in Attempts : Fresh(attempt'[s], invoices')
    BY <1>2, OthersFresh
  <2>2. revived \subseteq revived'
    BY NextSteps
  <2>3. Keyed(invoices') /\ \A id \in DOMAIN invoices \ revived : Posts(ledger, id, invoices[id])
    BY <1>2 DEF Books
  <2> QED BY <2>1, <2>2, <2>3 DEF BooksHold
<1> QED BY <1>1, <1>2

\* A batch is posted as its rows say.
LEMMA BatchBooks ==
    ASSUME Courses, Books, Next, NEW r \in Attempts, Others(r), CommitBatch(r)
    PROVE  Within(ledger', Len(invoices')) /\ (apart => BooksHold)
<1> DEFINE rows == attempt[r].rows
<1>1. /\ attempt[r].pc = "commit" /\ attempt[r].pc # "idle"
      /\ invoices' = invoices \o rows
      /\ ledger' = ledger \o FlattenSeq(PostedFrom(Len(invoices), rows))
  BY Commits
<1>2. /\ attempt[r] \in Served /\ Prepared(attempt[r])
      /\ invoices \in Seq(InvoiceRows) /\ ledger \in Seq(Postings)
  BY <1>1, Served1, RowTypes
<1>3. rows \in Seq(InvoiceRows)
  BY <1>2 DEF Served
<1>4. \A n \in DOMAIN rows :
          /\ rows[n].status = "active" /\ rows[n].dedupKey = rows[n].number
          /\ SumOf(rows[n].splits) = rows[n].total
  BY <1>1, <1>2 DEF Prepared
<1> HIDE DEF rows
<1>5. \A id \in Nat : id > Len(invoices) => Own(ledger, id) = {}
  BY DEF Books, Within
<1>6. Carried(ledger', ledger, invoices, rows, Len(rows))
  BY <1>1, <1>2, <1>3, <1>4, <1>5, BatchCarried
<1>7. /\ Len(invoices) \in Nat /\ Len(rows) \in Nat
      /\ DOMAIN invoices = 1..Len(invoices) /\ DOMAIN rows = 1..Len(rows)
      /\ Len(invoices') = Len(invoices) + Len(rows)
      /\ \A i \in DOMAIN invoices : invoices'[i] = invoices[i]
      /\ \A i \in DOMAIN invoices' :
            \/ i \in DOMAIN invoices
            \/ /\ i - Len(invoices) \in 1..Len(rows) /\ i = Len(invoices) + (i - Len(invoices))
               /\ invoices'[i] = rows[i - Len(invoices)]
  BY <1>1, <1>2, <1>3
<1>8. Within(ledger', Len(invoices'))
  BY <1>6, <1>7 DEF Carried, Within
<1>9. ASSUME apart PROVE BooksHold
  <2>1. Fresh(attempt'[r], invoices')
    BY BatchEnds DEF Fresh
  <2>2. ASSUME NEW s \in Attempts \ {r}, attempt[s] # Unsent, attempt[s].pc = "write",
               attempt[s].request.op = "edit"
        PROVE  invoices'[attempt[s].request.invoice] = invoices[attempt[s].request.invoice]
    <3>1. attempt[s].request.invoice \in DOMAIN invoices
      BY <2>2, Served1 DEF Placed
    <3> QED BY <1>7, <3>1
  <2>3. \A s \in Attempts : Fresh(attempt'[s], invoices')
    BY <1>9, <2>1, <2>2, OthersFresh
  <2>4. Keyed(invoices')
    <3>1. Keyed(invoices)
      BY <1>9 DEF Books
    <3> QED BY <1>4, <1>7, <3>1 DEF Keyed
  <2>5. ASSUME NEW id \in DOMAIN invoices' \ revived'
        PROVE  Posts(ledger', id, invoices'[id])
    <3>1. id \notin revived
      BY NextSteps
    <3>2. CASE id \in DOMAIN invoices
      <4>1. Posts(ledger, id, invoices[id])
        BY <1>9, <3>1, <3>2 DEF Books
      <4> QED BY <1>6, <1>7, <3>2, <4>1 DEF Carried
    <3>3. CASE id \notin DOMAIN invoices
      <4> DEFINE m == id - Len(invoices)
      <4>1. m \in 1..Len(rows) /\ id = Len(invoices) + m /\ invoices'[id] = rows[m]
        BY <1>7, <3>3
      <4> HIDE DEF m
      <4>2. Posts(ledger', Len(invoices) + m, rows[m])
        BY <1>6, <4>1 DEF Carried
      <4> QED BY <4>1, <4>2
    <3> QED BY <3>2, <3>3
  <2> QED BY <2>3, <2>4, <2>5 DEF BooksHold
<1> QED BY <1>8, <1>9

\* A cancelled invoice has no entries, and no edit is about to write it.
LEMMA CancelBooks ==
    ASSUME Courses, Books, Next, NEW r \in Attempts, Others(r), CancelDone(r),
           attempt'[r].pc = "done"
    PROVE  Within(ledger', Len(invoices')) /\ (apart => BooksHold)
<1> DEFINE t == Target(r)
<1>1. /\ attempt[r].pc = "write" /\ attempt[r].request.op = "cancel" /\ t \in DOMAIN invoices
      /\ invoices' \in Seq(InvoiceRows) /\ DOMAIN invoices' = DOMAIN invoices
      /\ \A i \in DOMAIN invoices : i # t => invoices'[i] = invoices[i]
      /\ invoices'[t].status = "cancelled" /\ CancelEntries(Ref("invoice", t))
  BY DEF CancelDone
<1>2. /\ invoices \in Seq(InvoiceRows) /\ ledger \in Seq(Postings)
      /\ Len(invoices) \in Nat /\ DOMAIN invoices = 1..Len(invoices)
  BY RowTypes
<1>3. /\ ledger' \in Seq(Postings) /\ Own(ledger', t) = {}
      /\ \A j : j # t => SameOwn(ledger', ledger, j)
  BY <1>1, LedgerAfterCancel
<1>4. Len(invoices') = Len(invoices) /\ t \in Nat /\ t <= Len(invoices)
  BY <1>1, <1>2
<1>5. Within(ledger', Len(invoices'))
  BY <1>2, <1>3, <1>4, SameWithin DEF Books
<1>6. ASSUME apart PROVE BooksHold
  <2>1. Fresh(attempt'[r], invoices')
    BY DEF Fresh
  <2>2. ASSUME NEW s \in Attempts \ {r}, attempt[s] # Unsent, attempt[s].pc = "write",
               attempt[s].request.op = "edit"
        PROVE  invoices'[attempt[s].request.invoice] = invoices[attempt[s].request.invoice]
    <3>1. attempt[s].request.invoice \in DOMAIN invoices
      BY <2>2, Served1 DEF Placed
    <3>2. attempt[s].request.invoice # t
      BY <1>1, <1>6, <2>2 DEF Books, EditsApart, At, Target
    <3> QED BY <1>1, <3>1, <3>2
  <2>3. \A s \in Attempts : Fresh(attempt'[s], invoices')
    BY <1>6, <2>1, <2>2, OthersFresh
  <2>4. Keyed(invoices')
    BY <1>1, <1>6 DEF Books, Keyed
  <2>5. ASSUME NEW id \in DOMAIN invoices' \ revived'
        PROVE  Posts(ledger', id, invoices'[id])
    <3>1. id \notin revived
      BY NextSteps
    <3>2. CASE id = t
      BY <1>1, <1>3, <3>2 DEF Posts
    <3>3. CASE id # t
      <4>1. Posts(ledger, id, invoices[id])
        BY <1>1, <1>6, <3>1 DEF Books
      <4>2. invoices'[id] = invoices[id]
        BY <1>1, <3>3
      <4>3. SameOwn(ledger', ledger, id)
        BY <1>3, <3>3
      <4> QED BY <1>2, <1>3, <4>1, <4>2, <4>3, PostsSame
    <3> QED BY <3>2, <3>3
  <2> QED BY <2>3, <2>4, <2>5 DEF BooksHold
<1> QED BY <1>5, <1>6

\* An edit touches the entries of its own invoice only.
LEMMA EditLedger ==
    ASSUME Courses, NEW r \in Attempts, EditReady(r), EditDone(r)
    PROVE  /\ ledger' \in Seq(Postings)
           /\ \A j : j # Target(r) => SameOwn(ledger', ledger, j)
<1> DEFINE t == Target(r)
           row == EditedRow(OldRow(r), NewRow(r), Sent(r))
           again == Rebuilds(OldRow(r), NewRow(r), Sent(r))
<1>1. /\ t \in DOMAIN invoices /\ row \in InvoiceRows /\ DebitAfter(r) \in Accounts
      /\ ledger' = IF again THEN Replaced(t, row, DebitAfter(r))
                   ELSE IF "day" \in DOMAIN Sent(r) THEN Redated(t, row.day) ELSE ledger
  BY DEF EditReady, EditDone
<1> HIDE DEF t, row, again
<1>2. t \in Nat /\ ledger \in Seq(Postings)
  BY <1>1, RowTypes
<1>3. CASE again
  <2> DEFINE rest == Without(t)
             more == EntriesFor(t, row, DebitAfter(r))
  <2>1. ledger' = rest \o more
    BY <1>1, <1>3, ReplacedIs
  <2>2. rest \in Seq(Postings) /\ \A j : j # t => SameOwn(rest, ledger, j)
    BY LedgerWithout
  <2> HIDE DEF rest
  <2>3. Extended(ledger', rest, t, row, more)
    BY <1>1, <1>2, <2>1, <2>2, EntriesAppended
  <2>4. \A j : \A e \in Own(rest, j) : ledger'[e] = rest[e]
    BY <2>3 DEF Extended, Own
  <2>5. ledger' \in Seq(Postings) /\ \A j : j # t => Own(ledger', j) = Own(rest, j)
    BY <2>3 DEF Extended
  <2>6. \A j : j # t => SameOwn(ledger', ledger, j)
    BY <2>2, <2>4, <2>5 DEF SameOwn
  <2> QED BY <2>5, <2>6 DEF t
<1>4. CASE ~again /\ "day" \in DOMAIN Sent(r)
  <2>1. ledger' = Redated(t, row.day) /\ row.day \in Days
    BY <1>1, <1>4 DEF InvoiceRows
  <2>2. ledger' \in Seq(Postings) /\ \A j : j # t => SameOwn(ledger', ledger, j)
    BY <2>1, LedgerRedated
  <2> QED BY <2>2 DEF t
<1>5. CASE ~again /\ "day" \notin DOMAIN Sent(r)
  <2>1. ledger' = ledger
    BY <1>1, <1>5
  <2> QED BY <1>2, <2>1 DEF SameOwn
<1> QED BY <1>3, <1>4, <1>5

\* The entries written anew are those of the row.
LEMMA RebuiltPosts ==
    ASSUME Courses, NEW r \in Attempts, EditReady(r), EditDone(r),
           OldRow(r) = invoices[Target(r)],
           Posts(ledger, Target(r), invoices[Target(r)]),
           invoices[Target(r)].status = "active",
           Rebuilds(OldRow(r), NewRow(r), Sent(r)),
           NEW row, row = EditedRow(OldRow(r), NewRow(r), Sent(r))
    PROVE  Posts(ledger', Target(r), row)
<1> DEFINE t == Target(r)
           cur == invoices[t]
           set == Sent(r)
           new == NewRow(r)
           account == DebitAfter(r)
           rest == Without(t)
<1>1. /\ t \in DOMAIN invoices /\ new \in InvoiceRows /\ Scalable(new) /\ EditFits(set)
      /\ new.kind = Merged(cur, set, "kind") /\ account \in Accounts
      /\ Editable(t, cur, new, set)
  BY DEF EditReady, EditDone, EditedAs
<1>2. /\ row \in InvoiceRows /\ row.total = new.total /\ row.kind = new.kind
      /\ row.status = new.status /\ row.splits = NewSplits(cur, new, set)
      /\ ledger' = Replaced(t, row, account)
  BY DEF EditDone
<1>3. /\ account = IF KindChanged(cur, set) THEN KindAccount[new.kind] ELSE DebitOf(t, new.kind)
      /\ Rebuilds(cur, new, set) /\ Posts(ledger, t, cur) /\ cur.status = "active"
  BY DEF DebitAfter
<1> HIDE DEF t, cur, set, new, account
<1>4. new.status = "active" /\ SumOf(NewSplits(cur, new, set)) = new.total
  BY <1>1, <1>3, SplitsEdited
<1>5. account = KindAccount[row.kind]
  <2>1. CASE KindChanged(cur, set)
    BY <1>2, <1>3, <2>1
  <2>2. CASE ~KindChanged(cur, set)
    <3>1. new.kind = cur.kind
      BY <1>1, <2>2 DEF KindChanged, Merged
    <3>2. \A e \in Own(ledger, t) : ledger[e].debit = KindAccount[cur.kind]
      BY <1>3 DEF Posts
    <3>3. new.kind \in Kinds
      BY <1>1 DEF InvoiceRows
    <3>4. \/ DebitOf(t, new.kind) = KindAccount[new.kind]
          \/ \E e \in Own(ledger, t) : DebitOf(t, new.kind) = ledger[e].debit
      BY <3>3, DebitTyped
    <3> QED BY <1>2, <1>3, <2>2, <3>1, <3>2, <3>4
  <2> QED BY <2>1, <2>2
<1>6. rest \in Seq(Postings) /\ Own(rest, t) = {}
  BY LedgerWithout
<1>7. ledger' = rest \o EntriesFor(t, row, account)
  BY <1>2, ReplacedIs
<1>8. t \in Nat
  BY <1>1, RowTypes
<1> HIDE DEF rest
<1>9. Posts(ledger', t, row)
  BY <1>1, <1>2, <1>4, <1>5, <1>6, <1>7, <1>8, PostsNew
<1> QED BY <1>9 DEF t

\* The entries that stay are those of the row, or there are none.
LEMMA StayingPosts ==
    ASSUME Courses, NEW r \in Attempts, EditReady(r), EditDone(r),
           OldRow(r) = invoices[Target(r)],
           Posts(ledger, Target(r), invoices[Target(r)]),
           NewRow(r).status = invoices[Target(r)].status,
           ~Rebuilds(OldRow(r), NewRow(r), Sent(r)),
           NEW row, row = EditedRow(OldRow(r), NewRow(r), Sent(r))
    PROVE  Posts(ledger', Target(r), row)
<1> DEFINE t == Target(r)
           cur == invoices[t]
           set == Sent(r)
           new == NewRow(r)
<1>1. /\ t \in DOMAIN invoices /\ new \in InvoiceRows /\ Scalable(new) /\ EditFits(set)
      /\ new.kind = Merged(cur, set, "kind") /\ new.day = Merged(cur, set, "day")
      /\ new.splits = cur.splits /\ Editable(t, cur, new, set)
  BY DEF EditReady, EditDone, EditedAs
<1>2. /\ row \in InvoiceRows /\ row.total = new.total /\ row.kind = new.kind
      /\ row.day = new.day
      /\ row.status = new.status /\ row.splits = NewSplits(cur, new, set)
      /\ ledger' = IF "day" \in DOMAIN set THEN Redated(t, row.day) ELSE ledger
  BY DEF EditDone
<1>3. /\ ~Rebuilds(cur, new, set) /\ Posts(ledger, t, cur) /\ cur.status = new.status
  OBVIOUS
<1> HIDE DEF t, cur, set, new
<1>4. NewSplits(cur, new, set) = new.splits
  BY <1>1, <1>3, SplitsEdited
<1>5. new.total = cur.total /\ new.kind = cur.kind
  BY <1>1, <1>3 DEF Rebuilds, KindChanged, Merged
<1>6. /\ row.status = cur.status /\ row.total = cur.total /\ row.splits = cur.splits
      /\ row.kind = cur.kind
  BY <1>1, <1>2, <1>3, <1>4, <1>5
<1>7. ledger \in Seq(Postings)
  BY RowTypes
<1>8. CASE "day" \in DOMAIN set
  <2>1. ledger' = Redated(t, row.day) /\ row.day \in Days
    BY <1>2, <1>8 DEF InvoiceRows
  <2>2. /\ ledger' \in Seq(Postings) /\ Own(ledger', t) = Own(ledger, t)
        /\ \A e \in Own(ledger, t) :
              /\ ledger'[e].amount = ledger[e].amount /\ ledger'[e].credit = ledger[e].credit
              /\ ledger'[e].debit = ledger[e].debit /\ ledger'[e].day = row.day
    BY <2>1, LedgerRedated
  <2>3. Posts(ledger', t, row)
    BY <1>3, <1>6, <1>7, <2>2, PostsMoved
  <2> QED BY <2>3 DEF t
<1>9. CASE "day" \notin DOMAIN set
  <2>1. ledger' = ledger /\ row.day = cur.day
    BY <1>1, <1>2, <1>9 DEF Merged
  <2>2. \A e \in Own(ledger, t) : ledger[e].day = row.day
    BY <1>3, <2>1 DEF Posts
  <2>3. Posts(ledger', t, row)
    BY <1>3, <1>6, <1>7, <2>1, <2>2, PostsMoved
  <2> QED BY <2>3 DEF t
<1> QED BY <1>8, <1>9

\* An edited invoice is posted as its row says, unless it was revived.
LEMMA EditedPosts ==
    ASSUME Courses, Next, NEW r \in Attempts, EditReady(r), EditDone(r),
           OldRow(r) = invoices[Target(r)], Target(r) \notin revived',
           Posts(ledger, Target(r), invoices[Target(r)]),
           NEW row, row = EditedRow(OldRow(r), NewRow(r), Sent(r))
    PROVE  Posts(ledger', Target(r), row)
<1> DEFINE t == Target(r)
           cur == invoices[t]
           new == NewRow(r)
<1>1. /\ t \in DOMAIN invoices /\ cur \in InvoiceRows /\ new \in InvoiceRows /\ EditFits(Sent(r))
      /\ new.status = Merged(cur, Sent(r), "status")
      /\ Rebuilds(OldRow(r), new, Sent(r)) => new.status = "active"
  BY DEF EditReady, EditDone, EditedAs, Editable
<1>2. row.status = new.status /\ invoices' = [invoices EXCEPT ![t] = row]
  BY DEF EditDone
<1>3. new.status \in {cur.status, "active"} /\ cur.status \in {"active", "cancelled"}
  BY <1>1 DEF Merged, EditFits, InvoiceRows
<1>4. cur.status = "cancelled" => new.status # "active"
  <2>1. t \in revived' \/ ~(invoices[t].status = "cancelled" /\ invoices'[t].status = "active")
    BY <1>1, NextSteps
  <2>2. invoices'[t] = row
    BY <1>1, <1>2, RowTypes
  <2> QED BY <1>2, <2>1, <2>2
<1>5. new.status = cur.status
  BY <1>3, <1>4
<1>6. CASE Rebuilds(OldRow(r), new, Sent(r))
  BY <1>1, <1>5, <1>6, RebuiltPosts
<1>7. CASE ~Rebuilds(OldRow(r), new, Sent(r))
  BY <1>5, <1>7, StayingPosts
<1> QED BY <1>6, <1>7

\* An edit keeps the books while it is the only one at its invoice.
LEMMA EditBooks ==
    ASSUME Courses, Books, Next, NEW r \in Attempts, Others(r), EditReady(r), EditDone(r),
           attempt'[r].pc = "done"
    PROVE  Within(ledger', Len(invoices')) /\ (apart => BooksHold)
<1> DEFINE t == Target(r)
           set == Sent(r)
           new == NewRow(r)
           row == EditedRow(OldRow(r), new, set)
<1>1. /\ attempt[r].pc = "write" /\ attempt[r].request.op = "edit" /\ t \in DOMAIN invoices
      /\ invoices' = [invoices EXCEPT ![t] = row]
      /\ row.number = new.number /\ row.status = new.status /\ row.dedupKey = new.dedupKey
      /\ EditedAs(new, OldRow(r), invoices[t], set)
  BY DEF EditReady, EditDone
<1>2. /\ invoices \in Seq(InvoiceRows) /\ ledger \in Seq(Postings)
      /\ Len(invoices) \in Nat /\ DOMAIN invoices = 1..Len(invoices)
  BY RowTypes
<1>3. ledger' \in Seq(Postings) /\ \A j : j # t => SameOwn(ledger', ledger, j)
  BY EditLedger
<1>4. attempt[r] # Unsent
  BY <1>1, Served1
<1> HIDE DEF row, new, set
<1>5. /\ DOMAIN invoices' = DOMAIN invoices /\ invoices'[t] = row
      /\ Len(invoices') = Len(invoices) /\ t \in Nat /\ t <= Len(invoices)
      /\ \A i \in DOMAIN invoices : i # t => invoices'[i] = invoices[i]
  BY <1>1, <1>2
<1>6. Within(ledger', Len(invoices'))
  BY <1>2, <1>3, <1>5, SameWithin DEF Books
<1>7. ASSUME apart PROVE BooksHold
  <2>1. Fresh(attempt'[r], invoices')
    BY DEF Fresh
  <2>2. ASSUME NEW s \in Attempts \ {r}, attempt[s] # Unsent, attempt[s].pc = "write",
               attempt[s].request.op = "edit"
        PROVE  invoices'[attempt[s].request.invoice] = invoices[attempt[s].request.invoice]
    <3>1. attempt[s].request.invoice \in DOMAIN invoices
      BY <2>2, Served1 DEF Placed
    <3>2. attempt[s].request.invoice # t
      BY <1>1, <1>7, <2>2 DEF Books, EditsApart, At, Target
    <3> QED BY <1>5, <3>1, <3>2
  <2>3. \A s \in Attempts : Fresh(attempt'[s], invoices')
    BY <1>7, <2>1, <2>2, OthersFresh
  <2>4. OldRow(r) = invoices[t]
    BY <1>1, <1>4, <1>7 DEF Books, Fresh, OldRow, Target
  <2>5. Keyed(invoices')
    <3>1. row.dedupKey = DedupKey(row.number, row.status)
      BY <1>1, <2>4 DEF EditedAs
    <3>2. row.status = "active" => row.dedupKey = row.number
      BY <3>1 DEF DedupKey
    <3>3. Keyed(invoices)
      BY <1>7 DEF Books
    <3> QED BY <1>5, <3>2, <3>3 DEF Keyed
  <2>6. ASSUME NEW id \in DOMAIN invoices' \ revived'
        PROVE  Posts(ledger', id, invoices'[id])
    <3>1. id \notin revived
      BY NextSteps
    <3>2. Posts(ledger, id, invoices[id])
      BY <1>5, <1>7, <3>1 DEF Books
    <3>3. CASE id = t
      <4>1. Posts(ledger', t, row)
        BY <2>4, <2>6, <3>2, <3>3, EditedPosts DEF row, new, set
      <4> QED BY <1>5, <3>3, <4>1
    <3>4. CASE id # t
      <4>1. invoices'[id] = invoices[id] /\ SameOwn(ledger', ledger, id)
        BY <1>3, <1>5, <3>4
      <4> QED BY <1>2, <1>3, <3>2, <4>1, PostsSame
    <3> QED BY <3>3, <3>4
  <2> QED BY <2>3, <2>5, <2>6 DEF BooksHold
<1> QED BY <1>6, <1>7

\* The books after a step; that no two changes overlap is what apart keeps.
LEMMA StepEnds ==
    ASSUME Next, Within(ledger', Len(invoices')), apart => BooksHold
    PROVE  Books'
<1>1. apart' => apart /\ EditsApart'
  BY NextSteps
<1>2. apart' =>
         /\ EditsApart' /\ Keyed(invoices')
         /\ \A s \in Attempts : Fresh(attempt'[s], invoices')
         /\ \A id \in DOMAIN invoices' \ revived' : Posts(ledger', id, invoices'[id])
  BY <1>1 DEF BooksHold
<1> QED BY <1>2 DEF Books

\* Every step keeps the books.
LEMMA StepKeepsBooks ==
    ASSUME Courses, Books, Next
    PROVE  Books'
<1>1. PICK r \in Attempts : Shape(r)
  BY StepShape
<1>2. Others(r)
  BY <1>1 DEF Shape
<1>3. CASE Quiet(r)
  <2>1. invoices' = invoices /\ ledger' = ledger
    BY <1>3 DEF Quiet
  <2>2. Fresh(attempt'[r], invoices')
    BY <1>3, <2>1 DEF Quiet, Fresh
  <2> QED BY <1>2, <2>1, <2>2, SameTablesBooks, StepEnds
<1>4. CASE ItemDone(r)
  <2>1. invoices' = invoices /\ ledger' = ledger /\ attempt[r].pc = "items"
    BY <1>4 DEF ItemDone
  <2>2. attempt[r] \in Served
    BY <2>1, Served1
  <2>3. attempt'[r].pc \in {"items", "commit"}
    BY <1>4, <2>2 DEF ItemDone, Served
  <2>4. Fresh(attempt'[r], invoices')
    BY <2>3 DEF Fresh
  <2> QED BY <1>2, <2>1, <2>4, SameTablesBooks, StepEnds
<1>5. CASE DebtsDone(r)
  <2>1. invoices' = invoices /\ ledger' = ledger /\ attempt'[r].pc = "done"
    BY <1>5 DEF DebtsDone
  <2>2. Fresh(attempt'[r], invoices')
    BY <2>1 DEF Fresh
  <2> QED BY <1>2, <2>1, <2>2, SameTablesBooks, StepEnds
<1>6. CASE CommitBatch(r)
  BY <1>2, <1>6, BatchBooks, StepEnds
<1>7. CASE EditReady(r) /\ EditDone(r) /\ attempt'[r].pc = "done"
  BY <1>2, <1>7, EditBooks, StepEnds
<1>8. CASE CancelDone(r) /\ attempt'[r].pc = "done"
  BY <1>2, <1>8, CancelBooks, StepEnds
<1> QED BY <1>1, <1>3, <1>4, <1>5, <1>6, <1>7, <1>8 DEF Shape

\* The invoices posted before are in the ledger as their rows say.
LEMMA InitBooks == ASSUME Init PROVE Books
<1> DEFINE none == <<>>
<1>1. /\ invoices = OldRows /\ OldRows \in Seq(InvoiceRows) /\ ledger \in Seq(Postings)
      /\ ledger = none \o FlattenSeq(PostedFrom(0, OldRows))
  BY OldLedger
<1>2. none \in Seq(Postings) /\ none \in Seq(InvoiceRows) /\ Len(none) = 0 /\ DOMAIN none = {}
  OBVIOUS
<1> HIDE DEF none
<1>3. \A id \in Nat : id > Len(none) => Own(none, id) = {}
  BY <1>2 DEF Own
<1>4. \A n \in DOMAIN OldRows :
          OldRows[n].status = "active" /\ SumOf(OldRows[n].splits) = OldRows[n].total
  BY OldRowsStand
<1>5. Carried(ledger, none, none, OldRows, Len(OldRows))
  <2>1. ledger = none \o FlattenSeq(PostedFrom(Len(none), OldRows))
    BY <1>1, <1>2
  <2> QED BY <1>1, <1>2, <1>3, <1>4, <2>1, BatchCarried
<1>6. /\ Len(OldRows) \in Nat /\ DOMAIN OldRows = 1..Len(OldRows)
      /\ 0 + Len(OldRows) = Len(OldRows) /\ \A m \in DOMAIN OldRows : 0 + m = m
  BY <1>1
<1>7. Within(ledger, Len(invoices))
  BY <1>1, <1>2, <1>5, <1>6 DEF Carried, Within
<1>8. \A m \in DOMAIN OldRows : Posts(ledger, m, OldRows[m])
  BY <1>2, <1>5, <1>6 DEF Carried
<1>9. \A r \in Attempts : attempt[r] = Unsent
  BY DEF Init
<1>10. EditsApart /\ \A r \in Attempts : Fresh(attempt[r], invoices)
  BY <1>9 DEF EditsApart, Fresh, At, Unsent
<1>11. Keyed(invoices)
  BY <1>1, OldRowsStand DEF Keyed
<1> QED BY <1>1, <1>7, <1>8, <1>10, <1>11 DEF Books

\* A step that changes nothing keeps the books.
LEMMA BooksStutter == ASSUME Books, UNCHANGED vars PROVE Books'
<1>1. /\ invoices' = invoices /\ ledger' = ledger /\ attempt' = attempt
      /\ apart' = apart /\ revived' = revived
  BY DEF vars, tables
<1>2. EditsApart' <=> EditsApart
  BY <1>1 DEF EditsApart, At
<1> QED BY <1>1, <1>2 DEF Books

\* The books agree while edits do not overlap, at all times.
LEMMA BooksInvariant == Spec => []Books
<1>1. Init => Books
  BY InitBooks
<1>2. Courses /\ Books /\ [Next]_vars => Books'
  BY StepKeepsBooks, BooksStutter
<1> QED BY <1>1, <1>2, CoursesInvariant, PTL DEF Spec

\* As long as the changes of an invoice do not overlap in time, each active
\* invoice is in the ledger for its total, on its day and its kind's account,
\* each cancelled one is not, and a supplier's number is on one active invoice
\* (replaceOutflowInvoiceLedgerAndAllocations and the other writes).
THEOREM BooksOfApartEdits == Spec => []ApartEditsKeepBooks
<1>1. ASSUME Books, Numbering, apart
      PROVE  (\A id \in DOMAIN invoices \ revived : PostedAs(id)) /\ NumbersActiveOnce
  <2>1. \A id \in DOMAIN invoices \ revived : PostedAs(id)
    BY <1>1, PostedAsPosts DEF Books
  <2>2. Keyed(invoices) /\ KeyedOnce(invoices)
    BY <1>1 DEF Books, Numbering
  <2>3. NumbersActiveOnce
    BY <2>2 DEF Keyed, KeyedOnce, NumbersActiveOnce, NumberedOnce
  <2> QED BY <2>1, <2>3
<1>2. Books /\ Numbering => ApartEditsKeepBooks
  BY <1>1 DEF ApartEditsKeepBooks
<1> QED BY <1>2, BooksInvariant, NumberingInvariant, PTL

=============================================================================
