--------------------------- MODULE CorrGroupProofs --------------------------
(***************************************************************************)
(* The distinct set of a value_count group, what event_count, value_sum    *)
(* and value_avg decide on, the types of a group of any type and the two   *)
(* modes of beaconing, for every capacity, window and set of values.       *)
(***************************************************************************)
EXTENDS CorrTemporalProofs

-----------------------------------------------------------------------------
\* KeepAt: the entries of a list at some positions.

KeepOne(kept, d, S, i) == IF i \in S THEN Append(kept, d[i]) ELSE kept

KeepTraces(h, X, d, S, n) ==
  /\ h \in [0 .. n -> Seq(X)]
  /\ h[0] = <<>>
  /\ \A i \in 1 .. n : h[i] = KeepOne(h[i - 1], d, S, i)
  /\ KeepAt(d, S) = h[n]

LEMMA KeepTrace ==
  ASSUME NEW X, NEW d \in Seq(X), NEW S, NEW n \in Nat, n = Len(d)
  PROVE  \E h : KeepTraces(h, X, d, S, n)
<1> DEFINE P == Seq(X)
           all == [i \in DOMAIN d |-> i]
           Eq(f) == f = [T \in SUBSET (DOMAIN all) |->
                           IF T = {} THEN <<>>
                           ELSE IF all[Max(T)] \in S
                                  THEN Append(f[T \ {Max(T)}], d[all[Max(T)]])
                                  ELSE f[T \ {Max(T)}]]
           it == CHOOSE f : Eq(f)
           g == [x \in P \X (1 .. n) |-> KeepOne(x[1], d, S, x[2])]
<1>1. DOMAIN d = 1 .. n /\ DOMAIN all = 1 .. n /\ <<>> \in P
  OBVIOUS
<1>2. KeepAt(d, S) = it[DOMAIN all]
  BY DEF KeepAt, FoldLeft, MapThenFoldSet
<1>3. g \in [P \X (1 .. n) -> P]
  <2>1. \A x \in P, i \in 1 .. n : KeepOne(x, d, S, i) \in P
    BY <1>1 DEF KeepOne
  <2>2. QED
    BY <2>1
<1>4. PICK f : Solves(f, P, <<>>, g, n)
  <2> HIDE DEF g, P
  <2> QED
    BY <1>1, <1>3, FoldExists
<1>5. \A T \in SUBSET (1 .. n) : T # {} => Max(T) \in 1 .. n
  <2>1. \A T \in SUBSET (1 .. n) : T \in SUBSET (0 .. n)
    OBVIOUS
  <2>2. QED
    BY <2>1, Greatest
<1>6. \A x \in P, i \in 1 .. n :
        g[<<x, i>>] = IF all[i] \in S THEN Append(x, d[all[i]]) ELSE x
  BY <1>1 DEF KeepOne
<1>7. Eq(f)
  <2>1. ASSUME NEW T \in SUBSET (1 .. n), T # {}
        PROVE  f[T] = IF all[Max(T)] \in S
                        THEN Append(f[T \ {Max(T)}], d[all[Max(T)]])
                        ELSE f[T \ {Max(T)}]
    <3>1. f[T \ {Max(T)}] \in P /\ f[T] = g[<<f[T \ {Max(T)}], Max(T)>>]
      BY <1>4, <2>1 DEF Solves
    <3> HIDE DEF g, all, P
    <3>2. QED
      BY <1>5, <1>6, <2>1, <3>1
  <2>2. f[{}] = <<>> /\ f = [T \in SUBSET (1 .. n) |-> f[T]]
    BY <1>4 DEF Solves
  <2> HIDE DEF all
  <2>3. QED
    BY <1>1, <2>1, <2>2
<1>8. Eq(it)
  <2> HIDE DEF Eq
  <2> QED
    BY <1>7
<1>9. it[{}] = <<>>
  BY <1>8
<1>10. ASSUME NEW T \in SUBSET (1 .. n), T # {}, it[T \ {Max(T)}] \in P
       PROVE  it[T] = g[<<it[T \ {Max(T)}], Max(T)>>]
  <2> HIDE DEF it, g, all, P
  <2>1. it[T] = IF all[Max(T)] \in S
                  THEN Append(it[T \ {Max(T)}], d[all[Max(T)]])
                  ELSE it[T \ {Max(T)}]
    BY <1>1, <1>8, <1>10
  <2>2. QED
    BY <1>5, <1>6, <1>10, <2>1
<1>11. StepsThrough(it, P, <<>>, g, n)
  <2> HIDE DEF it, g, P
  <2>1. Obeys(it, P, <<>>, g, n)
    BY <1>9, <1>10 DEF Obeys
  <2>2. QED
    BY <1>1, <1>3, <2>1, FoldTrace
<1> DEFINE h == [k \in 0 .. n |-> it[1 .. k]]
<1>12. ASSUME NEW i \in 1 .. n PROVE h[i] = KeepOne(h[i - 1], d, S, i)
  <2> HIDE DEF it, P, all
  <2>1. i - 1 \in 0 .. n /\ i \in 0 .. n
    OBVIOUS
  <2>2. it[1 .. i] = g[<<it[1 .. i - 1], i>>] /\ it[1 .. i - 1] \in P
    <3> HIDE DEF g
    <3> QED
      BY <1>11, <2>1 DEF StepsThrough
  <2>3. g[<<it[1 .. i - 1], i>>] = KeepOne(it[1 .. i - 1], d, S, i)
    BY <2>2
  <2>4. QED
    BY <2>1, <2>2, <2>3
<1> HIDE DEF it, g, P
<1>13. h \in [0 .. n -> P] /\ h[0] = <<>> /\ h[n] = it[1 .. n]
  BY <1>11 DEF StepsThrough
<1>14. KeepTraces(h, X, d, S, n)
  <2> HIDE DEF h, all
  <2> QED
    BY <1>1, <1>2, <1>12, <1>13 DEF KeepTraces, P
<1>15. QED
  BY <1>14

\* x comes before y in d, at positions of S up to k.
Before(x, y, d, S, k) ==
  \E a \in S, b \in S : a \in 1 .. k /\ b \in 1 .. k /\ a < b /\ x = d[a] /\ y = d[b]

\* s holds the entries of d at the positions of S up to k, in order.
Keeps(s, d, S, k) ==
  /\ Len(s) <= k
  /\ \A a \in 1 .. k : a \notin S => Len(s) < k
  /\ \A i \in DOMAIN s : \E a \in S : a \in 1 .. k /\ s[i] = d[a]
  /\ \A a \in S : a \in 1 .. k => \E i \in DOMAIN s : s[i] = d[a]
  /\ \A i, j \in DOMAIN s : i < j => Before(s[i], s[j], d, S, k)

LEMMA KeepsOne ==
  ASSUME NEW X, NEW s \in Seq(X), NEW d \in Seq(X), NEW S,
         NEW k \in 1 .. Len(d), Keeps(s, d, S, k - 1)
  PROVE  Keeps(KeepOne(s, d, S, k), d, S, k)
<1>0. PICK l : l = k - 1
  OBVIOUS
<1>1. Keeps(s, d, S, l)
  BY <1>0
<1>2. Len(s) \in Nat /\ DOMAIN s = 1 .. Len(s) /\ k \in Nat /\ l \in Nat /\ k = l + 1
      /\ Len(s) <= l
  BY <1>0, <1>1 DEF Keeps
<1>3. /\ \A a : a \in 1 .. k <=> (a \in 1 .. l \/ a = k)
      /\ \A a \in 1 .. l : a < k
  BY <1>2
<1>R. PICK r : r = KeepOne(s, d, S, k)
  OBVIOUS
<1>4. CASE k \notin S
  <2>1. r = s
    BY <1>4, <1>R DEF KeepOne
  <2>2. \A a \in S : a \in 1 .. k <=> a \in 1 .. l
    BY <1>3, <1>4
  <2>3. Len(s) < k
    BY <1>2
  <2>4. \A x, y : Before(x, y, d, S, k) <=> Before(x, y, d, S, l)
    BY <2>2 DEF Before
  <2>5. Keeps(s, d, S, k)
    BY <1>1, <1>2, <2>2, <2>3, <2>4 DEF Keeps
  <2>6. QED
    BY <1>R, <2>1, <2>5
<1>5. CASE k \in S
  <2>1. r = Append(s, d[k])
    BY <1>5, <1>R DEF KeepOne
  <2>2. PICK m : m = Len(s) + 1
    OBVIOUS
  <2>3. /\ m \in Nat /\ m <= k /\ Len(r) = m /\ DOMAIN r = 1 .. m /\ r[m] = d[k]
        /\ \A i \in DOMAIN s : r[i] = s[i] /\ i < m
        /\ \A i \in DOMAIN r : i \in DOMAIN s \/ i = m
        /\ \A i \in DOMAIN s : i \in DOMAIN r
    BY <1>2, <2>1, <2>2
  <2>4. ASSUME NEW i \in DOMAIN r PROVE \E a \in S : a \in 1 .. k /\ r[i] = d[a]
    <3>1. CASE i = m
      BY <1>3, <1>5, <2>3, <3>1
    <3>2. CASE i \in DOMAIN s
      <4>1. PICK a \in S : a \in 1 .. l /\ s[i] = d[a]
        BY <1>1, <3>2 DEF Keeps
      <4>2. QED
        BY <1>3, <2>3, <3>2, <4>1
    <3>3. QED
      BY <2>3, <3>1, <3>2
  <2>5. ASSUME NEW a \in S, a \in 1 .. k PROVE \E i \in DOMAIN r : r[i] = d[a]
    <3>1. CASE a = k
      <4>1. m \in DOMAIN r
        BY <1>2, <2>2, <2>3
      <4>2. QED
        BY <2>3, <3>1, <4>1
    <3>2. CASE a \in 1 .. l
      <4>1. PICK i \in DOMAIN s : s[i] = d[a]
        BY <1>1, <3>2 DEF Keeps
      <4>2. QED
        BY <2>3, <4>1
    <3>3. QED
      BY <1>3, <2>5, <3>1, <3>2
  <2>6. ASSUME NEW i \in DOMAIN r, NEW j \in DOMAIN r, i < j
        PROVE  Before(r[i], r[j], d, S, k)
    <3>1. i \in DOMAIN s
      BY <1>2, <2>2, <2>3, <2>6
    <3>2. CASE j = m
      <4>1. PICK a \in S : a \in 1 .. l /\ s[i] = d[a]
        BY <1>1, <3>1 DEF Keeps
      <4>2. a \in 1 .. k /\ k \in 1 .. k /\ a < k
        BY <1>2, <1>3, <4>1
      <4>3. QED
        BY <1>5, <2>3, <3>1, <3>2, <4>1, <4>2 DEF Before
    <3>3. CASE j \in DOMAIN s
      <4>1. Before(s[i], s[j], d, S, l)
        BY <1>1, <2>6, <3>1, <3>3 DEF Keeps
      <4>2. Before(s[i], s[j], d, S, k)
        BY <1>3, <4>1 DEF Before
      <4>3. QED
        BY <2>3, <3>1, <3>3, <4>2
    <3>4. QED
      BY <2>3, <3>2, <3>3
  <2>7. ASSUME NEW a \in 1 .. k, a \notin S PROVE Len(r) < k
    <3>1. a \in 1 .. l
      BY <1>3, <1>5, <2>7
    <3>2. Len(s) < l
      BY <1>1, <2>7, <3>1 DEF Keeps
    <3>3. QED
      BY <1>2, <2>2, <2>3, <3>2
  <2>8. Keeps(r, d, S, k)
    BY <2>3, <2>4, <2>5, <2>6, <2>7 DEF Keeps
  <2>9. QED
    BY <1>R, <2>8
<1>6. QED
  BY <1>4, <1>5

LEMMA KeepAtValue ==
  ASSUME NEW X, NEW d \in Seq(X), NEW S
  PROVE  /\ KeepAt(d, S) \in Seq(X)
         /\ Keeps(KeepAt(d, S), d, S, Len(d))
<1>1. PICK n \in Nat : n = Len(d)
  OBVIOUS
<1>2. PICK h : KeepTraces(h, X, d, S, n)
  BY <1>1, KeepTrace
<1> DEFINE Q == {k \in Nat : k <= n => Keeps(h[k], d, S, k)}
<1>3. 0 \in Q
  BY <1>2 DEF KeepTraces, Keeps
<1>4. ASSUME NEW k \in Nat, k \in Q PROVE k + 1 \in Q
  <2>1. SUFFICES ASSUME k + 1 <= n PROVE Keeps(h[k + 1], d, S, k + 1)
    OBVIOUS
  <2>2. PICK m : m = k + 1
    OBVIOUS
  <2>3. m \in 1 .. n /\ m - 1 = k /\ k \in 0 .. n /\ k <= n
    BY <2>1, <2>2
  <2>4. PICK s : s = h[k]
    OBVIOUS
  <2>5. s \in Seq(X) /\ Keeps(s, d, S, m - 1)
    BY <1>2, <1>4, <2>3, <2>4 DEF KeepTraces
  <2>6. Keeps(KeepOne(s, d, S, m), d, S, m)
    BY <1>1, <2>3, <2>5, KeepsOne
  <2>7. h[m] = KeepOne(s, d, S, m)
    BY <1>2, <2>3, <2>4 DEF KeepTraces
  <2>8. QED
    BY <2>2, <2>6, <2>7
<1>5. n \in Q
  <2> HIDE DEF Q
  <2>1. \A k \in Nat : k \in Q => k + 1 \in Q
    BY <1>4
  <2>2. Nat \subseteq Q
    BY <1>3, <2>1, SetInduction
  <2>3. QED
    BY <2>2
<1>6. h[n] \in Seq(X) /\ KeepAt(d, S) = h[n]
  BY <1>2 DEF KeepTraces
<1>7. QED
  BY <1>1, <1>5, <1>6

-----------------------------------------------------------------------------
\* The most recent values.  L says how recent a value is, the larger the more.

Above(A, L, u) == {w \in A : L[w] > L[u]}

Recency(A, L) ==
  /\ IsFiniteSet(A)
  /\ \A u \in A : L[u] \in Nat
  /\ \A u, w \in A : L[u] = L[w] => u = w

\* d lists the MaxDistinct most recent values of A, the most recent one last.
TopOf(d, A, L) ==
  /\ \A i \in DOMAIN d : d[i].val \in A /\ Cardinality(Above(A, L, d[i].val)) < MaxDistinct
  /\ \A u \in A : Cardinality(Above(A, L, u)) < MaxDistinct => u \in ValuesOf(d)
  /\ \A i, j \in DOMAIN d : i < j => L[d[i].val] < L[d[j].val]

LEMMA AboveFinite ==
  ASSUME NEW A, NEW L, Recency(A, L), NEW u
  PROVE  IsFiniteSet(Above(A, L, u)) /\ Cardinality(Above(A, L, u)) \in Nat
<1>1. Above(A, L, u) \in SUBSET A
  BY DEF Above
<1>2. QED
  BY <1>1, FS_Subset, FS_CardinalityType DEF Recency

\* The more recent one has fewer values above it.
LEMMA AboveShrinks ==
  ASSUME NEW A, NEW L, Recency(A, L), NEW u \in A, NEW w \in A, L[w] > L[u]
  PROVE  Cardinality(Above(A, L, w)) < Cardinality(Above(A, L, u))
<1>1. L[u] \in Nat /\ L[w] \in Nat /\ \A x \in A : L[x] \in Nat
  BY DEF Recency
<1>2. Above(A, L, w) \in SUBSET Above(A, L, u)
  BY <1>1 DEF Above
<1>3. w \in Above(A, L, u) /\ w \notin Above(A, L, w)
  BY <1>1 DEF Above
<1>4. IsFiniteSet(Above(A, L, u))
  BY AboveFinite
<1>5. /\ Cardinality(Above(A, L, w)) <= Cardinality(Above(A, L, u))
      /\ Cardinality(Above(A, L, w)) # Cardinality(Above(A, L, u))
  BY <1>2, <1>3, <1>4, FS_Subset
<1>6. Cardinality(Above(A, L, w)) \in Nat /\ Cardinality(Above(A, L, u)) \in Nat
  BY AboveFinite
<1>7. QED
  BY <1>5, <1>6

\* The values above an entry are those of the entries after it.
LEMMA RankInList ==
  ASSUME NEW X, NEW d \in Seq(X), NEW A, NEW L, Recency(A, L), TopOf(d, A, L),
         NEW i \in DOMAIN d
  PROVE  /\ Cardinality(Above(A, L, d[i].val)) = Len(d) - i
         /\ Above(A, L, d[i].val) = {d[j].val : j \in i + 1 .. Len(d)}
<1>1. PICK n \in Nat : n = Len(d) /\ DOMAIN d = 1 .. n
  OBVIOUS
<1>2. i \in 1 .. n /\ i \in Nat
  BY <1>1
<1>3. PICK u : u = d[i].val
  OBVIOUS
<1>4. \A j \in 1 .. n : d[j].val \in A /\ L[d[j].val] \in Nat
  BY <1>1 DEF TopOf, Recency
<1>5. \A j, k \in 1 .. n : j < k => L[d[j].val] < L[d[k].val]
  BY <1>1 DEF TopOf
<1> DEFINE R == i + 1 .. n
           f == [j \in R |-> d[j].val]
<1>6. \A j \in R : j \in 1 .. n /\ i < j
  BY <1>2
<1>7. \A j \in R : f[j] \in Above(A, L, u)
  <2>1. ASSUME NEW j \in R PROVE d[j].val \in A /\ L[d[j].val] > L[u]
    <3>1. L[u] < L[d[j].val]
      BY <1>2, <1>3, <1>5, <1>6
    <3>2. QED
      BY <1>2, <1>3, <1>4, <1>6, <3>1
  <2>2. QED
    BY <2>1 DEF Above
<1>8. \A w \in Above(A, L, u) : \E j \in R : f[j] = w
  <2>1. SUFFICES ASSUME NEW w \in Above(A, L, u) PROVE \E j \in R : d[j].val = w
    OBVIOUS
  <2>2. w \in A /\ L[w] > L[u] /\ u \in A
    BY <1>2, <1>3, <1>4 DEF Above
  <2>3. Cardinality(Above(A, L, w)) < Cardinality(Above(A, L, u))
    BY <2>2, AboveShrinks
  <2>4. Cardinality(Above(A, L, u)) < MaxDistinct
    BY <1>1, <1>3 DEF TopOf
  <2>5. Cardinality(Above(A, L, w)) < MaxDistinct
    <3>1. /\ Cardinality(Above(A, L, w)) \in Nat /\ Cardinality(Above(A, L, u)) \in Nat
          /\ MaxDistinct \in Nat
      BY AboveFinite, MaxDistinctAssumption
    <3>2. QED
      BY <2>3, <2>4, <3>1
  <2>6. PICK j \in 1 .. n : d[j].val = w
    BY <1>1, <2>2, <2>5 DEF TopOf, ValuesOf
  <2>7. ~(j < i) /\ j # i
    <3>1. L[w] \in Nat /\ L[u] \in Nat
      BY <2>2 DEF Recency
    <3>2. j < i => L[w] < L[u]
      BY <1>2, <1>3, <1>5, <2>6
    <3>3. QED
      BY <1>3, <2>2, <2>6, <3>1, <3>2
  <2>8. j \in R
    BY <1>2, <2>6, <2>7
  <2>9. QED
    BY <2>6, <2>8
<1>9. \A j, k \in R : f[j] = f[k] => j = k
  <2>1. ASSUME NEW j \in R, NEW k \in R, j # k, d[j].val = d[k].val PROVE FALSE
    <3>1. j \in 1 .. n /\ k \in 1 .. n /\ L[d[j].val] \in Nat /\ L[d[k].val] \in Nat
      BY <1>4, <1>6
    <3>2. j < k \/ k < j
      BY <2>1, <3>1
    <3>3. QED
      BY <1>5, <2>1, <3>1, <3>2
  <2>2. QED
    BY <2>1
<1>10. f \in Bijection(R, Above(A, L, u))
  <2>1. f \in [R -> Above(A, L, u)]
    BY <1>7
  <2> HIDE DEF f, R
  <2>2. QED
    BY <1>8, <1>9, <2>1 DEF Bijection, Injection, Surjection, IsInjective
<1>11. IsFiniteSet(R) /\ Cardinality(R) = n - i
  <2>1. i + 1 \in Int /\ n \in Int
    BY <1>2
  <2>2. IsFiniteSet(R) /\ Cardinality(R) = IF i + 1 > n THEN 0 ELSE n - (i + 1) + 1
    BY <2>1, FS_Interval
  <2> HIDE DEF R
  <2>3. QED
    BY <1>2, <2>2
<1>12. Cardinality(Above(A, L, u)) = n - i
  <2> HIDE DEF R, f
  <2> QED
    BY <1>10, <1>11, FS_Bijection DEF ExistsBijection
<1>13. Above(A, L, u) = {d[j].val : j \in R}
  BY <1>7, <1>8
<1>14. QED
  BY <1>1, <1>3, <1>12, <1>13

\* Dropping the least recent values of the list and of the set alike.
LEMMA DropTop ==
  ASSUME NEW X, NEW d \in Seq(X), NEW A, NEW L, Recency(A, L), TopOf(d, A, L),
         NEW B \in SUBSET A, \A u \in B, w \in A : L[w] > L[u] => w \in B,
         NEW S \in SUBSET DOMAIN d, \A i \in DOMAIN d : i \in S <=> d[i].val \in B
  PROVE  Recency(B, L) /\ TopOf(KeepAt(d, S), B, L)
<1>1. Recency(B, L)
  BY FS_Subset DEF Recency
<1>2. \A u \in B : Above(B, L, u) = Above(A, L, u)
  BY DEF Above
<1>3. PICK s : s = KeepAt(d, S)
  OBVIOUS
<1>4. s \in Seq(X) /\ Keeps(s, d, S, Len(d))
  BY <1>3, KeepAtValue
<1>5. DOMAIN d = 1 .. Len(d)
  OBVIOUS
<1>6. ASSUME NEW i \in DOMAIN s
      PROVE  s[i].val \in B /\ Cardinality(Above(B, L, s[i].val)) < MaxDistinct
  <2>1. PICK a \in S : s[i] = d[a]
    BY <1>4 DEF Keeps
  <2>2. d[a].val \in B /\ Cardinality(Above(A, L, d[a].val)) < MaxDistinct
    BY <2>1 DEF TopOf
  <2>3. QED
    BY <1>2, <2>1, <2>2
<1>7. ASSUME NEW u \in B, Cardinality(Above(B, L, u)) < MaxDistinct PROVE u \in ValuesOf(s)
  <2>1. PICK a \in DOMAIN d : d[a].val = u
    BY <1>2, <1>7 DEF TopOf, ValuesOf
  <2>2. a \in S /\ a \in 1 .. Len(d)
    BY <1>5, <2>1
  <2>3. PICK i \in DOMAIN s : s[i] = d[a]
    BY <1>4, <2>2 DEF Keeps
  <2>4. QED
    BY <2>1, <2>3 DEF ValuesOf
<1>8. ASSUME NEW i \in DOMAIN s, NEW j \in DOMAIN s, i < j
      PROVE  L[s[i].val] < L[s[j].val]
  <2>1. Before(s[i], s[j], d, S, Len(d))
    BY <1>4, <1>8 DEF Keeps
  <2>2. PICK a \in S, b \in S : a < b /\ s[i] = d[a] /\ s[j] = d[b]
    BY <2>1 DEF Before
  <2>3. QED
    BY <2>2 DEF TopOf
<1>9. TopOf(s, B, L)
  BY <1>6, <1>7, <1>8 DEF TopOf
<1>10. QED
  BY <1>1, <1>3, <1>9

\* Value v becomes the most recent one, at n.
Renews(B, L, v, n, L2) ==
  /\ Recency(B, L) /\ n \in Nat
  /\ \A u \in B : L[u] < n
  /\ L2[v] = n /\ \A u \in B : u # v => L2[u] = L[u]

LEMMA RenewedRecency ==
  ASSUME NEW B, NEW L, NEW v, NEW n, NEW L2, Renews(B, L, v, n, L2)
  PROVE  Recency(B \cup {v}, L2)
<1>1. IsFiniteSet(B \cup {v})
  BY FS_AddElement DEF Renews, Recency
<1>2. \A u \in B \cup {v} : L2[u] \in Nat
  BY DEF Renews, Recency
<1>3. ASSUME NEW u \in B \cup {v}, NEW w \in B \cup {v}, L2[u] = L2[w], u # w PROVE FALSE
  <2>0. \A x \in B : x # v => L2[x] < n
    <3>1. SUFFICES ASSUME NEW x \in B, x # v PROVE L2[x] < n
      OBVIOUS
    <3>2. L2[x] = L[x] /\ L[x] < n
      BY <3>1 DEF Renews
    <3>3. QED
      BY <3>2
  <2>5. L2[v] = n /\ n \in Nat /\ ~(n < n)
    BY DEF Renews
  <2>1. CASE u = v
    <3>1. w \in B /\ w # v
      BY <1>3, <2>1
    <3>2. L2[w] < n /\ L2[w] = n
      BY <1>3, <2>0, <2>1, <2>5, <3>1
    <3>3. QED
      BY <2>5, <3>2
  <2>2. CASE w = v
    <3>1. u \in B /\ u # v
      BY <1>3, <2>2
    <3>2. L2[u] < n /\ L2[u] = n
      BY <1>3, <2>0, <2>2, <2>5, <3>1
    <3>3. QED
      BY <2>5, <3>2
  <2>3. CASE u # v /\ w # v
    BY <1>3, <2>3 DEF Renews, Recency
  <2>4. QED
    BY <2>1, <2>2, <2>3
<1>4. QED
  BY <1>1, <1>2, <1>3 DEF Recency

LEMMA AboveRenewed ==
  ASSUME NEW B, NEW L, NEW v, NEW n, NEW L2, Renews(B, L, v, n, L2)
  PROVE  /\ Above(B \cup {v}, L2, v) = {}
         /\ \A u \in B : u # v =>
              Above(B \cup {v}, L2, u) = Above(B, L, u) \cup {v}
<1>1. \A u \in B : L[u] \in Nat
  BY DEF Renews, Recency
<1>2. Above(B \cup {v}, L2, v) = {}
  <2>1. SUFFICES ASSUME NEW w \in B \cup {v}, L2[w] > L2[v] PROVE FALSE
    BY DEF Above
  <2>2. w # v
    BY <2>1 DEF Renews
  <2>3. L2[w] = L[w] /\ L[w] < n /\ L[w] \in Nat /\ n \in Nat /\ L2[v] = n
    BY <1>1, <2>1, <2>2 DEF Renews
  <2>4. QED
    BY <2>1, <2>3
<1>3. ASSUME NEW u \in B, u # v
      PROVE  Above(B \cup {v}, L2, u) = Above(B, L, u) \cup {v}
  <2>1. L2[u] = L[u] /\ L[u] < n /\ L[u] \in Nat /\ n \in Nat /\ L2[v] = n
    BY <1>1, <1>3 DEF Renews
  <2>2. \A w \in B : w # v => L2[w] = L[w]
    BY DEF Renews
  <2>3. QED
    BY <2>1, <2>2 DEF Above
<1>4. QED
  BY <1>2, <1>3

\* A list of the same values but v, in the same order, to which v is appended.
LEMMA RenewTop ==
  ASSUME NEW X, NEW B, NEW L, NEW v, NEW n, NEW L2, Renews(B, L, v, n, L2),
         NEW s \in Seq(X), NEW e \in X, e.val = v,
         \A i \in DOMAIN s : s[i].val \in B /\ s[i].val # v,
         \A u \in B : u # v =>
           (u \in ValuesOf(s) <=> Cardinality(Above(B \cup {v}, L2, u)) < MaxDistinct),
         \A i, j \in DOMAIN s : i < j => L[s[i].val] < L[s[j].val]
  PROVE  TopOf(Append(s, e), B \cup {v}, L2)
<1>1. PICK A : A = B \cup {v}
  OBVIOUS
<1>2. PICK m : m = Len(s) + 1
  OBVIOUS
<1>3. PICK r : r = Append(s, e)
  OBVIOUS
<1>4. /\ m \in Nat /\ DOMAIN r = 1 .. m /\ r[m] = e /\ DOMAIN s = 1 .. m - 1
      /\ \A i \in DOMAIN s : r[i] = s[i]
      /\ \A i \in DOMAIN r : i \in DOMAIN s \/ i = m
      /\ \A i \in DOMAIN s : i \in DOMAIN r /\ i < m
      /\ m \in DOMAIN r
  BY <1>2, <1>3
<1>5. \A u : u \in ValuesOf(r) <=> (u \in ValuesOf(s) \/ u = v)
  BY <1>4 DEF ValuesOf
<1>6. Cardinality(Above(A, L2, v)) < MaxDistinct
  <2>1. Above(A, L2, v) = {}
    BY <1>1, AboveRenewed
  <2>2. QED
    BY <2>1, FS_EmptySet, MaxDistinctAssumption
<1>7. ASSUME NEW i \in DOMAIN r
      PROVE  r[i].val \in A /\ Cardinality(Above(A, L2, r[i].val)) < MaxDistinct
  <2>1. CASE i = m
    BY <1>1, <1>4, <1>6, <2>1
  <2>2. CASE i \in DOMAIN s
    <3>1. s[i].val \in B /\ s[i].val # v /\ s[i].val \in ValuesOf(s)
      BY <2>2 DEF ValuesOf
    <3>2. QED
      BY <1>1, <1>4, <2>2, <3>1
  <2>3. QED
    BY <1>4, <2>1, <2>2
<1>8. ASSUME NEW u \in A, Cardinality(Above(A, L2, u)) < MaxDistinct
      PROVE  u \in ValuesOf(r)
  BY <1>1, <1>5, <1>8
<1>9. ASSUME NEW i \in DOMAIN r, NEW j \in DOMAIN r, i < j
      PROVE  L2[r[i].val] < L2[r[j].val]
  <2>1. i \in DOMAIN s
    BY <1>4, <1>9
  <2>2. PICK u : u = s[i].val /\ r[i].val = u /\ u \in B /\ u # v
    BY <1>4, <2>1
  <2>3. L2[u] = L[u] /\ L[u] < n /\ L2[v] = n
    BY <2>2 DEF Renews
  <2>4. CASE j = m
    BY <1>4, <2>2, <2>3, <2>4
  <2>5. CASE j \in DOMAIN s
    <3>1. PICK w : w = s[j].val /\ r[j].val = w /\ w \in B /\ w # v
      BY <1>4, <2>5
    <3>2. L2[w] = L[w]
      BY <3>1 DEF Renews
    <3>3. L[u] < L[w]
      BY <1>9, <2>1, <2>2, <2>5, <3>1
    <3>4. QED
      BY <2>2, <2>3, <3>1, <3>2, <3>3
  <2>6. QED
    BY <1>4, <2>4, <2>5
<1>10. TopOf(r, A, L2)
  BY <1>7, <1>8, <1>9 DEF TopOf
<1>11. QED
  BY <1>1, <1>3, <1>10

\* How the ranks change when v becomes the most recent.
LEMMA RankRenewed ==
  ASSUME NEW B, NEW L, NEW v, NEW n, NEW L2, Renews(B, L, v, n, L2),
         NEW u \in B, u # v
  PROVE  \E old \in Nat, new \in Nat :
           /\ old = Cardinality(Above(B, L, u))
           /\ new = Cardinality(Above(B \cup {v}, L2, u))
           /\ v \in Above(B, L, u) => new = old
           /\ v \notin Above(B, L, u) => new = old + 1
<1>1. PICK old \in Nat : old = Cardinality(Above(B, L, u))
  BY AboveFinite DEF Renews
<1>2. PICK new : new = Cardinality(Above(B \cup {v}, L2, u))
  OBVIOUS
<1>3. Above(B \cup {v}, L2, u) = Above(B, L, u) \cup {v}
  BY AboveRenewed
<1>4. IsFiniteSet(Above(B, L, u))
  BY AboveFinite DEF Renews
<1>5. CASE v \in Above(B, L, u)
  <2>1. new = old
    BY <1>1, <1>2, <1>3, <1>5
  <2>2. QED
    BY <1>1, <1>2, <1>5, <2>1
<1>6. CASE v \notin Above(B, L, u)
  <2>1. new = old + 1
    BY <1>1, <1>2, <1>3, <1>4, <1>6, FS_AddElement
  <2>2. QED
    BY <1>1, <1>2, <1>6, <2>1
<1>7. QED
  BY <1>5, <1>6

\* A value the list has moves to its end.
LEMMA MoveToEnd ==
  ASSUME NEW X, NEW d \in Seq(X), NEW B, NEW L, NEW v, NEW n, NEW L2,
         Renews(B, L, v, n, L2), TopOf(d, B, L), NEW e \in X, e.val = v,
         v \in ValuesOf(d)
  PROVE  TopOf(Append(Without(d, v), e), B \cup {v}, L2)
<1> DEFINE S == {i \in DOMAIN d : d[i].val # v}
<1>1. PICK s : s = Without(d, v)
  OBVIOUS
<1>2. s \in Seq(X) /\ Keeps(s, d, S, Len(d))
  BY <1>1, KeepAtValue DEF Without
<1>3. DOMAIN d = 1 .. Len(d) /\ \A a \in S : a \in DOMAIN d /\ d[a].val # v
  OBVIOUS
<1>4. \A a \in DOMAIN d : d[a].val # v => a \in S
  OBVIOUS
<1> HIDE DEF S
<1>5. \A i \in DOMAIN s : \E a \in S : s[i] = d[a]
  BY <1>2 DEF Keeps
<1>6. \A a \in S : \E i \in DOMAIN s : s[i] = d[a]
  BY <1>2, <1>3 DEF Keeps
<1>7. \A i \in DOMAIN s : s[i].val \in B /\ s[i].val # v
  BY <1>3, <1>5 DEF TopOf
<1>8. \A i, j \in DOMAIN s : i < j => L[s[i].val] < L[s[j].val]
  <2>1. SUFFICES ASSUME NEW i \in DOMAIN s, NEW j \in DOMAIN s, i < j
                 PROVE  L[s[i].val] < L[s[j].val]
    OBVIOUS
  <2>2. Before(s[i], s[j], d, S, Len(d))
    BY <1>2, <2>1 DEF Keeps
  <2>3. PICK a \in S, b \in S : a < b /\ s[i] = d[a] /\ s[j] = d[b]
    BY <2>2 DEF Before
  <2>4. QED
    BY <1>3, <2>3 DEF TopOf
<1>9. ASSUME NEW u \in B, u # v
      PROVE  u \in ValuesOf(s) <=> Cardinality(Above(B \cup {v}, L2, u)) < MaxDistinct
  <2>1. PICK old \in Nat, new \in Nat :
           /\ old = Cardinality(Above(B, L, u))
           /\ new = Cardinality(Above(B \cup {v}, L2, u))
           /\ v \in Above(B, L, u) => new = old
           /\ v \notin Above(B, L, u) => new = old + 1
    BY <1>9, RankRenewed
  <2>2. MaxDistinct \in Nat
    BY MaxDistinctAssumption
  <2>3. u \in ValuesOf(s) <=> u \in ValuesOf(d)
    BY <1>3, <1>4, <1>5, <1>6, <1>9 DEF ValuesOf
  <2>4. u \in ValuesOf(d) <=> old < MaxDistinct
    <3>1. u \in ValuesOf(d) => Cardinality(Above(B, L, u)) < MaxDistinct
      BY DEF ValuesOf, TopOf
    <3>2. Cardinality(Above(B, L, u)) < MaxDistinct => u \in ValuesOf(d)
      BY DEF TopOf
    <3>3. QED
      BY <2>1, <3>1, <3>2
  <2>5. old < MaxDistinct /\ v \notin Above(B, L, u) => old + 1 < MaxDistinct
    <3>1. SUFFICES ASSUME old < MaxDistinct, v \notin Above(B, L, u)
                   PROVE  old + 1 < MaxDistinct
      OBVIOUS
    <3>2. PICK high : high = Cardinality(Above(B, L, v))
      OBVIOUS
    <3>3. v \in B /\ high < MaxDistinct
      BY <3>2 DEF ValuesOf, TopOf
    <3>4. L[u] > L[v]
      <4>1. L[u] \in Nat /\ L[v] \in Nat /\ L[u] # L[v]
        BY <1>9, <3>3 DEF Renews, Recency
      <4>2. ~(L[v] > L[u])
        BY <3>1, <3>3 DEF Above
      <4>3. QED
        BY <4>1, <4>2
    <3>5. Recency(B, L)
      BY DEF Renews
    <3>6. old < high /\ high \in Nat
      BY <2>1, <3>2, <3>3, <3>4, <3>5, AboveShrinks, AboveFinite
    <3>7. QED
      BY <2>2, <3>3, <3>6
  <2>6. QED
    BY <2>1, <2>2, <2>3, <2>4, <2>5
<1>10. TopOf(Append(s, e), B \cup {v}, L2)
  BY <1>2, <1>7, <1>8, <1>9, RenewTop
<1>11. QED
  BY <1>1, <1>10

\* A new value takes the place of the oldest one when the list is full.
LEMMA Admit ==
  ASSUME NEW X, NEW d \in Seq(X), NEW B, NEW L, NEW v, NEW n, NEW L2,
         Renews(B, L, v, n, L2), TopOf(d, B, L), NEW e \in X, e.val = v,
         v \notin ValuesOf(d)
  PROVE  TopOf(Append(EvictOldest(d), e), B \cup {v}, L2)
<1>0. Recency(B, L) /\ MaxDistinct \in Nat \ {0}
  BY MaxDistinctAssumption DEF Renews
<1>1. PICK m \in Nat : m = Len(d) /\ DOMAIN d = 1 .. m
  OBVIOUS
<1>2. \A i \in 1 .. m :
        /\ d[i].val \in B /\ d[i].val # v
        /\ Cardinality(Above(B, L, d[i].val)) = m - i
        /\ v \notin Above(B, L, d[i].val)
  <2>1. SUFFICES ASSUME NEW i \in 1 .. m
                 PROVE  /\ d[i].val \in B /\ d[i].val # v
                        /\ Cardinality(Above(B, L, d[i].val)) = m - i
                        /\ v \notin Above(B, L, d[i].val)
    OBVIOUS
  <2>2. /\ Cardinality(Above(B, L, d[i].val)) = Len(d) - i
        /\ Above(B, L, d[i].val) = {d[j].val : j \in i + 1 .. Len(d)}
    BY <1>0, <1>1, RankInList
  <2>3. \A j \in i + 1 .. Len(d) : j \in DOMAIN d
    BY <1>1
  <2>4. v \notin {d[j].val : j \in i + 1 .. Len(d)}
    BY <2>3 DEF ValuesOf
  <2>5. d[i].val \in B /\ d[i].val # v
    BY <1>1 DEF TopOf, ValuesOf
  <2>6. QED
    BY <1>1, <2>2, <2>4, <2>5
<1>3. m <= MaxDistinct
  <2>1. CASE m = 0
    BY <1>0, <2>1
  <2>2. CASE m # 0
    <3>1. 1 \in 1 .. m
      BY <2>2
    <3>2. Cardinality(Above(B, L, d[1].val)) = m - 1
      BY <1>2, <3>1
    <3>3. Cardinality(Above(B, L, d[1].val)) < MaxDistinct
      BY <1>1, <3>1 DEF TopOf
    <3>4. QED
      BY <1>0, <3>2, <3>3
  <2>3. QED
    BY <2>1, <2>2
<1>4. PICK s : s = EvictOldest(d)
  OBVIOUS
<1>5. PICK q \in {0, 1} : /\ s \in Seq(X) /\ q <= m /\ Len(s) = m - q
                          /\ \A i \in 1 .. m - q : s[i] = d[i + q]
                          /\ q = 1 <=> m = MaxDistinct
  <2>1. CASE m = MaxDistinct
    <3>1. s = Tail(d) /\ d # <<>> /\ m >= 1
      BY <1>0, <1>1, <1>4, <2>1 DEF EvictOldest
    <3>2. s \in Seq(X) /\ Len(s) = m - 1 /\ \A i \in 1 .. m - 1 : s[i] = d[i + 1]
      BY <1>1, <3>1
    <3>3. QED
      BY <2>1, <3>1, <3>2
  <2>2. CASE m # MaxDistinct
    <3>1. s = d
      BY <1>0, <1>1, <1>3, <1>4, <2>2 DEF EvictOldest
    <3>2. \A i \in 1 .. m - 0 : s[i] = d[i + 0]
      BY <3>1
    <3>3. QED
      BY <1>1, <2>2, <3>1, <3>2
  <2>3. QED
    BY <2>1, <2>2
<1>6. PICK p : p = m - q
  OBVIOUS
<1>7. /\ p \in Nat /\ DOMAIN s = 1 .. p /\ \A i \in 1 .. p : s[i] = d[i + q] /\ i + q \in 1 .. m
      /\ m = p + q
  BY <1>1, <1>5, <1>6
<1>8. \A i \in DOMAIN s : s[i].val \in B /\ s[i].val # v
  BY <1>2, <1>7
<1>9. \A i, j \in DOMAIN s : i < j => L[s[i].val] < L[s[j].val]
  <2>1. SUFFICES ASSUME NEW i \in 1 .. p, NEW j \in 1 .. p, i < j
                 PROVE  L[s[i].val] < L[s[j].val]
    BY <1>7
  <2>2. PICK a, b : a = i + q /\ b = j + q
    OBVIOUS
  <2>3. a \in DOMAIN d /\ b \in DOMAIN d /\ a < b /\ s[i] = d[a] /\ s[j] = d[b]
    BY <1>1, <1>5, <1>7, <2>1, <2>2
  <2>4. L[d[a].val] < L[d[b].val]
    BY <2>3 DEF TopOf
  <2>5. QED
    BY <2>3, <2>4
<1>10. ASSUME NEW u \in B, u # v
       PROVE  u \in ValuesOf(s) <=> Cardinality(Above(B \cup {v}, L2, u)) < MaxDistinct
  <2>1. PICK old \in Nat, new \in Nat :
           /\ old = Cardinality(Above(B, L, u))
           /\ new = Cardinality(Above(B \cup {v}, L2, u))
           /\ v \in Above(B, L, u) => new = old
           /\ v \notin Above(B, L, u) => new = old + 1
    BY <1>10, RankRenewed
  <2>2. CASE u \notin ValuesOf(d)
    <3>1. ~(old < MaxDistinct)
      BY <2>1, <2>2 DEF TopOf
    <3>2. ~(new < MaxDistinct)
      BY <1>0, <2>1, <3>1
    <3>3. u \notin ValuesOf(s)
      BY <1>1, <1>7, <2>2 DEF ValuesOf
    <3>4. QED
      BY <2>1, <3>2, <3>3
  <2>3. CASE u \in ValuesOf(d)
    <3>1. PICK k \in 1 .. m : d[k].val = u
      BY <1>1, <2>3 DEF ValuesOf
    <3>2. old = m - k /\ new = (m - k) + 1
      BY <1>2, <2>1, <3>1
    <3>3. new < MaxDistinct <=> k > q
      BY <1>0, <1>3, <1>5, <3>2
    <3>4. k > q => u \in ValuesOf(s)
      <4>1. SUFFICES ASSUME k > q PROVE u \in ValuesOf(s)
        OBVIOUS
      <4>2. PICK i : i = k - q
        OBVIOUS
      <4>3. i \in 1 .. p /\ i + q = k
        BY <1>5, <1>7, <4>1, <4>2
      <4>4. s[i] = d[k] /\ i \in DOMAIN s
        BY <1>7, <4>3
      <4>5. QED
        BY <3>1, <4>4 DEF ValuesOf
    <3>5. u \in ValuesOf(s) => k > q
      <4>1. SUFFICES ASSUME u \in ValuesOf(s) PROVE k > q
        OBVIOUS
      <4>2. PICK i \in 1 .. p : s[i].val = u
        BY <1>7, <4>1 DEF ValuesOf
      <4>3. PICK j : j = i + q
        OBVIOUS
      <4>4. j \in 1 .. m /\ d[j].val = u /\ j > q
        BY <1>5, <1>7, <4>2, <4>3
      <4>5. old = m - j
        BY <1>2, <2>1, <4>4
      <4>6. QED
        BY <1>5, <3>2, <4>4, <4>5
    <3>6. QED
      BY <2>1, <3>3, <3>4, <3>5
  <2>4. QED
    BY <2>2, <2>3
<1>11. TopOf(Append(s, e), B \cup {v}, L2)
  BY <1>5, <1>8, <1>9, <1>10, RenewTop
<1>12. QED
  BY <1>4, <1>11

-----------------------------------------------------------------------------
\* The values of a log.

ValuedIn(l) == {i \in DOMAIN l : l[i].v # NoVal}
ValuesIn(l) == {l[i].v : i \in ValuedIn(l)}

\* The last event of every value.
LastIn(l) == [u \in ValuesIn(l) |-> Max({i \in ValuedIn(l) : l[i].v = u})]

\* The values not older than start.
LiveFrom(l, start) == {l[i].v : i \in {j \in ValuedIn(l) : l[j].t >= start}}

\* The values in the window of the last event that brought one.
LiveIn(l) == LiveFrom(l, l[Max(ValuedIn(l))].t - Span)

LEMMA LastValue ==
  ASSUME NEW l \in Seq(Entry), NEW u \in ValuesIn(l)
  PROVE  /\ LastIn(l)[u] \in ValuedIn(l) /\ LastIn(l)[u] \in Nat
         /\ l[LastIn(l)[u]].v = u
         /\ \A i \in ValuedIn(l) : l[i].v = u => i <= LastIn(l)[u]
<1>1. PICK i \in ValuedIn(l) : l[i].v = u
  BY DEF ValuesIn
<1>2. PICK S : S = {j \in ValuedIn(l) : l[j].v = u}
  OBVIOUS
<1>3. S \in SUBSET (0 .. Len(l)) /\ S # {} /\ Len(l) \in Nat
  BY <1>1, <1>2, LogTimes DEF ValuedIn
<1>4. Max(S) \in S /\ \A m \in S : m <= Max(S)
  BY <1>3, Greatest
<1>5. LastIn(l)[u] = Max(S)
  BY <1>2 DEF LastIn
<1>6. Max(S) \in Nat
  <2>1. \A j \in S : j \in Nat
    BY <1>2, LogTimes DEF ValuedIn
  <2>2. QED
    BY <1>4, <2>1
<1>7. QED
  BY <1>2, <1>4, <1>5, <1>6

LEMMA LastIs ==
  ASSUME NEW l \in Seq(Entry), NEW u \in ValuesIn(l), NEW k \in ValuedIn(l), l[k].v = u,
         \A i \in ValuedIn(l) : l[i].v = u => i <= k
  PROVE  LastIn(l)[u] = k
<1>1. LastIn(l)[u] \in ValuedIn(l) /\ l[LastIn(l)[u]].v = u /\ k <= LastIn(l)[u]
  BY LastValue
<1>2. LastIn(l)[u] <= k
  BY <1>1
<1>3. k \in Nat /\ LastIn(l)[u] \in Nat
  BY <1>1, LogTimes DEF ValuedIn
<1>4. QED
  BY <1>1, <1>2, <1>3

LEMMA ValuesRecency ==
  ASSUME NEW l \in Seq(Entry), NEW A \in SUBSET ValuesIn(l)
  PROVE  Recency(A, LastIn(l))
<1> DEFINE f == [u \in A |-> LastIn(l)[u]]
<1>1. \A u \in A : /\ LastIn(l)[u] \in 1 .. Len(l) /\ LastIn(l)[u] \in Nat
                   /\ l[LastIn(l)[u]].v = u
  BY LastValue, LogTimes DEF ValuedIn
<1>2. f \in Injection(A, 1 .. Len(l))
  BY <1>1 DEF Injection, IsInjective
<1>3. IsFiniteSet(1 .. Len(l))
  BY LogTimes, FS_Interval
<1>4. IsFiniteSet(A)
  <2> HIDE DEF f
  <2> QED
    BY <1>2, <1>3, FS_Injection
<1>5. \A u, w \in A : LastIn(l)[u] = LastIn(l)[w] => u = w
  BY <1>1
<1>6. QED
  BY <1>1, <1>4, <1>5 DEF Recency

\* An event without a value changes none of this.
LEMMA NothingNew ==
  ASSUME NEW l \in Seq(Entry), NEW r \in Entry, r.v = NoVal, NEW g, g = Append(l, r)
  PROVE  /\ ValuedIn(g) = ValuedIn(l) /\ \A i \in ValuedIn(l) : g[i] = l[i]
         /\ ValuesIn(g) = ValuesIn(l) /\ LastIn(g) = LastIn(l)
         /\ ValuedIn(l) # {} => LiveIn(g) = LiveIn(l)
         /\ ValuedIn(l) = {} => LiveIn(g) = {} /\ LiveIn(l) = {}
<1>1. PICK n : n = Len(l) + 1
  OBVIOUS
<1>2. /\ DOMAIN l = 1 .. Len(l) /\ DOMAIN g = 1 .. n /\ g[n] = r
      /\ \A i \in DOMAIN l : g[i] = l[i]
      /\ \A i \in DOMAIN g : i \in DOMAIN l \/ i = n
      /\ \A i \in DOMAIN l : i \in DOMAIN g
  BY <1>1
<1>3. ValuedIn(g) = ValuedIn(l) /\ \A i \in ValuedIn(l) : g[i] = l[i]
  BY <1>2 DEF ValuedIn
<1>4. ValuesIn(g) = ValuesIn(l)
  BY <1>3 DEF ValuesIn
<1>5. \A u : {i \in ValuedIn(g) : g[i].v = u} = {i \in ValuedIn(l) : l[i].v = u}
  BY <1>3
<1>6. LastIn(g) = LastIn(l)
  BY <1>4, <1>5 DEF LastIn
<1>7. \A s : LiveFrom(g, s) = LiveFrom(l, s)
  BY <1>3 DEF LiveFrom
<1>8. ValuedIn(l) # {} => LiveIn(g) = LiveIn(l)
  <2>1. SUFFICES ASSUME ValuedIn(l) # {} PROVE LiveIn(g) = LiveIn(l)
    OBVIOUS
  <2>2. ValuedIn(l) \in SUBSET (0 .. Len(l)) /\ Len(l) \in Nat
    BY <1>2 DEF ValuedIn
  <2>3. Max(ValuedIn(l)) \in ValuedIn(l)
    BY <2>1, <2>2, Greatest
  <2>4. QED
    BY <1>3, <1>7, <2>3 DEF LiveIn
<1>9. ValuedIn(l) = {} => LiveIn(g) = {} /\ LiveIn(l) = {}
  BY <1>3 DEF LiveIn, LiveFrom
<1>10. QED
  BY <1>3, <1>4, <1>6, <1>8, <1>9

\* g adds r at n to l; B are values that l has.
AddsLast(l, r, g, n, B) ==
  /\ B \subseteq ValuesIn(l) /\ B \cup {r.v} \subseteq ValuesIn(g)
  /\ Renews(B, LastIn(l), r.v, n, LastIn(g))
  /\ \A u \in B : u # r.v => g[LastIn(g)[u]] = l[LastIn(l)[u]]
  /\ g[n] = r

LEMMA OneMoreLast ==
  ASSUME NEW l \in Seq(Entry), NEW r \in Entry, r.v # NoVal, NEW g, g = Append(l, r),
         NEW n, n = Len(l) + 1, NEW B \in SUBSET ValuesIn(l)
  PROVE  AddsLast(l, r, g, n, B)
<1>1. /\ n \in Nat /\ DOMAIN l = 1 .. Len(l) /\ DOMAIN g = 1 .. n /\ g[n] = r
      /\ \A i \in DOMAIN l : g[i] = l[i] /\ i < n
      /\ \A i \in DOMAIN g : i \in DOMAIN l \/ i = n
      /\ \A i \in DOMAIN l : i \in DOMAIN g
      /\ n \in DOMAIN g
      /\ g \in Seq(Entry)
  OBVIOUS
<1>2. /\ \A i \in ValuedIn(l) : i \in ValuedIn(g) /\ i \in DOMAIN l
      /\ n \in ValuedIn(g)
      /\ \A i \in ValuedIn(g) : i \in ValuedIn(l) \/ i = n
  BY <1>1 DEF ValuedIn
<1>3. \A u \in ValuesIn(l) :
        /\ LastIn(l)[u] \in ValuedIn(l) /\ LastIn(l)[u] \in Nat
        /\ LastIn(l)[u] \in DOMAIN l /\ l[LastIn(l)[u]].v = u
        /\ \A i \in ValuedIn(l) : l[i].v = u => i <= LastIn(l)[u]
  BY LastValue DEF ValuedIn
<1>4. r.v \in ValuesIn(g) /\ B \subseteq ValuesIn(g)
  <2>1. r.v \in ValuesIn(g)
    BY <1>1, <1>2 DEF ValuesIn
  <2>2. ASSUME NEW u \in ValuesIn(l) PROVE u \in ValuesIn(g)
    <3>1. PICK i \in ValuedIn(l) : l[i].v = u
      BY DEF ValuesIn
    <3>2. i \in ValuedIn(g) /\ g[i].v = u
      BY <1>1, <1>2, <3>1
    <3>3. QED
      BY <3>2 DEF ValuesIn
  <2>3. QED
    BY <2>1, <2>2
<1>5. LastIn(g)[r.v] = n
  <2>1. \A i \in ValuedIn(g) : i <= n
    BY <1>1, <1>2
  <2>2. QED
    BY <1>1, <1>2, <1>4, <2>1, LastIs
<1>6. ASSUME NEW u \in B, u # r.v PROVE LastIn(g)[u] = LastIn(l)[u]
  <2>1. PICK k : k = LastIn(l)[u]
    OBVIOUS
  <2>2. k \in ValuedIn(l) /\ l[k].v = u /\ \A i \in ValuedIn(l) : l[i].v = u => i <= k
    BY <1>3, <2>1
  <2>3. k \in ValuedIn(g) /\ g[k].v = u
    BY <1>1, <1>2, <2>2
  <2>4. \A i \in ValuedIn(g) : g[i].v = u => i <= k
    BY <1>1, <1>2, <1>6, <2>2
  <2>5. LastIn(g)[u] = k
    BY <1>1, <1>4, <2>3, <2>4, LastIs
  <2>6. QED
    BY <2>1, <2>5
<1>7. ASSUME NEW u \in B, u # r.v PROVE g[LastIn(g)[u]] = l[LastIn(l)[u]]
  <2>1. LastIn(l)[u] \in DOMAIN l
    BY <1>3
  <2>2. QED
    BY <1>1, <1>6, <1>7, <2>1
<1>8. Renews(B, LastIn(l), r.v, n, LastIn(g))
  <2>1. Recency(B, LastIn(l))
    BY ValuesRecency
  <2>2. \A u \in B : LastIn(l)[u] < n
    BY <1>1, <1>3
  <2>3. QED
    BY <1>1, <1>5, <1>6, <2>1, <2>2 DEF Renews
<1>9. QED
  BY <1>1, <1>4, <1>7, <1>8 DEF AddsLast

\* The values an event leaves live: those still in its window and its own.
Survivors(l, start) == {u \in LiveIn(l) : l[LastIn(l)[u]].t >= start}

\* B are the values that stay live then.
Moves(l, r, g, n, B) ==
  /\ AddsLast(l, r, g, n, B) /\ B \subseteq LiveIn(l)
  /\ \A u \in B, w \in LiveIn(l) : LastIn(l)[w] > LastIn(l)[u] => w \in B
  /\ LiveIn(g) = B \cup {r.v}

LEMMA OneMoreValue ==
  ASSUME NEW l \in Seq(Entry), NEW r \in Entry, r.v # NoVal, NEW g, g = Append(l, r),
         NEW n, n = Len(l) + 1, Ascending(g), Span \in Nat
  PROVE  Moves(l, r, g, n, Survivors(l, r.t - Span))
<1> DEFINE start == r.t - Span
           B == Survivors(l, start)
<1>1. /\ n \in Nat /\ DOMAIN l = 1 .. Len(l) /\ DOMAIN g = 1 .. n /\ g[n] = r
      /\ \A i \in DOMAIN l : g[i] = l[i] /\ i < n
      /\ \A i \in DOMAIN g : i \in DOMAIN l \/ i = n
      /\ \A i \in DOMAIN l : i \in DOMAIN g
      /\ n \in DOMAIN g
      /\ g \in Seq(Entry)
  OBVIOUS
<1>2. /\ \A i \in ValuedIn(l) : i \in ValuedIn(g) /\ i \in DOMAIN l
      /\ n \in ValuedIn(g)
      /\ \A i \in ValuedIn(g) : i \in ValuedIn(l) \/ i = n
  BY <1>1 DEF ValuedIn
<1>3. \A i \in DOMAIN l : l[i].t \in Nat /\ l[i].t <= r.t
  <2>1. \A i \in DOMAIN l : l[i].t \in Nat
    BY LogTimes
  <2>2. \A i \in DOMAIN l : g[i].t <= g[n].t
    BY <1>1 DEF Ascending
  <2>3. QED
    BY <1>1, <2>1, <2>2
<1>4. r.t \in Nat /\ start \in Int
  <2>1. \A x \in Entry : x.t \in Nat
    BY DEF Entry, Time
  <2>2. QED
    BY <2>1
<1>5. \A i, j \in DOMAIN l : i <= j => l[i].t <= l[j].t
  <2>1. SUFFICES ASSUME NEW i \in DOMAIN l, NEW j \in DOMAIN l, i <= j
                 PROVE  l[i].t <= l[j].t
    OBVIOUS
  <2>2. CASE i = j
    BY <1>3, <2>2
  <2>3. CASE i < j
    <3>1. g[i].t <= g[j].t
      BY <1>1, <2>3 DEF Ascending
    <3>2. QED
      BY <1>1, <3>1
  <2>4. QED
    BY <1>1, <2>1, <2>2, <2>3
<1>6. LiveIn(l) \subseteq ValuesIn(l) /\ B \subseteq LiveIn(l) /\ B \subseteq ValuesIn(l)
  BY DEF LiveIn, LiveFrom, ValuesIn, Survivors
<1>7. \A u \in ValuesIn(l) :
        /\ LastIn(l)[u] \in ValuedIn(l) /\ LastIn(l)[u] \in Nat
        /\ LastIn(l)[u] \in DOMAIN l /\ l[LastIn(l)[u]].v = u
        /\ \A i \in ValuedIn(l) : l[i].v = u => i <= LastIn(l)[u]
  BY LastValue DEF ValuedIn
<1>8. \A u \in B, w \in LiveIn(l) : LastIn(l)[w] > LastIn(l)[u] => w \in B
  <2>1. SUFFICES ASSUME NEW u \in B, NEW w \in LiveIn(l), LastIn(l)[w] > LastIn(l)[u]
                 PROVE  l[LastIn(l)[w]].t >= start
    BY DEF Survivors
  <2>2. u \in ValuesIn(l) /\ w \in ValuesIn(l) /\ l[LastIn(l)[u]].t >= start
    BY <1>6 DEF Survivors
  <2>3. PICK a, b : a = LastIn(l)[u] /\ b = LastIn(l)[w]
    OBVIOUS
  <2>4. a \in DOMAIN l /\ b \in DOMAIN l /\ a \in Nat /\ b \in Nat
    BY <1>7, <2>2, <2>3
  <2>5. l[a].t <= l[b].t /\ l[a].t >= start
    BY <1>5, <2>1, <2>2, <2>3, <2>4
  <2>6. QED
    BY <1>3, <1>4, <2>3, <2>4, <2>5
<1>9. AddsLast(l, r, g, n, B)
  <2> HIDE DEF B
  <2> QED
    BY <1>6, OneMoreLast
<1>10. LiveIn(g) = LiveFrom(g, start)
  <2>1. ValuedIn(g) \in SUBSET (0 .. n)
    BY <1>1 DEF ValuedIn
  <2>2. PICK m : m = Max(ValuedIn(g))
    OBVIOUS
  <2>3. m \in ValuedIn(g) /\ n <= m
    BY <1>1, <1>2, <2>1, <2>2, Greatest
  <2>4. m = n
    BY <1>1, <2>1, <2>3
  <2>5. QED
    BY <1>1, <2>2, <2>4 DEF LiveIn
<1>11. LiveFrom(g, start) \subseteq B \cup {r.v}
  <2>1. SUFFICES ASSUME NEW i \in ValuedIn(g), g[i].t >= start PROVE g[i].v \in B \cup {r.v}
    BY DEF LiveFrom
  <2>2. CASE i = n
    BY <1>1, <2>2
  <2>3. CASE i \in ValuedIn(l)
    <3>1. PICK u : u = l[i].v
      OBVIOUS
    <3>2. u \in ValuesIn(l) /\ g[i].v = u /\ l[i].t >= start /\ i \in DOMAIN l
      BY <1>1, <1>2, <2>1, <2>3, <3>1 DEF ValuesIn
    <3>3. PICK k : k = LastIn(l)[u]
      OBVIOUS
    <3>4. k \in DOMAIN l /\ i <= k
      BY <1>7, <2>3, <3>1, <3>2, <3>3
    <3>5. l[k].t >= start
      <4>1. l[i].t <= l[k].t
        BY <1>5, <3>2, <3>4
      <4>2. QED
        BY <1>3, <1>4, <3>2, <3>4, <4>1
    <3>6. u \in LiveIn(l)
      <4>1. PICK m : m = Max(ValuedIn(l))
        OBVIOUS
      <4>2. ValuedIn(l) \in SUBSET (0 .. Len(l)) /\ Len(l) \in Nat
        BY <1>1 DEF ValuedIn
      <4>3. m \in ValuedIn(l)
        BY <2>3, <4>1, <4>2, Greatest
      <4>4. m \in DOMAIN l
        BY <1>2, <4>3
      <4>5. l[m].t <= r.t /\ l[m].t \in Nat /\ l[i].t \in Nat
        BY <1>3, <3>2, <4>4
      <4>6. l[i].t >= l[m].t - Span
        BY <1>4, <3>2, <4>5
      <4>7. QED
        BY <2>3, <3>1, <4>1, <4>6 DEF LiveIn, LiveFrom
    <3>7. QED
      BY <3>2, <3>3, <3>5, <3>6 DEF Survivors
  <2>4. QED
    BY <1>2, <2>2, <2>3
<1>12. B \cup {r.v} \subseteq LiveFrom(g, start)
  <2>1. r.v \in LiveFrom(g, start)
    <3>1. g[n].t >= start
      BY <1>1, <1>4
    <3>2. QED
      BY <1>1, <1>2, <3>1 DEF LiveFrom
  <2>2. ASSUME NEW u \in B PROVE u \in LiveFrom(g, start)
    <3>1. PICK k : k = LastIn(l)[u]
      OBVIOUS
    <3>2. k \in ValuedIn(l) /\ l[k].v = u /\ l[k].t >= start
      BY <1>6, <1>7, <3>1 DEF Survivors
    <3>3. k \in ValuedIn(g) /\ g[k] = l[k]
      BY <1>1, <1>2, <3>2
    <3>4. QED
      BY <3>2, <3>3 DEF LiveFrom
  <2>3. QED
    BY <2>1, <2>2
<1>13. LiveIn(g) = B \cup {r.v}
  BY <1>10, <1>11, <1>12
<1>14. QED
  BY <1>6, <1>8, <1>9, <1>13 DEF Moves

-----------------------------------------------------------------------------
\* The distinct set.

Value == [val : Vals, ts : Time]

\* Every entry bears the time of the last event that brought its value.
Stamped(d, l) ==
  \A i \in DOMAIN d : d[i].val \in ValuesIn(l) /\ d[i].ts = l[LastIn(l)[d[i].val]].t

\* d lists the most recent values of the window of l.
Lists(d, l) == Stamped(d, l) /\ TopOf(d, LiveIn(l), LastIn(l))

LEMMA ValueTypes ==
  ASSUME NEW d \in Seq(Value), NEW v \in Vals, NEW t \in Time, NEW start
  PROVE  /\ DropOld(d, start) \in Seq(Value) /\ Without(d, v) \in Seq(Value)
         /\ EvictOldest(d) \in Seq(Value)
         /\ ObserveValue(d, v, t, start, TRUE) \in Seq(Value)
         /\ ObserveValue(d, v, t, start, FALSE) \in Seq(Value)
<1>1. \A e \in Seq(Value) :
        DropOld(e, start) \in Seq(Value) /\ Without(e, v) \in Seq(Value)
  BY KeepAtValue DEF DropOld, Without
<1>2. \A e \in Seq(Value) : EvictOldest(e) \in Seq(Value)
  <2>1. SUFFICES ASSUME NEW e \in Seq(Value) PROVE EvictOldest(e) \in Seq(Value)
    OBVIOUS
  <2>2. CASE Len(e) >= MaxDistinct
    <3>1. e # <<>>
      BY <2>2, MaxDistinctAssumption
    <3>2. QED
      BY <2>2, <3>1 DEF EvictOldest
  <2>3. CASE ~(Len(e) >= MaxDistinct)
    BY <2>3 DEF EvictOldest
  <2>4. QED
    BY <2>2, <2>3
<1>3. [val |-> v, ts |-> t] \in Value
  BY DEF Value
<1>4. QED
  BY <1>1, <1>2, <1>3 DEF ObserveValue

Stays(s, d, B, v) ==
  \A x \in ToSet(s) : x.val \in B /\ x.val # v /\ x \in ToSet(d)

\* Entries that stay, and one for the new event.
LEMMA StampedOn ==
  ASSUME NEW d \in Seq(Value), NEW s \in Seq(Value), NEW e \in Value,
         NEW l, NEW g, NEW B, NEW n, NEW r, Stamped(d, l), AddsLast(l, r, g, n, B),
         Stays(s, d, B, r.v), e.val = r.v, e.ts = r.t
  PROVE  Stamped(Append(s, e), g)
<1>1. PICK q : q = Append(s, e)
  OBVIOUS
<1>2. PICK m : m = Len(s) + 1
  OBVIOUS
<1>3. /\ q[m] = e /\ \A i \in DOMAIN s : q[i] = s[i]
      /\ \A i \in DOMAIN q : i \in DOMAIN s \/ i = m
  BY <1>1, <1>2
<1>4. /\ LastIn(g)[r.v] = n /\ g[n] = r /\ r.v \in ValuesIn(g) /\ B \subseteq ValuesIn(g)
      /\ \A u \in B : u # r.v => g[LastIn(g)[u]] = l[LastIn(l)[u]]
  BY DEF AddsLast, Renews
<1>5. ASSUME NEW i \in DOMAIN q
      PROVE  q[i].val \in ValuesIn(g) /\ q[i].ts = g[LastIn(g)[q[i].val]].t
  <2>1. CASE i = m
    BY <1>3, <1>4, <2>1
  <2>2. CASE i \in DOMAIN s
    <3>1. PICK x : x = s[i]
      OBVIOUS
    <3>2. x \in ToSet(s)
      BY <2>2, <3>1 DEF ToSet
    <3>3. x.val \in B /\ x.val # r.v /\ x \in ToSet(d)
      BY <3>2 DEF Stays
    <3>4. PICK a \in DOMAIN d : x = d[a]
      BY <3>3 DEF ToSet
    <3>5. x.ts = l[LastIn(l)[x.val]].t
      BY <3>4 DEF Stamped
    <3>6. g[LastIn(g)[x.val]] = l[LastIn(l)[x.val]]
      BY <1>4, <3>3
    <3>7. q[i] = x
      BY <1>3, <2>2, <3>1
    <3>8. QED
      BY <1>4, <3>3, <3>5, <3>6, <3>7
  <2>3. QED
    BY <1>3, <2>1, <2>2
<1>6. QED
  BY <1>1, <1>5 DEF Stamped

\* What is in the lists that are kept.
LEMMA KeptFrom ==
  ASSUME NEW d \in Seq(Value), NEW S \in SUBSET DOMAIN d
  PROVE  ToSet(KeepAt(d, S)) = {d[a] : a \in S}
<1>1. Keeps(KeepAt(d, S), d, S, Len(d)) /\ DOMAIN d = 1 .. Len(d)
  BY KeepAtValue
<1>2. QED
  BY <1>1 DEF Keeps, ToSet

LEMMA DroppedFrom ==
  ASSUME NEW d \in Seq(Value), NEW start
  PROVE  ToSet(DropOld(d, start)) \subseteq ToSet(d)
<1>1. {i \in DOMAIN d : d[i].ts >= start} \in SUBSET DOMAIN d
  OBVIOUS
<1>2. ToSet(DropOld(d, start)) = {d[a] : a \in {i \in DOMAIN d : d[i].ts >= start}}
  BY <1>1, KeptFrom DEF DropOld
<1>3. QED
  BY <1>2 DEF ToSet

LEMMA WithoutFrom ==
  ASSUME NEW d \in Seq(Value), NEW v, NEW x \in ToSet(Without(d, v))
  PROVE  x \in ToSet(d) /\ x.val # v
<1>1. {i \in DOMAIN d : d[i].val # v} \in SUBSET DOMAIN d
  OBVIOUS
<1>2. ToSet(Without(d, v)) = {d[a] : a \in {i \in DOMAIN d : d[i].val # v}}
  BY <1>1, KeptFrom DEF Without
<1>3. QED
  BY <1>2 DEF ToSet

LEMMA EvictedFrom ==
  ASSUME NEW d \in Seq(Value)
  PROVE  ToSet(EvictOldest(d)) \subseteq ToSet(d)
<1>1. CASE Len(d) >= MaxDistinct
  <2>1. d # <<>> /\ EvictOldest(d) = Tail(d)
    BY <1>1, MaxDistinctAssumption DEF EvictOldest
  <2>2. \A i \in DOMAIN Tail(d) : Tail(d)[i] = d[i + 1] /\ i + 1 \in DOMAIN d
    BY <2>1
  <2>3. QED
    BY <2>1, <2>2 DEF ToSet
<1>2. CASE ~(Len(d) >= MaxDistinct)
  BY <1>2 DEF EvictOldest
<1>3. QED
  BY <1>1, <1>2

\* dset_observe, for an event in order and with memory for its value.
LEMMA ObserveLists ==
  ASSUME NEW l \in Seq(Entry), NEW r \in Entry, r.v \in Vals, NEW g, g = Append(l, r),
         Ascending(g), Span \in Nat,
         NEW d \in Seq(Value), Lists(d, l)
  PROVE  Lists(ObserveValue(d, r.v, r.t, r.t - Span, TRUE), g)
<1> DEFINE start == r.t - Span
           B == Survivors(l, start)
           e == [val |-> r.v, ts |-> r.t]
           L == LastIn(l)
<1>0. PICK n : n = Len(l) + 1
  OBVIOUS
<1>1. r.v # NoVal
  BY GroupAssumption
<1>2. Moves(l, r, g, n, B) /\ AddsLast(l, r, g, n, B)
  BY <1>0, <1>1, OneMoreValue DEF Moves
<1>3. /\ B \subseteq LiveIn(l) /\ \A u \in B, w \in LiveIn(l) : L[w] > L[u] => w \in B
      /\ Renews(B, L, r.v, n, LastIn(g)) /\ LiveIn(g) = B \cup {r.v}
  BY <1>2 DEF Moves, AddsLast
<1>4. LiveIn(l) \in SUBSET ValuesIn(l)
  BY DEF LiveIn, LiveFrom, ValuesIn
<1>5. Recency(LiveIn(l), L)
  BY <1>4, ValuesRecency
<1>6. PICK live : live = DropOld(d, start)
  OBVIOUS
<1>7. e \in Value /\ e.val = r.v /\ e.ts = r.t
  <2>1. r.t \in Time
    BY DEF Entry
  <2>2. QED
    BY <2>1 DEF Value
<1>8. live \in Seq(Value)
  BY <1>6, <1>7, ValueTypes DEF Value
<1>9. TopOf(d, LiveIn(l), L) /\ Stamped(d, l)
  BY DEF Lists
<1>10. TopOf(live, B, L)
  <2> DEFINE S == {i \in DOMAIN d : d[i].ts >= start}
  <2>1. \A i \in DOMAIN d : i \in S <=> d[i].val \in B
    <3>1. \A i \in DOMAIN d : d[i].val \in LiveIn(l) /\ d[i].ts = l[L[d[i].val]].t
      BY <1>9 DEF TopOf, Stamped
    <3>2. QED
      BY <3>1 DEF Survivors
  <2>2. live = KeepAt(d, S) /\ S \in SUBSET DOMAIN d
    BY <1>6 DEF DropOld
  <2> HIDE DEF S, B, L
  <2>3. QED
    BY <1>3, <1>5, <1>9, <2>1, <2>2, DropTop
<1>11. \A x \in ToSet(live) : x.val \in B /\ x \in ToSet(d)
  <2>1. \A x \in ToSet(live) : x.val \in B
    BY <1>10 DEF TopOf, ToSet
  <2>2. ToSet(live) \subseteq ToSet(d)
    BY <1>6, DroppedFrom
  <2>3. QED
    BY <2>1, <2>2
<1> HIDE DEF B, L, e
<1>12. CASE r.v \in ValuesOf(live)
  <2>1. PICK s : s = Without(live, r.v)
    OBVIOUS
  <2>2. s \in Seq(Value)
    BY <1>8, <2>1, KeepAtValue DEF Without
  <2>3. TopOf(Append(s, e), B \cup {r.v}, LastIn(g))
    BY <1>3, <1>7, <1>8, <1>10, <1>12, <2>1, MoveToEnd
  <2>4. Stays(s, d, B, r.v)
    BY <1>8, <1>11, <2>1, WithoutFrom DEF Stays
  <2>5. Stamped(Append(s, e), g)
    BY <1>2, <1>7, <1>9, <2>2, <2>4, StampedOn
  <2>6. ObserveValue(d, r.v, r.t, start, TRUE) = Append(s, e)
    BY <1>6, <1>12, <2>1 DEF ObserveValue, e
  <2>7. QED
    BY <1>3, <2>3, <2>5, <2>6 DEF Lists
<1>13. CASE r.v \notin ValuesOf(live)
  <2>1. PICK s : s = EvictOldest(live)
    OBVIOUS
  <2>2. s \in Seq(Value)
    BY <1>7, <1>8, <2>1, ValueTypes DEF Value
  <2>3. TopOf(Append(s, e), B \cup {r.v}, LastIn(g))
    BY <1>3, <1>7, <1>8, <1>10, <1>13, <2>1, Admit
  <2>4. Stays(s, d, B, r.v)
    <3>1. \A x \in ToSet(live) : x.val # r.v
      BY <1>13 DEF ValuesOf, ToSet
    <3>2. QED
      BY <1>8, <1>11, <2>1, <3>1, EvictedFrom DEF Stays
  <2>5. Stamped(Append(s, e), g)
    BY <1>2, <1>7, <1>9, <2>2, <2>4, StampedOn
  <2>6. ObserveValue(d, r.v, r.t, start, TRUE) = Append(s, e)
    BY <1>6, <1>13, <2>1 DEF ObserveValue, e
  <2>7. QED
    BY <1>3, <2>3, <2>5, <2>6 DEF Lists
<1>14. QED
  BY <1>12, <1>13

-----------------------------------------------------------------------------
\* The distinct set for events in any order.

\* Standing and Held of CorrGroup, in a log l.
StandingIn(l, k) ==
  {i \in ValuedIn(l) : i <= k /\ \A j \in ValuedIn(l) : i < j /\ j <= k =>
                         l[j].v # l[i].v /\ l[i].t >= l[j].t - Span}

After(G, i) == {j \in G : j > i}

HeldIn(l) ==
  {i \in StandingIn(l, Len(l)) :
     \A k \in i .. Len(l) : Cardinality(After(StandingIn(l, k), i)) < MaxDistinct}

\* The events of G are each the last one of their value.
Lasts(G, l) == \A i \in G : i \in ValuedIn(l) /\ LastIn(l)[l[i].v] = i

BroughtBy(G, l) == {l[i].v : i \in G}

\* d lists the values that the held events of l brought.
ListsHeld(d, l) == Stamped(d, l) /\ TopOf(d, BroughtBy(HeldIn(l), l), LastIn(l))

LEMMA AfterFinite ==
  ASSUME NEW l \in Seq(Entry), NEW G \in SUBSET ValuedIn(l), NEW i
  PROVE  IsFiniteSet(After(G, i)) /\ Cardinality(After(G, i)) \in Nat
<1>1. After(G, i) \in SUBSET (1 .. Len(l)) /\ Len(l) \in Nat
  BY LogTimes DEF After, ValuedIn
<1>2. IsFiniteSet(1 .. Len(l))
  BY <1>1, FS_Interval
<1>3. QED
  BY <1>1, <1>2, FS_Subset, FS_CardinalityType

LEMMA FewerAfter ==
  ASSUME NEW l \in Seq(Entry), NEW G \in SUBSET ValuedIn(l), NEW i,
         NEW H, NEW j, After(H, j) \subseteq After(G, i),
         Cardinality(After(G, i)) < MaxDistinct
  PROVE  Cardinality(After(H, j)) < MaxDistinct
<1>1. /\ IsFiniteSet(After(G, i)) /\ Cardinality(After(G, i)) \in Nat
      /\ MaxDistinct \in Nat
  BY AfterFinite, MaxDistinctAssumption
<1>2. /\ Cardinality(After(H, j)) <= Cardinality(After(G, i))
      /\ IsFiniteSet(After(H, j))
  BY <1>1, FS_Subset
<1>3. Cardinality(After(H, j)) \in Nat
  BY <1>2, FS_CardinalityType
<1>4. QED
  BY <1>1, <1>2, <1>3

\* As many values are more recent as events come after.
LEMMA RankByEvent ==
  ASSUME NEW l \in Seq(Entry), NEW G, Lasts(G, l), NEW i \in G
  PROVE  /\ BroughtBy(G, l) \in SUBSET ValuesIn(l)
         /\ Cardinality(Above(BroughtBy(G, l), LastIn(l), l[i].v)) = Cardinality(After(G, i))
<1> DEFINE L == LastIn(l)
           A == BroughtBy(G, l)
           f == [j \in After(G, i) |-> l[j].v]
<1>1. \A j \in G : j \in ValuedIn(l) /\ L[l[j].v] = j
  BY DEF Lasts
<1>2. A \in SUBSET ValuesIn(l)
  BY <1>1 DEF BroughtBy, ValuesIn
<1>3. f \in [After(G, i) -> Above(A, L, l[i].v)]
  BY <1>1 DEF After, Above, BroughtBy
<1>4. \A j, k \in After(G, i) : f[j] = f[k] => j = k
  BY <1>1 DEF After
<1>5. \A u \in Above(A, L, l[i].v) : \E j \in After(G, i) : f[j] = u
  BY <1>1 DEF After, Above, BroughtBy
<1>6. f \in Bijection(After(G, i), Above(A, L, l[i].v))
  <2> HIDE DEF f, A, L
  <2>1. QED
    BY <1>3, <1>4, <1>5 DEF Bijection, Injection, Surjection, IsInjective
<1>7. IsFiniteSet(After(G, i))
  <2>1. G \in SUBSET ValuedIn(l)
    BY <1>1
  <2>2. QED
    BY <2>1, AfterFinite
<1>8. Cardinality(Above(A, L, l[i].v)) = Cardinality(After(G, i))
  <2> HIDE DEF f, A, L
  <2>1. QED
    BY <1>6, <1>7, FS_Bijection DEF ExistsBijection
<1>9. QED
  BY <1>2, <1>8

\* A later event of the standing ones is held if an earlier one is, and no held one
\* has MaxDistinct of them after it.
LEMMA HeldUpward ==
  ASSUME NEW l \in Seq(Entry), NEW i \in HeldIn(l)
  PROVE  /\ \A j \in StandingIn(l, Len(l)) : j > i => j \in HeldIn(l)
         /\ Cardinality(After(HeldIn(l), i)) < MaxDistinct
<1>1. PICK n \in Nat : n = Len(l) /\ DOMAIN l = 1 .. n
  OBVIOUS
<1>2. i \in 1 .. n /\ \A k \in i .. n : Cardinality(After(StandingIn(l, k), i)) < MaxDistinct
  BY <1>1 DEF HeldIn, StandingIn, ValuedIn
<1>3. \A k : StandingIn(l, k) \in SUBSET ValuedIn(l)
  BY DEF StandingIn
<1>4. ASSUME NEW j \in StandingIn(l, n), j > i PROVE j \in HeldIn(l)
  <2>1. j \in 1 .. n
    BY <1>1 DEF StandingIn, ValuedIn
  <2>2. ASSUME NEW k \in j .. n PROVE Cardinality(After(StandingIn(l, k), j)) < MaxDistinct
    <3>1. k \in i .. n
      BY <1>2, <1>4, <2>1, <2>2
    <3>2. \A m \in ValuedIn(l) : m > j => m > i
      BY <1>1, <1>2, <1>4, <2>1 DEF ValuedIn
    <3>3. After(StandingIn(l, k), j) \subseteq After(StandingIn(l, k), i)
      BY <1>3, <3>2 DEF After
    <3>4. QED
      BY <1>2, <1>3, <3>1, <3>3, FewerAfter
  <2>3. QED
    BY <1>1, <2>2 DEF HeldIn
<1>5. Cardinality(After(HeldIn(l), i)) < MaxDistinct
  <2>1. After(HeldIn(l), i) \subseteq After(StandingIn(l, n), i)
    BY <1>1 DEF After, HeldIn
  <2>2. n \in i .. n
    BY <1>2
  <2>3. QED
    BY <1>2, <1>3, <2>1, <2>2, FewerAfter
<1>6. QED
  BY <1>1, <1>4, <1>5

LEMMA HeldAreLast ==
  ASSUME NEW l \in Seq(Entry)
  PROVE  Lasts(HeldIn(l), l)
<1>1. SUFFICES ASSUME NEW i \in HeldIn(l)
               PROVE  i \in ValuedIn(l) /\ LastIn(l)[l[i].v] = i
  BY DEF Lasts
<1>2. /\ i \in ValuedIn(l) /\ i \in Nat
      /\ \A j \in ValuedIn(l) : j \in Nat /\ j <= Len(l)
      /\ \A j \in ValuedIn(l) : i < j => l[j].v # l[i].v
  BY DEF HeldIn, StandingIn, ValuedIn
<1>3. l[i].v \in ValuesIn(l)
  BY <1>2 DEF ValuesIn
<1>4. ASSUME NEW j \in ValuedIn(l), l[j].v = l[i].v PROVE j <= i
  <2>1. ~(i < j) /\ j \in Nat
    BY <1>2, <1>4
  <2>2. QED
    BY <1>2, <2>1
<1>5. QED
  BY <1>2, <1>3, <1>4, LastIs

\* What an event changes of this.
LEMMA StandingBefore ==
  ASSUME NEW l \in Seq(Entry), NEW r \in Entry, NEW g, g = Append(l, r),
         NEW k \in 0 .. Len(l)
  PROVE  StandingIn(g, k) = StandingIn(l, k)
<1>1. PICK n \in Nat : n = Len(l) + 1 /\ DOMAIN l = 1 .. n - 1 /\ DOMAIN g = 1 .. n
  OBVIOUS
<1>2. \A i \in 1 .. n - 1 : g[i] = l[i]
  BY <1>1
<1>3. \A i : i \in ValuedIn(g) /\ i <= k <=> i \in ValuedIn(l) /\ i <= k
  BY <1>1, <1>2 DEF ValuedIn
<1>4. \A i \in ValuedIn(l) : g[i] = l[i]
  BY <1>1, <1>2 DEF ValuedIn
<1>5. QED
  BY <1>3, <1>4 DEF StandingIn

\* The events of G that one with value v and window from start leaves.
Left(l, G, v, start) == {i \in G : l[i].v # v /\ l[i].t >= start}

\* What stands once g adds r at n to l.
StandsOn(l, r, g, n) ==
  StandingIn(g, n) = Left(l, StandingIn(l, Len(l)), r.v, r.t - Span) \cup {n}

LEMMA StandingGrows ==
  ASSUME NEW l \in Seq(Entry), NEW r \in Entry, r.v # NoVal, NEW g, g = Append(l, r),
         NEW n, n = Len(l) + 1
  PROVE  StandsOn(l, r, g, n)
<1>1. n \in Nat /\ DOMAIN l = 1 .. n - 1 /\ DOMAIN g = 1 .. n /\ g[n] = r /\ Len(l) = n - 1
  OBVIOUS
<1>2. \A i \in 1 .. n - 1 : g[i] = l[i]
  BY <1>1
<1>3. /\ n \in ValuedIn(g) /\ \A i \in ValuedIn(g) : i <= n
      /\ \A i \in ValuedIn(g) : i = n \/ i \in ValuedIn(l)
      /\ \A i \in ValuedIn(l) : i \in ValuedIn(g) /\ i \in Nat /\ i < n /\ i <= n - 1
      /\ \A i \in ValuedIn(l) : g[i] = l[i]
  BY <1>1, <1>2 DEF ValuedIn
<1>4. ASSUME NEW i \in StandingIn(g, n), i # n
      PROVE  i \in StandingIn(l, n - 1) /\ l[i].v # r.v /\ l[i].t >= r.t - Span
  <2>1. i \in ValuedIn(l)
    BY <1>3, <1>4 DEF StandingIn
  <2>2. l[i].v # r.v /\ l[i].t >= r.t - Span
    BY <1>1, <1>3, <1>4, <2>1 DEF StandingIn
  <2>3. ASSUME NEW j \in ValuedIn(l), i < j PROVE l[j].v # l[i].v /\ l[i].t >= l[j].t - Span
    BY <1>3, <1>4, <2>1, <2>3 DEF StandingIn
  <2>4. QED
    BY <1>3, <2>1, <2>2, <2>3 DEF StandingIn
<1>5. ASSUME NEW i \in StandingIn(l, n - 1), l[i].v # r.v, l[i].t >= r.t - Span
      PROVE  i \in StandingIn(g, n)
  <2>1. i \in ValuedIn(l)
    BY DEF StandingIn
  <2>2. ASSUME NEW j \in ValuedIn(g), i < j PROVE g[j].v # g[i].v /\ g[i].t >= g[j].t - Span
    <3>1. CASE j = n
      BY <1>1, <1>3, <1>5, <2>1, <3>1
    <3>2. CASE j \in ValuedIn(l)
      BY <1>3, <2>1, <2>2, <3>2 DEF StandingIn
    <3>3. QED
      BY <1>3, <3>1, <3>2
  <2>3. QED
    BY <1>3, <2>1, <2>2 DEF StandingIn
<1>6. n \in StandingIn(g, n)
  <2>1. ~ \E j \in ValuedIn(g) : n < j
    BY <1>1, <1>3 DEF ValuedIn
  <2>2. QED
    BY <1>1, <1>3, <2>1 DEF StandingIn
<1>7. QED
  BY <1>1, <1>4, <1>5, <1>6 DEF Left, StandsOn

\* The held events of l are those of G without MaxDistinct others after them.
HeldAmong(l, G) == HeldIn(l) = {i \in G : Cardinality(After(G, i)) < MaxDistinct}

LEMMA HeldGrows ==
  ASSUME NEW l \in Seq(Entry), NEW r \in Entry, r.v # NoVal, NEW g, g = Append(l, r),
         NEW n, n = Len(l) + 1, NEW G, G = Left(l, HeldIn(l), r.v, r.t - Span) \cup {n}
  PROVE  HeldAmong(g, G)
<1>1. /\ n \in Nat /\ Len(l) = n - 1 /\ Len(g) = n /\ n - 1 \in Nat
      /\ DOMAIN l = 1 .. n - 1
  OBVIOUS
<1>2. \A k \in 0 .. n - 1 : StandingIn(g, k) = StandingIn(l, k)
  BY <1>1, StandingBefore
<1> DEFINE stays(i) == l[i].v # r.v /\ l[i].t >= r.t - Span
<1>3. StandingIn(g, n) = {i \in StandingIn(l, n - 1) : stays(i)} \cup {n}
  <2>1. StandsOn(l, r, g, n)
    BY StandingGrows
  <2>2. QED
    BY <1>1, <2>1 DEF Left, StandsOn
<1>4. Left(l, HeldIn(l), r.v, r.t - Span) = {i \in HeldIn(l) : stays(i)}
  BY DEF Left
<1>5. \A i \in HeldIn(l) : i \in StandingIn(l, n - 1)
  BY <1>1 DEF HeldIn
<1>6. \A i \in StandingIn(l, n - 1) : i \in 1 .. n - 1
  BY <1>1 DEF StandingIn, ValuedIn
<1> HIDE DEF stays
<1>7. ASSUME NEW i \in HeldIn(l), stays(i)
      PROVE  After(StandingIn(g, n), i) = After(G, i)
  <2>1. \A j \in StandingIn(l, n - 1) : j > i => j \in HeldIn(l)
    BY <1>1, HeldUpward
  <2>2. QED
    BY <1>3, <1>4, <1>5, <2>1 DEF After
<1>8. After(StandingIn(g, n), n) = {} /\ After(G, n) = {}
  BY <1>1, <1>3, <1>4, <1>5, <1>6 DEF After
<1>9. Cardinality(After(G, n)) < MaxDistinct
  <2>1. Cardinality(After(G, n)) = 0
    BY <1>8, FS_EmptySet, Zenon
  <2>2. QED
    BY <2>1, MaxDistinctAssumption
<1>10. n \in HeldIn(g)
  <2>1. n \in StandingIn(g, n)
    BY <1>3
  <2>2. \A k \in n .. n : Cardinality(After(StandingIn(g, k), n)) < MaxDistinct
    <3>1. \A k \in n .. n : k = n
      BY <1>1
    <3>2. QED
      BY <1>8, <1>9, <3>1, Zenon
  <2>3. QED
    BY <1>1, <2>1, <2>2 DEF HeldIn
<1>11. ASSUME NEW i \in HeldIn(g), i # n
       PROVE  i \in HeldIn(l) /\ stays(i) /\ Cardinality(After(G, i)) < MaxDistinct
  <2>1. /\ i \in StandingIn(g, n)
        /\ \A k \in i .. n : Cardinality(After(StandingIn(g, k), i)) < MaxDistinct
    BY <1>1 DEF HeldIn
  <2>2. i \in StandingIn(l, n - 1) /\ stays(i) /\ i \in 1 .. n - 1
    BY <1>3, <1>6, <1>11, <2>1
  <2>3. \A k \in i .. n - 1 : k \in i .. n /\ k \in 0 .. n - 1
    BY <1>1, <2>2
  <2>4. \A k \in i .. n - 1 : Cardinality(After(StandingIn(l, k), i)) < MaxDistinct
    BY <1>2, <2>1, <2>3
  <2>5. i \in HeldIn(l)
    BY <1>1, <2>2, <2>4 DEF HeldIn
  <2>6. n \in i .. n
    BY <1>1, <2>2
  <2>7. QED
    BY <1>7, <2>1, <2>2, <2>5, <2>6
<1>12. ASSUME NEW i \in HeldIn(l), stays(i), Cardinality(After(G, i)) < MaxDistinct
       PROVE  i \in HeldIn(g)
  <2>1. i \in StandingIn(g, n) /\ i \in 1 .. n - 1
    BY <1>3, <1>5, <1>6, <1>12
  <2>2. ASSUME NEW k \in i .. n PROVE Cardinality(After(StandingIn(g, k), i)) < MaxDistinct
    <3>1. CASE k = n
      BY <1>7, <1>12, <3>1
    <3>2. CASE k # n
      <4>1. k \in i .. n - 1 /\ k \in 0 .. n - 1
        BY <1>1, <2>1, <3>2
      <4>2. QED
        BY <1>1, <1>2, <4>1 DEF HeldIn
    <3>3. QED
      BY <3>1, <3>2
  <2>3. QED
    BY <1>1, <2>1, <2>2 DEF HeldIn
<1>13. QED
  BY <1>4, <1>9, <1>10, <1>11, <1>12 DEF HeldAmong

LEMMA HeldAsBefore ==
  ASSUME NEW l \in Seq(Entry), NEW r \in Entry, r.v = NoVal, NEW g, g = Append(l, r)
  PROVE  HeldIn(g) = HeldIn(l)
<1>1. PICK n \in Nat : /\ n = Len(l) + 1 /\ Len(l) = n - 1 /\ Len(g) = n /\ n - 1 \in Nat
                       /\ DOMAIN l = 1 .. n - 1
  OBVIOUS
<1>2. \A k \in 0 .. n - 1 : StandingIn(g, k) = StandingIn(l, k)
  BY <1>1, StandingBefore
<1>3. ValuedIn(g) = ValuedIn(l) /\ \A i \in ValuedIn(l) : g[i] = l[i]
  BY NothingNew
<1>4. \A i \in ValuedIn(l) : i \in 1 .. n - 1 /\ i <= n /\ i <= n - 1
  BY <1>1 DEF ValuedIn
<1>5. StandingIn(g, n) = StandingIn(l, n - 1)
  BY <1>3, <1>4 DEF StandingIn
<1>6. ASSUME NEW i \in StandingIn(l, n - 1)
      PROVE  (\A k \in i .. n : Cardinality(After(StandingIn(g, k), i)) < MaxDistinct)
             <=> \A k \in i .. n - 1 : Cardinality(After(StandingIn(l, k), i)) < MaxDistinct
  <2>1. i \in 1 .. n - 1
    BY <1>4 DEF StandingIn
  <2>2. \A k \in i .. n - 1 : k \in i .. n /\ k \in 0 .. n - 1
    BY <1>1, <2>1
  <2>3. \A k \in i .. n : k \in i .. n - 1 \/ k = n
    BY <1>1, <2>1
  <2>4. n - 1 \in i .. n - 1
    BY <1>1, <2>1
  <2>5. QED
    BY <1>2, <1>5, <2>2, <2>3, <2>4
<1>7. QED
  BY <1>1, <1>5, <1>6 DEF HeldIn

\* Dropping any values of a set the list holds whole.
LEMMA DropAny ==
  ASSUME NEW X, NEW d \in Seq(X), NEW A, NEW L, Recency(A, L), TopOf(d, A, L),
         \A u \in A : Cardinality(Above(A, L, u)) < MaxDistinct,
         NEW B \in SUBSET A,
         NEW S \in SUBSET DOMAIN d, \A i \in DOMAIN d : i \in S <=> d[i].val \in B
  PROVE  TopOf(KeepAt(d, S), B, L)
<1>1. ASSUME NEW u \in A PROVE Cardinality(Above(B, L, u)) < MaxDistinct
  <2>1. Above(B, L, u) \subseteq Above(A, L, u)
    BY DEF Above
  <2>2. IsFiniteSet(Above(A, L, u)) /\ Cardinality(Above(A, L, u)) \in Nat
    BY AboveFinite
  <2>3. /\ Cardinality(Above(B, L, u)) <= Cardinality(Above(A, L, u))
        /\ IsFiniteSet(Above(B, L, u))
    BY <2>1, <2>2, FS_Subset
  <2>4. Cardinality(Above(B, L, u)) \in Nat
    BY <2>3, FS_CardinalityType
  <2>5. Cardinality(Above(A, L, u)) < MaxDistinct
    OBVIOUS
  <2>6. QED
    BY <2>2, <2>3, <2>4, <2>5, MaxDistinctAssumption
<1>2. PICK s : s = KeepAt(d, S)
  OBVIOUS
<1>3. s \in Seq(X) /\ Keeps(s, d, S, Len(d)) /\ DOMAIN d = 1 .. Len(d)
  BY <1>2, KeepAtValue
<1>4. ASSUME NEW i \in DOMAIN s
      PROVE  s[i].val \in B /\ Cardinality(Above(B, L, s[i].val)) < MaxDistinct
  <2>1. PICK a \in S : s[i] = d[a]
    BY <1>3 DEF Keeps
  <2>2. QED
    BY <1>1, <2>1
<1>5. ASSUME NEW u \in B PROVE u \in ValuesOf(s)
  <2>1. PICK a \in DOMAIN d : d[a].val = u
    BY DEF TopOf, ValuesOf
  <2>2. a \in S /\ a \in 1 .. Len(d)
    BY <1>3, <2>1
  <2>3. PICK i \in DOMAIN s : s[i] = d[a]
    BY <1>3, <2>2 DEF Keeps
  <2>4. QED
    BY <2>1, <2>3 DEF ValuesOf
<1>6. ASSUME NEW i \in DOMAIN s, NEW j \in DOMAIN s, i < j
      PROVE  L[s[i].val] < L[s[j].val]
  <2>1. Before(s[i], s[j], d, S, Len(d))
    BY <1>3, <1>6 DEF Keeps
  <2>2. PICK a \in S, b \in S : a < b /\ s[i] = d[a] /\ s[j] = d[b]
    BY <2>1 DEF Before
  <2>3. QED
    BY <2>2 DEF TopOf
<1>7. QED
  BY <1>2, <1>4, <1>5, <1>6 DEF TopOf

\* Nothing else is left of the set.
LEMMA TrimTop ==
  ASSUME NEW d, NEW A, NEW L, Recency(A, L), TopOf(d, A, L),
         NEW C, C = {u \in A : Cardinality(Above(A, L, u)) < MaxDistinct}
  PROVE  TopOf(d, C, L)
<1>1. ASSUME NEW u \in C PROVE Above(C, L, u) = Above(A, L, u)
  <2>1. ASSUME NEW w \in Above(A, L, u) PROVE w \in C
    <3>1. w \in A /\ u \in A /\ L[w] > L[u]
      BY DEF Above
    <3>2. Cardinality(Above(A, L, w)) < Cardinality(Above(A, L, u))
      BY <3>1, AboveShrinks
    <3>3. Cardinality(Above(A, L, u)) < MaxDistinct
      OBVIOUS
    <3>4. /\ Cardinality(Above(A, L, w)) \in Nat /\ Cardinality(Above(A, L, u)) \in Nat
          /\ MaxDistinct \in Nat
      BY AboveFinite, MaxDistinctAssumption
    <3>5. Cardinality(Above(A, L, w)) < MaxDistinct
      BY <3>2, <3>3, <3>4
    <3>6. QED
      BY <3>1, <3>5
  <2>2. QED
    BY <2>1 DEF Above
<1>2. QED
  BY <1>1 DEF TopOf

\* The values held in l that an event with window from start leaves.
Unexpired(l, start) == {u \in BroughtBy(HeldIn(l), l) : l[LastIn(l)[u]].t >= start}

\* The values held when an event brings v to those of B.
HeldWith(l, B) ==
  BroughtBy(HeldIn(l), l)
    = {u \in B : Cardinality(Above(B, LastIn(l), u)) < MaxDistinct}

LEMMA OneMoreHeld ==
  ASSUME NEW l \in Seq(Entry), NEW r \in Entry, r.v # NoVal, NEW g, g = Append(l, r)
  PROVE  HeldWith(g, Unexpired(l, r.t - Span) \cup {r.v})
<1>1. PICK n : n = Len(l) + 1
  OBVIOUS
<1> DEFINE start == r.t - Span
           H == BroughtBy(HeldIn(l), l)
           B == Unexpired(l, start)
           G == Left(l, HeldIn(l), r.v, start) \cup {n}
<1>2. Lasts(HeldIn(l), l)
  BY HeldAreLast
<1>3. \A i \in HeldIn(l) : /\ i \in ValuedIn(l) /\ LastIn(l)[l[i].v] = i
                           /\ l[i].v \in ValuesIn(l) /\ l[i].v \in H
  BY <1>2 DEF Lasts, ValuesIn, BroughtBy
<1>4. H \in SUBSET ValuesIn(l)
  BY <1>3 DEF BroughtBy
<1>5. AddsLast(l, r, g, n, H)
  <2> HIDE DEF H
  <2> QED
    BY <1>1, <1>4, OneMoreLast
<1>6. /\ g[n] = r /\ LastIn(g)[r.v] = n
      /\ \A u \in H : u # r.v => LastIn(g)[u] = LastIn(l)[u]
  <2> HIDE DEF H
  <2> QED
    BY <1>5 DEF AddsLast, Renews
<1>7. /\ g \in Seq(Entry) /\ n \in ValuedIn(g)
      /\ \A i \in ValuedIn(l) : i \in ValuedIn(g) /\ g[i] = l[i]
  BY <1>1 DEF ValuedIn
<1>8. \A i \in Left(l, HeldIn(l), r.v, start) :
        /\ i \in HeldIn(l) /\ l[i].v # r.v /\ l[i].t >= start
        /\ i \in ValuedIn(g) /\ g[i] = l[i] /\ LastIn(g)[g[i].v] = i
  <2> SUFFICES ASSUME NEW i \in HeldIn(l), l[i].v # r.v, l[i].t >= start
               PROVE  i \in ValuedIn(g) /\ g[i] = l[i] /\ LastIn(g)[g[i].v] = i
    BY DEF Left
  <2>1. i \in ValuedIn(l) /\ LastIn(l)[l[i].v] = i /\ l[i].v \in H
    BY <1>3
  <2>2. QED
    BY <1>6, <1>7, <2>1
<1>9. Lasts(G, g)
  BY <1>6, <1>7, <1>8 DEF Lasts
<1>10. BroughtBy(G, g) = B \cup {r.v}
  <2>1. ASSUME NEW u \in B, u # r.v PROVE u \in BroughtBy(G, g)
    <3>1. u \in H /\ l[LastIn(l)[u]].t >= start
      BY DEF Unexpired
    <3>2. PICK i \in HeldIn(l) : u = l[i].v
      BY <3>1 DEF BroughtBy
    <3>3. l[i].t >= start /\ l[i].v # r.v
      BY <1>3, <2>1, <3>1, <3>2
    <3>4. i \in Left(l, HeldIn(l), r.v, start)
      BY <3>3 DEF Left
    <3>5. i \in G /\ g[i].v = u
      BY <1>8, <3>2, <3>4
    <3>6. QED
      BY <3>5 DEF BroughtBy
  <2>2. r.v \in BroughtBy(G, g)
    BY <1>6 DEF BroughtBy
  <2>3. ASSUME NEW i \in Left(l, HeldIn(l), r.v, start) PROVE g[i].v \in B
    <3>1. l[i].v \in H /\ l[LastIn(l)[l[i].v]].t >= start /\ g[i] = l[i]
      BY <1>3, <1>8
    <3>2. QED
      BY <3>1 DEF Unexpired
  <2>4. \A i \in G : g[i].v \in B \cup {r.v}
    BY <1>6, <2>3
  <2>5. QED
    BY <2>1, <2>2, <2>4 DEF BroughtBy
<1>11. HeldIn(g) = {i \in G : Cardinality(After(G, i)) < MaxDistinct}
  <2>1. PICK K : K = G
    OBVIOUS
  <2>2. HeldAmong(g, K)
    BY <1>1, <2>1, HeldGrows
  <2>3. QED
    BY <2>1, <2>2 DEF HeldAmong
<1>12. PICK A : A = B \cup {r.v}
  OBVIOUS
<1> HIDE DEF G, B
<1>13. \A i \in G : /\ g[i].v \in A
                    /\ Cardinality(Above(A, LastIn(g), g[i].v)) = Cardinality(After(G, i))
  <2>1. ASSUME NEW i \in G
        PROVE  Cardinality(Above(BroughtBy(G, g), LastIn(g), g[i].v)) = Cardinality(After(G, i))
    BY <1>7, <1>9, RankByEvent
  <2>2. \A i \in G : g[i].v \in BroughtBy(G, g)
    BY DEF BroughtBy
  <2>3. QED
    BY <1>10, <1>12, <2>1, <2>2
<1>14. \A u \in A : \E i \in G : g[i].v = u
  BY <1>10, <1>12 DEF BroughtBy
<1>15. BroughtBy(HeldIn(g), g) = {u \in A : Cardinality(Above(A, LastIn(g), u)) < MaxDistinct}
  <2>1. ASSUME NEW i \in HeldIn(g)
        PROVE  g[i].v \in A /\ Cardinality(Above(A, LastIn(g), g[i].v)) < MaxDistinct
    BY <1>11, <1>13
  <2>2. ASSUME NEW u \in A, Cardinality(Above(A, LastIn(g), u)) < MaxDistinct
        PROVE  \E i \in HeldIn(g) : g[i].v = u
    BY <1>11, <1>13, <1>14, <2>2
  <2>3. PICK C : C = {u \in A : Cardinality(Above(A, LastIn(g), u)) < MaxDistinct}
    OBVIOUS
  <2>4. /\ \A i \in HeldIn(g) : g[i].v \in C
        /\ \A u \in C : \E i \in HeldIn(g) : g[i].v = u
    BY <2>1, <2>2, <2>3
  <2>5. BroughtBy(HeldIn(g), g) = C
    BY <2>4 DEF BroughtBy
  <2>6. QED
    BY <2>3, <2>5
<1>16. QED
  BY <1>12, <1>15 DEF HeldWith, B

\* dset_observe, for an event in any order and with memory for its value.
LEMMA ObserveHeld ==
  ASSUME NEW l \in Seq(Entry), NEW r \in Entry, r.v \in Vals, NEW g, g = Append(l, r),
         NEW d \in Seq(Value), ListsHeld(d, l)
  PROVE  ListsHeld(ObserveValue(d, r.v, r.t, r.t - Span, TRUE), g)
<1> DEFINE start == r.t - Span
           H == BroughtBy(HeldIn(l), l)
           B == Unexpired(l, start)
           e == [val |-> r.v, ts |-> r.t]
           L == LastIn(l)
<1>0. PICK n : n = Len(l) + 1
  OBVIOUS
<1>1. r.v # NoVal
  BY GroupAssumption
<1>2. \A i \in HeldIn(l) : Cardinality(Above(H, L, l[i].v)) < MaxDistinct
  <2>1. SUFFICES ASSUME NEW i \in HeldIn(l)
                 PROVE  Cardinality(Above(H, L, l[i].v)) < MaxDistinct
    OBVIOUS
  <2>2. Cardinality(Above(H, L, l[i].v)) = Cardinality(After(HeldIn(l), i))
    BY HeldAreLast, RankByEvent
  <2>3. QED
    BY <2>2, HeldUpward
<1>3. \A u \in H : Cardinality(Above(H, L, u)) < MaxDistinct
  <2> HIDE DEF L
  <2> QED
    BY <1>2 DEF BroughtBy
<1>4. H \in SUBSET ValuesIn(l) /\ B \in SUBSET H
  <2>1. \A i \in HeldIn(l) : i \in ValuedIn(l)
    BY DEF HeldIn, StandingIn
  <2>2. QED
    BY <2>1 DEF BroughtBy, ValuesIn, Unexpired
<1>5. Recency(H, L)
  BY <1>4, ValuesRecency
<1>6. PICK live : live = DropOld(d, start)
  OBVIOUS
<1>7. e \in Value /\ e.val = r.v /\ e.ts = r.t
  <2>1. r.t \in Time
    BY DEF Entry
  <2>2. QED
    BY <2>1 DEF Value
<1>8. live \in Seq(Value)
  BY <1>6, <1>7, ValueTypes DEF Value
<1>9. TopOf(d, H, L) /\ Stamped(d, l)
  BY DEF ListsHeld
<1>10. TopOf(live, B, L)
  <2> DEFINE S == {i \in DOMAIN d : d[i].ts >= start}
  <2>1. \A i \in DOMAIN d : i \in S <=> d[i].val \in B
    <3>1. \A i \in DOMAIN d : d[i].val \in H /\ d[i].ts = l[L[d[i].val]].t
      BY <1>9 DEF TopOf, Stamped
    <3>2. QED
      BY <3>1 DEF Unexpired
  <2>2. live = KeepAt(d, S) /\ S \in SUBSET DOMAIN d
    BY <1>6 DEF DropOld
  <2> HIDE DEF S, B, L, H
  <2>3. QED
    BY <1>3, <1>4, <1>5, <1>9, <2>1, <2>2, DropAny
<1>11. \A x \in ToSet(live) : x.val \in B /\ x \in ToSet(d)
  <2>1. \A x \in ToSet(live) : x.val \in B
    BY <1>10 DEF TopOf, ToSet
  <2>2. ToSet(live) \subseteq ToSet(d)
    BY <1>6, DroppedFrom
  <2>3. QED
    BY <2>1, <2>2
<1>12. HeldWith(g, B \cup {r.v})
  BY <1>1, OneMoreHeld
<1> HIDE DEF B, L, e, H
<1>13. AddsLast(l, r, g, n, B)
  BY <1>0, <1>1, <1>4, OneMoreLast
<1>14. Renews(B, L, r.v, n, LastIn(g))
  BY <1>13 DEF AddsLast, L
<1>15. PICK s \in Seq(Value) :
         /\ ObserveValue(d, r.v, r.t, start, TRUE) = Append(s, e)
         /\ TopOf(Append(s, e), B \cup {r.v}, LastIn(g))
         /\ Stays(s, d, B, r.v)
  <2>1. CASE r.v \in ValuesOf(live)
    <3>1. PICK s : s = Without(live, r.v)
      OBVIOUS
    <3>2. s \in Seq(Value)
      BY <1>8, <3>1, KeepAtValue DEF Without
    <3>3. TopOf(Append(s, e), B \cup {r.v}, LastIn(g))
      BY <1>7, <1>8, <1>10, <1>14, <2>1, <3>1, MoveToEnd
    <3>4. Stays(s, d, B, r.v)
      BY <1>8, <1>11, <3>1, WithoutFrom DEF Stays
    <3>5. ObserveValue(d, r.v, r.t, start, TRUE) = Append(s, e)
      BY <1>6, <2>1, <3>1 DEF ObserveValue, e
    <3>6. QED
      BY <3>2, <3>3, <3>4, <3>5
  <2>2. CASE r.v \notin ValuesOf(live)
    <3>1. PICK s : s = EvictOldest(live)
      OBVIOUS
    <3>2. s \in Seq(Value)
      BY <1>7, <1>8, <3>1, ValueTypes DEF Value
    <3>3. TopOf(Append(s, e), B \cup {r.v}, LastIn(g))
      BY <1>7, <1>8, <1>10, <1>14, <2>2, <3>1, Admit
    <3>4. Stays(s, d, B, r.v)
      <4>1. \A x \in ToSet(live) : x.val # r.v
        BY <2>2 DEF ValuesOf, ToSet
      <4>2. QED
        BY <1>8, <1>11, <3>1, <4>1, EvictedFrom DEF Stays
    <3>5. ObserveValue(d, r.v, r.t, start, TRUE) = Append(s, e)
      BY <1>6, <2>2, <3>1 DEF ObserveValue, e
    <3>6. QED
      BY <3>2, <3>3, <3>4, <3>5
  <2>3. QED
    BY <2>1, <2>2
<1>16. Stamped(Append(s, e), g)
  BY <1>7, <1>9, <1>13, <1>15, StampedOn
<1>17. TopOf(Append(s, e), BroughtBy(HeldIn(g), g), LastIn(g))
  <2>1. PICK A, M : A = B \cup {r.v} /\ M = LastIn(g)
    OBVIOUS
  <2>2. Recency(A, M)
    BY <1>14, <2>1, RenewedRecency
  <2>3. BroughtBy(HeldIn(g), g) = {u \in A : Cardinality(Above(A, M, u)) < MaxDistinct}
    BY <1>12, <2>1 DEF HeldWith
  <2>4. QED
    BY <1>15, <2>1, <2>2, <2>3, TrimTop
<1>18. QED
  BY <1>15, <1>16, <1>17 DEF ListsHeld

LEMMA NothingMoreHeld ==
  ASSUME NEW l \in Seq(Entry), NEW r \in Entry, r.v = NoVal, NEW g, g = Append(l, r),
         NEW d, ListsHeld(d, l)
  PROVE  ListsHeld(d, g)
<1>1. /\ HeldIn(g) = HeldIn(l) /\ ValuesIn(g) = ValuesIn(l) /\ LastIn(g) = LastIn(l)
      /\ \A i \in ValuedIn(l) : g[i] = l[i]
  BY HeldAsBefore, NothingNew
<1>2. \A i \in HeldIn(l) : i \in ValuedIn(l)
  BY DEF HeldIn, StandingIn
<1>3. BroughtBy(HeldIn(g), g) = BroughtBy(HeldIn(l), l)
  BY <1>1, <1>2 DEF BroughtBy
<1>4. \A u \in ValuesIn(l) : g[LastIn(g)[u]] = l[LastIn(l)[u]]
  BY <1>1, LastValue
<1>5. QED
  BY <1>1, <1>3, <1>4 DEF ListsHeld, Stamped

\* The set of a value_count group: with memory for every new value, it lists the values
\* held, which for events in order are the most recent ones of the window.
DistinctInv ==
  kind = "value_count" =>
    /\ distinct \in Seq(Value)
    /\ ~lost => ListsHeld(distinct, log)
    /\ InOrder /\ ~lost => Lists(distinct, log)

LEMMA ValueSteps ==
  ASSUME kind = "value_count", [Next]_vars
  PROVE  \/ UNCHANGED <<kind, distinct, lost, log>>
         \/ \E t \in Time, v \in Vals \cup {NoVal} : CountValue(t, v)
<1>1. CASE UNCHANGED vars
  BY <1>1 DEF vars, rule
<1>2. CASE Next
  BY <1>2 DEF Next, CountEvent, BeaconRaw, BeaconBucketed, AddValue, SeeBases,
              OrderDirectly, OrderLate, OrderHeld, MergeEvents, MergeValues, MergeBases
<1>3. QED
  BY <1>1, <1>2

LEMMA DistinctInit == Init => DistinctInv
<1> SUFFICES ASSUME Init PROVE DistinctInv
  OBVIOUS
<1>1. distinct = <<>> /\ log = <<>>
  BY DEF Init
<1>2. LiveIn(log) = {}
  BY <1>1 DEF LiveIn, LiveFrom, ValuedIn
<1>3. Lists(distinct, log)
  BY <1>1, <1>2 DEF Lists, Stamped, TopOf
<1>4. ListsHeld(distinct, log)
  <2>1. BroughtBy(HeldIn(log), log) = {}
    BY <1>1 DEF BroughtBy, HeldIn, StandingIn, ValuedIn
  <2>2. QED
    BY <1>1, <2>1 DEF ListsHeld, Stamped, TopOf
<1>5. QED
  BY <1>1, <1>3, <1>4 DEF DistinctInv

LEMMA DistinctStep ==
  ASSUME Types, DistinctInv, [Next]_vars
  PROVE  DistinctInv'
<1>0. kind' = kind
  BY RuleKept
<1>1. SUFFICES ASSUME kind = "value_count"
               PROVE  /\ distinct' \in Seq(Value)
                      /\ ~lost' => ListsHeld(distinct', log')
                      /\ InOrder' /\ ~lost' => Lists(distinct', log')
  <2>1. /\ Lists(distinct', log') <=> Lists(distinct, log)'
        /\ ListsHeld(distinct', log') <=> ListsHeld(distinct, log)'
    <3>1. Lists(distinct', log') <=> Lists(distinct, log)'
      BY <1>0 DEF Lists, LiveIn, Span
    <3>2. ListsHeld(distinct', log') <=> ListsHeld(distinct, log)'
      BY <1>0 DEF ListsHeld, HeldIn, StandingIn, Span
    <3>3. QED
      BY <3>1, <3>2
  <2>2. Value' = Value
    BY <1>0 DEF Value, Time
  <2>3. DistinctInv' <=>
          (kind' = "value_count" =>
             /\ distinct' \in Seq(Value)'
             /\ ~lost' => ListsHeld(distinct, log)'
             /\ InOrder' /\ ~lost' => Lists(distinct, log)')
    BY DEF DistinctInv
  <2>4. QED
    BY <1>0, <2>1, <2>2, <2>3
<1>2. distinct \in Seq(Value) /\ log \in Seq(Entry)
  BY <1>1 DEF DistinctInv, Types
<1>3. /\ InOrder /\ ~lost => Lists(distinct, log)
      /\ ~lost => ListsHeld(distinct, log)
  BY <1>1 DEF DistinctInv
<1>4. CASE UNCHANGED <<kind, distinct, lost, log>>
  BY <1>2, <1>3, <1>4 DEF InOrder, Events
<1>5. ASSUME NEW t \in Time, NEW v \in Vals \cup {NoVal}, CountValue(t, v)
      PROVE  /\ distinct' \in Seq(Value)
             /\ ~lost' => ListsHeld(distinct', log')
             /\ InOrder' /\ ~lost' => Lists(distinct', log')
  <2>1. PICK r : r = [t |-> t, hits |-> {}, v |-> v, n |-> 1, remote |-> FALSE]
    OBVIOUS
  <2>2. r \in Entry /\ r.t = t /\ r.v = v
    BY <2>1 DEF Entry
  <2>3. log' = Append(log, r)
    BY <1>5, <2>1 DEF CountValue, Arrive, Reach
  <2>4. PICK g : g = log'
    OBVIOUS
  <2>5. InOrder' <=> Ascending(g)
    BY <2>4 DEF InOrder, Events, Ascending
  <2>6. InOrder <=> Ascending(log)
    BY DEF InOrder, Events, Ascending
  <2>7. Ascending(g) => Ascending(log)
    BY <1>2, <2>2, <2>3, <2>4, AscendingBefore
  <2>8. CASE v = NoVal
    <3>1. UNCHANGED <<distinct, lost>>
      BY <1>5, <2>8 DEF CountValue
    <3>2. /\ ValuedIn(g) = ValuedIn(log) /\ \A i \in ValuedIn(log) : g[i] = log[i]
          /\ ValuesIn(g) = ValuesIn(log) /\ LastIn(g) = LastIn(log)
          /\ LiveIn(g) = LiveIn(log)
      <4>1. /\ ValuedIn(g) = ValuedIn(log) /\ \A i \in ValuedIn(log) : g[i] = log[i]
            /\ ValuesIn(g) = ValuesIn(log) /\ LastIn(g) = LastIn(log)
            /\ ValuedIn(log) # {} => LiveIn(g) = LiveIn(log)
            /\ ValuedIn(log) = {} => LiveIn(g) = {} /\ LiveIn(log) = {}
        BY <1>2, <2>2, <2>3, <2>4, <2>8, NothingNew
      <4>2. QED
        BY <4>1
    <3>3. \A u \in ValuesIn(log) : g[LastIn(g)[u]] = log[LastIn(log)[u]]
      BY <1>2, <3>2, LastValue
    <3>4. Lists(distinct, log) => Lists(distinct, g)
      BY <3>2, <3>3 DEF Lists, Stamped
    <3>5. ListsHeld(distinct, log) => ListsHeld(distinct, g)
      BY <1>2, <2>2, <2>3, <2>4, <2>8, NothingMoreHeld
    <3>6. QED
      BY <1>2, <1>3, <2>4, <2>5, <2>6, <2>7, <3>1, <3>4, <3>5
  <2>9. CASE v # NoVal
    <3>1. v \in Vals
      BY <2>9
    <3>2. PICK allocated \in BOOLEAN :
             /\ distinct' = ObserveValue(distinct, v, t, t - Span, allocated)
             /\ lost' = (lost \/ ~allocated)
      BY <1>5, <2>9 DEF CountValue
    <3>3. distinct' \in Seq(Value)
      BY <1>2, <3>1, <3>2, ValueTypes
    <3>4. ASSUME InOrder', ~lost' PROVE Lists(distinct', log')
      <4>1. ~lost /\ allocated = TRUE
        BY <3>2, <3>4
      <4>2. Ascending(g) /\ Lists(distinct, log)
        BY <1>3, <2>5, <2>6, <2>7, <3>4, <4>1
      <4>3. Span \in Nat
        BY <1>1, GroupAssumption DEF Span, Types
      <4>4. Lists(ObserveValue(distinct, r.v, r.t, r.t - Span, TRUE), g)
        BY <1>2, <2>2, <2>3, <2>4, <3>1, <4>2, <4>3, ObserveLists
      <4>5. QED
        BY <2>2, <2>4, <3>2, <4>1, <4>4
    <3>5. ASSUME ~lost' PROVE ListsHeld(distinct', log')
      <4>1. ~lost /\ allocated = TRUE
        BY <3>2, <3>5
      <4>2. ListsHeld(ObserveValue(distinct, r.v, r.t, r.t - Span, TRUE), g)
        BY <1>2, <1>3, <2>2, <2>3, <2>4, <3>1, <4>1, ObserveHeld
      <4>3. QED
        BY <2>2, <2>4, <3>2, <4>1, <4>2
    <3>6. QED
      BY <3>3, <3>4, <3>5
  <2>10. QED
    BY <2>8, <2>9
<1>6. QED
  BY <1>1, <1>2, <1>4, <1>5, ValueSteps

LEMMA DistinctHolds == Spec => []DistinctInv
<1>1. Types /\ DistinctInv /\ [Next]_vars => DistinctInv'
  BY DistinctStep
<1>2. Invariants => Types
  BY DEF Invariants
<1>3. QED
  BY <1>1, <1>2, DistinctInit, InvariantsHold, PTL DEF Spec

\* dset_observe, for events in order and with memory for every new value: a value_count
\* group holds exactly the distinct values of the window, or the max_distinct most
\* recent of them, each once.  (DistinctIsHeld is about late events too.)
THEOREM DistinctIsExact == Spec => []DistinctExact
<1>1. Types /\ DistinctInv => DistinctExact
  <2> SUFFICES ASSUME Types, DistinctInv, kind = "value_count", InOrder, ~lost,
                      Valued # {}
               PROVE  /\ ValuesOf(distinct) = RecentValues
                      /\ Len(distinct) = Cardinality(RecentValues)
    BY DEF DistinctExact
  <2>1. log \in Seq(Entry) /\ distinct \in Seq(Value)
    BY DEF Types, DistinctInv
  <2>2. PICK A, L : A = LiveIn(log) /\ L = LastIn(log)
    OBVIOUS
  <2>3. TopOf(distinct, A, L)
    BY <2>2 DEF DistinctInv, Lists
  <2>4. Valued = ValuedIn(log)
    BY DEF Valued, ValuedIn, Events
  <2>5. \A u \in A : LastOf(u) = L[u]
    <3>1. A \subseteq ValuesIn(log)
      BY <2>2 DEF LiveIn, LiveFrom, ValuesIn
    <3>2. QED
      BY <2>2, <2>4, <3>1 DEF LastOf, LastIn
  <2>6. A = {log[i].v : i \in {j \in Valued : log[j].t >= log[Max(Valued)].t - Span}}
    BY <2>2, <2>4 DEF LiveIn, LiveFrom
  <2>7. \A v \in A : {u \in A : LastOf(u) > LastOf(v)} = Above(A, L, v)
    BY <2>5 DEF Above
  <2>8. RecentValues = {v \in A : Cardinality(Above(A, L, v)) < MaxDistinct}
    BY <2>6, <2>7 DEF RecentValues
  <2>9. ValuesOf(distinct) = RecentValues
    BY <2>3, <2>8 DEF TopOf, ValuesOf
  <2>10. Recency(A, L)
    <3>1. A \in SUBSET ValuesIn(log)
      BY <2>2 DEF LiveIn, LiveFrom, ValuesIn
    <3>2. QED
      BY <2>1, <2>2, <3>1, ValuesRecency
  <2>11. Len(distinct) = Cardinality(ValuesOf(distinct))
    <3>1. PICK n \in Nat : n = Len(distinct) /\ DOMAIN distinct = 1 .. n
      BY <2>1
    <3> DEFINE f == [i \in 1 .. n |-> distinct[i].val]
    <3>2. \A i \in 1 .. n : distinct[i].val \in A /\ L[distinct[i].val] \in Nat
      BY <2>3, <2>10, <3>1 DEF TopOf, Recency
    <3>3. \A i, j \in 1 .. n : i < j => L[distinct[i].val] < L[distinct[j].val]
      BY <2>3, <3>1 DEF TopOf
    <3>4. \A i, j \in 1 .. n : f[i] = f[j] => i = j
      <4>1. ASSUME NEW i \in 1 .. n, NEW j \in 1 .. n, i # j,
                   distinct[i].val = distinct[j].val
            PROVE  FALSE
        <5>1. i < j \/ j < i
          BY <4>1
        <5>2. L[distinct[i].val] \in Nat /\ L[distinct[j].val] \in Nat
          BY <3>2
        <5>3. QED
          BY <3>3, <4>1, <5>1, <5>2
      <4>2. QED
        BY <4>1
    <3>5. \A i \in 1 .. n : f[i] \in ValuesOf(distinct)
      BY <3>1 DEF ValuesOf
    <3>6. \A v \in ValuesOf(distinct) : \E i \in 1 .. n : f[i] = v
      BY <3>1 DEF ValuesOf
    <3>7. f \in Bijection(1 .. n, ValuesOf(distinct))
      <4>1. f \in [1 .. n -> ValuesOf(distinct)]
        BY <3>5
      <4> HIDE DEF f
      <4>2. QED
        BY <3>4, <3>6, <4>1 DEF Bijection, Injection, Surjection, IsInjective
    <3>8. IsFiniteSet(1 .. n) /\ Cardinality(1 .. n) = n
      <4>1. IsFiniteSet(1 .. n) /\ Cardinality(1 .. n) = IF 1 > n THEN 0 ELSE n - 1 + 1
        BY FS_Interval
      <4>2. QED
        BY <4>1
    <3>9. Cardinality(ValuesOf(distinct)) = n
      <4> HIDE DEF f
      <4> QED
        BY <3>7, <3>8, FS_Bijection DEF ExistsBijection
    <3>10. QED
      BY <3>1, <3>9
  <2>12. QED
    BY <2>9, <2>11
<1>2. Invariants => Types
  BY DEF Invariants
<1>3. QED
  BY <1>1, <1>2, InvariantsHold, DistinctHolds, PTL

\* dset_observe, for events in any order and with memory for every new value: a
\* value_count group holds a value exactly from the last event that brought it until one
\* comes whose window starts after that event, or until max_distinct values have come
\* after it; however late timestamps leave the list, expiry finds every entry to drop,
\* and each of the others is there once, with the time of its event.
THEOREM DistinctIsHeld == Spec => []DistinctHeld
<1>1. Types /\ DistinctInv => DistinctHeld
  <2> SUFFICES ASSUME Types, DistinctInv, kind = "value_count", ~lost
               PROVE  /\ ToSet(distinct) = {[val |-> log[i].v, ts |-> log[i].t] : i \in Held}
                      /\ Len(distinct) = Cardinality(Held)
    BY DEF DistinctHeld
  <2>1. log \in Seq(Entry) /\ distinct \in Seq(Value)
    BY DEF Types, DistinctInv
  <2>2. Held = HeldIn(log)
    BY DEF Held, HeldIn, Standing, StandingIn, Valued, ValuedIn, Events, After
  <2>3. PICK H, L : H = HeldIn(log) /\ L = LastIn(log)
    OBVIOUS
  <2>4. Lasts(H, log)
    BY <2>1, <2>3, HeldAreLast
  <2>5. PICK n \in Nat : n = Len(distinct) /\ DOMAIN distinct = 1 .. n
    BY <2>1
  <2>6. /\ Stamped(distinct, log)
        /\ TopOf(distinct, BroughtBy(H, log), L)
    BY <2>3 DEF DistinctInv, ListsHeld
  <2>7. \A i \in H : Cardinality(Above(BroughtBy(H, log), L, log[i].v)) < MaxDistinct
    <3>1. SUFFICES ASSUME NEW i \in H
                   PROVE  Cardinality(Above(BroughtBy(H, log), L, log[i].v)) < MaxDistinct
      OBVIOUS
    <3>2. Cardinality(Above(BroughtBy(H, log), L, log[i].v)) = Cardinality(After(H, i))
      BY <2>1, <2>3, <2>4, RankByEvent
    <3>3. QED
      BY <2>1, <2>3, <3>2, HeldUpward
  <2> DEFINE f == [i \in 1 .. n |-> L[distinct[i].val]]
  <2>8. \A i \in 1 .. n : /\ f[i] \in H /\ f[i] \in Nat
                          /\ distinct[i] = [val |-> log[f[i]].v, ts |-> log[f[i]].t]
    <3>1. SUFFICES ASSUME NEW i \in 1 .. n
                   PROVE  /\ f[i] \in H /\ f[i] \in Nat
                          /\ distinct[i] = [val |-> log[f[i]].v, ts |-> log[f[i]].t]
      OBVIOUS
    <3>2. PICK h \in H : distinct[i].val = log[h].v
      BY <2>5, <2>6 DEF TopOf, BroughtBy
    <3>3. L[log[h].v] = h /\ h \in Nat
      BY <2>1, <2>3, <2>4, LogTimes DEF Lasts, ValuedIn
    <3>4. distinct[i].ts = log[h].t
      BY <2>3, <2>5, <2>6, <3>2, <3>3 DEF Stamped
    <3>5. distinct[i] \in Value
      BY <2>1, <2>5
    <3>6. distinct[i] = [val |-> log[h].v, ts |-> log[h].t]
      BY <3>2, <3>4, <3>5 DEF Value
    <3>7. QED
      BY <3>2, <3>3, <3>6
  <2>9. \A h \in H : \E i \in 1 .. n : f[i] = h
    <3>1. SUFFICES ASSUME NEW h \in H PROVE \E i \in 1 .. n : f[i] = h
      OBVIOUS
    <3>2. log[h].v \in BroughtBy(H, log) /\ L[log[h].v] = h
      BY <2>3, <2>4 DEF BroughtBy, Lasts
    <3>3. log[h].v \in ValuesOf(distinct)
      BY <2>6, <2>7, <3>2 DEF TopOf
    <3>4. QED
      BY <2>5, <3>2, <3>3 DEF ValuesOf
  <2>10. \A i, j \in 1 .. n : f[i] = f[j] => i = j
    <3>1. \A i, j \in 1 .. n : i < j => f[i] < f[j]
      BY <2>5, <2>6 DEF TopOf
    <3>2. ASSUME NEW i \in 1 .. n, NEW j \in 1 .. n, f[i] = f[j], i # j PROVE FALSE
      <4>1. f[i] \in Nat /\ f[j] \in Nat
        BY <2>8
      <4> HIDE DEF f
      <4>2. i < j \/ j < i
        BY <3>2
      <4>3. QED
        BY <3>1, <3>2, <4>1, <4>2
    <3>3. QED
      BY <3>2
  <2>11. f \in Bijection(1 .. n, H)
    <3>1. f \in [1 .. n -> H]
      BY <2>8
    <3> HIDE DEF f
    <3>2. QED
      BY <2>9, <2>10, <3>1 DEF Bijection, Injection, Surjection, IsInjective
  <2> HIDE DEF f
  <2>12. Cardinality(H) = n
    <3>1. IsFiniteSet(1 .. n) /\ Cardinality(1 .. n) = IF 1 > n THEN 0 ELSE n - 1 + 1
      BY FS_Interval
    <3>2. IsFiniteSet(1 .. n) /\ Cardinality(1 .. n) = n
      BY <3>1
    <3>3. QED
      BY <2>11, <3>2, FS_Bijection DEF ExistsBijection
  <2>13. ToSet(distinct) = {[val |-> log[h].v, ts |-> log[h].t] : h \in H}
    <3> DEFINE at(h) == [val |-> log[h].v, ts |-> log[h].t]
    <3>1. \A i \in 1 .. n : f[i] \in H /\ distinct[i] = at(f[i])
      BY <2>8
    <3>2. ToSet(distinct) = {distinct[i] : i \in 1 .. n}
      BY <2>5 DEF ToSet
    <3> HIDE DEF at
    <3>3. {distinct[i] : i \in 1 .. n} = {at(h) : h \in H}
      BY <2>9, <3>1
    <3>4. QED
      BY <3>2, <3>3 DEF at
  <2>14. QED
    BY <2>2, <2>3, <2>5, <2>12, <2>13
<1>2. Invariants => Types
  BY DEF Invariants
<1>3. QED
  BY <1>1, <1>2, InvariantsHold, DistinctHolds, PTL

-----------------------------------------------------------------------------
\* Sums.

\* h gives the sum of the weights w of every set of positions up to n, whichever
\* element is added last.
Sums(h, w, n) ==
  /\ h[{}] = 0
  /\ \A S \in SUBSET (1 .. n) : h[S] \in Int /\ \A x \in S : h[S] = h[S \ {x}] + w[x]

LEMMA SumsExist ==
  ASSUME NEW n \in Nat, NEW w \in [1 .. n -> Int]
  PROVE  \E h : Sums(h, w, n)
<1> DEFINE Q == {k \in Nat : k <= n => \E h : Sums(h, w, k)}
<1>1. 0 \in Q
  <2> DEFINE h == [S \in SUBSET (1 .. 0) |-> 0]
  <2>1. SUBSET (1 .. 0) = {{}}
    OBVIOUS
  <2>2. Sums(h, w, 0)
    BY <2>1 DEF Sums
  <2>3. QED
    BY <2>2
<1>2. ASSUME NEW k \in Nat, k \in Q PROVE k + 1 \in Q
  <2>1. SUFFICES ASSUME k + 1 <= n PROVE \E h : Sums(h, w, k + 1)
    OBVIOUS
  <2>2. PICK h : Sums(h, w, k)
    BY <1>2, <2>1
  <2>3. PICK m : m = k + 1
    OBVIOUS
  <2>4. m \in 1 .. n /\ w[m] \in Int
    BY <2>1, <2>3
  <2>5. \A S \in SUBSET (1 .. m) : S \ {m} \in SUBSET (1 .. k)
    BY <2>3
  <2>6. \A S \in SUBSET (1 .. k) : S \in SUBSET (1 .. m) /\ m \notin S
    BY <2>3
  <2> DEFINE f == [S \in SUBSET (1 .. m) |->
                     IF m \in S THEN h[S \ {m}] + w[m] ELSE h[S]]
  <2>7. f[{}] = 0
    BY <2>2 DEF Sums
  <2>8. ASSUME NEW S \in SUBSET (1 .. m)
        PROVE  f[S] \in Int /\ \A x \in S : f[S] = f[S \ {x}] + w[x]
    <3>1. CASE m \notin S
      <4>1. S \in SUBSET (1 .. k) /\ S \ {m} = S
        BY <2>5, <3>1
      <4>2. f[S] = h[S] /\ h[S] \in Int
        BY <2>2, <3>1, <4>1 DEF Sums
      <4>3. ASSUME NEW x \in S PROVE f[S] = f[S \ {x}] + w[x]
        <5>1. f[S \ {x}] = h[S \ {x}]
          BY <3>1
        <5>2. QED
          BY <2>2, <4>1, <4>2, <5>1 DEF Sums
      <4> HIDE DEF f
      <4>4. QED
        BY <4>2, <4>3
    <3>2. CASE m \in S
      <4>1. PICK R : R = S \ {m}
        OBVIOUS
      <4>2. R \in SUBSET (1 .. k) /\ h[R] \in Int /\ f[S] = h[R] + w[m]
        BY <2>2, <2>5, <3>2, <4>1 DEF Sums
      <4>3. ASSUME NEW x \in S PROVE f[S] = f[S \ {x}] + w[x]
        <5>1. CASE x = m
          <6>1. R \in SUBSET (1 .. m) /\ m \notin R
            BY <2>6, <4>2
          <6>2. f[S \ {x}] = h[R]
            BY <4>1, <5>1, <6>1
          <6>3. QED
            BY <4>2, <5>1, <6>2
        <5>2. CASE x # m
          <6>1. x \in R /\ (S \ {x}) \ {m} = R \ {x} /\ m \in S \ {x}
            BY <3>2, <4>1, <5>2
          <6>2. f[S \ {x}] = h[R \ {x}] + w[m]
            BY <6>1
          <6>3. h[R] = h[R \ {x}] + w[x]
            BY <2>2, <4>2, <6>1 DEF Sums
          <6>4. R \ {x} \in SUBSET (1 .. k)
            BY <4>2
          <6>5. h[R \ {x}] \in Int
            BY <2>2, <6>4 DEF Sums
          <6>6. w[x] \in Int
            BY <2>4, <2>3
          <6> HIDE DEF f
          <6>7. QED
            BY <2>4, <4>2, <6>2, <6>3, <6>5, <6>6
        <5>3. QED
          BY <5>1, <5>2
      <4>4. f[S] \in Int
        BY <2>4, <4>2
      <4> HIDE DEF f
      <4>5. QED
        BY <4>3, <4>4
    <3>3. QED
      BY <3>1, <3>2
  <2>9. Sums(f, w, k + 1)
    <3> HIDE DEF f
    <3> QED
      BY <2>3, <2>7, <2>8 DEF Sums
  <2>10. QED
    BY <2>9
<1>3. n \in Q
  <2> HIDE DEF Q
  <2>1. Nat \subseteq Q
    BY <1>1, <1>2, SetInduction
  <2>2. QED
    BY <2>1
<1>4. QED
  BY <1>3

\* The recursion of a fold that adds w over S, taking out element c[s] of s.
Adds(it, w, c, S) ==
  it = [s \in SUBSET S |-> IF s = {} THEN 0 ELSE w[c[s]] + it[s \ {c[s]}]]

\* It has a solution ...
LEMMA AddsExists ==
  ASSUME NEW n \in Nat, NEW w \in [1 .. n -> Int], NEW h, Sums(h, w, n),
         NEW S \in SUBSET (1 .. n), NEW c, \A s \in SUBSET S : s # {} => c[s] \in s
  PROVE  \E it : Adds(it, w, c, S)
<1> DEFINE it == [s \in SUBSET S |-> h[s]]
<1>1. ASSUME NEW s \in SUBSET S, s # {} PROVE it[s] = w[c[s]] + it[s \ {c[s]}]
  <2>1. PICK x : x = c[s]
    OBVIOUS
  <2>2. x \in s /\ s \in SUBSET (1 .. n) /\ s \ {x} \in SUBSET (1 .. n)
    BY <1>1, <2>1
  <2>3. h[s] = h[s \ {x}] + w[x] /\ h[s \ {x}] \in Int /\ w[x] \in Int
    BY <2>2 DEF Sums
  <2>4. s \ {x} \in SUBSET S
    OBVIOUS
  <2>5. QED
    BY <2>1, <2>3, <2>4
<1>2. it[{}] = 0
  BY DEF Sums
<1>3. Adds(it, w, c, S)
  <2>1. it = [s \in SUBSET S |-> it[s]]
    OBVIOUS
  <2> HIDE DEF it
  <2>2. QED
    BY <1>1, <1>2, <2>1 DEF Adds
<1>4. QED
  BY <1>3

\* ... and any solution is the sum.
LEMMA AddsIsSum ==
  ASSUME NEW n \in Nat, NEW w \in [1 .. n -> Int], NEW h, Sums(h, w, n),
         NEW S \in SUBSET (1 .. n), NEW c, \A s \in SUBSET S : s # {} => c[s] \in s,
         NEW it, Adds(it, w, c, S)
  PROVE  it[S] = h[S]
<1> DEFINE Q == {k \in Nat : \A s \in SUBSET S : Cardinality(s) = k => it[s] = h[s]}
<1>0. ASSUME NEW s \in SUBSET S
      PROVE  IsFiniteSet(s) /\ Cardinality(s) \in Nat
  <2>1. IsFiniteSet(1 .. n)
    BY FS_Interval
  <2>2. QED
    BY <2>1, FS_Subset, FS_CardinalityType
<1>1. 0 \in Q
  <2>1. ASSUME NEW s \in SUBSET S, Cardinality(s) = 0 PROVE it[s] = h[s]
    <3>1. s = {}
      BY <1>0, <2>1, FS_EmptySet
    <3>2. it[{}] = 0
      BY DEF Adds
    <3>3. QED
      BY <3>1, <3>2 DEF Sums
  <2>2. QED
    BY <2>1
<1>2. ASSUME NEW k \in Nat, k \in Q PROVE k + 1 \in Q
  <2>1. ASSUME NEW s \in SUBSET S, Cardinality(s) = k + 1 PROVE it[s] = h[s]
    <3>1. s # {}
      <4>1. Cardinality({}) # k + 1
        BY FS_EmptySet
      <4>2. QED
        BY <2>1, <4>1
    <3>2. PICK x : x = c[s]
      OBVIOUS
    <3>3. x \in s /\ s \in SUBSET (1 .. n) /\ s \ {x} \in SUBSET S
      BY <3>1, <3>2
    <3>4. it[s] = w[x] + it[s \ {x}]
      BY <3>1, <3>2 DEF Adds
    <3>5. Cardinality(s \ {x}) = k
      BY <1>0, <2>1, <3>3, FS_RemoveElement
    <3>6. it[s \ {x}] = h[s \ {x}]
      BY <1>2, <3>3, <3>5
    <3>7. h[s] = h[s \ {x}] + w[x] /\ h[s \ {x}] \in Int /\ w[x] \in Int
      BY <3>3 DEF Sums
    <3>8. QED
      BY <3>4, <3>6, <3>7
  <2>2. QED
    BY <2>1
<1>3. Cardinality(S) \in Q
  <2>1. Nat \subseteq Q
    <3> HIDE DEF Q
    <3> QED
      BY <1>1, <1>2, SetInduction
  <2>2. QED
    BY <1>0, <2>1
<1>4. QED
  BY <1>3

\* The positions f[0] .. f[k - 1].
Image(f, k) == {f[i] : i \in 0 .. k - 1}

LEMMA ImageGrows ==
  ASSUME NEW f, NEW k \in Nat
  PROVE  Image(f, 0) = {} /\ Image(f, k + 1) = Image(f, k) \cup {f[k]}
<1>1. 0 .. (k + 1) - 1 = (0 .. k - 1) \cup {k} /\ 0 .. 0 - 1 = {}
  OBVIOUS
<1>2. Image(f, 0) = {}
  BY <1>1 DEF Image
<1>3. ASSUME NEW y PROVE y \in Image(f, k + 1) <=> y \in Image(f, k) \/ y = f[k]
  <2>1. y \in Image(f, k + 1) <=> \E i \in (0 .. k - 1) \cup {k} : y = f[i]
    BY <1>1 DEF Image
  <2>2. y \in Image(f, k) <=> \E i \in 0 .. k - 1 : y = f[i]
    BY DEF Image
  <2>3. QED
    BY <2>1, <2>2
<1>4. QED
  BY <1>2, <1>3

\* f goes through m positions up to n outside B, each once ...
Visits(f, m, n, B) ==
  /\ f \in [0 .. m - 1 -> (1 .. n) \ B]
  /\ \A i, j \in 0 .. m - 1 : f[i] = f[j] => i = j

\* ... and g has the sums of their weights.
AddsUp(g, f, m, w) ==
  /\ g \in [0 .. m -> Int]
  /\ g[0] = 0
  /\ \A i \in 0 .. m - 1 : g[i + 1] = g[i] + w[f[i]]

With(B, f, m) == B \cup Image(f, m)

\* What those positions add to the sum of B is the sum up to m.
LEMMA SumsThrough ==
  ASSUME NEW n \in Nat, NEW w \in [1 .. n -> Int], NEW h, Sums(h, w, n),
         NEW B \in SUBSET (1 .. n), NEW m \in Nat, NEW f, Visits(f, m, n, B),
         NEW g, AddsUp(g, f, m, w)
  PROVE  h[With(B, f, m)] = h[B] + g[m]
<1>0. /\ f \in [0 .. m - 1 -> (1 .. n) \ B]
      /\ \A i, j \in 0 .. m - 1 : f[i] = f[j] => i = j
      /\ g \in [0 .. m -> Int] /\ g[0] = 0
      /\ \A i \in 0 .. m - 1 : g[i + 1] = g[i] + w[f[i]]
  BY DEF Visits, AddsUp
<1> DEFINE Q == {k \in Nat : k <= m => h[B \cup Image(f, k)] = h[B] + g[k]}
<1>1. 0 \in Q
  <2>0. PICK R : R = B \cup Image(f, 0)
    OBVIOUS
  <2>1. R = B
    BY <2>0, ImageGrows
  <2>2. h[B] \in Int
    BY DEF Sums
  <2>3. PICK a \in Int : a = h[B]
    BY <2>2
  <2>4. h[R] = a + 0
    BY <2>1, <2>3
  <2>5. h[B \cup Image(f, 0)] = h[B] + g[0]
    <3>1. h[B \cup Image(f, 0)] = h[R] /\ h[B] + g[0] = a + 0
      BY <1>0, <2>0, <2>3
    <3>2. QED
      BY <2>4, <3>1
  <2>6. QED
    BY <2>5
<1>2. ASSUME NEW k \in Nat, k \in Q PROVE k + 1 \in Q
  <2>1. SUFFICES ASSUME k + 1 <= m PROVE h[B \cup Image(f, k + 1)] = h[B] + g[k + 1]
    OBVIOUS
  <2>2. PICK x : x = f[k]
    OBVIOUS
  <2>3. k \in 0 .. m - 1 /\ k \in 0 .. m /\ x \in (1 .. n) \ B
    BY <1>0, <2>1, <2>2
  <2>4. Image(f, k + 1) = Image(f, k) \cup {x}
    BY <2>2, ImageGrows
  <2>5. \A i \in 0 .. k - 1 : i \in 0 .. m - 1 /\ i # k
    BY <2>1
  <2>6. x \notin Image(f, k)
    BY <1>0, <2>2, <2>3, <2>5 DEF Image
  <2>7. Image(f, k) \subseteq 1 .. n
    BY <1>0, <2>5 DEF Image
  <2>8. PICK R : R = B \cup Image(f, k + 1)
    OBVIOUS
  <2>9. x \in R /\ R \ {x} = B \cup Image(f, k) /\ R \in SUBSET (1 .. n)
    BY <2>3, <2>4, <2>6, <2>7, <2>8
  <2>10. h[R] = h[R \ {x}] + w[x] /\ w[x] \in Int
    BY <2>3, <2>9 DEF Sums
  <2>11. h[B \cup Image(f, k)] = h[B] + g[k]
    BY <1>2, <2>1
  <2>12. g[k + 1] = g[k] + w[x]
    BY <1>0, <2>2, <2>3
  <2>13. h[B] \in Int /\ g[k] \in Int
    BY <1>0, <2>3 DEF Sums
  <2>14. PICK a, b, d : a = h[B] /\ b = g[k] /\ d = w[x]
    OBVIOUS
  <2>15. h[R] = (a + b) + d /\ g[k + 1] = b + d
    BY <2>9, <2>10, <2>11, <2>12, <2>14
  <2>16. (a + b) + d = a + (b + d)
    BY <2>10, <2>13, <2>14
  <2>17. QED
    BY <2>8, <2>14, <2>15, <2>16
<1>3. m \in Q
  <2>1. Nat \subseteq Q
    <3> HIDE DEF Q
    <3> QED
      BY <1>1, <1>2, SetInduction
  <2>2. QED
    BY <2>1
<1>4. QED
  BY <1>3 DEF With

\* Weights that are not negative: a larger set has no smaller sum.
UpTo(D, C, k) == {i \in C : i \in D \/ i <= k}

LEMMA UpToEnds ==
  ASSUME NEW n \in Nat, NEW C \in SUBSET (1 .. n), NEW D \in SUBSET C
  PROVE  UpTo(D, C, 0) = D /\ UpTo(D, C, n) = C
<1>1. \A i \in C : ~(i <= 0) /\ i <= n
  OBVIOUS
<1>2. QED
  BY <1>1 DEF UpTo

LEMMA UpToGrows ==
  ASSUME NEW n \in Nat, NEW C \in SUBSET (1 .. n), NEW D \in SUBSET C,
         NEW k \in Nat, NEW x \in Nat, x = k + 1
  PROVE  /\ UpTo(D, C, x) \in SUBSET (1 .. n)
         /\ \/ UpTo(D, C, x) = UpTo(D, C, k)
            \/ /\ x \in UpTo(D, C, x)
               /\ UpTo(D, C, x) \ {x} = UpTo(D, C, k)
<1>1. \A i \in C : i \in 1 .. n /\ (i <= x <=> i <= k \/ i = x)
  OBVIOUS
<1>2. UpTo(D, C, x) \in SUBSET (1 .. n)
  BY <1>1 DEF UpTo
<1>3. ~(x <= k)
  OBVIOUS
<1>4. CASE x \in C /\ x \notin D
  <2>1. x \in UpTo(D, C, x) /\ x \notin UpTo(D, C, k)
    BY <1>1, <1>3, <1>4 DEF UpTo
  <2>2. \A i \in C : i # x => (i \in UpTo(D, C, x) <=> i \in UpTo(D, C, k))
    BY <1>1 DEF UpTo
  <2>3. UpTo(D, C, x) \subseteq C /\ UpTo(D, C, k) \subseteq C
    BY DEF UpTo
  <2>4. QED
    BY <1>2, <2>1, <2>2, <2>3
<1>5. CASE ~(x \in C /\ x \notin D)
  <2>1. \A i \in C : i \in UpTo(D, C, x) <=> i \in UpTo(D, C, k)
    BY <1>1, <1>5 DEF UpTo
  <2>2. UpTo(D, C, x) \subseteq C /\ UpTo(D, C, k) \subseteq C
    BY DEF UpTo
  <2>3. QED
    BY <1>2, <2>1, <2>2
<1>6. QED
  BY <1>4, <1>5

LEMMA SumsMonotone ==
  ASSUME NEW n \in Nat, NEW w \in [1 .. n -> Nat], NEW h, Sums(h, w, n),
         NEW C \in SUBSET (1 .. n), NEW D \in SUBSET C
  PROVE  h[D] <= h[C] /\ h[D] \in Int /\ h[C] \in Int
<1> DEFINE Q == {k \in Nat : h[D] <= h[UpTo(D, C, k)]}
<1>1. h[D] \in Int /\ h[C] \in Int
  BY DEF Sums
<1>2. 0 \in Q
  <2>1. UpTo(D, C, 0) = D
    BY UpToEnds
  <2>2. h[D] <= h[UpTo(D, C, 0)]
    BY <1>1, <2>1
  <2>3. QED
    BY <2>2
<1>3. ASSUME NEW k \in Nat, k \in Q PROVE k + 1 \in Q
  <2>1. PICK x \in Nat : x = k + 1
    OBVIOUS
  <2>2. PICK R, P : R = UpTo(D, C, x) /\ P = UpTo(D, C, k)
    OBVIOUS
  <2>3. R \in SUBSET (1 .. n) /\ (R = P \/ (x \in R /\ R \ {x} = P))
    BY <2>1, <2>2, UpToGrows
  <2>4. h[D] <= h[P]
    BY <1>3, <2>2
  <2>5. h[D] <= h[R]
    <3>1. CASE R = P
      BY <2>4, <3>1
    <3>2. CASE x \in R /\ R \ {x} = P
      <4>1. h[R] = h[P] + w[x] /\ w[x] \in Nat /\ P \in SUBSET (1 .. n)
        BY <2>3, <3>2 DEF Sums
      <4>2. h[P] \in Int
        BY <4>1 DEF Sums
      <4>3. QED
        BY <1>1, <2>4, <4>1, <4>2
    <3>3. QED
      BY <2>3, <3>1, <3>2
  <2>6. QED
    BY <2>1, <2>2, <2>5
<1>4. Nat \subseteq Q
  <2> HIDE DEF Q
  <2> QED
    BY <1>2, <1>3, SetInduction
<1>5. h[D] <= h[UpTo(D, C, n)]
  BY <1>4
<1>6. UpTo(D, C, n) = C
  BY UpToEnds
<1>7. QED
  BY <1>1, <1>5, <1>6

\* The weights of the entries of a log.
NumbersOf(l) == [i \in 1 .. Len(l) |-> l[i].n]
TotalsOf(l)  == [i \in 1 .. Len(l) |-> IF l[i].v = NoVal THEN 0 ELSE l[i].v]

LEMMA NumberOfIsSum ==
  ASSUME NEW n \in Nat, n = Len(log), NEW w \in [1 .. n -> Int], w = NumbersOf(log),
         NEW h, Sums(h, w, n), NEW S \in SUBSET (1 .. n)
  PROVE  NumberOf(S) = h[S]
<1>0. PICK c : c = [s \in SUBSET S |-> CHOOSE x \in s : TRUE]
  OBVIOUS
<1> DEFINE Eq(f) == f = [s \in SUBSET S |->
                           IF s = {} THEN 0
                           ELSE log[CHOOSE x \in s : TRUE].n
                                  + f[s \ {CHOOSE x \in s : TRUE}]]
           it == CHOOSE f : Eq(f)
<1>1. NumberOf(S) = it[S]
  BY DEF NumberOf, MapThenSumSet, MapThenFoldSet
<1>2. \A s \in SUBSET S : s # {} => c[s] \in s
  BY <1>0
<1>3. \A s \in SUBSET S :
        /\ c[s] = CHOOSE x \in s : TRUE
        /\ s # {} => w[c[s]] = log[CHOOSE x \in s : TRUE].n
  BY <1>0 DEF NumbersOf
<1>4. ASSUME NEW f PROVE Eq(f) <=> Adds(f, w, c, S)
  <2>0. ASSUME NEW s \in SUBSET S
        PROVE  (IF s = {} THEN 0
                ELSE log[CHOOSE x \in s : TRUE].n + f[s \ {CHOOSE x \in s : TRUE}])
                 = (IF s = {} THEN 0 ELSE w[c[s]] + f[s \ {c[s]}])
    <3>1. PICK d : d = CHOOSE x \in s : TRUE
      OBVIOUS
    <3>2. c[s] = d /\ (s # {} => w[c[s]] = log[d].n)
      BY <1>3, <3>1
    <3>3. QED
      BY <3>1, <3>2
  <2>1. [s \in SUBSET S |->
           IF s = {} THEN 0
           ELSE log[CHOOSE x \in s : TRUE].n + f[s \ {CHOOSE x \in s : TRUE}]]
          = [s \in SUBSET S |-> IF s = {} THEN 0 ELSE w[c[s]] + f[s \ {c[s]}]]
    BY <2>0
  <2>2. QED
    BY <2>1 DEF Adds
<1>5. \E f : Adds(f, w, c, S)
  BY <1>2, AddsExists
<1>6. Eq(it)
  <2> HIDE DEF Eq
  <2> QED
    BY <1>4, <1>5
<1> HIDE DEF it
<1>7. Adds(it, w, c, S)
  <2> HIDE DEF Eq
  <2> QED
    BY <1>4, <1>6
<1>8. it[S] = h[S]
  <2>1. PICK a : a = it
    OBVIOUS
  <2>2. Adds(a, w, c, S)
    BY <1>7, <2>1
  <2>3. QED
    BY <1>2, <2>1, <2>2, AddsIsSum
<1>9. QED
  BY <1>1, <1>8

LEMMA TotalOfIsSum ==
  ASSUME NEW n \in Nat, n = Len(log), NEW w \in [1 .. n -> Int], w = TotalsOf(log),
         NEW h, Sums(h, w, n), NEW S \in SUBSET (1 .. n),
         \A i \in S : log[i].v # NoVal
  PROVE  TotalOf(S) = h[S]
<1>0. PICK c : c = [s \in SUBSET S |-> CHOOSE x \in s : TRUE]
  OBVIOUS
<1> DEFINE Eq(f) == f = [s \in SUBSET S |->
                           IF s = {} THEN 0
                           ELSE log[CHOOSE x \in s : TRUE].v
                                  + f[s \ {CHOOSE x \in s : TRUE}]]
           it == CHOOSE f : Eq(f)
<1>1. TotalOf(S) = it[S]
  BY DEF TotalOf, MapThenSumSet, MapThenFoldSet
<1>2. \A s \in SUBSET S : s # {} => c[s] \in s
  BY <1>0
<1>3. \A s \in SUBSET S :
        /\ c[s] = CHOOSE x \in s : TRUE
        /\ s # {} => w[c[s]] = log[CHOOSE x \in s : TRUE].v
  BY <1>0 DEF TotalsOf
<1>4. ASSUME NEW f PROVE Eq(f) <=> Adds(f, w, c, S)
  <2>0. ASSUME NEW s \in SUBSET S
        PROVE  (IF s = {} THEN 0
                ELSE log[CHOOSE x \in s : TRUE].v + f[s \ {CHOOSE x \in s : TRUE}])
                 = (IF s = {} THEN 0 ELSE w[c[s]] + f[s \ {c[s]}])
    <3>1. PICK d : d = CHOOSE x \in s : TRUE
      OBVIOUS
    <3>2. c[s] = d /\ (s # {} => w[c[s]] = log[d].v)
      BY <1>3, <3>1
    <3>3. QED
      BY <3>1, <3>2
  <2>1. [s \in SUBSET S |->
           IF s = {} THEN 0
           ELSE log[CHOOSE x \in s : TRUE].v + f[s \ {CHOOSE x \in s : TRUE}]]
          = [s \in SUBSET S |-> IF s = {} THEN 0 ELSE w[c[s]] + f[s \ {c[s]}]]
    BY <2>0
  <2>2. QED
    BY <2>1 DEF Adds
<1>5. \E f : Adds(f, w, c, S)
  BY <1>2, AddsExists
<1>6. Eq(it)
  <2> HIDE DEF Eq
  <2> QED
    BY <1>4, <1>5
<1> HIDE DEF it
<1>7. Adds(it, w, c, S)
  <2> HIDE DEF Eq
  <2> QED
    BY <1>4, <1>6
<1>8. it[S] = h[S]
  <2>1. PICK a : a = it
    OBVIOUS
  <2>2. Adds(a, w, c, S)
    BY <1>7, <2>1
  <2>3. QED
    BY <1>2, <2>1, <2>2, AddsIsSum
<1>9. QED
  BY <1>1, <1>8

\* SumOf adds from the left: p gives the sums of the prefixes of s.
PrefixSums(p, s, n) ==
  /\ p \in [0 .. n -> Int]
  /\ p[0] = 0
  /\ \A i \in 1 .. n : p[i] = p[i - 1] + s[i]
  /\ SumOf(s) = p[n]

LEMMA SumOfTrace ==
  ASSUME NEW n \in Nat, NEW s \in [1 .. n -> Int]
  PROVE  \E p : PrefixSums(p, s, n)
<1> DEFINE Eq(f) == f = [T \in SUBSET (DOMAIN s) |->
                           IF T = {} THEN 0 ELSE f[T \ {Max(T)}] + s[Max(T)]]
           it == CHOOSE f : Eq(f)
           g == [x \in Int \X (1 .. n) |-> x[1] + s[x[2]]]
<1>1. DOMAIN s = 1 .. n /\ 0 \in Int
  OBVIOUS
<1>2. SumOf(s) = it[DOMAIN s]
  BY DEF SumOf, FoldLeft, MapThenFoldSet
<1>3. g \in [Int \X (1 .. n) -> Int]
  OBVIOUS
<1>4. PICK f : Solves(f, Int, 0, g, n)
  <2> HIDE DEF g
  <2> QED
    BY <1>1, <1>3, FoldExists
<1>5. \A T \in SUBSET (1 .. n) : T # {} => Max(T) \in 1 .. n
  <2>1. \A T \in SUBSET (1 .. n) : T \in SUBSET (0 .. n)
    OBVIOUS
  <2>2. QED
    BY <2>1, Greatest
<1>6. \A x \in Int, i \in 1 .. n : g[<<x, i>>] = x + s[i]
  OBVIOUS
<1>7. Eq(f)
  <2>1. ASSUME NEW T \in SUBSET (1 .. n), T # {}
        PROVE  f[T] = f[T \ {Max(T)}] + s[Max(T)]
    <3>1. f[T \ {Max(T)}] \in Int /\ f[T] = g[<<f[T \ {Max(T)}], Max(T)>>]
      BY <1>4, <2>1 DEF Solves
    <3> HIDE DEF g
    <3>2. QED
      BY <1>5, <1>6, <2>1, <3>1
  <2>2. f[{}] = 0 /\ f = [T \in SUBSET (1 .. n) |-> f[T]]
    BY <1>4 DEF Solves
  <2>3. QED
    BY <1>1, <2>1, <2>2
<1>8. Eq(it)
  <2> HIDE DEF Eq
  <2> QED
    BY <1>7
<1>9. it[{}] = 0
  BY <1>8
<1>10. ASSUME NEW T \in SUBSET (1 .. n), T # {}, it[T \ {Max(T)}] \in Int
       PROVE  it[T] = g[<<it[T \ {Max(T)}], Max(T)>>]
  <2> HIDE DEF it, g
  <2>1. it[T] = it[T \ {Max(T)}] + s[Max(T)]
    BY <1>1, <1>8, <1>10
  <2>2. QED
    BY <1>5, <1>6, <1>10, <2>1
<1>11. StepsThrough(it, Int, 0, g, n)
  <2> HIDE DEF it, g
  <2>1. Obeys(it, Int, 0, g, n)
    BY <1>9, <1>10 DEF Obeys
  <2>2. QED
    BY <1>1, <1>3, <2>1, FoldTrace
<1> DEFINE p == [k \in 0 .. n |-> it[1 .. k]]
<1>12. ASSUME NEW i \in 1 .. n PROVE p[i] = p[i - 1] + s[i]
  <2> HIDE DEF it
  <2>1. i - 1 \in 0 .. n /\ i \in 0 .. n
    OBVIOUS
  <2>2. it[1 .. i] = g[<<it[1 .. i - 1], i>>] /\ it[1 .. i - 1] \in Int
    <3> HIDE DEF g
    <3> QED
      BY <1>11, <2>1 DEF StepsThrough
  <2>3. g[<<it[1 .. i - 1], i>>] = it[1 .. i - 1] + s[i]
    <3> HIDE DEF g
    <3> QED
      BY <1>6, <2>2
  <2>4. QED
    BY <2>1, <2>2, <2>3
<1> HIDE DEF it, g
<1>13. p \in [0 .. n -> Int] /\ p[0] = 0 /\ p[n] = it[1 .. n]
  BY <1>11 DEF StepsThrough
<1>14. PrefixSums(p, s, n)
  <2> HIDE DEF p
  <2> QED
    BY <1>1, <1>2, <1>12, <1>13 DEF PrefixSums
<1>15. QED
  BY <1>14

\* Adding up below a modulus.
LEMMA ModAdds ==
  ASSUME NEW m \in Nat \ {0}, NEW a \in Nat, NEW c \in Nat
  PROVE  ((a % m) + c) % m = (a + c) % m
<1>0. \A x \in Nat : \E y \in Int, z \in Int :
        z = x % m /\ x = m * y + z /\ 0 <= z /\ z < m
  <2>1. ASSUME NEW x \in Nat
        PROVE  /\ x \div m \in Int /\ x % m \in Int
               /\ x = m * (x \div m) + (x % m) /\ 0 <= x % m /\ x % m < m
    OBVIOUS
  <2>2. QED
    BY <2>1
<1>1. PICK q \in Int, r \in Int : r = a % m /\ a = m * q + r /\ 0 <= r /\ r < m
  BY <1>0
<1>10. r + c \in Nat /\ a + c \in Nat
  BY <1>1
<1>2. PICK p \in Int, s \in Int :
        s = (r + c) % m /\ r + c = m * p + s /\ 0 <= s /\ s < m
  BY <1>0, <1>10
<1>3. PICK o \in Int, t \in Int :
        t = (a + c) % m /\ a + c = m * o + t /\ 0 <= t /\ t < m
  BY <1>0, <1>10
<1>4. m * q + m * p + s = m * o + t
  <2>1. PICK x \in Int, y \in Int, z \in Int : x = m * q /\ y = m * p /\ z = m * o
    OBVIOUS
  <2>2. a = x + r /\ r + c = y + s /\ a + c = z + t
    BY <1>1, <1>2, <1>3, <2>1
  <2>3. x + y + s = z + t
    BY <2>2
  <2>4. QED
    BY <2>1, <2>3
<1>5. PICK d \in Int : d = q + p - o
  OBVIOUS
<1>6. m * d = t - s
  <2>1. m * d = m * q + m * p - m * o
    BY <1>5
  <2>2. QED
    BY <1>4, <2>1
<1>7. d = 0
  <2>1. CASE d >= 1
    <3>1. m * d >= m
      BY <2>1
    <3>2. QED
      BY <1>2, <1>3, <1>6, <3>1
  <2>2. CASE d <= -1
    <3>1. m * d <= -m
      BY <2>2
    <3>2. QED
      BY <1>2, <1>3, <1>6, <3>1
  <2>3. QED
    BY <2>1, <2>2
<1>8. m * d = 0
  BY <1>7
<1>9. s = t
  BY <1>6, <1>8
<1>11. QED
  BY <1>1, <1>2, <1>3, <1>9

-----------------------------------------------------------------------------
\* The ring of an aggregate.

EventValue(e) == IF e.v = NoVal THEN 0 ELSE e.v

\* The entries whose values a group of kind k stores in its ring.
Stored(k, e) == ~e.remote /\ (k = "event_count" \/ e.v # NoVal)

\* f says which entry of l every live slot of the ring holds: those stored and not
\* older than start, in the order of arrival.
Tracks(f, r, l, k, start) ==
  /\ r \in AnyRing
  /\ f \in [0 .. r.len - 1 -> DOMAIN l]
  /\ \A i \in 0 .. r.len - 1 :
       /\ i < f[i] /\ Stored(k, l[f[i]]) /\ l[f[i]].t >= start
       /\ TsAt(r, i) = l[f[i]].t /\ ValAt(r, i) = EventValue(l[f[i]])
  /\ \A i, j \in 0 .. r.len - 1 : i < j => f[i] < f[j]
  /\ \A p \in DOMAIN l : Stored(k, l[p]) /\ l[p].t >= start =>
       \E i \in 0 .. r.len - 1 : f[i] = p

\* So it has no more entries than the log.
LEMMA TracksFew ==
  ASSUME NEW l \in Seq(Entry), NEW f, NEW r, NEW k, NEW start, Tracks(f, r, l, k, start)
  PROVE  r.len \in 0 .. MaxEvents /\ r.len <= Len(l)
<1>1. r.len \in 0 .. MaxEvents /\ Len(l) \in Nat /\ DOMAIN l = 1 .. Len(l)
  BY DEF Tracks, AnyRing, RingOf
<1>2. CASE r.len = 0
  BY <1>1, <1>2
<1>3. CASE r.len # 0
  <2>1. PICK i : i = r.len - 1
    OBVIOUS
  <2>2. i \in 0 .. r.len - 1
    BY <1>1, <1>3, <2>1, MaxEventsAssumption
  <2>3. i < f[i] /\ f[i] \in 1 .. Len(l)
    BY <1>1, <2>2 DEF Tracks
  <2>4. QED
    BY <1>1, <2>1, <2>3, MaxEventsAssumption
<1>4. QED
  BY <1>2, <1>3

\* An entry that is not stored leaves the ring as it is.
LEMMA TracksOn ==
  ASSUME NEW l \in Seq(Entry), NEW e \in Entry, NEW f, NEW r, NEW k, NEW start,
         Tracks(f, r, l, k, start), ~Stored(k, e)
  PROVE  Tracks(f, r, Append(l, e), k, start)
<1>1. PICK g : g = Append(l, e)
  OBVIOUS
<1>2. /\ DOMAIN l = 1 .. Len(l) /\ DOMAIN g = 1 .. Len(l) + 1 /\ Len(l) \in Nat
      /\ \A i \in DOMAIN l : g[i] = l[i]
      /\ g[Len(l) + 1] = e
  BY <1>1, LogGrows
<1>3. \A p \in DOMAIN g : Stored(k, g[p]) => p \in DOMAIN l
  BY <1>2
<1>4. f \in [0 .. r.len - 1 -> DOMAIN g]
  <2>1. DOMAIN l \subseteq DOMAIN g
    BY <1>2
  <2>2. f \in [0 .. r.len - 1 -> DOMAIN l]
    BY DEF Tracks
  <2>3. QED
    BY <2>1, <2>2
<1>5. \A i \in 0 .. r.len - 1 : g[f[i]] = l[f[i]]
  BY <1>2 DEF Tracks
<1>6. Tracks(f, r, g, k, start)
  BY <1>2, <1>3, <1>4, <1>5 DEF Tracks
<1>7. QED
  BY <1>1, <1>6

\* One that is stored comes last, if the ring has room.
LEMMA TracksStore ==
  ASSUME NEW l \in Seq(Entry), NEW e \in Entry, NEW f, NEW r, NEW k, NEW start \in Int,
         Tracks(f, r, l, k, start), Stored(k, e), e.t >= start, r.len < MaxEvents,
         NEW v \in Int, v = EventValue(e)
  PROVE  \E h : Tracks(h, Store(r, e.t, v), Append(l, e), k, start)
<1>1. PICK g, s, n, m : /\ g = Append(l, e) /\ s = Store(r, e.t, v)
                        /\ n = r.len /\ m = Len(l) + 1
  OBVIOUS
<1>2. /\ DOMAIN l = 1 .. m - 1 /\ DOMAIN g = 1 .. m /\ m \in Nat \ {0}
      /\ \A i \in DOMAIN l : g[i] = l[i] /\ i \in DOMAIN g
      /\ g[m] = e /\ m \in DOMAIN g
  BY <1>1, LogGrows
<1>3. n \in 0 .. MaxEvents /\ n < m /\ n < MaxEvents /\ r \in AnyRing
  <2>1. n \in 0 .. MaxEvents /\ n <= Len(l)
    BY <1>1, TracksFew
  <2>2. QED
    BY <1>1, <1>2, <2>1 DEF Tracks
<1>4. /\ s \in AnyRing /\ s.len = n + 1
      /\ \A j \in 0 .. n - 1 : TsAt(s, j) = TsAt(r, j) /\ ValAt(s, j) = ValAt(r, j)
      /\ TsAt(s, n) = e.t /\ ValAt(s, n) = v
  <2>1. e.t \in Int /\ v \in Int /\ ~IsFull(r)
    BY <1>1, <1>3, MaxEventsAssumption DEF Entry, Time, IsFull
  <2>2. /\ s \in AnyRing /\ s.len = n + 1 - 0
        /\ \A j \in 0 .. s.len - 2 : /\ TsAt(s, j) = TsAt(r, j + 0)
                                     /\ ValAt(s, j) = ValAt(r, j + 0)
        /\ TsAt(s, s.len - 1) = e.t /\ ValAt(s, s.len - 1) = v
    BY <1>1, <1>3, <2>1, StoreRing
  <2>3. n \in Nat
    BY <1>3, MaxEventsAssumption
  <2>4. s.len = n + 1 /\ s.len - 2 = n - 1 /\ s.len - 1 = n
    BY <2>2, <2>3
  <2>5. \A j \in 0 .. n - 1 : j + 0 = j
    BY <2>3
  <2>6. QED
    BY <2>2, <2>4, <2>5
<1>5. n \in Nat /\ 0 .. s.len - 1 = (0 .. n - 1) \cup {n}
  BY <1>3, <1>4, MaxEventsAssumption
<1>6. PICK h : h = [i \in 0 .. s.len - 1 |-> IF i = n THEN m ELSE f[i]]
  OBVIOUS
<1>7. \A i \in 0 .. n - 1 : h[i] = f[i] /\ f[i] \in DOMAIN l /\ f[i] < m
  <2>1. \A i \in 0 .. n - 1 : i # n /\ i \in 0 .. s.len - 1
    BY <1>5
  <2>2. \A i \in 0 .. n - 1 : f[i] \in DOMAIN l
    BY <1>1 DEF Tracks
  <2>3. QED
    BY <1>2, <1>6, <2>1, <2>2
<1>8. h[n] = m /\ h \in [0 .. s.len - 1 -> DOMAIN g]
  BY <1>2, <1>5, <1>6, <1>7
<1>9. ASSUME NEW i \in 0 .. s.len - 1
      PROVE  /\ i < h[i] /\ Stored(k, g[h[i]]) /\ g[h[i]].t >= start
             /\ TsAt(s, i) = g[h[i]].t /\ ValAt(s, i) = EventValue(g[h[i]])
  <2>1. CASE i = n
    BY <1>2, <1>3, <1>4, <1>8, <2>1
  <2>2. CASE i \in 0 .. n - 1
    <3>1. g[h[i]] = l[f[i]]
      BY <1>2, <1>7, <2>2
    <3>2. /\ i < f[i] /\ Stored(k, l[f[i]]) /\ l[f[i]].t >= start
          /\ TsAt(r, i) = l[f[i]].t /\ ValAt(r, i) = EventValue(l[f[i]])
      BY <1>1, <2>2 DEF Tracks
    <3>3. QED
      BY <1>4, <1>7, <2>2, <3>1, <3>2
  <2>3. QED
    BY <1>5, <2>1, <2>2
<1>10. ASSUME NEW i \in 0 .. s.len - 1, NEW j \in 0 .. s.len - 1, i < j
       PROVE  h[i] < h[j]
  <2>1. i \in 0 .. n - 1
    BY <1>5, <1>10
  <2>2. CASE j = n
    BY <1>7, <1>8, <2>1, <2>2
  <2>3. CASE j \in 0 .. n - 1
    BY <1>1, <1>7, <1>10, <2>1, <2>3 DEF Tracks
  <2>4. QED
    BY <1>5, <2>2, <2>3
<1>11. ASSUME NEW p \in DOMAIN g, Stored(k, g[p]), g[p].t >= start
       PROVE  \E i \in 0 .. s.len - 1 : h[i] = p
  <2>1. CASE p = m
    BY <1>5, <1>8, <2>1
  <2>2. CASE p # m
    <3>1. p \in DOMAIN l
      BY <1>2, <2>2
    <3>2. PICK i \in 0 .. n - 1 : f[i] = p
      BY <1>1, <1>2, <1>11, <3>1 DEF Tracks
    <3>3. QED
      BY <1>5, <1>7, <3>2
  <2>3. QED
    BY <2>1, <2>2
<1>12. Tracks(h, s, g, k, start)
  BY <1>4, <1>8, <1>9, <1>10, <1>11 DEF Tracks
<1>13. QED
  BY <1>1, <1>12

\* Pruning a log in time order takes out just what is older than the window.
LEMMA TracksPrune ==
  ASSUME NEW l \in Seq(Entry), Ascending(l), NEW f, NEW r, NEW k, NEW start \in Int,
         Tracks(f, r, l, k, start), NEW w \in Int, start <= w
  PROVE  \E h : Tracks(h, Prune(r, w), l, k, w)
<1>1. PICK s, c, n : s = Prune(r, w) /\ c = PruneCount(r, w) /\ n = r.len
  OBVIOUS
<1>2. /\ DOMAIN l = 1 .. Len(l) /\ Len(l) \in Nat
      /\ \A i \in DOMAIN l : l[i].t \in Nat
  BY LogTimes
<1>3. n \in Nat /\ r \in AnyRing
  BY <1>1, MaxEventsAssumption DEF Tracks, AnyRing, RingOf
<1>4. /\ c \in 0 .. n
      /\ \A j \in 0 .. c - 1 : TsAt(r, j) < w
      /\ c < n => TsAt(r, c) >= w
  BY <1>1, <1>3, PruneCountValue
<1>5. /\ s \in AnyRing /\ s.len = n - c
      /\ \A j \in 0 .. s.len - 1 : /\ TsAt(s, j) = TsAt(r, c + j)
                                   /\ ValAt(s, j) = ValAt(r, c + j)
  BY <1>1, <1>3, PruneRing
<1>6. PICK h : h = [i \in 0 .. s.len - 1 |-> f[c + i]]
  OBVIOUS
<1>7. \A i \in 0 .. n - 1 :
        /\ f[i] \in DOMAIN l /\ i < f[i] /\ Stored(k, l[f[i]])
        /\ TsAt(r, i) = l[f[i]].t /\ ValAt(r, i) = EventValue(l[f[i]])
  BY <1>1 DEF Tracks
<1>8. \A i, j \in 0 .. n - 1 : i < j => f[i] < f[j]
  BY <1>1 DEF Tracks
<1>9. \A i \in 0 .. s.len - 1 : c + i \in 0 .. n - 1 /\ h[i] = f[c + i] /\ i <= c + i
  BY <1>3, <1>4, <1>5, <1>6
<1>10. h \in [0 .. s.len - 1 -> DOMAIN l]
  BY <1>6, <1>7, <1>9
<1>11. ASSUME NEW j \in 0 .. n - 1, j >= c PROVE l[f[j]].t >= w
  <2>1. c \in 0 .. n - 1 /\ TsAt(r, c) >= w
    BY <1>3, <1>4, <1>11
  <2>2. CASE j = c
    BY <1>7, <2>1, <2>2
  <2>3. CASE j # c
    <3>1. f[c] < f[j]
      BY <1>8, <1>11, <2>1, <2>3
    <3>2. l[f[c]].t <= l[f[j]].t
      BY <1>7, <2>1, <3>1 DEF Ascending
    <3>3. l[f[c]].t >= w /\ l[f[c]].t \in Nat /\ l[f[j]].t \in Nat
      BY <1>2, <1>7, <2>1
    <3>4. QED
      BY <3>2, <3>3
  <2>4. QED
    BY <2>2, <2>3
<1>12. ASSUME NEW i \in 0 .. s.len - 1
       PROVE  /\ i < h[i] /\ Stored(k, l[h[i]]) /\ l[h[i]].t >= w
              /\ TsAt(s, i) = l[h[i]].t /\ ValAt(s, i) = EventValue(l[h[i]])
  <2>1. PICK j : j = c + i
    OBVIOUS
  <2>2. j \in 0 .. n - 1 /\ h[i] = f[j] /\ i <= j /\ j >= c
    BY <1>4, <1>9, <2>1
  <2>3. TsAt(s, i) = TsAt(r, j) /\ ValAt(s, i) = ValAt(r, j)
    BY <1>5, <2>1
  <2>4. i < h[i]
    <3>1. j < f[j] /\ f[j] \in Nat
      BY <1>2, <1>7, <2>2
    <3>2. QED
      BY <2>2, <3>1
  <2>5. QED
    BY <1>7, <1>11, <2>2, <2>3, <2>4
<1>13. ASSUME NEW i \in 0 .. s.len - 1, NEW j \in 0 .. s.len - 1, i < j
       PROVE  h[i] < h[j]
  <2>1. c + i < c + j
    BY <1>4, <1>13
  <2>2. QED
    BY <1>8, <1>9, <2>1
<1>14. ASSUME NEW p \in DOMAIN l, Stored(k, l[p]), l[p].t >= w
       PROVE  \E i \in 0 .. s.len - 1 : h[i] = p
  <2>1. l[p].t >= start
    BY <1>2, <1>14
  <2>2. PICK j \in 0 .. n - 1 : f[j] = p
    BY <1>1, <1>14, <2>1 DEF Tracks
  <2>3. ~(l[p].t < w) /\ TsAt(r, j) = l[p].t
    BY <1>2, <1>7, <1>14, <2>2
  <2>4. j >= c
    BY <1>4, <2>3
  <2>5. PICK i : i = j - c
    OBVIOUS
  <2>6. i \in 0 .. s.len - 1 /\ c + i = j
    BY <1>3, <1>4, <1>5, <2>4, <2>5
  <2>7. QED
    BY <1>9, <2>2, <2>6
<1>15. Tracks(h, s, l, k, w)
  BY <1>5, <1>10, <1>12, <1>13, <1>14 DEF Tracks
<1>16. QED
  BY <1>1, <1>15

-----------------------------------------------------------------------------
\* The accumulators of an aggregate.

Remotes(l) == {i \in DOMAIN l : l[i].remote}

\* merge_n and merge_sum are what the contributions in l add up to.
MergedIs(k, m, l) ==
  /\ \A h : Sums(h, NumbersOf(l), Len(l)) => m.n = h[Remotes(l)] % CountMod
  /\ k # "event_count" =>
       \A h : Sums(h, TotalsOf(l), Len(l)) => m.sum = h[Remotes(l)]

LEMMA WeightTypes ==
  ASSUME NEW l \in Seq(Entry)
  PROVE  /\ Len(l) \in Nat /\ NumbersOf(l) \in [1 .. Len(l) -> Nat]
         /\ Vals \subseteq Int => TotalsOf(l) \in [1 .. Len(l) -> Int]
<1>1. \A x \in Entry : x.n \in Nat /\ x.v \in Vals \cup {NoVal}
  BY DEF Entry
<1>2. Len(l) \in Nat /\ \A i \in 1 .. Len(l) : l[i] \in Entry
  OBVIOUS
<1>3. NumbersOf(l) \in [1 .. Len(l) -> Nat]
  BY <1>1, <1>2 DEF NumbersOf
<1>4. ASSUME Vals \subseteq Int PROVE TotalsOf(l) \in [1 .. Len(l) -> Int]
  <2>1. PICK w : w = [i \in 1 .. Len(l) |-> IF l[i].v = NoVal THEN 0 ELSE l[i].v]
    OBVIOUS
  <2>2. ASSUME NEW i \in 1 .. Len(l) PROVE w[i] \in Int
    <3>1. l[i].v = NoVal \/ l[i].v \in Int
      BY <1>1, <1>2, <1>4
    <3>2. CASE l[i].v = NoVal
      BY <2>1, <3>2
    <3>3. CASE l[i].v # NoVal
      BY <2>1, <3>1, <3>3
    <3>4. QED
      BY <3>2, <3>3
  <2>3. w \in [1 .. Len(l) -> Int]
    BY <2>1, <2>2
  <2>4. QED
    BY <2>1, <2>3 DEF TotalsOf
<1>5. QED
  BY <1>2, <1>3, <1>4

\* Sums over a longer log are sums over its prefix.
LEMMA SumsPrefix ==
  ASSUME NEW n \in Nat, NEW w, NEW w2, \A i \in 1 .. n : w2[i] = w[i],
         NEW m \in Nat, m = n + 1, NEW h, Sums(h, w2, m)
  PROVE  Sums(h, w, n)
<1>1. \A S \in SUBSET (1 .. n) : S \in SUBSET (1 .. m)
  OBVIOUS
<1>2. \A S \in SUBSET (1 .. n) : \A x \in S : w2[x] = w[x]
  OBVIOUS
<1>3. QED
  BY <1>1, <1>2 DEF Sums

LEMMA LogWeights ==
  ASSUME NEW l \in Seq(Entry), NEW e \in Entry, NEW g, g = Append(l, e), NEW h
  PROVE  /\ Sums(h, NumbersOf(g), Len(g)) => Sums(h, NumbersOf(l), Len(l))
         /\ Sums(h, TotalsOf(g), Len(g)) => Sums(h, TotalsOf(l), Len(l))
         /\ NumbersOf(g)[Len(g)] = e.n /\ TotalsOf(g)[Len(g)] = EventValue(e)
<1>1. /\ Len(l) \in Nat /\ Len(g) = Len(l) + 1 /\ Len(g) \in Nat
      /\ \A i \in 1 .. Len(l) : g[i] = l[i] /\ i \in 1 .. Len(g)
      /\ g[Len(g)] = e /\ Len(g) \in 1 .. Len(g)
  BY LogGrows
<1>2. \A i \in 1 .. Len(l) : /\ NumbersOf(g)[i] = NumbersOf(l)[i]
                             /\ TotalsOf(g)[i] = TotalsOf(l)[i]
  BY <1>1 DEF NumbersOf, TotalsOf
<1>3. NumbersOf(g)[Len(g)] = e.n /\ TotalsOf(g)[Len(g)] = EventValue(e)
  BY <1>1 DEF NumbersOf, TotalsOf, EventValue
<1>4. Sums(h, NumbersOf(g), Len(g)) => Sums(h, NumbersOf(l), Len(l))
  BY <1>1, <1>2, SumsPrefix
<1>5. Sums(h, TotalsOf(g), Len(g)) => Sums(h, TotalsOf(l), Len(l))
  BY <1>1, <1>2, SumsPrefix
<1>6. QED
  BY <1>3, <1>4, <1>5

\* An event of the group's own leaves them as they are ...
LEMMA MergedOn ==
  ASSUME NEW l \in Seq(Entry), NEW e \in Entry, ~e.remote, NEW k, NEW m,
         MergedIs(k, m, l)
  PROVE  MergedIs(k, m, Append(l, e))
<1>1. PICK g : g = Append(l, e)
  OBVIOUS
<1>2. Remotes(g) = Remotes(l)
  <2>1. /\ DOMAIN l = 1 .. Len(l) /\ DOMAIN g = 1 .. Len(l) + 1 /\ Len(l) \in Nat
        /\ \A i \in 1 .. Len(l) : g[i] = l[i]
        /\ g[Len(l) + 1] = e
    BY <1>1, LogGrows
  <2>2. QED
    BY <2>1 DEF Remotes
<1>3. MergedIs(k, m, g)
  BY <1>1, <1>2, LogWeights DEF MergedIs
<1>4. QED
  BY <1>1, <1>3

LEMMA MergeCountValue ==
  ASSUME NEW m, m = [n |-> m.n, sum |-> m.sum, seen |-> m.seen], NEW x, NEW c
  PROVE  /\ MergeCount(m, x, c).n = (m.n + CountOf(c)) % CountMod
         /\ MergeCount(m, x, c).sum = m.sum + x
<1>1. PICK y, z, w : y = m.n /\ z = m.sum /\ w = m.seen
  OBVIOUS
<1>2. m = [n |-> y, sum |-> z, seen |-> w]
  BY <1>1
<1>3. PICK u, d : u = (y + CountOf(c)) % CountMod /\ d = z + x
  OBVIOUS
<1>4. MergeCount(m, x, c) = [[m EXCEPT !.n = u] EXCEPT !.sum = d]
  BY <1>1, <1>2, <1>3 DEF MergeCount
<1>5. [m EXCEPT !.n = u] = [n |-> u, sum |-> z, seen |-> w]
  BY <1>2
<1>6. PICK r : r = [n |-> u, sum |-> z, seen |-> w]
  OBVIOUS
<1>7. [r EXCEPT !.sum = d] = [n |-> u, sum |-> d, seen |-> w]
  BY <1>6
<1>8. QED
  BY <1>1, <1>3, <1>4, <1>5, <1>6, <1>7

\* ... a contribution adds to them.
LEMMA MergedMore ==
  ASSUME NEW l \in Seq(Entry), NEW e \in Entry, e.remote, NEW k, NEW m,
         m = [n |-> m.n, sum |-> m.sum, seen |-> m.seen],
         MergedIs(k, m, l), NEW x, NEW c, e.n = CountOf(c),
         k # "event_count" => Vals \subseteq Int /\ x = EventValue(e)
  PROVE  MergedIs(k, MergeCount(m, x, c), Append(l, e))
<1>1. PICK g, p, R : g = Append(l, e) /\ p = Len(g) /\ R = Remotes(g)
  OBVIOUS
<1>2. /\ DOMAIN l = 1 .. p - 1 /\ DOMAIN g = 1 .. p /\ p \in Nat \ {0}
      /\ Len(l) = p - 1
      /\ \A i \in 1 .. p - 1 : g[i] = l[i]
      /\ g[p] = e
  BY <1>1, LogGrows
<1>3. p \in R /\ R \ {p} = Remotes(l) /\ R \in SUBSET (1 .. p)
  BY <1>1, <1>2 DEF Remotes
<1>4. e.n \in Nat /\ CountOf(c) \in Nat
  BY DEF Entry
<1>5. ASSUME NEW h, Sums(h, NumbersOf(g), Len(g))
      PROVE  MergeCount(m, x, c).n = h[R] % CountMod
  <2>1. PICK a : a = h[Remotes(l)]
    OBVIOUS
  <2>2. Sums(h, NumbersOf(l), Len(l)) /\ NumbersOf(g)[p] = e.n
    BY <1>1, <1>5, LogWeights
  <2>3. m.n = a % CountMod
    BY <2>1, <2>2 DEF MergedIs
  <2>4. h[R] = a + e.n
    <3>1. h[R] = h[R \ {p}] + NumbersOf(g)[p]
      BY <1>1, <1>3, <1>5 DEF Sums
    <3>2. QED
      BY <1>3, <2>1, <2>2, <3>1
  <2>5. a \in Nat
    <3>1. NumbersOf(l) \in [1 .. Len(l) -> Nat] /\ Len(l) \in Nat
      BY WeightTypes
    <3>2. Remotes(l) \in SUBSET (1 .. Len(l)) /\ {} \in SUBSET Remotes(l)
      BY <1>2 DEF Remotes
    <3>3. h[{}] <= h[Remotes(l)] /\ h[Remotes(l)] \in Int
      BY <2>2, <3>1, <3>2, SumsMonotone
    <3>4. h[{}] = 0
      BY <2>2 DEF Sums
    <3>5. QED
      BY <2>1, <3>3, <3>4
  <2>6. ((a % CountMod) + CountOf(c)) % CountMod = (a + CountOf(c)) % CountMod
    BY <1>4, <2>5, ModAdds, MergeAssumption DEF MergeAssumption
  <2>7. MergeCount(m, x, c).n = (m.n + CountOf(c)) % CountMod
    BY MergeCountValue
  <2>8. QED
    BY <2>3, <2>4, <2>6, <2>7
<1>6. ASSUME k # "event_count", NEW h, Sums(h, TotalsOf(g), Len(g))
      PROVE  MergeCount(m, x, c).sum = h[R]
  <2>1. Sums(h, TotalsOf(l), Len(l)) /\ TotalsOf(g)[p] = x
    BY <1>1, <1>6, LogWeights
  <2>2. m.sum = h[Remotes(l)]
    BY <1>6, <2>1 DEF MergedIs
  <2>3. h[R] = h[R \ {p}] + TotalsOf(g)[p]
    BY <1>1, <1>3, <1>6 DEF Sums
  <2>4. MergeCount(m, x, c).sum = m.sum + x
    BY MergeCountValue
  <2>5. QED
    BY <1>3, <2>1, <2>2, <2>3, <2>4
<1>7. MergedIs(k, MergeCount(m, x, c), g)
  BY <1>1, <1>5, <1>6 DEF MergedIs
<1>8. QED
  BY <1>1, <1>7

-----------------------------------------------------------------------------
AggregateVerdict(r, m) ==
  IF kind = "event_count" THEN CountHolds(r, m, op, Threshold) ELSE AggregateHolds(r, m)

\* The group's own events count one each, contributions to a sum bring a value.
Marked(k, l) ==
  \A i \in DOMAIN l : IF l[i].remote THEN k # "event_count" => l[i].v # NoVal
                                     ELSE l[i].n = 1

\* An aggregate: for as many events in order as the ring can hold, the ring holds those
\* of the window; contributions went to the accumulators; the verdict is on both.
AggregateInv ==
  kind \in Aggregates =>
    /\ Marked(kind, log)
    /\ MergedIs(kind, merge, log)
    /\ log = <<>> => ring = EmptyRing
    /\ log # <<>> => fires = AggregateVerdict(ring, merge)
    /\ log # <<>> /\ InOrder /\ ~lost /\ Len(log) <= MaxEvents =>
         \E f : Tracks(f, ring, log, kind, Now - Span)

\* What an event or contribution e does to the group.
AggregateStep(e) ==
  /\ log' = Append(log, e) /\ op' = op
  /\ kind = "event_count" => e.v = NoVal
  /\ \/ ~e.remote /\ e.n = 1 /\ merge' = merge
     \/ /\ e.remote /\ (kind # "event_count" => e.v # NoVal)
        /\ \E c, x : /\ e.n = CountOf(c) /\ merge' = MergeCount(merge, x, c)
                     /\ kind # "event_count" => x = EventValue(e)
  /\ \/ lost'
     \/ Stored(kind, e) /\ ring' = Push(ring, e.t - Span, e.t, EventValue(e))
     \/ ~Stored(kind, e) /\ ring' = Prune(ring, e.t - Span)
  /\ lost => lost'
  /\ fires' = AggregateVerdict(ring', merge')

LEMMA AggregateSteps ==
  ASSUME Types, kind \in Aggregates, [Next]_vars
  PROVE  \/ UNCHANGED <<kind, op, ring, merge, fires, lost, log>>
         \/ \E e \in Entry : AggregateStep(e)
<1>1. CASE UNCHANGED vars
  BY <1>1 DEF vars, rule, windows
<1>2. CASE Next
  <2>1. PICK t \in Time :
             \/ CountEvent(t) \/ (\E v \in Vals \cup {NoVal} : AddValue(t, v))
             \/ \E c \in Counts : \/ MergeEvents(t, c)
                                  \/ \E v \in Vals : MergeValues(t, v, c)
    BY <1>2 DEF Next, Aggregates, BeaconRaw, BeaconBucketed, CountValue, SeeBases,
                OrderDirectly, OrderLate, OrderHeld, MergeBases
  <2>2. CASE CountEvent(t)
    <3>1. PICK e : e = [t |-> t, hits |-> {}, v |-> NoVal, n |-> 1, remote |-> FALSE]
      OBVIOUS
    <3>2. e \in Entry /\ e.t = t /\ e.v = NoVal /\ e.n = 1 /\ ~e.remote
      BY <3>1 DEF Entry
    <3>3. /\ kind = "event_count" /\ log' = Append(log, e) /\ op' = op /\ merge' = merge
          /\ ring' = Push(ring, t - Span, t, 0) /\ lost' = lost
          /\ fires' = CountHolds(ring', merge', op, Threshold)
      BY <2>2, <3>1 DEF CountEvent, Arrive, Reach, Verdict, rule
    <3>4. Stored(kind, e) /\ EventValue(e) = 0
      BY <3>2, <3>3 DEF Stored, EventValue
    <3>5. AggregateStep(e)
      BY <3>2, <3>3, <3>4 DEF AggregateStep, AggregateVerdict
    <3>6. QED
      BY <3>2, <3>5
  <2>3. ASSUME NEW v \in Vals \cup {NoVal}, AddValue(t, v)
        PROVE  \E e \in Entry : AggregateStep(e)
    <3>1. PICK e : e = [t |-> t, hits |-> {}, v |-> v, n |-> 1, remote |-> FALSE]
      OBVIOUS
    <3>2. e \in Entry /\ e.t = t /\ e.v = v /\ e.n = 1 /\ ~e.remote
      BY <3>1 DEF Entry
    <3>3. /\ kind # "event_count" /\ log' = Append(log, e) /\ op' = op /\ merge' = merge
          /\ fires' = AggregateHolds(ring', merge')
          /\ lost => lost'
          /\ \/ lost'
             \/ ring' = IF v = NoVal THEN Prune(ring, t - Span)
                                     ELSE Push(ring, t - Span, t, v)
      BY <2>3, <3>1 DEF AddValue, Arrive, Reach, Verdict, rule
    <3>4. Stored(kind, e) <=> v # NoVal
      BY <3>2, <3>3 DEF Stored
    <3>5. v # NoVal => EventValue(e) = v
      BY <3>2 DEF EventValue
    <3>6. AggregateStep(e)
      BY <3>2, <3>3, <3>4, <3>5 DEF AggregateStep, AggregateVerdict
    <3>7. QED
      BY <3>2, <3>6
  <2>4. ASSUME NEW c \in Counts, MergeEvents(t, c)
        PROVE  \E e \in Entry : AggregateStep(e)
    <3>1. PICK e : e = [t |-> t, hits |-> {}, v |-> NoVal, n |-> CountOf(c),
                        remote |-> TRUE]
      OBVIOUS
    <3>2. CountOf(c) \in Nat
      BY GroupAssumption DEF GroupAssumption, CountOf
    <3>3. e \in Entry /\ e.t = t /\ e.n = CountOf(c) /\ e.remote /\ e.v = NoVal
      BY <3>1, <3>2 DEF Entry
    <3>4. /\ kind = "event_count" /\ log' = Append(log, e) /\ op' = op
          /\ merge' = MergeCount(merge, 0, c)
          /\ ring' = Prune(ring, t - Span) /\ lost' = lost
          /\ fires' = CountHolds(ring', merge', op, Threshold)
      BY <2>4, <3>1 DEF MergeEvents, Reach, Verdict, rule
    <3>5. ~Stored(kind, e)
      BY <3>3 DEF Stored
    <3>6. AggregateStep(e)
      BY <3>3, <3>4, <3>5 DEF AggregateStep, AggregateVerdict
    <3>7. QED
      BY <3>3, <3>6
  <2>5. ASSUME NEW c \in Counts, NEW v \in Vals, MergeValues(t, v, c)
        PROVE  \E e \in Entry : AggregateStep(e)
    <3>1. PICK e : e = [t |-> t, hits |-> {}, v |-> v, n |-> CountOf(c),
                        remote |-> TRUE]
      OBVIOUS
    <3>2. CountOf(c) \in Nat /\ v # NoVal
      BY GroupAssumption DEF GroupAssumption, CountOf
    <3>3. e \in Entry /\ e.t = t /\ e.n = CountOf(c) /\ e.remote /\ e.v = v
      BY <3>1, <3>2 DEF Entry
    <3>4. /\ kind # "event_count" /\ log' = Append(log, e) /\ op' = op
          /\ merge' = MergeCount(merge, v, c)
          /\ ring' = Prune(ring, t - Span) /\ lost' = lost
          /\ fires' = AggregateHolds(ring', merge')
      BY <2>5, <3>1 DEF MergeValues, Reach, Verdict, rule
    <3>5. ~Stored(kind, e) /\ EventValue(e) = v
      BY <3>2, <3>3 DEF Stored, EventValue
    <3>6. AggregateStep(e)
      BY <3>2, <3>3, <3>4, <3>5 DEF AggregateStep, AggregateVerdict
    <3>7. QED
      BY <3>3, <3>6
  <2>6. QED
    BY <2>1, <2>2, <2>3, <2>4, <2>5
<1>3. QED
  BY <1>1, <1>2

\* The ring after an event that is stored, or after an entry that is not.
LEMMA TracksStep ==
  ASSUME NEW l \in Seq(Entry), NEW e \in Entry, NEW k, NEW r, NEW start \in Int,
         NEW w \in Int, start <= w, w <= e.t, Ascending(Append(l, e)),
         Len(l) < MaxEvents, \E f : Tracks(f, r, l, k, start),
         NEW s, \/ /\ Stored(k, e) /\ EventValue(e) \in Int
                   /\ s = Push(r, w, e.t, EventValue(e))
                \/ ~Stored(k, e) /\ s = Prune(r, w)
  PROVE  \E f : Tracks(f, s, Append(l, e), k, w)
<1>1. PICK g : g = Append(l, e)
  OBVIOUS
<1>2. g \in Seq(Entry)
  BY <1>1, LogGrows
<1>3. PICK f : Tracks(f, r, l, k, start)
  OBVIOUS
<1>4. CASE ~Stored(k, e) /\ s = Prune(r, w)
  <2>1. Tracks(f, r, g, k, start)
    BY <1>1, <1>3, <1>4, TracksOn
  <2>2. \E h : Tracks(h, Prune(r, w), g, k, w)
    BY <1>1, <1>2, <2>1, TracksPrune
  <2>3. QED
    BY <1>1, <1>4, <2>2
<1>5. CASE Stored(k, e) /\ EventValue(e) \in Int /\ s = Push(r, w, e.t, EventValue(e))
  <2>1. PICK v \in Int : v = EventValue(e)
    BY <1>5
  <2>2. r.len < MaxEvents
    <3>1. r.len \in 0 .. MaxEvents /\ r.len <= Len(l) /\ Len(l) \in Nat
      BY <1>3, TracksFew
    <3>2. QED
      BY <3>1, MaxEventsAssumption
  <2>3. e.t >= start
    BY DEF Entry, Time
  <2>4. PICK p : p = Store(r, e.t, v)
    OBVIOUS
  <2>5. \E h : Tracks(h, p, g, k, start)
    BY <1>1, <1>3, <1>5, <2>1, <2>2, <2>3, <2>4, TracksStore
  <2>6. PICK h : Tracks(h, p, g, k, start)
    BY <2>5
  <2>7. \E q : Tracks(q, Prune(p, w), g, k, w)
    BY <1>1, <1>2, <2>6, TracksPrune
  <2>8. QED
    BY <1>1, <1>5, <2>1, <2>4, <2>7 DEF Push
<1>6. QED
  BY <1>4, <1>5

LEMMA AggregateInit == Init => AggregateInv
<1> SUFFICES ASSUME Init PROVE AggregateInv
  OBVIOUS
<1>1. ring = EmptyRing /\ log = <<>> /\ merge = NothingMerged
  BY DEF Init
<1>2. Marked(kind, log) /\ Remotes(log) = {}
  BY <1>1 DEF Marked, Remotes
<1>3. 0 % CountMod = 0
  BY MergeAssumption DEF MergeAssumption
<1>4. MergedIs(kind, merge, log)
  BY <1>1, <1>2, <1>3 DEF MergedIs, Sums, NothingMerged
<1>5. QED
  BY <1>1, <1>2, <1>4 DEF AggregateInv

LEMMA AggregateInductive ==
  ASSUME Types, AggregateInv, [Next]_vars
  PROVE  AggregateInv'
<1>1. kind' = kind /\ Span' = Span /\ Threshold' = Threshold
  BY RuleKept DEF Span, Threshold
<1>2. CASE kind \notin Aggregates
  BY <1>1, <1>2 DEF AggregateInv, Aggregates
<1>3. CASE UNCHANGED <<kind, op, ring, merge, fires, lost, log>>
  BY <1>1, <1>3 DEF AggregateInv, Aggregates, Marked, MergedIs, AggregateVerdict,
                    AggregateHolds, InOrder, Events, Now
<1>4. ASSUME kind \in Aggregates, NEW e \in Entry, AggregateStep(e) PROVE AggregateInv'
  <2>1. log \in Seq(Entry) /\ log' = Append(log, e)
    BY <1>4 DEF Types, AggregateStep
  <2>2. PICK g, n : g = log' /\ n = Len(log)
    OBVIOUS
  <2>3. /\ g \in Seq(Entry) /\ g # <<>> /\ n \in Nat /\ Len(g) = n + 1
        /\ DOMAIN log = 1 .. n /\ DOMAIN g = 1 .. n + 1
        /\ \A i \in 1 .. n : g[i] = log[i]
        /\ g[n + 1] = e
    BY <2>1, <2>2, LogGrows
  <2>4. e.t \in Nat /\ Span \in Nat \ {0} /\ e.v \in Vals \cup {NoVal}
    <3>1. kind \in Kinds
      BY DEF Types
    <3>2. QED
      BY <3>1, GroupAssumption DEF GroupAssumption, Span, Entry, Time
  <2>5. kind # "event_count" => Vals \subseteq Int
    BY <1>4, GroupAssumption DEF GroupAssumption, Aggregates, Types
  <2>7. Marked(kind, g)
    <3>1. Marked(kind, log)
      BY <1>4 DEF AggregateInv
    <3>2. IF e.remote THEN kind # "event_count" => e.v # NoVal ELSE e.n = 1
      BY <1>4 DEF AggregateStep
    <3>3. \A i \in DOMAIN g : i \in DOMAIN log \/ i = n + 1
      BY <2>3
    <3>4. QED
      BY <2>3, <3>1, <3>2, <3>3 DEF Marked
  <2>8. MergedIs(kind, merge', g)
    <3>1. MergedIs(kind, merge, log)
      BY <1>4 DEF AggregateInv
    <3>2. CASE ~e.remote /\ merge' = merge
      BY <2>1, <2>2, <3>1, <3>2, MergedOn
    <3>3. ASSUME e.remote, NEW c, NEW x, e.n = CountOf(c),
                 merge' = MergeCount(merge, x, c),
                 kind # "event_count" => x = EventValue(e)
          PROVE  MergedIs(kind, merge', g)
      <4>1. merge = [n |-> merge.n, sum |-> merge.sum, seen |-> merge.seen]
        BY DEF Types
      <4>2. MergedIs(kind, MergeCount(merge, x, c), Append(log, e))
        BY <2>1, <2>5, <3>1, <3>3, <4>1, MergedMore
      <4>3. QED
        BY <2>1, <2>2, <3>3, <4>2
    <3>4. QED
      BY <1>4, <3>2, <3>3 DEF AggregateStep
  <2>9. PICK w \in Int : w = e.t - Span
    BY <2>4
  <2>10. ASSUME Ascending(g), ~lost', Len(g) <= MaxEvents
         PROVE  \E f : Tracks(f, ring', g, kind, w)
    <3>1. Ascending(log) /\ ~lost /\ n < MaxEvents
      <4>1. Ascending(log)
        BY <2>1, <2>2, <2>10, AscendingBefore
      <4>2. ~lost
        BY <1>4, <2>10 DEF AggregateStep
      <4>3. QED
        BY <2>3, <2>10, <4>1, <4>2, MaxEventsAssumption
    <3>2. \E start \in Int : start <= w /\ \E f : Tracks(f, ring, log, kind, start)
      <4>1. CASE log = <<>>
        <5>1. ring = EmptyRing
          BY <1>4, <4>1 DEF AggregateInv
        <5>2. ring \in AnyRing /\ ring.len = 0
          BY <5>1, MaxEventsAssumption DEF EmptyRing, AnyRing, RingOf, Slots
        <5>3. 0 .. 0 - 1 = {} /\ DOMAIN log = {}
          BY <4>1
        <5>4. PICK f : f = [i \in {} |-> i]
          OBVIOUS
        <5>5. Tracks(f, ring, log, kind, w)
          BY <5>2, <5>3, <5>4 DEF Tracks
        <5>6. QED
          BY <2>9, <5>5
      <4>2. CASE log # <<>>
        <5>1. n \in DOMAIN log /\ n \in DOMAIN g /\ n + 1 \in DOMAIN g /\ n < n + 1
          BY <2>2, <2>3, <4>2
        <5>2. g[n].t <= e.t /\ g[n] = log[n]
          BY <2>3, <2>10, <5>1 DEF Ascending
        <5>3. log[n].t \in Nat
          BY <2>1, <5>1, LogTimes
        <5>4. Now = log[n].t
          BY <2>2 DEF Now
        <5>5. Now - Span \in Int /\ Now - Span <= w
          BY <2>4, <2>9, <5>2, <5>3, <5>4
        <5>6. \E f : Tracks(f, ring, log, kind, Now - Span)
          <6>1. InOrder
            BY <3>1 DEF InOrder, Events, Ascending
          <6>2. Len(log) <= MaxEvents
            BY <2>2, <2>3, <3>1, MaxEventsAssumption
          <6>3. QED
            BY <1>4, <3>1, <4>2, <6>1, <6>2 DEF AggregateInv
        <5>7. QED
          BY <5>5, <5>6
      <4>3. QED
        BY <4>1, <4>2
    <3>3. PICK start \in Int : start <= w /\ \E f : Tracks(f, ring, log, kind, start)
      BY <3>2
    <3>4. \/ /\ Stored(kind, e) /\ EventValue(e) \in Int
             /\ ring' = Push(ring, w, e.t, EventValue(e))
          \/ ~Stored(kind, e) /\ ring' = Prune(ring, w)
      <4>1. \/ Stored(kind, e) /\ ring' = Push(ring, w, e.t, EventValue(e))
            \/ ~Stored(kind, e) /\ ring' = Prune(ring, w)
        BY <1>4, <2>9, <2>10 DEF AggregateStep
      <4>2. Stored(kind, e) => EventValue(e) \in Int
        <5>1. CASE e.v = NoVal
          BY <5>1 DEF EventValue
        <5>2. CASE e.v # NoVal
          <6>1. kind # "event_count"
            BY <1>4, <5>2 DEF AggregateStep
          <6>2. QED
            BY <2>4, <2>5, <5>2, <6>1 DEF EventValue
        <5>3. QED
          BY <5>1, <5>2
      <4>3. QED
        BY <4>1, <4>2
    <3>5. w <= e.t
      BY <2>4, <2>9
    <3>6. Ascending(Append(log, e)) /\ Len(log) < MaxEvents
      BY <2>1, <2>2, <2>10, <3>1
    <3>7. \E f : Tracks(f, ring', Append(log, e), kind, w)
      BY <2>1, <3>3, <3>4, <3>5, <3>6, TracksStep
    <3>8. QED
      BY <2>1, <2>2, <3>7
  <2>11. InOrder' <=> Ascending(g)
    BY <2>2 DEF InOrder, Events, Ascending
  <2>12. (Now - Span)' = w
    BY <1>1, <2>2, <2>3, <2>9 DEF Now
  <2>13. fires' = AggregateVerdict(ring, merge)'
    BY <1>1, <1>4 DEF AggregateStep, AggregateVerdict, AggregateHolds
  <2>14. QED
    BY <1>1, <2>2, <2>3, <2>7, <2>8, <2>10, <2>11, <2>12, <2>13
       DEF AggregateInv
<1>5. QED
  BY <1>2, <1>3, <1>4, AggregateSteps
LEMMA AggregateHoldsAlways == Spec => []AggregateInv
<1>1. Types /\ AggregateInv /\ [Next]_vars => AggregateInv'
  BY AggregateInductive
<1>2. Invariants => Types
  BY DEF Invariants
<1>3. QED
  BY <1>1, <1>2, AggregateInit, InvariantsHold, PTL DEF Spec

-----------------------------------------------------------------------------
\* The verdict of an aggregate.

\* The live ring and the contributions, in one set of entries.
LEMMA RingAddsUp ==
  ASSUME NEW l \in Seq(Entry), NEW f, NEW r, NEW k, NEW start, Tracks(f, r, l, k, start),
         NEW w \in [1 .. Len(l) -> Int], NEW h, Sums(h, w, Len(l)),
         NEW p, AddsUp(p, f, r.len, w)
  PROVE  h[With(Remotes(l), f, r.len)] = h[Remotes(l)] + p[r.len]
<1>1. PICK n, m, B : n = Len(l) /\ m = r.len /\ B = Remotes(l)
  OBVIOUS
<1>2. n \in Nat /\ DOMAIN l = 1 .. n /\ B \in SUBSET (1 .. n)
  BY <1>1 DEF Remotes
<1>3. m \in Nat
  BY <1>1, TracksFew, MaxEventsAssumption
<1>4. \A i \in 0 .. m - 1 : f[i] \in 1 .. n /\ f[i] \notin B
  BY <1>1, <1>2 DEF Tracks, Stored, Remotes
<1>5. f \in [0 .. m - 1 -> (1 .. n) \ B]
  <2>1. f \in [0 .. m - 1 -> DOMAIN l]
    BY <1>1 DEF Tracks
  <2>2. QED
    BY <1>2, <1>4, <2>1
<1>6. \A i, j \in 0 .. m - 1 : f[i] = f[j] => i = j
  <2>1. ASSUME NEW i \in 0 .. m - 1, NEW j \in 0 .. m - 1, f[i] = f[j], i # j
        PROVE  FALSE
    <3>1. i < j \/ j < i
      BY <2>1
    <3>2. f[i] \in Nat /\ f[j] \in Nat
      BY <1>4
    <3>3. f[i] < f[j] \/ f[j] < f[i]
      BY <1>1, <3>1 DEF Tracks
    <3>4. QED
      BY <2>1, <3>2, <3>3
  <2>2. QED
    BY <2>1
<1>7. h[With(B, f, m)] = h[B] + p[m]
  <2>1. w \in [1 .. n -> Int] /\ Sums(h, w, n) /\ AddsUp(p, f, m, w)
    BY <1>1
  <2>2. Visits(f, m, n, B)
    BY <1>5, <1>6 DEF Visits
  <2>3. QED
    BY <1>2, <1>3, <2>1, <2>2, SumsThrough
<1>8. QED
  BY <1>1, <1>7

\* That set is what counts in the window, if no contribution has left it.
LEMMA RingAndMerges ==
  ASSUME Types, kind \in Aggregates, MergesLive, Marked(kind, log),
         NEW f, NEW r, Tracks(f, r, log, kind, Now - Span)
  PROVE  {i \in Counted : InWindow(i)} = With(Remotes(log), f, r.len)
<1>1. DOMAIN log = Events
  BY DEF Events
<1>2. ASSUME NEW i \in Remotes(log) PROVE i \in Counted /\ InWindow(i)
  BY <1>1 DEF Remotes, MergesLive, Counted, Marked
<1>3. ASSUME NEW j \in 0 .. r.len - 1 PROVE f[j] \in Counted /\ InWindow(f[j])
  <2>1. f[j] \in DOMAIN log /\ Stored(kind, log[f[j]]) /\ log[f[j]].t >= Now - Span
    BY DEF Tracks
  <2>2. QED
    BY <1>1, <2>1 DEF Stored, Counted, InWindow
<1>4. ASSUME NEW i \in Counted, InWindow(i), i \notin Remotes(log)
      PROVE  \E j \in 0 .. r.len - 1 : f[j] = i
  <2>1. i \in DOMAIN log /\ Stored(kind, log[i]) /\ log[i].t >= Now - Span
    BY <1>1, <1>4 DEF Counted, InWindow, Remotes, Stored
  <2>2. QED
    BY <2>1 DEF Tracks
<1>5. QED
  BY <1>2, <1>3, <1>4 DEF With, Image

\* How many events the ring and the contributions stand for.
LEMMA AggregateCount ==
  ASSUME Types, AggregateInv, kind \in Aggregates, MergesLive, log # <<>>,
         NumberOf(Events) < CountMod,
         NEW f, Tracks(f, ring, log, kind, Now - Span),
         NEW S, S = {i \in Counted : InWindow(i)}
  PROVE  /\ ObservedCount(ring, merge) = NumberOf(S)
         /\ NumberOf(S) \in 0 .. CountMod - 1
<1>1. PICK n, m, R, w : /\ n = Len(log) /\ m = ring.len /\ R = Remotes(log)
                        /\ w = NumbersOf(log)
  OBVIOUS
<1>2. log \in Seq(Entry) /\ Marked(kind, log) /\ MergedIs(kind, merge, log)
  BY DEF Types, AggregateInv
<1>3. n \in Nat /\ DOMAIN log = 1 .. n /\ Events = 1 .. n /\ w \in [1 .. n -> Nat]
  BY <1>1, <1>2, LogTimes, WeightTypes DEF Events
<1>4. m \in Nat
  BY <1>1, <1>2, TracksFew, MaxEventsAssumption
<1>5. S = With(R, f, m)
  BY <1>1, <1>2, RingAndMerges
<1>6. S \in SUBSET (1 .. n) /\ R \in SUBSET (1 .. n) /\ R \in SUBSET S
  <2>1. S \in SUBSET (1 .. n)
    BY <1>3 DEF Counted
  <2>2. QED
    BY <1>1, <1>3, <1>5, <2>1 DEF With, Remotes
<1>7. w \in [1 .. n -> Int]
  BY <1>3
<1>8. PICK h : Sums(h, w, n)
  BY <1>3, <1>7, SumsExist
<1>9. PICK a, b, d : a = h[R] /\ b = h[S] /\ d = h[1 .. n]
  OBVIOUS
<1>10. NumberOf(S) = b /\ NumberOf(Events) = d
  <2>1. 1 .. n \in SUBSET (1 .. n)
    OBVIOUS
  <2>2. QED
    BY <1>1, <1>3, <1>6, <1>7, <1>8, <1>9, <2>1, NumberOfIsSum
<1>11. a \in Nat /\ a <= b /\ b <= d /\ b \in Int /\ d \in Int
  <2>1. {} \in SUBSET R /\ h[{}] = 0 /\ 1 .. n \in SUBSET (1 .. n)
    BY <1>8 DEF Sums
  <2>2. h[{}] <= a /\ a \in Int
    BY <1>3, <1>6, <1>8, <1>9, <2>1, SumsMonotone
  <2>3. a <= b /\ b \in Int
    BY <1>3, <1>6, <1>8, <1>9, SumsMonotone
  <2>4. b <= d /\ d \in Int
    BY <1>3, <1>6, <1>8, <1>9, <2>1, SumsMonotone
  <2>5. QED
    BY <2>1, <2>2, <2>3, <2>4
<1>12. merge.n = a
  <2>1. merge.n = a % CountMod
    BY <1>1, <1>2, <1>8, <1>9 DEF MergedIs
  <2>2. a \in 0 .. CountMod - 1 /\ CountMod \in Nat \ {0}
    BY <1>10, <1>11, MergeAssumption DEF MergeAssumption
  <2>3. \A c \in Nat \ {0} : \A x \in 0 .. c - 1 : x % c = x
    OBVIOUS
  <2>4. QED
    BY <2>1, <2>2, <2>3
<1>13. b = a + m
  <2>1. PICK p : p = [i \in 0 .. m |-> i]
    OBVIOUS
  <2>2. ASSUME NEW i \in 0 .. m - 1 PROVE w[f[i]] = 1
    <3>1. f[i] \in 1 .. n /\ Stored(kind, log[f[i]])
      BY <1>1, <1>3 DEF Tracks
    <3>2. log[f[i]].n = 1
      BY <1>2, <1>3, <3>1 DEF Marked, Stored
    <3>3. QED
      BY <1>1, <3>1, <3>2 DEF NumbersOf
  <2>3. AddsUp(p, f, m, w)
    BY <1>4, <2>1, <2>2 DEF AddsUp
  <2>4. h[With(R, f, m)] = h[R] + p[m]
    BY <1>1, <1>2, <1>7, <1>8, <2>3, RingAddsUp
  <2>5. p[m] = m
    BY <1>4, <2>1
  <2>6. QED
    BY <1>5, <1>9, <2>4, <2>5
<1>14. ObservedCount(ring, merge) = b
  BY <1>1, <1>4, <1>11, <1>12, <1>13 DEF ObservedCount
<1>15. QED
  BY <1>10, <1>11, <1>14, MergeAssumption DEF MergeAssumption

\* What their values add up to.
LEMMA AggregateTotal ==
  ASSUME Types, AggregateInv, kind \in Aggregates, kind # "event_count", MergesLive,
         log # <<>>, NEW f, Tracks(f, ring, log, kind, Now - Span),
         NEW S, S = {i \in Counted : InWindow(i)}
  PROVE  Sum(ring, merge) = TotalOf(S)
<1>1. PICK n, m, R, w : /\ n = Len(log) /\ m = ring.len /\ R = Remotes(log)
                        /\ w = TotalsOf(log)
  OBVIOUS
<1>2. log \in Seq(Entry) /\ Marked(kind, log) /\ MergedIs(kind, merge, log)
  BY DEF Types, AggregateInv
<1>3. Vals \subseteq Int
  BY GroupAssumption DEF GroupAssumption, Aggregates, Types
<1>4. n \in Nat /\ DOMAIN log = 1 .. n /\ Events = 1 .. n /\ w \in [1 .. n -> Int]
  BY <1>1, <1>2, <1>3, LogTimes, WeightTypes DEF Events
<1>5. m \in Nat
  BY <1>1, <1>2, TracksFew, MaxEventsAssumption
<1>6. S = With(R, f, m) /\ S \in SUBSET (1 .. n)
  <2>1. S \in SUBSET (1 .. n)
    BY <1>4 DEF Counted
  <2>2. QED
    BY <1>1, <1>2, <2>1, RingAndMerges
<1>7. PICK h : Sums(h, w, n)
  BY <1>4, SumsExist
<1>8. \A i \in S : log[i].v # NoVal
  BY DEF Counted
<1>9. TotalOf(S) = h[S]
  BY <1>1, <1>4, <1>6, <1>7, <1>8, TotalOfIsSum
<1>10. merge.sum = h[R]
  BY <1>1, <1>2, <1>7 DEF MergedIs
<1>11. PICK s : s = [i \in 1 .. m |-> ValAt(ring, i - 1)]
  OBVIOUS
<1>12. ASSUME NEW i \in 0 .. m - 1
       PROVE  ValAt(ring, i) = w[f[i]] /\ w[f[i]] \in Int
  <2>1. f[i] \in 1 .. n /\ ValAt(ring, i) = EventValue(log[f[i]])
    BY <1>1, <1>4 DEF Tracks
  <2>2. QED
    BY <1>1, <1>4, <2>1 DEF TotalsOf, EventValue
<1>13. s \in [1 .. m -> Int]
  <2>1. \A i \in 1 .. m : i - 1 \in 0 .. m - 1
    BY <1>5
  <2>2. \A i \in 1 .. m : ValAt(ring, i - 1) \in Int
    BY <1>12, <2>1
  <2>3. QED
    BY <1>11, <2>2
<1>14. PICK p : PrefixSums(p, s, m)
  BY <1>5, <1>13, SumOfTrace
<1>15. AddsUp(p, f, m, w)
  <2>1. ASSUME NEW i \in 0 .. m - 1 PROVE p[i + 1] = p[i] + w[f[i]]
    <3>1. PICK j \in 1 .. m : j = i + 1
      BY <1>5
    <3>2. j - 1 = i
      BY <1>5, <3>1
    <3>3. p[j] = p[j - 1] + s[j]
      BY <1>14, <3>1 DEF PrefixSums
    <3>4. s[j] = w[f[i]]
      BY <1>11, <1>12, <3>1, <3>2
    <3>5. QED
      BY <3>1, <3>2, <3>3, <3>4
  <2>2. QED
    BY <1>14, <2>1 DEF PrefixSums, AddsUp
<1>16. h[With(R, f, m)] = h[R] + p[m]
  BY <1>1, <1>2, <1>4, <1>7, <1>15, RingAddsUp
<1>17. Sum(ring, merge) = merge.sum + p[m]
  BY <1>1, <1>11, <1>14 DEF Sum, PrefixSums
<1>18. QED
  BY <1>6, <1>9, <1>10, <1>16, <1>17

\* eval_event_count, eval_value_sum_avg and what corr_on_contribution merges into them:
\* while the ring has room and merge_n does not wrap around, the verdict is the one of
\* an instance that saw all the events of the window itself.
THEOREM AggregateIsExact == Spec => []AggregateExact
<1>1. Types /\ AggregateInv => AggregateExact
  <2> SUFFICES ASSUME Types, AggregateInv, kind \in Aggregates, InOrder, MergesLive,
                      ~lost, log # <<>>, NumberOf(Events) < CountMod,
                      Cardinality(Events) <= MaxEvents
               PROVE  fires <=> VerdictOn({i \in Counted : InWindow(i)})
    BY DEF AggregateExact
  <2>1. PICK S : S = {i \in Counted : InWindow(i)}
    OBVIOUS
  <2>2. Len(log) <= MaxEvents
    <3>1. Events = 1 .. Len(log) /\ Len(log) \in Nat
      BY DEF Types, Events
    <3>2. Cardinality(1 .. Len(log)) = IF 1 > Len(log) THEN 0 ELSE Len(log) - 1 + 1
      BY <3>1, FS_Interval
    <3>3. Cardinality(Events) = Len(log)
      BY <3>1, <3>2
    <3>4. QED
      BY <3>3
  <2>3. PICK f : Tracks(f, ring, log, kind, Now - Span)
    BY <2>2 DEF AggregateInv
  <2>4. PICK c : c = NumberOf(S)
    OBVIOUS
  <2>5. ObservedCount(ring, merge) = c /\ c \in 0 .. CountMod - 1
    BY <2>1, <2>3, <2>4, AggregateCount
  <2>6. kind # "event_count" => Sum(ring, merge) = TotalOf(S)
    BY <2>1, <2>3, AggregateTotal
  <2>7. fires = AggregateVerdict(ring, merge)
    BY DEF AggregateInv
  <2>8. CASE kind = "event_count"
    BY <2>1, <2>4, <2>5, <2>7, <2>8 DEF AggregateVerdict, CountHolds, VerdictOn
  <2>9. CASE kind = "value_sum"
    BY <2>1, <2>6, <2>7, <2>9 DEF AggregateVerdict, AggregateHolds, SumHolds, VerdictOn
  <2>10. CASE kind = "value_avg"
    <3>1. c % CountMod = c
      <4>1. \A m \in Nat \ {0} : \A x \in 0 .. m - 1 : x % m = x
        OBVIOUS
      <4>2. QED
        BY <2>5, <4>1, MergeAssumption DEF MergeAssumption
    <3>2. c # 0 <=> c > 0
      BY <2>5, MergeAssumption DEF MergeAssumption
    <3>3. fires = AvgHolds(ring, merge, op, Threshold)
      BY <2>7, <2>10 DEF AggregateVerdict, AggregateHolds
    <3>4. AvgHolds(ring, merge, op, Threshold)
            <=> c # 0 /\ Satisfies(op, TotalOf(S), Threshold * c)
      BY <2>5, <2>6, <2>10, <3>1 DEF AvgHolds
    <3>5. VerdictOn(S) <=> c > 0 /\ Satisfies(op, TotalOf(S), Threshold * c)
      BY <2>4, <2>10 DEF VerdictOn
    <3>6. QED
      BY <2>1, <3>2, <3>3, <3>4, <3>5
  <2>11. QED
    BY <2>8, <2>9, <2>10 DEF Aggregates
<1>2. Invariants => Types
  BY DEF Invariants
<1>3. QED
  BY <1>1, <1>2, InvariantsHold, AggregateHoldsAlways, PTL

-----------------------------------------------------------------------------
\* The types.

LEMMA SlotIn ==
  ASSUME NEW x \in Nat
  PROVE  x % MaxEvents \in Slots
BY MaxEventsAssumption DEF Slots

\* Pushing and pruning keep a ring's types, whatever the values.
LEMMA StoreTypes ==
  ASSUME NEW X, NEW V, NEW r \in RingOf(X, V), NEW t \in X, NEW v \in V
  PROVE  Store(r, t, v) \in RingOf(X, V)
<1>1. /\ r.head \in Slots /\ r.len \in 0 .. MaxEvents
      /\ r.ts \in [Slots -> X] /\ r.val \in [Slots -> V]
  BY DEF RingOf
<1>2. r.head + r.len \in Nat /\ r.head + 1 \in Nat
  BY <1>1, MaxEventsAssumption DEF Slots
<1>3. SlotOf(r, r.len) \in Slots /\ SlotOf(r, 1) \in Slots
  BY <1>2, SlotIn DEF SlotOf
<1>4. PICK slot \in Slots : slot = IF IsFull(r) THEN r.head ELSE SlotOf(r, r.len)
  BY <1>1, <1>3
<1>5. PICK ts \in [Slots -> X], val \in [Slots -> V] :
        ts = [r.ts EXCEPT ![slot] = t] /\ val = [r.val EXCEPT ![slot] = v]
  BY <1>1, <1>4
<1>6. PICK head \in Slots : head = IF IsFull(r) THEN SlotOf(r, 1) ELSE r.head
  BY <1>1, <1>3
<1>7. PICK len \in 0 .. MaxEvents : len = IF IsFull(r) THEN r.len ELSE r.len + 1
  BY <1>1, MaxEventsAssumption DEF IsFull
<1>8. Store(r, t, v) = [ts |-> ts, val |-> val, head |-> head, len |-> len]
  BY <1>4, <1>5, <1>6, <1>7 DEF Store
<1>9. QED
  BY <1>8 DEF RingOf

LEMMA PruneTypes ==
  ASSUME NEW X, NEW V, NEW r \in RingOf(X, V), NEW start
  PROVE  Prune(r, start) \in RingOf(X, V)
<1> DEFINE S == {k \in 0 .. r.len : k = r.len \/ TsAt(r, k) >= start}
<1>1. r.head \in Slots /\ r.len \in 0 .. MaxEvents
  BY DEF RingOf
<1>2. S \in SUBSET Nat /\ r.len \in S
  BY <1>1, MaxEventsAssumption
<1>3. Min(S) \in S
  <2> HIDE DEF S
  <2>1. QED
    BY <1>2, LeastNat
<1>4. PICK k \in 0 .. r.len : k = PruneCount(r, start)
  BY <1>3 DEF PruneCount
<1>5. r.head + k \in Nat /\ r.len - k \in 0 .. MaxEvents
  BY <1>1, <1>4, MaxEventsAssumption DEF Slots
<1>6. PICK head \in Slots, len \in 0 .. MaxEvents : head = SlotOf(r, k) /\ len = r.len - k
  BY <1>5, SlotIn DEF SlotOf
<1>7. Prune(r, start) = [r EXCEPT !.head = head, !.len = len]
  BY <1>4, <1>6 DEF Prune
<1>8. QED
  BY <1>7 DEF RingOf

LEMMA PushTypes ==
  ASSUME NEW X, NEW V, NEW r \in RingOf(X, V), NEW t \in X, NEW v \in V, NEW start
  PROVE  Push(r, start, t, v) \in RingOf(X, V)
BY StoreTypes, PruneTypes DEF Push

\* The distinct set does not outgrow its capacity.
LEMMA ObserveSize ==
  ASSUME NEW d \in Seq(Value), NEW v \in Vals, NEW t \in Time, NEW start,
         NEW allocated \in BOOLEAN, Len(d) <= MaxDistinct
  PROVE  Len(ObserveValue(d, v, t, start, allocated)) <= MaxDistinct
<1>1. PICK live : live = DropOld(d, start)
  OBVIOUS
<1>2. live \in Seq(Value) /\ Len(live) <= MaxDistinct
  <2>1. PICK S : live = KeepAt(d, S)
    BY <1>1 DEF DropOld
  <2>2. live \in Seq(Value) /\ Len(live) <= Len(d)
    BY <2>1, KeepAtValue DEF Keeps
  <2>3. QED
    BY <2>2, MaxDistinctAssumption
<1>3. PICK e \in Value : e = [val |-> v, ts |-> t]
  BY DEF Value
<1>4. CASE v \in ValuesOf(live)
  <2>1. PICK s : s = Without(live, v)
    OBVIOUS
  <2>2. s \in Seq(Value)
    BY <1>2, <2>1, KeepAtValue DEF Without
  <2>3. Len(s) < Len(live)
    <3>1. PICK a \in DOMAIN live : live[a].val = v
      BY <1>4 DEF ValuesOf
    <3>2. PICK S : S = {i \in DOMAIN live : live[i].val # v}
      OBVIOUS
    <3>3. s = KeepAt(live, S)
      BY <2>1, <3>2 DEF Without
    <3>4. Keeps(s, live, S, Len(live)) /\ a \in 1 .. Len(live) /\ a \notin S
      BY <1>2, <3>1, <3>2, <3>3, KeepAtValue
    <3>5. QED
      BY <3>4 DEF Keeps
  <2>4. ObserveValue(d, v, t, start, allocated) = Append(s, e)
    BY <1>1, <1>3, <1>4, <2>1 DEF ObserveValue
  <2>5. QED
    BY <1>2, <2>2, <2>3, <2>4, MaxDistinctAssumption
<1>5. CASE v \notin ValuesOf(live)
  <2>1. PICK s : s = EvictOldest(live)
    OBVIOUS
  <2>2. s \in Seq(Value) /\ Len(s) < MaxDistinct
    <3>1. CASE Len(live) >= MaxDistinct
      <4>1. live # <<>> /\ s = Tail(live)
        BY <2>1, <3>1, MaxDistinctAssumption DEF EvictOldest
      <4>2. QED
        BY <1>2, <4>1, MaxDistinctAssumption
    <3>2. CASE ~(Len(live) >= MaxDistinct)
      BY <1>2, <2>1, <3>2, MaxDistinctAssumption DEF EvictOldest
    <3>3. QED
      BY <3>1, <3>2
  <2>3. ObserveValue(d, v, t, start, allocated) \in {Append(s, e), s}
    BY <1>1, <1>3, <1>5, <2>1 DEF ObserveValue
  <2>4. QED
    BY <2>2, <2>3, MaxDistinctAssumption
<1>6. QED
  BY <1>4, <1>5

\* Nor does the seen table: what is admitted fits behind what is there.
LEMMA AdmittedFit ==
  ASSUME NEW s, DOMAIN s \subseteq Bases, Cardinality(DOMAIN s) <= MaxSeen,
         NEW buf \in SUBSET Bases
  PROVE  Cardinality(DOMAIN s \cup Admitted(s, buf)) <= MaxSeen
<1> DEFINE D == DOMAIN s
           A == Admitted(s, buf)
           Lower(b) == {c \in buf \ DOMAIN s : c < b}
<1>1. NBases \in Nat /\ MaxSeen \in Nat
  BY TemporalAssumption
<1>2. IsFiniteSet(Bases)
  BY <1>1, FS_Interval DEF Bases
<1>3. A \subseteq buf \ D /\ A \subseteq Bases
  BY DEF Admitted
<1>4. IsFiniteSet(D) /\ IsFiniteSet(A) /\ Cardinality(D) \in Nat /\ Cardinality(A) \in Nat
  BY <1>2, <1>3, FS_Subset, FS_CardinalityType
<1>5. \A b \in A : Cardinality(D) + Cardinality(Lower(b)) < MaxSeen
  BY DEF Admitted
<1>6. Cardinality(D) + Cardinality(A) <= MaxSeen
  <2>1. CASE A = {}
    BY <1>1, <1>4, <2>1, FS_EmptySet
  <2>2. CASE A # {}
    <3>1. A \in SUBSET (0 .. NBases)
      BY <1>3 DEF Bases
    <3>2. PICK m \in A : \A b \in A : b <= m
      <4> HIDE DEF A
      <4>1. QED
        BY <1>1, <2>2, <3>1, Greatest
    <3>3. PICK C : C = Lower(m)
      OBVIOUS
    <3>4. \A b \in A : b \in Nat
      BY <3>1
    <3>5. A \ {m} \subseteq C
      <4>1. SUFFICES ASSUME NEW b \in A, b # m PROVE b \in C
        OBVIOUS
      <4>2. b < m
        BY <3>2, <3>4, <4>1
      <4>3. QED
        BY <1>3, <3>3, <4>2
    <3>6. C \subseteq Bases
      BY <3>3
    <3>7. IsFiniteSet(C) /\ Cardinality(C) \in Nat
      BY <1>2, <3>6, FS_Subset, FS_CardinalityType
    <3>8. Cardinality(A \ {m}) <= Cardinality(C)
      BY <3>5, <3>7, FS_Subset
    <3>9. Cardinality(A \ {m}) = Cardinality(A) - 1
      BY <1>4, FS_RemoveElement
    <3>10. Cardinality(D) + Cardinality(C) < MaxSeen
      BY <1>5, <3>3
    <3>11. QED
      BY <1>1, <1>4, <3>7, <3>8, <3>9, <3>10
  <2>3. QED
    BY <2>1, <2>2
<1>7. Cardinality(D \cup A) <= Cardinality(D) + Cardinality(A)
  <2>1. Cardinality(D \cup A) = Cardinality(D) + Cardinality(A) - Cardinality(D \cap A)
    BY <1>4, FS_Union
  <2>2. D \cap A = {}
    BY <1>3
  <2>3. Cardinality(D \cap A) = 0
    BY <2>2, FS_EmptySet
  <2>4. QED
    BY <1>4, <2>1, <2>3
<1>8. IsFiniteSet(D \cup A) /\ Cardinality(D \cup A) \in Nat
  BY <1>4, FS_Union, FS_CardinalityType
<1>9. QED
  BY <1>1, <1>4, <1>6, <1>7, <1>8

LEMMA SeenSize ==
  ASSUME NEW s, DOMAIN s \subseteq Bases, Cardinality(DOMAIN s) <= MaxSeen,
         NEW hits \in SUBSET Bases, NEW t, NEW start
  PROVE  Cardinality(DOMAIN RecordSeen(s, hits, t, start)) <= MaxSeen
<1>1. PICK buf : buf = HitBuf(hits)
  OBVIOUS
<1>2. buf \in SUBSET Bases
  BY <1>1, AdmittedHits
<1>3. PICK all : all = DOMAIN s \cup Admitted(s, buf)
  OBVIOUS
<1>4. PICK some : some = DOMAIN RecordSeen(s, hits, t, start)
  OBVIOUS
<1>5. some \subseteq all
  <2>1. PICK r : r = RecordSeen(s, hits, t, start)
    OBVIOUS
  <2>2. Records(r, s, buf, t, start)
    BY <1>1, <2>1, RecordSeenValue
  <2>3. \A b \in DOMAIN r : b \in all
    BY <1>3, <2>2 DEF Records
  <2>4. QED
    BY <1>4, <2>1, <2>3
<1>6. Cardinality(all) <= MaxSeen
  BY <1>2, <1>3, AdmittedFit
<1>7. all \subseteq Bases
  BY <1>2, <1>3 DEF Admitted
<1>8. IsFiniteSet(Bases)
  BY TemporalAssumption, FS_Interval DEF Bases
<1>9. IsFiniteSet(all) /\ Cardinality(some) <= Cardinality(all)
  BY <1>5, <1>7, <1>8, FS_Subset
<1>10. IsFiniteSet(some) /\ Cardinality(some) \in Nat /\ Cardinality(all) \in Nat
  BY <1>5, <1>9, FS_Subset, FS_CardinalityType
<1>11. QED
  BY <1>4, <1>6, <1>9, <1>10, TemporalAssumption

-----------------------------------------------------------------------------
\* What Types leaves out of TypeOK, in a group of its kind.

WindowTypes ==
  /\ ring \in RingOf(Time, Vals \cup {0})
  /\ histogram \in {NoHistogram} \cup [0 .. NBuckets - 1 -> {EmptySlot} \cup Nat]
  /\ merge.n \in 0 .. CountMod - 1 /\ merge.sum \in Int

TableTypes ==
  /\ distinct \in Seq(Value) /\ Len(distinct) <= MaxDistinct
  /\ Cardinality(DOMAIN seen) <= MaxSeen

VerdictTypes ==
  /\ fires \in BOOLEAN /\ lost \in BOOLEAN
  /\ lastFire \in 0 .. Settings[kind].maxLog

\* The actions of temporal groups, and the others by what they do.
Sees(t) == \E hits \in Hits : \/ SeeBases(t, hits) \/ OrderDirectly(t, hits)
                              \/ OrderLate(t, hits) \/ OrderHeld(t, hits)
                              \/ MergeBases(t, hits)
Ticks(t) == CountEvent(t) \/ BeaconRaw(t)
AddsOne(t) == \E v \in Vals \cup {NoVal} : AddValue(t, v)
Observes(t) == \E v \in Vals \cup {NoVal} : CountValue(t, v)
Merges(t) == \E c \in Counts : MergeEvents(t, c) \/ \E v \in Vals : MergeValues(t, v, c)

LEMMA NextCases ==
  ASSUME Next
  PROVE  \E t \in Time : \/ Ticks(t) \/ BeaconBucketed(t) \/ AddsOne(t) \/ Observes(t)
                         \/ Merges(t) \/ Sees(t)
BY DEF Next, Sees, Ticks, AddsOne, Observes, Merges

\* What each of them leaves alone.
LEMMA StepFrames ==
  ASSUME NEW t \in Time
  PROVE  /\ Ticks(t) => UNCHANGED <<histogram, merge, distinct, seen>>
         /\ BeaconBucketed(t) => UNCHANGED <<ring, merge, distinct, seen>>
         /\ AddsOne(t) => UNCHANGED <<histogram, merge, distinct, seen>>
         /\ Observes(t) => UNCHANGED <<ring, histogram, merge, seen>>
         /\ Merges(t) => UNCHANGED <<histogram, distinct, seen>>
         /\ Sees(t) => UNCHANGED <<ring, histogram, distinct>>
<1>1. Ticks(t) => UNCHANGED <<histogram, merge, distinct, seen>>
  BY DEF Ticks, CountEvent, BeaconRaw
<1>2. BeaconBucketed(t) => UNCHANGED <<ring, merge, distinct, seen>>
  BY DEF BeaconBucketed
<1>3. AddsOne(t) => UNCHANGED <<histogram, merge, distinct, seen>>
  BY DEF AddsOne, AddValue
<1>4. Observes(t) => UNCHANGED <<ring, histogram, merge, seen>>
  BY DEF Observes, CountValue, windows
<1>5. Merges(t) => UNCHANGED <<histogram, distinct, seen>>
  BY DEF Merges, MergeEvents, MergeValues
<1>6. ASSUME NEW hits PROVE SeeBases(t, hits) => UNCHANGED <<ring, histogram, distinct>>
  BY DEF SeeBases, windows
<1>7. ASSUME NEW hits
      PROVE  OrderDirectly(t, hits) \/ OrderLate(t, hits)
               => UNCHANGED <<ring, histogram, distinct>>
  BY DEF OrderDirectly, OrderLate, windows
<1>8. ASSUME NEW hits PROVE OrderHeld(t, hits) => UNCHANGED <<ring, histogram, distinct>>
  BY DEF OrderHeld, windows
<1>9. ASSUME NEW hits PROVE MergeBases(t, hits) => UNCHANGED <<ring, histogram, distinct>>
  BY DEF MergeBases
<1>10. Sees(t) => UNCHANGED <<ring, histogram, distinct>>
  BY <1>6, <1>7, <1>8, <1>9 DEF Sees
<1>11. QED
  BY <1>1, <1>2, <1>3, <1>4, <1>5, <1>10

\* Each step, by what it does to the ring ...
LEMMA RingSteps ==
  ASSUME [Next]_vars
  PROVE  \/ ring' = ring
         \/ \E t \in Time : ring' = Prune(ring, t - Span)
         \/ \E t \in Time, v \in Vals \cup {0} : ring' = Push(ring, t - Span, t, v)
<1>1. CASE UNCHANGED vars
  BY <1>1 DEF vars, windows
<1>2. CASE Next
  <2>1. PICK t \in Time : \/ Ticks(t) \/ BeaconBucketed(t) \/ AddsOne(t) \/ Observes(t)
                          \/ Merges(t) \/ Sees(t)
    BY <1>2, NextCases
  <2>2. CASE Ticks(t)
    BY <2>2 DEF Ticks, CountEvent, BeaconRaw
  <2>3. CASE AddsOne(t)
    <3>1. PICK v \in Vals \cup {NoVal} : AddValue(t, v)
      BY <2>3 DEF AddsOne
    <3>2. \/ ring' = ring \/ ring' = Prune(ring, t - Span)
          \/ v \in Vals /\ ring' = Push(ring, t - Span, t, v)
      BY <3>1 DEF AddValue
    <3>3. QED
      BY <3>2
  <2>4. CASE Merges(t)
    BY <2>4 DEF Merges, MergeEvents, MergeValues
  <2>5. QED
    BY <2>1, <2>2, <2>3, <2>4, StepFrames
<1>3. QED
  BY <1>1, <1>2

\* ... the histogram ...
LEMMA HistogramSteps ==
  ASSUME [Next]_vars
  PROVE  \/ histogram' = histogram
         \/ \E t \in Time :
              histogram' = Bump(IF histogram = NoHistogram THEN EmptyHistogram
                                                           ELSE histogram,
                                Epoch(t, Span))
<1>1. CASE UNCHANGED vars
  BY <1>1 DEF vars, windows
<1>2. CASE Next
  <2>1. PICK t \in Time : \/ Ticks(t) \/ BeaconBucketed(t) \/ AddsOne(t) \/ Observes(t)
                          \/ Merges(t) \/ Sees(t)
    BY <1>2, NextCases
  <2>2. CASE BeaconBucketed(t)
    BY <2>2 DEF BeaconBucketed
  <2>3. QED
    BY <2>1, <2>2, StepFrames
<1>3. QED
  BY <1>1, <1>2

\* ... what was merged ...
LEMMA MergeSteps ==
  ASSUME [Next]_vars
  PROVE  \/ merge' = merge
         \/ \E c \in Counts : merge' = MergeCount(merge, 0, c)
         \/ /\ kind \in {"value_sum", "value_avg"}
            /\ \E c \in Counts, v \in Vals : merge' = MergeCount(merge, v, c)
         \/ \E hits \in Hits : merge' = MergeSeen(merge, hits)
<1>1. CASE UNCHANGED vars
  BY <1>1 DEF vars, windows
<1>2. CASE Next
  <2>1. PICK t \in Time : \/ Ticks(t) \/ BeaconBucketed(t) \/ AddsOne(t) \/ Observes(t)
                          \/ Merges(t) \/ Sees(t)
    BY <1>2, NextCases
  <2>2. CASE Merges(t)
    BY <2>2 DEF Merges, MergeEvents, MergeValues
  <2>3. CASE Sees(t)
    <3>1. PICK hits \in Hits : \/ SeeBases(t, hits) \/ OrderDirectly(t, hits)
                               \/ OrderLate(t, hits) \/ OrderHeld(t, hits)
                               \/ MergeBases(t, hits)
      BY <2>3 DEF Sees
    <3>2. SeeBases(t, hits) => merge' = merge
      BY DEF SeeBases, windows
    <3>3. OrderDirectly(t, hits) \/ OrderLate(t, hits) => merge' = merge
      BY DEF OrderDirectly, OrderLate, windows
    <3>4. OrderHeld(t, hits) => merge' = merge
      BY DEF OrderHeld, windows
    <3>5. MergeBases(t, hits) => merge' = MergeSeen(merge, hits)
      BY DEF MergeBases
    <3>6. QED
      BY <3>1, <3>2, <3>3, <3>4, <3>5
  <2>4. QED
    BY <2>1, <2>2, <2>3, StepFrames
<1>3. QED
  BY <1>1, <1>2

\* ... the distinct set ...
LEMMA DistinctSteps ==
  ASSUME [Next]_vars
  PROVE  \/ distinct' = distinct
         \/ \E t \in Time, v \in Vals, allocated \in BOOLEAN :
              distinct' = ObserveValue(distinct, v, t, t - Span, allocated)
<1>1. CASE UNCHANGED vars
  BY <1>1 DEF vars
<1>2. CASE Next
  <2>1. PICK t \in Time : \/ Ticks(t) \/ BeaconBucketed(t) \/ AddsOne(t) \/ Observes(t)
                          \/ Merges(t) \/ Sees(t)
    BY <1>2, NextCases
  <2>2. CASE Observes(t)
    BY <2>2 DEF Observes, CountValue
  <2>3. QED
    BY <2>1, <2>2, StepFrames
<1>3. QED
  BY <1>1, <1>2

\* ... the seen table ...
LEMMA SeenSteps ==
  ASSUME [Next]_vars
  PROVE  \/ seen' = seen
         \/ \E t \in Time, hits \in SUBSET Bases :
              seen' = RecordSeen(seen, hits, t, t - Span)
<1>1. CASE UNCHANGED vars
  BY <1>1 DEF vars
<1>2. CASE Next
  <2>1. PICK t \in Time : \/ Ticks(t) \/ BeaconBucketed(t) \/ AddsOne(t) \/ Observes(t)
                          \/ Merges(t) \/ Sees(t)
    BY <1>2, NextCases
  <2>2. CASE Sees(t)
    <3>1. PICK hits \in Hits : \/ SeeBases(t, hits) \/ OrderDirectly(t, hits)
                               \/ OrderLate(t, hits) \/ OrderHeld(t, hits)
                               \/ MergeBases(t, hits)
      BY <2>2 DEF Sees
    <3>2. SeeBases(t, hits) => seen' = RecordSeen(seen, hits, t, t - Span)
      BY DEF SeeBases
    <3>3. OrderDirectly(t, hits) \/ OrderLate(t, hits) => KeepSeen(t, hits)
      BY DEF OrderDirectly, OrderLate
    <3>4. OrderHeld(t, hits) => KeepSeen(t, hits)
      BY DEF OrderHeld
    <3>5. MergeBases(t, hits) => seen' = RecordSeen(seen, {}, t, t - Span)
      BY DEF MergeBases
    <3>6. KeepSeen(t, hits) => seen' \in {RecordSeen(seen, hits, t, t - Span), seen}
      BY DEF KeepSeen
    <3>7. {} \in SUBSET Bases /\ hits \in SUBSET Bases
      BY DEF Hits
    <3>8. QED
      BY <3>1, <3>2, <3>3, <3>4, <3>5, <3>6, <3>7
  <2>3. QED
    BY <2>1, <2>2, StepFrames
<1>3. QED
  BY <1>1, <1>2

\* ... and the verdict.
LEMMA VerdictSteps ==
  ASSUME [Next]_vars, Types
  PROVE  /\ fires' = fires \/ fires' \in BOOLEAN
         /\ lost' = lost \/ lost' \in BOOLEAN
         /\ \/ lastFire' = lastFire
            \/ lastFire' = Len(log) + 1 /\ Len(log) < Settings[kind].maxLog
<1>1. CASE UNCHANGED vars
  BY <1>1 DEF vars
<1>2. CASE Next
  <2>1. PICK t \in Time :
          \/ CountEvent(t) \/ BeaconRaw(t) \/ BeaconBucketed(t)
          \/ \E v \in Vals \cup {NoVal} : AddValue(t, v) \/ CountValue(t, v)
          \/ \E hits \in Hits : SeeBases(t, hits) \/ OrderDirectly(t, hits)
                                \/ OrderLate(t, hits) \/ OrderHeld(t, hits)
          \/ \E c \in Counts : MergeEvents(t, c) \/ \E v \in Vals : MergeValues(t, v, c)
          \/ \E hits \in Hits : MergeBases(t, hits)
    BY <1>2 DEF Next
  <2>2. ASSUME NEW fired \in BOOLEAN, Verdict(fired), Len(log) < Settings[kind].maxLog
        PROVE  /\ fires' \in BOOLEAN
               /\ \/ lastFire' = lastFire
                  \/ lastFire' = Len(log) + 1 /\ Len(log) < Settings[kind].maxLog
    BY <2>2 DEF Verdict
  <2>3. CASE CountEvent(t)
    BY <2>2, <2>3 DEF CountEvent, CountHolds, Satisfies, Arrive, Reach
  <2>4. CASE BeaconRaw(t)
    BY <2>2, <2>4 DEF BeaconRaw, PeriodicTimes, Arrive, Reach
  <2>5. CASE BeaconBucketed(t)
    BY <2>2, <2>5 DEF BeaconBucketed, PeriodicEpochs, Arrive, Reach
  <2>6. \A r, m : AggregateHolds(r, m) \in BOOLEAN
    BY DEF AggregateHolds, SumHolds, AvgHolds, Satisfies
  <2>7. ASSUME NEW v \in Vals \cup {NoVal}, AddValue(t, v)
        PROVE  /\ fires' \in BOOLEAN /\ (lost' = lost \/ lost' \in BOOLEAN)
               /\ \/ lastFire' = lastFire
                  \/ lastFire' = Len(log) + 1 /\ Len(log) < Settings[kind].maxLog
    BY <2>2, <2>6, <2>7 DEF AddValue, Arrive, Reach
  <2>8. ASSUME NEW v \in Vals \cup {NoVal}, CountValue(t, v)
        PROVE  UNCHANGED <<fires, lastFire>> /\ (lost' = lost \/ lost' \in BOOLEAN)
    BY <2>8 DEF CountValue
  <2>9. ASSUME NEW s, NEW m PROVE TemporalHolds(s, m, hasCond) \in BOOLEAN
    <3>1. (Mask(s, m) \in Accept) \in BOOLEAN /\ (Masked \subseteq Mask(s, m)) \in BOOLEAN
      OBVIOUS
    <3>2. CASE hasCond
      BY <3>1, <3>2 DEF TemporalHolds
    <3>3. CASE ~hasCond
      BY <3>1, <3>3 DEF TemporalHolds
    <3>4. QED
      BY <3>2, <3>3
  <2>10. ASSUME NEW hits \in Hits, SeeBases(t, hits) \/ MergeBases(t, hits)
         PROVE  /\ fires' \in BOOLEAN /\ lost' = lost
                /\ \/ lastFire' = lastFire
                   \/ lastFire' = Len(log) + 1 /\ Len(log) < Settings[kind].maxLog
    BY <2>2, <2>9, <2>10 DEF SeeBases, MergeBases, Arrive, Reach
  <2>11. ASSUME NEW hits \in Hits, OrderDirectly(t, hits) \/ OrderLate(t, hits)
         PROVE  /\ fires' \in BOOLEAN /\ lost' = lost
                /\ \/ lastFire' = lastFire
                   \/ lastFire' = Len(log) + 1 /\ Len(log) < Settings[kind].maxLog
    BY <2>2, <2>11 DEF OrderDirectly, OrderLate, Offer, Arrive, Reach
  <2>12. ASSUME NEW hits \in Hits, OrderHeld(t, hits)
         PROVE  /\ fires' \in BOOLEAN /\ lost' \in BOOLEAN
                /\ \/ lastFire' = lastFire
                   \/ lastFire' = Len(log) + 1 /\ Len(log) < Settings[kind].maxLog
    BY <2>2, <2>12 DEF OrderHeld, Arrive, Reach
  <2>13. ASSUME NEW c \in Counts, \/ MergeEvents(t, c)
                                  \/ \E v \in Vals : MergeValues(t, v, c)
         PROVE  /\ fires' \in BOOLEAN /\ lost' = lost
                /\ \/ lastFire' = lastFire
                   \/ lastFire' = Len(log) + 1 /\ Len(log) < Settings[kind].maxLog
    BY <2>2, <2>6, <2>13 DEF MergeEvents, MergeValues, CountHolds, Satisfies, Reach
  <2>14. lost' = lost \/ lost' \in BOOLEAN
    BY <2>1, <2>7, <2>8, <2>10, <2>11, <2>12, <2>13
       DEF CountEvent, BeaconRaw, BeaconBucketed
  <2>15. QED
    BY <2>1, <2>3, <2>4, <2>5, <2>7, <2>8, <2>10, <2>11, <2>12, <2>13, <2>14
<1>3. QED
  BY <1>1, <1>2

Typed == WindowTypes /\ TableTypes /\ VerdictTypes

LEMMA InitTyped == Init => Typed
<1> SUFFICES ASSUME Init PROVE Typed
  OBVIOUS
<1>1. kind \in Kinds
  BY DEF Init
<1>2. Time \subseteq Nat /\ 0 \in Time /\ Settings[kind].maxLog \in Nat
  BY <1>1, RuleFacts, GroupAssumption
<1>3. ring \in RingOf(Time, Vals \cup {0})
  BY <1>2, MaxEventsAssumption DEF Init, EmptyRing, RingOf, Slots
<1>4. merge.n \in 0 .. CountMod - 1 /\ merge.sum \in Int
  BY MergeAssumption DEF Init, NothingMerged
<1>5. WindowTypes
  BY <1>3, <1>4 DEF WindowTypes, Init
<1>6. TableTypes
  <2>1. DOMAIN seen = {}
    BY DEF Init, NothingSeen
  <2>2. QED
    BY <2>1, FS_EmptySet, MaxDistinctAssumption, TemporalAssumption DEF TableTypes, Init
<1>7. fires = FALSE /\ lost = FALSE /\ lastFire = 0
  BY DEF Init
<1>8. fires \in BOOLEAN /\ lost \in BOOLEAN
  BY <1>7
<1>9. lastFire \in 0 .. Settings[kind].maxLog
  BY <1>2, <1>7
<1>10. QED
  BY <1>5, <1>6, <1>8, <1>9 DEF Typed, VerdictTypes

LEMMA MergeTypes ==
  ASSUME Types, WindowTypes, [Next]_vars
  PROVE  merge'.n \in 0 .. CountMod - 1 /\ merge'.sum \in Int
<1>1. /\ merge = [n |-> merge.n, sum |-> merge.sum, seen |-> merge.seen]
      /\ merge.n \in 0 .. CountMod - 1 /\ merge.sum \in Int
  BY DEF Types, WindowTypes
<1>2. ASSUME NEW x \in Int, NEW c \in Counts, merge' = MergeCount(merge, x, c)
      PROVE  merge'.n \in 0 .. CountMod - 1 /\ merge'.sum \in Int
  <2>1. CountOf(c) \in Nat /\ CountMod \in Nat \ {0}
    BY GroupAssumption, MergeAssumption DEF CountOf
  <2>2. /\ merge'.n = (merge.n + CountOf(c)) % CountMod
        /\ merge'.sum = merge.sum + x
    BY <1>1, <1>2, MergeCountValue
  <2>3. merge.n + CountOf(c) \in Nat
    BY <1>1, <2>1
  <2>4. \A y \in Nat, d \in Nat \ {0} : y % d \in 0 .. d - 1
    OBVIOUS
  <2>5. QED
    BY <1>1, <2>1, <2>2, <2>3, <2>4
<1>3. kind \in {"value_sum", "value_avg"} => Vals \subseteq Int
  BY GroupAssumption DEF Types
<1>4. ASSUME NEW hits, merge' = MergeSeen(merge, hits)
      PROVE  merge'.n = merge.n /\ merge'.sum = merge.sum
  BY <1>1, <1>4 DEF MergeSeen
<1>5. QED
  BY <1>1, <1>2, <1>3, <1>4, MergeSteps

LEMMA WindowTypesStep ==
  ASSUME Types, WindowTypes, [Next]_vars
  PROVE  WindowTypes'
<1>0. kind' = kind /\ kind \in Kinds
  BY RuleKept DEF Types
<1>1. Time' = Time /\ 0 \in Vals \cup {0}
  BY <1>0 DEF Time
<1>2. ring' \in RingOf(Time, Vals \cup {0})
  <2>1. ring \in RingOf(Time, Vals \cup {0})
    BY DEF WindowTypes
  <2>2. QED
    BY <2>1, RingSteps, PruneTypes, PushTypes
<1>3. histogram' \in {NoHistogram} \cup [0 .. NBuckets - 1 -> {EmptySlot} \cup Nat]
  <2>1. CASE histogram' = histogram
    BY <2>1 DEF WindowTypes
  <2>2. ASSUME NEW t \in Time,
               histogram' = Bump(IF histogram = NoHistogram THEN EmptyHistogram
                                                            ELSE histogram,
                                 Epoch(t, Span))
        PROVE  histogram' \in [0 .. NBuckets - 1 -> {EmptySlot} \cup Nat]
    <3>1. PICK h : h = IF histogram = NoHistogram THEN EmptyHistogram ELSE histogram
      OBVIOUS
    <3>2. h \in [0 .. NBuckets - 1 -> {EmptySlot} \cup Nat]
      BY <3>1 DEF WindowTypes, EmptyHistogram
    <3>3. PICK e : e = Epoch(t, Span)
      OBVIOUS
    <3>4. e \in Nat
      <4>1. Span \in Nat \ {0} /\ t * NBuckets \in Nat
        BY <1>0, RuleFacts, BeaconAssumption
      <4>2. \A x \in Nat, d \in Nat \ {0} : x \div d \in Nat
        OBVIOUS
      <4>3. QED
        BY <3>3, <4>1, <4>2 DEF Epoch
    <3>5. histogram' = [h EXCEPT ![e % NBuckets] = e]
      BY <2>2, <3>1, <3>3 DEF Bump
    <3>6. QED
      BY <3>2, <3>4, <3>5
  <2>3. QED
    BY <2>1, <2>2, HistogramSteps
<1>4. merge'.n \in 0 .. CountMod - 1 /\ merge'.sum \in Int
  BY MergeTypes
<1>5. QED
  BY <1>1, <1>2, <1>3, <1>4 DEF WindowTypes

LEMMA TableTypesStep ==
  ASSUME Types, TableTypes, [Next]_vars
  PROVE  TableTypes'
<1>0. kind' = kind
  BY RuleKept
<1>1. Value' = Value
  BY <1>0 DEF Value, Time
<1>2. distinct' \in Seq(Value) /\ Len(distinct') <= MaxDistinct
  <2>1. distinct \in Seq(Value) /\ Len(distinct) <= MaxDistinct
    BY DEF TableTypes
  <2>2. ASSUME NEW t \in Time, NEW v \in Vals, NEW allocated \in BOOLEAN,
               distinct' = ObserveValue(distinct, v, t, t - Span, allocated)
        PROVE  distinct' \in Seq(Value) /\ Len(distinct') <= MaxDistinct
    <3>1. Len(distinct') <= MaxDistinct
      BY <2>1, <2>2, ObserveSize
    <3>2. allocated = TRUE \/ allocated = FALSE
      OBVIOUS
    <3>3. distinct' \in Seq(Value)
      BY <2>1, <2>2, <3>2, ValueTypes
    <3>4. QED
      BY <3>1, <3>3
  <2>3. QED
    BY <2>1, <2>2, DistinctSteps
<1>3. Cardinality(DOMAIN seen') <= MaxSeen
  <2>1. DOMAIN seen \subseteq Bases /\ Cardinality(DOMAIN seen) <= MaxSeen
    BY DEF Types, TableTypes
  <2>2. QED
    BY <2>1, SeenSteps, SeenSize
<1>4. QED
  BY <1>1, <1>2, <1>3 DEF TableTypes

LEMMA VerdictTypesStep ==
  ASSUME Types, VerdictTypes, [Next]_vars
  PROVE  VerdictTypes'
<1>0. kind' = kind /\ kind \in Kinds /\ Len(log) \in Nat
  BY RuleKept DEF Types
<1>1. Settings[kind].maxLog \in Nat
  BY <1>0, GroupAssumption
<1>2. lastFire' \in 0 .. Settings[kind].maxLog
  BY <1>0, <1>1, VerdictSteps DEF VerdictTypes
<1>3. fires' \in BOOLEAN /\ lost' \in BOOLEAN
  BY VerdictSteps DEF VerdictTypes
<1>4. QED
  BY <1>0, <1>2, <1>3 DEF VerdictTypes

\* Whatever reaches the group, its arrays, tables and buffers stay within their
\* capacities and hold times, values and base rules of the rule.
THEOREM GroupTypes == Spec => []TypeOK
<1>1. Types /\ Typed /\ [Next]_vars => Typed'
  BY WindowTypesStep, TableTypesStep, VerdictTypesStep DEF Typed
<1>2. Invariants => Types
  BY DEF Invariants
<1>3. Types /\ Typed => TypeOK
  <2> SUFFICES ASSUME Types, Typed PROVE TypeOK
    OBVIOUS
  <2>1. WindowTypes /\ TableTypes /\ VerdictTypes
    BY DEF Typed
  <2>2. merge \in [n : 0 .. CountMod - 1, sum : Int, seen : SUBSET Masked]
    BY <2>1 DEF Types, WindowTypes
  <2>3. distinct \in Seq([val : Vals, ts : Time]) /\ Len(distinct) <= MaxDistinct
    BY <2>1 DEF TableTypes, Value
  <2>4. log \in Seq([t : Time, hits : SUBSET Bases, v : Vals \cup {NoVal},
                     n : Nat, remote : BOOLEAN])
    BY DEF Types, Entry
  <2>5. progress \in [step : 0 .. Len(Order) - 1, anchor : Time, last : Time]
    BY DEF Types, Steps
  <2>6. wm \in Seq([ts : Time, rid : Bases]) /\ Len(wm) <= WmCap
    BY DEF Types, Hit
  <2>7. QED
    BY <2>1, <2>2, <2>3, <2>4, <2>5, <2>6
       DEF TypeOK, Types, WindowTypes, TableTypes, VerdictTypes
<1>4. QED
  BY <1>1, <1>2, <1>3, InitTyped, InvariantsHold, PTL DEF Spec

-----------------------------------------------------------------------------
(***************************************************************************)
(* Beaconing: the bucketed mode decides on exactly the active buckets of   *)
(* its window, the raw one on exactly the events, for every number of      *)
(* buckets, capacity, span and threshold.                                  *)
(***************************************************************************)

Bucketed == kind = "beaconing_bucketed"

HistSlots == 0 .. NBuckets - 1

\* The entries a bucketed beaconing group logs.
BeaconEvent == [t : Time, hits : {{}}, v : {NoVal}, n : {1}, remote : {FALSE}]

EpochAt(i) == Epoch(log[i].t, Span)

SlotAt(i) == EpochAt(i) % NBuckets

\* A slot holds the epoch of the last event that fell on it, if any did.
SlotIsLatest(s) ==
  \/ /\ histogram[s] = EmptySlot
     /\ \A i \in Events : SlotAt(i) # s
  \/ \E i \in Events :
       /\ SlotAt(i) = s
       /\ histogram[s] = EpochAt(i)
       /\ \A j \in Events : j > i => SlotAt(j) # s

\* Some event is of the newest epoch: Max of the epochs is one of them.
SomeNewest == \E m \in Events : \A i \in Events : EpochAt(i) <= EpochAt(m)

\* What the histogram holds, and that the verdict is about it.
Recorded ==
  /\ histogram \in [HistSlots -> Int]
  /\ \A s \in HistSlots : SlotIsLatest(s)
  /\ fires = PeriodicEpochs(Active(histogram, Epoch(Now, Span)), Threshold)

BeaconInv ==
  Bucketed =>
    /\ kind \in Kinds
    /\ log \in Seq(BeaconEvent)
    /\ log = <<>> => histogram = NoHistogram
    /\ log # <<>> => SomeNewest
    /\ log # <<>> /\ ~lost => Recorded

-----------------------------------------------------------------------------
\* Two epochs of one slot are a whole window apart.
LEMMA SameSlot ==
  ASSUME NEW n \in Nat \ {0}, NEW a \in Nat, NEW b \in Nat, a % n = b % n, a < b
  PROVE  a + n <= b
<1>. DEFINE p == a \div n
            q == b \div n
<1>1. p \in Int /\ q \in Int
  OBVIOUS
<1>2. a = n * p + (a % n) /\ b = n * q + (b % n)
  OBVIOUS
<1>3. a % n \in Int
  OBVIOUS
<1>. HIDE DEF p, q
<1>4. b - a = n * q - n * p
  BY <1>1, <1>2, <1>3
<1>5. n * q - n * p = n * (q - p)
  BY <1>1
<1>6. n * (q - p) > 0
  BY <1>4, <1>5
<1>7. q - p >= 1
  <2>1. CASE q - p <= 0
    <3>1. n * (q - p) <= 0
      BY <1>1, <2>1
    <3>. QED BY <1>1, <1>6, <3>1
  <2>. QED BY <1>1, <2>1
<1>8. n * (q - p) >= n
  BY <1>1, <1>7
<1>. QED BY <1>1, <1>4, <1>5, <1>8

LEMMA SpanIsPositive ==
  ASSUME kind \in Kinds
  PROVE  Span \in Nat \ {0}
BY GroupAssumption DEF GroupAssumption, Span

LEMMA EpochIsNat ==
  ASSUME kind \in Kinds, NEW t \in Time
  PROVE  Epoch(t, Span) \in Nat
<1>1. Span \in Nat \ {0} /\ NBuckets \in Nat /\ t \in Nat
  BY SpanIsPositive, BeaconAssumption DEF BeaconAssumption, Time
<1>2. t * NBuckets \in Nat
  BY <1>1
<1>3. \A x \in Nat, d \in Nat \ {0} : x \div d \in Nat
  OBVIOUS
<1>. QED BY <1>1, <1>2, <1>3 DEF Epoch

LEMMA LargerOfTwo ==
  ASSUME NEW a \in Int, NEW b \in Int
  PROVE  Max({a, b}) = IF a >= b THEN a ELSE b
<1>. DEFINE m == IF a >= b THEN a ELSE b
<1>1. m \in {a, b} /\ \A y \in {a, b} : m >= y
  OBVIOUS
<1>2. ASSUME NEW x \in {a, b}, \A y \in {a, b} : x >= y PROVE x = m
  BY <1>2
<1>. QED BY <1>1, <1>2 DEF Max

-----------------------------------------------------------------------------
\* What an event of a bucketed beaconing group appends to the log.
LEMMA BeaconLogGrows ==
  ASSUME BeaconInv, Bucketed, NEW t \in Time, Arrive(t, {}, NoVal),
         NEW n, n = Len(log) + 1
  PROVE  /\ Bucketed' /\ kind' = kind /\ Span' = Span /\ Threshold' = Threshold
         /\ Time' = Time
         /\ log' \in Seq(BeaconEvent) /\ log' # <<>>
         /\ Len(log) \in Nat /\ Len(log') = n
         /\ Events = 1 .. Len(log) /\ Events' = 1 .. n
         /\ \A i \in Events : EpochAt(i)' = EpochAt(i) /\ SlotAt(i)' = SlotAt(i)
         /\ EpochAt(n)' = Epoch(t, Span)
         /\ SlotAt(n)' = Epoch(t, Span) % NBuckets
         /\ Now' = t
<1>. DEFINE r == [t |-> t, hits |-> {}, v |-> NoVal, n |-> 1, remote |-> FALSE]
<1>1. kind' = kind /\ log' = Append(log, r)
  BY DEF Arrive, Reach, rule
<1>2. Span' = Span /\ Threshold' = Threshold /\ Time' = Time /\ Bucketed'
  BY <1>1 DEF Span, Threshold, Time, Bucketed
<1>3. r \in BeaconEvent /\ r.t = t
  BY DEF BeaconEvent
<1>4. log \in Seq(BeaconEvent)
  BY DEF BeaconInv
<1>. HIDE DEF r
<1>5. /\ log' \in Seq(BeaconEvent) /\ log' # <<>>
      /\ Len(log) \in Nat /\ Len(log') = n
      /\ \A i \in 1 .. Len(log) : log'[i] = log[i]
      /\ log'[n] = r
  BY <1>1, <1>3, <1>4, AppendProperties
<1>6. Events = 1 .. Len(log) /\ Events' = 1 .. n
  BY <1>4, <1>5 DEF Events
<1>7. \A i \in Events : EpochAt(i)' = EpochAt(i) /\ SlotAt(i)' = SlotAt(i)
  BY <1>2, <1>5, <1>6 DEF EpochAt, SlotAt
<1>8. /\ EpochAt(n)' = Epoch(t, Span)
      /\ SlotAt(n)' = Epoch(t, Span) % NBuckets
  BY <1>2, <1>3, <1>5 DEF EpochAt, SlotAt
<1>9. Now' = t
  BY <1>3, <1>5 DEF Now
<1>. QED BY <1>1, <1>2, <1>5, <1>6, <1>7, <1>8, <1>9

\* Every logged epoch is a natural number, and its slot is one of the histogram's.
LEMMA EpochsLogged ==
  ASSUME BeaconInv, Bucketed, NEW i \in Events
  PROVE  EpochAt(i) \in Nat /\ SlotAt(i) \in HistSlots
<1>1. log[i] \in BeaconEvent
  BY DEF BeaconInv, Events
<1>2. log[i].t \in Time
  BY <1>1 DEF BeaconEvent
<1>3. EpochAt(i) \in Nat
  BY <1>2, EpochIsNat DEF EpochAt, BeaconInv
<1>4. \A x \in Nat, n \in Nat \ {0} : x % n \in 0 .. n - 1
  OBVIOUS
<1>. QED BY <1>3, <1>4, BeaconAssumption DEF SlotAt, HistSlots, BeaconAssumption

\* The newest epoch is still that of some event.
LEMMA NewestKept ==
  ASSUME BeaconInv, Bucketed, NEW t \in Time, Arrive(t, {}, NoVal)
  PROVE  SomeNewest'
<1>. DEFINE now == Epoch(t, Span)
<1>0. PICK n : n = Len(log) + 1
  OBVIOUS
<1>1. now \in Nat
  BY EpochIsNat DEF BeaconInv
<1>2. \A i \in Events : EpochAt(i) \in Nat
  BY EpochsLogged
<1>3. /\ Len(log) \in Nat /\ Events = 1 .. Len(log) /\ Events' = 1 .. n
      /\ \A i \in Events : EpochAt(i)' = EpochAt(i)
      /\ EpochAt(n)' = now
  BY <1>0, BeaconLogGrows
<1>. HIDE DEF now
<1>4. n \in Events' /\ \A i \in Events' : i \in Events \/ i = n
  BY <1>0, <1>3
<1>5. CASE log = <<>>
  <2>1. Events = {}
    BY <1>3, <1>5
  <2>. QED BY <1>1, <1>3, <1>4, <2>1 DEF SomeNewest
<1>6. CASE log # <<>>
  <2>1. PICK m \in Events : \A i \in Events : EpochAt(i) <= EpochAt(m)
    BY <1>6 DEF BeaconInv, SomeNewest
  <2>2. CASE EpochAt(m) >= now
    <3>1. \A i \in Events' : EpochAt(i)' <= EpochAt(m)'
      BY <1>2, <1>3, <1>4, <2>1, <2>2
    <3>2. m \in Events'
      BY <1>0, <1>3
    <3>. QED BY <3>1, <3>2 DEF SomeNewest
  <2>3. CASE EpochAt(m) < now
    <3>1. \A i \in Events' : EpochAt(i)' <= EpochAt(n)'
      BY <1>1, <1>2, <1>3, <1>4, <2>1, <2>3
    <3>. QED BY <1>4, <3>1 DEF SomeNewest
  <2>. QED BY <1>1, <1>2, <2>2, <2>3
<1>. QED BY <1>5, <1>6

\* The histogram that counts the event has, in every slot, the last epoch of it.
LEMMA BumpRecords ==
  ASSUME BeaconInv, Bucketed, NEW t \in Time, Arrive(t, {}, NoVal),
         NEW held \in [HistSlots -> Int],
         \A s \in HistSlots :
           \/ held[s] = EmptySlot /\ \A i \in Events : SlotAt(i) # s
           \/ \E i \in Events : /\ SlotAt(i) = s
                                /\ held[s] = EpochAt(i)
                                /\ \A j \in Events : j > i => SlotAt(j) # s,
         histogram' = Bump(held, Epoch(t, Span))
  PROVE  /\ histogram' \in [HistSlots -> Int]
         /\ \A s \in HistSlots : SlotIsLatest(s)'
<1>. DEFINE now == Epoch(t, Span)
<1>0. PICK n : n = Len(log) + 1
  OBVIOUS
<1>1. now \in Nat
  BY EpochIsNat DEF BeaconInv
<1>2. /\ Len(log) \in Nat /\ Events = 1 .. Len(log) /\ Events' = 1 .. n
      /\ \A i \in Events : EpochAt(i)' = EpochAt(i) /\ SlotAt(i)' = SlotAt(i)
      /\ EpochAt(n)' = now /\ SlotAt(n)' = now % NBuckets
  BY <1>0, BeaconLogGrows
<1>3. now % NBuckets \in HistSlots
  BY <1>1, BeaconAssumption DEF HistSlots, BeaconAssumption
<1>4. histogram' = [held EXCEPT ![now % NBuckets] = now]
  BY DEF Bump
<1>. HIDE DEF now
<1>5. histogram' \in [HistSlots -> Int]
  BY <1>1, <1>3, <1>4
<1>6. n \in Events' /\ Events \subseteq Events' /\ \A i \in Events' : i \in Events \/ i = n
  BY <1>0, <1>2
<1>7. ASSUME NEW s \in HistSlots PROVE SlotIsLatest(s)'
  <2>1. CASE s = now % NBuckets
    <3>1. histogram'[s] = now
      BY <1>3, <1>4, <2>1
    <3>2. \A j \in Events' : ~(j > n)
      BY <1>0, <1>2
    <3>. QED BY <1>2, <1>6, <2>1, <3>1, <3>2 DEF SlotIsLatest
  <2>2. CASE s # now % NBuckets
    <3>1. histogram'[s] = held[s]
      BY <1>3, <1>4, <2>2
    <3>2. CASE held[s] = EmptySlot /\ \A i \in Events : SlotAt(i) # s
      <4>1. \A i \in Events' : SlotAt(i)' # s
        BY <1>2, <1>6, <2>2, <3>2
      <4>. QED BY <3>1, <3>2, <4>1 DEF SlotIsLatest, EmptySlot
    <3>3. CASE \E i \in Events : /\ SlotAt(i) = s
                                 /\ held[s] = EpochAt(i)
                                 /\ \A j \in Events : j > i => SlotAt(j) # s
      <4>1. PICK i \in Events : /\ SlotAt(i) = s
                                /\ held[s] = EpochAt(i)
                                /\ \A j \in Events : j > i => SlotAt(j) # s
        BY <3>3
      <4>2. \A j \in Events' : j > i => SlotAt(j)' # s
        BY <1>2, <1>6, <2>2, <4>1
      <4>3. i \in Events' /\ SlotAt(i)' = s /\ histogram'[s] = EpochAt(i)'
        BY <1>2, <1>6, <3>1, <4>1
      <4>. QED BY <4>2, <4>3 DEF SlotIsLatest
    <3>. QED BY <3>2, <3>3
  <2>. QED BY <2>1, <2>2
<1>. QED BY <1>5, <1>7

\* eval_beaconing_bucketed keeps the invariant.
LEMMA BeaconStep ==
  ASSUME BeaconInv, NEW t \in Time, BeaconBucketed(t)
  PROVE  BeaconInv'
<1>. DEFINE now  == Epoch(t, Span)
            held == IF histogram = NoHistogram THEN EmptyHistogram ELSE histogram
<1>1. Bucketed /\ Arrive(t, {}, NoVal)
  BY DEF BeaconBucketed, Bucketed
<1>2. PICK n : n = Len(log) + 1
  OBVIOUS
<1>3. /\ kind' = kind /\ Span' = Span /\ Threshold' = Threshold
      /\ log' \in Seq(BeaconEvent) /\ log' # <<>> /\ Now' = t
      /\ Time' = Time
  BY <1>1, <1>2, BeaconLogGrows
<1>4. SomeNewest'
  BY <1>1, NewestKept
<1>5. kind' \in Kinds'
  BY <1>1, <1>3 DEF BeaconInv, Kinds
<1>6. ASSUME ~lost' PROVE Recorded'
  <2>1. /\ ~lost
        /\ histogram' = Bump(held, now)
        /\ fires' = PeriodicEpochs(Active(histogram', now), Threshold)
    BY <1>6 DEF BeaconBucketed, Verdict
  <2>2. /\ held \in [HistSlots -> Int]
        /\ \A s \in HistSlots :
             \/ held[s] = EmptySlot /\ \A i \in Events : SlotAt(i) # s
             \/ \E i \in Events : /\ SlotAt(i) = s
                                  /\ held[s] = EpochAt(i)
                                  /\ \A j \in Events : j > i => SlotAt(j) # s
    <3>1. CASE log = <<>>
      <4>1. held = [s \in HistSlots |-> EmptySlot] /\ Events = {}
        BY <1>1, <3>1 DEF BeaconInv, EmptyHistogram, HistSlots, Events
      <4>2. held \in [HistSlots -> Int]
        BY <4>1 DEF EmptySlot
      <4>3. \A s \in HistSlots : held[s] = EmptySlot
        BY <4>1
      <4>. HIDE DEF held
      <4>. QED BY <4>1, <4>2, <4>3
    <3>2. CASE log # <<>>
      <4>1. Recorded
        BY <1>1, <2>1, <3>2 DEF BeaconInv
      <4>2. 0 \in HistSlots
        BY BeaconAssumption DEF HistSlots, BeaconAssumption
      <4>3. histogram # NoHistogram
        BY <4>1, <4>2 DEF Recorded, NoHistogram
      <4>4. held = histogram
        BY <4>3
      <4>. HIDE DEF held
      <4>. QED BY <4>1, <4>4 DEF Recorded, SlotIsLatest
    <3>. QED BY <3>1, <3>2
  <2>. HIDE DEF held
  <2>3. histogram' \in [HistSlots -> Int] /\ \A s \in HistSlots : SlotIsLatest(s)'
    BY <1>1, <2>1, <2>2, BumpRecords
  <2>4. fires' = PeriodicEpochs(Active(histogram', Epoch(Now', Span')), Threshold')
    BY <1>3, <2>1
  <2>. QED BY <2>3, <2>4 DEF Recorded, HistSlots
<1>. QED BY <1>3, <1>4, <1>5, <1>6 DEF BeaconInv, BeaconEvent

\* Every other action is of another kind of correlation, and the kind stays.
LEMMA OtherKinds ==
  ASSUME BeaconInv, NEW t \in Time,
         \/ CountEvent(t) \/ BeaconRaw(t)
         \/ \E v \in Vals \cup {NoVal} : AddValue(t, v) \/ CountValue(t, v)
         \/ \E hits \in Hits : SeeBases(t, hits) \/ OrderDirectly(t, hits)
                               \/ OrderLate(t, hits) \/ OrderHeld(t, hits)
         \/ \E c \in Counts : MergeEvents(t, c) \/ \E v \in Vals : MergeValues(t, v, c)
         \/ \E hits \in Hits : MergeBases(t, hits)
  PROVE  BeaconInv'
<1>1. kind' = kind /\ kind # "beaconing_bucketed"
  <2>1. CASE CountEvent(t)
    BY <2>1 DEF CountEvent, Arrive, Reach, rule
  <2>2. CASE BeaconRaw(t)
    BY <2>2 DEF BeaconRaw, Arrive, Reach, rule
  <2>3. CASE \E v \in Vals \cup {NoVal} : AddValue(t, v)
    BY <2>3 DEF AddValue, Arrive, Reach, rule
  <2>4. CASE \E v \in Vals \cup {NoVal} : CountValue(t, v)
    BY <2>4 DEF CountValue, Arrive, Reach, rule
  <2>5. CASE \E hits \in Hits : SeeBases(t, hits)
    BY <2>5 DEF SeeBases, Arrive, Reach, rule
  <2>6. CASE \E hits \in Hits : OrderDirectly(t, hits)
    BY <2>6 DEF OrderDirectly, Arrive, Reach, rule
  <2>7. CASE \E hits \in Hits : OrderLate(t, hits)
    BY <2>7 DEF OrderLate, Arrive, Reach, rule
  <2>8. CASE \E hits \in Hits : OrderHeld(t, hits)
    BY <2>8 DEF OrderHeld, Arrive, Reach, rule
  <2>9. CASE \E c \in Counts : MergeEvents(t, c)
    BY <2>9 DEF MergeEvents, Reach, rule
  <2>10. CASE \E c \in Counts, v \in Vals : MergeValues(t, v, c)
    BY <2>10 DEF MergeValues, Reach, rule
  <2>11. CASE \E hits \in Hits : MergeBases(t, hits)
    BY <2>11 DEF MergeBases, Reach, rule
  <2>. QED BY <2>1, <2>2, <2>3, <2>4, <2>5, <2>6, <2>7, <2>8, <2>9, <2>10, <2>11
<1>. QED BY <1>1 DEF BeaconInv, Bucketed

LEMMA BeaconInductive == BeaconInv /\ [Next]_vars => BeaconInv'
<1>. SUFFICES ASSUME BeaconInv, [Next]_vars PROVE BeaconInv'
  OBVIOUS
<1>1. CASE Next
  <2>1. PICK t \in Time :
          \/ CountEvent(t) \/ BeaconRaw(t) \/ BeaconBucketed(t)
          \/ \E v \in Vals \cup {NoVal} : AddValue(t, v) \/ CountValue(t, v)
          \/ \E hits \in Hits : SeeBases(t, hits) \/ OrderDirectly(t, hits)
                                \/ OrderLate(t, hits) \/ OrderHeld(t, hits)
          \/ \E c \in Counts : MergeEvents(t, c) \/ \E v \in Vals : MergeValues(t, v, c)
          \/ \E hits \in Hits : MergeBases(t, hits)
    BY <1>1 DEF Next
  <2>. QED BY <2>1, BeaconStep, OtherKinds
<1>2. CASE UNCHANGED vars
  BY <1>2 DEF vars, rule, windows, BeaconInv, Bucketed, Kinds, BeaconEvent, Time,
              SomeNewest, EpochAt, SlotAt, Span, Events, Recorded, SlotIsLatest,
              Now, Threshold
<1>. QED BY <1>1, <1>2

\* The invariant of bucketed beaconing: the histogram is the log's latest epochs.
THEOREM HistogramInvariant == Spec => []BeaconInv
<1>1. Init => BeaconInv
  <2>. SUFFICES ASSUME Init PROVE BeaconInv
    OBVIOUS
  <2>1. kind \in Kinds /\ log = <<>> /\ histogram = NoHistogram
    BY DEF Init
  <2>2. <<>> \in Seq(BeaconEvent)
    OBVIOUS
  <2>. QED BY <2>1, <2>2 DEF BeaconInv
<1>. QED BY <1>1, BeaconInductive, PTL DEF Spec

-----------------------------------------------------------------------------
\* The window's epochs, read off the histogram.
LEMMA ActiveAreEpochs ==
  ASSUME BeaconInv, Bucketed, log # <<>>, ~lost, WithinHorizon,
         NEW now, now = Epoch(Now, Span), now = Max(Epochs)
  PROVE  Active(histogram, now) = {e \in Epochs : e > now - NBuckets}
<1>1. /\ Recorded /\ SomeNewest /\ log \in Seq(BeaconEvent)
  BY DEF BeaconInv
<1>2. NBuckets \in Nat \ {0}
  BY BeaconAssumption DEF BeaconAssumption
<1>3. \A i \in Events : EpochAt(i) \in Nat /\ SlotAt(i) \in HistSlots
  BY EpochsLogged
<1>4. Epochs = {EpochAt(i) : i \in Events}
  BY DEF Epochs, EpochAt
<1>5. now \in Nat /\ \A i \in Events : EpochAt(i) <= now
  <2>1. PICK m \in Events : \A i \in Events : EpochAt(i) <= EpochAt(m)
    BY <1>1 DEF SomeNewest
  <2>2. \E x \in Epochs : \A y \in Epochs : x >= y
    BY <1>3, <1>4, <2>1
  <2>3. now \in Epochs /\ \A y \in Epochs : now >= y
    BY <2>2 DEF Max
  <2>. QED BY <1>3, <1>4, <2>3
<1>. DEFINE low == Max({0, now - (NBuckets - 1)})
<1>6. low \in Int /\ \A e \in Int : e >= low <=> e >= 0 /\ e > now - NBuckets
  <2>1. now - (NBuckets - 1) \in Int
    BY <1>2, <1>5
  <2>2. low = IF 0 >= now - (NBuckets - 1) THEN 0 ELSE now - (NBuckets - 1)
    BY <2>1, LargerOfTwo
  <2>. HIDE DEF low
  <2>. QED BY <1>2, <1>5, <2>1, <2>2
<1>7. Active(histogram, now) = {e \in low .. now : histogram[e % NBuckets] = e}
  BY DEF Active
<1>. HIDE DEF low
<1>8. \A s \in HistSlots : SlotIsLatest(s)
  BY <1>1 DEF Recorded
<1>9. ASSUME NEW e \in low .. now, histogram[e % NBuckets] = e
      PROVE  e \in Epochs /\ e > now - NBuckets
  <2>1. e \in Nat /\ e > now - NBuckets
    BY <1>5, <1>6
  <2>2. e % NBuckets \in HistSlots
    BY <1>2, <2>1 DEF HistSlots
  <2>3. PICK i \in Events : histogram[e % NBuckets] = EpochAt(i)
    BY <1>8, <1>9, <2>1, <2>2 DEF SlotIsLatest, EmptySlot
  <2>. QED BY <1>4, <1>9, <2>1, <2>3
<1>10. ASSUME NEW e \in Epochs, e > now - NBuckets
       PROVE  e \in low .. now /\ histogram[e % NBuckets] = e
  <2>1. PICK j \in Events : e = EpochAt(j)
    BY <1>4
  <2>2. e \in Nat /\ e <= now /\ SlotAt(j) = e % NBuckets /\ SlotAt(j) \in HistSlots
    BY <1>3, <1>5, <2>1 DEF SlotAt
  <2>3. PICK i \in Events : /\ SlotAt(i) = SlotAt(j)
                            /\ histogram[SlotAt(j)] = EpochAt(i)
                            /\ \A k \in Events : k > i => SlotAt(k) # SlotAt(j)
    BY <1>8, <2>2 DEF SlotIsLatest
  <2>4. /\ EpochAt(i) \in Nat /\ EpochAt(i) <= now
        /\ EpochAt(i) % NBuckets = e % NBuckets
    BY <1>3, <1>5, <2>2, <2>3 DEF SlotAt
  <2>5. ~(EpochAt(i) > e)
    <3>1. SUFFICES ASSUME e < EpochAt(i) PROVE FALSE
      BY <2>2, <2>4
    <3>2. e + NBuckets <= EpochAt(i)
      BY <1>2, <2>2, <2>4, <3>1, SameSlot
    <3>. QED BY <1>2, <1>5, <1>10, <2>2, <2>4, <3>2
  <2>6. ~(EpochAt(i) < e)
    <3>1. SUFFICES ASSUME EpochAt(i) < e PROVE FALSE
      OBVIOUS
    <3>2. EpochAt(i) + NBuckets <= e
      BY <1>2, <2>2, <2>4, <3>1, SameSlot
    <3>3. i \in Nat /\ j \in Nat
      BY <1>1 DEF Events
    <3>4. j < i
      BY <2>1, <2>2, <2>3, <2>4, <3>1, <3>3
    <3>5. EpochAt(i) > EpochAt(j) - NBuckets
      BY <3>4 DEF WithinHorizon, EpochAt
    <3>. QED BY <1>2, <2>1, <2>2, <2>4, <3>2, <3>5
  <2>7. EpochAt(i) = e
    BY <2>2, <2>4, <2>5, <2>6
  <2>8. e \in low .. now
    BY <1>5, <1>6, <1>10, <2>2
  <2>. QED BY <2>2, <2>3, <2>7, <2>8
<1>. QED BY <1>7, <1>9, <1>10

\* eval_beaconing_bucketed: at every event that is not late, whatever came late
\* before, the verdict is on exactly the buckets of the window with an event.
THEOREM HistogramIsExact == Spec => []HistogramExact
<1>1. BeaconInv => HistogramExact
  <2>. SUFFICES ASSUME BeaconInv, Bucketed, ~lost, log # <<>>, WithinHorizon,
                       Epoch(Now, Span) = Max(Epochs)
                PROVE  fires <=> PeriodicEpochs(
                         {e \in Epochs : e > Epoch(Now, Span) - NBuckets}, Threshold)
    BY DEF HistogramExact, Bucketed
  <2>1. fires = PeriodicEpochs(Active(histogram, Epoch(Now, Span)), Threshold)
    BY DEF BeaconInv, Recorded
  <2>2. Active(histogram, Epoch(Now, Span)) =
          {e \in Epochs : e > Epoch(Now, Span) - NBuckets}
    BY ActiveAreEpochs
  <2>. QED BY <2>1, <2>2
<1>. QED BY <1>1, HistogramInvariant, PTL
-----------------------------------------------------------------------------
\* Raw beaconing.

\* The ring holds the timestamps of the last events of l ...
Suffix(r, l) ==
  /\ r \in AnyRing
  /\ r.len <= Len(l)
  /\ \A k \in 0 .. r.len - 1 : TsAt(r, k) = l[Len(l) - r.len + 1 + k].t

\* ... none of them older than start, and the events before them have left the window
\* or make place for MaxEvents newer ones.
Covers(r, l, start) ==
  /\ \A k \in 0 .. r.len - 1 : TsAt(r, k) >= start
  /\ \A i \in 1 .. Len(l) - r.len : l[i].t < start \/ i <= Len(l) - MaxEvents

RawInv ==
  kind = "beaconing" =>
    /\ Suffix(ring, log)
    /\ log # <<>> => fires = PeriodicTimes(Times(ring), Threshold)
    /\ log # <<>> /\ InOrder => Covers(ring, log, Now - Span)
    /\ log = <<>> => ring.len = 0

LEMMA StoreSuffix ==
  ASSUME NEW l \in Seq(Entry), NEW e \in Entry, NEW r, Suffix(r, l)
  PROVE  /\ Suffix(Store(r, e.t, 0), Append(l, e))
         /\ Store(r, e.t, 0).len \in {r.len, r.len + 1}
         /\ Store(r, e.t, 0).len = r.len => r.len = MaxEvents
<1>1. PICK s : s = Store(r, e.t, 0)
  OBVIOUS
<1>2. PICK d : d = IF IsFull(r) THEN 1 ELSE 0
  OBVIOUS
<1>3. PICK g : g = Append(l, e)
  OBVIOUS
<1>4. e.t \in Int /\ r \in AnyRing
  BY DEF Entry, Time, Suffix
<1>5. /\ s \in AnyRing
      /\ s.len = r.len + 1 - d
      /\ \A j \in 0 .. s.len - 2 : TsAt(s, j) = TsAt(r, j + d)
      /\ TsAt(s, s.len - 1) = e.t
  BY <1>1, <1>2, <1>4, StoreRing
<1>6. /\ r.len \in 0 .. MaxEvents /\ d \in {0, 1} /\ r.len <= Len(l)
      /\ d = 1 => r.len = MaxEvents
      /\ d = 1 => r.len > 0
  BY <1>2, <1>4, MaxEventsAssumption DEF AnyRing, RingOf, IsFull, Suffix
<1>7. /\ Len(l) \in Nat /\ Len(g) = Len(l) + 1
      /\ \A i \in 1 .. Len(l) : g[i] = l[i]
      /\ g[Len(l) + 1] = e
  BY <1>3, LogGrows
<1>8. ASSUME NEW k \in 0 .. s.len - 1 PROVE TsAt(s, k) = g[Len(g) - s.len + 1 + k].t
  <2>1. CASE k = s.len - 1
    <3>1. Len(g) - s.len + 1 + k = Len(l) + 1
      BY <1>5, <1>6, <1>7, <2>1
    <3>2. QED
      BY <1>5, <1>7, <2>1, <3>1
  <2>2. CASE k # s.len - 1
    <3>1. k \in 0 .. s.len - 2 /\ k + d \in 0 .. r.len - 1
      BY <1>5, <1>6, <2>2
    <3>2. TsAt(s, k) = l[Len(l) - r.len + 1 + (k + d)].t
      BY <1>5, <3>1 DEF Suffix
    <3>3. Len(l) - r.len + 1 + (k + d) = Len(g) - s.len + 1 + k
      <4>1. PICK a \in Nat, b \in Nat : a = Len(l) /\ b = r.len
        BY <1>6, <1>7
      <4>2. Len(g) = a + 1 /\ s.len = b + 1 - d /\ k \in Nat /\ d \in Nat
        BY <1>5, <1>6, <1>7, <3>1, <4>1
      <4>5. \A x, y, j, m \in Nat :
              x - y + 1 + (j + m) = (x + 1) - (y + 1 - m) + 1 + j
        OBVIOUS
      <4>6. a \in Nat /\ b \in Nat /\ k \in Nat /\ d \in Nat
        BY <4>2
      <4>3. a - b + 1 + (k + d) = (a + 1) - (b + 1 - d) + 1 + k
        BY <4>5, <4>6
      <4>4. QED
        BY <4>1, <4>2, <4>3
    <3>5. Len(l) - r.len + 1 + (k + d) \in 1 .. Len(l)
      BY <1>6, <1>7, <3>1
    <3>4. QED
      BY <1>7, <3>2, <3>3, <3>5
  <2>3. QED
    BY <2>1, <2>2
<1>9. s.len <= Len(g)
  BY <1>5, <1>6, <1>7
<1>10. Suffix(s, g)
  BY <1>5, <1>8, <1>9 DEF Suffix
<1>11. s.len \in {r.len, r.len + 1} /\ (s.len = r.len => r.len = MaxEvents)
  BY <1>5, <1>6
<1>12. QED
  BY <1>1, <1>3, <1>10, <1>11

LEMMA PruneSuffix ==
  ASSUME NEW l \in Seq(Entry), NEW s, Suffix(s, l), NEW w \in Int
  PROVE  Suffix(Prune(s, w), l)
<1>1. PICK p : p = Prune(s, w)
  OBVIOUS
<1>2. PICK c : c = PruneCount(s, w)
  OBVIOUS
<1>9. s \in AnyRing /\ s.len <= Len(l)
  BY DEF Suffix
<1>10. c \in 0 .. s.len
  BY <1>2, <1>9, PruneCountValue
<1>11. s.len \in Nat
  BY <1>9, MaxEventsAssumption DEF AnyRing, RingOf
<1>3. s \in AnyRing /\ s.len <= Len(l) /\ s.len \in Nat /\ c \in 0 .. s.len
  BY <1>9, <1>10, <1>11
<1>4. /\ p \in AnyRing /\ p.len = s.len - c
      /\ \A j \in 0 .. p.len - 1 : TsAt(p, j) = TsAt(s, c + j)
  BY <1>1, <1>2, <1>3, PruneRing
<1>5. Len(l) \in Nat
  OBVIOUS
<1>6. ASSUME NEW k \in 0 .. p.len - 1 PROVE TsAt(p, k) = l[Len(l) - p.len + 1 + k].t
  <2>1. c + k \in 0 .. s.len - 1 /\ Len(l) - s.len + 1 + (c + k) = Len(l) - p.len + 1 + k
    BY <1>3, <1>4, <1>5
  <2>2. QED
    BY <1>4, <2>1 DEF Suffix
<1>7. p.len <= Len(l)
  BY <1>3, <1>4, <1>5
<1>8. QED
  BY <1>1, <1>4, <1>6, <1>7 DEF Suffix

\* Pushing an event onto the ring that covers a log in time order, as the window of
\* the event begins no earlier than the one before.
LEMMA PushCovers ==
  ASSUME NEW l \in Seq(Entry), NEW e \in Entry, NEW r, Suffix(r, l),
         NEW w \in Int, NEW before \in Int, Covers(r, l, before), before <= w,
         Ascending(Append(l, e)), w <= e.t
  PROVE  Covers(Push(r, w, e.t, 0), Append(l, e), w)
<1>1. PICK s, p : s = Store(r, e.t, 0) /\ p = Prune(s, w)
  OBVIOUS
<1>2. PICK g : g = Append(l, e)
  OBVIOUS
<1>3. PICK c : c = PruneCount(s, w)
  OBVIOUS
<1>4. /\ Len(l) \in Nat /\ Len(g) = Len(l) + 1
      /\ \A i \in 1 .. Len(l) : g[i] = l[i]
  BY <1>2, LogGrows
<1>5. g \in Seq(Entry)
  BY <1>2, LogGrows
<1>6. /\ DOMAIN g = 1 .. Len(g)
      /\ \A i \in DOMAIN g : g[i].t \in Nat
  BY <1>5, LogTimes
<1>7. /\ Suffix(s, g) /\ s.len \in {r.len, r.len + 1}
      /\ s.len = r.len => r.len = MaxEvents
  BY <1>1, <1>2, StoreSuffix
<1>8. Suffix(p, g)
  BY <1>1, <1>5, <1>7, PruneSuffix
<1>9. /\ c \in 0 .. s.len
      /\ \A j \in 0 .. c - 1 : TsAt(s, j) < w
      /\ c < s.len => TsAt(s, c) >= w
  BY <1>3, <1>7, PruneCountValue DEF Suffix
<1>10. /\ p.len = s.len - c
       /\ \A j \in 0 .. p.len - 1 : TsAt(p, j) = TsAt(s, c + j)
  BY <1>1, <1>3, <1>7, PruneRing DEF Suffix
<1>11. /\ s.len \in Nat /\ s.len <= Len(g) /\ r.len \in Nat /\ r.len <= Len(l)
       /\ p.len <= Len(g) /\ p.len \in Nat
  BY <1>7, <1>8, MaxEventsAssumption DEF Suffix, AnyRing, RingOf
<1>12. ASSUME NEW k \in 0 .. p.len - 1 PROVE TsAt(p, k) >= w
  <2>1. TsAt(p, 0) >= w
    BY <1>9, <1>10, <1>11
  <2>2. /\ TsAt(p, 0) = g[Len(g) - p.len + 1].t
        /\ TsAt(p, k) = g[Len(g) - p.len + 1 + k].t
    <3>1. 0 \in 0 .. p.len - 1 /\ Len(g) - p.len + 1 + 0 = Len(g) - p.len + 1
      BY <1>4, <1>11
    <3>2. QED
      BY <1>8, <3>1 DEF Suffix
  <2>3. PICK a, b : a = Len(g) - p.len + 1 /\ b = Len(g) - p.len + 1 + k
    OBVIOUS
  <2>4. a \in DOMAIN g /\ b \in DOMAIN g /\ a <= b
    <3>1. PICK m \in Nat, n \in Nat : m = Len(g) /\ n = p.len
      BY <1>4, <1>11
    <3>2. k \in 0 .. n - 1 /\ n <= m /\ a = m - n + 1 /\ b = m - n + 1 + k
      BY <1>11, <2>3, <3>1
    <3>3. a \in 1 .. m /\ b \in 1 .. m /\ a <= b
      BY <3>2
    <3>4. QED
      BY <1>6, <3>1, <3>3
  <2>5. g[a].t <= g[b].t
    BY <1>2, <1>6, <2>4 DEF Ascending
  <2>6. QED
    BY <1>6, <2>1, <2>2, <2>3, <2>4, <2>5
<1>13. ASSUME NEW i \in 1 .. Len(g) - p.len
       PROVE  g[i].t < w \/ i <= Len(g) - MaxEvents
  <2>1. CASE i <= Len(l) - r.len
    <3>1. i \in 1 .. Len(l) - r.len /\ i \in 1 .. Len(l) /\ i \in DOMAIN g
      BY <1>4, <1>6, <1>11, <2>1
    <3>2. g[i] = l[i] /\ (l[i].t < before \/ i <= Len(l) - MaxEvents)
      BY <1>4, <3>1 DEF Covers
    <3>3. g[i].t \in Nat
      BY <1>6, <3>1
    <3>4. QED
      BY <1>4, <3>2, <3>3, MaxEventsAssumption
  <2>2. CASE i > Len(l) - r.len /\ i <= Len(g) - s.len
    <3>1. s.len = r.len /\ r.len = MaxEvents
      BY <1>4, <1>7, <1>11, <2>2
    <3>2. QED
      BY <2>2, <3>1
  <2>3. CASE i > Len(g) - s.len
    <3>1. PICK j : j = i - (Len(g) - s.len + 1)
      OBVIOUS
    <3>2. j \in 0 .. c - 1 /\ j \in 0 .. s.len - 1 /\ Len(g) - s.len + 1 + j = i
      <4>1. PICK m \in Nat, n \in Nat : m = Len(g) /\ n = s.len
        BY <1>4, <1>11
      <4>2. /\ i \in 1 .. m - (n - c) /\ i > m - n /\ c \in 0 .. n
            /\ n <= m /\ j = i - (m - n + 1)
        BY <1>9, <1>10, <1>11, <2>3, <3>1, <4>1
      <4>3. j \in 0 .. c - 1 /\ j \in 0 .. n - 1 /\ m - n + 1 + j = i
        BY <4>2
      <4>4. QED
        BY <4>1, <4>3
    <3>3. TsAt(s, j) < w /\ TsAt(s, j) = g[i].t
      BY <1>7, <1>9, <3>2 DEF Suffix
    <3>4. QED
      BY <3>3
  <2>4. QED
    BY <1>4, <1>11, <2>1, <2>2, <2>3
<1>14. Covers(p, g, w)
  BY <1>12, <1>13 DEF Covers
<1>15. QED
  BY <1>1, <1>2, <1>14 DEF Push

LEMMA RawSteps ==
  ASSUME kind = "beaconing", [Next]_vars
  PROVE  \/ UNCHANGED <<kind, ring, fires, log>>
         \/ \E t \in Time : BeaconRaw(t)
<1>1. CASE UNCHANGED vars
  BY <1>1 DEF vars, rule, windows
<1>2. CASE Next
  BY <1>2 DEF Next, CountEvent, BeaconBucketed, AddValue, CountValue, SeeBases,
              OrderDirectly, OrderLate, OrderHeld, MergeEvents, MergeValues, MergeBases
<1>3. QED
  BY <1>1, <1>2

LEMMA RawInit == Init => RawInv
<1> SUFFICES ASSUME Init PROVE RawInv
  OBVIOUS
<1>1. ring = EmptyRing /\ log = <<>>
  BY DEF Init
<1>2. EmptyRing \in AnyRing /\ EmptyRing.len = 0
  BY MaxEventsAssumption DEF EmptyRing, AnyRing, RingOf, Slots
<1>3. Suffix(ring, log)
  BY <1>1, <1>2 DEF Suffix
<1>4. QED
  BY <1>1, <1>2, <1>3 DEF RawInv

LEMMA RawStep ==
  ASSUME Types, RawInv, [Next]_vars
  PROVE  RawInv'
<1>1. kind' = kind /\ Span' = Span /\ Threshold' = Threshold
  BY RuleKept DEF Span, Threshold
<1>2. CASE kind # "beaconing"
  BY <1>1, <1>2 DEF RawInv
<1>3. CASE kind = "beaconing" /\ UNCHANGED <<kind, ring, fires, log>>
  BY <1>1, <1>3 DEF RawInv, Suffix, Covers, InOrder, Events, Now
<1>4. ASSUME kind = "beaconing", NEW t \in Time, BeaconRaw(t) PROVE RawInv'
  <2>1. PICK e : e = [t |-> t, hits |-> {}, v |-> NoVal, n |-> 1, remote |-> FALSE]
    OBVIOUS
  <2>2. e \in Entry /\ e.t = t
    BY <2>1 DEF Entry
  <2>3. /\ log' = Append(log, e)
        /\ ring' = Push(ring, t - Span, t, 0)
        /\ fires' = PeriodicTimes(Times(ring'), Threshold)
    BY <1>4, <2>1 DEF BeaconRaw, Arrive, Reach, Verdict
  <2>4. log \in Seq(Entry) /\ Span \in Nat /\ t \in Nat
    BY <1>4, GroupAssumption DEF Types, Span, Time
  <2>5. PICK w : w = t - Span
    OBVIOUS
  <2>6. w \in Int /\ w <= t
    BY <2>4, <2>5
  <2>7. Suffix(ring, log)
    BY <1>4 DEF RawInv
  <2>8. PICK g : g = log'
    OBVIOUS
  <2>9. /\ g \in Seq(Entry) /\ g # <<>> /\ Len(g) = Len(log) + 1
        /\ Len(log) \in Nat /\ g[Len(g)] = e
    BY <2>2, <2>3, <2>4, <2>8, LogGrows
  <2>10. Suffix(ring', g)
    <3>1. Suffix(Store(ring, e.t, 0), g)
      BY <2>2, <2>3, <2>4, <2>7, <2>8, StoreSuffix
    <3>2. Suffix(Prune(Store(ring, e.t, 0), w), g)
      BY <2>6, <2>9, <3>1, PruneSuffix
    <3>3. QED
      BY <2>2, <2>3, <2>5, <3>2 DEF Push
  <2>11. ASSUME Ascending(g) PROVE Covers(ring', g, w)
    <3>1. Ascending(log)
      BY <2>2, <2>3, <2>4, <2>8, <2>11, AscendingBefore
    <3>2. \E before \in Int : before <= w /\ Covers(ring, log, before)
      <4>1. CASE log = <<>>
        <5>1. ring.len = 0 /\ Len(log) = 0
          BY <1>4, <4>1 DEF RawInv
        <5>2. Covers(ring, log, w)
          BY <5>1 DEF Covers
        <5>3. QED
          BY <2>6, <5>2
      <4>2. CASE log # <<>>
        <5>1. Len(log) \in 1 .. Len(log) /\ log[Len(log)] = g[Len(log)]
          BY <2>2, <2>3, <2>4, <2>8, <4>2, LogGrows
        <5>2. /\ Len(log) \in DOMAIN g /\ Len(g) \in DOMAIN g /\ Len(log) < Len(g)
              /\ g[Len(log)].t \in Nat
          BY <2>9, <5>1, LogTimes
        <5>3. log[Len(log)].t <= t
          BY <2>2, <2>9, <2>11, <5>1, <5>2 DEF Ascending
        <5>4. Now \in Nat /\ Now - Span \in Int /\ Now - Span <= w
          BY <2>4, <2>5, <5>1, <5>2, <5>3 DEF Now
        <5>5. Covers(ring, log, Now - Span)
          BY <1>4, <3>1, <4>2 DEF RawInv, InOrder, Events, Ascending
        <5>6. QED
          BY <5>4, <5>5
      <4>3. QED
        BY <4>1, <4>2
    <3>3. PICK before \in Int : before <= w /\ Covers(ring, log, before)
      BY <3>2
    <3>4. Covers(Push(ring, w, e.t, 0), Append(log, e), w)
      BY <2>2, <2>3, <2>4, <2>6, <2>7, <2>8, <2>11, <3>3, PushCovers
    <3>5. QED
      BY <2>2, <2>3, <2>5, <2>8, <3>4
  <2>12. InOrder' <=> Ascending(g)
    BY <2>8 DEF InOrder, Events, Ascending
  <2>13. (Now - Span)' = w
    BY <1>1, <2>2, <2>5, <2>8, <2>9 DEF Now
  <2>14. QED
    BY <1>1, <2>3, <2>8, <2>9, <2>10, <2>11, <2>12, <2>13 DEF RawInv
<1>5. QED
  BY <1>2, <1>3, <1>4, RawSteps

LEMMA RawHolds == Spec => []RawInv
<1>1. Types /\ RawInv /\ [Next]_vars => RawInv'
  BY RawStep
<1>2. Invariants => Types
  BY DEF Invariants
<1>3. QED
  BY <1>1, <1>2, RawInit, InvariantsHold, PTL DEF Spec

\* eval_beaconing_raw: whatever the ring overwrote and pruned, the gaps it decides on
\* are those between the events of the window, or the last MaxEvents of them, for
\* events in order.
THEOREM GapsAreExact == Spec => []GapsExact
<1>1. Types /\ RawInv => GapsExact
  <2> SUFFICES ASSUME Types, RawInv, kind = "beaconing", InOrder, log # <<>>
               PROVE  fires <=> PeriodicTimes([k \in 1 .. Cardinality(Recent) |->
                                  log[Len(log) - Cardinality(Recent) + k].t], Threshold)
    BY DEF GapsExact
  <2>1. PICK n, w : n = ring.len /\ w = Now - Span
    OBVIOUS
  <2>2. /\ Suffix(ring, log) /\ Covers(ring, log, w)
        /\ fires = PeriodicTimes(Times(ring), Threshold)
    BY <2>1 DEF RawInv
  <2>3. PICK m : m = Len(log)
    OBVIOUS
  <2>4. /\ m \in Nat /\ DOMAIN log = 1 .. m
        /\ \A i \in 1 .. m : log[i].t \in Nat
    BY <2>3, LogTimes DEF Types
  <2>5. n \in 0 .. MaxEvents /\ n <= m
    BY <2>1, <2>2, <2>3 DEF Suffix, AnyRing, RingOf
  <2>6. \A k \in 0 .. n - 1 : TsAt(ring, k) = log[m - n + 1 + k].t
    BY <2>1, <2>2, <2>3 DEF Suffix
  <2>7. w \in Int
    <3>1. m \in 1 .. m
      BY <2>3, <2>4
    <3>2. Now \in Nat
      BY <2>3, <2>4, <3>1 DEF Now
    <3>3. Span \in Nat
      BY GroupAssumption DEF Types, Span
    <3>4. QED
      BY <2>1, <3>2, <3>3
  <2>8. Recent = m - n + 1 .. m
    <3>1. ASSUME NEW i \in 1 .. m, i > m - n PROVE i \in Recent
      <4>1. PICK k : k = i - (m - n + 1)
        OBVIOUS
      <4>2. k \in 0 .. n - 1 /\ m - n + 1 + k = i /\ i > m - MaxEvents
        BY <2>4, <2>5, <3>1, <4>1, MaxEventsAssumption
      <4>3. log[i].t >= w
        BY <2>1, <2>2, <2>6, <4>2 DEF Covers
      <4>4. QED
        BY <2>1, <2>3, <2>4, <4>2, <4>3 DEF Recent, Events, InWindow
    <3>2. ASSUME NEW i \in 1 .. m, i <= m - n PROVE i \notin Recent
      <4>1. i \in 1 .. m - n
        BY <2>4, <2>5, <3>2
      <4>2. log[i].t < w \/ i <= m - MaxEvents
        BY <2>1, <2>2, <2>3, <4>1 DEF Covers
      <4>3. log[i].t \in Nat
        BY <2>4
      <4>4. QED
        BY <2>1, <2>3, <2>4, <2>7, <4>2, <4>3, MaxEventsAssumption
           DEF Recent, Events, InWindow
    <3>3. Recent \subseteq 1 .. m
      BY <2>4 DEF Recent, Events
    <3>4. ASSUME NEW i PROVE i \in Recent <=> i \in m - n + 1 .. m
      <4>1. i \in m - n + 1 .. m <=> i \in 1 .. m /\ i > m - n
        BY <2>4, <2>5
      <4>2. i \in 1 .. m => (i > m - n \/ i <= m - n)
        BY <2>4, <2>5
      <4>3. QED
        BY <3>1, <3>2, <3>3, <4>1, <4>2
    <3>5. QED
      BY <3>4
  <2>9. Cardinality(Recent) = n
    <3>1. Cardinality(m - n + 1 .. m) = IF m - n + 1 > m THEN 0 ELSE m - (m - n + 1) + 1
      BY <2>4, <2>5, FS_Interval
    <3>2. QED
      BY <2>4, <2>5, <2>8, <3>1
  <2>10. Times(ring) = [k \in 1 .. n |-> log[m - n + k].t]
    <3>1. ASSUME NEW k \in 1 .. n PROVE TsAt(ring, k - 1) = log[m - n + k].t
      <4>1. k - 1 \in 0 .. n - 1 /\ m - n + 1 + (k - 1) = m - n + k
        BY <2>4, <2>5
      <4>2. QED
        BY <2>6, <4>1
    <3>2. QED
      BY <2>1, <3>1 DEF Times
  <2>11. QED
    BY <2>2, <2>3, <2>9, <2>10
<1>2. Invariants => Types
  BY DEF Invariants
<1>3. QED
  BY <1>1, <1>2, InvariantsHold, RawHolds, PTL
=============================================================================
