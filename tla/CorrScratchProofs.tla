------------------------- MODULE CorrScratchProofs --------------------------
(***************************************************************************)
(* The percentile, proved for any number of workers and correlations: the  *)
(* types, and the value of every evaluation during which no other          *)
(* correlation was evaluated.  With one correlation that is every          *)
(* evaluation; with two the run on the shared scratch shows the value      *)
(* overwritten.                                                            *)
(***************************************************************************)
EXTENDS CorrScratch, FiniteSetTheorems, TLAPS

-----------------------------------------------------------------------------
\* The nearest rank of a sorted copy.

LEMMA RankValue ==
  ASSUME NEW p \in 1 .. 100, NEW n \in Nat \ {0}
  PROVE  /\ NearestRank(p, n) \in 1 .. n
         /\ 100 * NearestRank(p, n) >= p * n
         /\ 100 * (NearestRank(p, n) - 1) < p * n
<1>1. PICK m \in Int : m = p * n
  OBVIOUS
<1>2. 1 <= m /\ m <= 100 * n
  <2>1. p * n >= 1 * n /\ p * n <= 100 * n
    OBVIOUS
  <2>2. QED
    BY <1>1, <2>1
<1>3. PICK q \in Int : q = (m + 99) \div 100
  BY <1>1
<1>4. 100 * q >= m /\ 100 * (q - 1) < m
  BY <1>1, <1>3
<1>5. q \in 1 .. n
  BY <1>2, <1>3, <1>4
<1>6. Max({q, 1}) = q
  BY <1>5 DEF Max
<1>7. Min({q, n}) = q
  BY <1>5 DEF Min
<1>8. NearestRank(p, n) = q
  BY <1>1, <1>3, <1>6, <1>7 DEF NearestRank
<1>9. QED
  BY <1>1, <1>4, <1>5, <1>8

\* A sorted copy has as many values up to y as the original.
LEMMA SortCounts ==
  ASSUME NEW n \in Nat, NEW s, DOMAIN s = 1 .. n, NEW t, DOMAIN t = 1 .. n,
         Sorts(t, s), NEW y
  PROVE  AtMost(t, y) = AtMost(s, y)
<1> DEFINE A == {i \in 1 .. n : t[i] <= y}
           B == {i \in 1 .. n : s[i] <= y}
<1>1. PICK p \in Bijection(1 .. n, 1 .. n) : \A i \in 1 .. n : t[i] = s[p[i]]
  BY DEF Sorts
<1> DEFINE f == [i \in A |-> p[i]]
<1>2. p \in [1 .. n -> 1 .. n]
      /\ (\A i, j \in 1 .. n : p[i] = p[j] => i = j)
      /\ (\A j \in 1 .. n : \E i \in 1 .. n : p[i] = j)
  BY DEF Bijection, Injection, Surjection, IsInjective
<1>3. f \in [A -> B]
  BY <1>1, <1>2
<1>4. \A j \in B : \E i \in A : f[i] = j
  BY <1>1, <1>2
<1>5. f \in Bijection(A, B)
  BY <1>2, <1>3, <1>4 DEF Bijection, Injection, Surjection, IsInjective
<1>6. IsFiniteSet(A)
  <2>1. IsFiniteSet(1 .. n)
    BY FS_Interval
  <2>2. QED
    BY <2>1, FS_Subset
<1>7. Cardinality(A) = Cardinality(B)
  <2> HIDE DEF A, B, f
  <2> QED
    BY <1>5, <1>6, FS_Bijection DEF ExistsBijection
<1>8. QED
  BY <1>7 DEF AtMost

\* The value at the nearest rank of the sorted copy is the percentile.
LEMMA PercentileOfSorted ==
  ASSUME NEW n \in Nat \ {0}, NEW s \in [1 .. n -> Int], NEW t \in [1 .. n -> Int],
         Len(s) = n, Sorts(t, s), NEW p \in 1 .. 100
  PROVE  IsPercentile(t[NearestRank(p, n)], p, s)
<1>1. PICK r \in 1 .. n : /\ r = NearestRank(p, n)
                          /\ 100 * r >= p * n
                          /\ 100 * (r - 1) < p * n
  BY RankValue
<1>2. \A i, j \in 1 .. n : i <= j => t[i] <= t[j]
  BY DEF Sorts
<1>3. ASSUME NEW y \in Int PROVE IsFiniteSet({i \in 1 .. n : t[i] <= y})
  <2>1. IsFiniteSet(1 .. n)
    BY FS_Interval
  <2>2. QED
    BY <2>1, FS_Subset
<1>4. AtMost(s, t[r]) \in Int /\ AtMost(s, t[r]) >= r
  <2> DEFINE A == {i \in 1 .. n : t[i] <= t[r]}
  <2>1. 1 .. r \in SUBSET A
    BY <1>2
  <2>2. Cardinality(1 .. r) = r
    BY FS_Interval
  <2>3. Cardinality(A) >= r /\ Cardinality(A) \in Nat
    <3>1. t[r] \in Int /\ IsFiniteSet(A)
      BY <1>3
    <3>2. QED
      <4> HIDE DEF A
      <4> QED
        BY <2>1, <2>2, <3>1, FS_Subset, FS_CardinalityType
  <2>4. AtMost(t, t[r]) = AtMost(s, t[r])
    BY SortCounts
  <2>5. QED
    BY <2>3, <2>4 DEF AtMost
<1>5. ASSUME NEW y \in Int, y < t[r] PROVE AtMost(s, y) \in Int /\ AtMost(s, y) <= r - 1
  <2> DEFINE A == {i \in 1 .. n : t[i] <= y}
  <2>1. A \in SUBSET (1 .. r - 1)
    BY <1>2, <1>5
  <2>2. Cardinality(1 .. r - 1) = r - 1 /\ IsFiniteSet(1 .. r - 1)
    BY FS_Interval
  <2>3. Cardinality(A) <= r - 1 /\ Cardinality(A) \in Nat
    BY <1>3, <1>5, <2>1, <2>2, FS_Subset, FS_CardinalityType
  <2>4. AtMost(t, y) = AtMost(s, y)
    BY SortCounts
  <2>5. QED
    BY <2>3, <2>4 DEF AtMost
<1>6. \E i \in 1 .. n : t[r] = s[i]
  <2>1. PICK q \in Bijection(1 .. n, 1 .. n) : \A i \in 1 .. n : t[i] = s[q[i]]
    BY DEF Sorts
  <2>2. q[r] \in 1 .. n
    BY DEF Bijection, Injection
  <2>3. QED
    BY <2>1, <2>2
<1>7. PICK k \in Int : k = p * n
  OBVIOUS
<1>8. 100 * AtMost(s, t[r]) >= k /\ 100 * (r - 1) < k
  BY <1>1, <1>4, <1>7
<1>9. ASSUME NEW i \in 1 .. n, 100 * AtMost(s, s[i]) >= k PROVE t[r] <= s[i]
  <2>1. SUFFICES ASSUME s[i] < t[r] PROVE FALSE
    OBVIOUS
  <2>2. AtMost(s, s[i]) \in Int /\ AtMost(s, s[i]) <= r - 1
    BY <1>5, <2>1
  <2>3. QED
    BY <1>8, <1>9, <2>2
<1>10. QED
  BY <1>1, <1>6, <1>7, <1>8, <1>9 DEF IsPercentile

-----------------------------------------------------------------------------
\* The types.  A worker that evaluates holds the lock of its correlation, whose
\* window is not empty.
Holds(w) == pc[w] # "idle" => lock[cur[w]] = w /\ Live(w) # <<>>

TypeInv ==
  /\ TypeOK
  /\ \A w \in Workers : Holds(w)
  /\ \A w \in Workers : copied[w] <= Len(Live(w)) \/ pc[w] # "copy"
  /\ \A w \in Workers : pc[w] # "copy" => copied[w] = 0
  /\ \A w \in Workers : pc[w] = "idle" => intruders[w] = {}

LEMMA SuffixTypes ==
  \A s \in Seq(Vals) : Suffixes(s) \subseteq Seq(Vals)
<1> SUFFICES ASSUME NEW s \in Seq(Vals), NEW u \in Suffixes(s)
             PROVE  u \in Seq(Vals)
  OBVIOUS
<1>1. PICK i \in 1 .. Len(s) + 1 : u = SubSeq(s, i, Len(s))
  BY DEF Suffixes
<1>2. QED
  BY <1>1

\* No percentile is out of range: 0 stands for the default.
LEMMA RankType ==
  ASSUME TypeOK, NEW w \in Workers
  PROVE  Rank(cur[w]) \in 1 .. 100
<1>1. PICK p \in Percents : p = percent[cur[w]]
  BY DEF TypeOK
<1>2. p \in 0 .. 100
  BY ScratchAssumption
<1>3. QED
  BY <1>1, <1>2 DEF Rank

\* A writer's correlation is recorded for those who are using the scratch only.
LEMMA IntrudeTypes ==
  ASSUME TypeInv, NEW w \in Workers, Intrude(w)
  PROVE  /\ intruders' \in [Workers -> SUBSET Corrs]
         /\ \A v \in Workers : pc[v] = "idle" => intruders'[v] = {}
  BY DEF Intrude, TypeInv, TypeOK

LEMMA TypeStep ==
  ASSUME TypeInv, [Next]_vars
  PROVE  TypeInv'
<1> USE DEF TypeInv, Holds
<1>1. ASSUME NEW w \in Workers, NEW c \in Corrs, Push(w, c)
      PROVE  TypeInv'
  <2>1. PICK next \in Suffixes(window[c])
                        \cup UNION {Suffixes(Append(window[c], v)) : v \in Vals} :
          /\ Fits(next)
          /\ window' = [window EXCEPT ![c] = next]
          /\ IF next = <<>>
               THEN UNCHANGED <<lock, pc, cur>>
               ELSE /\ lock' = [lock EXCEPT ![c] = w]
                    /\ pc' = [pc EXCEPT ![w] = "copy"]
                    /\ cur' = [cur EXCEPT ![w] = c]
    BY <1>1 DEF Push
  <2>2. pc[w] = "idle" /\ lock[c] = Free /\ UNCHANGED <<percent, scratch, copied, agg, intruders>>
    BY <1>1 DEF Push
  <2>3. next \in Seq(Vals) /\ Len(next) <= MaxEvents
    <3>1. window[c] \in Seq(Vals)
      BY DEF TypeOK
    <3>2. \A v \in Vals : Append(window[c], v) \in Seq(Vals)
      BY <3>1
    <3>3. Suffixes(window[c]) \subseteq Seq(Vals)
      BY <3>1, SuffixTypes
    <3>4. \A v \in Vals : Suffixes(Append(window[c], v)) \subseteq Seq(Vals)
      BY <3>2, SuffixTypes
    <3>5. next \in Seq(Vals)
      BY <2>1, <3>3, <3>4
    <3>6. QED
      BY <2>1, <3>5 DEF Fits
  <2>4. \A v \in Workers : pc[v] # "idle" => v # w /\ cur[v] # c /\ cur[v] \in Corrs
    BY <2>2, ScratchAssumption DEF TypeOK
  <2>5. TypeOK'
    <3>1. /\ window' \in [Corrs -> Seq(Vals)]
          /\ \A d \in Corrs : Len(window'[d]) <= MaxEvents
      BY <2>1, <2>3 DEF TypeOK
    <3>2. /\ lock' \in [Corrs -> Workers \cup {Free}]
          /\ pc' \in [Workers -> {"idle", "copy", "select", "compare"}]
          /\ cur' \in [Workers -> Corrs]
      <4>1. /\ lock' = lock \/ lock' = [lock EXCEPT ![c] = w]
            /\ pc' = pc \/ pc' = [pc EXCEPT ![w] = "copy"]
            /\ cur' = cur \/ cur' = [cur EXCEPT ![w] = c]
        BY <2>1
      <4>2. /\ lock \in [Corrs -> Workers \cup {Free}]
            /\ pc \in [Workers -> {"idle", "copy", "select", "compare"}]
            /\ cur \in [Workers -> Corrs]
        BY DEF TypeOK
      <4> HIDE DEF TypeInv, Holds
      <4>3. lock' \in [Corrs -> Workers \cup {Free}]
        BY <4>1, <4>2
      <4>4. pc' \in [Workers -> {"idle", "copy", "select", "compare"}]
        BY <4>1, <4>2
      <4>5. cur' \in [Workers -> Corrs]
        BY <4>1, <4>2
      <4>6. QED
        BY <4>3, <4>4, <4>5
    <3>3. QED
      <4> HIDE DEF TypeInv, Holds
      <4> QED
        BY <2>2, <3>1, <3>2 DEF TypeOK, TypeInv
  <2>6. CASE next = <<>>
    <3>1. \A v \in Workers : pc[v] # "idle" => Live(v)' = Live(v)
      BY <2>1, <2>4, <2>6 DEF Live, TypeOK
    <3>2. QED
      BY <2>1, <2>2, <2>5, <2>6, <3>1
  <2>7. CASE next # <<>>
    <3>1. ASSUME NEW v \in Workers, v # w
          PROVE  /\ pc'[v] = pc[v] /\ cur'[v] = cur[v]
                 /\ pc[v] # "idle" => Live(v)' = Live(v) /\ lock'[cur[v]] = v
      BY <2>1, <2>4, <2>7, <3>1 DEF Live, TypeOK
    <3>2. pc'[w] = "copy" /\ cur'[w] = c /\ lock'[c] = w /\ Live(w)' = next
      BY <2>1, <2>7 DEF Live, TypeOK
    <3>3. copied'[w] <= Len(next)
      BY <2>2, <2>3
    <3>4. QED
      BY <2>2, <2>5, <2>7, <3>1, <3>2, <3>3
  <2>8. QED
    BY <2>6, <2>7
<1>2. ASSUME NEW w \in Workers, Copy(w)
      PROVE  TypeInv'
  <2>1. /\ pc[w] = "copy" /\ copied[w] < Len(Live(w))
        /\ scratch' = [scratch EXCEPT ![copied[w] + 1] = Live(w)[copied[w] + 1]]
        /\ copied' = [copied EXCEPT ![w] = @ + 1]
        /\ UNCHANGED <<percent, window, lock, pc, cur, agg>>
    BY <1>2 DEF Copy
  <2>2. Live(w) \in Seq(Vals) /\ Len(Live(w)) <= MaxEvents
    BY DEF Live, TypeOK
  <2>3. copied[w] + 1 \in 1 .. Len(Live(w)) /\ Live(w)[copied[w] + 1] \in Vals
    BY <2>1, <2>2 DEF TypeOK
  <2>4. copied[w] + 1 \in 1 .. MaxEvents
    BY <2>2, <2>3, ScratchAssumption
  <2>5. intruders' \in [Workers -> SUBSET Corrs]
        /\ \A v \in Workers : pc[v] = "idle" => intruders'[v] = {}
    BY <1>2, IntrudeTypes DEF Copy
  <2>6. TypeOK'
    <3> HIDE DEF TypeInv, Holds
    <3>1. scratch' \in [1 .. MaxEvents -> Vals \cup {0}]
      BY <2>1, <2>3, <2>4 DEF TypeOK, TypeInv
    <3>2. copied' \in [Workers -> 0 .. MaxEvents]
      BY <2>1, <2>4 DEF TypeOK, TypeInv
    <3>3. QED
      BY <2>1, <2>5, <3>1, <3>2 DEF TypeOK, TypeInv
  <2>7. \A v \in Workers : Live(v)' = Live(v)
    BY <2>1 DEF Live
  <2>8. QED
    BY <2>1, <2>3, <2>5, <2>6, <2>7
<1>3. ASSUME NEW w \in Workers, Sort(w)
      PROVE  TypeInv'
  <2> DEFINE n == Len(Live(w))
             copy == SubSeq(scratch, 1, n)
  <2>1. /\ pc[w] = "copy" /\ copied[w] = n
        /\ pc' = [pc EXCEPT ![w] = "select"]
        /\ copied' = [copied EXCEPT ![w] = 0]
        /\ UNCHANGED <<percent, window, lock, cur, agg>>
    BY <1>3 DEF Sort
  <2>2. PICK sorted \in [1 .. n -> Range(copy)] :
          scratch' = [i \in 1 .. MaxEvents |-> IF i <= n THEN sorted[i] ELSE scratch[i]]
    BY <1>3 DEF Sort
  <2>3. n \in 0 .. MaxEvents
    BY DEF Live, TypeOK
  <2>4. \A i \in 1 .. n : sorted[i] \in Vals \cup {0}
    <3>1. \A i \in 1 .. MaxEvents : scratch[i] \in Vals \cup {0}
      BY DEF TypeOK
    <3>2. copy = [i \in 1 .. n |-> scratch[i]]
      BY <2>3
    <3>3. Range(copy) = {scratch[i] : i \in 1 .. n}
      <4> HIDE DEF copy
      <4> QED
        BY <3>2 DEF Range
    <3>4. \A i \in 1 .. n : scratch[i] \in Vals \cup {0}
      <4> HIDE DEF n, copy
      <4> QED
        BY <2>3, <3>1, ScratchAssumption
    <3>5. QED
      <4> HIDE DEF n, copy
      <4> QED
        BY <3>3, <3>4
  <2>5. scratch' \in [1 .. MaxEvents -> Vals \cup {0}]
    <3>1. \A i \in 1 .. MaxEvents : scratch[i] \in Vals \cup {0}
      BY DEF TypeOK
    <3>2. QED
      BY <2>2, <2>3, <2>4, <3>1
  <2>6. intruders' \in [Workers -> SUBSET Corrs]
        /\ \A v \in Workers : pc[v] = "idle" => intruders'[v] = {}
    BY <1>3, IntrudeTypes DEF Sort
  <2>7. TypeOK'
    <3>1. /\ pc' \in [Workers -> {"idle", "copy", "select", "compare"}]
          /\ copied' \in [Workers -> 0 .. MaxEvents]
      BY <2>1, ScratchAssumption DEF TypeOK
    <3>2. QED
      <4> HIDE DEF n, copy, TypeInv, Holds
      <4> QED
        BY <2>1, <2>5, <2>6, <3>1 DEF TypeOK, TypeInv
  <2>8. \A v \in Workers : Live(v)' = Live(v)
    BY <2>1 DEF Live
  <2>9. QED
    <3> HIDE DEF n, copy
    <3> QED
      BY <2>1, <2>6, <2>7, <2>8 DEF TypeOK
<1>4. ASSUME NEW w \in Workers, Select(w)
      PROVE  TypeInv'
  <2>1. /\ pc[w] = "select"
        /\ agg' = [agg EXCEPT ![w] = scratch[NearestRank(Rank(cur[w]), Len(Live(w)))]]
        /\ pc' = [pc EXCEPT ![w] = "compare"]
        /\ UNCHANGED <<percent, window, lock, scratch, cur, copied, intruders>>
    BY <1>4 DEF Select
  <2>2. Len(Live(w)) \in 1 .. MaxEvents
    BY <2>1 DEF Live, TypeOK
  <2>3. Rank(cur[w]) \in 1 .. 100
    BY RankType
  <2>4. NearestRank(Rank(cur[w]), Len(Live(w))) \in 1 .. MaxEvents
    <3>1. PICK k \in 1 .. MaxEvents : k = Len(Live(w))
      BY <2>2
    <3>2. PICK p \in 1 .. 100 : p = Rank(cur[w])
      BY <2>3
    <3>3. MaxEvents \in Nat /\ k \in Nat \ {0}
      BY ScratchAssumption
    <3>4. NearestRank(p, k) \in 1 .. k
      BY <3>3, RankValue
    <3>5. QED
      BY <3>1, <3>2, <3>3, <3>4
  <2>5. TypeOK'
    BY <2>1, <2>4 DEF TypeOK
  <2>6. \A v \in Workers : Live(v)' = Live(v)
    BY <2>1 DEF Live
  <2>7. QED
    BY <2>1, <2>5, <2>6 DEF TypeOK
<1>5. ASSUME NEW w \in Workers, Compare(w)
      PROVE  TypeInv'
  <2>1. /\ pc[w] = "compare"
        /\ lock' = [lock EXCEPT ![cur[w]] = Free]
        /\ pc' = [pc EXCEPT ![w] = "idle"]
        /\ agg' = [agg EXCEPT ![w] = 0]
        /\ intruders' = [intruders EXCEPT ![w] = {}]
        /\ UNCHANGED <<percent, window, scratch, cur, copied>>
    BY <1>5 DEF Compare
  <2>2. \A v \in Workers : pc[v] # "idle" /\ v # w => cur[v] # cur[w]
    BY <2>1
  <2>3. TypeOK'
    BY <2>1 DEF TypeOK
  <2>4. \A v \in Workers : Live(v)' = Live(v)
    BY <2>1 DEF Live
  <2>5. QED
    BY <2>1, <2>2, <2>3, <2>4 DEF TypeOK
<1>6. CASE UNCHANGED vars
  BY <1>6 DEF vars, TypeOK, Live
<1>7. QED
  BY <1>1, <1>2, <1>3, <1>4, <1>5, <1>6 DEF Next

LEMMA TypeInit ==
  ASSUME Init
  PROVE  TypeInv
<1>1. window \in [Corrs -> Seq(Vals)] /\ \A c \in Corrs : Len(window[c]) = 0
  BY DEF Init
<1>2. QED
  BY <1>1, ScratchAssumption DEF Init, TypeInv, TypeOK, Holds

\* No index leaves pct_scratch, and no value in it comes from elsewhere, however
\* many correlations share it.
THEOREM ScratchTypes == Spec => []TypeOK
<1>1. TypeInv => TypeOK
  BY DEF TypeInv
<1>2. Spec => []TypeInv
  BY TypeInit, TypeStep, PTL DEF Spec
<1>3. QED
  BY <1>1, <1>2, PTL

-----------------------------------------------------------------------------
\* The value: what a worker has in the scratch so far, if it had it to itself.

Alone(w) == \A c \in intruders[w] : c = cur[w]

Copied(w) == [i \in 1 .. Len(Live(w)) |-> scratch[i]]

Progress(w) ==
  Alone(w) =>
    /\ pc[w] = "copy" => \A i \in 1 .. copied[w] : scratch[i] = Live(w)[i]
    /\ pc[w] = "select" => Sorts(Copied(w), Live(w))
    /\ pc[w] = "compare" => Exact(w)

ValueInv == TypeInv /\ \A w \in Workers : Progress(w)

\* The lock of a correlation keeps those who evaluate it apart.
LEMMA OneAtATime ==
  ASSUME TypeInv, NEW w \in Workers, NEW v \in Workers,
         pc[w] # "idle", pc[v] # "idle", w # v
  PROVE  cur[w] # cur[v]
  BY DEF TypeInv, Holds

\* What a worker has stays as it is while others leave it, its window and its part
\* of the scratch alone.
LEMMA ProgressKept ==
  ASSUME NEW v \in Workers, Progress(v),
         pc'[v] = pc[v], cur'[v] = cur[v], Live(v)' = Live(v), copied'[v] = copied[v],
         agg'[v] = agg[v], intruders'[v] = intruders[v], percent' = percent,
         scratch' = scratch \/ pc[v] \in {"idle", "compare"}
  PROVE  Progress(v)'
<1>1. Alone(v)' = Alone(v) /\ Rank(cur[v])' = Rank(cur[v])
  BY DEF Alone, Rank
<1>2. Exact(v)' = Exact(v)
  BY <1>1 DEF Exact
<1>3. scratch' = scratch => Copied(v)' = Copied(v)
  BY DEF Copied
<1>4. QED
  BY <1>1, <1>2, <1>3 DEF Progress

\* A writer to the scratch spoils no evaluation but those that count it as an
\* intruder of another correlation.
LEMMA ProgressUnderWriter ==
  ASSUME TypeInv, NEW w \in Workers, Intrude(w), pc[w] = "copy",
         NEW v \in Workers, v # w, Progress(v),
         pc'[v] = pc[v], copied'[v] = copied[v],
         UNCHANGED <<percent, window, cur, agg>>
  PROVE  Progress(v)'
<1>1. CASE pc[v] \in {"copy", "select"}
  <2>1. cur[w] # cur[v]
    BY <1>1, OneAtATime
  <2>2. cur[w] \in intruders'[v]
    BY <1>1 DEF Intrude
  <2>3. ~ Alone(v)'
    BY <2>1, <2>2 DEF Alone
  <2>4. QED
    BY <2>3 DEF Progress
<1>2. CASE pc[v] \in {"idle", "compare"}
  <2>1. intruders'[v] = intruders[v]
    BY <1>2 DEF Intrude
  <2>2. Live(v)' = Live(v)
    BY DEF Live
  <2>3. QED
    BY <1>2, <2>1, <2>2, ProgressKept
<1>3. QED
  BY <1>1, <1>2 DEF TypeInv, TypeOK

LEMMA ValueStep ==
  ASSUME ValueInv, [Next]_vars
  PROVE  ValueInv'
<1>0. TypeInv /\ TypeInv' /\ \A v \in Workers : Progress(v)
  BY TypeStep DEF ValueInv
<1>1. ASSUME NEW w \in Workers, NEW c \in Corrs, Push(w, c), NEW v \in Workers
      PROVE  Progress(v)'
  <2>1. /\ pc[w] = "idle" /\ lock[c] = Free
        /\ UNCHANGED <<percent, scratch, copied, agg, intruders>>
    BY <1>1 DEF Push
  <2>2. PICK next : /\ window' = [window EXCEPT ![c] = next]
                    /\ IF next = <<>>
                         THEN UNCHANGED <<lock, pc, cur>>
                         ELSE /\ lock' = [lock EXCEPT ![c] = w]
                              /\ pc' = [pc EXCEPT ![w] = "copy"]
                              /\ cur' = [cur EXCEPT ![w] = c]
    BY <1>1 DEF Push
  <2>3. CASE pc[v] = "idle"
    <3>1. pc'[v] = "idle" \/ (pc'[v] = "copy" /\ copied'[v] = 0)
      BY <1>0, <2>1, <2>2, <2>3 DEF TypeInv, TypeOK
    <3>2. QED
      BY <3>1 DEF Progress
  <2>4. CASE pc[v] # "idle"
    <3>1. v # w /\ cur[v] # c /\ cur[v] \in Corrs
      BY <1>0, <2>1, <2>4, ScratchAssumption DEF TypeInv, TypeOK, Holds
    <3>2. pc'[v] = pc[v] /\ cur'[v] = cur[v]
      BY <1>0, <2>2, <3>1 DEF TypeInv, TypeOK
    <3>3. Live(v)' = Live(v)
      BY <1>0, <2>2, <3>1, <3>2 DEF Live, TypeInv, TypeOK
    <3>4. QED
      BY <1>0, <2>1, <3>2, <3>3, ProgressKept
  <2>5. QED
    BY <2>3, <2>4
<1>2. ASSUME NEW w \in Workers, Copy(w), NEW v \in Workers
      PROVE  Progress(v)'
  <2>1. /\ pc[w] = "copy" /\ copied[w] < Len(Live(w))
        /\ scratch' = [scratch EXCEPT ![copied[w] + 1] = Live(w)[copied[w] + 1]]
        /\ copied' = [copied EXCEPT ![w] = @ + 1]
        /\ Intrude(w)
        /\ UNCHANGED <<percent, window, lock, pc, cur, agg>>
    BY <1>2 DEF Copy
  <2>2. CASE v = w
    <3>1. Live(w)' = Live(w) /\ pc'[w] = "copy" /\ Alone(w)' = Alone(w)
      BY <1>0, <2>1 DEF Live, Alone, Intrude, TypeInv, TypeOK
    <3>2. PICK k \in Nat : k = copied[w] /\ copied'[w] = k + 1
      BY <1>0, <2>1 DEF TypeInv, TypeOK
    <3>3. k + 1 \in 1 .. MaxEvents
      BY <1>0, <2>1, <3>2, ScratchAssumption DEF TypeInv, TypeOK, Live
    <3>4. SUFFICES ASSUME \A i \in 1 .. k : scratch[i] = Live(w)[i]
                   PROVE  \A i \in 1 .. k + 1 : scratch'[i] = Live(w)[i]
      BY <1>0, <2>1, <2>2, <3>1, <3>2 DEF Progress
    <3>5. \A i \in 1 .. k + 1 : scratch'[i] = Live(w)[i]
      <4>1. scratch' = [scratch EXCEPT ![k + 1] = Live(w)[k + 1]]
        BY <2>1, <3>2
      <4>2. DOMAIN scratch = 1 .. MaxEvents
        BY <1>0 DEF TypeInv, TypeOK
      <4>3. \A i \in 1 .. k + 1 : i = k + 1 \/ i \in 1 .. k
        OBVIOUS
      <4>4. \A i \in 1 .. k : i \in 1 .. MaxEvents /\ i # k + 1
        BY <3>3, ScratchAssumption
      <4>5. scratch'[k + 1] = Live(w)[k + 1]
        BY <3>3, <4>1, <4>2
      <4>6. \A i \in 1 .. k : scratch'[i] = scratch[i]
        BY <4>1, <4>2, <4>4
      <4>7. QED
        BY <3>4, <4>3, <4>5, <4>6
    <3>6. QED
      BY <3>5
  <2>3. CASE v # w
    BY <1>0, <2>1, <2>3, ProgressUnderWriter DEF TypeInv, TypeOK
  <2>4. QED
    BY <2>2, <2>3
<1>3. ASSUME NEW w \in Workers, Sort(w), NEW v \in Workers
      PROVE  Progress(v)'
  <2> DEFINE n == Len(Live(w))
             copy == SubSeq(scratch, 1, n)
  <2>1. /\ pc[w] = "copy" /\ copied[w] = n
        /\ pc' = [pc EXCEPT ![w] = "select"]
        /\ copied' = [copied EXCEPT ![w] = 0]
        /\ Intrude(w)
        /\ UNCHANGED <<percent, window, lock, cur, agg>>
    BY <1>3 DEF Sort
  <2>2. PICK sorted \in [1 .. n -> Range(copy)] :
          /\ Sorts(sorted, copy)
          /\ scratch' = [i \in 1 .. MaxEvents |-> IF i <= n THEN sorted[i] ELSE scratch[i]]
    BY <1>3 DEF Sort
  <2>3. n \in 0 .. MaxEvents /\ Live(w) \in Seq(Vals)
    BY <1>0 DEF TypeInv, TypeOK, Live
  <2>4. CASE v = w
    <3>1. Live(w)' = Live(w) /\ pc'[w] = "select" /\ Alone(w)' = Alone(w)
      BY <1>0, <2>1 DEF Live, Alone, Intrude, TypeInv, TypeOK
    <3>2. copy = [i \in 1 .. n |-> scratch[i]]
      BY <2>3
    <3>3. Live(w) = [i \in 1 .. n |-> Live(w)[i]]
      BY <2>3
    <3>4. SUFFICES ASSUME \A i \in 1 .. n : scratch[i] = Live(w)[i]
                   PROVE  Sorts(Copied(w)', Live(w)')
      BY <1>0, <2>1, <2>4, <3>1 DEF Progress
    <3>5. copy = Live(w)
      <4> HIDE DEF n, copy
      <4> QED
        BY <3>2, <3>3, <3>4
    <3>6. Copied(w)' = [i \in 1 .. n |-> scratch'[i]]
      BY <3>1 DEF Copied
    <3>7. [i \in 1 .. n |-> scratch'[i]] = sorted
      <4>1. \A i \in 1 .. n : i \in 1 .. MaxEvents /\ i <= n
        BY <2>3, ScratchAssumption
      <4>2. sorted = [i \in 1 .. n |-> sorted[i]]
        OBVIOUS
      <4>3. QED
        <5> HIDE DEF n, copy
        <5> QED
          BY <2>2, <4>1, <4>2
    <3>8. QED
      BY <2>2, <3>1, <3>5, <3>6, <3>7
  <2>5. CASE v # w
    BY <1>0, <2>1, <2>5, ProgressUnderWriter DEF TypeInv, TypeOK
  <2>6. QED
    BY <2>4, <2>5
<1>4. ASSUME NEW w \in Workers, Select(w), NEW v \in Workers
      PROVE  Progress(v)'
  <2>1. /\ pc[w] = "select"
        /\ agg' = [agg EXCEPT ![w] = scratch[NearestRank(Rank(cur[w]), Len(Live(w)))]]
        /\ pc' = [pc EXCEPT ![w] = "compare"]
        /\ UNCHANGED <<percent, window, lock, scratch, cur, copied, intruders>>
    BY <1>4 DEF Select
  <2>2. CASE v = w
    <3>1. PICK n \in Nat \ {0} : n = Len(Live(w)) /\ n <= MaxEvents
      BY <1>0, <2>1 DEF TypeInv, TypeOK, Live, Holds
    <3>2. PICK p \in 1 .. 100 : p = Rank(cur[w])
      BY <1>0, RankType DEF TypeInv
    <3>3. PICK t : t = Copied(w)
      OBVIOUS
    <3>4. PICK s : s = Live(w)
      OBVIOUS
    <3>5. s \in Seq(Vals) /\ s \in [1 .. n -> Int] /\ Len(s) = n
      <4>1. s \in Seq(Vals)
        BY <1>0, <3>4 DEF TypeInv, TypeOK, Live
      <4>2. Len(s) = n /\ \A i \in 1 .. n : s[i] \in Int
        <5>1. Len(s) = n
          BY <3>1, <3>4
        <5>2. \A i \in 1 .. n : s[i] \in Vals
          BY <4>1, <5>1
        <5>3. Vals \subseteq Int
          BY ScratchAssumption
        <5>4. QED
          BY <5>1, <5>2, <5>3
      <4>3. s = [i \in 1 .. n |-> s[i]]
        BY <4>1, <4>2
      <4>4. QED
        BY <4>1, <4>2, <4>3
    <3>6. SUFFICES ASSUME Sorts(t, s)
                   PROVE  Exact(w)'
      <4>1. Alone(w)' = Alone(w) /\ pc'[w] = "compare"
        BY <1>0, <2>1 DEF Alone, TypeInv, TypeOK
      <4>2. QED
        BY <1>0, <2>1, <2>2, <3>3, <3>4, <4>1 DEF Progress
    <3>7. t = [i \in 1 .. n |-> scratch[i]]
      BY <3>1, <3>3 DEF Copied
    <3>8. PICK q \in Bijection(1 .. n, 1 .. n) : \A i \in 1 .. n : t[i] = s[q[i]]
      BY <3>5, <3>6 DEF Sorts
    <3>9. t \in [1 .. n -> Int]
      <4>1. \A i \in 1 .. n : q[i] \in 1 .. n
        BY DEF Bijection, Injection
      <4>2. \A i \in 1 .. n : t[i] \in Int
        BY <3>5, <3>8, <4>1
      <4>3. QED
        BY <3>7, <4>2
    <3>10. IsPercentile(t[NearestRank(p, n)], p, s)
      BY <3>5, <3>6, <3>9, PercentileOfSorted
    <3>11. NearestRank(p, n) \in 1 .. n
      BY RankValue
    <3>12. agg'[w] = t[NearestRank(p, n)]
      BY <1>0, <2>1, <3>1, <3>2, <3>7, <3>11 DEF TypeInv, TypeOK
    <3>13. Live(w)' = s /\ Rank(cur[w])' = p
      BY <2>1, <3>2, <3>4 DEF Live, Rank
    <3>14. QED
      BY <3>10, <3>12, <3>13 DEF Exact
  <2>3. CASE v # w
    <3>1. /\ pc'[v] = pc[v] /\ agg'[v] = agg[v] /\ Live(v)' = Live(v)
      BY <1>0, <2>1, <2>3 DEF Live, TypeInv, TypeOK
    <3>2. QED
      BY <1>0, <2>1, <3>1, ProgressKept
  <2>4. QED
    BY <2>2, <2>3
<1>5. ASSUME NEW w \in Workers, Compare(w), NEW v \in Workers
      PROVE  Progress(v)'
  <2>1. /\ pc' = [pc EXCEPT ![w] = "idle"]
        /\ agg' = [agg EXCEPT ![w] = 0]
        /\ intruders' = [intruders EXCEPT ![w] = {}]
        /\ UNCHANGED <<percent, window, scratch, cur, copied>>
    BY <1>5 DEF Compare
  <2>2. CASE v = w
    BY <1>0, <2>1, <2>2 DEF Progress, TypeInv, TypeOK
  <2>3. CASE v # w
    <3>1. /\ pc'[v] = pc[v] /\ agg'[v] = agg[v] /\ intruders'[v] = intruders[v]
          /\ Live(v)' = Live(v)
      BY <1>0, <2>1, <2>3 DEF Live, TypeInv, TypeOK
    <3>2. QED
      BY <1>0, <2>1, <3>1, ProgressKept
  <2>4. QED
    BY <2>2, <2>3
<1>6. ASSUME UNCHANGED vars, NEW v \in Workers
      PROVE  Progress(v)'
  <2>1. Live(v)' = Live(v)
    BY <1>6 DEF vars, Live
  <2>2. QED
    BY <1>0, <1>6, <2>1, ProgressKept DEF vars
<1>7. \A v \in Workers : Progress(v)'
  BY <1>1, <1>2, <1>3, <1>4, <1>5, <1>6 DEF Next
<1>8. QED
  BY <1>0, <1>7 DEF ValueInv

\* The aggregate a verdict is taken from is the percentile of the group's live
\* window whenever the workers that wrote into the scratch meanwhile, if any, were
\* on the same correlation, for any number of workers, of correlations and of
\* percentiles: the lock of the correlation makes the writing and the picking one step.
THEOREM PercentileIsExact == Spec => []PercentileExact
<1>1. Init => ValueInv
  BY TypeInit DEF Init, ValueInv, Progress
<1>2. ValueInv /\ [Next]_vars => ValueInv'
  BY ValueStep
<1>3. ValueInv => PercentileExact
  BY DEF ValueInv, Progress, Alone, PercentileExact
<1>4. QED
  BY <1>1, <1>2, <1>3, PTL DEF Spec

\* An engine with one percentile or median correlation keeps the promise of
\* classify_corr.h that the shared scratch breaks: there is no other correlation to
\* intrude.
THEOREM OneCorrelationIsSafe ==
  ASSUME \A c, d \in Corrs : c = d
  PROVE  Spec => []ParallelEvaluationSafe
<1>1. TypeInv /\ PercentileExact => ParallelEvaluationSafe
  BY DEF TypeInv, TypeOK, PercentileExact, ParallelEvaluationSafe
<1>2. Spec => []TypeInv
  BY TypeInit, TypeStep, PTL DEF Spec
<1>3. QED
  BY <1>1, <1>2, PercentileIsExact, PTL
=============================================================================
