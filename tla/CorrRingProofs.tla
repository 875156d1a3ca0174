--------------------------- MODULE CorrRingProofs ---------------------------
(***************************************************************************)
(* What the ring operators do to the live entries, for every capacity: the *)
(* modules that prove properties of a group rest on it.                    *)
(***************************************************************************)
EXTENDS CorrRing, FoldProofs

AnyRing == RingOf(Int, Int)

-----------------------------------------------------------------------------
\* A non-empty set of naturals has a least element, so the loop of ev_prune
\* stops at a well-defined entry.
LEMMA LeastNat ==
  ASSUME NEW S \in SUBSET Nat, S # {}
  PROVE  /\ Min(S) \in S
         /\ \A m \in S : Min(S) <= m
<1>1. PICK n \in S : \A m \in S : n <= m
  BY Least
<1>2. QED
  BY <1>1 DEF Min

\* The slot of a live entry, without the modulo.
LEMMA SlotOfValue ==
  ASSUME NEW r \in AnyRing, NEW k \in 0 .. MaxEvents
  PROVE  /\ SlotOf(r, k) \in Slots
         /\ SlotOf(r, k) = IF r.head + k < MaxEvents
                             THEN r.head + k ELSE r.head + k - MaxEvents
<1>1. r.head \in 0 .. MaxEvents - 1
  BY DEF AnyRing, RingOf, Slots
<1> DEFINE x == r.head + k
<1>2. x \in 0 .. 2 * MaxEvents - 1
  BY <1>1, MaxEventsAssumption
<1>3. x % MaxEvents = IF x < MaxEvents THEN x ELSE x - MaxEvents
  <2> HIDE DEF x
  <2> QED
    BY <1>2, MaxEventsAssumption
<1>4. QED
  BY <1>1, <1>2, <1>3, MaxEventsAssumption DEF SlotOf, Slots

\* ev_prune drops exactly the entries in front of the first one that is inside
\* the window.
LEMMA PruneCountValue ==
  ASSUME NEW r \in AnyRing, NEW w \in Int
  PROVE  /\ PruneCount(r, w) \in 0 .. r.len
         /\ \A j \in 0 .. PruneCount(r, w) - 1 : TsAt(r, j) < w
         /\ PruneCount(r, w) < r.len => TsAt(r, PruneCount(r, w)) >= w
<1> DEFINE S == {k \in 0 .. r.len : k = r.len \/ TsAt(r, k) >= w}
<1>1. r.len \in 0 .. MaxEvents
  BY DEF AnyRing, RingOf
<1>2. S \in SUBSET Nat /\ S # {}
  BY <1>1, MaxEventsAssumption
<1>3. Min(S) \in S /\ \A m \in S : Min(S) <= m
  BY <1>2, LeastNat
<1>4. ASSUME NEW j \in 0 .. Min(S) - 1
      PROVE  TsAt(r, j) < w
  <2>1. j \in 0 .. MaxEvents /\ j \in 0 .. r.len /\ j # r.len /\ j \notin S
    BY <1>1, <1>3, MaxEventsAssumption
  <2>2. TsAt(r, j) \in Int
    BY <2>1, SlotOfValue DEF TsAt, AnyRing, RingOf
  <2>3. QED
    BY <2>1, <2>2
<1>5. PruneCount(r, w) = Min(S)
  BY DEF PruneCount
<1>6. QED
  BY <1>1, <1>3, <1>4, <1>5

\* Pruning moves the head: the entries that stay keep their order.
LEMMA PruneRing ==
  ASSUME NEW r \in AnyRing, NEW w \in Int
  PROVE  LET p == Prune(r, w)
             k == PruneCount(r, w)
         IN /\ p \in AnyRing
            /\ p.len = r.len - k
            /\ \A j \in 0 .. p.len - 1 : /\ TsAt(p, j) = TsAt(r, k + j)
                                         /\ ValAt(p, j) = ValAt(r, k + j)
<1> DEFINE p == Prune(r, w)
           k == PruneCount(r, w)
<1>1. k \in 0 .. r.len /\ r.len \in 0 .. MaxEvents /\ r.head \in 0 .. MaxEvents - 1
  BY PruneCountValue DEF AnyRing, RingOf, Slots
<1>2. k \in 0 .. MaxEvents
  BY <1>1, MaxEventsAssumption
<1>3. SlotOf(r, k) \in Slots /\ r.len - k \in 0 .. MaxEvents
  BY <1>1, <1>2, SlotOfValue, MaxEventsAssumption
<1>4. /\ p = [r EXCEPT !.head = SlotOf(r, k), !.len = r.len - k]
      /\ p.ts = r.ts /\ p.val = r.val
      /\ p.head = SlotOf(r, k) /\ p.len = r.len - k
  BY DEF Prune, AnyRing, RingOf
<1>5. p \in AnyRing
  BY <1>3, <1>4 DEF AnyRing, RingOf
<1>6. ASSUME NEW j \in 0 .. p.len - 1
      PROVE  SlotOf(p, j) = SlotOf(r, k + j)
  <2>1. j \in 0 .. MaxEvents /\ k + j \in 0 .. MaxEvents
    BY <1>1, <1>4, MaxEventsAssumption
  <2>2. /\ SlotOf(r, k + j) = IF r.head + (k + j) < MaxEvents
                     THEN r.head + (k + j) ELSE r.head + (k + j) - MaxEvents
        /\ SlotOf(p, j) = IF p.head + j < MaxEvents
                            THEN p.head + j ELSE p.head + j - MaxEvents
        /\ p.head = IF r.head + k < MaxEvents
                      THEN r.head + k ELSE r.head + k - MaxEvents
    BY <1>2, <1>4, <1>5, <2>1, SlotOfValue
  <2>3. QED
    BY <1>1, <2>1, <2>2, MaxEventsAssumption
<1>7. QED
  BY <1>4, <1>5, <1>6 DEF TsAt, ValAt

\* Storing appends at the tail; a full ring loses its oldest entry.
LEMMA StoreRing ==
  ASSUME NEW r \in AnyRing, NEW t \in Int, NEW v \in Int
  PROVE  LET s == Store(r, t, v)
             d == IF IsFull(r) THEN 1 ELSE 0
         IN /\ s \in AnyRing
            /\ s.len = r.len + 1 - d
            /\ \A j \in 0 .. s.len - 2 : /\ TsAt(s, j) = TsAt(r, j + d)
                                         /\ ValAt(s, j) = ValAt(r, j + d)
            /\ TsAt(s, s.len - 1) = t
            /\ ValAt(s, s.len - 1) = v
<1> DEFINE s == Store(r, t, v)
           d == IF IsFull(r) THEN 1 ELSE 0
           slot == IF IsFull(r) THEN r.head ELSE SlotOf(r, r.len)
<1>1. /\ r.len \in 0 .. MaxEvents /\ r.head \in 0 .. MaxEvents - 1
      /\ r.ts \in [Slots -> Int] /\ r.val \in [Slots -> Int]
  BY DEF AnyRing, RingOf, Slots
<1>2. /\ slot \in Slots
      /\ slot = IF IsFull(r) THEN r.head
                ELSE IF r.head + r.len < MaxEvents
                       THEN r.head + r.len ELSE r.head + r.len - MaxEvents
  BY <1>1, SlotOfValue DEF Slots
<1>3. SlotOf(r, 1) \in Slots /\ SlotOf(r, 1) = IF r.head + 1 < MaxEvents
                                     THEN r.head + 1 ELSE r.head + 1 - MaxEvents
  BY SlotOfValue, MaxEventsAssumption
<1>4. /\ s.ts = [r.ts EXCEPT ![slot] = t] /\ s.val = [r.val EXCEPT ![slot] = v]
      /\ s.head = (IF IsFull(r) THEN SlotOf(r, 1) ELSE r.head)
      /\ s.len = (IF IsFull(r) THEN r.len ELSE r.len + 1)
  BY DEF Store
<1>5. s \in AnyRing
  <2>1. s.len \in 0 .. MaxEvents /\ s.head \in Slots
    <3>1. CASE IsFull(r)
      BY <1>1, <1>3, <1>4, <3>1
    <3>2. CASE ~IsFull(r)
      <4>1. s.len = r.len + 1 /\ s.head = r.head /\ r.len # MaxEvents
        BY <1>4, <3>2 DEF IsFull
      <4>2. r.len \in 0 .. MaxEvents /\ r.head \in Slots
        BY <1>1 DEF Slots
      <4>3. QED
        BY <4>1, <4>2, MaxEventsAssumption
    <3>3. QED
      BY <3>1, <3>2 DEF IsFull
  <2>2. s.ts \in [Slots -> Int] /\ s.val \in [Slots -> Int]
    BY <1>1, <1>2, <1>4
  <2>3. QED
    BY <2>1, <2>2 DEF AnyRing, RingOf, Store
<1>6. s.len = r.len + 1 - d /\ s.len \in 1 .. MaxEvents
  BY <1>1, <1>4, MaxEventsAssumption DEF IsFull
<1>7. SlotOf(s, s.len - 1) = slot
  <2>1. SlotOf(s, s.len - 1) = IF s.head + (s.len - 1) < MaxEvents
               THEN s.head + (s.len - 1) ELSE s.head + (s.len - 1) - MaxEvents
    BY <1>5, <1>6, SlotOfValue, MaxEventsAssumption
  <2>2. QED
    BY <1>1, <1>2, <1>3, <1>4, <2>1, MaxEventsAssumption DEF IsFull
<1>8. ASSUME NEW j \in 0 .. s.len - 2
      PROVE  SlotOf(s, j) = SlotOf(r, j + d) /\ SlotOf(s, j) # slot
                                             /\ SlotOf(s, j) \in Slots
  <2>1. j \in 0 .. MaxEvents /\ j + d \in 0 .. MaxEvents
    BY <1>1, <1>6, MaxEventsAssumption
  <2>2. /\ SlotOf(s, j) \in Slots
        /\ SlotOf(s, j) = IF s.head + j < MaxEvents
                            THEN s.head + j ELSE s.head + j - MaxEvents
        /\ SlotOf(r, j + d) = IF r.head + (j + d) < MaxEvents
                     THEN r.head + (j + d) ELSE r.head + (j + d) - MaxEvents
    BY <1>5, <2>1, SlotOfValue
  <2>3. SlotOf(s, j) = SlotOf(r, j + d)
    BY <1>1, <1>3, <1>4, <1>6, <2>1, <2>2, MaxEventsAssumption DEF IsFull
  <2>4. SlotOf(s, j) # slot
    BY <1>1, <1>2, <1>3, <1>4, <1>6, <2>1, <2>2, MaxEventsAssumption DEF IsFull
  <2>5. QED
    BY <2>2, <2>3, <2>4
<1>9. TsAt(s, s.len - 1) = t /\ ValAt(s, s.len - 1) = v
  BY <1>1, <1>2, <1>4, <1>7 DEF TsAt, ValAt
<1>10. \A j \in 0 .. s.len - 2 : /\ TsAt(s, j) = TsAt(r, j + d)
                                 /\ ValAt(s, j) = ValAt(r, j + d)
  BY <1>1, <1>4, <1>8 DEF TsAt, ValAt
<1>11. QED
  BY <1>5, <1>6, <1>9, <1>10
=============================================================================
