-------------------------- MODULE CorrWindowProofs --------------------------
(***************************************************************************)
(* The ring window is exact, for every capacity, window length and lag.    *)
(*                                                                         *)
(* What Store and Prune do to a ring and the log it is the end of comes    *)
(* first, then the inductive invariant of the state machine.               *)
(***************************************************************************)
EXTENDS CorrWindow, CorrRingProofs

-----------------------------------------------------------------------------
(***************************************************************************)
(* RingIsLogSuffix and LossIsCounted of any ring and log, so that the ring *)
(* between the store and the prune of one Observe can be spoken of.        *)
(***************************************************************************)
Event == [t : Time, v : Vals]

SuffixOf(r, g) ==
  /\ r.len <= Len(g)
  /\ \A k \in 0 .. r.len - 1 :
       /\ TsAt(r, k) = g[Len(g) - r.len + 1 + k].t
       /\ ValAt(r, k) = g[Len(g) - r.len + 1 + k].v

LossIn(r, g, h, o) ==
  \A i \in 1 .. Len(g) - r.len :
    \/ g[i].t < h - Span
    \/ i <= Len(g) - MaxEvents /\ o > 0

\* An entry of the log is a time and a value.
LEMMA EventType ==
  ASSUME NEW e \in Event
  PROVE  e.t \in Int /\ e.v \in Int
<1>1. e.t \in Time /\ e.v \in Vals
  BY DEF Event
<1>2. e.t \in Int
  BY <1>1 DEF Time
<1>3. e.v \in Int
  BY <1>1, WindowAssumption
<1>4. QED
  BY <1>2, <1>3

\* Pruning at the window of an event no newer than the high mark keeps the
\* correspondence, and what it drops is older than the window.
LEMMA PruneStep ==
  ASSUME NEW r \in AnyRing, NEW g \in Seq(Event), NEW t \in Time,
         NEW h \in Time, NEW o \in Nat, t <= h,
         SuffixOf(r, g), LossIn(r, g, h, o)
  PROVE  LET p == Prune(r, WindowStart(t))
         IN /\ SuffixOf(p, g)
            /\ LossIn(p, g, h, o)
            /\ p.len > 0 => TsAt(p, 0) >= WindowStart(t)
<1> DEFINE w == WindowStart(t)
           p == Prune(r, w)
           k == PruneCount(r, w)
           n == Len(g)
<1>1. w \in Int /\ w <= h - Span /\ h \in Int /\ n \in Nat
  BY WindowAssumption DEF WindowStart, Time
<1>2. /\ k \in 0 .. r.len
      /\ \A j \in 0 .. k - 1 : TsAt(r, j) < w
      /\ k < r.len => TsAt(r, k) >= w
  BY <1>1, PruneCountValue
<1>3. /\ p \in AnyRing
      /\ p.len = r.len - k
      /\ \A j \in 0 .. p.len - 1 : /\ TsAt(p, j) = TsAt(r, k + j)
                                   /\ ValAt(p, j) = ValAt(r, k + j)
  BY <1>1, PruneRing
<1>4. r.len \in 0 .. MaxEvents
  BY DEF AnyRing, RingOf
<1> HIDE DEF p, k, w
<1>5. SuffixOf(p, g)
  <2>1. p.len <= n
    BY <1>1, <1>2, <1>3, <1>4, MaxEventsAssumption DEF SuffixOf
  <2>2. ASSUME NEW j \in 0 .. p.len - 1
        PROVE  /\ TsAt(p, j) = g[n - p.len + 1 + j].t
               /\ ValAt(p, j) = g[n - p.len + 1 + j].v
    <3>1. k + j \in 0 .. r.len - 1
      BY <1>2, <1>3, <1>4, MaxEventsAssumption
    <3>2. n - r.len + 1 + (k + j) = n - p.len + 1 + j
      BY <1>1, <1>2, <1>3, <1>4, MaxEventsAssumption
    <3>3. QED
      BY <1>3, <3>1, <3>2 DEF SuffixOf
  <2>3. QED
    BY <2>1, <2>2 DEF SuffixOf
<1>6. LossIn(p, g, h, o)
  <2> SUFFICES ASSUME NEW i \in 1 .. n - p.len
               PROVE  g[i].t < h - Span \/ (i <= n - MaxEvents /\ o > 0)
    BY DEF LossIn
  <2>1. CASE i <= n - r.len
    <3>1. i \in 1 .. n - r.len
      BY <1>1, <1>4, <2>1, MaxEventsAssumption
    <3>2. QED
      BY <3>1 DEF LossIn
  <2>2. CASE i > n - r.len
    <3> DEFINE j == i - (n - r.len + 1)
    <3>1. j \in 0 .. k - 1 /\ j \in 0 .. r.len - 1 /\ n - r.len + 1 + j = i
      <4>1. i \in Int /\ i <= n - (r.len - k) /\ i > n - r.len
        BY <1>1, <1>2, <1>3, <1>4, <2>2, MaxEventsAssumption
      <4>2. k \in Int /\ r.len \in Int /\ n \in Int /\ k <= r.len
        BY <1>1, <1>2, <1>4, MaxEventsAssumption
      <4>3. QED
        BY <4>1, <4>2
    <3>2. TsAt(r, j) < w /\ TsAt(r, j) = g[i].t
      BY <1>2, <3>1 DEF SuffixOf
    <3>3. i \in 1 .. Len(g)
      BY <1>1, <1>2, <1>3, <1>4, <2>2, MaxEventsAssumption
    <3>4. g[i].t \in Int
      <4>1. g[i] \in Event
        BY <3>3, ElementOfSeq
      <4>2. QED
        BY <4>1, EventType
    <3>5. QED
      BY <1>1, <3>2, <3>4, WindowAssumption
  <2>3. QED
    BY <1>1, <1>4, <2>1, <2>2, MaxEventsAssumption
<1>7. ASSUME p.len > 0
      PROVE  TsAt(p, 0) >= w
  <2>1. k < r.len /\ k + 0 = k /\ 0 \in 0 .. p.len - 1
    BY <1>2, <1>3, <1>4, <1>7, MaxEventsAssumption
  <2>2. QED
    BY <1>2, <1>3, <2>1
<1>8. QED
  BY <1>5, <1>6, <1>7 DEF p, w

\* Storing an event keeps the correspondence with the log it is appended to; a
\* full ring forgets the event that is MaxEvents behind, and counts it.
LEMMA StoreStep ==
  ASSUME NEW r \in AnyRing, NEW g \in Seq(Event), NEW e \in Event,
         NEW h \in Time, NEW h2 \in Time, h <= h2, NEW o \in Nat,
         SuffixOf(r, g), LossIn(r, g, h, o)
  PROVE  LET s == Store(r, e.t, e.v)
             g2 == Append(g, e)
             o2 == IF IsFull(r) THEN o + 1 ELSE o
         IN SuffixOf(s, g2) /\ LossIn(s, g2, h2, o2)
<1> DEFINE s == Store(r, e.t, e.v)
           g2 == Append(g, e)
           o2 == IF IsFull(r) THEN o + 1 ELSE o
           d == IF IsFull(r) THEN 1 ELSE 0
           n == Len(g)
<1>1. e.t \in Int /\ e.v \in Int
  BY EventType
<1>2. /\ s \in AnyRing
      /\ s.len = r.len + 1 - d
      /\ \A j \in 0 .. s.len - 2 : /\ TsAt(s, j) = TsAt(r, j + d)
                                   /\ ValAt(s, j) = ValAt(r, j + d)
      /\ TsAt(s, s.len - 1) = e.t
      /\ ValAt(s, s.len - 1) = e.v
  BY <1>1, StoreRing
<1>3. /\ n \in Nat /\ Len(g2) = n + 1 /\ g2[n + 1] = e
      /\ \A i \in 1 .. n : g2[i] = g[i]
  BY AppendProperties
<1>4. r.len \in 0 .. MaxEvents /\ r.len <= n
  BY DEF AnyRing, RingOf, SuffixOf
<1>5. d \in {0, 1} /\ (d = 1 => r.len = MaxEvents)
  BY DEF IsFull
<1>6. o2 \in Nat /\ o2 >= o /\ (d = 1 => o2 > 0)
  OBVIOUS
<1> HIDE DEF s, g2, o2, d
<1>7. SuffixOf(s, g2)
  <2>1. s.len <= Len(g2)
    BY <1>2, <1>3, <1>4, <1>5, MaxEventsAssumption
  <2>2. ASSUME NEW k \in 0 .. s.len - 1
        PROVE  /\ TsAt(s, k) = g2[Len(g2) - s.len + 1 + k].t
               /\ ValAt(s, k) = g2[Len(g2) - s.len + 1 + k].v
    <3>1. CASE k = s.len - 1
      <4>1. Len(g2) - s.len + 1 + k = n + 1
        BY <1>2, <1>3, <1>4, <1>5, <3>1, MaxEventsAssumption
      <4>2. QED
        BY <1>2, <1>3, <3>1, <4>1
    <3>2. CASE k # s.len - 1
      <4> DEFINE rl == r.len
                 sl == s.len
                 gl == Len(g2)
                 q == n - rl
      <4>1. /\ k \in Int /\ 0 <= k /\ k <= sl - 1 /\ k # sl - 1
            /\ sl = rl + 1 - d /\ gl = n + 1
            /\ n \in Int /\ d \in Int /\ rl \in Int /\ sl \in Int
            /\ rl <= n /\ 0 <= d /\ 0 <= rl
        BY <1>2, <1>3, <1>4, <1>5, <3>2, MaxEventsAssumption
      <4> HIDE DEF rl, sl, gl, n
      <4>2. /\ k \in 0 .. sl - 2 /\ k + d \in 0 .. rl - 1
            /\ gl - sl + 1 + k = q + 1 + (k + d)
            /\ q + 1 + (k + d) \in 1 .. n
        BY <4>1
      <4>3. /\ TsAt(r, k + d) = g[q + 1 + (k + d)].t
            /\ ValAt(r, k + d) = g[q + 1 + (k + d)].v
        BY <4>2 DEF SuffixOf, rl, n
      <4>4. g2[gl - sl + 1 + k] = g[q + 1 + (k + d)]
        BY <1>3, <4>2 DEF n
      <4>5. QED
        BY <1>2, <4>2, <4>3, <4>4 DEF sl, gl
    <3>3. QED
      BY <3>1, <3>2
  <2>3. QED
    BY <2>1, <2>2 DEF SuffixOf
<1>8. LossIn(s, g2, h2, o2)
  <2> SUFFICES ASSUME NEW i \in 1 .. Len(g2) - s.len
               PROVE  \/ g2[i].t < h2 - Span
                      \/ i <= Len(g2) - MaxEvents /\ o2 > 0
    BY DEF LossIn
  <2>1. i \in 1 .. n /\ g2[i] = g[i] /\ g[i].t \in Int
    <3>1. i \in 1 .. n
      BY <1>2, <1>3, <1>4, <1>5, MaxEventsAssumption
    <3>2. g[i] \in Event
      BY <3>1, ElementOfSeq
    <3>3. QED
      BY <1>3, <3>1, <3>2, EventType
  <2>2. CASE i <= n - r.len
    <3>1. i \in 1 .. n - r.len
      BY <1>3, <1>4, <2>2, MaxEventsAssumption
    <3>2. g[i].t < h - Span \/ (i <= n - MaxEvents /\ o > 0)
      BY <3>1 DEF LossIn
    <3>3. h \in Int /\ h2 \in Int /\ Span \in Int
      BY WindowAssumption DEF Time
    <3>4. QED
      BY <1>3, <1>6, <2>1, <3>2, <3>3, MaxEventsAssumption
  <2>3. CASE i > n - r.len
    <3>1. d = 1 /\ i = n - r.len + 1
      BY <1>2, <1>3, <1>4, <1>5, <2>3, MaxEventsAssumption
    <3>2. QED
      BY <1>3, <1>5, <1>6, <3>1, MaxEventsAssumption
  <2>4. QED
    BY <1>3, <1>4, <2>1, <2>2, <2>3, MaxEventsAssumption
<1>9. QED
  BY <1>7, <1>8 DEF s, g2, o2

-----------------------------------------------------------------------------
(***************************************************************************)
(* WindowInv is inductive.                                                 *)
(***************************************************************************)
\* The empty ring and the empty log correspond.
LEMMA InitInv == Init => WindowInv
<1> SUFFICES ASSUME Init PROVE WindowInv
  OBVIOUS
<1>1. ring = EmptyRing /\ log = <<>> /\ overwritten = 0 /\ now = 0 /\ high = 0
  BY DEF Init
<1>2. EmptyRing \in AnyRing /\ EmptyRing.len = 0
  BY MaxEventsAssumption DEF AnyRing, RingOf, EmptyRing, Slots
<1>3. Len(log) = 0 /\ log \in Seq(Event)
  BY <1>1
<1>4. 0 \in Time
  BY WindowAssumption DEF Time
<1>5. TypeOK
  BY <1>1, <1>2, <1>3, <1>4 DEF TypeOK, AnyRing, Event
<1>6. RingIsLogSuffix /\ LossIsCounted /\ HeadInWindow
  BY <1>1, <1>2, <1>3 DEF RingIsLogSuffix, LossIsCounted, Gone, HeadInWindow
<1>7. HighIsNewest /\ LogWithinLag
  BY <1>1, <1>3, WindowAssumption DEF HighIsNewest, LogWithinLag
<1>8. QED
  BY <1>5, <1>6, <1>7 DEF WindowInv

\* What an arriving timestamp does to the clock, whichever handler it reaches.
LEMMA ArriveStep ==
  ASSUME WindowInv, NEW t \in Time, Arrive(t)
  PROVE  /\ now' = t /\ now' \in Time /\ high' \in Time
         /\ high <= high' /\ t <= high' /\ high' <= t + MaxLag
         /\ \A i \in 1 .. Len(log) : log[i].t <= high' /\ t >= log[i].t - MaxLag
<1>1. high \in Int /\ t \in Int /\ MaxLag \in Nat /\ high \in Time
  BY WindowAssumption DEF WindowInv, TypeOK, Time
<1>2. /\ now' = t /\ t >= high - MaxLag
      /\ high' = IF t > high THEN t ELSE high
  BY DEF Arrive
<1>3. high <= high' /\ t <= high' /\ high' <= t + MaxLag /\ high' \in Int
  BY <1>1, <1>2
<1>4. ASSUME NEW i \in 1 .. Len(log)
      PROVE  log[i].t <= high' /\ t >= log[i].t - MaxLag
  <2>1. log[i].t <= high
    BY DEF WindowInv, HighIsNewest
  <2>2. log[i] \in Event
    BY ElementOfSeq DEF WindowInv, TypeOK, Event
  <2> DEFINE lt == log[i].t
  <2>3. lt \in Int
    BY <2>2, EventType
  <2> HIDE DEF lt
  <2>4. lt <= high => lt <= high' /\ t >= lt - MaxLag
    BY <1>1, <1>2, <1>3, <2>3
  <2>5. QED
    BY <2>1, <2>4 DEF lt
<1>5. QED
  BY <1>1, <1>2, <1>3, <1>4

\* A stored event: StoreStep, then PruneStep at its window.
LEMMA ObserveInv ==
  ASSUME WindowInv, NEW t \in Time, NEW v \in Vals, Observe(t, v)
  PROVE  WindowInv'
<1> DEFINE e == [t |-> t, v |-> v]
           r2 == Store(ring, t, v)
<1>1. /\ Arrive(t)
      /\ ring' = Prune(r2, WindowStart(t))
      /\ overwritten' = IF IsFull(ring) THEN overwritten + 1 ELSE overwritten
      /\ log' = Append(log, e)
  BY DEF Observe, Push
<1>2. /\ ring \in AnyRing /\ log \in Seq(Event) /\ overwritten \in Nat
      /\ high \in Time
  BY DEF WindowInv, TypeOK, AnyRing, Event
<1>3. e \in Event /\ e.t = t /\ e.v = v /\ t \in Int /\ v \in Int
  BY WindowAssumption DEF Event, Time
<1>4. /\ now' = t /\ now' \in Time /\ high' \in Time
      /\ high <= high' /\ t <= high' /\ high' <= t + MaxLag
      /\ \A i \in 1 .. Len(log) : log[i].t <= high' /\ t >= log[i].t - MaxLag
  BY <1>1, ArriveStep
<1>5. SuffixOf(ring, log) /\ LossIn(ring, log, high, overwritten)
  BY DEF WindowInv, RingIsLogSuffix, LossIsCounted, Gone, SuffixOf, LossIn
<1>6. SuffixOf(r2, log') /\ LossIn(r2, log', high', overwritten')
  BY <1>1, <1>2, <1>3, <1>4, <1>5, StoreStep
<1>7. r2 \in AnyRing
  BY <1>2, <1>3, StoreRing
<1>8. log' \in Seq(Event) /\ overwritten' \in Nat
  BY <1>1, <1>2, <1>3, AppendProperties
<1>9. /\ SuffixOf(ring', log')
      /\ LossIn(ring', log', high', overwritten')
      /\ ring'.len > 0 => TsAt(ring', 0) >= WindowStart(t)
  BY <1>1, <1>4, <1>6, <1>7, <1>8, PruneStep
<1>10. ring' \in AnyRing
  <2>1. WindowStart(t) \in Int
    BY <1>3, WindowAssumption DEF WindowStart
  <2>2. QED
    BY <1>1, <1>7, <2>1, PruneRing
<1>11. TypeOK'
  BY <1>4, <1>8, <1>10 DEF TypeOK, AnyRing, Event
<1>12. RingIsLogSuffix' /\ LossIsCounted' /\ HeadInWindow'
  BY <1>4, <1>9 DEF RingIsLogSuffix, LossIsCounted, Gone, HeadInWindow,
                    SuffixOf, LossIn, TsAt, ValAt, SlotOf, WindowStart
<1> DEFINE n == Len(log)
<1>13. /\ n \in Nat /\ Len(log') = n + 1 /\ log'[n + 1] = e
       /\ \A i \in 1 .. n : log'[i] = log[i]
  BY <1>1, <1>2, <1>3, AppendProperties
<1>14. HighIsNewest'
  <2>1. ASSUME NEW i \in 1 .. n + 1
        PROVE  log'[i].t <= high'
    <3>1. CASE i = n + 1
      BY <1>3, <1>4, <1>13, <3>1
    <3>2. CASE i # n + 1
      <4>1. i \in 1 .. n
        BY <1>13, <3>2
      <4>2. QED
        BY <1>4, <1>13, <4>1
    <3>3. QED
      BY <3>1, <3>2
  <2>2. now' <= high' /\ high' <= now' + MaxLag
    BY <1>4
  <2>3. QED
    BY <1>13, <2>1, <2>2 DEF HighIsNewest
<1>15. LogWithinLag'
  <2>1. ASSUME NEW i \in 1 .. n + 1, NEW j \in 1 .. n + 1, i < j
        PROVE  log'[j].t >= log'[i].t - MaxLag
    <3>1. i \in 1 .. n
      BY <1>13, <2>1
    <3>2. CASE j = n + 1
      BY <1>3, <1>4, <1>13, <3>1, <3>2
    <3>3. CASE j # n + 1
      <4>1. j \in 1 .. n
        BY <1>13, <3>3
      <4>2. log[j].t >= log[i].t - MaxLag
        BY <2>1, <3>1, <4>1 DEF WindowInv, LogWithinLag
      <4>3. QED
        BY <1>13, <3>1, <4>1, <4>2
    <3>4. QED
      BY <3>2, <3>3
  <2>2. QED
    BY <1>13, <2>1 DEF LogWithinLag
<1>16. QED
  BY <1>11, <1>12, <1>14, <1>15 DEF WindowInv

\* An event that stores nothing: PruneStep alone.
LEMMA AgeInv ==
  ASSUME WindowInv, NEW t \in Time, Age(t)
  PROVE  WindowInv'
<1>1. /\ Arrive(t)
      /\ ring' = Prune(ring, WindowStart(t))
      /\ overwritten' = overwritten /\ log' = log
  BY DEF Age
<1>2. /\ ring \in AnyRing /\ log \in Seq(Event) /\ overwritten \in Nat
      /\ high \in Time
  BY DEF WindowInv, TypeOK, AnyRing, Event
<1>3. /\ now' = t /\ now' \in Time /\ high' \in Time
      /\ high <= high' /\ t <= high' /\ high' <= t + MaxLag
      /\ \A i \in 1 .. Len(log) : log[i].t <= high'
  BY <1>1, ArriveStep
<1>4. SuffixOf(ring, log) /\ LossIn(ring, log, high, overwritten)
  BY DEF WindowInv, RingIsLogSuffix, LossIsCounted, Gone, SuffixOf, LossIn
<1> DEFINE b1 == high - Span
           h2 == high'
           b2 == h2 - Span
<1>0. b1 \in Int /\ b2 \in Int /\ b1 <= b2
  <2>1. high \in Int /\ h2 \in Int /\ high <= h2 /\ Span \in Int
    BY <1>2, <1>3, WindowAssumption DEF Time
  <2> HIDE DEF h2
  <2>2. QED
    BY <2>1
<1>5. LossIn(ring, log, high', overwritten)
  <2> SUFFICES ASSUME NEW i \in 1 .. Len(log) - ring.len
               PROVE  \/ log[i].t < b2
                      \/ i <= Len(log) - MaxEvents /\ overwritten > 0
    BY DEF LossIn
  <2> DEFINE lt == log[i].t
  <2>1. \/ lt < b1
        \/ i <= Len(log) - MaxEvents /\ overwritten > 0
    BY <1>4 DEF LossIn
  <2>2. i \in 1 .. Len(log)
    <3>1. ring.len \in Nat
      BY <1>2, MaxEventsAssumption DEF AnyRing, RingOf
    <3>2. QED
      BY <1>2, <3>1
  <2>3. lt \in Int
    BY <1>2, <2>2, ElementOfSeq, EventType
  <2> HIDE DEF lt, b1, b2
  <2>4. lt < b1 => lt < b2
    BY <1>0, <2>3
  <2>5. QED
    BY <2>1, <2>4 DEF lt
<1>6. /\ SuffixOf(ring', log')
      /\ LossIn(ring', log', high', overwritten')
      /\ ring'.len > 0 => TsAt(ring', 0) >= WindowStart(t)
  BY <1>1, <1>2, <1>3, <1>4, <1>5, PruneStep
<1>7. ring' \in AnyRing
  <2>1. WindowStart(t) \in Int
    BY WindowAssumption DEF WindowStart, Time
  <2>2. QED
    BY <1>1, <1>2, <2>1, PruneRing
<1>8. TypeOK'
  BY <1>1, <1>2, <1>3, <1>7 DEF TypeOK, AnyRing, Event
<1>9. RingIsLogSuffix' /\ LossIsCounted' /\ HeadInWindow'
  BY <1>3, <1>6 DEF RingIsLogSuffix, LossIsCounted, Gone, HeadInWindow,
                    SuffixOf, LossIn, TsAt, ValAt, SlotOf, WindowStart
<1>10. HighIsNewest' /\ LogWithinLag'
  BY <1>1, <1>3 DEF WindowInv, HighIsNewest, LogWithinLag
<1>11. QED
  BY <1>8, <1>9, <1>10 DEF WindowInv

\* Nothing was ever stored, so only the clock moves.
LEMMA RefuseInv ==
  ASSUME WindowInv, NEW t \in Time, Refuse(t)
  PROVE  WindowInv'
<1>1. /\ Arrive(t) /\ log = <<>>
      /\ ring' = ring /\ overwritten' = overwritten /\ log' = log
  BY DEF Refuse
<1>2. /\ now' \in Time /\ high' \in Time
      /\ now' <= high' /\ high' <= now' + MaxLag
  BY <1>1, ArriveStep
<1>3. Len(log) = 0 /\ ring \in AnyRing
  BY <1>1 DEF WindowInv, TypeOK, AnyRing
<1> DEFINE rl == ring.len
<1>4. rl \in 0 .. MaxEvents /\ rl <= 0
  BY <1>3 DEF WindowInv, RingIsLogSuffix, AnyRing, RingOf
<1>5. rl = 0
  <2> HIDE DEF rl
  <2>1. QED
    BY <1>4, MaxEventsAssumption
<1>6. TypeOK'
  BY <1>1, <1>2 DEF WindowInv, TypeOK
<1>7. RingIsLogSuffix' /\ LossIsCounted' /\ HeadInWindow'
  BY <1>1, <1>3, <1>5 DEF RingIsLogSuffix, LossIsCounted, Gone, HeadInWindow
<1>8. HighIsNewest' /\ LogWithinLag'
  BY <1>1, <1>2, <1>3 DEF HighIsNewest, LogWithinLag
<1>9. QED
  BY <1>6, <1>7, <1>8 DEF WindowInv

\* Every action preserves WindowInv, and so does a stuttering step.
LEMMA NextInv == WindowInv /\ [Next]_vars => WindowInv'
<1> SUFFICES ASSUME WindowInv, [Next]_vars PROVE WindowInv'
  OBVIOUS
<1>1. ASSUME NEW t \in Time, NEW v \in Vals, Observe(t, v) PROVE WindowInv'
  BY <1>1, ObserveInv
<1>2. ASSUME NEW t \in Time, Age(t) PROVE WindowInv'
  BY <1>2, AgeInv
<1>3. ASSUME NEW t \in Time, Refuse(t) PROVE WindowInv'
  BY <1>3, RefuseInv
<1>4. CASE UNCHANGED vars
  BY <1>4 DEF vars, WindowInv, TypeOK, RingIsLogSuffix, LossIsCounted, Gone,
              HighIsNewest, LogWithinLag, HeadInWindow, TsAt, ValAt, SlotOf
<1>5. QED
  BY <1>1, <1>2, <1>3, <1>4 DEF Next

\* WindowInv holds throughout, whatever the capacity, the window and the lag.
THEOREM WindowInvariant == Spec => []WindowInv
<1>1. QED
  BY InitInv, NextInv, PTL DEF Spec

\* The ring's indices stay inside its arrays (the ev_head and ev_len arithmetic
\* of eval_event_count, ev_push_val and ev_prune).
THEOREM WindowTypes == Spec => []TypeOK
<1>1. WindowInv => TypeOK
  BY DEF WindowInv
<1>2. QED
  BY <1>1, WindowInvariant, PTL

\* The circular arrays are a queue of the newest events, values in lockstep.
THEOREM RingIsQueue == Spec => []RingIsLogSuffix
<1>1. WindowInv => RingIsLogSuffix
  BY DEF WindowInv
<1>2. QED
  BY <1>1, WindowInvariant, PTL

\* No event inside the window is forgotten unless events_overwritten counts it.
THEOREM NoSilentLoss == Spec => []LossIsCounted
<1>1. WindowInv => LossIsCounted
  BY DEF WindowInv
<1>2. QED
  BY <1>1, WindowInvariant, PTL

\* A live entry is a logged event that has not left the ring.
LEMMA LiveEntry ==
  ASSUME WindowInv, NEW k \in 0 .. ring.len - 1
  PROVE  /\ Gone + 1 + k \in 1 .. Len(log)
         /\ TsAt(ring, k) = log[Gone + 1 + k].t
         /\ TsAt(ring, k) \in Int
<1> DEFINE rl == ring.len
           n == Len(log)
<1>1. rl \in Int /\ n \in Int /\ rl <= n /\ k \in 0 .. rl - 1
  BY MaxEventsAssumption
     DEF WindowInv, TypeOK, RingIsLogSuffix, RingOf
<1>2. (n - rl) + 1 + k \in 1 .. n
  <2> HIDE DEF rl, n
  <2>1. QED
    BY <1>1
<1>3. Gone + 1 + k \in 1 .. Len(log)
  BY <1>2 DEF Gone
<1>4. TsAt(ring, k) = log[Gone + 1 + k].t
  BY DEF WindowInv, RingIsLogSuffix
<1>5. log[Gone + 1 + k] \in Event
  BY <1>3, ElementOfSeq DEF WindowInv, TypeOK, Event
<1>6. QED
  BY <1>3, <1>4, <1>5, EventType

\* The head is inside the window, and no later entry is further behind it than
\* the lag.
LEMMA StaleBound == WindowInv => StaleWithinLag
<1> SUFFICES ASSUME WindowInv, NEW k \in 0 .. ring.len - 1
             PROVE  TsAt(ring, k) >= now - Span - MaxLag
  BY DEF StaleWithinLag
<1> DEFINE rl == ring.len
           t0 == TsAt(ring, 0)
           tk == TsAt(ring, k)
<1>1. rl \in Int /\ k \in 0 .. rl - 1
  BY MaxEventsAssumption DEF WindowInv, TypeOK, RingOf
<1>2. rl > 0 /\ 0 \in 0 .. rl - 1
  <2> HIDE DEF rl
  <2>1. QED
    BY <1>1
<1>3. t0 >= now - Span /\ t0 \in Int /\ tk \in Int
  BY <1>1, <1>2, LiveEntry DEF WindowInv, HeadInWindow, WindowStart
<1>4. now \in Int /\ Span \in Nat /\ MaxLag \in Nat
  BY WindowAssumption DEF WindowInv, TypeOK, Time
<1>5. tk >= t0 - MaxLag
  <2>1. CASE k = 0
    BY <1>3, <1>4, <2>1
  <2>2. CASE k # 0
    <3>1. /\ Gone + 1 + 0 \in 1 .. Len(log) /\ t0 = log[Gone + 1 + 0].t
          /\ Gone + 1 + k \in 1 .. Len(log) /\ tk = log[Gone + 1 + k].t
      BY <1>1, <1>2, LiveEntry
    <3>2. Gone \in Int
      BY <1>1 DEF Gone, WindowInv, TypeOK
    <3>3. Gone + 1 + 0 < Gone + 1 + k
      BY <1>1, <2>2, <3>2
    <3>4. log[Gone + 1 + k].t >= log[Gone + 1 + 0].t - MaxLag
      BY <3>1, <3>3 DEF WindowInv, LogWithinLag
    <3>5. QED
      BY <3>1, <3>4
  <2>3. QED
    BY <2>1, <2>2
<1> HIDE DEF t0, tk
<1>6. tk >= now - Span - MaxLag
  BY <1>3, <1>4, <1>5
<1>7. QED
  BY <1>6 DEF tk

\* In timestamp order, the entries behind the head are inside the window too, and
\* those that left are outside it or past the capacity.
LEMMA Exact == WindowInv => WindowExact
<1> SUFFICES ASSUME WindowInv, InOrder, NEW i \in 1 .. Len(log)
             PROVE  (i > Gone) <=> (log[i].t >= now - Span
                                    /\ i > Len(log) - MaxEvents)
  BY DEF WindowExact
<1> DEFINE rl == ring.len
           n == Len(log)
           lt == log[i].t
<1>1. /\ rl \in 0 .. MaxEvents /\ n \in Nat /\ i \in 1 .. n
      /\ now \in Int /\ high \in Int /\ Span \in Nat
  BY WindowAssumption DEF WindowInv, TypeOK, RingOf, Time
<1>2. high = now
  BY DEF InOrder
<1>3. lt \in Int
  BY ElementOfSeq, EventType DEF WindowInv, TypeOK, Event
<1>4. ASSUME i > Gone
      PROVE  lt >= now - Span /\ i > n - MaxEvents
  <2> DEFINE k == i - (n - rl + 1)
             tk == TsAt(ring, k)
  <2>1. i > n - rl
    BY <1>4 DEF Gone
  <2>2. k \in 0 .. rl - 1 /\ (n - rl) + 1 + k = i /\ i > n - MaxEvents
    <3> HIDE DEF rl, n
    <3>1. QED
      BY <1>1, <2>1, MaxEventsAssumption
  <2>3. Gone + 1 + k = i
    BY <2>2 DEF Gone
  <2> DEFINE t0 == TsAt(ring, 0)
  <2>4. rl > 0 /\ 0 \in 0 .. rl - 1
    <3> HIDE DEF rl, k
    <3>1. QED
      BY <1>1, <2>2, MaxEventsAssumption
  <2> HIDE DEF k
  <2>5. /\ Gone + 1 + 0 \in 1 .. n /\ t0 = log[Gone + 1 + 0].t /\ t0 \in Int
        /\ tk = lt
    BY <2>2, <2>3, <2>4, LiveEntry
  <2>6. t0 >= now - Span
    BY <2>4 DEF WindowInv, HeadInWindow, WindowStart
  <2>7. t0 <= lt
    <3>1. Gone \in Int /\ i \in Int
      BY <1>1, MaxEventsAssumption DEF Gone
    <3>2. Gone + 1 + 0 = i \/ Gone + 1 + 0 < i
      BY <1>4, <3>1
    <3>3. QED
      BY <1>3, <2>5, <3>2 DEF InOrder
  <2> HIDE DEF t0, lt
  <2>8. lt >= now - Span
    BY <1>1, <1>3, <2>5, <2>6, <2>7
  <2>9. QED
    BY <2>2, <2>8
<1>5. ASSUME lt >= now - Span, i > n - MaxEvents, ~(i > Gone)
      PROVE  FALSE
  <2>1. ~(i > n - rl)
    BY <1>5 DEF Gone
  <2>2. i \in 1 .. n - rl
    <3> HIDE DEF rl, n
    <3>1. QED
      BY <1>1, <2>1, MaxEventsAssumption
  <2>3. lt < high - Span \/ i <= n - MaxEvents
    BY <2>2 DEF WindowInv, LossIsCounted, Gone
  <2> HIDE DEF lt, n
  <2>4. QED
    BY <1>1, <1>2, <1>3, <1>5, <2>3, MaxEventsAssumption
<1>6. QED
  BY <1>4, <1>5

\* The window never counts an event older than the window by more than the lag
\* of the events (ev_prune looks at the head only).
THEOREM StaleIsBounded == Spec => []StaleWithinLag
<1>1. QED
  BY WindowInvariant, StaleBound, PTL

\* When the events came in order, event_count and the aggregates see exactly the
\* events of the window, or the newest MaxEvents of them (ev_prune stopping at
\* the first entry inside the window is then enough).
THEOREM WindowIsExact == Spec => []WindowExact
<1>1. QED
  BY WindowInvariant, Exact, PTL

-----------------------------------------------------------------------------
(***************************************************************************)
(* The circular arrays implement CorrQueue.                                *)
(***************************************************************************)
Live == [t : Int, v : Int]

\* The queue of a ring is a sequence of its live entries.
LEMMA QueueValue ==
  ASSUME NEW r \in AnyRing
  PROVE  /\ QueueOf(r) \in Seq(Live)
         /\ Len(QueueOf(r)) = r.len
         /\ r.len \in 0 .. MaxEvents
         /\ \A k \in 1 .. r.len :
              QueueOf(r)[k] = [t |-> TsAt(r, k - 1), v |-> ValAt(r, k - 1)]
<1>1. r.len \in 0 .. MaxEvents /\ r.ts \in [Slots -> Int] /\ r.val \in [Slots -> Int]
  BY DEF AnyRing, RingOf
<1>2. ASSUME NEW k \in 1 .. r.len
      PROVE  [t |-> TsAt(r, k - 1), v |-> ValAt(r, k - 1)] \in Live
  <2>1. k - 1 \in 0 .. MaxEvents
    BY <1>1, MaxEventsAssumption
  <2>2. TsAt(r, k - 1) \in Int /\ ValAt(r, k - 1) \in Int
    BY <1>1, <2>1, SlotOfValue DEF TsAt, ValAt
  <2>3. QED
    BY <2>2 DEF Live
<1>3. r.len \in Nat
  BY <1>1, MaxEventsAssumption
<1>4. QueueOf(r) \in [1 .. r.len -> Live]
  BY <1>2 DEF QueueOf
<1>5. QueueOf(r) \in Seq(Live) /\ Len(QueueOf(r)) = r.len
  BY <1>3, <1>4
<1>6. QED
  BY <1>1, <1>5 DEF QueueOf

\* Two sequences with the same entries are the same.
LEMMA SameSeq ==
  ASSUME NEW S, NEW a \in Seq(S), NEW b \in Seq(S), Len(a) = Len(b),
         \A i \in 1 .. Len(a) : a[i] = b[i]
  PROVE  a = b
BY SeqEqual

\* The loop of ev_prune takes the stale front of the queue.
LEMMA PruneQueue ==
  ASSUME NEW r \in AnyRing, NEW w \in Int
  PROVE  Queue!Aged(QueueOf(r), QueueOf(Prune(r, w)), w)
<1> DEFINE p == Prune(r, w)
           k == PruneCount(r, w)
           q == QueueOf(r)
           n == r.len
           u == SubSeq(q, k + 1, n)
<1>1. /\ k \in 0 .. n
      /\ \A j \in 0 .. k - 1 : TsAt(r, j) < w
      /\ k < n => TsAt(r, k) >= w
  BY PruneCountValue
<1>2. /\ p \in AnyRing /\ p.len = n - k
      /\ \A j \in 0 .. p.len - 1 : /\ TsAt(p, j) = TsAt(r, k + j)
                                   /\ ValAt(p, j) = ValAt(r, k + j)
  BY PruneRing
<1>3. /\ q \in Seq(Live) /\ Len(q) = n /\ n \in Nat
      /\ \A j \in 1 .. n : q[j] = [t |-> TsAt(r, j - 1), v |-> ValAt(r, j - 1)]
  BY QueueValue, MaxEventsAssumption
<1> HIDE DEF p, k, q, n
<1>4. /\ QueueOf(p) \in Seq(Live) /\ Len(QueueOf(p)) = n - k
      /\ \A j \in 1 .. n - k :
           QueueOf(p)[j] = [t |-> TsAt(p, j - 1), v |-> ValAt(p, j - 1)]
  BY <1>2, QueueValue
<1>5. k \in Nat /\ k <= n
  BY <1>1, <1>3
<1>6. /\ u \in Seq(Live) /\ Len(u) = n - k
      /\ \A j \in 1 .. n - k : u[j] = q[k + j]
  <2>1. k + 1 \in 1 .. n + 1 /\ n \in k .. n
    BY <1>3, <1>5
  <2>2. CASE k = n
    <3>1. u = <<>>
      BY <1>3, <1>5, <2>2
    <3>2. QED
      BY <1>3, <1>5, <2>2, <3>1
  <2>3. CASE k # n
    <3>1. k + 1 \in 1 .. n
      BY <1>3, <1>5, <2>3
    <3>2. QED
      BY <1>3, <1>5, <3>1, SubSeqProperties
  <2>4. QED
    BY <2>2, <2>3
<1>7. ASSUME NEW j \in 1 .. n - k
      PROVE  QueueOf(p)[j] = u[j]
  <2>1. /\ j - 1 \in 0 .. p.len - 1 /\ k + (j - 1) = (k + j) - 1
        /\ k + j \in 1 .. n
    BY <1>2, <1>3, <1>5
  <2>2. /\ TsAt(p, j - 1) = TsAt(r, (k + j) - 1)
        /\ ValAt(p, j - 1) = ValAt(r, (k + j) - 1)
    BY <1>2, <2>1
  <2>3. QED
    BY <1>3, <1>4, <1>6, <2>1, <2>2
<1> HIDE DEF u
<1>8. QueueOf(p) = u
  BY <1>4, <1>6, <1>7, SameSeq
<1>9. \A i \in 1 .. k : q[i].t < w
  <2>1. ASSUME NEW i \in 1 .. k PROVE q[i].t < w
    <3>1. i - 1 \in 0 .. k - 1 /\ i \in 1 .. n
      BY <1>3, <1>5
    <3>2. QED
      BY <1>1, <1>3, <3>1
  <2>2. QED
    BY <2>1
<1>10. k < n => q[k + 1].t >= w
  <2>1. ASSUME k < n PROVE q[k + 1].t >= w
    <3>1. k + 1 \in 1 .. n /\ (k + 1) - 1 = k
      BY <1>3, <1>5, <2>1
    <3>2. QED
      BY <1>1, <1>3, <2>1, <3>1
  <2>2. QED
    BY <2>1
<1>11. k \in 0 .. Len(q) /\ Len(q) = n
  BY <1>3, <1>5
<1>12. QED
  BY <1>8, <1>9, <1>10, <1>11 DEF Queue!Aged, p, q, u

\* Storing joins the event at the back, for the oldest one if the ring is full.
LEMMA StoreQueue ==
  ASSUME NEW r \in AnyRing, NEW t \in Int, NEW v \in Int
  PROVE  QueueOf(Store(r, t, v)) = Queue!Joined(QueueOf(r), [t |-> t, v |-> v])
<1> DEFINE s == Store(r, t, v)
           d == IF IsFull(r) THEN 1 ELSE 0
           q == QueueOf(r)
           n == r.len
           e == [t |-> t, v |-> v]
           j == Queue!Joined(q, e)
<1>1. /\ s \in AnyRing
      /\ s.len = n + 1 - d
      /\ \A i \in 0 .. s.len - 2 : /\ TsAt(s, i) = TsAt(r, i + d)
                                   /\ ValAt(s, i) = ValAt(r, i + d)
      /\ TsAt(s, s.len - 1) = t
      /\ ValAt(s, s.len - 1) = v
  BY StoreRing
<1>2. /\ q \in Seq(Live) /\ Len(q) = n /\ n \in Nat
      /\ \A i \in 1 .. n : q[i] = [t |-> TsAt(r, i - 1), v |-> ValAt(r, i - 1)]
  BY QueueValue, MaxEventsAssumption
<1>3. d \in {0, 1} /\ (d = 1 <=> n = MaxEvents) /\ (d = 1 => n >= 1)
  BY MaxEventsAssumption DEF IsFull
<1>4. e \in Live
  BY DEF Live
<1> HIDE DEF s, d, q, n, e
<1>5. /\ QueueOf(s) \in Seq(Live) /\ Len(QueueOf(s)) = s.len
      /\ \A i \in 1 .. s.len :
           QueueOf(s)[i] = [t |-> TsAt(s, i - 1), v |-> ValAt(s, i - 1)]
  BY <1>1, QueueValue
<1>6. /\ j \in Seq(Live) /\ Len(j) = n + 1 - d
      /\ \A i \in 1 .. n - d : j[i] = q[i + d]
      /\ j[n + 1 - d] = e
  <2>1. CASE d = 1
    <3>1. j = Append(Tail(q), e)
      BY <1>2, <1>3, <2>1 DEF Queue!Joined
    <3>2. /\ Tail(q) \in Seq(Live) /\ Len(Tail(q)) = n - 1
          /\ \A i \in 1 .. n - 1 : Tail(q)[i] = q[i + 1]
      BY <1>2, <1>3, <2>1
    <3> DEFINE a == Tail(q)
    <3> HIDE DEF a
    <3>3. /\ Append(a, e) \in Seq(Live) /\ Len(Append(a, e)) = n
          /\ \A i \in 1 .. n - 1 : Append(a, e)[i] = a[i]
          /\ Append(a, e)[n] = e
      BY <1>2, <1>3, <1>4, <2>1, <3>2 DEF a
    <3>4. QED
      BY <1>2, <2>1, <3>1, <3>2, <3>3 DEF a
  <2>2. CASE d = 0
    <3>1. j = Append(q, e)
      BY <1>2, <1>3, <2>2 DEF Queue!Joined
    <3>2. /\ Append(q, e) \in Seq(Live) /\ Len(Append(q, e)) = n + 1
          /\ \A i \in 1 .. n : Append(q, e)[i] = q[i]
          /\ Append(q, e)[n + 1] = e
      BY <1>2, <1>4
    <3>3. QED
      BY <1>2, <2>2, <3>1, <3>2
  <2>3. QED
    BY <1>3, <2>1, <2>2
<1>7. ASSUME NEW i \in 1 .. n + 1 - d
      PROVE  QueueOf(s)[i] = j[i]
  <2>1. QueueOf(s)[i] = [t |-> TsAt(s, i - 1), v |-> ValAt(s, i - 1)]
    BY <1>1, <1>5
  <2>2. CASE i = n + 1 - d
    BY <1>1, <1>6, <2>1, <2>2 DEF e
  <2>3. CASE i # n + 1 - d
    <3>1. i \in 1 .. n - d /\ i + d \in 1 .. n
      BY <1>2, <1>3, <2>3
    <3>2. i - 1 \in 0 .. s.len - 2 /\ (i - 1) + d = (i + d) - 1
      BY <1>1, <1>2, <1>3, <2>3
    <3>3. /\ TsAt(s, i - 1) = TsAt(r, (i + d) - 1)
          /\ ValAt(s, i - 1) = ValAt(r, (i + d) - 1)
      BY <1>1, <3>2
    <3>4. QED
      BY <1>2, <1>6, <2>1, <3>1, <3>3
  <2>4. QED
    BY <2>2, <2>3
<1> HIDE DEF j
<1>8. QueueOf(s) = j
  BY <1>1, <1>5, <1>6, <1>7, SameSeq
<1>9. QED
  BY <1>8 DEF s, j, q, e

\* A step of the window is a step of the queue, or changes nothing of it.
LEMMA QueueStep ==
  ASSUME WindowInv, [Next]_vars
  PROVE  [Queue!Next]_<<QueueOf(ring), overwritten>>
<1>1. ring \in AnyRing
  BY DEF WindowInv, TypeOK, AnyRing
<1>2. Len(QueueOf(ring)) = MaxEvents <=> IsFull(ring)
  BY <1>1, QueueValue DEF IsFull
<1>3. ASSUME NEW t \in Time, NEW v \in Vals, Observe(t, v)
      PROVE  Queue!Next
  <2>1. t \in Int /\ v \in Int /\ t - Span \in Int
    BY WindowAssumption DEF Time
  <2> DEFINE s == Store(ring, t, v)
  <2>2. s \in AnyRing
    BY <1>1, <2>1, StoreRing
  <2>3. QueueOf(s) = Queue!Joined(QueueOf(ring), [t |-> t, v |-> v])
    BY <1>1, <2>1, StoreQueue
  <2> HIDE DEF s
  <2>4. ring' = Prune(s, t - Span)
    BY <1>3 DEF Observe, Push, WindowStart, s
  <2>5. Queue!Aged(QueueOf(s), QueueOf(ring'), t - Span)
    BY <2>1, <2>2, <2>4, PruneQueue
  <2>6. overwritten' = IF Len(QueueOf(ring)) = MaxEvents THEN overwritten + 1
                       ELSE overwritten
    BY <1>2, <1>3 DEF Observe
  <2>7. QueueOf(ring)' = QueueOf(ring')
    BY DEF QueueOf, TsAt, ValAt, SlotOf
  <2>8. Queue!Observe(t, v)
    BY <2>3, <2>5, <2>6, <2>7 DEF Queue!Observe
  <2>9. QED
    BY <2>8 DEF Queue!Next
<1>4. ASSUME NEW t \in Time, Age(t)
      PROVE  Queue!Next
  <2>1. t - Span \in Int
    BY WindowAssumption DEF Time
  <2>2. ring' = Prune(ring, t - Span) /\ overwritten' = overwritten
    BY <1>4 DEF Age, WindowStart
  <2>3. Queue!Aged(QueueOf(ring), QueueOf(ring'), t - Span)
    BY <1>1, <2>1, <2>2, PruneQueue
  <2>4. QueueOf(ring)' = QueueOf(ring')
    BY DEF QueueOf, TsAt, ValAt, SlotOf
  <2>5. Queue!Age(t)
    BY <2>2, <2>3, <2>4 DEF Queue!Age
  <2>6. QED
    BY <2>5 DEF Queue!Next
<1>5. ASSUME ring' = ring, overwritten' = overwritten
      PROVE  UNCHANGED <<QueueOf(ring), overwritten>>
  BY <1>5 DEF QueueOf, TsAt, ValAt, SlotOf
<1>6. CASE UNCHANGED vars
  BY <1>5, <1>6 DEF vars
<1>7. ASSUME NEW t \in Time, Refuse(t)
      PROVE  UNCHANGED <<QueueOf(ring), overwritten>>
  BY <1>5, <1>7 DEF Refuse
<1>8. QED
  BY <1>3, <1>4, <1>6, <1>7 DEF Next

\* ev_ts, ev_val, ev_head and ev_len implement a bounded queue: an event joins
\* at the back, a full ring gives up exactly its oldest event and counts it, and
\* ev_prune takes exactly the stale front, for every capacity, window and lag.
THEOREM WindowImplementsQueue == Spec => ImplementsQueue
<1>1. Init => Queue!Init
  <2> SUFFICES ASSUME Init PROVE Queue!Init
    OBVIOUS
  <2>1. ring = EmptyRing /\ overwritten = 0
    BY DEF Init
  <2>2. ring \in AnyRing /\ ring.len = 0
    BY <2>1, InitInv DEF WindowInv, TypeOK, AnyRing, EmptyRing
  <2>3. QueueOf(ring) \in Seq(Live) /\ Len(QueueOf(ring)) = 0
    BY <2>2, QueueValue
  <2>4. QueueOf(ring) = <<>>
    BY <2>3, EmptySeq
  <2>5. QED
    BY <2>1, <2>4 DEF Queue!Init
<1>2. WindowInv /\ [Next]_vars => [Queue!Next]_<<QueueOf(ring), overwritten>>
  BY QueueStep
<1>3. QED
  BY <1>1, <1>2, WindowInvariant, PTL DEF Spec, ImplementsQueue, Queue!Spec
=============================================================================
