------------------------- MODULE CorrTemporalProofs -------------------------
(***************************************************************************)
(* The temporal and temporal_ordered types of a group, for every number of *)
(* base rules, every order, table and buffer size, window and slack, and   *)
(* for any sequence of events and contributions.                           *)
(*                                                                         *)
(* What the operators of CorrTemporal do comes first, then the inductive   *)
(* invariants of the state machine.                                        *)
(***************************************************************************)
EXTENDS CorrGroup, CorrRingProofs

-----------------------------------------------------------------------------
\* The invariants.

Entry == [t : Time, hits : SUBSET Bases, v : Vals \cup {NoVal}, n : Nat, remote : BOOLEAN]
Hit   == [ts : Time, rid : Bases]
Steps == [step : 0 .. Len(Order) - 1, anchor : Time, last : Time]

\* The types of what the two temporal types of a group keep.
Types ==
  /\ kind \in Kinds
  /\ clock \in Clocks \cup {"event"}
  /\ hasCond \in BOOLEAN
  /\ DOMAIN seen \subseteq Bases /\ \A b \in DOMAIN seen : seen[b] \in Time
  /\ progress \in Steps
  /\ wm \in Seq(Hit) /\ Len(wm) <= WmCap
  /\ wmMax \in Time
  /\ merge = [n |-> merge.n, sum |-> merge.sum, seen |-> merge.seen]
  /\ merge.seen \subseteq Masked
  /\ log \in Seq(Entry)
  /\ replayed \in Seq(Time)
  /\ lastFire \in 0 .. Len(log)

\* temporal: an observation is the one of an event in the window ...
SeenBacked ==
  \A b \in DOMAIN seen : \E i \in Events :
    /\ ~log[i].remote /\ b \in log[i].hits
    /\ log[i].t = seen[b] /\ InWindow(i)

\* ... in order, and with room for all base rules, the latest one ...
SeenLatest ==
  InOrder /\ NBases <= MaxSeen =>
    \A i \in Events : ~log[i].remote /\ InWindow(i) =>
      \A b \in log[i].hits : b \in DOMAIN seen /\ seen[b] >= log[i].t

\* ... what was merged is what contributions brought, and the verdict is taken on
\* both.
TemporalInv ==
  kind = "temporal" =>
    /\ SeenBacked
    /\ SeenLatest
    /\ merge.seen = UNION {log[i].hits : i \in {j \in Events : log[j].remote}}
    /\ log # <<>> => fires = TemporalHolds(seen, merge.seen, hasCond)

\* temporal_ordered.  f says which events of lg, from the one at first on, brought
\* the first n steps, the first one at anchor and the last one at last.
Carries(f, n, anchor, last, lg, first) ==
  /\ f \in [1 .. n -> first .. Len(lg)]
  /\ \A j \in 1 .. n : Order[j] \in lg[f[j]].hits
  /\ lg[f[1]].t = anchor /\ lg[f[n]].t = last
  /\ \A i, j \in 1 .. n : i < j =>
       /\ clock # "processing" => lg[f[i]].t <= lg[f[j]].t
       /\ clock # "watermark" => f[i] <= f[j]

Traced(p, lg, first) ==
  p.step > 0 => \E f : Carries(f, p.step, p.anchor, p.last, lg, first)

\* A sequence that completed under an event whose window starts at start.
Completes(f, lg, first, start) ==
  /\ f \in [DOMAIN Order -> first .. Len(lg)]
  /\ \A j \in DOMAIN Order : Order[j] \in lg[f[j]].hits
  /\ lg[f[1]].t >= start \/ \A j \in DOMAIN Order : f[j] = f[1]
  /\ \A i, j \in DOMAIN Order : i < j =>
       /\ clock # "processing" => lg[f[i]].t <= lg[f[j]].t
       /\ clock # "watermark" => f[i] <= f[j]
  /\ clock # "watermark" => f[Len(Order)] = Len(lg)

\* No event counts for two fires, unless hits are put back in order.
First == IF clock = "watermark" THEN 1 ELSE lastFire + 1

\* A hit that waits was brought by an event.
Backed(e, lg) == \E i \in 1 .. Len(lg) : lg[i].t = e.ts /\ e.rid \in lg[i].hits

SortedHits(s) == \A i, j \in DOMAIN s : i < j => s[i].ts <= s[j].ts

\* The progress is backed by the log, and so is a verdict to fire.
OrderInv ==
  kind = "temporal_ordered" =>
    /\ Traced(progress, log, First)
    /\ \A i \in DOMAIN wm : Backed(wm[i], log)
    /\ fires => \E f : Completes(f, log, 1, Now - Span)

\* The watermark lies between what was replayed and what waits, and both are in
\* order until the buffer overflows.
WatermarkInv ==
  /\ \A i \in DOMAIN replayed : replayed[i] <= wmMax - Slack
  /\ PendingWithinSlack
  /\ ~lost => SortedHits(wm) /\ Sorted(replayed)

-----------------------------------------------------------------------------
\* The insertion of an event's hits, base rule by base rule.
InsertStaysIn(P, hits, t) == \A w \in P, b \in Bases : InsertOne(w, hits, t, b) \in P

LEMMA InsertTrace ==
  ASSUME NEW P, NEW wm0 \in P, NEW hits, NEW t, InsertStaysIn(P, hits, t)
  PROVE  \E h \in [0 .. NBases -> P] :
           /\ h[0] = wm0
           /\ \A b \in Bases : h[b] = InsertOne(h[b - 1], hits, t, b)
           /\ InsertHits(wm0, hits, t) = h[NBases]
<1> DEFINE all == [b \in Bases |-> b]
           Eq(f) == f = [S \in SUBSET (DOMAIN all) |->
                           IF S = {} THEN wm0
                           ELSE InsertOne(f[S \ {Max(S)}], hits, t, all[Max(S)])]
           it == CHOOSE f : Eq(f)
           g == [x \in P \X (1 .. NBases) |-> InsertOne(x[1], hits, t, x[2])]
<1>1. NBases \in Nat /\ Bases = 1 .. NBases /\ DOMAIN all = 1 .. NBases
  BY TemporalAssumption DEF Bases
<1>2. InsertHits(wm0, hits, t) = it[DOMAIN all]
  BY DEF InsertHits, FoldLeft, MapThenFoldSet
<1>3. g \in [P \X (1 .. NBases) -> P]
  BY <1>1 DEF InsertStaysIn
<1>4. PICK f : Solves(f, P, wm0, g, NBases)
  <2> HIDE DEF g
  <2> QED
    BY <1>1, <1>3, FoldExists
<1>5. \A S \in SUBSET (1 .. NBases) : S # {} => Max(S) \in 1 .. NBases
  <2>1. \A S \in SUBSET (1 .. NBases) : S \in SUBSET (0 .. NBases)
    OBVIOUS
  <2>2. QED
    BY <1>1, <2>1, Greatest
<1>6. \A x \in P, b \in 1 .. NBases : g[<<x, b>>] = InsertOne(x, hits, t, all[b])
  BY <1>1
<1>7. Eq(f)
  <2>1. ASSUME NEW S \in SUBSET (1 .. NBases), S # {}
        PROVE  f[S] = InsertOne(f[S \ {Max(S)}], hits, t, all[Max(S)])
    <3>1. f[S \ {Max(S)}] \in P /\ f[S] = g[<<f[S \ {Max(S)}], Max(S)>>]
      BY <1>4, <2>1 DEF Solves
    <3>2. QED
      BY <1>5, <1>6, <2>1, <3>1
  <2>2. f[{}] = wm0 /\ f = [S \in SUBSET (1 .. NBases) |-> f[S]]
    BY <1>4 DEF Solves
  <2>3. QED
    BY <1>1, <2>1, <2>2
<1>8. Eq(it)
  <2> HIDE DEF Eq
  <2> QED
    BY <1>7
<1>9. it[{}] = wm0
  BY <1>8
<1>10. ASSUME NEW S \in SUBSET (1 .. NBases), S # {}, it[S \ {Max(S)}] \in P
       PROVE  it[S] = g[<<it[S \ {Max(S)}], Max(S)>>]
  <2> HIDE DEF it, g
  <2>1. it[S] = InsertOne(it[S \ {Max(S)}], hits, t, all[Max(S)])
    BY <1>1, <1>8, <1>10
  <2>2. QED
    BY <1>5, <1>6, <1>10, <2>1
<1>11. StepsThrough(it, P, wm0, g, NBases)
  <2> HIDE DEF it, g
  <2>1. Obeys(it, P, wm0, g, NBases)
    BY <1>9, <1>10 DEF Obeys
  <2>2. QED
    BY <1>1, <1>3, <2>1, FoldTrace
<1> DEFINE h == [k \in 0 .. NBases |-> it[1 .. k]]
<1> HIDE DEF it, g
<1>12. ASSUME NEW b \in Bases PROVE h[b] = InsertOne(h[b - 1], hits, t, b)
  <2>1. b \in 1 .. NBases /\ b - 1 \in 0 .. NBases
    BY <1>1
  <2>2. it[1 .. b] = g[<<it[1 .. b - 1], b>>] /\ it[1 .. b - 1] \in P
    BY <1>11, <2>1 DEF StepsThrough
  <2>3. it[1 .. b] = InsertOne(it[1 .. b - 1], hits, t, all[b])
    BY <1>6, <2>1, <2>2
  <2>4. QED
    BY <2>1, <2>3
<1>13. h \in [0 .. NBases -> P] /\ h[0] = wm0 /\ h[NBases] = it[1 .. NBases]
  BY <1>1, <1>11 DEF StepsThrough
<1>14. QED
  <2> HIDE DEF h, all
  <2> QED
    BY <1>1, <1>2, <1>12, <1>13

\* The flush, hit by hit of the buffer.
StartPass(p) == [progress |-> p, fired |-> FALSE, kept |-> <<>>, replayed |-> <<>>]

FlushStaysIn(P, buffer, cutoff, windowStart) ==
  \A x \in P, i \in DOMAIN buffer : FlushOne(x, buffer[i], cutoff, windowStart) \in P

\* The passes of a flush over the first n hits of its buffer, one hit at a time.
FlushRuns(P, p, n, buffer, cutoff, windowStart) ==
  \E h \in [0 .. n -> P] :
    /\ h[0] = StartPass(p)
    /\ \A i \in 1 .. n : h[i] = FlushOne(h[i - 1], buffer[i], cutoff, windowStart)
    /\ Flush(p, buffer, cutoff, windowStart) = h[n]

LEMMA FlushTrace ==
  ASSUME NEW P, NEW p, StartPass(p) \in P,
         NEW n \in Nat, NEW buffer, DOMAIN buffer = 1 .. n, NEW cutoff, NEW windowStart,
         FlushStaysIn(P, buffer, cutoff, windowStart)
  PROVE  FlushRuns(P, p, n, buffer, cutoff, windowStart)
<1> DEFINE Eq(f) == f = [S \in SUBSET (DOMAIN buffer) |->
                           IF S = {} THEN StartPass(p)
                           ELSE FlushOne(f[S \ {Max(S)}], buffer[Max(S)],
                                         cutoff, windowStart)]
           it == CHOOSE f : Eq(f)
           g == [x \in P \X (1 .. n) |-> FlushOne(x[1], buffer[x[2]], cutoff, windowStart)]
<1>1. DOMAIN buffer = 1 .. n
  OBVIOUS
<1>2. Flush(p, buffer, cutoff, windowStart) = it[DOMAIN buffer]
  BY DEF Flush, FoldLeft, MapThenFoldSet, StartPass
<1>3. g \in [P \X (1 .. n) -> P]
  BY <1>1 DEF FlushStaysIn
<1>4. PICK f : Solves(f, P, StartPass(p), g, n)
  <2> HIDE DEF g
  <2> QED
    BY <1>1, <1>3, FoldExists
<1>5. \A S \in SUBSET (1 .. n) : S # {} => Max(S) \in 1 .. n
  <2>1. \A S \in SUBSET (1 .. n) : S \in SUBSET (0 .. n)
    OBVIOUS
  <2>2. QED
    BY <1>1, <2>1, Greatest
<1>6. \A x \in P, i \in 1 .. n : g[<<x, i>>] = FlushOne(x, buffer[i], cutoff, windowStart)
  BY <1>1
<1>7. Eq(f)
  <2>1. ASSUME NEW S \in SUBSET (1 .. n), S # {}
        PROVE  f[S] = FlushOne(f[S \ {Max(S)}], buffer[Max(S)], cutoff, windowStart)
    <3>1. f[S \ {Max(S)}] \in P /\ f[S] = g[<<f[S \ {Max(S)}], Max(S)>>]
      BY <1>4, <2>1 DEF Solves
    <3>2. QED
      BY <1>5, <1>6, <2>1, <3>1
  <2>2. f[{}] = StartPass(p) /\ f = [S \in SUBSET (1 .. n) |-> f[S]]
    BY <1>4 DEF Solves
  <2>3. QED
    BY <1>1, <2>1, <2>2
<1>8. Eq(it)
  <2> HIDE DEF Eq
  <2> QED
    BY <1>7
<1>9. it[{}] = StartPass(p)
  BY <1>8
<1>10. ASSUME NEW S \in SUBSET (1 .. n), S # {}, it[S \ {Max(S)}] \in P
       PROVE  it[S] = g[<<it[S \ {Max(S)}], Max(S)>>]
  <2> HIDE DEF it, g
  <2>1. it[S] = FlushOne(it[S \ {Max(S)}], buffer[Max(S)], cutoff, windowStart)
    BY <1>1, <1>8, <1>10
  <2>2. QED
    BY <1>5, <1>6, <1>10, <2>1
<1>11. StepsThrough(it, P, StartPass(p), g, n)
  <2> HIDE DEF it, g
  <2>1. Obeys(it, P, StartPass(p), g, n)
    BY <1>9, <1>10 DEF Obeys
  <2>2. QED
    BY <1>1, <1>3, <2>1, FoldTrace
<1> DEFINE h == [k \in 0 .. n |-> it[1 .. k]]
<1> HIDE DEF it, g
<1>12. ASSUME NEW i \in 1 .. n 
       PROVE  h[i] = FlushOne(h[i - 1], buffer[i], cutoff, windowStart)
  <2>1. i \in 1 .. n /\ i - 1 \in 0 .. n
    BY <1>1
  <2>2. it[1 .. i] = g[<<it[1 .. i - 1], i>>] /\ it[1 .. i - 1] \in P
    BY <1>11, <2>1 DEF StepsThrough
  <2>3. it[1 .. i] = FlushOne(it[1 .. i - 1], buffer[i], cutoff, windowStart)
    BY <1>6, <2>1, <2>2
  <2>4. QED
    BY <2>1, <2>3
<1>13. h \in [0 .. n -> P] /\ h[0] = StartPass(p) /\ h[n] = it[1 .. n]
  BY <1>1, <1>11 DEF StepsThrough
<1>14. QED
  <2> HIDE DEF h
  <2> QED
    BY <1>1, <1>2, <1>12, <1>13 DEF FlushRuns

-----------------------------------------------------------------------------
\* The progress through the order.

LEMMA OrderLength ==
  /\ Len(Order) \in Nat \ {0} /\ DOMAIN Order = 1 .. Len(Order)
  /\ \A j \in 1 .. Len(Order) : Order[j] \in Bases
<1>1. Order \in Seq(Bases) /\ Order # <<>>
  BY TemporalAssumption
<1>2. QED
  BY <1>1

\* The steps one set of hits satisfies in a row are steps of the order.
LEMMA StepsInValue ==
  ASSUME NEW p \in Steps, NEW hits
  PROVE  /\ StepsIn(p, hits) \in 0 .. Len(Order) - p.step
         /\ \A i \in 1 .. StepsIn(p, hits) : Order[p.step + i] \in hits
<1> DEFINE S == {n \in 0 .. Len(Order) - p.step :
                   \A i \in 1 .. n : Order[p.step + i] \in hits}
<1>1. Len(Order) - p.step \in Nat
  BY OrderLength DEF Steps
<1>2. S \in SUBSET (0 .. Len(Order) - p.step) /\ 0 \in S
  BY <1>1
<1>3. Max(S) \in S
  <2> HIDE DEF S
  <2> QED
    BY <1>1, <1>2, Greatest
<1>4. QED
  BY <1>3 DEF StepsIn

LEMMA RuleFacts ==
  ASSUME kind \in Kinds
  PROVE  /\ Settings[kind].lastTime \in Nat /\ Span \in Nat \ {0}
         /\ Time \subseteq Nat /\ 0 \in Time
         /\ Slack \in Nat \ {0}
BY GroupAssumption DEF Time, Span

LEMMA AgedOutSteps ==
  ASSUME kind \in Kinds, NEW p \in Steps, NEW start \in Int
  PROVE  AgedOut(p, start) \in Steps
<1>1. NoProgress \in Steps
  BY RuleFacts, OrderLength DEF NoProgress, Steps
<1>2. QED
  BY <1>1 DEF AgedOut

LEMMA AdvanceSteps ==
  ASSUME kind \in Kinds, NEW p \in Steps, NEW hits, NEW t \in Time,
         NEW start \in Int, NEW eventTime \in BOOLEAN
  PROVE  /\ Advance(p, hits, t, start, eventTime).progress \in Steps
         /\ Advance(p, hits, t, start, eventTime).fired \in BOOLEAN
<1> DEFINE q == AgedOut(p, start)
           n == IF MayAdvance(q, t, eventTime) THEN StepsIn(q, hits) ELSE 0
           r == [step   |-> q.step + n,
                 anchor |-> IF q.step = 0 /\ n > 0 THEN t ELSE q.anchor,
                 last   |-> IF n > 0 THEN t ELSE q.last]
<1>1. q \in Steps /\ NoProgress \in Steps
  <2>1. NoProgress \in Steps
    BY RuleFacts, OrderLength DEF NoProgress, Steps
  <2>2. QED
    BY <2>1, AgedOutSteps
<1>2. n \in 0 .. Len(Order) - q.step
  <2> HIDE DEF q
  <2>1. StepsIn(q, hits) \in 0 .. Len(Order) - q.step
    BY <1>1, StepsInValue
  <2>2. Len(Order) - q.step \in Nat
    BY <1>1, OrderLength DEF Steps
  <2>3. QED
    BY <2>1, <2>2
<1>3. r.step < Len(Order) => r \in Steps
  <2> HIDE DEF q, n
  <2> QED
    BY <1>1, <1>2, OrderLength DEF Steps
<1>4. Advance(p, hits, t, start, eventTime)
        = IF r.step >= Len(Order) THEN [progress |-> NoProgress, fired |-> TRUE]
                                  ELSE [progress |-> r, fired |-> FALSE]
  BY DEF Advance
<1>5. r.step \in Nat
  <2> HIDE DEF q, n
  <2> QED
    BY <1>1, <1>2, OrderLength DEF Steps
<1>6. QED
  <2> HIDE DEF r
  <2> QED
    BY <1>1, <1>3, <1>4, <1>5, OrderLength

\* Event k brings the steps s + 1 .. m in a row.
Extended(f, s, k, m) == [j \in 1 .. m |-> IF j <= s THEN f[j] ELSE k]

LEMMA CarryOn ==
  ASSUME NEW s \in Nat, NEW m \in Nat, s < m,
         NEW lg, Len(lg) \in Nat, \A e \in 1 .. Len(lg) : lg[e].t \in Nat,
         NEW first \in Nat \ {0}, NEW k \in first .. Len(lg),
         \A j \in s + 1 .. m : Order[j] \in lg[k].hits,
         clock = "watermark" \/ k = Len(lg),
         NEW f, NEW anchor, NEW last \in Nat,
         s > 0 => Carries(f, s, anchor, last, lg, first),
         s > 0 /\ clock # "processing" => lg[k].t >= last
  PROVE  Carries(Extended(f, s, k, m), m, IF s = 0 THEN lg[k].t ELSE anchor, lg[k].t,
                 lg, first)
<1> DEFINE h == Extended(f, s, k, m)
<1>1. lg[k].t \in Nat
  OBVIOUS
<1>2. \A j \in 1 .. m : j <= s => h[j] = f[j] /\ j \in 1 .. s
  BY DEF Extended
<1>3. \A j \in 1 .. m : ~(j <= s) => h[j] = k /\ Order[j] \in lg[k].hits
  BY DEF Extended
<1> HIDE DEF h
<1>4. ASSUME NEW j \in 1 .. m
      PROVE  h[j] \in first .. Len(lg) /\ Order[j] \in lg[h[j]].hits
  <2>1. CASE j <= s
    <3>1. j \in 1 .. s /\ h[j] = f[j] /\ Carries(f, s, anchor, last, lg, first)
      BY <1>2, <2>1
    <3>2. QED
      BY <3>1 DEF Carries
  <2>2. CASE ~(j <= s)
    BY <1>3, <2>2
  <2>3. QED
    BY <2>1, <2>2
<1>5. h \in [1 .. m -> first .. Len(lg)]
  BY <1>4 DEF h, Extended
<1>6. lg[h[m]].t = lg[k].t
  BY <1>3
<1>7. lg[h[1]].t = IF s = 0 THEN lg[k].t ELSE anchor
  <2>1. CASE s = 0
    BY <1>1, <1>3, <2>1
  <2>2. CASE s > 0
    <3>1. h[1] = f[1]
      BY <1>1, <1>2, <2>2
    <3>2. QED
      BY <2>2, <3>1 DEF Carries
  <2>3. QED
    BY <2>1, <2>2
<1>8. ASSUME NEW i \in 1 .. m, NEW j \in 1 .. m, i < j
      PROVE  /\ clock # "processing" => lg[h[i]].t <= lg[h[j]].t
             /\ clock # "watermark" => h[i] <= h[j]
  <2>1. CASE j <= s
    <3>1. /\ i \in 1 .. s /\ j \in 1 .. s /\ h[i] = f[i] /\ h[j] = f[j]
          /\ Carries(f, s, anchor, last, lg, first)
      BY <1>2, <1>8, <2>1
    <3>2. QED
      BY <1>8, <3>1 DEF Carries
  <2>2. CASE ~(i <= s)
    <3>1. h[i] = k /\ h[j] = k
      BY <1>3, <1>8, <2>2
    <3>2. QED
      BY <3>1
  <2>3. CASE i <= s /\ ~(j <= s)
    <3>1. /\ s > 0 /\ i \in 1 .. s /\ s \in 1 .. s /\ h[i] = f[i] /\ h[j] = k
          /\ Carries(f, s, anchor, last, lg, first)
      BY <1>2, <1>3, <2>3
    <3>2. ASSUME clock # "watermark" PROVE f[i] <= k
      <4>1. f[i] \in first .. Len(lg) /\ k = Len(lg)
        BY <3>1, <3>2 DEF Carries
      <4>2. QED
        BY <4>1
    <3>3. ASSUME clock # "processing" PROVE lg[f[i]].t <= lg[k].t
      <4>1. last <= lg[k].t /\ lg[f[s]].t = last
        BY <3>1, <3>3 DEF Carries
      <4>2. CASE i = s
        BY <4>1, <4>2
      <4>3. CASE i < s
        <5>1. lg[f[i]].t <= lg[f[s]].t
          BY <3>1, <3>3, <4>3 DEF Carries
        <5>2. f[i] \in first .. Len(lg)
          BY <1>4, <3>1
        <5>3. QED
          BY <4>1, <5>1, <5>2
      <4>4. QED
        BY <3>1, <4>2, <4>3
    <3>4. QED
      BY <3>1, <3>2, <3>3
  <2>4. QED
    BY <1>8, <2>1, <2>2, <2>3
<1>9. QED
  BY <1>4, <1>5, <1>6, <1>7, <1>8 DEF h, Carries

\* One set of hits, those of event k, is offered: the log carries the progress that
\* is left, and the sequence it completes.
LEMMA AdvanceTraces ==
  ASSUME kind \in Kinds, NEW p \in Steps,
         NEW lg, Len(lg) \in Nat, \A e \in 1 .. Len(lg) : lg[e].t \in Nat,
         NEW first \in Nat \ {0}, NEW k \in first .. Len(lg),
         NEW hits, hits \subseteq lg[k].hits, NEW t \in Nat, lg[k].t = t,
         clock = "watermark" \/ k = Len(lg),
         NEW start \in Int, Traced(p, lg, first),
         NEW a, a = Advance(p, hits, t, start, clock # "processing")
  PROVE  /\ Traced(a.progress, lg, first)
         /\ a.fired => \E f : Completes(f, lg, first, start)
<1>1. PICK q : q = AgedOut(p, start)
  OBVIOUS
<1>2. q \in Steps /\ Traced(q, lg, first) /\ (q.step > 0 => q.anchor >= start)
  <2>1. q \in Steps
    BY <1>1, AgedOutSteps
  <2>2. q = p \/ q = NoProgress
    BY <1>1 DEF AgedOut
  <2>3. Traced(q, lg, first)
    BY <2>2 DEF NoProgress, Traced
  <2>4. q.step > 0 => q.anchor >= start
    BY <1>1, RuleFacts DEF AgedOut, NoProgress, Steps
  <2>5. QED
    BY <2>1, <2>3, <2>4
<1>3. PICK n : n = IF MayAdvance(q, t, clock # "processing") THEN StepsIn(q, hits) ELSE 0
  OBVIOUS
<1>4. /\ q.step \in Nat /\ q.step < Len(Order) /\ Len(Order) \in Nat \ {0}
      /\ q.anchor \in Nat /\ q.last \in Nat
  BY <1>2, OrderLength, RuleFacts DEF Steps
<1>5. n \in Nat /\ q.step + n <= Len(Order) /\ \A i \in 1 .. n : Order[q.step + i] \in hits
  <2>1. /\ StepsIn(q, hits) \in 0 .. Len(Order) - q.step
        /\ \A i \in 1 .. StepsIn(q, hits) : Order[q.step + i] \in hits
    BY <1>2, StepsInValue
  <2>2. CASE n = StepsIn(q, hits)
    <3>1. n \in 0 .. Len(Order) - q.step
      BY <2>1, <2>2
    <3>2. n \in Nat /\ q.step + n <= Len(Order)
      BY <1>4, <3>1
    <3>3. QED
      BY <2>1, <2>2, <3>2
  <2>3. CASE n = 0
    BY <1>4, <2>3
  <2>4. QED
    BY <1>3, <2>2, <2>3
<1>6. n > 0 /\ q.step > 0 /\ clock # "processing" => t >= q.last
  BY <1>3 DEF MayAdvance
<1>7. PICK r : r = [step   |-> q.step + n,
                    anchor |-> IF q.step = 0 /\ n > 0 THEN t ELSE q.anchor,
                    last   |-> IF n > 0 THEN t ELSE q.last]
  OBVIOUS
<1>8. a = IF r.step >= Len(Order) THEN [progress |-> NoProgress, fired |-> TRUE]
                                  ELSE [progress |-> r, fired |-> FALSE]
  BY <1>1, <1>3, <1>7 DEF Advance
<1>9. CASE n = 0
  <2>1. r = q
    BY <1>2, <1>4, <1>7, <1>9 DEF Steps
  <2>2. ~(r.step >= Len(Order))
    BY <1>4, <2>1
  <2>3. a = [progress |-> q, fired |-> FALSE]
    BY <1>8, <2>1, <2>2
  <2>4. QED
    BY <1>2, <2>3
<1>10. CASE n > 0
  <2>1. PICK m : m = q.step + n
    OBVIOUS
  <2>2. PICK f : q.step > 0 => Carries(f, q.step, q.anchor, q.last, lg, first)
    BY <1>2 DEF Traced
  <2>3. PICK h : h = Extended(f, q.step, k, m)
    OBVIOUS
  <2>4. \A i \in 1 .. n : Order[q.step + i] \in lg[k].hits
    BY <1>5
  <2>5. /\ Carries(h, m, IF q.step = 0 THEN t ELSE q.anchor, t, lg, first)
        /\ h[m] = k
    <3>1. PICK s, anchor, last : s = q.step /\ anchor = q.anchor /\ last = q.last
      OBVIOUS
    <3>2. s \in Nat /\ m \in Nat /\ s < m /\ last \in Nat
      BY <1>4, <1>5, <1>10, <2>1, <3>1
    <3>3. s > 0 => Carries(f, s, anchor, last, lg, first)
      BY <2>2, <3>1
    <3>4. \A j \in s + 1 .. m : Order[j] \in lg[k].hits
      <4>1. ASSUME NEW j \in s + 1 .. m PROVE Order[j] \in lg[k].hits
        <5>1. n \in Nat /\ m = s + n
          BY <1>5, <2>1, <3>1
        <5>2. j - s \in 1 .. n /\ s + (j - s) = j
          BY <3>2, <5>1
        <5>3. QED
          BY <2>4, <3>1, <5>2
      <4>2. QED
        BY <4>1
    <3>5. s > 0 /\ clock # "processing" => lg[k].t >= last
      BY <1>6, <1>10, <3>1
    <3>6. Carries(Extended(f, s, k, m), m, IF s = 0 THEN lg[k].t ELSE anchor, lg[k].t,
                  lg, first)
      BY <3>2, <3>3, <3>4, <3>5, CarryOn
    <3>7. Extended(f, s, k, m)[m] = k
      BY <3>2 DEF Extended
    <3>8. QED
      BY <2>3, <3>1, <3>6, <3>7
  <2>6. /\ r.step = m /\ r.last = t
        /\ r.anchor = IF q.step = 0 THEN t ELSE q.anchor
    BY <1>4, <1>7, <1>10, <2>1
  <2>7. CASE m >= Len(Order)
    <3>1. m = Len(Order) /\ a = [progress |-> NoProgress, fired |-> TRUE]
      <4>1. m = Len(Order)
        BY <1>4, <1>5, <2>1, <2>7
      <4>2. r.step >= Len(Order)
        BY <2>6, <2>7
      <4>3. QED
        BY <1>8, <4>1, <4>2
    <3>2. Traced(a.progress, lg, first)
      BY <3>1 DEF Traced, NoProgress
    <3>3. lg[h[1]].t >= start \/ \A j \in DOMAIN Order : h[j] = h[1]
      <4>1. CASE q.step = 0
        <5>1. \A j \in 1 .. m : h[j] = k
          BY <2>3, <4>1 DEF Extended
        <5>2. QED
          BY <1>4, <3>1, <5>1, OrderLength
      <4>2. CASE q.step > 0
        BY <1>2, <2>5, <4>2 DEF Carries
      <4>3. QED
        BY <1>4, <4>1, <4>2
    <3>4. Completes(h, lg, first, start)
      BY <2>5, <3>1, <3>3, OrderLength DEF Completes, Carries
    <3>5. QED
      BY <3>2, <3>4
  <2>8. CASE ~(m >= Len(Order))
    <3>1. a = [progress |-> r, fired |-> FALSE]
      BY <1>8, <2>6, <2>8
    <3>2. Carries(h, r.step, r.anchor, r.last, lg, first)
      BY <2>5, <2>6
    <3>3. QED
      BY <3>1, <3>2 DEF Traced
  <2>9. QED
    BY <2>7, <2>8
<1>11. QED
  BY <1>5, <1>9, <1>10

-----------------------------------------------------------------------------
\* The watermark buffer.

LEMMA InsertAtValue ==
  ASSUME NEW S, NEW s \in Seq(S), NEW e \in S, NEW n \in 1 .. Len(s) + 1
  PROVE  /\ InsertAt(s, n, e) \in Seq(S)
         /\ Len(InsertAt(s, n, e)) = Len(s) + 1
         /\ \A i \in 1 .. n - 1 : InsertAt(s, n, e)[i] = s[i]
         /\ InsertAt(s, n, e)[n] = e
         /\ \A i \in n + 1 .. Len(s) + 1 : InsertAt(s, n, e)[i] = s[i - 1]
<1>0. PICK k \in 0 .. Len(s) : n = k + 1 /\ k = n - 1
  <2>1. n - 1 \in 0 .. Len(s) /\ n = (n - 1) + 1
    OBVIOUS
  <2>2. QED
    BY <2>1
<1> DEFINE a == SubSeq(s, 1, k)
           z == SubSeq(s, k + 1, Len(s))
<1>1. a \in Seq(S) /\ Len(a) = k /\ \A i \in 1 .. k : a[i] = s[i]
  BY SubSeqProperties
<1>2. z \in Seq(S) /\ Len(z) = Len(s) - k /\ \A i \in 1 .. Len(s) - k : z[i] = s[k + i]
  BY SubSeqProperties
<1>3. InsertAt(s, n, e) = a \o <<e>> \o z
  BY <1>0 DEF InsertAt
<1> HIDE DEF a, z
<1>4. PICK b : b = Append(a, e)
  OBVIOUS
<1>5. b \in Seq(S) /\ Len(b) = k + 1 /\ b[k + 1] = e /\ \A i \in 1 .. k : b[i] = s[i]
  BY <1>1, <1>4
<1>6. /\ b \o z \in Seq(S) /\ Len(b \o z) = Len(b) + Len(z)
      /\ \A i \in 1 .. Len(b) + Len(z) :
           (b \o z)[i] = IF i <= Len(b) THEN b[i] ELSE z[i - Len(b)]
  BY <1>2, <1>5, ConcatProperties
<1>7. Len(b) + Len(z) = Len(s) + 1 /\ \A i \in 1 .. k + 1 : (b \o z)[i] = b[i]
  BY <1>2, <1>5, <1>6
<1>8. ASSUME NEW i \in k + 2 .. Len(s) + 1 PROVE (b \o z)[i] = s[i - 1]
  <2>1. (b \o z)[i] = z[i - (k + 1)]
    BY <1>2, <1>5, <1>6
  <2>2. i - (k + 1) \in 1 .. Len(s) - k /\ k + (i - (k + 1)) = i - 1
    OBVIOUS
  <2>3. QED
    BY <1>2, <2>1, <2>2
<1>9. InsertAt(s, n, e) = b \o z
  <2>1. a \o <<e>> = b
    BY <1>1, <1>4
  <2>2. QED
    BY <1>3, <2>1
<1>10. /\ n \in 1 .. k + 1 /\ 1 .. n - 1 \subseteq 1 .. k + 1
       /\ n + 1 .. Len(s) + 1 = k + 2 .. Len(s) + 1
  BY <1>0
<1>11. QED
  BY <1>0, <1>5, <1>6, <1>7, <1>8, <1>9, <1>10

\* A full buffer loses one hit and its order; any other stays as it is.
LEMMA MakeWmRoomValue ==
  ASSUME kind \in Kinds, NEW b \in Seq(Hit), Len(b) <= WmCap
  PROVE  /\ MakeWmRoom(b) \in Seq(Hit) /\ Len(MakeWmRoom(b)) < WmCap
         /\ \A i \in DOMAIN MakeWmRoom(b) : \E j \in DOMAIN b : MakeWmRoom(b)[i] = b[j]
         /\ Len(b) < WmCap => MakeWmRoom(b) = b
<1>1. WmCap \in Nat \ {0}
  BY TemporalAssumption
<1>2. CASE Len(b) < WmCap
  BY <1>1, <1>2 DEF MakeWmRoom
<1>3. CASE ~(Len(b) < WmCap)
  <2>1. Len(b) = WmCap
    BY <1>1, <1>3
  <2>2. PICK o : MakeWmRoom(b) = SubSeq([b EXCEPT ![o] = b[Len(b)]], 1, Len(b) - 1)
    BY <1>1, <2>1 DEF MakeWmRoom
  <2>3. PICK c : c = [b EXCEPT ![o] = b[Len(b)]]
    OBVIOUS
  <2>4. c \in Seq(Hit) /\ Len(c) = Len(b)
        /\ \A i \in 1 .. Len(b) : c[i] = b[i] \/ c[i] = b[Len(b)]
    <3>1. b[Len(b)] \in Hit
      BY <1>1, <2>1
    <3>2. c = [i \in 1 .. Len(b) |-> IF i = o THEN b[Len(b)] ELSE b[i]]
      <4>1. b \in [1 .. Len(b) -> Hit]
        OBVIOUS
      <4>2. QED
        BY ONLY <2>3, <4>1
    <3>3. \A i \in 1 .. Len(b) : c[i] \in Hit
      BY <3>1, <3>2
    <3>4. QED
      BY <3>2, <3>3
  <2>5. PICK n : n = Len(b) - 1 /\ n \in Nat /\ n < Len(b)
    BY <1>1, <2>1
  <2>6. SubSeq(c, 1, n) \in Seq(Hit) /\ Len(SubSeq(c, 1, n)) = n
        /\ \A i \in 1 .. n : SubSeq(c, 1, n)[i] = c[i]
    BY <2>4, <2>5, SubSeqProperties
  <2>7. MakeWmRoom(b) = SubSeq(c, 1, n)
    BY <2>2, <2>3, <2>5
  <2>8. QED
    BY <1>1, <2>1, <2>4, <2>5, <2>6, <2>7
<1>4. QED
  BY <1>2, <1>3

\* wm_insert adds the hit; with room to spare it keeps a sorted buffer sorted.
LEMMA WmInsertValue ==
  ASSUME kind \in Kinds, NEW b \in Seq(Hit), Len(b) <= WmCap,
         NEW t \in Time, NEW rid \in Bases
  PROVE  /\ WmInsert(b, t, rid) \in Seq(Hit) /\ Len(WmInsert(b, t, rid)) <= WmCap
         /\ \A i \in DOMAIN WmInsert(b, t, rid) :
              \/ \E j \in DOMAIN b : WmInsert(b, t, rid)[i] = b[j]
              \/ WmInsert(b, t, rid)[i] = [ts |-> t, rid |-> rid]
         /\ Len(b) < WmCap => /\ Len(WmInsert(b, t, rid)) = Len(b) + 1
                              /\ SortedHits(b) => SortedHits(WmInsert(b, t, rid))
<1>1. WmCap \in Nat \ {0} /\ Time \subseteq Nat
  BY TemporalAssumption, RuleFacts
<1>2. PICK w : w = MakeWmRoom(b)
  OBVIOUS
<1>3. /\ w \in Seq(Hit) /\ Len(w) < WmCap
      /\ \A i \in DOMAIN w : \E j \in DOMAIN b : w[i] = b[j]
      /\ Len(b) < WmCap => w = b
  BY <1>2, MakeWmRoomValue
<1> DEFINE S == {i \in 0 .. Len(w) : i = 0 \/ w[i].ts <= t}
           k == Max(S)
           e == [ts |-> t, rid |-> rid]
           r == InsertAt(w, k + 1, e)
<1>4. k \in S /\ \A i \in S : i <= k
  <2>1. Len(w) \in Nat /\ S \in SUBSET (0 .. Len(w)) /\ 0 \in S
    BY <1>3
  <2>2. QED
    <3> HIDE DEF S
    <3> QED
      BY <2>1, Greatest
<1>5. WmInsert(b, t, rid) = r
  BY <1>2 DEF WmInsert
<1>6. k \in 0 .. Len(w) /\ e \in Hit
  BY <1>4 DEF Hit
<1>7. k = 0 \/ w[k].ts <= t
  BY <1>4
<1>8. ASSUME NEW i \in 1 .. Len(w), i > k PROVE ~(w[i].ts <= t)
  <2>1. w[i].ts <= t => i \in S
    OBVIOUS
  <2>2. QED
    BY <1>4, <1>6, <1>8, <2>1
<1> HIDE DEF S, k, e
<1>9. /\ r \in Seq(Hit) /\ Len(r) = Len(w) + 1
      /\ \A i \in 1 .. k : r[i] = w[i]
      /\ r[k + 1] = e
      /\ \A i \in k + 2 .. Len(w) + 1 : r[i] = w[i - 1]
  <2>1. PICK n : n = k + 1
    OBVIOUS
  <2>2. /\ w \in Seq(Hit) /\ e \in Hit /\ n \in 1 .. Len(w) + 1
        /\ k = n - 1 /\ n + 1 = k + 2 /\ n = k + 1
    BY <1>3, <1>6, <2>1
  <2>3. /\ InsertAt(w, n, e) \in Seq(Hit)
        /\ Len(InsertAt(w, n, e)) = Len(w) + 1
        /\ \A i \in 1 .. n - 1 : InsertAt(w, n, e)[i] = w[i]
        /\ InsertAt(w, n, e)[n] = e
        /\ \A i \in n + 1 .. Len(w) + 1 : InsertAt(w, n, e)[i] = w[i - 1]
    BY <2>2, InsertAtValue
  <2>4. QED
    BY <2>2, <2>3
<1> HIDE DEF r
<1>10. ASSUME NEW i \in DOMAIN r
       PROVE  (\E j \in DOMAIN b : r[i] = b[j]) \/ r[i] = e
  <2>1. i \in 1 .. Len(w) + 1 /\ Len(w) \in Nat
    BY <1>3, <1>9, <1>10
  <2>2. CASE i \in 1 .. k
    <3>1. i \in DOMAIN w
      BY <1>3, <1>6, <2>2
    <3>2. QED
      BY <1>3, <1>9, <2>2, <3>1
  <2>3. CASE i \in k + 2 .. Len(w) + 1
    <3>1. i - 1 \in DOMAIN w
      BY <1>3, <1>6, <2>3
    <3>2. QED
      BY <1>3, <1>9, <2>3, <3>1
  <2>4. CASE i = k + 1
    BY <1>9, <2>4
  <2>5. QED
    BY <1>6, <2>1, <2>2, <2>3, <2>4
<1>11. ASSUME SortedHits(w) PROVE SortedHits(r)
  <2>1. \A i \in 1 .. Len(w) : w[i].ts \in Nat
    <3>1. \A i \in 1 .. Len(w) : w[i] \in Hit
      BY <1>3
    <3>2. \A x \in Hit : x.ts \in Nat
      BY <1>1 DEF Hit
    <3>3. QED
      BY <3>1, <3>2
  <2>2. \A i \in 1 .. k : w[i].ts <= t
    <3>1. ASSUME NEW i \in 1 .. k PROVE w[i].ts <= t
      <4>1. i \in 1 .. Len(w) /\ k \in 1 .. Len(w) /\ w[k].ts <= t
        BY <1>3, <1>6, <1>7
      <4>2. i = k \/ w[i].ts <= w[k].ts
        BY <1>3, <1>6, <1>11, <4>1 DEF SortedHits
      <4>3. QED
        BY <1>1, <2>1, <4>1, <4>2
    <3>2. QED
      BY <3>1
  <2>3. e.ts = t /\ t \in Nat
    BY <1>1 DEF e
  <2>4. ASSUME NEW i \in DOMAIN r, NEW j \in DOMAIN r, i < j
        PROVE  r[i].ts <= r[j].ts
    <3>1. i \in 1 .. Len(w) + 1 /\ j \in 1 .. Len(w) + 1 /\ Len(w) \in Nat
      BY <1>3, <1>9, <2>4
    <3>2. CASE j <= k
      <4>1. i \in 1 .. k /\ j \in 1 .. k /\ i \in DOMAIN w /\ j \in DOMAIN w
        BY <1>3, <1>6, <2>4, <3>1, <3>2
      <4>2. QED
        BY <1>9, <1>11, <2>4, <4>1 DEF SortedHits
    <3>3. CASE i > k + 1
      <4>1. /\ i \in k + 2 .. Len(w) + 1 /\ j \in k + 2 .. Len(w) + 1
            /\ i - 1 \in DOMAIN w /\ j - 1 \in DOMAIN w /\ i - 1 < j - 1
        BY <1>3, <1>6, <2>4, <3>1, <3>3
      <4>2. QED
        BY <1>9, <1>11, <4>1 DEF SortedHits
    <3>4. CASE i <= k + 1 /\ j > k
      <4>1. r[i].ts <= t
        <5>1. CASE i = k + 1
          BY <1>9, <2>3, <5>1
        <5>2. CASE i \in 1 .. k
          BY <1>9, <2>2, <5>2
        <5>3. QED
          BY <1>6, <3>1, <3>4, <5>1, <5>2
      <4>2. t <= r[j].ts
        <5>1. CASE j = k + 1
          BY <1>9, <2>3, <5>1
        <5>2. CASE j \in k + 2 .. Len(w) + 1
          <6>1. j - 1 \in 1 .. Len(w) /\ j - 1 > k /\ r[j] = w[j - 1]
            BY <1>6, <1>9, <3>1, <5>2
          <6>2. ~(w[j - 1].ts <= t) /\ w[j - 1].ts \in Nat
            BY <1>8, <2>1, <6>1
          <6>3. QED
            BY <2>3, <6>1, <6>2
        <5>3. QED
          BY <1>6, <3>1, <3>4, <5>1, <5>2
      <4>3. r[i].ts \in Nat /\ r[j].ts \in Nat
        <5>1. r[i] \in Hit /\ r[j] \in Hit
          BY <1>9, <2>4
        <5>2. QED
          BY <1>1, <5>1 DEF Hit
      <4>4. QED
        BY <2>3, <4>1, <4>2, <4>3
    <3>5. QED
      BY <1>6, <2>4, <3>1, <3>2, <3>3, <3>4
  <2>5. QED
    BY <2>4 DEF SortedHits
<1>12. QED
  <2>1. Len(r) <= WmCap
    BY <1>1, <1>3, <1>9
  <2>2. QED
    BY <1>3, <1>5, <1>9, <1>10, <1>11, <2>1 DEF e

\* Every hit of the buffer was there before or is one of the event's.
FromBuffer(w, b, t, hits) ==
  \A i \in DOMAIN w : \/ \E j \in DOMAIN b : w[i] = b[j]
                      \/ w[i].ts = t /\ w[i].rid \in hits

LEMMA InsertHitsValue ==
  ASSUME kind \in Kinds, NEW b \in Seq(Hit), Len(b) <= WmCap,
         NEW t \in Time, NEW hits \in SUBSET Bases
  PROVE  /\ InsertHits(b, hits, t) \in Seq(Hit)
         /\ Len(InsertHits(b, hits, t)) <= WmCap
         /\ FromBuffer(InsertHits(b, hits, t), b, t, hits)
         /\ SortedHits(b) /\ Len(b) + Cardinality(hits) <= WmCap
              => SortedHits(InsertHits(b, hits, t))
<1> DEFINE P == {w \in Seq(Hit) : Len(w) <= WmCap /\ FromBuffer(w, b, t, hits)}
<1>1. b \in P
  BY DEF FromBuffer
<1>2. ASSUME NEW w \in P, NEW rid \in Bases
      PROVE  InsertOne(w, hits, t, rid) \in P
  <2>1. CASE rid \in HitBuf(hits)
    <3>1. PICK v : v = WmInsert(w, t, rid)
      OBVIOUS
    <3>2. /\ v \in Seq(Hit) /\ Len(v) <= WmCap
          /\ \A i \in DOMAIN v : \/ \E j \in DOMAIN w : v[i] = w[j]
                                 \/ v[i] = [ts |-> t, rid |-> rid]
      BY <3>1, WmInsertValue
    <3>3. rid \in hits
      BY <2>1 DEF HitBuf
    <3>4. FromBuffer(v, b, t, hits)
      BY <3>2, <3>3 DEF FromBuffer
    <3>5. QED
      BY <2>1, <3>1, <3>2, <3>4 DEF InsertOne
  <2>2. CASE rid \notin HitBuf(hits)
    BY <2>2 DEF InsertOne
  <2>3. QED
    BY <2>1, <2>2
<1>3. PICK h \in [0 .. NBases -> P] :
        /\ h[0] = b
        /\ \A i \in Bases : h[i] = InsertOne(h[i - 1], hits, t, i)
        /\ InsertHits(b, hits, t) = h[NBases]
  <2>1. InsertStaysIn(P, hits, t)
    BY <1>2 DEF InsertStaysIn
  <2> HIDE DEF P
  <2> QED
    BY <1>1, <2>1, InsertTrace
<1>4. NBases \in Nat \ {0}
  BY TemporalAssumption
<1>5. InsertHits(b, hits, t) \in P
  BY <1>3, <1>4
<1>6. ASSUME SortedHits(b), Len(b) + Cardinality(hits) <= WmCap
      PROVE  SortedHits(InsertHits(b, hits, t))
  <2> DEFINE Upto(n) == {c \in hits : c <= n}
             Q == {n \in Nat : n <= NBases =>
                     SortedHits(h[n]) /\ Len(h[n]) <= Len(b) + Cardinality(Upto(n))}
  <2>1. IsFiniteSet(hits) /\ Cardinality(hits) \in Nat
    <3>1. IsFiniteSet(Bases)
      BY <1>4, FS_Interval DEF Bases
    <3>2. QED
      BY <3>1, FS_Subset, FS_CardinalityType
  <2>2. \A n \in Nat : IsFiniteSet(Upto(n)) /\ Cardinality(Upto(n)) \in Nat
    BY <2>1, FS_Subset, FS_CardinalityType
  <2>3. 0 \in Q
    <3>1. Cardinality(Upto(0)) \in Nat
      BY <2>2
    <3> HIDE DEF Upto
    <3>2. Len(b) \in Nat
      OBVIOUS
    <3>3. QED
      BY <1>3, <1>6, <3>1, <3>2
  <2>4. ASSUME NEW n \in Nat, n \in Q PROVE n + 1 \in Q
    <3>1. SUFFICES ASSUME n + 1 <= NBases
                   PROVE  /\ SortedHits(h[n + 1])
                          /\ Len(h[n + 1]) <= Len(b) + Cardinality(Upto(n + 1))
      OBVIOUS
    <3>2. SortedHits(h[n]) /\ Len(h[n]) <= Len(b) + Cardinality(Upto(n)) /\ h[n] \in P
      BY <1>3, <1>4, <2>4, <3>1
    <3>3. n + 1 \in Bases /\ h[n + 1] = InsertOne(h[n], hits, t, n + 1)
      <4>1. n + 1 \in Bases /\ (n + 1) - 1 = n
        BY <1>4, <3>1 DEF Bases
      <4>2. QED
        BY <1>3, <4>1
    <3>4. CASE n + 1 \in HitBuf(hits)
      <4>1. n + 1 \in hits
        BY <3>4 DEF HitBuf
      <4>2. Upto(n + 1) = Upto(n) \cup {n + 1} /\ n + 1 \notin Upto(n)
        <5>1. \A c \in hits : c \in Nat
          BY DEF Bases
        <5>2. QED
          BY <4>1, <5>1
      <4>3. Cardinality(Upto(n + 1)) = Cardinality(Upto(n)) + 1
        <5> HIDE DEF Upto
        <5> QED
          BY <2>2, <4>2, FS_AddElement
      <4>4. Cardinality(Upto(n + 1)) <= Cardinality(hits)
        <5>1. Upto(n + 1) \subseteq hits
          OBVIOUS
        <5> HIDE DEF Upto
        <5>2. QED
          BY <2>1, <5>1, FS_Subset
      <4>5. Len(h[n]) < WmCap /\ Len(h[n]) \in Nat
        <5> HIDE DEF Upto
        <5>1. WmCap \in Nat /\ Len(b) \in Nat /\ Len(h[n]) \in Nat
          BY <3>2, TemporalAssumption
        <5>2. Cardinality(Upto(n)) \in Nat
          BY <2>2
        <5>3. QED
          BY <1>6, <2>1, <3>2, <4>3, <4>4, <5>1, <5>2
      <4>6. h[n + 1] = WmInsert(h[n], t, n + 1)
        BY <3>3, <3>4 DEF InsertOne
      <4>7. SortedHits(h[n + 1]) /\ Len(h[n + 1]) = Len(h[n]) + 1
        BY <3>2, <3>3, <4>5, <4>6, WmInsertValue
      <4>8. QED
        <5> HIDE DEF Upto
        <5>1. Len(b) \in Nat /\ Cardinality(Upto(n)) \in Nat
          BY <2>2
        <5>2. QED
          BY <3>2, <4>3, <4>5, <4>7, <5>1
    <3>5. CASE n + 1 \notin HitBuf(hits)
      <4>1. h[n + 1] = h[n]
        BY <3>3, <3>5 DEF InsertOne
      <4>2. Cardinality(Upto(n)) <= Cardinality(Upto(n + 1))
        <5>1. Upto(n) \subseteq Upto(n + 1)
          <6>1. \A c \in hits : c \in Nat
            BY <1>4 DEF Bases
          <6>2. QED
            BY <6>1
        <5> HIDE DEF Upto
        <5>2. QED
          BY <2>2, <5>1, FS_Subset
      <4>3. QED
        <5> HIDE DEF Upto
        <5>1. /\ Len(b) \in Nat /\ Cardinality(Upto(n)) \in Nat
              /\ Cardinality(Upto(n + 1)) \in Nat
          BY <2>2
        <5>3. Len(h[n]) \in Nat
          BY <3>2
        <5>2. QED
          BY <3>2, <4>1, <4>2, <5>1, <5>3
    <3>6. QED
      BY <3>4, <3>5
  <2>5. Nat \subseteq Q
    <3> HIDE DEF Q
    <3>1. \A n \in Nat : n \in Q => n + 1 \in Q
      BY <2>4
    <3>2. QED
      BY <2>3, <3>1, SetInduction
  <2>6. NBases \in Q
    BY <1>4, <2>5
  <2>7. QED
    BY <1>3, <1>4, <2>6
<1>7. QED
  BY <1>5, <1>6

\* The first k hits of buffer b have been split into those that stay and those that
\* were offered.
Flushed(x, b, k, cutoff) ==
  /\ Len(x.kept) <= k
  /\ \A i \in DOMAIN x.kept :
       x.kept[i].ts > cutoff /\ \E j \in 1 .. k : x.kept[i] = b[j]
  /\ \A i \in DOMAIN x.replayed :
       x.replayed[i] <= cutoff /\ \E j \in 1 .. k : x.replayed[i] = b[j].ts
  /\ SortedHits(b) => SortedHits(x.kept) /\ Sorted(x.replayed)

Pass == [progress : Steps, fired : BOOLEAN, kept : Seq(Hit), replayed : Seq(Time)]

LEMMA FlushOnePass ==
  ASSUME kind \in Kinds, NEW x \in Pass, NEW e \in Hit, NEW cutoff, NEW start \in Int
  PROVE  FlushOne(x, e, cutoff, start) \in Pass
<1>1. PICK a : a = Advance(x.progress, {e.rid}, e.ts, start, TRUE)
  OBVIOUS
<1>2. e.ts \in Time /\ x.progress \in Steps
  BY DEF Hit, Pass
<1>3. a.progress \in Steps /\ a.fired \in BOOLEAN
  BY <1>1, <1>2, AdvanceSteps
<1>4. CASE Pending(e, cutoff)
  <2>1. FlushOne(x, e, cutoff, start) = [x EXCEPT !.kept = Append(@, e)]
    BY <1>4 DEF FlushOne
  <2>2. Append(x.kept, e) \in Seq(Hit)
    BY DEF Pass
  <2>3. QED
    BY <2>1, <2>2 DEF Pass
<1>5. CASE ~Pending(e, cutoff)
  <2>1. FlushOne(x, e, cutoff, start)
          = [progress |-> a.progress, fired |-> x.fired \/ a.fired,
             kept |-> x.kept, replayed |-> Append(x.replayed, e.ts)]
    BY <1>1, <1>5 DEF FlushOne
  <2>2. (x.fired \/ a.fired) \in BOOLEAN
    OBVIOUS
  <2>3. x.kept \in Seq(Hit) /\ Append(x.replayed, e.ts) \in Seq(Time)
    BY <1>2 DEF Pass
  <2>4. QED
    BY <1>3, <2>1, <2>2, <2>3 DEF Pass
<1>6. QED
  BY <1>4, <1>5

LEMMA FlushOneSplits ==
  ASSUME kind \in Kinds, NEW x \in Pass, NEW b \in Seq(Hit), NEW k \in 1 .. Len(b),
         NEW cutoff \in Int, NEW start \in Int, Flushed(x, b, k - 1, cutoff)
  PROVE  Flushed(FlushOne(x, b[k], cutoff, start), b, k, cutoff)
<1>1. b[k] \in Hit /\ Time \subseteq Nat
  BY RuleFacts
<1>2. b[k].ts \in Nat /\ b[k].ts \in Time
  BY <1>1 DEF Hit
<1>3. x.kept \in Seq(Hit) /\ x.replayed \in Seq(Time)
  BY DEF Pass
<1>4. PICK y : y = FlushOne(x, b[k], cutoff, start)
  OBVIOUS
<1>5. CASE Pending(b[k], cutoff)
  <2>1. y.kept = Append(x.kept, b[k]) /\ y.replayed = x.replayed
    BY <1>4, <1>5 DEF FlushOne, Pass
  <2>2. b[k].ts > cutoff
    BY <1>5 DEF Pending
  <2>3. Len(y.kept) <= k
    BY <1>1, <1>3, <2>1 DEF Flushed
  <2>4. ASSUME NEW i \in DOMAIN y.kept
        PROVE  y.kept[i].ts > cutoff /\ \E j \in 1 .. k : y.kept[i] = b[j]
    <3>1. CASE i \in DOMAIN x.kept
      <4>1. y.kept[i] = x.kept[i]
        BY <1>1, <1>3, <2>1, <3>1
      <4>2. \E j \in 1 .. k - 1 : x.kept[i] = b[j]
        BY <3>1 DEF Flushed
      <4>3. x.kept[i].ts > cutoff
        BY <3>1 DEF Flushed
      <4>4. QED
        BY <4>1, <4>2, <4>3
    <3>2. CASE i \notin DOMAIN x.kept
      <4>1. y.kept[i] = b[k]
        BY <1>1, <1>3, <2>1, <2>4, <3>2
      <4>2. QED
        BY <2>2, <4>1
    <3>3. QED
      BY <3>1, <3>2
  <2>5. ASSUME NEW i \in DOMAIN y.replayed
        PROVE  y.replayed[i] <= cutoff /\ \E j \in 1 .. k : y.replayed[i] = b[j].ts
    <3>1. \E j \in 1 .. k - 1 : x.replayed[i] = b[j].ts
      BY <2>1, <2>5 DEF Flushed
    <3>2. x.replayed[i] <= cutoff
      BY <2>1, <2>5 DEF Flushed
    <3>3. QED
      BY <2>1, <3>1, <3>2
  <2>6. ASSUME SortedHits(b) PROVE SortedHits(y.kept) /\ Sorted(y.replayed)
    <3>1. ASSUME NEW i \in DOMAIN y.kept, NEW j \in DOMAIN y.kept, i < j
          PROVE  y.kept[i].ts <= y.kept[j].ts
      <4>1. i \in DOMAIN x.kept /\ y.kept[i] = x.kept[i]
        BY <1>1, <1>3, <2>1, <3>1
      <4>2. CASE j \in DOMAIN x.kept
        <5>1. y.kept[j] = x.kept[j]
          BY <1>1, <1>3, <2>1, <4>2
        <5>2. SortedHits(x.kept)
          BY <2>6 DEF Flushed
        <5>3. QED
          BY <3>1, <4>1, <4>2, <5>1, <5>2 DEF SortedHits
      <4>3. CASE j \notin DOMAIN x.kept
        <5>1. y.kept[j] = b[k]
          BY <1>1, <1>3, <2>1, <3>1, <4>3
        <5>2. PICK l \in 1 .. k - 1 : x.kept[i] = b[l]
          BY <4>1 DEF Flushed
        <5>3. l \in DOMAIN b /\ k \in DOMAIN b /\ l < k
          OBVIOUS
        <5>4. QED
          BY <2>6, <4>1, <5>1, <5>2, <5>3 DEF SortedHits
      <4>4. QED
        BY <4>2, <4>3
    <3>2. Sorted(y.replayed)
      BY <2>1, <2>6 DEF Flushed
    <3>3. QED
      BY <3>1, <3>2 DEF SortedHits
  <2>7. QED
    BY <1>4, <2>3, <2>4, <2>5, <2>6 DEF Flushed
<1>6. CASE ~Pending(b[k], cutoff)
  <2>1. y.kept = x.kept /\ y.replayed = Append(x.replayed, b[k].ts)
    BY <1>4, <1>6 DEF FlushOne
  <2>2. b[k].ts <= cutoff
    BY <1>2, <1>6 DEF Pending
  <2>3. Len(y.kept) <= k
    BY <1>3, <2>1 DEF Flushed
  <2>4. ASSUME NEW i \in DOMAIN y.kept
        PROVE  y.kept[i].ts > cutoff /\ \E j \in 1 .. k : y.kept[i] = b[j]
    <3>1. \E j \in 1 .. k - 1 : x.kept[i] = b[j]
      BY <2>1, <2>4 DEF Flushed
    <3>2. x.kept[i].ts > cutoff
      BY <2>1, <2>4 DEF Flushed
    <3>3. QED
      BY <2>1, <3>1, <3>2
  <2>5. ASSUME NEW i \in DOMAIN y.replayed
        PROVE  y.replayed[i] <= cutoff /\ \E j \in 1 .. k : y.replayed[i] = b[j].ts
    <3>1. CASE i \in DOMAIN x.replayed
      <4>1. y.replayed[i] = x.replayed[i]
        BY <1>2, <1>3, <2>1, <3>1
      <4>2. \E j \in 1 .. k - 1 : x.replayed[i] = b[j].ts
        BY <3>1 DEF Flushed
      <4>3. x.replayed[i] <= cutoff
        BY <3>1 DEF Flushed
      <4>4. QED
        BY <4>1, <4>2, <4>3
    <3>2. CASE i \notin DOMAIN x.replayed
      <4>1. y.replayed[i] = b[k].ts
        BY <1>2, <1>3, <2>1, <2>5, <3>2
      <4>2. QED
        BY <2>2, <4>1
    <3>3. QED
      BY <3>1, <3>2
  <2>6. ASSUME SortedHits(b) PROVE SortedHits(y.kept) /\ Sorted(y.replayed)
    <3>1. ASSUME NEW i \in DOMAIN y.replayed, NEW j \in DOMAIN y.replayed, i < j
          PROVE  y.replayed[i] <= y.replayed[j]
      <4>1. i \in DOMAIN x.replayed /\ y.replayed[i] = x.replayed[i]
        BY <1>2, <1>3, <2>1, <3>1
      <4>2. CASE j \in DOMAIN x.replayed
        <5>1. y.replayed[j] = x.replayed[j]
          BY <1>2, <1>3, <2>1, <4>2
        <5>2. Sorted(x.replayed)
          BY <2>6 DEF Flushed
        <5>3. QED
          BY <3>1, <4>1, <4>2, <5>1, <5>2 DEF Sorted
      <4>3. CASE j \notin DOMAIN x.replayed
        <5>1. y.replayed[j] = b[k].ts
          BY <1>2, <1>3, <2>1, <3>1, <4>3
        <5>2. PICK l \in 1 .. k - 1 : x.replayed[i] = b[l].ts
          BY <4>1 DEF Flushed
        <5>3. l \in DOMAIN b /\ k \in DOMAIN b /\ l < k
          OBVIOUS
        <5>4. QED
          BY <2>6, <4>1, <5>1, <5>2, <5>3 DEF SortedHits
      <4>4. QED
        BY <4>2, <4>3
    <3>2. SortedHits(y.kept)
      BY <2>1, <2>6 DEF Flushed
    <3>3. QED
      BY <3>1, <3>2 DEF Sorted
  <2>7. QED
    BY <1>4, <2>3, <2>4, <2>5, <2>6 DEF Flushed
<1>7. QED
  BY <1>5, <1>6

\* The flush of a buffer whose hits the log backs: it fires only on a sequence the
\* log holds, and the log carries the progress that is left.
LEMMA FlushValue ==
  ASSUME kind \in Kinds, clock = "watermark", NEW p \in Steps, NEW b \in Seq(Hit),
         NEW cutoff \in Int, NEW start \in Int,
         NEW lg, Len(lg) \in Nat, \A e \in 1 .. Len(lg) : lg[e].t \in Nat,
         Traced(p, lg, 1), \A i \in DOMAIN b : Backed(b[i], lg)
  PROVE  /\ Flush(p, b, cutoff, start) \in Pass
         /\ Flushed(Flush(p, b, cutoff, start), b, Len(b), cutoff)
         /\ Traced(Flush(p, b, cutoff, start).progress, lg, 1)
         /\ Flush(p, b, cutoff, start).fired => \E f : Completes(f, lg, 1, start)
<1> DEFINE n == Len(b)
<1>1. StartPass(p) \in Pass
  BY DEF StartPass, Pass
<1>2. n \in Nat /\ DOMAIN b = 1 .. n /\ \A i \in DOMAIN b : b[i] \in Hit
  OBVIOUS
<1>3. FlushStaysIn(Pass, b, cutoff, start)
  BY <1>2, FlushOnePass DEF FlushStaysIn
<1>4. PICK h \in [0 .. n -> Pass] :
        /\ h[0] = StartPass(p)
        /\ \A i \in 1 .. n : h[i] = FlushOne(h[i - 1], b[i], cutoff, start)
        /\ Flush(p, b, cutoff, start) = h[n]
  <2> HIDE DEF n
  <2>1. FlushRuns(Pass, p, n, b, cutoff, start)
    BY <1>1, <1>2, <1>3, FlushTrace
  <2>2. QED
    BY <2>1 DEF FlushRuns
<1> DEFINE Good(x, k) == /\ Flushed(x, b, k, cutoff)
                         /\ Traced(x.progress, lg, 1)
                         /\ x.fired => \E f : Completes(f, lg, 1, start)
           Q == {k \in Nat : k <= n => Good(h[k], k)}
<1>5. 0 \in Q
  <2>1. Flushed(StartPass(p), b, 0, cutoff)
    BY DEF Flushed, StartPass, SortedHits, Sorted
  <2>2. Traced(StartPass(p).progress, lg, 1) /\ ~StartPass(p).fired
    BY DEF StartPass
  <2>3. QED
    BY <1>4, <2>1, <2>2
<1>6. ASSUME NEW k \in Nat, k \in Q PROVE k + 1 \in Q
  <2>1. SUFFICES ASSUME k + 1 <= n PROVE Good(h[k + 1], k + 1)
    OBVIOUS
  <2>2. PICK m : m = k + 1
    OBVIOUS
  <2>3. m \in 1 .. n /\ m - 1 = k /\ k \in 0 .. n
    BY <1>2, <2>1, <2>2
  <2>4. PICK x : x = h[k]
    OBVIOUS
  <2>5. x \in Pass /\ Good(x, k)
    BY <1>4, <1>6, <2>3, <2>4
  <2>6. PICK y : y = FlushOne(x, b[m], cutoff, start)
    OBVIOUS
  <2>7. h[m] = y
    BY <1>4, <2>3, <2>4, <2>6
  <2>8. Flushed(y, b, m, cutoff)
    BY <2>3, <2>5, <2>6, FlushOneSplits
  <2>9. b[m] \in Hit /\ Backed(b[m], lg)
    BY <1>2, <2>3
  <2>10. PICK e \in 1 .. Len(lg) : lg[e].t = b[m].ts /\ b[m].rid \in lg[e].hits
    BY <2>9 DEF Backed
  <2>11. PICK t, hits : t = b[m].ts /\ hits = {b[m].rid}
    OBVIOUS
  <2>12. t \in Nat /\ lg[e].t = t /\ hits \subseteq lg[e].hits
    BY <2>10, <2>11
  <2>13. PICK q : q = x.progress
    OBVIOUS
  <2>14. q \in Steps /\ Traced(q, lg, 1)
    BY <2>5, <2>13 DEF Pass
  <2>15. PICK a : a = Advance(q, hits, t, start, clock # "processing")
    OBVIOUS
  <2>16. /\ Traced(a.progress, lg, 1)
         /\ a.fired => \E f : Completes(f, lg, 1, start)
    BY <2>10, <2>12, <2>14, <2>15, AdvanceTraces
  <2>17. a = Advance(x.progress, {b[m].rid}, b[m].ts, start, TRUE)
    BY <2>11, <2>13, <2>15
  <2>18. Traced(y.progress, lg, 1) /\ (y.fired => \E f : Completes(f, lg, 1, start))
    <3>1. CASE Pending(b[m], cutoff)
      <4>1. y = [x EXCEPT !.kept = Append(@, b[m])]
        BY <2>6, <3>1 DEF FlushOne
      <4>2. y.progress = x.progress /\ y.fired = x.fired
        BY <2>5, <4>1 DEF Pass
      <4>3. QED
        BY <2>5, <4>2
    <3>2. CASE ~Pending(b[m], cutoff)
      <4>1. y.progress = a.progress /\ y.fired = (x.fired \/ a.fired)
        BY <2>6, <2>17, <3>2 DEF FlushOne
      <4>2. QED
        BY <2>5, <2>16, <4>1
    <3>3. QED
      BY <3>1, <3>2
  <2>19. QED
    BY <2>2, <2>7, <2>8, <2>18
<1>7. n \in Q
  <2> HIDE DEF Q
  <2>1. \A k \in Nat : k \in Q => k + 1 \in Q
    BY <1>6
  <2>2. Nat \subseteq Q
    BY <1>5, <2>1, SetInduction
  <2>3. QED
    BY <1>2, <2>2
<1>8. QED
  BY <1>2, <1>4, <1>7

-----------------------------------------------------------------------------
\* The seen table.

\* r is the table s with the hits of buf at time t, from start on.
Records(r, s, buf, t, start) ==
  /\ \A b : b \in DOMAIN r <=> /\ b \in DOMAIN s \cup Admitted(s, buf)
                              /\ (IF b \in buf THEN t ELSE s[b]) >= start
  /\ \A b \in DOMAIN r : r[b] = IF b \in buf THEN t ELSE s[b]

LEMMA RecordSeenValue ==
  ASSUME NEW s, NEW hits, NEW t, NEW start
  PROVE  Records(RecordSeen(s, hits, t, start), s, HitBuf(hits), t, start)
BY DEF Records, RecordSeen, Record, Restrict

LEMMA AdmittedHits ==
  ASSUME NEW s, NEW hits
  PROVE  /\ HitBuf(hits) \subseteq hits
         /\ Admitted(s, HitBuf(hits)) \subseteq HitBuf(hits) \ DOMAIN s
BY DEF HitBuf, Admitted

\* A table with room for every base rule takes every hit.
LEMMA RoomForAll ==
  ASSUME NBases <= MaxSeen, NEW s, DOMAIN s \subseteq Bases, NEW hits \in SUBSET Bases
  PROVE  /\ HitBuf(hits) = hits
         /\ Admitted(s, hits) = hits \ DOMAIN s
<1>1. NBases \in Nat \ {0} /\ MaxSeen \in Nat \ {0}
  BY TemporalAssumption
<1>2. IsFiniteSet(Bases) /\ Cardinality(Bases) = NBases
  BY <1>1, FS_Interval DEF Bases
<1>3. ASSUME NEW D \in SUBSET Bases, NEW b \in Bases, b \notin D
      PROVE  Cardinality(D) \in Nat /\ Cardinality(D) < MaxSeen
  <2>1. IsFiniteSet(D) /\ Cardinality(D) \in Nat
    BY <1>2, FS_Subset, FS_CardinalityType
  <2>2. Cardinality(D \cup {b}) = Cardinality(D) + 1
    BY <1>3, <2>1, FS_AddElement
  <2>3. Cardinality(D \cup {b}) <= Cardinality(Bases)
    <3>1. D \cup {b} \subseteq Bases
      OBVIOUS
    <3>2. QED
      BY <1>2, <3>1, FS_Subset
  <2>4. QED
    BY <1>1, <1>2, <2>1, <2>2, <2>3
<1>4. HitBuf(hits) = hits
  <2>1. ASSUME NEW b \in hits PROVE Cardinality({c \in hits : c < b}) < MaxSeen
    <3>1. {c \in hits : c < b} \in SUBSET Bases
      OBVIOUS
    <3>2. b \in Bases /\ ~(b < b)
      BY <1>1 DEF Bases
    <3>3. b \notin {c \in hits : c < b}
      BY <3>2
    <3>4. QED
      BY <1>3, <3>1, <3>2, <3>3
  <2>2. QED
    BY <2>1 DEF HitBuf
<1>5. ASSUME NEW b \in hits \ DOMAIN s
      PROVE  Cardinality(DOMAIN s)
               + Cardinality({c \in hits \ DOMAIN s : c < b}) < MaxSeen
  <2> DEFINE C == {c \in hits \ DOMAIN s : c < b}
  <2>1. C \in SUBSET Bases /\ b \notin C /\ b \in Bases /\ C \cap DOMAIN s = {}
    <3>1. b \in Bases /\ ~(b < b)
      BY <1>1 DEF Bases
    <3>2. QED
      BY <3>1
  <2> HIDE DEF C
  <2>2. IsFiniteSet(DOMAIN s) /\ IsFiniteSet(C)
    BY <1>2, <2>1, FS_Subset
  <2>3. Cardinality(DOMAIN s \cup C) = Cardinality(DOMAIN s) + Cardinality(C)
    <3>1. Cardinality(DOMAIN s \cap C) = 0
      <4>1. DOMAIN s \cap C = {}
        BY <2>1
      <4>2. QED
        BY <4>1, FS_EmptySet
    <3>2. Cardinality(DOMAIN s) \in Nat /\ Cardinality(C) \in Nat
      BY <2>2, FS_CardinalityType
    <3>3. Cardinality(DOMAIN s \cup C)
            = Cardinality(DOMAIN s) + Cardinality(C) - Cardinality(DOMAIN s \cap C)
      BY <2>2, FS_Union
    <3>4. QED
      BY <3>1, <3>2, <3>3
  <2>4. DOMAIN s \cup C \in SUBSET Bases /\ b \notin DOMAIN s \cup C
    BY <2>1
  <2>5. Cardinality(DOMAIN s \cup C) < MaxSeen
    BY <1>3, <2>1, <2>4
  <2>6. QED
    BY <2>3, <2>5 DEF C
<1>6. QED
  BY <1>4, <1>5 DEF Admitted
-----------------------------------------------------------------------------
\* The log.

LEMMA LogGrows ==
  ASSUME NEW S, NEW s \in Seq(S), NEW e \in S
  PROVE  /\ Append(s, e) \in Seq(S) /\ Len(s) \in Nat
         /\ Len(Append(s, e)) = Len(s) + 1
         /\ DOMAIN s = 1 .. Len(s) /\ DOMAIN Append(s, e) = 1 .. Len(s) + 1
         /\ \A i \in 1 .. Len(s) : Append(s, e)[i] = s[i]
         /\ Append(s, e)[Len(s) + 1] = e
OBVIOUS

LEMMA LogTimes ==
  ASSUME NEW l \in Seq(Entry)
  PROVE  /\ DOMAIN l = 1 .. Len(l) /\ Len(l) \in Nat
         /\ \A i \in DOMAIN l : l[i].t \in Nat /\ l[i].v \in Vals \cup {NoVal}
<1>1. \A x \in Entry : x.t \in Nat /\ x.v \in Vals \cup {NoVal}
  BY DEF Entry, Time
<1>2. \A i \in DOMAIN l : l[i] \in Entry
  OBVIOUS
<1>3. QED
  BY <1>1, <1>2

Ascending(l) == \A i, j \in DOMAIN l : i < j => l[i].t <= l[j].t

LEMMA AscendingBefore ==
  ASSUME NEW l \in Seq(Entry), NEW r \in Entry, Ascending(Append(l, r))
  PROVE  Ascending(l)
<1>1. \A i \in DOMAIN l : i \in DOMAIN Append(l, r) /\ Append(l, r)[i] = l[i]
  OBVIOUS
<1>2. QED
  BY <1>1 DEF Ascending

\* What a prefix of the log backs, the log backs.
LEMMA TracedGrows ==
  ASSUME NEW lg \in Seq(Entry), NEW e \in Entry, NEW first \in Nat \ {0},
         NEW p \in Steps, Traced(p, lg, first)
  PROVE  Traced(p, Append(lg, e), first)
<1>1. SUFFICES ASSUME p.step > 0
               PROVE  \E f : Carries(f, p.step, p.anchor, p.last, Append(lg, e), first)
  BY DEF Traced
<1>2. PICK f : Carries(f, p.step, p.anchor, p.last, lg, first)
  BY <1>1 DEF Traced
<1>3. PICK n : n = p.step
  OBVIOUS
<1>4. n \in Nat /\ n > 0
  BY <1>1, <1>3, OrderLength DEF Steps
<1>5. /\ Len(lg) \in Nat /\ Len(Append(lg, e)) = Len(lg) + 1
      /\ \A i \in 1 .. Len(lg) : Append(lg, e)[i] = lg[i]
  BY LogGrows
<1>6. f \in [1 .. n -> first .. Len(lg)]
  BY <1>2, <1>3 DEF Carries
<1>7. \A j \in 1 .. n : Append(lg, e)[f[j]] = lg[f[j]]
  BY <1>5, <1>6
<1>8. f \in [1 .. n -> first .. Len(Append(lg, e))]
  BY <1>5, <1>6
<1>9. 1 \in 1 .. n /\ n \in 1 .. n
  BY <1>4
<1>10. Carries(f, n, p.anchor, p.last, Append(lg, e), first)
  BY <1>2, <1>3, <1>7, <1>8, <1>9 DEF Carries
<1>11. QED
  BY <1>3, <1>10

LEMMA BackedGrows ==
  ASSUME NEW lg \in Seq(Entry), NEW e \in Entry, NEW h, Backed(h, lg)
  PROVE  Backed(h, Append(lg, e))
BY LogGrows DEF Backed

\* A verdict that rests on the last events rests on the log.
LEMMA CompletesEarlier ==
  ASSUME NEW lg, Len(lg) \in Nat, NEW first \in Nat \ {0}, NEW start, NEW f,
         Completes(f, lg, first, start)
  PROVE  Completes(f, lg, 1, start)
<1>1. first .. Len(lg) \subseteq 1 .. Len(lg)
  OBVIOUS
<1>2. f \in [DOMAIN Order -> 1 .. Len(lg)]
  BY <1>1 DEF Completes
<1>3. QED
  BY <1>2 DEF Completes

-----------------------------------------------------------------------------
\* The steps.

Elsewhere ==
  /\ kind \notin {"temporal", "temporal_ordered"}
  /\ merge' = [n |-> merge'.n, sum |-> merge'.sum, seen |-> merge.seen]
  /\ \E e \in Entry : log' = Append(log, e)
  /\ lastFire' \in {lastFire, Len(log) + 1}
  /\ lost => lost'
  /\ UNCHANGED <<rule, seen, ordered>>

TemporalStep(t, hits) ==
  \/ SeeBases(t, hits) \/ OrderDirectly(t, hits)
  \/ OrderLate(t, hits) \/ OrderHeld(t, hits)
  \/ hits \subseteq Masked /\ MergeBases(t, hits)

LEMMA StepCases ==
  ASSUME Types, [Next]_vars
  PROVE  \/ UNCHANGED vars
         \/ Elsewhere
         \/ \E t \in Time, hits \in Hits : TemporalStep(t, hits)
<1>1. CASE UNCHANGED vars
  BY <1>1
<1>2. SUFFICES ASSUME NEW t \in Time,
                      \/ CountEvent(t) \/ BeaconRaw(t) \/ BeaconBucketed(t)
                      \/ \E v \in Vals \cup {NoVal} : AddValue(t, v) \/ CountValue(t, v)
                      \/ \E c \in Counts : \/ MergeEvents(t, c)
                                            \/ \E v \in Vals : MergeValues(t, v, c)
               PROVE  Elsewhere
  BY <1>1 DEF Next, TemporalStep
<1>3. merge = [n |-> merge.n, sum |-> merge.sum, seen |-> merge.seen]
  BY DEF Types
<1>4. ASSUME NEW v \in Vals \cup {NoVal}, NEW n \in Nat, NEW remote \in BOOLEAN,
             Reach(t, {}, v, n, remote)
      PROVE  UNCHANGED rule /\ \E e \in Entry : log' = Append(log, e)
  BY <1>4 DEF Reach, Entry
<1>5. ASSUME NEW fired, Verdict(fired)
      PROVE  lastFire' \in {lastFire, Len(log) + 1}
  BY <1>5 DEF Verdict
<1>6. CASE CountEvent(t)
  BY <1>3, <1>4, <1>5, <1>6 DEF CountEvent, Arrive, Elsewhere
<1>7. CASE BeaconRaw(t)
  <2>1. kind \notin {"temporal", "temporal_ordered"}
    BY <1>7 DEF BeaconRaw
  <2>2. QED
    BY <1>3, <1>4, <1>5, <1>7, <2>1 DEF BeaconRaw, Arrive, Elsewhere
<1>8. CASE BeaconBucketed(t)
  <2>1. /\ kind \notin {"temporal", "temporal_ordered"}
        /\ Reach(t, {}, NoVal, 1, FALSE)
        /\ (\E fired : Verdict(fired))
        /\ UNCHANGED <<merge, seen, ordered>>
    BY <1>8 DEF BeaconBucketed, Arrive
  <2>2. lost => lost'
    BY <1>8 DEF BeaconBucketed
  <2>3. QED
    BY <1>3, <1>4, <1>5, <2>1, <2>2 DEF Elsewhere
<1>9. ASSUME NEW v \in Vals \cup {NoVal}, AddValue(t, v) PROVE Elsewhere
  <2>1. /\ kind \notin {"temporal", "temporal_ordered"}
        /\ Reach(t, {}, v, 1, FALSE)
        /\ (\E fired : Verdict(fired))
        /\ UNCHANGED <<merge, seen, ordered>>
    BY <1>9 DEF AddValue, Arrive
  <2>2. lost => lost'
    BY <1>9 DEF AddValue
  <2>3. QED
    BY <1>3, <1>4, <1>5, <2>1, <2>2 DEF Elsewhere
<1>10. ASSUME NEW v \in Vals \cup {NoVal}, CountValue(t, v) PROVE Elsewhere
  <2>1. /\ kind \notin {"temporal", "temporal_ordered"}
        /\ Reach(t, {}, v, 1, FALSE)
        /\ UNCHANGED <<merge, seen, ordered, lastFire>>
    BY <1>10 DEF CountValue, Arrive, windows
  <2>2. lost => lost'
    BY <1>10 DEF CountValue
  <2>3. QED
    BY <1>3, <1>4, <2>1, <2>2 DEF Elsewhere
<1>11. ASSUME NEW c \in Counts PROVE CountOf(c) \in Nat
  BY GroupAssumption DEF CountOf
<1>12. ASSUME NEW x, NEW c
       PROVE  MergeCount(merge, x, c) = [n    |-> MergeCount(merge, x, c).n,
                                         sum  |-> MergeCount(merge, x, c).sum,
                                         seen |-> merge.seen]
  <2>1. PICK y, z, w : y = merge.n /\ z = merge.sum /\ w = merge.seen
    OBVIOUS
  <2>2. merge = [n |-> y, sum |-> z, seen |-> w]
    BY <1>3, <2>1
  <2>3. PICK u, d : u = (y + CountOf(c)) % CountMod /\ d = z + x
    OBVIOUS
  <2>4. MergeCount(merge, x, c) = [[merge EXCEPT !.n = u] EXCEPT !.sum = d]
    BY <2>1, <2>2, <2>3 DEF MergeCount
  <2>5. [[merge EXCEPT !.n = u] EXCEPT !.sum = d] = [n |-> u, sum |-> d, seen |-> w]
    <3>1. [merge EXCEPT !.n = u] = [n |-> u, sum |-> z, seen |-> w]
      BY <2>2
    <3>2. PICK r : r = [n |-> u, sum |-> z, seen |-> w]
      OBVIOUS
    <3>3. [r EXCEPT !.sum = d] = [n |-> u, sum |-> d, seen |-> w]
      BY <3>2
    <3>4. QED
      BY <3>1, <3>2, <3>3
  <2>6. QED
    BY <2>1, <2>4, <2>5
<1>13. ASSUME NEW c \in Counts, MergeEvents(t, c) PROVE Elsewhere
  BY <1>4, <1>5, <1>11, <1>12, <1>13 DEF MergeEvents, Elsewhere
<1>14. ASSUME NEW c \in Counts, NEW v \in Vals, MergeValues(t, v, c) PROVE Elsewhere
  BY <1>4, <1>5, <1>11, <1>12, <1>14 DEF MergeValues, Elsewhere
<1>15. QED
  BY <1>2, <1>6, <1>7, <1>8, <1>9, <1>10, <1>13, <1>14

-----------------------------------------------------------------------------
\* The types.

LEMMA SeenTypes ==
  ASSUME NEW s, DOMAIN s \subseteq Bases, \A b \in DOMAIN s : s[b] \in Time,
         NEW hits \in SUBSET Bases, NEW t \in Time, NEW w
  PROVE  /\ DOMAIN RecordSeen(s, hits, t, w) \subseteq Bases
         /\ \A b \in DOMAIN RecordSeen(s, hits, t, w) :
              RecordSeen(s, hits, t, w)[b] \in Time
<1>1. PICK r : r = RecordSeen(s, hits, t, w)
  OBVIOUS
<1>2. PICK buf : buf = HitBuf(hits)
  OBVIOUS
<1>3. Records(r, s, buf, t, w)
  BY <1>1, <1>2, RecordSeenValue
<1>4. buf \subseteq hits /\ Admitted(s, buf) \subseteq buf \ DOMAIN s
  BY <1>2, AdmittedHits
<1>5. DOMAIN r \subseteq Bases /\ \A b \in DOMAIN r : r[b] \in Time
  BY <1>3, <1>4 DEF Records
<1>6. QED
  BY <1>1, <1>5

LEMMA MaxOfTwo ==
  ASSUME NEW a \in Nat, NEW b \in Nat
  PROVE  Max({a, b}) \in {a, b} /\ Max({a, b}) >= a /\ Max({a, b}) >= b
<1>1. {a, b} \in SUBSET (0 .. a + b) /\ {a, b} # {}
  OBVIOUS
<1>2. a + b \in Nat
  OBVIOUS
<1>3. QED
  BY <1>1, <1>2, Greatest

LEMMA InitTypes == Init => Types
<1> SUFFICES ASSUME Init PROVE Types
  OBVIOUS
<1>1. kind \in Kinds
  BY DEF Init
<1>2. clock \in Clocks \cup {"event"} /\ hasCond \in BOOLEAN
  BY GroupAssumption DEF Init
<1>3. DOMAIN seen = {}
  BY DEF Init, NothingSeen
<1>4. progress \in Steps
  BY <1>1, RuleFacts, OrderLength DEF Init, NoProgress, Steps
<1>5. wm \in Seq(Hit) /\ Len(wm) <= WmCap /\ wmMax \in Time
  BY <1>1, RuleFacts, TemporalAssumption DEF Init
<1>6. /\ merge = [n |-> merge.n, sum |-> merge.sum, seen |-> merge.seen]
      /\ merge.seen \subseteq Masked
  BY DEF Init, NothingMerged
<1>7. log \in Seq(Entry) /\ replayed \in Seq(Time) /\ lastFire \in 0 .. Len(log)
  BY DEF Init
<1>8. QED
  BY <1>1, <1>2, <1>3, <1>4, <1>5, <1>6, <1>7 DEF Types

\* What an event or a contribution with base rules leaves in the log.
Logged(t, hits, remote) ==
  log' = Append(log, [t |-> t, hits |-> hits, v |-> NoVal, n |-> 1, remote |-> remote])

LEMMA ReachLogs ==
  ASSUME Types, NEW t \in Time, NEW hits \in Hits, NEW remote \in BOOLEAN,
         Logged(t, hits, remote)
  PROVE  /\ log' \in Seq(Entry) /\ Len(log') = Len(log) + 1
         /\ Len(log) \in Nat /\ Len(log') \in Nat
         /\ DOMAIN log = 1 .. Len(log) /\ DOMAIN log' = 1 .. Len(log')
         /\ \A i \in 1 .. Len(log) : log'[i] = log[i]
         /\ log'[Len(log')].t = t /\ log'[Len(log')].hits = hits
         /\ log'[Len(log')].remote = remote
         /\ \E e \in Entry : log' = Append(log, e)
<1> DEFINE e == [t |-> t, hits |-> hits, v |-> NoVal, n |-> 1, remote |-> remote]
<1>1. e \in Entry
  BY DEF Entry, Hits
<1>2. e.t = t /\ e.hits = hits /\ e.remote = remote
  OBVIOUS
<1>3. log \in Seq(Entry) /\ log' = Append(log, e)
  BY DEF Types, Logged
<1> HIDE DEF e
<1>4. QED
  BY <1>1, <1>2, <1>3, LogGrows

\* The frame of each step with base rules.
LEMMA TemporalStepFrame ==
  ASSUME Types, NEW t \in Time, NEW hits \in Hits, TemporalStep(t, hits)
  PROVE  /\ kind' = kind /\ clock' = clock /\ hasCond' = hasCond
         /\ Logged(t, hits, FALSE) \/ Logged(t, hits, TRUE)
         /\ lastFire' = IF fires' THEN Len(log) + 1 ELSE lastFire
         /\ lost => lost'
<1>1. CASE SeeBases(t, hits)
  BY <1>1 DEF SeeBases, Arrive, Reach, rule, Logged, Verdict
<1>2. CASE OrderDirectly(t, hits)
  BY <1>2 DEF OrderDirectly, Offer, Arrive, Reach, rule, Logged, Verdict
<1>3. CASE OrderLate(t, hits)
  BY <1>3 DEF OrderLate, Offer, Arrive, Reach, rule, Logged, Verdict
<1>4. CASE OrderHeld(t, hits)
  BY <1>4 DEF OrderHeld, Arrive, Reach, rule, Logged, Verdict
<1>5. CASE MergeBases(t, hits)
  BY <1>5 DEF MergeBases, Reach, rule, Logged, Verdict
<1>6. QED
  BY <1>1, <1>2, <1>3, <1>4, <1>5 DEF TemporalStep

LEMMA RuleKept == ASSUME Types, [Next]_vars PROVE kind' = kind
<1>1. CASE UNCHANGED vars
  BY <1>1 DEF vars, rule
<1>2. CASE Elsewhere
  BY <1>2 DEF Elsewhere, rule
<1>3. ASSUME NEW t \in Time, NEW hits \in Hits, TemporalStep(t, hits) PROVE kind' = kind
  BY <1>3, TemporalStepFrame
<1>4. QED
  BY <1>1, <1>2, <1>3, StepCases

\* What the step that holds and flushes does: held is the buffer with the event's
\* hits, pass what the flush makes of it.
HoldsAndFlushes(t, hits, highest, held, pass) ==
  /\ highest \in {wmMax, t} /\ highest >= wmMax /\ highest >= t
  /\ held \in Seq(Hit) /\ Len(held) <= WmCap
  /\ FromBuffer(held, wm, t, hits)
  /\ SortedHits(wm) /\ Len(wm) + Cardinality(hits) <= WmCap => SortedHits(held)
  /\ pass \in Pass
  /\ Flushed(pass, held, Len(held), highest - Slack)
  /\ Traced(pass.progress, log', 1)
  /\ pass.fired => \E f : Completes(f, log', 1, t - Span)
  /\ wmMax' = highest /\ wm' = pass.kept /\ progress' = pass.progress
  /\ replayed' = replayed \o pass.replayed
  /\ fires' => pass.fired

LEMMA OrderHeldDoes ==
  ASSUME Types, OrderInv, NEW t \in Time, NEW hits \in Hits, OrderHeld(t, hits)
  PROVE  \E highest, held, pass : HoldsAndFlushes(t, hits, highest, held, pass)
<1>0. PICK start : start = t - Span
  OBVIOUS
<1>1. kind \in Kinds /\ start \in Int /\ hits \in SUBSET Bases
  BY <1>0, RuleFacts DEF Types, Hits
<1>2. clock = "watermark" /\ kind = "temporal_ordered" /\ First = 1
  BY DEF OrderHeld, First
<1>3. /\ progress \in Steps /\ wm \in Seq(Hit) /\ Len(wm) <= WmCap
      /\ wmMax \in Time /\ log \in Seq(Entry)
  BY DEF Types
<1>4. wmMax \in Nat /\ t \in Nat /\ Slack \in Nat
  BY <1>1, <1>3, RuleFacts
<1>5. Logged(t, hits, FALSE)
  BY DEF OrderHeld, Arrive, Reach, Logged
<1>6. PICK e \in Entry : log' = Append(log, e)
  BY <1>5, ReachLogs
<1>7. /\ Len(log') \in Nat /\ Len(log') = Len(log) + 1 /\ Len(log) \in Nat
      /\ \A i \in 1 .. Len(log) : log'[i] = log[i]
      /\ log'[Len(log')].t = t /\ log'[Len(log')].hits = hits
  BY <1>5, ReachLogs
<1>8. \A i \in 1 .. Len(log') : log'[i].t \in Nat
  <2>1. \A x \in Entry : x.t \in Nat
    BY <1>1, RuleFacts DEF Entry
  <2>2. log' \in Seq(Entry)
    BY <1>5, ReachLogs
  <2>3. QED
    BY <2>1, <2>2
<1>9. Traced(progress, log', 1)
  <2>1. Traced(progress, log, 1)
    BY <1>2 DEF OrderInv
  <2>2. QED
    BY <1>3, <1>6, <2>1, TracedGrows
<1>10. PICK highest : highest = Max({wmMax, t})
  OBVIOUS
<1>11. highest \in {wmMax, t} /\ highest >= wmMax /\ highest >= t
  BY <1>4, <1>10, MaxOfTwo
<1>12. PICK cutoff : cutoff = highest - Slack
  OBVIOUS
<1>13. cutoff \in Int
  BY <1>4, <1>11, <1>12
<1>14. PICK held : held = InsertHits(wm, hits, t)
  OBVIOUS
<1>15. /\ held \in Seq(Hit) /\ Len(held) <= WmCap
       /\ FromBuffer(held, wm, t, hits)
       /\ SortedHits(wm) /\ Len(wm) + Cardinality(hits) <= WmCap => SortedHits(held)
  BY <1>1, <1>3, <1>14, InsertHitsValue
<1>16. \A i \in DOMAIN held : Backed(held[i], log')
  <2>1. \A i \in DOMAIN wm : Backed(wm[i], log')
    <3>1. \A i \in DOMAIN wm : Backed(wm[i], log)
      BY <1>2 DEF OrderInv
    <3>2. QED
      BY <1>3, <1>6, <3>1, BackedGrows
  <2>2. SUFFICES ASSUME NEW i \in DOMAIN held, held[i].ts = t /\ held[i].rid \in hits
                 PROVE  Backed(held[i], log')
    BY <1>15, <2>1 DEF FromBuffer
  <2>3. Len(log') \in 1 .. Len(log')
    BY <1>7
  <2>4. QED
    BY <1>7, <2>2, <2>3 DEF Backed
<1>17. PICK pass : pass = Flush(progress, held, cutoff, start)
  OBVIOUS
<1>18. /\ pass \in Pass
       /\ Flushed(pass, held, Len(held), cutoff)
       /\ Traced(pass.progress, log', 1)
       /\ pass.fired => \E f : Completes(f, log', 1, start)
  BY <1>1, <1>2, <1>3, <1>7, <1>8, <1>9, <1>13, <1>15, <1>16, <1>17, FlushValue
<1>19. /\ wmMax' = highest /\ wm' = pass.kept /\ progress' = pass.progress
       /\ replayed' = replayed \o pass.replayed
       /\ fires' = (pass.fired /\ CondHolds)
  BY <1>0, <1>10, <1>12, <1>14, <1>17 DEF OrderHeld, Verdict
<1>20. HoldsAndFlushes(t, hits, highest, held, pass)
  BY <1>0, <1>11, <1>12, <1>15, <1>18, <1>19 DEF HoldsAndFlushes
<1>21. QED
  BY <1>20

LEMMA TemporalStepTypes ==
  ASSUME Types, OrderInv, NEW t \in Time, NEW hits \in Hits, TemporalStep(t, hits)
  PROVE  Types'
<1> DEFINE start == t - Span
<1>1. kind \in Kinds /\ start \in Int /\ hits \in SUBSET Bases
  BY RuleFacts DEF Types, Hits
<1>2. kind' = kind /\ clock' = clock /\ hasCond' = hasCond /\ Time' = Time
  BY TemporalStepFrame DEF Time
<1>3. log' \in Seq(Entry) /\ Len(log') = Len(log) + 1 /\ Len(log) \in Nat
  BY TemporalStepFrame, ReachLogs
<1>4. lastFire' \in 0 .. Len(log')
  <2>1. lastFire' = IF fires' THEN Len(log) + 1 ELSE lastFire
    BY TemporalStepFrame
  <2>2. lastFire \in 0 .. Len(log)
    BY DEF Types
  <2>3. QED
    BY <1>3, <2>1, <2>2
<1>5. Entry' = Entry /\ Hit' = Hit /\ Steps' = Steps
  BY <1>2 DEF Entry, Hit, Steps
<1>6. DOMAIN seen' \subseteq Bases /\ \A b \in DOMAIN seen' : seen'[b] \in Time
  <2>1. \/ seen' = RecordSeen(seen, hits, t, start)
        \/ seen' = RecordSeen(seen, {}, t, start)
        \/ seen' = seen
    BY DEF TemporalStep, SeeBases, OrderDirectly, OrderLate, OrderHeld, MergeBases, KeepSeen
  <2>2. DOMAIN seen \subseteq Bases /\ \A b \in DOMAIN seen : seen[b] \in Time
    BY DEF Types
  <2> HIDE DEF start
  <2>3. {} \in SUBSET Bases
    OBVIOUS
  <2>4. QED
    BY <1>1, <2>1, <2>2, <2>3, SeenTypes
<1>7. /\ merge' = [n |-> merge'.n, sum |-> merge'.sum, seen |-> merge'.seen]
      /\ merge'.seen \subseteq Masked
  <2>1. /\ merge = [n |-> merge.n, sum |-> merge.sum, seen |-> merge.seen]
        /\ merge.seen \subseteq Masked
    BY DEF Types
  <2>2. merge' = merge \/ (merge' = MergeSeen(merge, hits) /\ hits \subseteq Masked)
    BY DEF TemporalStep, SeeBases, OrderDirectly, OrderLate, OrderHeld, MergeBases, windows
  <2>3. QED
    BY <2>1, <2>2 DEF MergeSeen
<1>8. /\ progress' \in Steps /\ wm' \in Seq(Hit) /\ Len(wm') <= WmCap
      /\ wmMax' \in Time /\ replayed' \in Seq(Time)
  <2>0. /\ progress \in Steps /\ wm \in Seq(Hit) /\ Len(wm) <= WmCap
        /\ wmMax \in Time /\ replayed \in Seq(Time)
    BY DEF Types
  <2>1. CASE UNCHANGED ordered
    BY <2>0, <2>1 DEF ordered
  <2>2. CASE OrderDirectly(t, hits) \/ OrderLate(t, hits)
    <3>1. /\ progress' = Advance(progress, HitBuf(hits), t, start, clock # "processing").progress
          /\ UNCHANGED <<wm, wmMax, replayed>>
      BY <2>2 DEF OrderDirectly, OrderLate, Offer
    <3>2. (clock # "processing") \in BOOLEAN
      OBVIOUS
    <3> HIDE DEF start
    <3>3. progress' \in Steps
      BY <1>1, <2>0, <3>1, <3>2, AdvanceSteps
    <3>4. QED
      BY <2>0, <3>1, <3>3
  <2>3. CASE OrderHeld(t, hits)
    <3>1. PICK highest, held, pass : HoldsAndFlushes(t, hits, highest, held, pass)
      BY <2>3, OrderHeldDoes
    <3>2. highest \in Time
      BY <2>0, <3>1 DEF HoldsAndFlushes
    <3>3. /\ pass.kept \in Seq(Hit) /\ pass.progress \in Steps
          /\ pass.replayed \in Seq(Time)
      BY <3>1 DEF HoldsAndFlushes, Pass
    <3>4. Len(pass.kept) <= Len(held) /\ held \in Seq(Hit) /\ Len(held) <= WmCap
      BY <3>1 DEF HoldsAndFlushes, Flushed
    <3>5. Len(pass.kept) <= WmCap
      <4>1. Len(pass.kept) \in Nat /\ Len(held) \in Nat /\ WmCap \in Nat
        BY <3>3, <3>4, TemporalAssumption
      <4>2. QED
        BY <3>4, <4>1
    <3>6. replayed \o pass.replayed \in Seq(Time)
      BY <2>0, <3>3
    <3>7. QED
      BY <3>1, <3>2, <3>3, <3>5, <3>6 DEF HoldsAndFlushes
  <2>4. QED
    BY <2>1, <2>2, <2>3 DEF TemporalStep, SeeBases, MergeBases
<1>9. QED
  BY <1>1, <1>2, <1>3, <1>4, <1>5, <1>6, <1>7, <1>8 DEF Types

LEMMA ElsewhereTypes ==
  ASSUME Types, Elsewhere
  PROVE  Types'
<1>1. PICK e \in Entry : log' = Append(log, e)
  BY DEF Elsewhere
<1>2. log \in Seq(Entry) /\ lastFire \in 0 .. Len(log)
  BY DEF Types
<1>3. /\ kind' = kind /\ clock' = clock /\ hasCond' = hasCond
      /\ Time' = Time /\ Entry' = Entry /\ Hit' = Hit /\ Steps' = Steps
  BY DEF Elsewhere, rule, Time, Entry, Hit, Steps
<1>4. log' \in Seq(Entry) /\ lastFire' \in 0 .. Len(log')
  <2>1. log' \in Seq(Entry) /\ Len(log') = Len(log) + 1 /\ Len(log) \in Nat
    BY <1>1, <1>2, LogGrows
  <2>2. lastFire' = lastFire \/ lastFire' = Len(log) + 1
    BY DEF Elsewhere
  <2>3. QED
    BY <1>2, <2>1, <2>2
<1>5. /\ merge' = [n |-> merge'.n, sum |-> merge'.sum, seen |-> merge'.seen]
      /\ merge'.seen \subseteq Masked
  <2>1. merge' = [n |-> merge'.n, sum |-> merge'.sum, seen |-> merge.seen]
    BY DEF Elsewhere
  <2>2. merge'.seen = merge.seen
    BY <2>1
  <2>3. QED
    BY <2>1, <2>2 DEF Types
<1>6. QED
  BY <1>3, <1>4, <1>5 DEF Elsewhere, ordered, Types

-----------------------------------------------------------------------------
\* The seen table follows the log.

LEMMA InitTemporal == Init => TemporalInv
<1> SUFFICES ASSUME Init PROVE TemporalInv
  OBVIOUS
<1>1. DOMAIN seen = {} /\ log = <<>> /\ merge.seen = {} /\ Events = {}
  BY DEF Init, NothingSeen, NothingMerged, Events
<1>2. QED
  BY <1>1 DEF TemporalInv, SeenBacked, SeenLatest

\* Both steps of the temporal type: the table is pruned to the window of the event
\* or contribution, and takes the base rules of an event.
LEMMA SeenStep ==
  ASSUME Types, SeenBacked, SeenLatest, NEW t \in Time, NEW hits \in Hits,
         NEW remote \in BOOLEAN, Logged(t, hits, remote), kind' = kind,
         seen' = RecordSeen(seen, IF remote THEN {} ELSE hits, t, t - Span)
  PROVE  SeenBacked' /\ SeenLatest'
<1>0. PICK own : own = IF remote THEN {} ELSE hits
  OBVIOUS
<1>1. PICK start : start = t - Span
  OBVIOUS
<1>2. PICK n : n = Len(log')
  OBVIOUS
<1>3. /\ kind \in Kinds /\ hits \in SUBSET Bases /\ own \in SUBSET Bases
      /\ DOMAIN seen \subseteq Bases /\ \A b \in DOMAIN seen : seen[b] \in Time
      /\ log \in Seq(Entry)
  BY <1>0 DEF Types, Hits
<1>4. /\ Span \in Nat /\ t \in Nat /\ start \in Int /\ start <= t
      /\ Time \subseteq Nat
  BY <1>1, <1>3, RuleFacts
<1>5. /\ n = Len(log) + 1 /\ Len(log) \in Nat
      /\ Events = 1 .. Len(log) /\ Events' = 1 .. n
      /\ \A i \in 1 .. Len(log) : log'[i] = log[i]
      /\ log'[n].t = t /\ log'[n].hits = hits /\ log'[n].remote = remote
  BY <1>2, ReachLogs DEF Events
<1>6. \A i \in 1 .. Len(log) : log[i].t \in Nat /\ log[i].hits \subseteq Bases
  <2>1. \A x \in Entry : x.t \in Nat /\ x.hits \subseteq Bases
    BY <1>4 DEF Entry
  <2>2. QED
    BY <1>3, <2>1
<1>7. ASSUME NEW i PROVE InWindow(i)' <=> log'[i].t >= start
  BY <1>1, <1>2, <1>5 DEF InWindow, Now, Span
<1>8. /\ DOMAIN seen' = {b \in DOMAIN seen \cup Admitted(seen, HitBuf(own)) :
                           (IF b \in HitBuf(own) THEN t ELSE seen[b]) >= start}
      /\ \A b \in DOMAIN seen' : seen'[b] = IF b \in HitBuf(own) THEN t ELSE seen[b]
  <2>1. seen' = RecordSeen(seen, own, t, start)
    BY <1>0, <1>1
  <2>2. Records(seen', seen, HitBuf(own), t, start)
    BY <2>1, RecordSeenValue
  <2>3. QED
    BY <2>2 DEF Records
<1>9. /\ HitBuf(own) \subseteq own
      /\ Admitted(seen, HitBuf(own)) \subseteq HitBuf(own) \ DOMAIN seen
  BY AdmittedHits
<1>10. own = {} \/ (own = hits /\ ~remote)
  BY <1>0
<1>11. SeenBacked'
  <2>1. ASSUME NEW b \in DOMAIN seen'
        PROVE  \E i \in Events' : /\ ~log'[i].remote /\ b \in log'[i].hits
                                  /\ log'[i].t = seen'[b] /\ log'[i].t >= start
    <3>1. CASE b \in HitBuf(own)
      <4>1. b \in hits /\ ~remote /\ seen'[b] = t
        BY <1>8, <1>9, <1>10, <3>1
      <4>2. n \in Events'
        BY <1>5
      <4>3. QED
        BY <1>4, <1>5, <4>1, <4>2
    <3>2. CASE b \notin HitBuf(own)
      <4>1. b \in DOMAIN seen /\ seen'[b] = seen[b] /\ seen[b] >= start
        BY <1>8, <1>9, <3>2
      <4>2. PICK i \in Events : /\ ~log[i].remote /\ b \in log[i].hits
                                /\ log[i].t = seen[b]
        BY <4>1 DEF SeenBacked
      <4>3. i \in Events' /\ log'[i] = log[i]
        BY <1>5, <4>2
      <4>4. QED
        BY <4>1, <4>2, <4>3
    <3>3. QED
      BY <3>1, <3>2
  <2>2. QED
    BY <1>7, <2>1 DEF SeenBacked
<1>12. SeenLatest'
  <2>1. SUFFICES ASSUME InOrder', NBases <= MaxSeen, NEW i \in Events',
                        ~log'[i].remote, log'[i].t >= start, NEW b \in log'[i].hits
                 PROVE  b \in DOMAIN seen' /\ seen'[b] >= log'[i].t
    BY <1>7 DEF SeenLatest
  <2>2. HitBuf(own) = own /\ Admitted(seen, own) = own \ DOMAIN seen
    BY <1>3, <2>1, RoomForAll
  <2>3. CASE i = n
    <3>1. b \in own
      BY <1>0, <1>5, <2>1, <2>3
    <3>2. b \in DOMAIN seen' /\ seen'[b] = t
      BY <1>4, <1>8, <2>2, <3>1
    <3>3. QED
      BY <1>4, <1>5, <2>3, <3>2
  <2>4. CASE i # n
    <3>1. i \in 1 .. Len(log) /\ log'[i] = log[i]
      BY <1>5, <2>4
    <3>2. \A j \in 1 .. Len(log) : log[j].t <= t
      <4>1. ASSUME NEW j \in 1 .. Len(log) PROVE log[j].t <= t
        <5>1. j \in Events' /\ n \in Events' /\ j < n /\ log'[j] = log[j]
          BY <1>5
        <5>2. log'[j].t <= log'[n].t
          BY <2>1, <5>1 DEF InOrder
        <5>3. QED
          BY <1>5, <5>1, <5>2
      <4>2. QED
        BY <4>1
    <3>3. InOrder
      <4>1. ASSUME NEW j \in Events, NEW k \in Events, j < k PROVE log[j].t <= log[k].t
        <5>1. j \in Events' /\ k \in Events' /\ log'[j] = log[j] /\ log'[k] = log[k]
          BY <1>5
        <5>2. QED
          BY <2>1, <4>1, <5>1 DEF InOrder
      <4>2. QED
        BY <4>1 DEF InOrder
    <3>4. InWindow(i)
      <4>1. Len(log) \in 1 .. Len(log)
        BY <1>5, <3>1
      <4>2. Now <= t /\ Now \in Nat
        BY <1>6, <3>2, <4>1 DEF Now
      <4>3. log[i].t >= Now - Span
        BY <1>1, <1>4, <1>6, <2>1, <3>1, <4>2
      <4>4. QED
        BY <4>3 DEF InWindow
    <3>5. b \in DOMAIN seen /\ seen[b] >= log[i].t
      BY <1>5, <2>1, <3>1, <3>3, <3>4 DEF SeenLatest
    <3>6. /\ seen[b] \in Nat /\ log[i].t \in Nat /\ log[i].t >= start
          /\ log[i].t <= t
      BY <1>3, <1>4, <1>6, <2>1, <3>1, <3>2, <3>5
    <3>7. seen[b] >= start
      BY <1>4, <3>5, <3>6
    <3>8. b \in DOMAIN seen'
      BY <1>4, <1>8, <3>5, <3>7
    <3>9. seen'[b] = t \/ seen'[b] = seen[b]
      BY <1>8, <3>8
    <3>10. QED
      BY <3>1, <3>5, <3>6, <3>8, <3>9
  <2>5. QED
    BY <2>3, <2>4
<1>13. QED
  BY <1>11, <1>12

Merged(lg) == UNION {lg[i].hits : i \in {j \in DOMAIN lg : lg[j].remote}}

LEMMA MergedGrows ==
  ASSUME Types, NEW t \in Time, NEW hits \in Hits, NEW remote \in BOOLEAN,
         Logged(t, hits, remote)
  PROVE  Merged(log') = Merged(log) \cup (IF remote THEN hits ELSE {})
<1>1. PICK n : n = Len(log')
  OBVIOUS
<1>2. /\ DOMAIN log' = DOMAIN log \cup {n} /\ n \notin DOMAIN log
      /\ \A i \in DOMAIN log : log'[i] = log[i]
      /\ log'[n].hits = hits /\ log'[n].remote = remote
  BY <1>1, ReachLogs
<1>3. QED
  BY <1>2 DEF Merged

LEMMA TemporalStepInv ==
  ASSUME Types, TemporalInv, NEW t \in Time, NEW hits \in Hits, TemporalStep(t, hits)
  PROVE  TemporalInv'
<1>1. kind' = kind /\ hasCond' = hasCond
  BY TemporalStepFrame
<1>2. SUFFICES ASSUME kind = "temporal"
               PROVE  /\ SeenBacked' /\ SeenLatest'
                      /\ merge'.seen = Merged(log')
                      /\ fires' = TemporalHolds(seen', merge'.seen, hasCond')
  BY <1>1 DEF TemporalInv, Merged, Events
<1>3. SeenBacked /\ SeenLatest /\ merge.seen = Merged(log)
  BY <1>2 DEF TemporalInv, Merged, Events
<1>4. CASE SeeBases(t, hits)
  <2>1. /\ Logged(t, hits, FALSE)
        /\ seen' = RecordSeen(seen, hits, t, t - Span)
        /\ fires' = TemporalHolds(seen', merge.seen, hasCond)
        /\ merge' = merge
    BY <1>4 DEF SeeBases, Arrive, Reach, Logged, Verdict, windows
  <2>2. seen' = RecordSeen(seen, IF FALSE THEN {} ELSE hits, t, t - Span)
    BY <2>1
  <2>3. SeenBacked' /\ SeenLatest'
    BY <1>1, <1>3, <2>1, <2>2, SeenStep
  <2>4. Merged(log') = Merged(log)
    BY <2>1, MergedGrows
  <2>5. QED
    BY <1>1, <1>3, <2>1, <2>3, <2>4
<1>5. CASE MergeBases(t, hits)
  <2>1. /\ Logged(t, hits, TRUE)
        /\ seen' = RecordSeen(seen, {}, t, t - Span)
        /\ fires' = TemporalHolds(seen', merge'.seen, hasCond)
        /\ merge' = MergeSeen(merge, hits)
    BY <1>5 DEF MergeBases, Reach, Logged, Verdict
  <2>2. seen' = RecordSeen(seen, IF TRUE THEN {} ELSE hits, t, t - Span)
    BY <2>1
  <2>3. SeenBacked' /\ SeenLatest'
    BY <1>1, <1>3, <2>1, <2>2, SeenStep
  <2>4. merge'.seen = merge.seen \cup hits
    BY <2>1 DEF Types, MergeSeen
  <2>5. Merged(log') = Merged(log) \cup hits
    BY <2>1, MergedGrows
  <2>6. QED
    BY <1>1, <1>3, <2>1, <2>3, <2>4, <2>5
<1>6. QED
  BY <1>2, <1>4, <1>5 DEF TemporalStep, OrderDirectly, OrderLate, OrderHeld

-----------------------------------------------------------------------------
\* The progress, the buffer and the verdict follow the log.

LEMMA InitOrder == Init => OrderInv /\ WatermarkInv
<1> SUFFICES ASSUME Init PROVE OrderInv /\ WatermarkInv
  OBVIOUS
<1>1. progress.step = 0 /\ wm = <<>> /\ replayed = <<>> /\ ~fires
  BY DEF Init, NoProgress
<1>2. OrderInv
  BY <1>1 DEF OrderInv, Traced
<1>3. WatermarkInv
  BY <1>1 DEF WatermarkInv, PendingWithinSlack, SortedHits, Sorted
<1>4. QED
  BY <1>2, <1>3

LEMMA OrderNow ==
  ASSUME Types, NEW t \in Time, NEW hits \in Hits, NEW remote \in BOOLEAN,
         Logged(t, hits, remote), kind' = kind
  PROVE  (Now - Span)' = t - Span
BY ReachLogs DEF Now, Span

\* An event that is offered as it comes: a sequence it completes takes no event of
\* the sequence that fired before.
LEMMA OfferStep ==
  ASSUME Types, OrderInv, kind = "temporal_ordered", NEW t \in Time, NEW hits \in Hits,
         Logged(t, hits, FALSE), Offer(t, hits), UNCHANGED <<rule, wm>>
  PROVE  /\ OrderInv'
         /\ fires' => \E f : Completes(f, log', First, t - Span)
<1> DEFINE start == t - Span
           a == Advance(progress, HitBuf(hits), t, start, clock # "processing")
<1>1. /\ kind \in Kinds /\ progress \in Steps /\ log \in Seq(Entry)
      /\ lastFire \in 0 .. Len(log)
  BY DEF Types
<1>2. start \in Int /\ t \in Nat
  BY <1>1, RuleFacts
<1>3. /\ log' \in Seq(Entry) /\ Len(log') \in Nat /\ Len(log') = Len(log) + 1
      /\ Len(log) \in Nat
      /\ log'[Len(log')].t = t /\ log'[Len(log')].hits = hits
  BY ReachLogs
<1>4. PICK e \in Entry : log' = Append(log, e)
  BY ReachLogs
<1>5. First \in Nat \ {0} /\ Len(log') \in First .. Len(log')
  BY <1>1, <1>3 DEF First
<1>6. \A i \in 1 .. Len(log') : log'[i].t \in Nat
  <2>1. \A x \in Entry : x.t \in Nat
    BY <1>1, RuleFacts DEF Entry
  <2>2. QED
    BY <1>3, <2>1
<1>7. Traced(progress, log', First)
  <2>1. Traced(progress, log, First)
    BY DEF OrderInv
  <2>2. QED
    BY <1>1, <1>4, <1>5, <2>1, TracedGrows
<1>8. /\ Traced(a.progress, log', First)
      /\ a.fired => \E f : Completes(f, log', First, start)
  <2> HIDE DEF start
  <2>1. HitBuf(hits) \subseteq log'[Len(log')].hits
    BY <1>3, AdmittedHits
  <2>2. QED
    BY <1>1, <1>2, <1>3, <1>5, <1>6, <1>7, <2>1, AdvanceTraces
<1>9. a.fired => a.progress = NoProgress
  BY DEF Advance
<1>10. /\ progress' = a.progress
       /\ fires' => a.fired
       /\ lastFire' = IF fires' THEN Len(log) + 1 ELSE lastFire
       /\ kind' = kind /\ clock' = clock
  BY DEF Offer, Verdict, rule
<1> HIDE DEF a, start
<1>11. Traced(progress, log, First)'
  <2>1. CASE fires'
    <3>1. progress'.step = 0
      BY <1>9, <1>10, <2>1 DEF NoProgress
    <3>2. QED
      BY <3>1 DEF Traced
  <2>2. CASE ~fires'
    <3>1. First' = First
      BY <1>10, <2>2 DEF First
    <3>2. Traced(progress', log', First)
      BY <1>8, <1>10
    <3>3. QED
      BY <1>10, <3>1, <3>2 DEF Traced, Carries
  <2>3. QED
    BY <2>1, <2>2
<1>12. \A i \in DOMAIN wm : Backed(wm[i], log')
  <2>1. \A i \in DOMAIN wm : Backed(wm[i], log)
    BY DEF OrderInv
  <2>2. QED
    BY <1>1, <1>4, <2>1, BackedGrows
<1>13. fires' => \E f : Completes(f, log', First, start)
  BY <1>8, <1>10
<1>14. fires' => \E f : Completes(f, log', 1, start)
  BY <1>3, <1>5, <1>13, CompletesEarlier
<1>15. fires' => \E f : Completes(f, log, 1, Now - Span)'
  <2>1. (Now - Span)' = start
    BY <1>10, OrderNow DEF start
  <2>2. QED
    BY <1>10, <1>14, <2>1 DEF Completes
<1>16. OrderInv'
  BY <1>10, <1>11, <1>12, <1>15 DEF OrderInv
<1>17. QED
  BY <1>13, <1>16 DEF start

\* The step that holds and flushes: what it replays is newer than what was replayed
\* before, because only hits within the slack waited and no older one is taken in.
LEMMA HeldStep ==
  ASSUME Types, OrderInv, WatermarkInv, NEW t \in Time, NEW hits \in Hits,
         OrderHeld(t, hits)
  PROVE  OrderInv' /\ WatermarkInv'
<1>1. PICK highest, held, pass : HoldsAndFlushes(t, hits, highest, held, pass)
  BY OrderHeldDoes
<1>2. /\ kind \in Kinds /\ wm \in Seq(Hit) /\ wmMax \in Time
      /\ replayed \in Seq(Time) /\ log \in Seq(Entry)
  BY DEF Types
<1>3. /\ Slack \in Nat \ {0} /\ Time \subseteq Nat /\ t \in Nat /\ wmMax \in Nat
      /\ hits \in SUBSET Bases
  BY <1>2, RuleFacts DEF Hits
<1>4. /\ Logged(t, hits, FALSE) /\ kind' = kind /\ clock' = clock
      /\ kind = "temporal_ordered" /\ clock = "watermark"
  BY DEF OrderHeld, Arrive, Reach, Logged, rule
<1>5. PICK cutoff : cutoff = highest - Slack
  OBVIOUS
<1>6. highest \in Nat /\ cutoff \in Int /\ wmMax - Slack <= cutoff
  BY <1>1, <1>3, <1>5 DEF HoldsAndFlushes
<1>7. /\ held \in Seq(Hit) /\ FromBuffer(held, wm, t, hits)
      /\ Flushed(pass, held, Len(held), cutoff)
      /\ pass.kept \in Seq(Hit) /\ pass.replayed \in Seq(Time)
  BY <1>1, <1>5 DEF HoldsAndFlushes, Pass
<1>8. /\ wmMax' = highest /\ wm' = pass.kept
      /\ replayed' = replayed \o pass.replayed /\ progress' = pass.progress
  BY <1>1 DEF HoldsAndFlushes
<1>9. t >= wmMax - Slack
  <2>1. ~(wmMax > 0 /\ t + Slack < wmMax)
    BY DEF OrderHeld, BehindSlack
  <2>2. QED
    BY <1>3, <2>1
<1>10. \A x \in Hit : x.ts \in Nat
  BY <1>3 DEF Hit
<1>11. \A j \in DOMAIN held : held[j].ts \in Nat /\ held[j].ts >= wmMax - Slack
  <2>1. ASSUME NEW j \in DOMAIN held PROVE held[j].ts >= wmMax - Slack
    <3>1. CASE \E k \in DOMAIN wm : held[j] = wm[k]
      <4>1. PICK k \in DOMAIN wm : held[j] = wm[k]
        BY <3>1
      <4>2. wm[k].ts > wmMax - Slack /\ wm[k].ts \in Nat
        <5>1. wm[k] \in Hit
          BY <1>2
        <5>2. QED
          BY <1>10, <5>1 DEF WatermarkInv, PendingWithinSlack
      <4>3. QED
        BY <1>3, <4>1, <4>2
    <3>2. CASE held[j].ts = t
      BY <1>9, <3>2
    <3>3. QED
      BY <1>7, <3>1, <3>2 DEF FromBuffer
  <2>2. \A j \in DOMAIN held : held[j] \in Hit
    BY <1>7
  <2>3. QED
    BY <1>10, <2>1, <2>2
<1>12. \A i \in DOMAIN pass.replayed :
         /\ pass.replayed[i] \in Nat
         /\ pass.replayed[i] <= cutoff /\ pass.replayed[i] >= wmMax - Slack
  <2>1. ASSUME NEW i \in DOMAIN pass.replayed
        PROVE  pass.replayed[i] <= cutoff /\ pass.replayed[i] >= wmMax - Slack
    <3>1. PICK j \in 1 .. Len(held) : pass.replayed[i] = held[j].ts
      BY <1>7, <2>1 DEF Flushed
    <3>2. j \in DOMAIN held
      BY <1>7, <3>1
    <3>3. QED
      BY <1>7, <1>11, <2>1, <3>1, <3>2 DEF Flushed
  <2>2. \A i \in DOMAIN pass.replayed : pass.replayed[i] \in Nat
    <3>1. PICK r : r = pass.replayed
      OBVIOUS
    <3>2. r \in Seq(Time)
      BY <1>7, <3>1
    <3>3. \A i \in DOMAIN r : r[i] \in Time
      BY <3>2
    <3>4. QED
      BY <1>3, <3>1, <3>3
  <2>3. QED
    BY <2>1, <2>2
<1>13. \A i \in DOMAIN replayed : replayed[i] \in Nat /\ replayed[i] <= wmMax - Slack
  <2>1. \A i \in DOMAIN replayed : replayed[i] \in Time
    BY <1>2
  <2>2. QED
    BY <1>3, <2>1 DEF WatermarkInv
<1> DEFINE m == Len(replayed)
           k == Len(pass.replayed)
<1>14. /\ m \in Nat /\ k \in Nat /\ DOMAIN replayed = 1 .. m
       /\ DOMAIN pass.replayed = 1 .. k /\ DOMAIN replayed' = 1 .. m + k
       /\ \A i \in 1 .. m : replayed'[i] = replayed[i]
       /\ \A i \in m + 1 .. m + k : replayed'[i] = pass.replayed[i - m]
  BY <1>2, <1>7, <1>8
<1> HIDE DEF m, k
<1>15. \A i \in m + 1 .. m + k : i - m \in 1 .. k
  BY <1>14
<1>16. \A i \in DOMAIN replayed' : replayed'[i] <= cutoff
  <2>1. ASSUME NEW i \in 1 .. m + k PROVE replayed'[i] <= cutoff
    <3>1. CASE i \in 1 .. m
      BY <1>3, <1>6, <1>13, <1>14, <3>1
    <3>2. CASE i \in m + 1 .. m + k
      BY <1>12, <1>14, <1>15, <3>2
    <3>3. QED
      BY <1>14, <3>1, <3>2
  <2>2. QED
    BY <1>14, <2>1
<1>17. \A i \in DOMAIN wm' : wm'[i].ts > cutoff
  BY <1>7, <1>8 DEF Flushed
<1>18. ASSUME ~lost' PROVE SortedHits(wm') /\ Sorted(replayed')
  <2>1. ~lost /\ ~(Len(wm) + Cardinality(hits) > WmCap)
    BY <1>18 DEF OrderHeld
  <2>2. Len(wm) + Cardinality(hits) <= WmCap
    <3>1. Len(wm) \in Nat /\ WmCap \in Nat
      BY <1>2, TemporalAssumption
    <3>2. Cardinality(hits) \in Nat
      <4>1. IsFiniteSet(Bases)
        BY FS_Interval, TemporalAssumption DEF Bases
      <4>2. QED
        BY <1>3, <4>1, FS_Subset, FS_CardinalityType
    <3>3. QED
      BY <2>1, <3>1, <3>2
  <2>3. SortedHits(wm) /\ Sorted(replayed)
    BY <2>1 DEF WatermarkInv
  <2>4. SortedHits(held)
    BY <1>1, <2>2, <2>3 DEF HoldsAndFlushes
  <2>5. SortedHits(pass.kept) /\ Sorted(pass.replayed)
    BY <1>7, <2>4 DEF Flushed
  <2>6. ASSUME NEW i \in 1 .. m + k, NEW j \in 1 .. m + k, i < j
        PROVE  replayed'[i] <= replayed'[j]
    <3>1. CASE j \in 1 .. m
      <4>1. i \in 1 .. m
        BY <1>14, <2>6, <3>1
      <4>2. replayed[i] <= replayed[j]
        BY <1>14, <2>3, <2>6, <3>1, <4>1 DEF Sorted
      <4>3. QED
        BY <1>14, <3>1, <4>1, <4>2
    <3>2. CASE i \in 1 .. m /\ j \in m + 1 .. m + k
      <4>1. PICK x : x = replayed'[i]
        OBVIOUS
      <4>2. PICK y : y = replayed'[j]
        OBVIOUS
      <4>3. x \in Nat /\ x <= wmMax - Slack
        BY <1>13, <1>14, <3>2, <4>1
      <4>4. y \in Nat /\ y >= wmMax - Slack
        BY <1>12, <1>14, <1>15, <3>2, <4>2
      <4>5. QED
        BY <1>3, <4>1, <4>2, <4>3, <4>4
    <3>3. CASE i \in m + 1 .. m + k /\ j \in m + 1 .. m + k
      <4>1. i - m \in 1 .. k /\ j - m \in 1 .. k /\ i - m < j - m
        BY <1>14, <2>6, <3>3
      <4>2. pass.replayed[i - m] <= pass.replayed[j - m]
        BY <1>14, <2>5, <4>1 DEF Sorted
      <4>3. QED
        BY <1>14, <3>3, <4>2
    <3>4. QED
      BY <1>14, <2>6, <3>1, <3>2, <3>3
  <2>7. Sorted(replayed')
    BY <1>14, <2>6 DEF Sorted
  <2>8. QED
    BY <1>8, <2>5, <2>7
<1>19. WatermarkInv'
  <2>1. PendingWithinSlack'
    BY <1>5, <1>8, <1>17 DEF PendingWithinSlack
  <2>2. \A i \in DOMAIN replayed' : replayed'[i] <= wmMax' - Slack
    BY <1>5, <1>8, <1>16
  <2>3. ~lost' => SortedHits(wm)' /\ Sorted(replayed)'
    BY <1>18 DEF SortedHits, Sorted
  <2>4. QED
    BY <2>1, <2>2, <2>3 DEF WatermarkInv
<1>20. Traced(progress, log, First)'
  <2>1. First' = 1
    BY <1>4 DEF First
  <2>2. Traced(pass.progress, log', 1)
    BY <1>1 DEF HoldsAndFlushes
  <2>3. QED
    BY <1>4, <1>8, <2>1, <2>2 DEF Traced, Carries
<1>21. \A i \in DOMAIN wm' : Backed(wm'[i], log')
  <2>1. PICK e \in Entry : log' = Append(log, e)
    BY <1>4, ReachLogs
  <2>2. ASSUME NEW i \in DOMAIN held PROVE Backed(held[i], log')
    <3>1. CASE \E j \in DOMAIN wm : held[i] = wm[j]
      <4>1. PICK j \in DOMAIN wm : held[i] = wm[j]
        BY <3>1
      <4>2. Backed(wm[j], log)
        BY <1>4 DEF OrderInv
      <4>3. QED
        BY <1>2, <2>1, <4>1, <4>2, BackedGrows
    <3>2. CASE held[i].ts = t /\ held[i].rid \in hits
      <4>1. PICK n : n = Len(log')
        OBVIOUS
      <4>2. n = Len(log) + 1 /\ Len(log) \in Nat /\ log'[n].t = t /\ log'[n].hits = hits
        BY <1>4, <4>1, ReachLogs
      <4>3. n \in 1 .. n
        BY <4>2
      <4>4. QED
        BY <3>2, <4>1, <4>2, <4>3 DEF Backed
    <3>3. QED
      BY <1>7, <3>1, <3>2 DEF FromBuffer
  <2>3. \A i \in DOMAIN pass.kept : \E j \in 1 .. Len(held) : pass.kept[i] = held[j]
    BY <1>7 DEF Flushed
  <2>4. DOMAIN held = 1 .. Len(held)
    BY <1>7
  <2>5. QED
    BY <1>8, <2>2, <2>3, <2>4
<1>22. fires' => \E f : Completes(f, log, 1, Now - Span)'
  <2>1. (Now - Span)' = t - Span
    BY <1>4, OrderNow
  <2>2. fires' => \E f : Completes(f, log', 1, t - Span)
    BY <1>1 DEF HoldsAndFlushes
  <2>3. QED
    BY <1>4, <2>1, <2>2 DEF Completes
<1>23. OrderInv'
  BY <1>20, <1>21, <1>22 DEF OrderInv, Backed
<1>24. QED
  BY <1>19, <1>23

LEMMA ElsewhereInv ==
  ASSUME Types, OrderInv, WatermarkInv, Elsewhere
  PROVE  TemporalInv' /\ OrderInv' /\ WatermarkInv'
<1>1. kind' = kind /\ kind \notin {"temporal", "temporal_ordered"}
  BY DEF Elsewhere, rule
<1>2. UNCHANGED <<wm, wmMax, replayed>> /\ (lost => lost')
  BY DEF Elsewhere, ordered
<1>3. TemporalInv' /\ OrderInv'
  BY <1>1 DEF TemporalInv, OrderInv
<1>4. WatermarkInv'
  BY <1>2 DEF WatermarkInv, PendingWithinSlack, SortedHits, Sorted
<1>5. QED
  BY <1>3, <1>4

LEMMA OrderStepInv ==
  ASSUME Types, OrderInv, WatermarkInv, NEW t \in Time, NEW hits \in Hits,
         TemporalStep(t, hits)
  PROVE  OrderInv' /\ WatermarkInv'
<1>1. CASE OrderHeld(t, hits)
  BY <1>1, HeldStep
<1>2. CASE ~OrderHeld(t, hits)
  <2>0. lost => lost'
    BY TemporalStepFrame
  <2>1. UNCHANGED <<wm, wmMax, replayed>>
    BY <1>2 DEF TemporalStep, SeeBases, OrderDirectly, OrderLate, MergeBases, ordered
  <2>2. WatermarkInv'
    BY <2>0, <2>1 DEF WatermarkInv, PendingWithinSlack, SortedHits, Sorted
  <2>3. CASE OrderDirectly(t, hits) \/ OrderLate(t, hits)
    <3>1. /\ kind = "temporal_ordered" /\ Logged(t, hits, FALSE) /\ Offer(t, hits)
          /\ UNCHANGED <<rule, wm>>
      BY <2>3 DEF OrderDirectly, OrderLate, Arrive, Reach, Logged
    <3>2. OrderInv'
      BY <3>1, OfferStep
    <3>3. QED
      BY <2>2, <3>2
  <2>4. CASE SeeBases(t, hits) \/ MergeBases(t, hits)
    <3>1. kind' = kind /\ kind # "temporal_ordered"
      BY <2>4, TemporalStepFrame DEF SeeBases, MergeBases
    <3>2. QED
      BY <2>2, <3>1 DEF OrderInv
  <2>5. QED
    BY <1>2, <2>3, <2>4 DEF TemporalStep
<1>3. QED
  BY <1>1, <1>2

-----------------------------------------------------------------------------
Invariants == Types /\ TemporalInv /\ OrderInv /\ WatermarkInv

LEMMA StutterInvariants ==
  ASSUME Invariants, UNCHANGED vars
  PROVE  Invariants'
<1>1. /\ UNCHANGED <<kind, clock, hasCond, seen, progress, wm, wmMax, merge, fires, log,
                    lost, replayed, lastFire>>
  BY DEF vars, rule, windows, ordered
<1>2. Types'
  BY <1>1 DEF Invariants, Types, Time, Hit, Steps, Entry
<1>3. TemporalInv'
  BY <1>1 DEF Invariants, TemporalInv, SeenBacked, SeenLatest, InOrder, InWindow, Now,
              Span, Events
<1>4. OrderInv'
  BY <1>1 DEF Invariants, OrderInv, Traced, Carries, First, Backed, Completes, Now, Span
<1>5. WatermarkInv'
  BY <1>1 DEF Invariants, WatermarkInv, PendingWithinSlack, SortedHits, Sorted
<1>6. QED
  BY <1>2, <1>3, <1>4, <1>5 DEF Invariants

\* The types, the seen table, the progress and the watermark hold their invariants
\* together: the flush keeps the types because the log backs what it replays.
THEOREM InvariantsHold == Spec => []Invariants
<1>1. Init => Invariants
  BY InitTypes, InitTemporal, InitOrder DEF Invariants
<1>2. Invariants /\ [Next]_vars => Invariants'
  <2> SUFFICES ASSUME Invariants, [Next]_vars PROVE Invariants'
    OBVIOUS
  <2>1. Types /\ TemporalInv /\ OrderInv /\ WatermarkInv
    BY DEF Invariants
  <2>2. CASE UNCHANGED vars
    BY <2>2, StutterInvariants
  <2>3. CASE Elsewhere
    BY <2>1, <2>3, ElsewhereTypes, ElsewhereInv DEF Invariants
  <2>4. ASSUME NEW t \in Time, NEW hits \in Hits, TemporalStep(t, hits)
        PROVE  Invariants'
    BY <2>1, <2>4, TemporalStepTypes, TemporalStepInv, OrderStepInv DEF Invariants
  <2>5. QED
    BY <2>1, <2>2, <2>3, <2>4, StepCases
<1>3. QED
  BY <1>1, <1>2, PTL DEF Spec

-----------------------------------------------------------------------------
\* corr_seen_mask after temporal_record_seen: late events or not, the mask the group
\* gathers itself holds only base rules seen within the window.
THEOREM SeenIsSound == Spec => []TemporalSound
<1>1. Invariants => TemporalSound
  <2> SUFFICES ASSUME Invariants, kind = "temporal", NEW b \in Mask(seen, {})
               PROVE  b \in SeenInWindow({i \in Events : ~log[i].remote})
    BY DEF TemporalSound
  <2>1. b \in DOMAIN seen
    BY DEF Mask
  <2>2. PICK i \in Events : ~log[i].remote /\ b \in log[i].hits /\ InWindow(i)
    BY <2>1 DEF Invariants, TemporalInv, SeenBacked
  <2>3. QED
    BY <2>2 DEF SeenInWindow
<1>2. QED
  BY <1>1, InvariantsHold, PTL

\* eval_temporal: events and contributions in order, contributions within the window,
\* room in table and mask for every base rule: it fires exactly on what was seen in
\* the window, here or elsewhere.
THEOREM TemporalIsExact == Spec => []TemporalExact
<1>1. Invariants => TemporalExact
  <2> SUFFICES ASSUME Invariants, kind = "temporal", InOrder, MergesLive,
                      NBases <= MaxSeen, log # <<>>
               PROVE  fires <=> IF hasCond THEN SeenInWindow(Events) \in Accept
                                           ELSE SeenInWindow(Events) = Bases
    BY DEF TemporalExact
  <2>1. /\ SeenBacked /\ SeenLatest
        /\ merge.seen = Merged(log)
        /\ fires = TemporalHolds(seen, merge.seen, hasCond)
    BY DEF Invariants, TemporalInv, Merged, Events
  <2>2. DOMAIN seen \subseteq Bases /\ merge.seen \subseteq Masked /\ log \in Seq(Entry)
    BY DEF Invariants, Types
  <2>3. Masked = Bases
    BY TemporalAssumption DEF Masked, Bases
  <2>4. \A i \in Events : log[i].hits \subseteq Bases
    <3>1. \A x \in Entry : x.hits \subseteq Bases
      BY DEF Entry
    <3>2. \A i \in DOMAIN log : log[i] \in Entry
      BY <2>2
    <3>3. QED
      BY <3>1, <3>2 DEF Events
  <2>5. Mask(seen, merge.seen) = SeenInWindow(Events)
    <3>1. ASSUME NEW b \in Mask(seen, merge.seen) PROVE b \in SeenInWindow(Events)
      <4>1. CASE b \in DOMAIN seen
        BY <2>1, <4>1 DEF SeenBacked, SeenInWindow
      <4>2. CASE b \in merge.seen
        BY <2>1, <4>2 DEF Merged, MergesLive, SeenInWindow, Events
      <4>3. QED
        BY <3>1, <4>1, <4>2 DEF Mask
    <3>2. ASSUME NEW i \in Events, InWindow(i), NEW b \in log[i].hits
          PROVE  b \in Mask(seen, merge.seen)
      <4>1. CASE log[i].remote
        BY <2>1, <3>2, <4>1 DEF Merged, Mask, Events
      <4>2. CASE ~log[i].remote
        <5>1. b \in DOMAIN seen
          BY <2>1, <3>2, <4>2 DEF SeenLatest
        <5>2. QED
          BY <2>2, <2>3, <5>1 DEF Mask
      <4>3. QED
        BY <4>1, <4>2
    <3>3. SeenInWindow(Events) \subseteq Mask(seen, merge.seen)
      BY <3>2 DEF SeenInWindow
    <3>4. QED
      BY <3>1, <3>3
  <2>6. SeenInWindow(Events) \subseteq Bases
    BY <2>4 DEF SeenInWindow
  <2>7. CASE hasCond
    BY <2>1, <2>5, <2>7 DEF TemporalHolds
  <2>8. CASE ~hasCond
    <3>1. fires = (Bases \subseteq SeenInWindow(Events))
      BY <2>1, <2>3, <2>5, <2>8 DEF TemporalHolds
    <3>2. Bases \subseteq SeenInWindow(Events) <=> SeenInWindow(Events) = Bases
      BY <2>6
    <3>3. fires <=> SeenInWindow(Events) = Bases
      BY <3>1, <3>2
    <3>4. QED
      BY <2>8, <3>3
  <2>9. QED
    BY <2>7, <2>8
<1>2. QED
  BY <1>1, InvariantsHold, PTL

\* eval_temporal_ordered and eval_temporal_ordered_wm: a fire is never fabricated,
\* by greedy advance, ageing, late events or replay.
THEOREM OrderIsSound == Spec => []OrderedSound
<1>1. Invariants => OrderedSound
  <2> SUFFICES ASSUME Invariants, kind = "temporal_ordered", fires
               PROVE  \E f \in [DOMAIN Order -> Events] :
                        /\ IsSequence(f)
                        /\ clock # "processing" => TimeOrdered(f)
                        /\ clock # "watermark" => ArrivalOrdered(f)
    BY DEF OrderedSound
  <2>1. log \in Seq(Entry)
    BY DEF Invariants, Types
  <2>2. Events = 1 .. Len(log)
    BY <2>1 DEF Events
  <2>3. PICK f : Completes(f, log, 1, Now - Span)
    BY DEF Invariants, OrderInv
  <2>4. f \in [DOMAIN Order -> Events]
    BY <2>2, <2>3 DEF Completes
  <2>5. IsSequence(f)
    BY <2>3 DEF Completes, IsSequence, InWindow
  <2>6. clock # "processing" => TimeOrdered(f)
    BY <2>3 DEF Completes, TimeOrdered
  <2>7. clock # "watermark" => ArrivalOrdered(f)
    BY <2>3 DEF Completes, ArrivalOrdered
  <2>8. QED
    BY <2>4, <2>5, <2>6, <2>7
<1>2. QED
  BY <1>1, InvariantsHold, PTL

\* eval_temporal_ordered_wm: what waits in the buffer is within the slack.
THEOREM PendingIsWithinSlack == Spec => []PendingWithinSlack
<1>1. Invariants => PendingWithinSlack
  BY DEF Invariants, WatermarkInv
<1>2. QED
  BY <1>1, InvariantsHold, PTL

\* eval_temporal_ordered_wm: hits are replayed in event-time order across flushes.
THEOREM ReplayIsOrdered == Spec => []ReplayOrdered
<1>1. Invariants => ReplayOrdered
  BY DEF Invariants, WatermarkInv, ReplayOrdered
<1>2. QED
  BY <1>1, InvariantsHold, PTL

\* eval_temporal_ordered: the reset after a fire leaves no event for the next one.
THEOREM SequencesAreDisjoint == Spec => SequencesDisjoint
<1>1. Invariants /\ [Next]_vars =>
        [kind = "temporal_ordered" /\ clock # "watermark" /\ fires' =>
           \E f \in [DOMAIN Order -> lastFire + 1 .. Len(log')] :
             \A j \in DOMAIN Order : Order[j] \in log'[f[j]].hits]_vars
  <2> SUFFICES ASSUME Invariants, [Next]_vars, ~UNCHANGED vars,
                      kind = "temporal_ordered", clock # "watermark", fires'
               PROVE  \E f \in [DOMAIN Order -> lastFire + 1 .. Len(log')] :
                        \A j \in DOMAIN Order : Order[j] \in log'[f[j]].hits
    OBVIOUS
  <2>1. Types /\ OrderInv
    BY DEF Invariants
  <2>2. PICK t \in Time, hits \in Hits : TemporalStep(t, hits)
    BY <2>1, StepCases DEF Elsewhere
  <2>3. OrderDirectly(t, hits)
    BY <2>2 DEF TemporalStep, SeeBases, OrderLate, OrderHeld, MergeBases
  <2>4. Logged(t, hits, FALSE) /\ Offer(t, hits) /\ UNCHANGED <<rule, wm>>
    BY <2>3 DEF OrderDirectly, Arrive, Reach, Logged
  <2>5. PICK f : Completes(f, log', First, t - Span)
    BY <2>1, <2>4, OfferStep
  <2>6. First = lastFire + 1
    BY DEF First
  <2>7. f \in [DOMAIN Order -> lastFire + 1 .. Len(log')]
    BY <2>5, <2>6 DEF Completes
  <2>8. QED
    BY <2>5, <2>7 DEF Completes
<1>2. QED
  BY <1>1, InvariantsHold, PTL DEF Spec, SequencesDisjoint
=============================================================================
