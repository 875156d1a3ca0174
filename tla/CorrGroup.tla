----------------------------- MODULE CorrGroup ------------------------------
(***************************************************************************)
(* One group of a correlation as a state machine over the events it is     *)
(* given and the contributions of other instances that merge into it: the  *)
(* dispatch on the type in corr_on_event_apply and the one on the kind in  *)
(* corr_on_contribution.  The rule and the clock the caller feeds are      *)
(* chosen once, at the start.                                              *)
(*                                                                         *)
(* The log of what the group was given is a history variable; the          *)
(* properties compare what it holds and decides with what the log says.    *)
(***************************************************************************)
EXTENDS CorrDistinct, CorrTemporal, CorrMerge

CONSTANTS
  Settings,  \* correlation type |-> [span, count, lastTime, maxLog]: timespan_s,
             \* cond_count, and two bounds, the last timestamp and the events
  Clocks,    \* "processing", "event" (event_time_ordering), "watermark"
  Conds,     \* whether the rule has a condition
  Ops,       \* the comparison operators of the aggregates
  Slack,     \* watermark_s
  Vals,      \* the values of value_field; numbers, for value_sum and value_avg
  Counts,    \* the counts contributions carry
  NoVal      \* the event has no such field

Kinds == DOMAIN Settings

Beacons    == {"beaconing", "beaconing_bucketed"}  \* beacon_n_buckets = 0, and not
Aggregates == {"event_count", "value_sum", "value_avg"}

ASSUME GroupAssumption ==
  /\ Kinds \subseteq Beacons \cup Aggregates
                       \cup {"value_count", "temporal", "temporal_ordered"}
  /\ \A k \in Kinds : /\ Settings[k].span \in Nat \ {0}
                      /\ Settings[k].lastTime \in Nat /\ Settings[k].maxLog \in Nat
                      /\ k \in Beacons => Settings[k].count >= 3
  /\ "beaconing_bucketed" \in Kinds => Settings["beaconing_bucketed"].span >= NBuckets
  /\ Clocks \subseteq {"processing", "event", "watermark"}
  /\ Conds \subseteq BOOLEAN
  /\ Ops \subseteq {"gte", "gt", "lte", "lt", "eq"}
  /\ Slack \in Nat \ {0}
  /\ NoVal \notin Vals /\ Counts \subseteq Nat
  /\ Kinds \cap {"value_sum", "value_avg"} # {} => Vals \subseteq Int

VARIABLES
  kind, clock, hasCond, op,  \* the rule and the caller's mode, constant
  ring,       \* event_count, value_sum, value_avg, raw beaconing: the event ring
  histogram,  \* bucketed beaconing: bbuckets
  distinct,   \* value_count: the distinct set
  seen,       \* the seen table
  progress,   \* temporal_ordered: the progress through Order
  wm,         \* temporal_ordered: the watermark buffer
  wmMax,      \* wm_max_ts
  merge,      \* merge_n, merge_sum, merge_seen
  fires,      \* the verdict on the last event or contribution
  log,        \* history: every event and contribution, in arrival order
  lost,       \* history: an allocation failed or the watermark buffer was full
  replayed,   \* history: timestamps of the hits replayed from the buffer
  lastFire    \* history: the event of the last fire, 0 before

rule    == <<kind, clock, hasCond, op>>
windows == <<ring, histogram, merge>>
ordered == <<progress, wm, wmMax, replayed>>
vars    == <<rule, windows, distinct, seen, ordered, fires, log, lost, lastFire>>

Span      == Settings[kind].span
Threshold == Settings[kind].count
Time      == 0 .. Settings[kind].lastTime

Init ==
  /\ kind \in Kinds
  /\ clock \in IF kind = "temporal_ordered" THEN Clocks ELSE {"event"}
  /\ hasCond \in IF kind \in {"temporal", "temporal_ordered"} THEN Conds ELSE {FALSE}
  /\ op \in IF kind \in Aggregates THEN Ops ELSE {"gte"}
  /\ ring = EmptyRing
  /\ histogram = NoHistogram
  /\ distinct = <<>>
  /\ seen = NothingSeen
  /\ progress = NoProgress
  /\ wm = <<>>
  /\ wmMax = 0
  /\ merge = NothingMerged
  /\ fires = FALSE
  /\ log = <<>>
  /\ lost = FALSE
  /\ replayed = <<>>
  /\ lastFire = 0

\* An event or a contribution reaches the group; n is how many events it is.
Reach(t, hits, v, n, remote) ==
  /\ Len(log) < Settings[kind].maxLog
  /\ log' = Append(log, [t |-> t, hits |-> hits, v |-> v, n |-> n, remote |-> remote])
  /\ UNCHANGED rule

Arrive(t, hits, v) == Reach(t, hits, v, 1, FALSE)

Verdict(fired) ==
  /\ fires' = fired
  /\ lastFire' = IF fired THEN Len(log) + 1 ELSE lastFire

\* eval_event_count.
CountEvent(t) ==
  /\ kind = "event_count"
  /\ Arrive(t, {}, NoVal)
  /\ ring' = Push(ring, t - Span, t, 0)
  /\ Verdict(CountHolds(ring', merge, op, Threshold))
  /\ UNCHANGED <<histogram, merge, distinct, seen, ordered, lost>>

AggregateHolds(r, m) ==
  IF kind = "value_sum" THEN SumHolds(r, m, op, Threshold) ELSE AvgHolds(r, m, op, Threshold)

\* eval_value_sum_avg; a value that is no number only ages the window, and the
\* first number may find no memory for ev_val, which leaves the window as it is.
AddValue(t, v) ==
  /\ kind \in {"value_sum", "value_avg"}
  /\ Arrive(t, {}, v)
  /\ \/ /\ ring' = IF v = NoVal THEN Prune(ring, t - Span) ELSE Push(ring, t - Span, t, v)
        /\ UNCHANGED lost
     \/ /\ v # NoVal /\ ring.val = EmptyRing.val
        /\ lost' = TRUE
        /\ UNCHANGED ring
  /\ Verdict(AggregateHolds(ring', merge))
  /\ UNCHANGED <<histogram, merge, distinct, seen, ordered>>

\* eval_beaconing_raw.
BeaconRaw(t) ==
  /\ kind = "beaconing"
  /\ Arrive(t, {}, NoVal)
  /\ ring' = Push(ring, t - Span, t, 0)
  /\ Verdict(PeriodicTimes(Times(ring'), Threshold))
  /\ UNCHANGED <<histogram, merge, distinct, seen, ordered, lost>>

\* eval_beaconing_bucketed; the histogram cannot be allocated, or counts.
BeaconBucketed(t) ==
  LET now  == Epoch(t, Span)
      held == IF histogram = NoHistogram THEN EmptyHistogram ELSE histogram
  IN /\ kind = "beaconing_bucketed"
     /\ Arrive(t, {}, NoVal)
     /\ \/ /\ histogram = NoHistogram
           /\ lost' = TRUE
           /\ Verdict(FALSE)
           /\ UNCHANGED histogram
        \/ /\ histogram' = Bump(held, now)
           /\ Verdict(PeriodicEpochs(Active(histogram', now), Threshold))
           /\ UNCHANGED lost
     /\ UNCHANGED <<ring, merge, distinct, seen, ordered>>

\* eval_value_count, for an event or a DISTINCT contribution; the verdict is a
\* comparison of the count.
CountValue(t, v) ==
  /\ kind = "value_count"
  /\ Arrive(t, {}, v)
  /\ \/ /\ v = NoVal
        /\ UNCHANGED <<distinct, lost>>
     \/ /\ v # NoVal
        /\ \E allocated \in BOOLEAN :
             /\ distinct' = ObserveValue(distinct, v, t, t - Span, allocated)
             /\ lost' = (lost \/ ~allocated)
  /\ UNCHANGED <<windows, seen, ordered, fires, lastFire>>

\* eval_temporal.
SeeBases(t, hits) ==
  /\ kind = "temporal"
  /\ Arrive(t, hits, NoVal)
  /\ seen' = RecordSeen(seen, hits, t, t - Span)
  /\ Verdict(TemporalHolds(seen', merge.seen, hasCond))
  /\ UNCHANGED <<windows, distinct, ordered, lost>>

\* temporal_ordered with a condition keeps the seen table too, and the condition
\* decides whether a completed sequence fires.
KeepSeen(t, hits) ==
  seen' = IF hasCond THEN RecordSeen(seen, hits, t, t - Span) ELSE seen

CondHolds == ~hasCond \/ Mask(seen', merge.seen) \in Accept

\* eval_temporal_ordered on the event as it comes.
Offer(t, hits) ==
  LET a == Advance(progress, HitBuf(hits), t, t - Span, clock # "processing")
  IN /\ progress' = a.progress
     /\ Verdict(a.fired /\ CondHolds)

OrderDirectly(t, hits) ==
  /\ kind = "temporal_ordered"
  /\ clock # "watermark"
  /\ Arrive(t, hits, NoVal)
  /\ KeepSeen(t, hits)
  /\ Offer(t, hits)
  /\ UNCHANGED <<windows, distinct, wm, wmMax, replayed, lost>>

BehindSlack(t) == wmMax > 0 /\ t + Slack < wmMax

\* eval_temporal_ordered_wm, event older than the slack: offered as it is.
OrderLate(t, hits) ==
  /\ kind = "temporal_ordered"
  /\ clock = "watermark"
  /\ BehindSlack(t)
  /\ Arrive(t, hits, NoVal)
  /\ KeepSeen(t, hits)
  /\ Offer(t, hits)
  /\ UNCHANGED <<windows, distinct, wm, wmMax, replayed, lost>>

\* eval_temporal_ordered_wm: hold the hits, replay what the slack has passed.
OrderHeld(t, hits) ==
  LET highest == Max({wmMax, t})
      pass    == Flush(progress, InsertHits(wm, hits, t), highest - Slack, t - Span)
  IN /\ kind = "temporal_ordered"
     /\ clock = "watermark"
     /\ ~BehindSlack(t)
     /\ Arrive(t, hits, NoVal)
     /\ KeepSeen(t, hits)
     /\ wmMax' = highest
     /\ wm' = pass.kept
     /\ progress' = pass.progress
     /\ Verdict(pass.fired /\ CondHolds)
     /\ replayed' = replayed \o pass.replayed
     /\ lost' = (lost \/ Len(wm) + Cardinality(hits) > WmCap)
     /\ UNCHANGED <<windows, distinct>>

-----------------------------------------------------------------------------
\* Contributions.  corr_contrib_kind_for says which kind another instance sends
\* for a correlation type; a DISTINCT one is CountValue.

\* CORR_CONTRIB_COUNT.
MergeEvents(t, c) ==
  /\ kind = "event_count"
  /\ Reach(t, {}, NoVal, CountOf(c), TRUE)
  /\ merge' = MergeCount(merge, 0, c)
  /\ ring' = Prune(ring, t - Span)
  /\ Verdict(CountHolds(ring', merge', op, Threshold))
  /\ UNCHANGED <<histogram, distinct, seen, ordered, lost>>

\* CORR_CONTRIB_SUM.
MergeValues(t, v, c) ==
  /\ kind \in {"value_sum", "value_avg"}
  /\ Reach(t, {}, v, CountOf(c), TRUE)
  /\ merge' = MergeCount(merge, v, c)
  /\ ring' = Prune(ring, t - Span)
  /\ Verdict(AggregateHolds(ring', merge'))
  /\ UNCHANGED <<histogram, distinct, seen, ordered, lost>>

\* CORR_CONTRIB_SEEN.
MergeBases(t, hits) ==
  /\ kind = "temporal"
  /\ Reach(t, hits, NoVal, 1, TRUE)
  /\ merge' = MergeSeen(merge, hits)
  /\ seen' = RecordSeen(seen, {}, t, t - Span)
  /\ Verdict(TemporalHolds(seen', merge'.seen, hasCond))
  /\ UNCHANGED <<ring, histogram, distinct, ordered, lost>>

Hits == SUBSET Bases \ {{}}

Next ==
  \E t \in Time :
    \/ CountEvent(t) \/ BeaconRaw(t) \/ BeaconBucketed(t)
    \/ \E v \in Vals \cup {NoVal} : AddValue(t, v) \/ CountValue(t, v)
    \/ \E hits \in Hits :
         SeeBases(t, hits) \/ OrderDirectly(t, hits)
         \/ OrderLate(t, hits) \/ OrderHeld(t, hits)
    \/ \E c \in Counts : MergeEvents(t, c) \/ \E v \in Vals : MergeValues(t, v, c)
    \/ \E hits \in Hits : hits \subseteq Masked /\ MergeBases(t, hits)

Spec == Init /\ [][Next]_vars

-----------------------------------------------------------------------------
\* The types; the bounded structures stay within their bounds.
TypeOK ==
  /\ ring \in RingOf(Time, Vals \cup {0})
  /\ histogram \in {NoHistogram} \cup [0 .. NBuckets - 1 -> {EmptySlot} \cup Nat]
  /\ distinct \in Seq([val : Vals, ts : Time]) /\ Len(distinct) <= MaxDistinct
  /\ DOMAIN seen \subseteq Bases /\ Cardinality(DOMAIN seen) <= MaxSeen
  /\ \A b \in DOMAIN seen : seen[b] \in Time
  /\ progress \in [step : 0 .. Len(Order) - 1, anchor : Time, last : Time]
  /\ wm \in Seq([ts : Time, rid : Bases]) /\ Len(wm) <= WmCap
  /\ wmMax \in Time
  /\ merge \in [n : 0 .. CountMod - 1, sum : Int, seen : SUBSET Masked]
  /\ fires \in BOOLEAN /\ lost \in BOOLEAN
  /\ log \in Seq([t : Time, hits : SUBSET Bases, v : Vals \cup {NoVal},
                  n : Nat, remote : BOOLEAN])
  /\ replayed \in Seq(Time)
  /\ lastFire \in 0 .. Settings[kind].maxLog

Events == DOMAIN log
Now    == log[Len(log)].t

InOrder == \A i, j \in Events : i < j => log[i].t <= log[j].t

InWindow(i) == log[i].t >= Now - Span

\* Nothing merged has left the window yet.
MergesLive == \A i \in Events : log[i].remote => InWindow(i)

\* The events that brought a value.
Valued == {i \in Events : log[i].v # NoVal}

LastOf(v) == Max({i \in Valued : log[i].v = v})

\* The values in the window of the last valued event, the newest MaxDistinct.
RecentValues ==
  LET now  == log[Max(Valued)].t
      live == {log[i].v : i \in {j \in Valued : log[j].t >= now - Span}}
  IN {v \in live : Cardinality({u \in live : LastOf(u) > LastOf(v)}) < MaxDistinct}

\* value_count counts exactly the distinct values in the window, or the
\* MaxDistinct most recent of them, when events come in order and allocation
\* succeeds: refreshing moves a value, evicting takes the right one.
DistinctExact ==
  kind = "value_count" /\ InOrder /\ ~lost /\ Valued # {} =>
    ValuesOf(distinct) = RecentValues /\ Len(distinct) = Cardinality(RecentValues)

\* The events up to k whose value a set without a capacity would hold after k: none since
\* brought the value again, and none since came with a window that starts after them.
Standing(k) ==
  {i \in Valued : i <= k /\ \A j \in Valued : i < j /\ j <= k =>
                    log[j].v # log[i].v /\ log[i].t >= log[j].t - Span}

\* Those that never had MaxDistinct newer ones standing with them.
Held ==
  {i \in Standing(Len(log)) : \A k \in i .. Len(log) :
      Cardinality({j \in Standing(k) : j > i}) < MaxDistinct}

\* Late events or not, a value_count group holds a value exactly from the last event
\* that brought it until one has a window that starts after that event, or until
\* max_distinct values came after it: expiry finds a late entry wherever recency put
\* it, and an entry that expires behind it does not bring back one evicted before.
DistinctHeld ==
  kind = "value_count" /\ ~lost =>
    /\ ToSet(distinct) = {[val |-> log[i].v, ts |-> log[i].t] : i \in Held}
    /\ Len(distinct) = Cardinality(Held)

SeenInWindow(those) == UNION {log[i].hits : i \in {j \in those : InWindow(j)}}

\* A temporal correlation fires exactly when all its base rules (or what its
\* condition asks for) were seen here or elsewhere within the window, for events
\* in order, contributions not older than the window, and as many base rules as
\* the mask has bits.
TemporalExact ==
  kind = "temporal" /\ InOrder /\ MergesLive /\ NBases <= MaxSeen /\ log # <<>> =>
    (fires <=> IF hasCond THEN SeenInWindow(Events) \in Accept
                          ELSE SeenInWindow(Events) = Bases)

\* Late events or not, every base rule the group saw itself was seen in the window:
\* a late timestamp may hide a newer one, never make one up, and a contribution
\* never revives one.
TemporalSound ==
  kind = "temporal" /\ log # <<>> =>
    Mask(seen, {}) \subseteq SeenInWindow({i \in Events : ~log[i].remote})

\* The events counted towards an aggregate.
Counted == {i \in Events : kind = "event_count" \/ log[i].v # NoVal}

\* How many events those entries of the log stand for, and what their values add up
\* to.
NumberOf(those) == MapThenSumSet(LAMBDA i : log[i].n, those)
TotalOf(those)  == MapThenSumSet(LAMBDA i : log[i].v, those)

\* The verdict over the events in the window, wherever they were seen.
VerdictOn(those) ==
  CASE kind = "event_count" -> Satisfies(op, NumberOf(those), Threshold)
    [] kind = "value_sum"   -> Satisfies(op, TotalOf(those), Threshold)
    [] kind = "value_avg"   -> /\ NumberOf(those) > 0
                               /\ Satisfies(op, TotalOf(those), Threshold * NumberOf(those))

\* An aggregate over what the group saw and what was merged into it is what one
\* instance that saw all the events in the window would decide: each contribution
\* delivered in order and within the window, no more events than the ring and
\* merge_n can hold, no failed allocation.
AggregateExact ==
  kind \in Aggregates /\ InOrder /\ MergesLive /\ ~lost /\ log # <<>>
  /\ NumberOf(Events) < CountMod
  /\ Cardinality(Events) <= MaxEvents =>
    (fires <=> VerdictOn({i \in Counted : InWindow(i)}))

\* "event_count, >=N base-rule matches, grouped, within a timespan"
\* (classify_corr.h): an event_count group fires only on so many in the window,
\* wherever they were seen.
CountsWithinTimespan ==
  kind = "event_count" /\ op = "gte" /\ InOrder /\ fires =>
    VerdictOn({i \in Events : InWindow(i)})

Epochs == {Epoch(log[i].t, Span) : i \in Events}

\* No event comes a whole window or more behind an earlier one.
WithinHorizon ==
  \A i, j \in Events :
    i < j => Epoch(log[j].t, Span) > Epoch(log[i].t, Span) - NBuckets

\* Bucketed beaconing decides on exactly the buckets of the window that had an
\* event, at every event that is not late, and late ones in between do no harm
\* unless they are a whole window late.
HistogramExact ==
  kind = "beaconing_bucketed" /\ ~lost /\ log # <<>> /\ WithinHorizon =>
    LET now == Epoch(Now, Span)
    IN now = Max(Epochs) =>
         (fires <=> PeriodicEpochs({e \in Epochs : e > now - NBuckets}, Threshold))

\* The events in the window, or the newest MaxEvents of them.
Recent == {i \in Events : InWindow(i) /\ i > Len(log) - MaxEvents}

\* Raw beaconing decides on the gaps between exactly these, the last ones of the
\* log, for events in order.
GapsExact ==
  kind = "beaconing" /\ InOrder /\ log # <<>> =>
    LET n == Cardinality(Recent)
    IN fires <=> PeriodicTimes([k \in 1 .. n |-> log[Len(log) - n + k].t], Threshold)

\* Events that make up the ordered sequence: f[j] brings step j.  They are in the
\* window of the event that completes it, or one event brings all of them (an order
\* that names one base rule only), which the watermark may release any time later.
IsSequence(f) ==
  /\ \A j \in DOMAIN Order : Order[j] \in log[f[j]].hits
  /\ InWindow(f[1]) \/ \A j \in DOMAIN Order : f[j] = f[1]

\* In event time the steps do not go back in time ...
TimeOrdered(f) ==
  \A i, j \in DOMAIN Order : i < j => log[f[i]].t <= log[f[j]].t

\* ... and without a watermark they come in arrival order, the last one with the
\* event that fires, the first one after the sequence that fired before.
ArrivalOrdered(f) ==
  /\ \A i, j \in DOMAIN Order : i < j => f[i] <= f[j]
  /\ f[Len(Order)] = Len(log)

\* A temporal_ordered fire is never fabricated: the log holds the steps in order,
\* within one window.  Greedy advance, reset, late events and replay included.
OrderedSound ==
  kind = "temporal_ordered" /\ fires =>
    \E f \in [DOMAIN Order -> Events] :
      /\ IsSequence(f)
      /\ clock # "processing" => TimeOrdered(f)
      /\ clock # "watermark" => ArrivalOrdered(f)

\* No event counts for two fires.
SequencesDisjoint ==
  [][kind = "temporal_ordered" /\ clock # "watermark" /\ fires' =>
       \E f \in [DOMAIN Order -> lastFire + 1 .. Len(log')] :
         \A j \in DOMAIN Order : Order[j] \in log'[f[j]].hits]_vars

\* Only hits within the slack of the newest event wait: nothing is held longer
\* than the slack once events go on.
PendingWithinSlack == \A i \in DOMAIN wm : wm[i].ts > wmMax - Slack

Sorted(s) == \A i, j \in DOMAIN s : i < j => s[i] <= s[j]

\* Across flushes, hits leave the buffer in event-time order, unless it
\* overflowed.
ReplayOrdered == ~lost => Sorted(replayed)

\* "Buffer out-of-order temporal_ordered hits and replay in event-time order"
\* (classify_corr.c, and classify_corr.h on watermark_s).
ReplayAlwaysOrdered == Sorted(replayed)
=============================================================================
