----------------------------- MODULE CorrWindow -----------------------------
(***************************************************************************)
(* The sliding window of one group as a state machine over its ring, with  *)
(* the log of the events it was given as a history variable.               *)
(*                                                                         *)
(* Events need not come in timestamp order: under event-time ordering, or  *)
(* with several workers, an event may carry a timestamp up to MaxLag       *)
(* behind the newest one seen.  MaxLag = 0 is the monotonic clock.         *)
(***************************************************************************)
EXTENDS CorrRing, Sequences

CONSTANTS
  Span,      \* timespan_s of the correlation
  MaxLag,    \* how far behind the newest timestamp an event may be
  MaxTime,   \* bound: the last timestamp
  Vals,      \* the numbers the value_field may parse to
  MaxLog     \* bound: how many events are stored

ASSUME WindowAssumption ==
  /\ Span \in Nat
  /\ MaxLag \in Nat
  /\ MaxTime \in Nat
  /\ Vals \subseteq Int
  /\ MaxLog \in Nat

VARIABLES
  ring,        \* the group's ring
  overwritten, \* events_overwritten, for this group
  now,         \* timestamp of the last event evaluated
  high,        \* the newest timestamp seen
  log          \* history: every event stored, in arrival order

vars == <<ring, overwritten, now, high, log>>

Time == 0 .. MaxTime

\* Timestamps reach 0 and not below: windowStart may be negative.
WindowStart(t) == t - Span

Init ==
  /\ ring = EmptyRing
  /\ overwritten = 0
  /\ now = 0
  /\ high = 0
  /\ log = <<>>

\* An event reaches the group with timestamp t.
Arrive(t) ==
  /\ t >= high - MaxLag
  /\ now' = t
  /\ high' = IF t > high THEN t ELSE high

\* Mutant of Observe: the overwrite is counted by the event that fills the ring.
ObserveCountsEarly(t, v) ==
  /\ Len(log) < MaxLog
  /\ Arrive(t)
  /\ ring' = Push(ring, WindowStart(t), t, v)
  /\ overwritten' = IF IsFull(Store(ring, t, v)) THEN overwritten + 1 ELSE overwritten
  /\ log' = Append(log, [t |-> t, v |-> v])

\* eval_event_count, or ev_push_val with the number the value_field parsed to.
Observe(t, v) ==
  /\ Len(log) < MaxLog
  /\ Arrive(t)
  /\ ring' = Push(ring, WindowStart(t), t, v)
  /\ overwritten' = IF IsFull(ring) THEN overwritten + 1 ELSE overwritten
  /\ log' = Append(log, [t |-> t, v |-> v])

\* Mutant of Age: a value that is no number does not age the window.
AgeSkipped(t) ==
  /\ Arrive(t)
  /\ UNCHANGED <<ring, overwritten, log>>

\* A value that is no number, or a COUNT or SUM contribution, ages the window
\* and stores nothing.
Age(t) ==
  /\ Arrive(t)
  /\ ring' = Prune(ring, WindowStart(t))
  /\ UNCHANGED <<overwritten, log>>

\* ev_val cannot be allocated: the event is dropped before the ring is touched.
\* ev_val is NULL exactly until the first value is stored.
Refuse(t) ==
  /\ log = <<>>
  /\ Arrive(t)
  /\ UNCHANGED <<ring, overwritten, log>>

Next ==
  \E t \in Time :
    \/ \E v \in Vals : Observe(t, v)
    \/ Age(t)
    \/ Refuse(t)

Spec == Init /\ [][Next]_vars

-----------------------------------------------------------------------------
\* How many logged events have left the ring; the live ones are the rest.
Gone == Len(log) - ring.len

\* The types of the variables: the ring indices stay inside the arrays.
TypeOK ==
  /\ ring \in RingOf(Int, Int)
  /\ overwritten \in Nat
  /\ now \in Time
  /\ high \in Time
  /\ log \in Seq([t : Time, v : Vals])

\* The circular arrays are a queue: the k-th live entry is the k-th of the
\* newest events logged, and its value is the value that came with its
\* timestamp (the lockstep of ev_ts and ev_val across overwrite and prune).
RingIsLogSuffix ==
  /\ ring.len <= Len(log)
  /\ \A k \in 0 .. ring.len - 1 :
       /\ TsAt(ring, k) = log[Gone + 1 + k].t
       /\ ValAt(ring, k) = log[Gone + 1 + k].v

\* An event that has left the ring is older than the window of the newest
\* event, or the ring was full and events_overwritten says so: nothing inside
\* the window is forgotten silently, late events or not.
LossIsCounted ==
  \A i \in 1 .. Gone :
    \/ log[i].t < high - Span
    \/ i <= Len(log) - MaxEvents /\ overwritten > 0

\* What the window counts is never older than the window by more than the lag
\* of the events.
StaleWithinLag ==
  \A k \in 0 .. ring.len - 1 : TsAt(ring, k) >= now - Span - MaxLag

\* The live entries of a ring, oldest first.
QueueOf(r) ==
  [k \in 1 .. r.len |-> [t |-> TsAt(r, k - 1), v |-> ValAt(r, k - 1)]]

Queue == INSTANCE CorrQueue WITH
           Cap <- MaxEvents, Times <- Time,
           queue <- QueueOf(ring), lost <- overwritten

\* The circular arrays implement a bounded queue: whatever the wrap-around, an
\* event joins at the back, an overwrite costs exactly the oldest one and is
\* counted, and the loop of ev_prune takes exactly the stale front.
ImplementsQueue == Queue!Spec

\* The events came in timestamp order, this one included.
InOrder ==
  /\ now = high
  /\ \A i, j \in 1 .. Len(log) : i < j => log[i].t <= log[j].t

\* When the events came in order the ring holds exactly those in the window,
\* among the newest MaxEvents: what event_count compares to its threshold and
\* the aggregates sum up.
WindowExact ==
  InOrder =>
    \A i \in 1 .. Len(log) :
      (i > Gone) <=> (log[i].t >= now - Span /\ i > Len(log) - MaxEvents)

\* The newest timestamp bounds the last one and every one logged.
HighIsNewest ==
  /\ now <= high /\ high <= now + MaxLag
  /\ \A i \in 1 .. Len(log) : log[i].t <= high

\* No event is further behind an earlier one than the lag.
LogWithinLag ==
  \A i, j \in 1 .. Len(log) : i < j => log[j].t >= log[i].t - MaxLag

\* The loop of ev_prune leaves a head inside the window.
HeadInWindow ==
  ring.len > 0 => TsAt(ring, 0) >= WindowStart(now)

\* The inductive invariant behind the properties above.
WindowInv ==
  /\ TypeOK
  /\ RingIsLogSuffix
  /\ LossIsCounted
  /\ HighIsNewest
  /\ LogWithinLag
  /\ HeadInWindow
=============================================================================
