----------------------------- MODULE CorrQueue ------------------------------
(***************************************************************************)
(* What the event ring of a group promises, without the ring: a queue of   *)
(* at most Cap events in arrival order.  An event that finds the queue     *)
(* full pushes the oldest one out, and that is counted; then, or when an   *)
(* event stores nothing, the events at the front that are older than the   *)
(* window leave.  CorrWindow implements it with the circular arrays.       *)
(***************************************************************************)
EXTENDS Integers, Sequences

CONSTANTS
  Cap,     \* how many events are kept
  Span,    \* timespan_s of the correlation
  Times,   \* the timestamps
  Vals     \* the numbers that come with them

VARIABLES
  queue,   \* the events that are counted, oldest arrival first
  lost     \* how many were pushed out while they might still count

\* An event at the back; the front makes way for it in a full queue.
Joined(q, e) ==
  IF Len(q) = Cap THEN Append(Tail(q), e) ELSE Append(q, e)

\* r is q without the events at its front that are older than start.
Aged(q, r, start) ==
  \E k \in 0 .. Len(q) :
    /\ r = SubSeq(q, k + 1, Len(q))
    /\ \A i \in 1 .. k : q[i].t < start
    /\ k < Len(q) => q[k + 1].t >= start

Init == queue = <<>> /\ lost = 0

Observe(t, v) ==
  /\ Aged(Joined(queue, [t |-> t, v |-> v]), queue', t - Span)
  /\ lost' = IF Len(queue) = Cap THEN lost + 1 ELSE lost

Age(t) ==
  /\ Aged(queue, queue', t - Span)
  /\ UNCHANGED lost

Next ==
  \E t \in Times :
    \/ \E v \in Vals : Observe(t, v)
    \/ Age(t)

Spec == Init /\ [][Next]_<<queue, lost>>
=============================================================================
